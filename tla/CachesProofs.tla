---------------------------- MODULE CachesProofs ----------------------------
(***************************************************************************)
(* What the two caches of a replica promise of their age: the callers,     *)
(* for every set of keys and requests, every ttl and size, and the weights *)
(* of the refresh task, for every set of candidates, interval and backoff  *)
(* and an outage of any length.                                            *)
(***************************************************************************)
EXTENDS CallerCache, Refresh, FiniteSetTheorems, TLAPS

-----------------------------------------------------------------------------
(* The caller cache.                                                       *)

\* What the steps need of the types.
Types ==
    /\ now \in Nat /\ now <= MaxTime
    /\ valid \in [Key -> BOOLEAN]
    /\ changed \in [Key -> Int]
    /\ \A k \in Key : Never <= changed[k] /\ changed[k] <= now
    /\ changes \in Nat /\ changes <= MaxChanges
    /\ cache \in Seq(Entry)
    /\ \A i \in 1 .. Len(cache) : cache[i].at <= now
    /\ lookup \in [Request -> Lookup \cup {Idle}]
    /\ \A q \in Request : lookup[q].now <= now

\* One entry for a key.
OneEntry ==
    \A i, j \in 1 .. Len(cache) : cache[i].key = cache[j].key => i = j

\* An entry stamped after the last change of its row has the row's verdict.
EntriesTrue ==
    \A i \in 1 .. Len(cache) : cache[i].at > changed[cache[i].key] =>
        (cache[i].caller <=> valid[cache[i].key])

\* So has an answer that a request is about to store.
AnswersTrue ==
    \A q \in Request :
        lookup[q] # Idle /\ lookup[q].caller # "asked"
            /\ lookup[q].now > changed[lookup[q].key] =>
        (lookup[q].caller = "enabled" <=> valid[lookup[q].key])

IInv == Types /\ OneEntry /\ Len(cache) <= MaxSize /\ EntriesTrue /\ AnswersTrue

-----------------------------------------------------------------------------
\* The OrderedDict after an assignment and a move_to_end: one entry of the key,
\* which is new or took the place of the old one; all others are kept.
LEMMA PutLastFacts ==
    ASSUME cache \in Seq(Entry), OneEntry, NEW e \in Entry
    PROVE  /\ PutLast(e) \in Seq(Entry)
           /\ Len(PutLast(e)) = IF Places(e.key) = {} THEN Len(cache) + 1 ELSE Len(cache)
           /\ \A i \in 1 .. Len(PutLast(e)) :
                  PutLast(e)[i] = e \/ \E j \in 1 .. Len(cache) : PutLast(e)[i] = cache[j]
           /\ \A i, j \in 1 .. Len(PutLast(e)) :
                  PutLast(e)[i].key = PutLast(e)[j].key => i = j
<1>1. PICK n \in Nat : n = Len(cache) /\ DOMAIN cache = 1 .. n
  OBVIOUS
<1>2. \A i \in 1 .. n : cache[i] \in Entry
  BY <1>1
<1>3. CASE Places(e.key) = {}
  <2>1. PutLast(e) = Append(cache, e)
    BY <1>3 DEF PutLast
  <2>2. /\ PutLast(e) \in Seq(Entry) /\ Len(PutLast(e)) = n + 1
        /\ \A i \in 1 .. n : PutLast(e)[i] = cache[i]
        /\ PutLast(e)[n + 1] = e
    BY <1>1, <2>1
  <2>3. \A i \in 1 .. n : cache[i].key # e.key
    BY <1>1, <1>3 DEF Places
  <2>4. \A i \in 1 .. n + 1 : i \in 1 .. n \/ i = n + 1
    OBVIOUS
  <2>5. \A i, j \in 1 .. n + 1 : PutLast(e)[i].key = PutLast(e)[j].key => i = j
    BY <1>1, <2>2, <2>3, <2>4 DEF OneEntry
  <2> QED
    BY <1>1, <1>3, <2>2, <2>4, <2>5
<1>4. CASE Places(e.key) # {}
  <2> DEFINE m == CHOOSE i \in Places(e.key) : TRUE
             p == [j \in 1 .. n |-> IF j < m THEN cache[j]
                                    ELSE IF j < n THEN cache[j + 1]
                                    ELSE e]
  <2>1. m \in 1 .. n /\ cache[m].key = e.key
    BY <1>1, <1>4 DEF Places
  <2>2. PutLast(e) = p
    BY <1>1, <1>4 DEF PutLast
  <2> HIDE DEF m
  <2>3. \A j \in 1 .. n : j < n => j + 1 \in 1 .. n
    BY <1>1
  <2>4. \A j \in 1 .. n : p[j] \in Entry
    BY <1>2, <2>1, <2>3
  <2>5. p \in Seq(Entry) /\ Len(p) = n
    BY <2>4
  <2>6. \A i \in 1 .. n : p[i] = e \/ \E j \in 1 .. n : p[i] = cache[j]
    BY <2>1, <2>3
  <2>7. \A i \in 1 .. n : i # m => cache[i].key # e.key
    BY <1>1, <2>1 DEF OneEntry
  <2>8. \A i, j \in 1 .. n : p[i].key = p[j].key => i = j
    <3>1. SUFFICES ASSUME NEW i \in 1 .. n, NEW j \in 1 .. n, i < j
                   PROVE  p[i].key # p[j].key
      OBVIOUS
    <3> DEFINE a == IF i < m THEN i ELSE i + 1
               b == IF j < m THEN j ELSE j + 1
    <3>2. a \in 1 .. n /\ a # m /\ p[i] = cache[a]
      BY <3>1, <2>1
    <3>3. CASE j < m \/ j < n
      <4>1. b \in 1 .. n /\ b # a /\ p[j] = cache[b]
        BY <3>1, <3>3, <2>1
      <4> QED
        BY <1>1, <3>2, <4>1 DEF OneEntry
    <3>4. CASE ~(j < m \/ j < n)
      <4>1. p[j] = e
        BY <3>4
      <4> QED
        BY <3>2, <2>7, <4>1
    <3> QED
      BY <3>3, <3>4
  <2> HIDE DEF p
  <2> QED
    BY <1>1, <1>4, <2>2, <2>5, <2>6, <2>8
<1> QED
  BY <1>3, <1>4

\* What may leave the cache is its first entry.
LEMMA EvictFacts ==
    ASSUME NEW s \in Seq(Entry), Len(s) <= MaxSize + 1, MaxSize \in Nat \ {0},
           \A i, j \in 1 .. Len(s) : s[i].key = s[j].key => i = j
    PROVE  /\ Evict(s) \in Seq(Entry)
           /\ Len(Evict(s)) <= MaxSize
           /\ \A i \in 1 .. Len(Evict(s)) : \E j \in 1 .. Len(s) : Evict(s)[i] = s[j]
           /\ \A i, j \in 1 .. Len(Evict(s)) : Evict(s)[i].key = Evict(s)[j].key => i = j
<1>1. PICK n \in Nat : n = Len(s)
  OBVIOUS
<1>2. CASE n > MaxSize
  <2>1. s # <<>> /\ Evict(s) = Tail(s)
    BY <1>1, <1>2 DEF Evict
  <2>2. /\ Tail(s) \in Seq(Entry) /\ Len(Tail(s)) = n - 1
        /\ \A i \in 1 .. n - 1 : Tail(s)[i] = s[i + 1]
    BY <1>1, <2>1
  <2>3. \A i \in 1 .. n - 1 : i + 1 \in 1 .. n
    BY <1>1
  <2>4. \A i, j \in 1 .. n - 1 : i + 1 = j + 1 => i = j
    OBVIOUS
  <2> QED
    BY <1>1, <1>2, <2>1, <2>2, <2>3, <2>4
<1>3. CASE ~(n > MaxSize)
  BY <1>1, <1>3 DEF Evict
<1> QED
  BY <1>2, <1>3

-----------------------------------------------------------------------------
LEMMA EntryTypes ==
    ASSUME Types
    PROVE  \A i \in 1 .. Len(cache) :
               /\ cache[i] \in Entry
               /\ cache[i].key \in Key
               /\ cache[i].at \in Nat
               /\ cache[i].caller \in BOOLEAN
<1>1. \A i \in 1 .. Len(cache) : cache[i] \in Entry
  BY DEF Types
<1>2. \A e \in Entry : e.key \in Key /\ e.at \in Nat /\ e.caller \in BOOLEAN
  BY DEF Entry
<1> QED
  BY <1>1, <1>2

LEMMA InitHolds == Init => IInv
<1> SUFFICES ASSUME Init PROVE IInv
  OBVIOUS
<1>1. cache \in Seq(Entry) /\ Len(cache) = 0
  BY DEF Init
<1>2. \A q \in Request : lookup[q] = Idle
  BY DEF Init
<1>3. Types
  BY <1>1, <1>2, CacheAssumption DEF Init, Types, Idle, Never
<1> QED
  BY <1>1, <1>2, <1>3, CacheAssumption DEF IInv, OneEntry, EntriesTrue, AnswersTrue

LEMMA HitsStep ==
    ASSUME IInv, NEW q \in Request, NEW k \in Key, Hits(q, k)
    PROVE  IInv'
<1>1. PICK e \in Fresh(k) : cache' = PutLast(e)
  BY DEF Hits
<1>2. PICK i \in 1 .. Len(cache) : e = cache[i] /\ e.key = k
  BY <1>1 DEF Fresh, Entries, IInv, Types
<1>3. e \in Entry /\ Places(e.key) # {} /\ cache \in Seq(Entry) /\ OneEntry
  BY <1>2 DEF Places, IInv, Types
<1>4. /\ cache' \in Seq(Entry)
      /\ Len(cache') = Len(cache)
      /\ \A m \in 1 .. Len(cache') : \E j \in 1 .. Len(cache) : cache'[m] = cache[j]
      /\ OneEntry'
  <2> DEFINE p == PutLast(e)
  <2>1. /\ p \in Seq(Entry)
        /\ Len(p) = IF Places(e.key) = {} THEN Len(cache) + 1 ELSE Len(cache)
        /\ \A m \in 1 .. Len(p) : p[m] = e \/ \E j \in 1 .. Len(cache) : p[m] = cache[j]
        /\ \A m, j \in 1 .. Len(p) : p[m].key = p[j].key => m = j
    BY <1>3, PutLastFacts, Zenon
  <2>2. cache' = p
    BY <1>1
  <2> HIDE DEF p
  <2> QED
    BY <1>2, <1>3, <2>1, <2>2 DEF OneEntry
<1>5. UNCHANGED <<now, valid, changed, changes, lookup>>
  BY DEF Hits, table
<1>6. Types'
  BY <1>4, <1>5 DEF IInv, Types
<1>7. EntriesTrue'
  BY <1>4, <1>5 DEF IInv, EntriesTrue
<1>8. AnswersTrue'
  BY <1>5 DEF IInv, AnswersTrue
<1> QED
  BY <1>4, <1>6, <1>7, <1>8 DEF IInv

LEMMA MissesStep ==
    ASSUME IInv, NEW q \in Request, NEW k \in Key, Misses(q, k)
    PROVE  IInv'
<1> DEFINE new == [key |-> k, now |-> now, caller |-> "asked"]
<1>1. UNCHANGED <<now, valid, changed, changes, cache>> /\ lookup' = [lookup EXCEPT ![q] = new]
  BY DEF Misses, table
<1>2. new \in Lookup /\ new.now = now /\ new.caller = "asked"
  BY DEF IInv, Types, Lookup
<1> HIDE DEF new
<1>3. Types'
  BY <1>1, <1>2 DEF IInv, Types
<1>4. OneEntry' /\ EntriesTrue' /\ Len(cache') <= MaxSize
  BY <1>1 DEF IInv, OneEntry, EntriesTrue
<1>5. AnswersTrue'
  BY <1>1, <1>2 DEF IInv, Types, AnswersTrue
<1> QED
  BY <1>3, <1>4, <1>5 DEF IInv

\* The row read at this moment is the row of this moment.
LEMMA RowIsReadStep ==
    ASSUME IInv, NEW q \in Request, RowIsRead(q)
    PROVE  IInv'
<1> DEFINE new == [lookup[q] EXCEPT !.caller = IF valid[lookup[q].key] THEN "enabled" ELSE "none"]
<1>1. UNCHANGED <<now, valid, changed, changes, cache>> /\ lookup' = [lookup EXCEPT ![q] = new]
  BY DEF RowIsRead, table
<1>2. lookup[q] \in Lookup
  BY DEF RowIsRead, IInv, Types, Idle
<1>3. /\ new \in Lookup /\ new.now = lookup[q].now /\ new.key = lookup[q].key
      /\ new.caller = IF valid[new.key] THEN "enabled" ELSE "none"
  BY <1>2 DEF Lookup
<1> HIDE DEF new
<1>4. Types'
  BY <1>1, <1>3 DEF IInv, Types
<1>5. OneEntry' /\ EntriesTrue' /\ Len(cache') <= MaxSize
  BY <1>1 DEF IInv, OneEntry, EntriesTrue
<1>6. new.caller = "enabled" <=> valid[new.key]
  BY <1>3
<1>7. AnswersTrue'
  BY <1>1, <1>6 DEF IInv, Types, AnswersTrue
<1> QED
  BY <1>4, <1>5, <1>7 DEF IInv

LEMMA LookupFailsStep ==
    ASSUME IInv, NEW q \in Request, LookupFails(q)
    PROVE  IInv'
<1>1. UNCHANGED <<now, valid, changed, changes, cache>> /\ lookup' = [lookup EXCEPT ![q] = Idle]
  BY DEF LookupFails, table
<1>2. Idle.now = 0
  BY DEF Idle
<1>3. Types'
  BY <1>1, <1>2 DEF IInv, Types
<1>4. OneEntry' /\ EntriesTrue' /\ Len(cache') <= MaxSize
  BY <1>1 DEF IInv, OneEntry, EntriesTrue
<1>5. AnswersTrue'
  BY <1>1 DEF IInv, Types, AnswersTrue
<1> QED
  BY <1>3, <1>4, <1>5 DEF IInv

LEMMA StoresStep ==
    ASSUME IInv, NEW q \in Request, Stores(q)
    PROVE  IInv'
<1> DEFINE e == [key |-> lookup[q].key, at |-> Stamp(q), caller |-> lookup[q].caller = "enabled"]
<1>1. /\ cache' = Evict(PutLast(e))
      /\ lookup' = [lookup EXCEPT ![q] = Idle]
      /\ UNCHANGED <<now, valid, changed, changes>>
  BY DEF Stores, table
<1>2. lookup[q] \in Lookup /\ lookup[q] # Idle /\ lookup[q].caller # "asked"
  BY DEF Stores, IInv, Types, Idle
<1>3. /\ e \in Entry /\ e.key = lookup[q].key /\ e.at = lookup[q].now
      /\ e.caller <=> lookup[q].caller = "enabled"
  BY <1>2, Zenon DEF Lookup, Entry, Stamp
<1>4. e.at <= now
  BY <1>3 DEF IInv, Types
<1>5. e.at > changed[e.key] => (e.caller <=> valid[e.key])
  BY <1>2, <1>3 DEF IInv, AnswersTrue
<1> HIDE DEF e
<1> DEFINE p == PutLast(e)
<1>6. /\ p \in Seq(Entry) /\ Len(p) <= MaxSize + 1
      /\ \A i \in 1 .. Len(p) : p[i] = e \/ \E j \in 1 .. Len(cache) : p[i] = cache[j]
      /\ \A i, j \in 1 .. Len(p) : p[i].key = p[j].key => i = j
  <2>1. cache \in Seq(Entry) /\ OneEntry /\ Len(cache) <= MaxSize
    BY DEF IInv, Types
  <2>2. Len(p) = IF Places(e.key) = {} THEN Len(cache) + 1 ELSE Len(cache)
    BY <1>3, <2>1, PutLastFacts
  <2>3. Len(p) <= MaxSize + 1
    BY <2>1, <2>2, CacheAssumption
  <2> QED
    BY <1>3, <2>1, <2>3, PutLastFacts
<1> HIDE DEF p
<1>7. /\ cache' \in Seq(Entry) /\ Len(cache') <= MaxSize
      /\ \A i \in 1 .. Len(cache') : \E j \in 1 .. Len(p) : cache'[i] = p[j]
      /\ OneEntry'
  <2>1. cache' = Evict(p)
    BY <1>1 DEF p
  <2>2. /\ Evict(p) \in Seq(Entry) /\ Len(Evict(p)) <= MaxSize
        /\ \A i \in 1 .. Len(Evict(p)) : \E j \in 1 .. Len(p) : Evict(p)[i] = p[j]
        /\ \A i, j \in 1 .. Len(Evict(p)) : Evict(p)[i].key = Evict(p)[j].key => i = j
    BY <1>6, CacheAssumption, EvictFacts, Zenon
  <2> QED
    BY <2>1, <2>2 DEF OneEntry
<1>8. \A i \in 1 .. Len(cache') :
          cache'[i] = e \/ \E j \in 1 .. Len(cache) : cache'[i] = cache[j]
  BY <1>6, <1>7
<1>9. Types'
  <2>1. \A i \in 1 .. Len(cache') : cache'[i].at <= now'
    BY <1>1, <1>4, <1>8 DEF IInv, Types
  <2>2. Idle.now = 0
    BY DEF Idle
  <2> QED
    BY <1>1, <1>7, <2>1, <2>2 DEF IInv, Types
<1>10. EntriesTrue'
  BY <1>1, <1>5, <1>8 DEF IInv, EntriesTrue
<1>11. AnswersTrue'
  BY <1>1 DEF IInv, Types, AnswersTrue
<1> QED
  BY <1>7, <1>9, <1>10, <1>11 DEF IInv

\* Nothing is stamped later than now, so nothing is stamped after this change.
LEMMA RowChangesStep ==
    ASSUME IInv, NEW k \in Key, RowChanges(k)
    PROVE  IInv'
<1>1. /\ changes < MaxChanges /\ changes' = changes + 1
      /\ valid' = [valid EXCEPT ![k] = ~valid[k]]
      /\ changed' = [changed EXCEPT ![k] = now]
      /\ UNCHANGED <<now, cache, lookup>>
  BY DEF RowChanges
<1>2. Types'
  BY <1>1, CacheAssumption DEF IInv, Types, Never
<1>3. OneEntry' /\ Len(cache') <= MaxSize
  BY <1>1 DEF IInv, OneEntry
<1>4. EntriesTrue'
  <2> SUFFICES ASSUME NEW i \in 1 .. Len(cache), cache[i].at > changed'[cache[i].key]
               PROVE  cache[i].caller <=> valid'[cache[i].key]
    BY <1>1 DEF EntriesTrue
  <2>1. cache[i].key \in Key /\ cache[i].at \in Nat /\ cache[i].at <= now
    BY EntryTypes DEF IInv, Types
  <2>2. cache[i].key # k
    BY <1>1, <2>1 DEF IInv, Types
  <2> QED
    BY <1>1, <2>1, <2>2 DEF IInv, Types, EntriesTrue
<1>5. AnswersTrue'
  <2> SUFFICES ASSUME NEW q \in Request, lookup[q] # Idle, lookup[q].caller # "asked",
                      lookup[q].now > changed'[lookup[q].key]
               PROVE  lookup[q].caller = "enabled" <=> valid'[lookup[q].key]
    BY <1>1 DEF AnswersTrue
  <2>1. lookup[q].key \in Key /\ lookup[q].now \in Nat /\ lookup[q].now <= now
    BY DEF IInv, Types, Lookup
  <2>2. lookup[q].key # k
    BY <1>1, <2>1 DEF IInv, Types
  <2> QED
    BY <1>1, <2>1, <2>2 DEF IInv, Types, AnswersTrue
<1> QED
  BY <1>2, <1>3, <1>4, <1>5 DEF IInv

LEMMA TickStep ==
    ASSUME IInv, Tick
    PROVE  IInv'
<1>1. now < MaxTime /\ now' = now + 1 /\ UNCHANGED <<valid, changed, changes, cache, lookup>>
  BY DEF Tick, table
<1>2. Types'
  <2>1. \A i \in 1 .. Len(cache) : cache[i].at \in Nat
    BY EntryTypes DEF IInv
  <2>2. \A q \in Request : lookup[q].now \in Nat
    BY DEF IInv, Types, Lookup, Idle
  <2> QED
    BY <1>1, <2>1, <2>2, CacheAssumption DEF IInv, Types
<1>3. OneEntry' /\ EntriesTrue' /\ AnswersTrue' /\ Len(cache') <= MaxSize
  BY <1>1 DEF IInv, OneEntry, EntriesTrue, AnswersTrue
<1> QED
  BY <1>2, <1>3 DEF IInv

LEMMA Inductive == Spec => []IInv
<1>1. IInv /\ [Next]_vars => IInv'
  <2> SUFFICES ASSUME IInv, [Next]_vars PROVE IInv'
    OBVIOUS
  <2>1. CASE UNCHANGED vars
    BY <2>1 DEF vars, table, IInv, Types, OneEntry, EntriesTrue, AnswersTrue
  <2> QED
    BY <2>1, HitsStep, MissesStep, RowIsReadStep, LookupFailsStep, StoresStep,
       RowChangesStep, TickStep DEF Next
<1> QED
  BY <1>1, InitHolds, PTL DEF Spec

-----------------------------------------------------------------------------
\* Type correctness: the cache is a sequence of entries none of which, like no
\* waiting request, carries a time in the future.
THEOREM TypeCorrect == Spec => []TypeOK
<1>1. IInv => TypeOK
  <2> SUFFICES ASSUME IInv PROVE TypeOK
    OBVIOUS
  <2>1. now \in 0 .. MaxTime /\ changes \in 0 .. MaxChanges
    BY CacheAssumption DEF IInv, Types
  <2>2. changed \in [Key -> (0 .. now) \cup {Never}]
    BY DEF IInv, Types, Never
  <2>3. \A e \in Entries : e.at <= now
    BY DEF IInv, Types, Entries
  <2> QED
    BY <2>1, <2>2, <2>3 DEF IInv, Types, TypeOK
<1> QED
  BY <1>1, Inductive, PTL

\* resolve_bearer keeps at most cache_maxsize entries, one for a key, whatever
\* the number of requests that wait for the database and store their answers.
THEOREM CacheBounded == Spec => []SizeBounded
<1>1. IInv => SizeBounded
  <2> SUFFICES ASSUME IInv, NEW k \in Key PROVE Cardinality(Places(k)) <= 1
    BY DEF SizeBounded, IInv
  <2>1. CASE Places(k) = {}
    BY <2>1, FS_EmptySet
  <2>2. CASE Places(k) # {}
    <3>1. PICK i \in Places(k) : TRUE
      BY <2>2
    <3>2. Places(k) = {i}
      BY <3>1 DEF Places, IInv, Types, OneEntry
    <3>3. Cardinality(Places(k)) = 1
      BY <3>2, FS_Singleton
    <3> QED
      BY <3>3
  <2> QED
    BY <2>1, <2>2
<1> QED
  BY <1>1, Inductive, PTL

\* cache_ttl_s after a row of the callers table changed, every entry that the
\* resolver still uses has the row's verdict, for every ttl and every order of
\* overlapping queries.
THEOREM ChangeIsSeen == Spec => []ChangeTakesEffect
<1>1. IInv => ChangeTakesEffect
  <2> SUFFICES ASSUME IInv, NEW k \in Key, now >= changed[k] + Ttl, NEW e \in Fresh(k)
               PROVE  e.caller = valid[k]
    BY DEF ChangeTakesEffect
  <2>1. PICK i \in 1 .. Len(cache) : e = cache[i] /\ e.key = k /\ now - e.at < Ttl
    BY DEF Fresh, Entries, IInv, Types
  <2>2. e \in Entry /\ changed[k] \in Int /\ now \in Nat
    BY <2>1 DEF IInv, Types
  <2>3. e.at \in Nat /\ e.caller \in BOOLEAN /\ valid[k] \in BOOLEAN
    BY <2>2 DEF Entry, IInv, Types
  <2>4. e.at > changed[k]
    BY <2>1, <2>2, <2>3, CacheAssumption
  <2>5. e.caller <=> valid[k]
    BY <2>1, <2>4 DEF IInv, EntriesTrue
  <2>6. CASE valid[k] = TRUE
    BY <2>3, <2>5, <2>6
  <2>7. CASE valid[k] = FALSE
    BY <2>3, <2>5, <2>7
  <2> QED
    BY <2>3, <2>6, <2>7
<1> QED
  BY <1>1, Inductive, PTL

-----------------------------------------------------------------------------
(* The refresh task and the weight cache it replaces.                      *)

\* What the steps need of the types.
Typing ==
    /\ clock \in Nat /\ clock <= MaxClock
    /\ up_since \in Nat \cup {Nil} /\ up_since <= clock
    /\ loop \in LoopPlaces
    /\ began \in Nat /\ began <= clock
    /\ out \subseteq Candidate
    /\ wakes_at \in Nat
    /\ failures \in Nat
    /\ weight_cache \in [Candidate -> Nat]
    /\ \A c \in Candidate : weight_cache[c] <= began
    /\ asked \in Nat \cup {Nil} /\ asked <= clock
    /\ stopped \in {"no", "returned", "raised"}

Running == ~Stopping /\ loop # "crashed"
InTick == loop \in {"snapshot", "reading"}
Between == loop \in {"waiting", "head"}

\* The clock never passes the end of a wait, and a tick takes MaxTick at most.
Paced ==
    /\ loop = "waiting" => clock <= wakes_at /\ wakes_at <= clock + MaxBackoff
    /\ loop = "head" /\ ~Stopping => clock = wakes_at
    /\ InTick => clock <= began + MaxTick
    /\ loop = "ended" => Stopping

\* A task that was told to stop is in the tick it was in, or past it.
Stops ==
    Stopping => /\ began <= asked
                /\ loop \in {"ended", "crashed"} \/ clock <= asked + MaxTick

\* After a successful tick the cache is that tick's until the next one begins.
AfterSuccess ==
    Running /\ failures = 0 =>
        /\ Between => \A c \in Candidate : wakes_at <= weight_cache[c] + Base + MaxTick
        /\ InTick => \A c \in Candidate : began <= weight_cache[c] + Base + MaxTick

\* After a failed one the next begins MaxBackoff after Redis came back at the
\* latest.
AfterFailure ==
    Running /\ failures > 0 /\ Up =>
        /\ Between => wakes_at <= up_since + MaxBackoff
        /\ InTick => began <= up_since + MaxBackoff

RefreshInv ==
    Typing /\ CacheIsOneTick /\ Paced /\ Stops /\ AfterSuccess /\ AfterFailure

-----------------------------------------------------------------------------
LEMMA BackoffBounded == \A n \in Nat \ {0} : Backoff(n) \in Int /\ Backoff(n) <= MaxBackoff
<1> SUFFICES ASSUME NEW n \in Nat \ {0} PROVE Backoff(n) \in Int /\ Backoff(n) <= MaxBackoff
  OBVIOUS
<1>1. 2 ^ (n - 1) \in Int
  OBVIOUS
<1>2. Base * 2 ^ (n - 1) \in Int
  BY <1>1, RefreshAssumption
<1> QED
  BY <1>2, RefreshAssumption DEF Backoff

LEMMA RefreshInitHolds == RefreshInit => RefreshInv
<1> USE DEF RefreshInit, Nil, Up, Stopping, Running, InTick, Between, LoopPlaces
<1>1. RefreshInit => Typing /\ CacheIsOneTick
  BY RefreshAssumption DEF Typing, CacheIsOneTick
<1>2. RefreshInit => Paced /\ Stops
  BY RefreshAssumption DEF Paced, Stops
<1>3. RefreshInit => AfterSuccess /\ AfterFailure
  BY RefreshAssumption DEF AfterSuccess, AfterFailure
<1> QED
  BY <1>1, <1>2, <1>3 DEF RefreshInv

\* The tick begins when the wait is over.
LEMMA LoopBeginsStep == RefreshInv /\ LoopBegins => RefreshInv'
<1> SUFFICES ASSUME RefreshInv, LoopBegins PROVE RefreshInv'
  OBVIOUS
<1> USE DEF RefreshInv, Typing, LoopBegins, Nil, Up, Stopping, Running, InTick, Between,
           LoopPlaces
<1>1. Typing'
  BY RefreshAssumption
<1>2. CacheIsOneTick'
  BY RefreshAssumption DEF CacheIsOneTick
<1>3. Paced'
  BY RefreshAssumption DEF Paced
<1>4. Stops'
  BY RefreshAssumption DEF Paced, Stops
<1>5. AfterSuccess'
  BY RefreshAssumption DEF Paced, AfterSuccess
<1>6. AfterFailure'
  BY RefreshAssumption DEF Paced, AfterFailure
<1> QED
  BY <1>1, <1>2, <1>3, <1>4, <1>5, <1>6

LEMMA LoopEndsStep == RefreshInv /\ LoopEnds => RefreshInv'
<1> SUFFICES ASSUME RefreshInv, LoopEnds PROVE RefreshInv'
  OBVIOUS
<1> USE DEF RefreshInv, Typing, LoopEnds, Nil, Up, Stopping, Running, InTick, Between,
           LoopPlaces
<1>1. Typing'
  BY RefreshAssumption
<1>2. CacheIsOneTick'
  BY RefreshAssumption DEF CacheIsOneTick
<1>3. Paced'
  BY RefreshAssumption DEF Paced
<1>4. Stops'
  BY RefreshAssumption DEF Paced, Stops
<1>5. AfterSuccess'
  BY RefreshAssumption DEF Paced, AfterSuccess
<1>6. AfterFailure'
  BY RefreshAssumption DEF Paced, AfterFailure
<1> QED
  BY <1>1, <1>2, <1>3, <1>4, <1>5, <1>6

LEMMA RefreshesSnapshotStep == RefreshInv /\ RefreshesSnapshot => RefreshInv'
<1> SUFFICES ASSUME RefreshInv, RefreshesSnapshot PROVE RefreshInv'
  OBVIOUS
<1> USE DEF RefreshInv, Typing, RefreshesSnapshot, Nil, Up, Stopping, Running, InTick, Between,
           LoopPlaces
<1>1. Typing'
  BY RefreshAssumption
<1>2. CacheIsOneTick'
  BY RefreshAssumption DEF CacheIsOneTick
<1>3. Paced'
  BY RefreshAssumption DEF Paced
<1>4. Stops'
  BY RefreshAssumption DEF Paced, Stops
<1>5. AfterSuccess'
  BY RefreshAssumption DEF Paced, AfterSuccess
<1>6. AfterFailure'
  BY RefreshAssumption DEF Paced, AfterFailure
<1> QED
  BY <1>1, <1>2, <1>3, <1>4, <1>5, <1>6

LEMMA ReadsStep == RefreshInv /\ Reads => RefreshInv'
<1> SUFFICES ASSUME RefreshInv, Reads PROVE RefreshInv'
  OBVIOUS
<1> USE DEF RefreshInv, Typing, Reads, Nil, Up, Stopping, Running, InTick, Between, LoopPlaces
<1>1. Typing'
  BY RefreshAssumption
<1>2. CacheIsOneTick'
  BY RefreshAssumption DEF CacheIsOneTick
<1>3. Paced'
  BY RefreshAssumption DEF Paced
<1>4. Stops'
  BY RefreshAssumption DEF Paced, Stops
<1>5. AfterSuccess'
  BY RefreshAssumption DEF Paced, AfterSuccess
<1>6. AfterFailure'
  BY RefreshAssumption DEF Paced, AfterFailure
<1> QED
  BY <1>1, <1>2, <1>3, <1>4, <1>5, <1>6

\* update_cache replaces the whole cache by the reads of this tick.
LEMMA TickSucceedsStep == RefreshInv /\ TickSucceeds => RefreshInv'
<1> SUFFICES ASSUME RefreshInv, TickSucceeds PROVE RefreshInv'
  OBVIOUS
<1> USE DEF RefreshInv, Typing, TickSucceeds, Nil, Up, Stopping, Running, InTick, Between,
           LoopPlaces
<1>1. Typing'
  BY RefreshAssumption
<1>2. CacheIsOneTick'
  BY RefreshAssumption DEF CacheIsOneTick
<1>3. Paced'
  BY RefreshAssumption DEF Paced
<1>4. Stops'
  BY RefreshAssumption DEF Paced, Stops
<1>5. AfterSuccess'
  BY RefreshAssumption DEF Paced, AfterSuccess
<1>6. AfterFailure'
  BY RefreshAssumption DEF Paced, AfterFailure
<1> QED
  BY <1>1, <1>2, <1>3, <1>4, <1>5, <1>6

\* A tick fails only while Redis is away, so it comes back later than this.
LEMMA TickFailsStep == RefreshInv /\ TickFails => RefreshInv'
<1> SUFFICES ASSUME RefreshInv, TickFails PROVE RefreshInv'
  OBVIOUS
<1>0. PICK wait \in Nat : wait <= MaxBackoff /\ wakes_at' = clock + wait
  BY BackoffBounded, RefreshAssumption DEF TickFails, RefreshInv, Typing
<1> USE DEF RefreshInv, Typing, TickFails, Nil, Up, Stopping, Running, InTick, Between,
           LoopPlaces
<1>1. Typing'
  BY <1>0, RefreshAssumption
<1>2. CacheIsOneTick'
  BY <1>0, RefreshAssumption DEF CacheIsOneTick
<1>3. Paced'
  BY <1>0, RefreshAssumption DEF Paced
<1>4. Stops'
  BY <1>0, RefreshAssumption DEF Paced, Stops
<1>5. AfterSuccess'
  BY <1>0, RefreshAssumption DEF Paced, AfterSuccess
<1>6. AfterFailure'
  BY <1>0, RefreshAssumption DEF Paced, AfterFailure
<1> QED
  BY <1>1, <1>2, <1>3, <1>4, <1>5, <1>6

LEMMA BackoffOverflowsStep == RefreshInv /\ BackoffOverflows => RefreshInv'
<1> SUFFICES ASSUME RefreshInv, BackoffOverflows PROVE RefreshInv'
  OBVIOUS
<1> USE DEF RefreshInv, Typing, BackoffOverflows, Nil, Up, Stopping, Running, InTick, Between,
           LoopPlaces
<1>1. Typing'
  BY RefreshAssumption
<1>2. CacheIsOneTick'
  BY RefreshAssumption DEF CacheIsOneTick
<1>3. Paced'
  BY RefreshAssumption DEF Paced
<1>4. Stops'
  BY RefreshAssumption DEF Paced, Stops
<1>5. AfterSuccess'
  BY RefreshAssumption DEF Paced, AfterSuccess
<1>6. AfterFailure'
  BY RefreshAssumption DEF Paced, AfterFailure
<1> QED
  BY <1>1, <1>2, <1>3, <1>4, <1>5, <1>6

\* The wait ends at its end, or at stop().
LEMMA WaitEndsStep == RefreshInv /\ WaitEnds => RefreshInv'
<1> SUFFICES ASSUME RefreshInv, WaitEnds PROVE RefreshInv'
  OBVIOUS
<1> USE DEF RefreshInv, Typing, WaitEnds, WaitOver, Nil, Up, Stopping, Running, InTick,
           Between, LoopPlaces
<1>1. Typing'
  BY RefreshAssumption
<1>2. CacheIsOneTick'
  BY RefreshAssumption DEF CacheIsOneTick
<1>3. Paced'
  BY RefreshAssumption DEF Paced
<1>4. Stops'
  BY RefreshAssumption DEF Paced, Stops
<1>5. AfterSuccess'
  BY RefreshAssumption DEF Paced, AfterSuccess
<1>6. AfterFailure'
  BY RefreshAssumption DEF Paced, AfterFailure
<1> QED
  BY <1>1, <1>2, <1>3, <1>4, <1>5, <1>6

\* The event is set now, in whatever tick the task is.
LEMMA StopBeginsStep == RefreshInv /\ StopBegins => RefreshInv'
<1> SUFFICES ASSUME RefreshInv, StopBegins PROVE RefreshInv'
  OBVIOUS
<1> USE DEF RefreshInv, Typing, StopBegins, Nil, Up, Stopping, Running, InTick, Between,
           LoopPlaces
<1>1. Typing'
  BY RefreshAssumption
<1>2. CacheIsOneTick'
  BY RefreshAssumption DEF CacheIsOneTick
<1>3. Paced'
  BY RefreshAssumption DEF Paced
<1>4. Stops'
  BY RefreshAssumption DEF Paced, Stops
<1>5. AfterSuccess'
  BY RefreshAssumption DEF Paced, AfterSuccess
<1>6. AfterFailure'
  BY RefreshAssumption DEF Paced, AfterFailure
<1> QED
  BY <1>1, <1>2, <1>3, <1>4, <1>5, <1>6

LEMMA StopEndsStep == RefreshInv /\ StopEnds => RefreshInv'
<1> SUFFICES ASSUME RefreshInv, StopEnds PROVE RefreshInv'
  OBVIOUS
<1> USE DEF RefreshInv, Typing, StopEnds, Nil, Up, Stopping, Running, InTick, Between,
           LoopPlaces
<1>1. Typing'
  BY RefreshAssumption
<1>2. CacheIsOneTick'
  BY RefreshAssumption DEF CacheIsOneTick
<1>3. Paced'
  BY RefreshAssumption DEF Paced
<1>4. Stops'
  BY RefreshAssumption DEF Paced, Stops
<1>5. AfterSuccess'
  BY RefreshAssumption DEF Paced, AfterSuccess
<1>6. AfterFailure'
  BY RefreshAssumption DEF Paced, AfterFailure
<1> QED
  BY <1>1, <1>2, <1>3, <1>4, <1>5, <1>6

LEMMA RedisGoesDownStep == RefreshInv /\ RedisGoesDown => RefreshInv'
<1> SUFFICES ASSUME RefreshInv, RedisGoesDown PROVE RefreshInv'
  OBVIOUS
<1> USE DEF RefreshInv, Typing, RedisGoesDown, Nil, Up, Stopping, Running, InTick, Between,
           LoopPlaces
<1>1. Typing'
  BY RefreshAssumption
<1>2. CacheIsOneTick'
  BY RefreshAssumption DEF CacheIsOneTick
<1>3. Paced'
  BY RefreshAssumption DEF Paced
<1>4. Stops'
  BY RefreshAssumption DEF Paced, Stops
<1>5. AfterSuccess'
  BY RefreshAssumption DEF Paced, AfterSuccess
<1>6. AfterFailure'
  BY RefreshAssumption DEF Paced, AfterFailure
<1> QED
  BY <1>1, <1>2, <1>3, <1>4, <1>5, <1>6

\* Redis is back now, and no tick began later than now.
LEMMA RedisComesBackStep == RefreshInv /\ RedisComesBack => RefreshInv'
<1> SUFFICES ASSUME RefreshInv, RedisComesBack PROVE RefreshInv'
  OBVIOUS
<1> USE DEF RefreshInv, Typing, RedisComesBack, Nil, Up, Stopping, Running, InTick, Between,
           LoopPlaces
<1>1. Typing'
  BY RefreshAssumption
<1>2. CacheIsOneTick'
  BY RefreshAssumption DEF CacheIsOneTick
<1>3. Paced'
  BY RefreshAssumption DEF Paced
<1>4. Stops'
  BY RefreshAssumption DEF Paced, Stops
<1>5. AfterSuccess'
  BY RefreshAssumption DEF Paced, AfterSuccess
<1>6. AfterFailure'
  BY RefreshAssumption DEF Paced, AfterFailure
<1> QED
  BY <1>1, <1>2, <1>3, <1>4, <1>5, <1>6

\* Time passes in a tick or in a wait that is not over.
LEMMA TimeStep == RefreshInv /\ TimePasses => RefreshInv'
<1> SUFFICES ASSUME RefreshInv, TimePasses PROVE RefreshInv'
  OBVIOUS
<1> USE DEF RefreshInv, Typing, TimePasses, LoopMayWait, WaitOver, Nil, Up, Stopping, Running,
           InTick, Between, LoopPlaces
<1>1. Typing'
  BY RefreshAssumption
<1>2. CacheIsOneTick'
  BY RefreshAssumption DEF CacheIsOneTick
<1>3. Paced'
  BY RefreshAssumption DEF Paced
<1>4. Stops'
  <2>1. clock \in Nat /\ began \in Nat /\ asked \in Int /\ MaxTick \in Nat /\ clock' = clock + 1
    BY RefreshAssumption
  <2>2. Stopping => loop \in {"ended", "crashed"} \/ clock < began + MaxTick
    BY DEF LoopMayWait, WaitOver
  <2>3. Stopping => began <= asked
    BY DEF Stops
  <2>4. Stopping => loop \in {"ended", "crashed"} \/ clock' <= asked + MaxTick
    BY <2>1, <2>2, <2>3
  <2>5. Stopping' => Stopping /\ asked' = asked /\ began' = began /\ loop' = loop
    OBVIOUS
  <2> QED
    BY <2>3, <2>4, <2>5 DEF Stops
<1>5. AfterSuccess'
  BY RefreshAssumption DEF Paced, AfterSuccess
<1>6. AfterFailure'
  BY RefreshAssumption DEF Paced, AfterFailure
<1> QED
  BY <1>1, <1>2, <1>3, <1>4, <1>5, <1>6

LEMMA RefreshInductive == RefreshSpec => []RefreshInv
<1>1. RefreshInv /\ [RefreshNext]_refresh_vars => RefreshInv'
  <2> SUFFICES ASSUME RefreshInv, [RefreshNext]_refresh_vars PROVE RefreshInv'
    OBVIOUS
  <2>1. CASE UNCHANGED refresh_vars
    BY <2>1 DEF refresh_vars, RefreshInv, Typing, CacheIsOneTick, Paced, Stops, AfterSuccess,
       AfterFailure,
                Up, Stopping, Running, InTick, Between
  <2> QED
    BY <2>1, LoopBeginsStep, LoopEndsStep, RefreshesSnapshotStep, ReadsStep,
       TickSucceedsStep, TickFailsStep, BackoffOverflowsStep, WaitEndsStep,
       StopBeginsStep, StopEndsStep, RedisGoesDownStep, RedisComesBackStep,
       TimeStep DEF RefreshNext, TaskStep
<1> QED
  BY <1>1, RefreshInitHolds, PTL DEF RefreshSpec

-----------------------------------------------------------------------------
\* Type correctness: a wait is never longer than max_backoff_s, and nothing in
\* the cache is younger than the tick that is running.
THEOREM RefreshTypes == RefreshSpec => []RefreshTypeOK
<1>1. RefreshInv => RefreshTypeOK
  <2> SUFFICES ASSUME RefreshInv PROVE RefreshTypeOK
    OBVIOUS
  <2>1. weight_cache \in [Candidate -> 0 .. began]
    BY DEF RefreshInv, Typing
  <2>2. loop = "waiting" => wakes_at <= clock + MaxBackoff
    BY DEF RefreshInv, Paced
  <2> QED
    BY <2>1, <2>2, RefreshAssumption DEF RefreshInv, Typing, RefreshTypeOK, Nil
<1> QED
  BY <1>1, RefreshInductive, PTL

\* WeightEngine.update_cache is never handed the signals of two ticks.
THEOREM CacheIsWhole == RefreshSpec => []CacheIsOneTick
<1>1. RefreshInv => CacheIsOneTick
  BY DEF RefreshInv
<1> QED
  BY <1>1, RefreshInductive, PTL

\* Base + 2 * MaxTick bounds the age of the router's view from one backoff and
\* one tick after an outage on, whatever the intervals are and however long the
\* outage was.
THEOREM ViewIsFresh == RefreshSpec => []StalenessBounded
<1>1. RefreshInv => StalenessBounded
  <2> SUFFICES ASSUME RefreshInv, Running, Up, clock > up_since + MaxBackoff + MaxTick,
                      NEW c \in Candidate
               PROVE  clock <= weight_cache[c] + Base + 2 * MaxTick
    BY DEF StalenessBounded, Running
  <2> USE DEF RefreshInv, Typing, Paced, Up, Nil, Stopping, Running, InTick, Between, LoopPlaces
  <2>1. weight_cache[c] \in Nat /\ up_since \in Nat /\ clock \in Nat /\ began \in Nat
    OBVIOUS
  <2>2. failures = 0
    BY <2>1, RefreshAssumption DEF AfterFailure
  <2>3. CASE Between
    BY <2>1, <2>2, <2>3, RefreshAssumption DEF AfterSuccess
  <2>4. CASE InTick
    BY <2>1, <2>2, <2>4, RefreshAssumption DEF AfterSuccess
  <2> QED
    BY <2>3, <2>4
<1> QED
  BY <1>1, RefreshInductive, PTL

\* stop() waits for the reads of one tick, whatever the backoff has grown to.
THEOREM ShutdownIsPrompt == RefreshSpec => []StopIsPrompt
<1>1. RefreshInv => StopIsPrompt
  BY DEF RefreshInv, Stops, StopIsPrompt
<1> QED
  BY <1>1, RefreshInductive, PTL
=============================================================================
