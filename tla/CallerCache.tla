---------------------------- MODULE CallerCache ----------------------------
(***************************************************************************)
(* CallerResolver, src/gateway/auth.py: bearer keys become callers through *)
(* a bounded in-process cache in front of the callers table.               *)
(*                                                                         *)
(* Several requests run resolve_bearer at once; each switches only while   *)
(* it awaits the database.  A key is a key hash, and all that is told      *)
(* apart of its row is the verdict: an enabled caller, or none.  A header  *)
(* without a token touches nothing and is left out.                        *)
(***************************************************************************)
EXTENDS Integers, Sequences, FiniteSets

CONSTANTS
    Key,          \* key hashes that are presented
    Request,      \* requests that may run at once
    Ttl,          \* CallerResolver(cache_ttl_s=...)
    MaxSize,      \* CallerResolver(cache_maxsize=...)
    MaxTime,      \* bound on the time
    MaxChanges    \* bound on the changes of the callers table

ASSUME CacheAssumption ==
    /\ Ttl \in Nat \ {0}
    /\ MaxSize \in Nat \ {0}
    /\ MaxTime \in Nat /\ MaxChanges \in Nat

Never == -1

VARIABLES
    now,        \* self._now(), time.monotonic()
    valid,      \* valid[k]: the callers table has an enabled row for k
    changed,    \* changed[k]: when valid[k] last changed
    changes,    \* changes of the table so far
    cache,      \* self._cache, the least recently used entry first
    lookup      \* lookup[q]: the request's locals while it awaits the database

table == <<valid, changed, changes>>
vars == <<now, table, cache, lookup>>

Entry == [key : Key, at : Nat, caller : BOOLEAN]
Lookup == [key : Key, now : Nat, caller : {"asked", "enabled", "none"}]
Idle == [key |-> "no_key", now |-> 0, caller |-> "idle"]

Init ==
    /\ now = 0
    /\ valid \in [Key -> BOOLEAN]
    /\ changed = [k \in Key |-> Never]
    /\ changes = 0
    /\ cache = <<>>
    /\ lookup = [q \in Request |-> Idle]

-----------------------------------------------------------------------------
Entries == {cache[i] : i \in DOMAIN cache}
Places(k) == {i \in DOMAIN cache : cache[i].key = k}

\* What cache.get finds for k, if it is younger than the ttl.
Fresh(k) == {e \in Entries : e.key = k /\ now - e.at < Ttl}

\* The OrderedDict once e has been set at its key and moved to the end.
PutLast(e) ==
    IF Places(e.key) = {}
    THEN Append(cache, e)
    ELSE LET i == CHOOSE i \in Places(e.key) : TRUE
         IN  [j \in DOMAIN cache |-> IF j < i THEN cache[j]
                                    ELSE IF j < Len(cache) THEN cache[j + 1]
                                    ELSE e]

\* A fresh entry answers without an await.
Hits(q, k) ==
    /\ lookup[q] = Idle
    /\ \E e \in Fresh(k) : cache' = PutLast(e)
    /\ UNCHANGED <<now, table, lookup>>

Misses(q, k) ==
    /\ lookup[q] = Idle
    /\ Fresh(k) = {}
    /\ lookup' = [lookup EXCEPT ![q] = [key |-> k, now |-> now, caller |-> "asked"]]
    /\ UNCHANGED <<now, table, cache>>

\* The row is read some time before the coroutine runs again; a caller that is
\* not enabled counts as none.
RowIsRead(q) ==
    /\ lookup[q].caller = "asked"
    /\ lookup' = [lookup EXCEPT ![q].caller = IF valid[lookup[q].key] THEN "enabled" ELSE "none"]
    /\ UNCHANGED <<now, table, cache>>

\* The query raises: nothing is cached and the request ends with a 500.
LookupFails(q) ==
    /\ lookup[q].caller = "asked"
    /\ lookup' = [lookup EXCEPT ![q] = Idle]
    /\ UNCHANGED <<now, table, cache>>

\* Mutant of Stamp: the time after the await.
StampAfter(q) == now

\* The entry carries the time read before the await.
Stamp(q) == lookup[q].now

\* Mutant of Evict: only a stale entry makes room.
EvictStale(entries) ==
    IF Len(entries) > MaxSize /\ now - Head(entries).at >= Ttl THEN Tail(entries) ELSE entries

\* One entry goes when there are too many, the least recently used one.
Evict(entries) == IF Len(entries) > MaxSize THEN Tail(entries) ELSE entries

\* The coroutine resumes, stores and returns.
Stores(q) ==
    /\ lookup[q].caller \in {"enabled", "none"}
    /\ cache' = Evict(PutLast([key |-> lookup[q].key, at |-> Stamp(q),
                              caller |-> lookup[q].caller = "enabled"]))
    /\ lookup' = [lookup EXCEPT ![q] = Idle]
    /\ UNCHANGED <<now, table>>

\* An operator enables or disables a caller, or adds or rotates a key.
RowChanges(k) ==
    /\ changes < MaxChanges
    /\ changes' = changes + 1
    /\ valid' = [valid EXCEPT ![k] = ~@]
    /\ changed' = [changed EXCEPT ![k] = now]
    /\ UNCHANGED <<now, cache, lookup>>

Tick ==
    /\ now < MaxTime
    /\ now' = now + 1
    /\ UNCHANGED <<table, cache, lookup>>

Next ==
    \/ \E q \in Request, k \in Key : Hits(q, k) \/ Misses(q, k)
    \/ \E q \in Request : RowIsRead(q) \/ LookupFails(q) \/ Stores(q)
    \/ \E k \in Key : RowChanges(k)
    \/ Tick

Spec == Init /\ [][Next]_vars

-----------------------------------------------------------------------------
TypeOK ==
    /\ now \in 0 .. MaxTime
    /\ valid \in [Key -> BOOLEAN]
    /\ changed \in [Key -> (0 .. now) \cup {Never}]
    /\ changes \in 0 .. MaxChanges
    /\ cache \in Seq(Entry)
    /\ \A e \in Entries : e.at <= now
    /\ lookup \in [Request -> Lookup \cup {Idle}]
    /\ \A q \in Request : lookup[q].now <= now

\* The cache cannot outgrow cache_maxsize, however many requests with different
\* keys wait for the database at the same time and store one after the other, and
\* lookups of the same key share an entry.
SizeBounded ==
    /\ Len(cache) <= MaxSize
    /\ \A k \in Key : Cardinality(Places(k)) <= 1

\* A revoked key is refused, and a new one admitted, by every entry that is
\* still used Ttl after the change, also when a slow query that began before
\* the change stores its answer over a newer one.
\* docs/system/architecture.md: the change "takes effect within 60s".
ChangeTakesEffect ==
    \A k \in Key : now >= changed[k] + Ttl => \A e \in Fresh(k) : e.caller = valid[k]
=============================================================================
