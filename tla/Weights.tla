------------------------------ MODULE Weights ------------------------------
(***************************************************************************)
(* The weight engine: what a refresh tick turns the configuration and the  *)
(* observed signals into (src/gateway/routing/refresh.py), and how a       *)
(* candidate is drawn from it (src/gateway/routing/weights.py).            *)
(*                                                                         *)
(* A weight is a number of units of 1 / Scale, rounded down; a draw is     *)
(* rng.random() * total in the same unit.                                  *)
(***************************************************************************)
EXTENDS Sequences, Sums

CONSTANTS
    Config,          \* Config[i]: the entries of the i-th tier, in file order
    Available,       \* candidates of providers with a vendor adapter
    Rates,           \* observed error rates, as <<failures, total>>
    Latencies,       \* observed mean latencies
    Breakers,        \* breaker states that occur
    TargetLatency,   \* routing.target_latency_s, in the unit of Latencies
    WeightFloor,     \* routing.min_weight_floor, in units
    Scale            \* units per weight of 1

Tiers == DOMAIN Config
EntriesOf(t) == {Config[t][i] : i \in DOMAIN Config[t]}
AllEntries == UNION {EntriesOf(t) : t \in Tiers}
Candidate == {e.cand : e \in AllEntries}

None == "None"

ASSUME ConfigAssumption ==
    /\ Config \in Seq(Seq(AllEntries))
    /\ \A e \in AllEntries : e.weight \in Nat /\ {e.rpm, e.tpm} \subseteq Nat \ {0}
    /\ None \notin Candidate
ASSUME SignalAssumption ==
    /\ Available \subseteq Candidate
    /\ \A rate \in Rates : rate[2] \in Nat \ {0} /\ rate[1] \in 0 .. rate[2]
    /\ Latencies \subseteq Nat
    /\ TargetLatency \in Nat \ {0} /\ WeightFloor \in Nat /\ Scale \in Nat \ {0}

\* Entries in file order: the first tier's, then the next one's.
Before(p, q) == p[1] < q[1] \/ (p[1] = q[1] /\ p[2] < q[2])
Places(c) == {p \in UNION {{t} \X DOMAIN Config[t] : t \in Tiers} : Config[p[1]][p[2]].cand = c}
At(p) == Config[p[1]][p[2]]

\* _all_candidates: for weight and caps, a candidate's first entry counts.
FirstEntry(c) == At(CHOOSE p \in Places(c) : \A q \in Places(c) : p = q \/ Before(p, q))

\* The dict comprehension of lifespan: for the bucket, its last entry does.
LastEntry(c) == At(CHOOSE p \in Places(c) : \A q \in Places(c) : p = q \/ Before(q, p))

\* One CandidateSignals: what build_signals reads for candidate c.  The bucket
\* holds at most the caps it was built with.
Signals(c) ==
    [base_weight : {FirstEntry(c).weight}, rate : Rates, mean_latency : Latencies,
     rpm_remaining : 0 .. LastEntry(c).rpm, rpm_cap : {FirstEntry(c).rpm},
     tpm_remaining : 0 .. LastEntry(c).tpm, tpm_cap : {FirstEntry(c).tpm},
     breaker : Breakers]

VARIABLE cache     \* WeightEngine._cache; what is not Available is absent

-----------------------------------------------------------------------------
\* Mutant of Budget: the larger of the two fractions.
BudgetLarger(s) ==
    IF s.rpm_remaining * s.tpm_cap <= s.tpm_remaining * s.rpm_cap
    THEN <<s.tpm_remaining, s.tpm_cap>>
    ELSE <<s.rpm_remaining, s.rpm_cap>>

\* budget_score: the smaller of the two fractions that remain, as a pair.
Budget(s) ==
    IF s.rpm_remaining * s.tpm_cap <= s.tpm_remaining * s.rpm_cap
    THEN <<s.rpm_remaining, s.rpm_cap>>
    ELSE <<s.tpm_remaining, s.tpm_cap>>

\* Base weight times health_score, (1 - error_rate) * target / (target + latency),
\* times budget_score.
Product(s) ==
    (Scale * s.base_weight * (s.rate[2] - s.rate[1]) * TargetLatency * Budget(s)[1])
        \div (s.rate[2] * (TargetLatency + s.mean_latency) * Budget(s)[2])

\* Nothing for an OPEN breaker or below the floor.
EffectiveWeight(s) ==
    IF s.breaker = "open" \/ Product(s) < WeightFloor THEN 0 ELSE Product(s)

Weight(c) == IF c \in DOMAIN cache THEN EffectiveWeight(cache[c]) ELSE 0

\* The lists cands and weights of pick, as places in the tier's list.
Eligible(tier, exclude) ==
    {i \in DOMAIN Config[tier] :
        Config[tier][i].cand \notin exclude /\ Weight(Config[tier][i].cand) > 0}

WeightsOf(tier, places) ==
    TotalOf([i \in DOMAIN Config[tier] |-> Weight(Config[tier][i].cand)], places)

Total(tier, exclude) == WeightsOf(tier, Eligible(tier, exclude))

\* Mutant of Reaches: `r < acc`, with the accumulator updated after the test.
ReachesLate(tier, exclude, i, draw) ==
    draw <= WeightsOf(tier, {j \in Eligible(tier, exclude) : j < i})

\* `r <= acc` at place i, acc being the sum up to that place.
Reaches(tier, exclude, i, draw) ==
    draw <= WeightsOf(tier, {j \in Eligible(tier, exclude) : j <= i})

Last(S) == CHOOSE i \in S : \A j \in S : j <= i
First(S) == CHOOSE i \in S : \A j \in S : i <= j

\* pick: the first place whose accumulated weight reaches the draw, the last
\* one when rounding put the draw beyond the sum, None without candidates.
Pick(tier, exclude, draw) ==
    LET places == Eligible(tier, exclude)
        hits == {i \in places : Reaches(tier, exclude, i, draw)}
    IN  IF places = {} THEN None
        ELSE Config[tier][IF hits = {} THEN Last(places) ELSE First(hits)].cand

\* tick: once build_signals has read every candidate, update_cache replaces the
\* whole map.
UpdateCache ==
    cache' \in {f \in [Available -> UNION {Signals(c) : c \in Available}] :
                   \A c \in Available : f[c] \in Signals(c)}

\* pick changes nothing, so the properties below look at it in every state.
WeightInit == cache = << >>

WeightNext == UpdateCache

WeightSpec == WeightInit /\ [][WeightNext]_cache

-----------------------------------------------------------------------------
Requests == Tiers \X SUBSET Candidate

WeightTypeOK ==
    /\ DOMAIN cache \subseteq Available
    /\ \A c \in DOMAIN cache : cache[c] \in Signals(c) /\ Weight(c) \in Nat

\* Every draw, also one that rounding put beyond the sum, gives a candidate of
\* the tier that has an adapter, is not excluded, is not OPEN and has both budgets;
\* None is given only when there is no such candidate above the floor.
PickIsSound ==
    \A rq \in Requests : \A draw \in 0 .. Total(rq[1], rq[2]) + 1 :
        LET c == Pick(rq[1], rq[2], draw)
        IN  IF c = None
            THEN \A e \in EntriesOf(rq[1]) : e.cand \in rq[2] \/ Weight(e.cand) = 0
            ELSE /\ c \in {e.cand : e \in EntriesOf(rq[1])} \cap DOMAIN cache
                 /\ c \notin rq[2]
                 /\ cache[c].breaker # "open"
                 /\ cache[c].rpm_remaining > 0 /\ cache[c].tpm_remaining > 0

\* The draw is fair: of Total equally likely slices of the draw, as many choose
\* a place of the list as it has weight, whatever is excluded.
PickIsFair ==
    \A rq \in Requests : \A c \in Candidate \ rq[2] :
        LET slices == {draw \in 1 .. Total(rq[1], rq[2]) : Pick(rq[1], rq[2], draw) = c}
        IN  Cardinality(slices) =
                WeightsOf(rq[1], {i \in DOMAIN Config[rq[1]] : Config[rq[1]][i].cand = c})

\* health_score and budget_score only take from the base weight:
\* docs/system/architecture.md gives both the range [0, 1].
ScoresInUnit == \A c \in DOMAIN cache : Product(cache[c]) <= Scale * cache[c].base_weight
=============================================================================
