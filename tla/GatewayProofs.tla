--------------------------- MODULE GatewayProofs ---------------------------
(***************************************************************************)
(* Safety of a replica and of the requests it serves, for every set of     *)
(* requests, every cap and every price of an answer.                       *)
(***************************************************************************)
EXTENDS Gateway, FiniteSetTheorems, TLAPS

\* What the steps need of the types.
Types ==
    /\ life \in Life
    /\ refresh \in {"none", "running", "raised"}
    /\ stage \in [Request -> Stage]
    /\ outcome \in [Request -> Outcome]
    /\ seen \in [Request -> Seen]
    /\ reply \in [Request -> {None, 200, 400, 401, 429, 500} \cup GaveUpStatus]
    /\ tokens \in [Request -> 0 .. MaxTokens]
    /\ used_today \in Nat
    /\ exposed \in Nat
    /\ midnights \in 0 .. MaxMidnights
    /\ At("routing") # {} => life = "serving"

\* Every request is paid for once, and no more of them are unsettled than there are.
Counted ==
    /\ used_today <= MaxTokens * Cardinality(At("durable"))
    /\ exposed <= Cardinality(Request)

\* A request has been rejected when it leaves the router for that, or its observer is
\* still being told of it, and not before.
Earned(q) ==
    /\ stage[q] \in {"none", "routing"} => reply[q] = None
    /\ stage[q] = "none" => seen[q] # "rejection" /\ outcome[q] = Unrecorded
    /\ stage[q] = "routing" =>
          IF outcome[q] \in NonRetryable THEN seen[q] \in {"rejection", "unclear"} ELSE seen[q] # "rejection"
    /\ stage[q] = "failed" /\ reply[q] \in {400, 401} => seen[q] \in {"rejection", "unclear"}
    /\ seen[q] = "rejection" => reply[q] \in {None, 400, 401, 500}

Blamed == \A q \in Request : Earned(q)

IInv == Types /\ Counted /\ Blamed /\ SpendBounded

-----------------------------------------------------------------------------
LEMMA Numbers ==
    /\ IsFiniteSet(Request) /\ Cap \in Nat \ {0} /\ MaxTokens \in Nat \ {0} /\ MaxMidnights \in Nat
    /\ RefreshMayRaise \in BOOLEAN
  BY GatewayAssumption

LEMMA Products ==
    /\ \A m, a \in Nat : m * a \in Nat
    /\ \A m, a, b \in Nat : m * (a + b) = m * a + m * b
    /\ \A m, a, b \in Nat : a <= b => m * a <= m * b
    /\ \A m \in Nat : m * 0 = 0 /\ m * 1 = m
<1>1. \A m, a \in Nat : m * a \in Nat
  OBVIOUS
<1>2. \A m, a, b \in Nat : m * (a + b) = m * a + m * b
  OBVIOUS
<1>3. \A m, a, b \in Nat : a <= b => m * a <= m * b
  <2> SUFFICES ASSUME NEW m \in Nat, NEW a \in Nat, NEW b \in Nat, a <= b
               PROVE  m * a <= m * b
    OBVIOUS
  <2>1. PICK c \in Nat : b = a + c
    <3>1. b - a \in Nat /\ b = a + (b - a)
      OBVIOUS
    <3> QED
      BY <3>1
  <2>2. m * b = m * a + m * c /\ m * c \in Nat /\ m * a \in Nat
    BY <1>1, <1>2, <2>1
  <2> QED
    BY <2>2
<1>4. \A m \in Nat : m * 0 = 0 /\ m * 1 = m
  OBVIOUS
<1> QED
  BY <1>1, <1>2, <1>3, <1>4

\* Cost, of any prices: the tokens of the answers, which are as many as the pairs
\* of an answer and a number up to its price.
Tokens(f, Q) == {token \in Q \X (1 .. MaxTokens) : token[2] <= f[token[1]]}
CostOf(f, Q) == Cardinality(Tokens(f, Q))

LEMMA CostIs == \A Q : Cost(Q) = CostOf(tokens, Q)
  BY DEF Cost, CostOf, Tokens

LEMMA Sizes ==
    ASSUME NEW Q \in SUBSET Request
    PROVE  IsFiniteSet(Q) /\ Cardinality(Q) \in Nat
  BY Numbers, FS_Subset, FS_CardinalityType

LEMMA CostBounded ==
    ASSUME NEW f, NEW Q \in SUBSET Request
    PROVE  /\ IsFiniteSet(Tokens(f, Q))
           /\ CostOf(f, Q) \in Nat
           /\ CostOf(f, Q) <= MaxTokens * Cardinality(Q)
<1>1. IsFiniteSet(1 .. MaxTokens) /\ Cardinality(1 .. MaxTokens) = MaxTokens
  BY Numbers, FS_Interval
<1>2. IsFiniteSet(Q) /\ Cardinality(Q) \in Nat
  BY Sizes
<1>3. /\ IsFiniteSet(Q \X (1 .. MaxTokens))
      /\ Cardinality(Q \X (1 .. MaxTokens)) = Cardinality(Q) * MaxTokens
  BY <1>1, <1>2, FS_Product
<1>4. Tokens(f, Q) \in SUBSET (Q \X (1 .. MaxTokens))
  BY DEF Tokens
<1>5. IsFiniteSet(Tokens(f, Q)) /\ Cardinality(Tokens(f, Q)) <= Cardinality(Q) * MaxTokens
  BY <1>3, <1>4, FS_Subset
<1>6. Cardinality(Tokens(f, Q)) \in Nat
  BY <1>5, FS_CardinalityType
<1>7. Cardinality(Q) * MaxTokens = MaxTokens * Cardinality(Q)
  BY <1>2, Numbers
<1> QED
  BY <1>5, <1>6, <1>7 DEF CostOf

\* The cost of answers that are settled apart adds up.
LEMMA CostSplits ==
    ASSUME NEW f, NEW Q \in SUBSET Request, NEW R \in SUBSET Q
    PROVE  CostOf(f, Q) = CostOf(f, R) + CostOf(f, Q \ R)
<1>1. Tokens(f, Q) = Tokens(f, R) \cup Tokens(f, Q \ R)
  BY DEF Tokens
<1>2. Tokens(f, R) \cap Tokens(f, Q \ R) = {}
  BY DEF Tokens
<1>3. IsFiniteSet(Tokens(f, R)) /\ IsFiniteSet(Tokens(f, Q \ R))
  BY CostBounded
<1>4. CostOf(f, R) \in Nat /\ CostOf(f, Q \ R) \in Nat
  BY CostBounded
<1>5. CostOf(f, Q) = CostOf(f, R) + CostOf(f, Q \ R) - 0
  <2> DEFINE A == Tokens(f, R)
             B == Tokens(f, Q \ R)
  <2> HIDE DEF A, B
  <2>1. IsFiniteSet(A) /\ IsFiniteSet(B) /\ A \cap B = {}
    BY <1>2, <1>3 DEF A, B
  <2>2. Cardinality(A \cup B) = Cardinality(A) + Cardinality(B) - Cardinality(A \cap B)
    BY ONLY <2>1, FS_Union
  <2>3. Cardinality(A \cap B) = 0
    BY ONLY <2>1, FS_EmptySet
  <2> QED
    BY <1>1, <2>2, <2>3 DEF A, B, CostOf
<1> QED
  BY <1>4, <1>5

LEMMA CostAgrees ==
    ASSUME NEW f, NEW g, NEW Q \in SUBSET Request, \A q \in Q : f[q] = g[q]
    PROVE  CostOf(f, Q) = CostOf(g, Q)
<1>1. Tokens(f, Q) = Tokens(g, Q)
  BY DEF Tokens
<1> QED
  BY <1>1 DEF CostOf

LEMMA CostOfOne ==
    ASSUME NEW f, NEW q \in Request
    PROVE  CostOf(f, {q}) \in Nat /\ CostOf(f, {q}) <= MaxTokens
<1>1. {q} \in SUBSET Request /\ Cardinality({q}) = 1
  BY FS_Singleton
<1>2. CostOf(f, {q}) \in Nat /\ CostOf(f, {q}) <= MaxTokens * Cardinality({q})
  BY <1>1, CostBounded
<1>3. MaxTokens * Cardinality({q}) = MaxTokens
  BY <1>1, Numbers, Products
<1> QED
  BY <1>2, <1>3

-----------------------------------------------------------------------------
\* The sum of what is spent and what may yet be.
LEMMA Spending ==
    ASSUME Types
    PROVE  /\ \A s \in Stage : /\ At(s) \in SUBSET Request /\ IsFiniteSet(At(s))
                             /\ Cardinality(At(s)) \in Nat
           /\ used_today \in Nat /\ exposed \in Nat
           /\ CostOf(tokens, At("queued")) \in Nat
           /\ MaxTokens * Cardinality(At("routing")) \in Nat
           /\ Pending = CostOf(tokens, At("queued")) + MaxTokens * Cardinality(At("routing"))
           /\ Cap - 1 \in Nat /\ MaxTokens * exposed \in Nat
<1>1. \A s \in Stage : At(s) \in SUBSET Request
  BY DEF At
<1>2. \A s \in Stage : IsFiniteSet(At(s)) /\ Cardinality(At(s)) \in Nat
  BY <1>1, Sizes
<1>3. "queued" \in Stage /\ "routing" \in Stage
  BY DEF Stage
<1>4. CostOf(tokens, At("queued")) \in Nat
  BY <1>1, <1>3, CostBounded
<1>5. MaxTokens * Cardinality(At("routing")) \in Nat /\ MaxTokens * exposed \in Nat
  BY <1>2, <1>3, Numbers, Products DEF Types
<1>6. Pending = CostOf(tokens, At("queued")) + MaxTokens * Cardinality(At("routing"))
  BY CostIs DEF Pending
<1> QED
  BY <1>1, <1>2, <1>4, <1>5, <1>6, Numbers DEF Types

\* The same, of the state after a step.
LEMMA SpendingNext ==
    ASSUME Types'
    PROVE  /\ used_today' \in Nat /\ exposed' \in Nat
           /\ CostOf(tokens', At("queued")') \in Nat
           /\ Cardinality(At("routing")') \in Nat
           /\ MaxTokens * Cardinality(At("routing")') \in Nat
           /\ Pending' = CostOf(tokens', At("queued")') + MaxTokens * Cardinality(At("routing")')
           /\ Cap - 1 \in Nat /\ MaxTokens * exposed' \in Nat
<1>1. At("routing")' \in SUBSET Request /\ At("queued")' \in SUBSET Request
  BY DEF At
<1>2. Cardinality(At("routing")') \in Nat
  BY <1>1, Sizes
<1>3. CostOf(tokens', At("queued")') \in Nat
  BY <1>1, CostBounded
<1>4. used_today' \in Nat /\ exposed' \in Nat
  BY DEF Types
<1>5. MaxTokens * Cardinality(At("routing")') \in Nat /\ MaxTokens * exposed' \in Nat
  BY <1>2, <1>4, Numbers, Products
<1>6. Cost(At("queued"))' = CostOf(tokens', At("queued")')
  BY DEF Cost, CostOf, Tokens
<1>7. Pending' = CostOf(tokens', At("queued")') + MaxTokens * Cardinality(At("routing")')
  BY <1>6 DEF Pending
<1>8. Cap - 1 \in Nat
  BY Numbers
<1> QED
  BY <1>2, <1>3, <1>4, <1>5, <1>7, <1>8

\* A step that spends nothing new keeps the bound.
LEMMA Settled ==
    ASSUME IInv, Types', exposed' = exposed, used_today' + Pending' <= used_today + Pending
    PROVE  SpendBounded'
<1>1. PICK a \in Nat, b \in Nat, c \in Nat :
         a = used_today + Pending /\ b = used_today' + Pending' /\ c = Cap - 1 + MaxTokens * exposed
  BY Spending, SpendingNext DEF IInv
<1>2. a = 0 \/ a <= c
  BY <1>1 DEF IInv, SpendBounded
<1>3. b <= a
  BY <1>1
<1>4. b = 0 \/ b <= c
  BY <1>2, <1>3
<1> QED
  BY <1>1, <1>4 DEF SpendBounded

\* The sets of requests and their costs before and after a step that leaves what
\* is unsettled or durable where it is.
LEMMA Stays ==
    ASSUME IInv, Types', UNCHANGED <<tokens, used_today, exposed>>,
           \A s \in {"routing", "queued", "durable"} : At(s)' = At(s)
    PROVE  SpendBounded' /\ Counted'
<1>1. At("routing")' = At("routing") /\ At("queued")' = At("queued") /\ At("durable")' = At("durable")
  OBVIOUS
<1>2. Pending' = Pending
  BY <1>1, Spending, SpendingNext DEF IInv
<1>3. Counted'
  BY <1>1 DEF IInv, Counted
<1>4. used_today' + Pending' <= used_today + Pending
  BY <1>2, Spending DEF IInv
<1> QED
  BY <1>3, <1>4, Settled

\* One request leaves the router with nothing to pay.
LEMMA Leaves ==
    ASSUME IInv, Types', UNCHANGED <<tokens, used_today, exposed>>, NEW q \in At("routing"),
           At("routing")' = At("routing") \ {q},
           \A s \in {"queued", "durable"} : At(s)' = At(s)
    PROVE  SpendBounded' /\ Counted'
<1>1. At("queued")' = At("queued") /\ At("durable")' = At("durable")
  OBVIOUS
<1>2. "routing" \in Stage
  BY DEF Stage
<1>3. Cardinality(At("routing")') <= Cardinality(At("routing"))
  BY <1>2, Spending, FS_Subset DEF IInv
<1>4. MaxTokens * Cardinality(At("routing")') <= MaxTokens * Cardinality(At("routing"))
  BY <1>2, <1>3, Spending, SpendingNext, Numbers, Products DEF IInv
<1>5. used_today' + Pending' <= used_today + Pending
  BY <1>1, <1>4, Spending, SpendingNext DEF IInv
<1>6. Counted'
  BY <1>1 DEF IInv, Counted
<1> QED
  BY <1>5, <1>6, Settled

\* Where requests are, after one of them moves.
LEMMA Moves ==
    ASSUME Types, NEW q \in Request, NEW s \in Stage, Move(q, s)
    PROVE  /\ stage' \in [Request -> Stage]
           /\ \A r \in Stage : At(r)' = IF r = s THEN At(r) \cup {q} ELSE At(r) \ {q}
<1>1. stage' = [stage EXCEPT ![q] = s] /\ stage \in [Request -> Stage]
  BY DEF Move, Types
<1>2. \A p \in Request : stage'[p] = IF p = q THEN s ELSE stage[p]
  BY <1>1
<1>3. \A r : At(r)' = {p \in Request : stage'[p] = r}
  BY DEF At
<1>4. \A r : At(r) = {p \in Request : stage[p] = r}
  BY DEF At
<1>5. ASSUME NEW r \in Stage
      PROVE  At(r)' = IF r = s THEN At(r) \cup {q} ELSE At(r) \ {q}
  BY <1>2, <1>3, <1>4
<1> QED
  BY <1>1, <1>5

LEMMA StageNames == Stage = {"none", "refused", "routing", "failed", "queued", "durable", "lost"}
  BY DEF Stage

\* The lifespan and its tasks; ends of requests are elsewhere.
LEMMA LifeStep ==
    ASSUME IInv, Boots \/ RefreshRaises \/ ShutdownBegins \/ RefreshStops \/ AccountingStops
    PROVE  IInv'
<1>1. UNCHANGED <<stage, outcome, seen, reply, tokens, used_today, exposed, midnights>>
  BY DEF Boots, RefreshRaises, ShutdownBegins, RefreshStops, AccountingStops, request
<1>2. \A s : At(s)' = At(s)
  BY <1>1 DEF At
<1>3. life' \in Life /\ refresh' \in {"none", "running", "raised"} /\ (At("routing") # {} => life' = "serving")
  BY DEF IInv, Types, Life, Boots, RefreshRaises, ShutdownBegins, RefreshStops, AccountingStops
<1>4. Types'
  BY <1>1, <1>2, <1>3 DEF IInv, Types
<1>5. Blamed'
  BY <1>1, <1>2 DEF IInv, Blamed, Earned
<1> QED
  BY <1>1, <1>2, <1>4, <1>5, Stays DEF IInv

\* A request that is turned away at the door.
LEMMA RefusesStep ==
    ASSUME IInv, NEW q \in Request, Refuses(q) \/ TurnsAway(q)
    PROVE  IInv'
<1>1. /\ life = "serving" /\ stage[q] = "none" /\ Move(q, "refused")
      /\ UNCHANGED <<life, refresh, outcome, seen, tokens, used_today, exposed, midnights>>
      /\ reply' \in [Request -> {None, 200, 400, 401, 429, 500} \cup GaveUpStatus]
      /\ \A p \in Request : p # q => reply'[p] = reply[p]
  BY DEF Refuses, TurnsAway, Replies, IInv, Types
<1>2. /\ stage' \in [Request -> Stage]
      /\ \A r \in Stage : At(r)' = IF r = "refused" THEN At(r) \cup {q} ELSE At(r) \ {q}
  BY <1>1, Moves, StageNames DEF IInv
<1>3. \A r \in Stage \ {"none", "refused"} : At(r)' = At(r)
  BY <1>1, <1>2, StageNames DEF At
<1>4. Types'
  BY <1>1, <1>2, <1>3, StageNames DEF IInv, Types
<1>5. Blamed'
  <2>1. \A p \in Request : p # q => stage'[p] = stage[p]
    BY <1>1 DEF Move, IInv, Types
  <2>2. stage'[q] = "refused" /\ seen' = seen /\ seen[q] # "rejection"
    BY <1>1 DEF Move, IInv, Types, Blamed, Earned
  <2>3. \A p \in Request : p # q => Earned(p)'
    BY <1>1, <2>1 DEF IInv, Blamed, Earned
  <2>4. Earned(q)'
    BY <2>2 DEF Earned
  <2> QED
    BY <2>3, <2>4 DEF Blamed
<1> QED
  BY <1>1, <1>3, <1>4, <1>5, Stays, StageNames DEF IInv

\* What the adapters make of a response, and what that says of it.
LEMMA AdaptersBlame ==
    ASSUME NEW v \in Provider, NEW response \in Response
    PROVE  /\ Adapter(v, response) \in Outcome \cup {Uncaught}
           /\ Adapter(v, response) # Unrecorded
           /\ Adapter(v, response) \in Retryable => response \in VendorFault
           /\ Adapter(v, response) \in NonRetryable => response \in Rejection \cup Unclear
           /\ Adapter(v, response) = Uncaught => response \in VendorFault
<1> DEFINE Fair(class) ==
              /\ class \in Outcome \cup {Uncaught} /\ class # Unrecorded
              /\ class \in Retryable => response \in VendorFault
              /\ class \in NonRetryable => response \in Rejection \cup Unclear
              /\ class = Uncaught => response \in VendorFault
<1>1. v = "openai" \/ v = "anthropic" \/ v = "google"
  BY DEF Provider
<1>2. Fair(OpenAIError(response))
  BY DEF OpenAIError, Response, VendorFault, Rejection, Unclear, Retryable, NonRetryable, ErrorClass,
         Outcome, Unrecorded, Uncaught, NoError
<1>3. Fair(GoogleError(response))
  BY DEF GoogleError, Response, VendorFault, Rejection, Unclear, Retryable, NonRetryable, ErrorClass,
         Outcome, Unrecorded, Uncaught, NoError
<1>4. Fair(NoError)
  BY DEF Retryable, NonRetryable, ErrorClass, Outcome, Unrecorded, Uncaught, NoError
<1>5. Fair(AnthropicError(response))
  BY <1>2, <1>4 DEF AnthropicError
<1>6. Fair(Adapter(v, response))
  BY <1>1, <1>2, <1>3, <1>5 DEF Adapter
<1> QED
  BY <1>6

\* The classes are apart.
LEMMA ClassesApart ==
    /\ Retryable \cap NonRetryable = {}
    /\ NoError \notin Retryable \cup NonRetryable
    /\ Unrecorded \in Outcome /\ Unrecorded \notin Retryable \cup NonRetryable
  BY DEF Retryable, NonRetryable, NoError, Unrecorded, Outcome

\* What a failed response adds to what was seen, of a request not rejected so far.
LEMMA Sightings ==
    ASSUME IInv, NEW q \in Request, NEW response \in VendorFault \cup Rejection \cup Unclear,
           seen[q] # "rejection", Sees(q, response)
    PROVE  /\ seen' \in [Request -> Seen]
           /\ \A p \in Request : p # q => seen'[p] = seen[p]
           /\ response \in VendorFault => seen'[q] = "faults"
           /\ response \in Rejection \cup Unclear => seen'[q] \in {"rejection", "unclear"}
<1> DEFINE what == CASE response \in Rejection -> "rejection"
                     [] response \in VendorFault -> "faults"
                     [] response \in Unclear -> "unclear"
<1>1. seen' = [seen EXCEPT ![q] = what]
  BY DEF Sees, IInv, Types
<1>2. /\ response \in VendorFault => what = "faults"
      /\ response \in Rejection => what = "rejection"
      /\ response \in Unclear => what = "unclear"
  BY DEF VendorFault, Rejection, Unclear
<1> HIDE DEF what
<1>3. what \in Seen
  BY <1>2 DEF Seen
<1>4. response \in VendorFault => response \notin Rejection \cup Unclear
  BY DEF VendorFault, Rejection, Unclear
<1>5. seen' \in [Request -> Seen] /\ seen'[q] = what /\ \A p \in Request : p # q => seen'[p] = seen[p]
  BY <1>1, <1>3 DEF IInv, Types
<1> QED
  BY <1>2, <1>4, <1>5

LEMMA RespondsStep ==
    ASSUME IInv, NEW q \in Request, NEW v \in Provider, NEW response \in Response,
           Responds(q, v, response)
    PROVE  IInv'
<1> DEFINE class == Adapter(v, response)
<1>1. /\ stage[q] = "routing" /\ outcome[q] = Unrecorded /\ class # Uncaught
      /\ outcome' = [outcome EXCEPT ![q] = class]
      /\ UNCHANGED <<life, refresh, stage, reply, tokens, used_today, exposed, midnights>>
  BY DEF Responds, Deciding
<1>2. /\ class \in Outcome
      /\ class \in Retryable => response \in VendorFault
      /\ class \in NonRetryable => response \in Rejection \cup Unclear
  BY <1>1, AdaptersBlame
<1>3. seen[q] # "rejection"
  BY <1>1, ClassesApart DEF IInv, Blamed, Earned
<1>4. IF class = NoError THEN seen' = seen ELSE Sees(q, response)
  BY DEF Responds
<1> HIDE DEF class
<1>5. /\ seen' \in [Request -> Seen]
      /\ \A p \in Request : p # q => seen'[p] = seen[p]
      /\ IF class \in NonRetryable THEN seen'[q] \in {"rejection", "unclear"} ELSE seen'[q] # "rejection"
  <2>1. CASE class = NoError
    BY <1>3, <1>4, <2>1, ClassesApart DEF IInv, Types
  <2>2. CASE class \in Retryable
    BY <1>2, <1>3, <1>4, <2>2, ClassesApart, Sightings
  <2>3. CASE class \in NonRetryable
    BY <1>2, <1>3, <1>4, <2>3, ClassesApart, Sightings
  <2>4. class = NoError \/ class \in Retryable \/ class \in NonRetryable \/ class = Unrecorded
    BY <1>2 DEF Outcome, ErrorClass
  <2>5. class # Unrecorded
    BY AdaptersBlame DEF class
  <2> QED
    BY <2>1, <2>2, <2>3, <2>4, <2>5
<1>6. \A s : At(s)' = At(s)
  BY <1>1 DEF At
<1>7. Types'
  BY <1>1, <1>2, <1>5, <1>6 DEF IInv, Types
<1>8. Blamed'
  <2>1. \A p \in Request : p # q => Earned(p)'
    BY <1>1, <1>5 DEF IInv, Types, Blamed, Earned
  <2>2. stage'[q] = "routing" /\ outcome'[q] = class /\ reply'[q] = reply[q]
    BY <1>1 DEF IInv, Types
  <2>3. reply[q] = None
    BY <1>1 DEF IInv, Blamed, Earned
  <2>4. Earned(q)'
    BY <1>5, <2>2, <2>3 DEF Earned
  <2> QED
    BY <2>1, <2>4 DEF Blamed
<1> QED
  BY <1>1, <1>6, <1>7, <1>8, Stays DEF IInv

\* The observer returned and the router goes on.
LEMMA FailsOverStep ==
    ASSUME IInv, NEW q \in Request, FailsOver(q)
    PROVE  IInv'
<1>1. /\ stage[q] = "routing" /\ outcome[q] \in Retryable
      /\ outcome' = [outcome EXCEPT ![q] = Unrecorded]
      /\ UNCHANGED <<life, refresh, stage, seen, reply, tokens, used_today, exposed, midnights>>
  BY DEF FailsOver, Recorded
<1>2. \A s : At(s)' = At(s)
  BY <1>1 DEF At
<1>3. Types'
  BY <1>1, <1>2, ClassesApart DEF IInv, Types
<1>4. Blamed'
  <2>1. \A p \in Request : p # q => outcome'[p] = outcome[p]
    BY <1>1 DEF IInv, Types
  <2>2. outcome'[q] = Unrecorded /\ seen[q] # "rejection"
    BY <1>1, ClassesApart DEF IInv, Types, Blamed, Earned
  <2> QED
    BY <1>1, <2>1, <2>2, ClassesApart DEF IInv, Blamed, Earned
<1> QED
  BY <1>1, <1>2, <1>3, <1>4, Stays DEF IInv

\* A request ends without an answer, and its status and what was seen of the vendors
\* agree.
LEMMA EndsStep ==
    ASSUME IInv, NEW q \in Request, stage[q] = "routing", NEW status,
           status \in {400, 401, 500} \cup GaveUpStatus,
           Replies(q, "failed", status),
           seen' \in [Request -> Seen], outcome' \in [Request -> Outcome],
           \A p \in Request : p # q => seen'[p] = seen[p] /\ outcome'[p] = outcome[p],
           status \in {400, 401} => seen'[q] \in {"rejection", "unclear"},
           status \in GaveUpStatus => seen'[q] # "rejection",
           UNCHANGED <<life, refresh, tokens, used_today, exposed, midnights>>
    PROVE  IInv'
<1>1. /\ stage' \in [Request -> Stage]
      /\ \A r \in Stage : At(r)' = IF r = "failed" THEN At(r) \cup {q} ELSE At(r) \ {q}
  BY Moves, StageNames DEF IInv, Replies
<1>2. At("routing")' = At("routing") \ {q} /\ q \in At("routing")
  BY <1>1, StageNames DEF At
<1>3. \A r \in {"queued", "durable"} : At(r)' = At(r)
  BY <1>1, StageNames DEF At
<1>4. Types'
  <2>1. reply' \in [Request -> {None, 200, 400, 401, 429, 500} \cup GaveUpStatus]
    BY DEF IInv, Types, Replies
  <2>2. At("routing")' # {} => life' = "serving"
    BY <1>2 DEF IInv, Types
  <2> QED
    BY <1>1, <2>1, <2>2 DEF IInv, Types
<1>5. Blamed'
  <2>1. \A p \in Request : p # q => stage'[p] = stage[p] /\ reply'[p] = reply[p]
    BY DEF Replies, Move, IInv, Types
  <2>2. stage'[q] = "failed" /\ reply'[q] = status
    BY DEF Replies, Move, IInv, Types
  <2>3. \A p \in Request : p # q => Earned(p)'
    BY <2>1 DEF IInv, Blamed, Earned
  <2>4. Earned(q)'
    BY <2>2 DEF Earned
  <2> QED
    BY <2>3, <2>4 DEF Blamed
<1> QED
  BY <1>2, <1>3, <1>4, <1>5, Leaves DEF IInv

\* The observer returns after an error for good.
LEMMA IsRejectedStep ==
    ASSUME IInv, NEW q \in Request, IsRejected(q)
    PROVE  IInv'
<1>1. PICK class \in NonRetryable : Recorded(q, class) /\ Replies(q, "failed", RejectionStatus(class))
  BY DEF IsRejected
<1>2. /\ stage[q] = "routing" /\ outcome[q] \in NonRetryable
      /\ outcome' = [outcome EXCEPT ![q] = Unrecorded]
  BY <1>1 DEF Recorded
<1>3. UNCHANGED <<life, refresh, seen, tokens, used_today, exposed, midnights>>
  BY DEF IsRejected
<1>4. seen[q] \in {"rejection", "unclear"}
  BY <1>2 DEF IInv, Blamed, Earned
<1>5. outcome' \in [Request -> Outcome] /\ \A p \in Request : p # q => outcome'[p] = outcome[p]
  BY <1>2, ClassesApart DEF IInv, Types
<1>6. PICK status \in {400, 401} : status = RejectionStatus(class)
  BY DEF RejectionStatus
<1>7. status \notin GaveUpStatus
  BY <1>6 DEF GaveUpStatus
<1>8. seen' \in [Request -> Seen]
  BY <1>3 DEF IInv, Types
<1> QED
  BY <1>1, <1>2, <1>3, <1>4, <1>5, <1>6, <1>7, <1>8, EndsStep

\* An exception that the router does not catch: the vendors may have done anything.
LEMMA SlipsStep ==
    ASSUME IInv, NEW q \in Request, NEW v \in Provider, NEW response \in Response,
           Slips(q, v, response)
    PROVE  IInv'
<1>1. /\ stage[q] = "routing" /\ outcome[q] = Unrecorded /\ Replies(q, "failed", 500)
      /\ Sees(q, response)
      /\ UNCHANGED <<life, refresh, outcome, tokens, used_today, exposed, midnights>>
  BY DEF Slips, Deciding
<1>2. seen[q] # "rejection"
  BY <1>1, ClassesApart DEF IInv, Blamed, Earned
<1>3. seen' \in [Request -> Seen] /\ \A p \in Request : p # q => seen'[p] = seen[p]
  BY <1>1, <1>2, AdaptersBlame, Sightings DEF Slips
<1>4. outcome' \in [Request -> Outcome] /\ \A p \in Request : p # q => outcome'[p] = outcome[p]
  BY <1>1 DEF IInv, Types
<1>5. 500 \notin GaveUpStatus
  BY DEF GaveUpStatus
<1> QED
  BY <1>1, <1>3, <1>4, <1>5, EndsStep

\* The router gives up between two attempts, when none was rejected.
LEMMA GivesUpStep ==
    ASSUME IInv, NEW q \in Request, GivesUp(q)
    PROVE  IInv'
<1>1. PICK status \in GaveUpStatus : Replies(q, "failed", status)
  BY DEF GivesUp
<1>2. /\ stage[q] = "routing" /\ outcome[q] = Unrecorded
      /\ UNCHANGED <<life, refresh, outcome, seen, tokens, used_today, exposed, midnights>>
  BY DEF GivesUp, Deciding
<1>3. seen[q] # "rejection"
  BY <1>2, ClassesApart DEF IInv, Blamed, Earned
<1>4. seen' \in [Request -> Seen] /\ outcome' \in [Request -> Outcome]
  BY <1>2 DEF IInv, Types
<1>5. status \notin {400, 401}
  BY DEF GaveUpStatus
<1> QED
  BY <1>1, <1>2, <1>3, <1>4, <1>5, EndsStep

\* A call to Redis raises, at any place and after any response.
LEMMA BreaksStep ==
    ASSUME IInv, NEW q \in Request, Breaks(q)
    PROVE  IInv'
<1>1. /\ stage[q] = "routing" /\ Replies(q, "failed", 500)
      /\ outcome' = [outcome EXCEPT ![q] = Unrecorded]
      /\ UNCHANGED <<life, refresh, seen, tokens, used_today, exposed, midnights>>
  BY DEF Breaks
<1>2. outcome' \in [Request -> Outcome] /\ \A p \in Request : p # q => outcome'[p] = outcome[p]
  BY <1>1, ClassesApart DEF IInv, Types
<1>3. seen' \in [Request -> Seen] /\ 500 \notin GaveUpStatus
  BY <1>1 DEF IInv, Types, GaveUpStatus
<1> QED
  BY <1>1, <1>2, <1>3, EndsStep

\* One more request is unsettled, and what is in the table is below the cap: the
\* most that can come of it is the cap's last token but one and the price of all
\* that are unsettled now.
LEMMA AdmitsStep ==
    ASSUME IInv, NEW q \in Request, Admits(q)
    PROVE  IInv'
<1>1. /\ life = "serving" /\ stage[q] = "none" /\ used_today < Cap /\ Move(q, "routing")
      /\ UNCHANGED <<life, refresh, outcome, seen, reply, tokens, used_today, midnights>>
  BY DEF Admits
<1>2. /\ stage' \in [Request -> Stage]
      /\ \A r \in Stage : At(r)' = IF r = "routing" THEN At(r) \cup {q} ELSE At(r) \ {q}
  BY <1>1, Moves, StageNames DEF IInv
<1>3. \A r \in Stage \ {"none", "routing"} : At(r)' = At(r)
  BY <1>1, <1>2, StageNames DEF At
<1>4. At("routing")' = At("routing") \cup {q} /\ q \notin At("routing") /\ q \notin At("queued")
  BY <1>1, <1>2, StageNames DEF At
<1> DEFINE a == Cardinality(At("routing"))
           b == Cardinality(At("queued"))
<1>5. a \in Nat /\ b \in Nat /\ Cardinality(At("routing")') = a + 1
  BY <1>4, Spending, StageNames, FS_AddElement DEF IInv
<1>6. Cardinality(Unsettled) = a + b
  <2>1. At("routing") \cap At("queued") = {}
    BY DEF At
  <2>2. Cardinality(Unsettled) = a + b - 0
    BY <2>1, Spending, StageNames, FS_Union, FS_EmptySet DEF IInv, Unsettled
  <2> QED
    BY <1>5, <2>2
<1>7. a + b + 1 <= Cardinality(Request)
  <2>1. Unsettled \cup {q} \in SUBSET Request /\ q \notin Unsettled
    BY <1>4 DEF Unsettled, At
  <2>2. IsFiniteSet(Unsettled)
    BY <2>1, Sizes
  <2>3. Cardinality(Unsettled \cup {q}) = Cardinality(Unsettled) + 1
    BY <2>1, <2>2, FS_AddElement
  <2>4. Cardinality(Unsettled \cup {q}) <= Cardinality(Request)
    BY <2>1, Numbers, FS_Subset
  <2> QED
    BY <1>6, <2>3, <2>4
<1> HIDE DEF a, b
<1>8. PICK e \in Nat : e = exposed' /\ a + b + 1 <= e /\ e <= Cardinality(Request)
  <2>1. exposed' = IF a + b + 1 > exposed THEN a + b + 1 ELSE exposed
    BY <1>6 DEF Admits
  <2>2. exposed \in Nat /\ exposed <= Cardinality(Request)
    BY DEF IInv, Types, Counted
  <2>3. a + b + 1 \in Nat
    BY <1>5
  <2>4. exposed' \in Nat /\ a + b + 1 <= exposed' /\ exposed' <= Cardinality(Request)
    BY <1>7, <2>1, <2>2, <2>3
  <2> QED
    BY <2>4
<1>9. Types'
  BY <1>1, <1>2, <1>8 DEF IInv, Types
<1>10. Counted'
  BY <1>1, <1>3, <1>8, StageNames DEF IInv, Counted
<1>11. Blamed'
  <2>1. \A p \in Request : p # q => stage'[p] = stage[p]
    BY <1>1 DEF Move, IInv, Types
  <2>2. stage'[q] = "routing" /\ seen[q] # "rejection" /\ reply[q] = None
    BY <1>1 DEF Move, IInv, Types, Blamed, Earned
  <2>3. \A p \in Request : p # q => Earned(p)'
    BY <1>1, <2>1 DEF IInv, Blamed, Earned
  <2>4. outcome[q] = Unrecorded
    BY <1>1 DEF IInv, Blamed, Earned
  <2>5. Earned(q)'
    BY <1>1, <2>2, <2>4, ClassesApart DEF Earned
  <2> QED
    BY <2>3, <2>5 DEF Blamed
<1>12. SpendBounded'
  <2>1. CostOf(tokens', At("queued")') = CostOf(tokens, At("queued"))
    BY <1>1, <1>3, StageNames
  <2>2. CostOf(tokens, At("queued")) <= MaxTokens * b
    BY CostBounded, Spending, StageNames DEF IInv, b
  <2>3. MaxTokens * b + MaxTokens * (a + 1) <= MaxTokens * e
    <3>1. b + (a + 1) <= e /\ b + (a + 1) \in Nat
      BY <1>5, <1>8
    <3>2. MaxTokens * (b + (a + 1)) <= MaxTokens * e
      BY <1>8, <3>1, Numbers, Products
    <3>3. MaxTokens * (b + (a + 1)) = MaxTokens * b + MaxTokens * (a + 1)
      BY <1>5, Numbers, Products
    <3> QED
      BY <3>2, <3>3
  <2>4. PICK k \in Nat, mb \in Nat, ma \in Nat, me \in Nat :
           /\ k = CostOf(tokens, At("queued")) /\ mb = MaxTokens * b
           /\ ma = MaxTokens * (a + 1) /\ me = MaxTokens * e
    <3>1. a + 1 \in Nat
      BY <1>5
    <3>2. /\ CostOf(tokens, At("queued")) \in Nat /\ MaxTokens * b \in Nat
          /\ MaxTokens * (a + 1) \in Nat /\ MaxTokens * e \in Nat
      BY <1>5, <1>8, <3>1, Spending, Numbers, Products DEF IInv
    <3> QED
      BY <3>2
  <2>5. Pending' = k + ma
    BY <1>5, <1>9, <2>1, <2>4, SpendingNext
  <2>6. used_today' \in Nat /\ used_today' <= Cap - 1 /\ Cap - 1 \in Nat
    BY <1>1, Numbers DEF IInv, Types
  <2>7. used_today' + Pending' <= Cap - 1 + me
    BY <2>2, <2>3, <2>4, <2>5, <2>6
  <2> QED
    BY <1>8, <2>4, <2>7 DEF SpendBounded
<1> QED
  BY <1>9, <1>10, <1>11, <1>12 DEF IInv

\* The answer may cost what was held against the request, or less.
LEMMA AnswersStep ==
    ASSUME IInv, NEW q \in Request, Answers(q)
    PROVE  IInv'
<1>1. /\ stage[q] = "routing" /\ outcome[q] = NoError /\ Replies(q, "queued", 200)
      /\ outcome' = [outcome EXCEPT ![q] = Unrecorded]
      /\ UNCHANGED <<life, refresh, seen, used_today, exposed, midnights>>
  BY DEF Answers, Recorded
<1>2. PICK n \in 0 .. MaxTokens : tokens' = [tokens EXCEPT ![q] = n]
  BY DEF Answers
<1>3. /\ stage' \in [Request -> Stage]
      /\ \A r \in Stage : At(r)' = IF r = "queued" THEN At(r) \cup {q} ELSE At(r) \ {q}
  BY <1>1, Moves, StageNames DEF IInv, Replies
<1>4. /\ At("routing")' = At("routing") \ {q} /\ q \in At("routing")
      /\ At("queued")' = At("queued") \cup {q} /\ q \notin At("queued")
      /\ At("durable")' = At("durable")
  BY <1>1, <1>3, StageNames DEF At
<1>5. Types'
  <2>1. reply' \in [Request -> {None, 200, 400, 401, 429, 500} \cup GaveUpStatus]
    BY <1>1 DEF IInv, Types, Replies
  <2>2. seen' \in [Request -> Seen] /\ outcome' \in [Request -> Outcome]
    BY <1>1, ClassesApart DEF IInv, Types
  <2>3. tokens' \in [Request -> 0 .. MaxTokens]
    BY <1>2 DEF IInv, Types
  <2>4. At("routing")' # {} => life' = "serving"
    BY <1>1, <1>4 DEF IInv, Types
  <2> QED
    BY <1>1, <1>3, <2>1, <2>2, <2>3, <2>4 DEF IInv, Types
<1>6. Counted'
  BY <1>1, <1>4 DEF IInv, Counted
<1>7. Blamed'
  <2>1. \A p \in Request : p # q => stage'[p] = stage[p] /\ reply'[p] = reply[p] /\ outcome'[p] = outcome[p]
    BY <1>1 DEF Replies, Move, IInv, Types
  <2>2. stage'[q] = "queued" /\ seen[q] # "rejection"
    BY <1>1, ClassesApart DEF Replies, Move, IInv, Types, Blamed, Earned
  <2>3. \A p \in Request : p # q => Earned(p)'
    BY <1>1, <2>1 DEF IInv, Blamed, Earned
  <2>4. Earned(q)'
    BY <1>1, <2>2 DEF Earned
  <2> QED
    BY <2>3, <2>4 DEF Blamed
<1>8. SpendBounded'
  <2> DEFINE a == Cardinality(At("routing"))
             Q == At("queued")
  <2>1. a \in Nat /\ a - 1 \in Nat /\ Cardinality(At("routing")') = a - 1
    <3>1. a \in Nat /\ Cardinality(At("routing")') = a - 1
      BY <1>4, Spending, StageNames, FS_RemoveElement DEF IInv
    <3>2. a # 0
      BY <1>4, Spending, StageNames, FS_EmptySet DEF IInv
    <3> QED
      BY <3>1, <3>2
  <2>2. MaxTokens * a = MaxTokens * (a - 1) + MaxTokens
    <3>1. MaxTokens * ((a - 1) + 1) = MaxTokens * (a - 1) + MaxTokens * 1
      BY <2>1, Numbers, Products
    <3>2. (a - 1) + 1 = a /\ MaxTokens * 1 = MaxTokens
      BY <2>1, Numbers, Products
    <3> QED
      BY <3>1, <3>2
  <2>3. CostOf(tokens', Q \cup {q}) = CostOf(tokens, Q) + CostOf(tokens', {q})
    <3>1. Q \in SUBSET Request /\ Q \cup {q} \in SUBSET Request /\ (Q \cup {q}) \ Q = {q}
      BY <1>4 DEF At
    <3>2. CostOf(tokens', Q \cup {q}) = CostOf(tokens', Q) + CostOf(tokens', {q})
      BY <3>1, CostSplits
    <3>3. CostOf(tokens', Q) = CostOf(tokens, Q)
      <4>1. \A p \in Q : tokens'[p] = tokens[p]
        BY <1>2, <1>4, <3>1 DEF IInv, Types
      <4> QED
        BY <3>1, <4>1, CostAgrees
    <3> QED
      BY <3>2, <3>3
  <2>4. CostOf(tokens', {q}) \in Nat /\ CostOf(tokens', {q}) <= MaxTokens
    BY CostOfOne
  <2>5. MaxTokens * (a - 1) \in Nat /\ MaxTokens * a \in Nat
    BY <2>1, Numbers, Products
  <2>6. PICK k \in Nat, c \in Nat, x \in Nat, y \in Nat :
           /\ k = CostOf(tokens, Q) /\ c = CostOf(tokens', {q})
           /\ x = MaxTokens * (a - 1) /\ y = MaxTokens * a
    BY <2>4, <2>5, Spending DEF IInv
  <2>7. Pending = k + y /\ Pending' = k + c + x
    BY <1>4, <1>5, <2>1, <2>3, <2>6, Spending, SpendingNext DEF IInv
  <2>8. used_today' + Pending' <= used_today + Pending
    BY <1>1, <2>2, <2>4, <2>6, <2>7, Numbers DEF IInv, Types
  <2> QED
    BY <1>1, <1>5, <2>8, Settled
<1> QED
  BY <1>5, <1>6, <1>7, <1>8 DEF IInv

\* Where a batch goes when it leaves the queue.
LEMMA Left ==
    ASSUME IInv, NEW batch \in SUBSET Request, NEW s \in {"durable", "lost"}, Leave(batch, s)
    PROVE  /\ stage' \in [Request -> Stage] /\ tokens' \in [Request -> 0 .. MaxTokens]
           /\ \A p \in Request \ batch : stage'[p] = stage[p] /\ tokens'[p] = tokens[p]
           /\ \A p \in batch : stage'[p] = s
           /\ \A r \in Stage : At(r)' = IF r = s THEN At(r) \cup batch ELSE At(r) \ batch
<1>1. stage' = [p \in Request |-> IF p \in batch THEN s ELSE stage[p]]
  BY DEF Leave
<1>2. tokens' = [p \in Request |-> IF p \in batch THEN 0 ELSE tokens[p]]
  BY DEF Leave
<1>3. s \in Stage
  BY StageNames
<1>4. stage' \in [Request -> Stage]
  BY <1>1, <1>3 DEF IInv, Types
<1>5. tokens' \in [Request -> 0 .. MaxTokens]
  BY <1>2, Numbers DEF IInv, Types
<1>6. /\ \A p \in Request \ batch : stage'[p] = stage[p] /\ tokens'[p] = tokens[p]
      /\ \A p \in batch : stage'[p] = s
  BY <1>1, <1>2
<1>7. \A r : At(r)' = {p \in Request : stage'[p] = r}
  BY DEF At
<1>8. \A r : At(r) = {p \in Request : stage[p] = r}
  BY DEF At
<1>9. ASSUME NEW r \in Stage
      PROVE  At(r)' = IF r = s THEN At(r) \cup batch ELSE At(r) \ batch
  BY <1>6, <1>7, <1>8
<1> QED
  BY <1>4, <1>5, <1>6, <1>9

LEMMA QueueShrinks ==
    ASSUME IInv, NEW batch \in SUBSET At("queued"), NEW s \in {"durable", "lost"}, Leave(batch, s),
           used_today' \in Nat, UNCHANGED <<life, refresh, outcome, seen, reply, exposed, midnights>>
    PROVE  /\ Types' /\ Blamed'
           /\ At("routing")' = At("routing")
           /\ At("durable")' = IF s = "durable" THEN At("durable") \cup batch ELSE At("durable")
           /\ CostOf(tokens, batch) \in Nat
           /\ CostOf(tokens, At("queued")) = CostOf(tokens, batch) + CostOf(tokens', At("queued")')
<1>1. batch \in SUBSET Request /\ At("queued") \in SUBSET Request
  BY DEF At
<1>2. /\ stage' \in [Request -> Stage] /\ tokens' \in [Request -> 0 .. MaxTokens]
      /\ \A p \in Request \ batch : stage'[p] = stage[p] /\ tokens'[p] = tokens[p]
      /\ \A p \in batch : stage'[p] = s
      /\ \A r \in Stage : At(r)' = IF r = s THEN At(r) \cup batch ELSE At(r) \ batch
  BY <1>1, Left
<1>3. At("routing") \cap batch = {} /\ At("durable") \cap batch = {} /\ At("failed") \cap batch = {}
  BY DEF At
<1>4. /\ At("queued")' = At("queued") \ batch
      /\ At("routing")' = At("routing") /\ At("failed")' = At("failed")
      /\ At("durable")' = IF s = "durable" THEN At("durable") \cup batch ELSE At("durable")
  BY <1>2, <1>3, StageNames
<1>5. Types'
  BY <1>2, <1>4 DEF IInv, Types
<1>6. Blamed'
  <2>1. \A p \in Request : stage'[p] = stage[p] \/ stage'[p] \in {"durable", "lost"}
    BY <1>2
  <2> QED
    BY <2>1 DEF IInv, Blamed, Earned
<1>7. CostOf(tokens, At("queued")) = CostOf(tokens, batch) + CostOf(tokens, At("queued") \ batch)
  BY <1>1, CostSplits
<1>8. CostOf(tokens, At("queued") \ batch) = CostOf(tokens', At("queued") \ batch)
  BY <1>1, <1>2, CostAgrees
<1>9. CostOf(tokens, batch) \in Nat
  BY <1>1, CostBounded
<1> QED
  BY <1>4, <1>5, <1>6, <1>7, <1>8, <1>9

\* What a batch costs moves from the queue into the table.
LEMMA CommitsStep ==
    ASSUME IInv, NEW batch \in SUBSET At("queued"), Commits(batch)
    PROVE  IInv'
<1>1. /\ Leave(batch, "durable") /\ used_today' = used_today + CostOf(tokens, batch)
      /\ UNCHANGED <<life, refresh, outcome, seen, reply, exposed, midnights>>
  BY CostIs DEF Commits
<1>2. batch \in SUBSET Request /\ batch \cap At("durable") = {}
  BY DEF At
<1>3. CostOf(tokens, batch) \in Nat /\ CostOf(tokens, batch) <= MaxTokens * Cardinality(batch)
  BY <1>2, CostBounded
<1>4. used_today' \in Nat
  BY <1>1, <1>3 DEF IInv, Types
<1>5. /\ Types' /\ Blamed'
      /\ At("routing")' = At("routing") /\ At("durable")' = At("durable") \cup batch
      /\ CostOf(tokens, At("queued")) = CostOf(tokens, batch) + CostOf(tokens', At("queued")')
  BY <1>1, <1>4, QueueShrinks
<1>6. Counted'
  <2> DEFINE d == Cardinality(At("durable"))
             e == Cardinality(batch)
  <2>1. d \in Nat /\ e \in Nat /\ Cardinality(At("durable")') = d + e
    <3>1. IsFiniteSet(batch) /\ e \in Nat
      BY <1>2, Sizes
    <3>2. IsFiniteSet(At("durable")) /\ d \in Nat
      BY Spending, StageNames DEF IInv
    <3>3. Cardinality(At("durable")') = d + e - 0
      BY <1>2, <1>5, <3>1, <3>2, FS_Union, FS_EmptySet
    <3> QED
      BY <3>1, <3>2, <3>3
  <2>2. PICK x \in Nat, y \in Nat, z \in Nat :
           x = MaxTokens * d /\ y = MaxTokens * e /\ z = MaxTokens * (d + e) /\ z = x + y
    <3>1. d + e \in Nat
      BY <2>1
    <3>2. MaxTokens * d \in Nat /\ MaxTokens * e \in Nat /\ MaxTokens * (d + e) \in Nat
      BY <2>1, <3>1, Numbers, Products
    <3>3. MaxTokens * (d + e) = MaxTokens * d + MaxTokens * e
      BY <2>1, Numbers, Products
    <3> QED
      BY <3>2, <3>3
  <2>3. used_today \in Nat /\ used_today <= x
    BY <2>2 DEF IInv, Types, Counted
  <2>4. used_today' <= MaxTokens * Cardinality(At("durable")')
    BY <1>1, <1>3, <2>1, <2>2, <2>3
  <2> QED
    BY <1>1, <2>4 DEF IInv, Counted
<1>7. used_today' + Pending' <= used_today + Pending
  <2>1. PICK k \in Nat, l \in Nat, c \in Nat, m \in Nat :
           /\ k = CostOf(tokens, At("queued")) /\ l = CostOf(tokens', At("queued")')
           /\ c = CostOf(tokens, batch) /\ m = MaxTokens * Cardinality(At("routing"))
    BY <1>3, <1>5, Spending, SpendingNext DEF IInv
  <2>2. Pending = k + m /\ Pending' = l + m
    BY <1>5, <2>1, Spending, SpendingNext DEF IInv
  <2>3. k = c + l /\ used_today' = used_today + c /\ used_today \in Nat
    BY <1>1, <1>5, <2>1 DEF IInv, Types
  <2> QED
    BY <2>2, <2>3
<1> QED
  BY <1>1, <1>5, <1>6, <1>7, Settled DEF IInv

LEMMA LosesStep ==
    ASSUME IInv, NEW batch \in SUBSET At("queued"), Loses(batch)
    PROVE  IInv'
<1>1. /\ Leave(batch, "lost")
      /\ UNCHANGED <<life, refresh, outcome, seen, reply, used_today, exposed, midnights>>
  BY DEF Loses
<1>2. used_today' \in Nat
  BY <1>1 DEF IInv, Types
<1>3. /\ Types' /\ Blamed'
      /\ At("routing")' = At("routing") /\ At("durable")' = At("durable")
      /\ CostOf(tokens, batch) \in Nat
      /\ CostOf(tokens, At("queued")) = CostOf(tokens, batch) + CostOf(tokens', At("queued")')
  BY <1>1, <1>2, QueueShrinks
<1>4. Counted'
  BY <1>1, <1>3 DEF IInv, Counted
<1>5. used_today' + Pending' <= used_today + Pending
  <2>1. PICK k \in Nat, l \in Nat, c \in Nat, m \in Nat :
           /\ k = CostOf(tokens, At("queued")) /\ l = CostOf(tokens', At("queued")')
           /\ c = CostOf(tokens, batch) /\ m = MaxTokens * Cardinality(At("routing"))
    BY <1>3, Spending, SpendingNext DEF IInv
  <2>2. Pending = k + m /\ Pending' = l + m
    BY <1>3, <2>1, Spending, SpendingNext DEF IInv
  <2>3. k = c + l /\ used_today' = used_today /\ used_today \in Nat
    BY <1>1, <1>3, <2>1 DEF IInv, Types
  <2> QED
    BY <2>2, <2>3
<1> QED
  BY <1>1, <1>3, <1>4, <1>5, Settled DEF IInv

\* Nothing is spent of the new day yet, and what is unsettled at its first moment
\* may all be inserted in it.
LEMMA NewDayStep ==
    ASSUME IInv, NewDay
    PROVE  IInv'
<1> DEFINE a == Cardinality(At("routing"))
           b == Cardinality(At("queued"))
<1>1. /\ used_today' = 0 /\ exposed' = Cardinality(Unsettled) /\ midnights' \in 0 .. MaxMidnights
      /\ UNCHANGED <<life, refresh, stage, outcome, seen, reply, tokens>>
  BY Numbers DEF NewDay, request, IInv, Types
<1>2. a \in Nat /\ b \in Nat /\ a + b \in Nat
  <2>1. a \in Nat /\ b \in Nat
    BY Spending, StageNames DEF IInv
  <2> QED
    BY <2>1
<1>3. exposed' = a + b
  <2>1. At("routing") \cap At("queued") = {}
    BY DEF At
  <2>2. Cardinality(Unsettled) = a + b - 0
    BY <2>1, Spending, StageNames, FS_Union, FS_EmptySet DEF IInv, Unsettled
  <2> QED
    BY <1>1, <1>2, <2>2
<1>4. exposed' <= Cardinality(Request)
  <2>1. Unsettled \in SUBSET Request
    BY DEF Unsettled, At
  <2> QED
    BY <1>1, <2>1, Numbers, FS_Subset
<1>5. \A s : At(s)' = At(s)
  BY <1>1 DEF At
<1>6. Types'
  BY <1>1, <1>2, <1>3, <1>5 DEF IInv, Types
<1>7. Counted'
  <2>1. MaxTokens * Cardinality(At("durable")) \in Nat
    BY Spending, StageNames, Numbers, Products DEF IInv
  <2> QED
    BY <1>1, <1>4, <1>5, <2>1 DEF Counted
<1>8. Blamed'
  BY <1>1 DEF IInv, Blamed, Earned
<1>9. SpendBounded'
  <2>1. PICK k \in Nat, x \in Nat, y \in Nat, z \in Nat :
           /\ k = CostOf(tokens, At("queued")) /\ x = MaxTokens * a
           /\ y = MaxTokens * b /\ z = MaxTokens * (a + b)
    BY <1>2, Spending, Numbers, Products DEF IInv
  <2>2. z = x + y
    BY <1>2, <2>1, Numbers, Products
  <2>3. k <= y
    BY <2>1, CostBounded, Spending, StageNames DEF IInv
  <2>4. Pending' = k + x
    BY <1>1, <1>5, <1>6, <2>1, SpendingNext
  <2>5. used_today' + Pending' <= Cap - 1 + z
    BY <1>1, <2>2, <2>3, <2>4, Numbers
  <2> QED
    BY <1>3, <2>1, <2>5 DEF SpendBounded
<1> QED
  BY <1>6, <1>7, <1>8, <1>9 DEF IInv

\* Nothing is left that might still be paid for.
LEMMA KilledStep ==
    ASSUME IInv, Killed
    PROVE  IInv'
<1>1. /\ life' = "killed" /\ refresh' = "none" /\ Leave(Unsettled, "lost")
      /\ outcome' = [p \in Request |-> Unrecorded]
      /\ UNCHANGED <<seen, reply, used_today, exposed, midnights>>
  BY DEF Killed
<1>2. Unsettled \in SUBSET Request
  BY DEF Unsettled, At
<1>3. /\ stage' \in [Request -> Stage] /\ tokens' \in [Request -> 0 .. MaxTokens]
      /\ \A p \in Request \ Unsettled : stage'[p] = stage[p] /\ tokens'[p] = tokens[p]
      /\ \A p \in Unsettled : stage'[p] = "lost"
      /\ \A r \in Stage : At(r)' = IF r = "lost" THEN At(r) \cup Unsettled ELSE At(r) \ Unsettled
  BY <1>1, <1>2, Left
<1>4. /\ At("routing")' = {} /\ At("queued")' = {}
      /\ At("durable")' = At("durable") /\ At("failed")' = At("failed")
  BY <1>3, StageNames DEF Unsettled, At
<1>5. Types'
  BY <1>1, <1>3, <1>4, ClassesApart DEF IInv, Types, Life
<1>6. Counted'
  BY <1>1, <1>4 DEF IInv, Counted
<1>7. Blamed'
  <2>1. ASSUME NEW p \in Request
        PROVE  Earned(p)'
    <3>1. CASE p \in Unsettled
      <4>1. stage'[p] = "lost"
        BY <1>3, <3>1
      <4>2. seen[p] = "rejection" => reply[p] \in {None, 400, 401, 500}
        BY DEF IInv, Blamed, Earned
      <4> QED
        BY <1>1, <4>1, <4>2 DEF Earned
    <3>2. CASE p \notin Unsettled
      <4>1. stage'[p] = stage[p] /\ stage[p] # "routing"
        BY <1>3, <3>2 DEF Unsettled, At
      <4>2. outcome'[p] = Unrecorded
        BY <1>1
      <4> QED
        BY <1>1, <4>1, <4>2 DEF IInv, Blamed, Earned
    <3> QED
      BY <3>1, <3>2
  <2> QED
    BY <2>1 DEF Blamed
<1>8. Pending' = 0
  <2>1. Cardinality({}) = 0 /\ MaxTokens * 0 = 0
    BY FS_EmptySet, Numbers, Products
  <2>2. CostOf(tokens', {}) \in Nat /\ CostOf(tokens', {}) <= MaxTokens * Cardinality({})
    BY CostBounded
  <2>3. CostOf(tokens', {}) = 0
    BY <2>1, <2>2
  <2> QED
    BY <1>4, <1>5, <2>1, <2>3, SpendingNext
<1>9. used_today' + Pending' <= used_today + Pending
  BY <1>1, <1>8, Spending DEF IInv, Types
<1> QED
  BY <1>1, <1>5, <1>6, <1>7, <1>9, Settled DEF IInv

LEMMA InitHolds == Init => IInv
<1> SUFFICES ASSUME Init PROVE IInv
  OBVIOUS
<1>1. \A s : s # "none" => At(s) = {}
  BY DEF Init, At
<1>2. Types
  BY <1>1, Numbers, ClassesApart DEF Init, Types, Life, Stage, Seen
<1>3. Counted
  <2>1. Cardinality({}) = 0 /\ MaxTokens * 0 = 0
    BY FS_EmptySet, Numbers, Products
  <2>2. Cardinality(Request) \in Nat
    BY Numbers, FS_CardinalityType
  <2>3. At("durable") = {} /\ used_today = 0 /\ exposed = 0
    BY <1>1 DEF Init
  <2>4. MaxTokens * Cardinality(At("durable")) = 0
    BY <2>1, <2>3
  <2> QED
    BY <2>2, <2>3, <2>4 DEF Counted
<1>4. Blamed
  BY ClassesApart DEF Init, Blamed, Earned
<1>5. SpendBounded
  <2>1. Cardinality({}) = 0 /\ MaxTokens * 0 = 0
    BY FS_EmptySet, Numbers, Products
  <2>2. CostOf(tokens, {}) \in Nat /\ CostOf(tokens, {}) <= MaxTokens * Cardinality({})
    BY CostBounded
  <2>3. Pending = 0
    BY <1>1, <1>2, <2>1, <2>2, Spending
  <2> QED
    BY <2>3 DEF Init, SpendBounded
<1> QED
  BY <1>2, <1>3, <1>4, <1>5 DEF IInv

LEMMA Inductive == Spec => []IInv
<1>1. IInv /\ [Next]_vars => IInv'
  <2> SUFFICES ASSUME IInv, [Next]_vars PROVE IInv'
    OBVIOUS
  <2>1. CASE UNCHANGED vars
    <3>1. UNCHANGED <<life, refresh, stage, outcome, seen, reply, tokens, used_today, exposed, midnights>>
      BY <2>1 DEF vars, request
    <3>2. \A s : At(s)' = At(s)
      BY <3>1 DEF At
    <3>3. Types'
      BY <3>1, <3>2 DEF IInv, Types
    <3>4. Blamed'
      BY <3>1 DEF IInv, Blamed, Earned
    <3> QED
      BY <3>1, <3>2, <3>3, <3>4, Stays DEF IInv
  <2>2. CASE Settles
    BY <2>2, CommitsStep, LosesStep DEF Settles
  <2>3. CASE \E q \in Request, v \in Provider, response \in Response :
               Responds(q, v, response) \/ Slips(q, v, response)
    BY <2>3, RespondsStep, SlipsStep
  <2>4. CASE \E q \in Request : Admits(q) \/ Refuses(q) \/ TurnsAway(q)
    BY <2>4, AdmitsStep, RefusesStep
  <2>5. CASE \E q \in Request : FailsOver(q) \/ IsRejected(q) \/ Answers(q) \/ GivesUp(q) \/ Breaks(q)
    BY <2>5, FailsOverStep, IsRejectedStep, AnswersStep, GivesUpStep, BreaksStep
  <2> QED
    BY <2>1, <2>2, <2>3, <2>4, <2>5, LifeStep, NewDayStep, KilledStep DEF Next
<1> QED
  BY <1>1, InitHolds, PTL DEF Spec

-----------------------------------------------------------------------------
\* Type correctness, with the bounds that counting gives: a request is paid for
\* once at most, and only a serving replica has requests in the router.
THEOREM TypeCorrect == Spec => []TypeOK
<1>1. IInv => TypeOK
  <2> SUFFICES ASSUME IInv PROVE TypeOK
    OBVIOUS
  <2>1. Cardinality(Request) \in Nat /\ Cardinality(At("durable")) \in Nat
    BY Spending, StageNames, Numbers, FS_CardinalityType DEF IInv
  <2>2. Cardinality(At("durable")) <= Cardinality(Request)
    BY Spending, StageNames, Numbers, FS_Subset DEF IInv
  <2>3. MaxTokens * Cardinality(At("durable")) <= MaxTokens * Cardinality(Request)
    BY <2>1, <2>2, Numbers, Products
  <2>4. PICK x \in Nat, y \in Nat :
           x = MaxTokens * Cardinality(At("durable")) /\ y = MaxTokens * Cardinality(Request)
    BY <2>1, Numbers, Products
  <2>5. used_today \in 0 .. MaxTokens * Cardinality(Request)
    BY <2>3, <2>4 DEF IInv, Types, Counted
  <2>6. exposed \in 0 .. Cardinality(Request)
    BY <2>1 DEF IInv, Types, Counted
  <2> QED
    BY <2>5, <2>6 DEF IInv, Types, TypeOK
<1> QED
  BY <1>1, Inductive, PTL

\* The daily cap as far as the code keeps it: the overshoot is bounded by the
\* answers of the requests that were unsettled at one admission of the day.
THEOREM OvershootIsBounded == Spec => []SpendBounded
<1>1. IInv => SpendBounded
  BY DEF IInv
<1> QED
  BY <1>1, Inductive, PTL

\* A caller is told of a rejection only when a vendor rejected the request or gave no
\* status that says so, and a request that was rejected is neither answered nor
\* reported as unavailable: for every adapter, every order in which vendors fail,
\* and wherever a call to Redis raises.
THEOREM BlamesTheRightOne == Spec => []BlameIsEarned
<1>1. IInv => BlameIsEarned
  BY DEF IInv, Blamed, Earned, BlameIsEarned
<1> QED
  BY <1>1, Inductive, PTL
=============================================================================
