------------------------- MODULE PreviewHandlersProofs -------------------------
(***************************************************************************)
(* Proofs about the judgements of ActionPolicy, for every request, and     *)
(* about the previews of PreviewHandlers, for every traffic.               *)
(***************************************************************************)
EXTENDS PreviewHandlers, TLAPS

(***************************************************************************)
(* Lemmas about the operators.                                             *)
(***************************************************************************)
\* The points for repeated attempts are the same in both languages and grow with the count.
LEMMA RepeatsRise ==
    ASSUME NEW m \in Nat, NEW n \in Nat, m <= n
    PROVE  /\ Repeats(m) \in 0..15
           /\ Repeats(m) <= Repeats(n)
           /\ Points(m > 0, AtMostOf(15, 5 * m)) = Repeats(m)
    BY DEF Repeats, AtMostOf, Points

\* evaluatePolicy gives one of the three decisions (policy.ts).
LEMMA PolicyDecides ==
    ASSUME NEW a
    PROVE  evaluatePolicy(a) \in Decision /\ evaluate_policy(a) \in Decision
  <1>1. LendingDecision(a) \in Decision /\ GoldDecision(a) \in Decision
    BY DEF LendingDecision, GoldDecision, Decision, Allow, Review, Deny
  <1>2. evaluatePolicy(a) \in Decision
    BY <1>1 DEF evaluatePolicy, Decision, Allow, Review, Deny
  <1>3. evaluate_policy(a) \in Decision
    BY DEF evaluate_policy, Decision, Allow, Review, Deny
  <1> QED BY <1>2, <1>3

\* A score is a number between 0 and 100 (risk.ts, risk.py).
LEMMA ScoreIsBounded ==
    ASSUME NEW a, NEW n \in Nat
    PROVE  scoreRisk(a, n) \in 0..100 /\ score_risk(a, n) \in 0..100
  <1>1. /\ LendingScore(a) \in 0..100 /\ GoldScore(a) \in 0..100
        /\ TypeScore(a.action_type) \in 0..100
    BY DEF LendingScore, GoldScore, TypeScore
  <1>2. Repeats(n) \in 0..15 /\ Points(n > 0, AtMostOf(15, 5 * n)) \in 0..15
    BY RepeatsRise
  <1>3. \A k \in Nat : AtMostOf(100, k) \in 0..100
    BY DEF AtMostOf
  <1>4. scoreRisk(a, n) \in 0..100
    <2> DEFINE Sum ==
          TypeScore(a.action_type)
          + Points(a.target_resource \in Production, 25)
          + Points(a.action_type \in Sharing, 15)
          + Points(\/ a.action_type = "github.change_branch_protection"
                   \/ a.context.admin_level_action # "absent", 20)
          + Points(a.action_type = "browser.update_ad_budget" /\ BudgetTenfold(a), 65)
          + 10
          + Repeats(n)
    <2>1. Sum \in Nat
      BY <1>1, <1>2, SMTT(30) DEF Points
    <2>2. scoreRisk(a, n) \in {LendingScore(a), GoldScore(a), AtMostOf(100, Sum)}
      BY Zenon DEF scoreRisk
    <2> HIDE DEF Sum
    <2> QED BY <1>1, <1>3, <2>1, <2>2
  <1>5. score_risk(a, n) \in 0..100
    BY <1>2, <1>3 DEF score_risk, Points
  <1> QED BY <1>4, <1>5

\* More attempts never lower a score (risk.ts, risk.py).
LEMMA ScoreRises ==
    ASSUME NEW a, NEW m \in Nat, NEW n \in Nat, m <= n
    PROVE  scoreRisk(a, m) <= scoreRisk(a, n) /\ score_risk(a, m) <= score_risk(a, n)
  <1>1. /\ LendingScore(a) \in 0..100 /\ GoldScore(a) \in 0..100
        /\ TypeScore(a.action_type) \in 0..100
    BY DEF LendingScore, GoldScore, TypeScore
  <1>2. Repeats(m) \in 0..15 /\ Repeats(n) \in 0..15 /\ Repeats(m) <= Repeats(n)
    BY RepeatsRise
  <1>3. /\ Points(m > 0, AtMostOf(15, 5 * m)) = Repeats(m)
        /\ Points(n > 0, AtMostOf(15, 5 * n)) = Repeats(n)
    BY RepeatsRise
  <1>4. \A j, k \in Nat : j <= k => AtMostOf(100, j) <= AtMostOf(100, k)
    BY DEF AtMostOf
  <1>5. scoreRisk(a, m) <= scoreRisk(a, n)
    <2> DEFINE Base ==
          TypeScore(a.action_type)
          + Points(a.target_resource \in Production, 25)
          + Points(a.action_type \in Sharing, 15)
          + Points(\/ a.action_type = "github.change_branch_protection"
                   \/ a.context.admin_level_action # "absent", 20)
          + Points(a.action_type = "browser.update_ad_budget" /\ BudgetTenfold(a), 65)
          + 10
    <2>1. Base \in Nat
      BY <1>1, SMTT(30) DEF Points
    <2>2. CASE a.action_type = Kgld
      <3>1. scoreRisk(a, m) = LendingScore(a) /\ scoreRisk(a, n) = LendingScore(a)
        BY <2>2 DEF scoreRisk, Kgld, Gold
      <3> QED BY <1>1, <3>1
    <2>3. CASE a.action_type = Gold
      <3>1. scoreRisk(a, m) = GoldScore(a) /\ scoreRisk(a, n) = GoldScore(a)
        BY <2>3 DEF scoreRisk, Kgld, Gold
      <3> QED BY <1>1, <3>1
    <2>4. CASE a.action_type \notin {Kgld, Gold}
      <3>1. /\ scoreRisk(a, m) = AtMostOf(100, Base + Repeats(m))
            /\ scoreRisk(a, n) = AtMostOf(100, Base + Repeats(n))
        BY <2>4 DEF scoreRisk
      <3> HIDE DEF Base
      <3> QED BY <1>2, <1>4, <2>1, <3>1
    <2> QED BY <2>2, <2>3, <2>4
  <1>6. score_risk(a, m) <= score_risk(a, n)
    BY <1>2, <1>3, <1>4 DEF score_risk, Points
  <1> QED BY <1>5, <1>6

\* With numbers for budgets, the two languages see the same tenfold increase.
LEMMA SameTenfold ==
    ASSUME NEW a \in ActionRequest, Shared(a)
    PROVE  BudgetTenfold(a) <=> budget_tenfold(a)
  <1>1. /\ a.parameters.current_budget \in Int \cup {Absent}
        /\ a.parameters.new_budget \in Int \cup {Absent}
    BY DEF ActionRequest, Value, Shared
  <1>2. \A v \in Int \cup {Absent} : numberParameter(v) = float(v) /\ float(v) \in Int
    BY ValuesAssumption DEF numberParameter, float
  <1> QED
    BY <1>1, <1>2, ValuesAssumption DEF BudgetTenfold, budget_tenfold, Tenfold, Above

\* The policies of the two languages agree on every action both have rules for.
LEMMA SameDecision ==
    ASSUME NEW a \in ActionRequest, Shared(a)
    PROVE  evaluatePolicy(a) = evaluate_policy(a)
  <1>1. a.action_type # Kgld /\ a.action_type # Gold
    BY DEF Shared
  <1>2. BudgetTenfold(a) <=> budget_tenfold(a)
    BY SameTenfold
  <1>3. a.action_type \in DottedSharing => a.action_type \notin NamedType
    BY SharingAssumption
  <1> QED
    BY <1>1, <1>2, <1>3 DEF evaluatePolicy, evaluate_policy, NamedType

\* So do the scores.
LEMMA SameScore ==
    ASSUME NEW a \in ActionRequest, Shared(a), NEW n \in Nat
    PROVE  scoreRisk(a, n) = score_risk(a, n)
  <1>1. a.action_type # Kgld /\ a.action_type # Gold
    BY DEF Shared
  <1>2. BudgetTenfold(a) <=> budget_tenfold(a)
    BY SameTenfold
  <1>3. Points(n > 0, AtMostOf(15, 5 * n)) = Repeats(n) /\ Repeats(n) \in 0..15
    BY RepeatsRise
  <1> DEFINE Types ==
        Points(a.action_type \in {"github.delete_repository", "aws.open_security_group"}, 65)
        + Points(a.action_type = "github.read_token_attempt", 80)
        + Points(a.action_type = "github.modify_ci_workflow", 75)
        + Points(a.action_type = "github.export_secrets", 85)
        + Points(a.action_type = "automation.mass_action_abuse", 65)
  <1>4. TypeScore(a.action_type) = Types /\ Types \in Nat
    BY DEF TypeScore, Points
  <1> QED
    BY <1>1, <1>2, <1>3, <1>4 DEF scoreRisk, score_risk, Points

\* The limits of policy.ts and those of risk.ts coincide.
LEMMA SameLimits ==
    ASSUME NEW a, NEW n \in Nat,
           \/ a.action_type = Kgld
           \/ /\ a.action_type = Gold
              /\ a.parameters.currency = "XRP"
              /\ a.target_resource \in GoldVault
    PROVE  LET d == evaluatePolicy(a)
               l == level(scoreRisk(a, n))
           IN /\ d = Allow <=> l = "LOW"
              /\ d = Review <=> l = "MEDIUM"
              /\ d = Deny <=> l = "CRITICAL"
  <1>1. CASE a.action_type = Kgld
    BY <1>1 DEF evaluatePolicy, scoreRisk, LendingDecision, LendingScore, level,
                Allow, Review, Deny, Kgld, Gold
  <1>2. CASE /\ a.action_type = Gold
             /\ a.parameters.currency = "XRP"
             /\ a.target_resource \in GoldVault
    BY <1>2 DEF evaluatePolicy, scoreRisk, GoldDecision, GoldScore, level,
                Allow, Review, Deny, Kgld, Gold
  <1> QED BY <1>1, <1>2

\* What a policy denies has a score of at least 70, gold apart.
LEMMA DeniedScoresHigh ==
    ASSUME NEW a, NEW n \in Nat, a.action_type # Gold
    PROVE  /\ evaluatePolicy(a) = Deny => scoreRisk(a, n) >= 70
           /\ evaluate_policy(a) = Deny => score_risk(a, n) >= 70
  <1>1. Repeats(n) \in 0..15 /\ Points(n > 0, AtMostOf(15, 5 * n)) \in 0..15
    BY RepeatsRise
  <1>2. \A k \in Nat : k >= 70 => AtMostOf(100, k) >= 70
    BY DEF AtMostOf
  <1>3. ASSUME evaluatePolicy(a) = Deny
        PROVE  scoreRisk(a, n) >= 70
    <2>1. CASE a.action_type = Kgld
      BY <1>3, <2>1 DEF evaluatePolicy, scoreRisk, LendingDecision, LendingScore,
                        Allow, Review, Deny, Kgld, Gold
    <2>2. CASE a.action_type # Kgld
      <3>1. \/ a.action_type \in {"github.read_token_attempt", "github.export_secrets"}
            \/ /\ a.action_type = "github.delete_repository"
               /\ a.target_resource \in Production
        BY <1>3, <2>2 DEF evaluatePolicy, Allow, Review, Deny
      <3> QED
        BY <1>1, <1>2, <2>2, <3>1 DEF scoreRisk, TypeScore, Points
    <2> QED BY <2>1, <2>2
  <1>4. ASSUME evaluate_policy(a) = Deny
        PROVE  score_risk(a, n) >= 70
    <2>1. \/ a.action_type \in {"github.read_token_attempt", "github.export_secrets"}
          \/ /\ a.action_type = "github.delete_repository"
             /\ a.target_resource \in Production
      BY <1>4 DEF evaluate_policy, Allow, Review, Deny
    <2> QED
      BY <1>1, <1>2, <2>1 DEF score_risk, Points
  <1> QED BY <1>3, <1>4

(***************************************************************************)
(* The handlers.                                                           *)
(***************************************************************************)
\* Which steps store a preview: the TypeScript handler at the count of its counter, and a
\* Python worker at the count that it has read.
Stores(s, a, n) ==
    /\ a \in Action /\ n \in Nat
    /\ previews' = [previews EXCEPT ![s][a.action_id] =
         PreviewOf(a, n, DecisionBy(s, a), ScoreBy(s, a, n))]

\* What a busy worker holds.
LEMMA WhatIsHandled ==
    ASSUME TypeOK, NEW w \in Worker, handling[w] # Idle
    PROVE  /\ handling[w] \in Handling
           /\ handling[w].action \in Action /\ handling[w].attempts \in Nat
           /\ AttemptKey(handling[w].action) \in Key
  <1>1. handling[w] \in Handling
    BY DEF TypeOK
  <1>2. handling[w].action \in Action /\ handling[w].attempts \in Nat
    BY <1>1 DEF Handling
  <1> QED BY <1>1, <1>2 DEF Key

\* A worker at a step is not idle.
LEMMA AtSomeStep ==
    ASSUME NEW w \in Worker, handling[w].at \in {"read", "stored"}
    PROVE  handling[w] # Idle
  BY DEF Idle

\* A step stores at most one preview.
LEMMA NextStores ==
    ASSUME TypeOK, Next
    PROVE  \/ previews' = previews
           \/ \E a \in Action : PreviewTypeScript(a) /\ Stores("ts", a, Attempts("ts", a))
           \/ \E w \in Worker : /\ StorePreview(w) /\ handling[w] # Idle
                                /\ Stores("python", handling[w].action, handling[w].attempts)
  <1>1. ASSUME NEW a \in traffic, PreviewTypeScript(a)
        PROVE  a \in Action /\ Stores("ts", a, Attempts("ts", a))
    <2>1. a \in Action /\ AttemptKey(a) \in Key
      BY DEF TypeOK, Key
    <2>2. Attempts("ts", a) \in Nat
      BY <2>1 DEF TypeOK, Attempts, Server
    <2>3. /\ DecisionBy("ts", a) = evaluatePolicy(a)
          /\ ScoreBy("ts", a, Attempts("ts", a)) = scoreRisk(a, Attempts("ts", a))
      BY DEF DecisionBy, ScoreBy
    <2> QED BY <1>1, <2>1, <2>2, <2>3 DEF PreviewTypeScript, Stores
  <1>2. ASSUME NEW w \in Worker, StorePreview(w)
        PROVE  /\ handling[w] # Idle
               /\ Stores("python", handling[w].action, handling[w].attempts)
    <2>1. handling[w] # Idle
      BY <1>2, AtSomeStep DEF StorePreview
    <2>2. handling[w].action \in Action /\ handling[w].attempts \in Nat
      BY <2>1, WhatIsHandled
    <2>3. \A a, n : /\ DecisionBy("python", a) = evaluate_policy(a)
                    /\ ScoreBy("python", a, n) = score_risk(a, n)
      BY DEF DecisionBy, ScoreBy
    <2> QED BY <1>2, <2>1, <2>2, <2>3 DEF StorePreview, Stores
  <1>3. ASSUME NEW w \in Worker, NEW a \in traffic, ReadAttempts(w, a)
        PROVE  previews' = previews
    BY <1>3 DEF ReadAttempts
  <1>4. ASSUME NEW w \in Worker, WriteAttempts(w)
        PROVE  previews' = previews
    BY <1>4 DEF WriteAttempts
  <1> QED BY <1>1, <1>2, <1>3, <1>4, Zenon DEF Next

\* A counter goes up by one until the bound.
LEMMA CountRises ==
    ASSUME NEW n \in Nat
    PROVE  Counted(n) \in Nat /\ n <= Counted(n)
  BY MaxAttemptsAssumption DEF Counted

\* What is stored is one entry of one server.
LEMMA StoredEntry ==
    ASSUME TypeOK, NEW s \in Server, NEW a, NEW n, Stores(s, a, n)
    PROVE  /\ previews'[s][a.action_id] = PreviewOf(a, n, DecisionBy(s, a), ScoreBy(s, a, n))
           /\ \A r \in Server, i \in ActionId :
                ~(r = s /\ i = a.action_id) => previews'[r][i] = previews[r][i]
           /\ PreviewOf(a, n, DecisionBy(s, a), ScoreBy(s, a, n)) \in PreviewResponse
           /\ a.action_id \in ActionId
           /\ previews' \in [Server -> [ActionId -> PreviewResponse \cup {NoPreview}]]
  <1> DEFINE p == PreviewOf(a, n, DecisionBy(s, a), ScoreBy(s, a, n))
  <1>1. a \in Action /\ n \in Nat /\ a.action_id \in ActionId
    BY DEF Stores, ActionId
  <1>2. DecisionBy(s, a) \in Decision
    BY PolicyDecides DEF DecisionBy
  <1>3. ScoreBy(s, a, n) \in 0..100
    BY <1>1, ScoreIsBounded DEF ScoreBy
  <1>4. level(ScoreBy(s, a, n)) \in RiskLevel
    BY DEF level, RiskLevel
  <1>5. p \in PreviewResponse
    BY <1>1, <1>2, <1>3, <1>4 DEF PreviewOf, PreviewResponse
  <1>6. previews' = [previews EXCEPT ![s][a.action_id] = p]
    BY DEF Stores
  <1> HIDE DEF p
  <1>7. /\ previews'[s][a.action_id] = p
        /\ \A r \in Server, i \in ActionId :
             ~(r = s /\ i = a.action_id) => previews'[r][i] = previews[r][i]
        /\ previews' \in [Server -> [ActionId -> PreviewResponse \cup {NoPreview}]]
    BY <1>1, <1>5, <1>6 DEF TypeOK
  <1> QED BY <1>1, <1>5, <1>7 DEF p

\* Every step keeps the types.
LEMMA TypeStep ==
    ASSUME TypeOK, [Next]_vars
    PROVE  TypeOK'
  <1>1. ASSUME Next
        PROVE  previews' \in [Server -> [ActionId -> PreviewResponse \cup {NoPreview}]]
    <2>1. "ts" \in Server /\ "python" \in Server
      BY DEF Server
    <2>2. CASE previews' = previews
      BY <2>2 DEF TypeOK
    <2> QED BY <1>1, <2>1, <2>2, NextStores, StoredEntry
  <1>2. ASSUME NEW a \in traffic, PreviewTypeScript(a)
        PROVE  TypeOK'
    <2>1. AttemptKey(a) \in Key /\ "ts" \in Server
      BY DEF TypeOK, Key, Server
    <2>2. Counted(Attempts("ts", a)) \in Nat
      BY <2>1, CountRises DEF TypeOK, Attempts
    <2>3. attemptCounter' \in [Server -> [Key -> Nat]]
      BY <1>2, <2>1, <2>2 DEF PreviewTypeScript, TypeOK
    <2> QED BY <1>1, <1>2, <2>3 DEF PreviewTypeScript, Next, TypeOK
  <1>3. ASSUME NEW w \in Worker, NEW a \in traffic, ReadAttempts(w, a)
        PROVE  TypeOK'
    <2>1. AttemptKey(a) \in Key /\ "python" \in Server /\ a \in Action
      BY DEF TypeOK, Key, Server
    <2>2. Attempts("python", a) \in Nat
      BY <2>1 DEF TypeOK, Attempts
    <2>3. [at |-> "read", action |-> a, attempts |-> Attempts("python", a)] \in Handling
      BY <2>1, <2>2 DEF Handling
    <2>4. handling' \in [Worker -> Handling \cup {Idle}]
      BY <1>3, <2>3 DEF ReadAttempts, TypeOK
    <2>5. overlapped' \subseteq Key
      BY <1>3, <2>1 DEF ReadAttempts, TypeOK
    <2> QED BY <1>3, <2>4, <2>5 DEF ReadAttempts, TypeOK
  <1>4. ASSUME NEW w \in Worker, StorePreview(w)
        PROVE  TypeOK'
    <2>1. handling[w] # Idle
      BY <1>4, AtSomeStep DEF StorePreview
    <2>2. handling[w] \in Handling
      BY <2>1, WhatIsHandled
    <2>3. [handling[w] EXCEPT !.at = "stored"] \in Handling
      BY <2>2 DEF Handling
    <2>4. handling' = [handling EXCEPT ![w] = [handling[w] EXCEPT !.at = "stored"]]
      BY <1>4 DEF StorePreview
    <2>5. handling' \in [Worker -> Handling \cup {Idle}]
      BY <2>3, <2>4 DEF TypeOK
    <2>6. previews' \in [Server -> [ActionId -> PreviewResponse \cup {NoPreview}]]
      BY <1>1, <1>4 DEF Next
    <2> QED BY <1>4, <2>5, <2>6 DEF StorePreview, TypeOK
  <1>5. ASSUME NEW w \in Worker, WriteAttempts(w)
        PROVE  TypeOK'
    <2>1. handling[w] # Idle
      BY <1>5, AtSomeStep DEF WriteAttempts
    <2>2. AttemptKey(handling[w].action) \in Key /\ handling[w].attempts \in Nat
      BY <2>1, WhatIsHandled
    <2>3. Counted(handling[w].attempts) \in Nat
      BY <2>2, CountRises
    <2>4. attemptCounter' \in [Server -> [Key -> Nat]]
      BY <1>5, <2>2, <2>3 DEF WriteAttempts, TypeOK
    <2>5. handling' \in [Worker -> Handling \cup {Idle}]
      BY <1>5 DEF WriteAttempts, TypeOK
    <2> QED BY <1>5, <2>4, <2>5 DEF WriteAttempts, TypeOK
  <1>6. CASE UNCHANGED vars
    BY <1>6 DEF vars, TypeOK
  <1> QED BY <1>2, <1>3, <1>4, <1>5, <1>6, Zenon DEF Next

\* The stores are well typed; in particular every score is between 0 and 100.
THEOREM TypeCorrect == Spec => []TypeOK
  <1>1. Init => TypeOK
    BY ActionAssumption DEF Init, TypeOK
  <1> QED BY <1>1, TypeStep, PTL DEF Spec

\* A handler is alone at its key, and has what the counter says.
AloneAt(u) ==
    LET a == handling[u].action
    IN /\ handling[u].attempts = attemptCounter["python"][AttemptKey(a)]
       /\ \A v \in Worker :
            handling[v] # Idle /\ AttemptKey(handling[v].action) = AttemptKey(a) => v = u

\* A Python handler that is alone at its key has what the counter says, for any number of
\* threads: a preview is lost only where two handlers overlap (api.py:33 and 58).
THEOREM HandlersInvariant == Spec => []HandlersInv
  <1>1. Init => HandlersInv
    BY DEF Init, HandlersInv
  <1>2. TypeOK /\ HandlersInv /\ [Next]_vars => HandlersInv'
    <2> SUFFICES ASSUME TypeOK, HandlersInv, [Next]_vars,
                        NEW u \in Worker, handling'[u] # Idle,
                        AttemptKey(handling'[u].action) \notin overlapped'
                 PROVE  AloneAt(u)'
      BY DEF HandlersInv, Serial, BusyWith, Attempts, AloneAt
    <2>1. ASSUME handling[u] # Idle, AttemptKey(handling[u].action) \notin overlapped
          PROVE  AloneAt(u)
      BY <2>1 DEF HandlersInv, Serial, BusyWith, Attempts, AloneAt
    <2>2. ASSUME NEW a \in traffic, PreviewTypeScript(a)
          PROVE  AloneAt(u)'
      <3>1. attemptCounter'["python"] = attemptCounter["python"]
        BY <2>2 DEF PreviewTypeScript, TypeOK, Server
      <3>2. handling' = handling /\ overlapped' = overlapped
        BY <2>2 DEF PreviewTypeScript
      <3> QED BY <2>1, <3>1, <3>2 DEF AloneAt
    <2>3. ASSUME NEW w \in Worker, NEW a \in traffic, ReadAttempts(w, a)
          PROVE  AloneAt(u)'
      <3> DEFINE h == [at |-> "read", action |-> a, attempts |-> Attempts("python", a)]
      <3>1. /\ handling[w] = Idle /\ attemptCounter' = attemptCounter
            /\ overlapped \subseteq overlapped'
            /\ \A v \in Worker : BusyWith(v, AttemptKey(a)) => AttemptKey(a) \in overlapped'
        BY <2>3 DEF ReadAttempts
      <3>2. h.action = a /\ h.attempts = attemptCounter["python"][AttemptKey(a)]
        BY DEF Attempts
      <3>3. handling' = [handling EXCEPT ![w] = h]
        BY <2>3 DEF ReadAttempts
      <3> HIDE DEF h
      <3>4. handling'[w] = h /\ \A v \in Worker : v # w => handling'[v] = handling[v]
        BY <3>3 DEF TypeOK
      <3>5. CASE u = w
        <4>1. \A v \in Worker : v # w => ~BusyWith(v, AttemptKey(a))
          BY <3>1, <3>2, <3>4, <3>5
        <4>2. ASSUME NEW v \in Worker, handling'[v] # Idle,
                     AttemptKey(handling'[v].action) = AttemptKey(a)
              PROVE  v = w
          BY <3>4, <4>1, <4>2 DEF BusyWith
        <4> QED BY <3>1, <3>2, <3>4, <3>5, <4>2 DEF AloneAt
      <3>6. CASE u # w
        <4>1. handling'[u] = handling[u] /\ AloneAt(u)
          BY <2>1, <3>1, <3>4, <3>6
        <4>2. BusyWith(u, AttemptKey(handling[u].action))
          BY <4>1 DEF BusyWith
        <4>3. AttemptKey(a) # AttemptKey(handling[u].action)
          BY <3>1, <4>1, <4>2
        <4>4. ASSUME NEW v \in Worker, handling'[v] # Idle,
                     AttemptKey(handling'[v].action) = AttemptKey(handling[u].action)
              PROVE  v = u
          BY <3>2, <3>4, <4>1, <4>3, <4>4 DEF AloneAt
        <4> QED BY <3>1, <4>1, <4>4 DEF AloneAt
      <3> QED BY <3>5, <3>6
    <2>4. ASSUME NEW w \in Worker, StorePreview(w)
          PROVE  AloneAt(u)'
      <3>1. /\ handling[w] # Idle
            /\ attemptCounter' = attemptCounter /\ overlapped' = overlapped
        BY <2>4, AtSomeStep DEF StorePreview
      <3>2. handling[w] \in Handling
        BY <3>1, WhatIsHandled
      <3> DEFINE h == [handling[w] EXCEPT !.at = "stored"]
      <3>3. h.action = handling[w].action /\ h.attempts = handling[w].attempts
        BY <3>2 DEF Handling
      <3>4. handling' = [handling EXCEPT ![w] = h]
        BY <2>4 DEF StorePreview
      <3> HIDE DEF h
      <3>5. handling'[w] = h /\ \A v \in Worker : v # w => handling'[v] = handling[v]
        BY <3>4 DEF TypeOK
      <3>6. \A v \in Worker :
              handling'[v] # Idle =>
                /\ handling[v] # Idle
                /\ handling'[v].action = handling[v].action
                /\ handling'[v].attempts = handling[v].attempts
        BY <3>1, <3>3, <3>5
      <3>7. AloneAt(u)
        BY <2>1, <3>1, <3>6
      <3> QED BY <3>1, <3>6, <3>7 DEF AloneAt
    <2>5. ASSUME NEW w \in Worker, WriteAttempts(w)
          PROVE  AloneAt(u)'
      <3>1. handling[w] # Idle /\ overlapped' = overlapped
        BY <2>5, AtSomeStep DEF WriteAttempts
      <3>2. handling'[w] = Idle /\ \A v \in Worker : v # w => handling'[v] = handling[v]
        BY <2>5 DEF WriteAttempts, TypeOK
      <3>3. u # w /\ AloneAt(u) /\ handling'[u] = handling[u]
        BY <2>1, <3>1, <3>2
      <3>4. AttemptKey(handling[w].action) # AttemptKey(handling[u].action)
        BY <3>1, <3>3 DEF AloneAt
      <3>5. AttemptKey(handling[w].action) \in Key /\ AttemptKey(handling[u].action) \in Key
        BY <3>1, <3>2, <3>3, WhatIsHandled
      <3>6. attemptCounter'["python"][AttemptKey(handling[u].action)]
              = attemptCounter["python"][AttemptKey(handling[u].action)]
        BY <2>5, <3>4, <3>5 DEF WriteAttempts, TypeOK, Server
      <3>7. ASSUME NEW v \in Worker, handling'[v] # Idle,
                   AttemptKey(handling'[v].action) = AttemptKey(handling[u].action)
            PROVE  v = u
        BY <3>2, <3>3, <3>7 DEF AloneAt
      <3> QED BY <3>3, <3>6, <3>7 DEF AloneAt
    <2>6. CASE UNCHANGED vars
      BY <2>1, <2>6 DEF vars, AloneAt
    <2> QED BY <2>2, <2>3, <2>4, <2>5, <2>6, Zenon DEF Next
  <1> QED BY <1>1, <1>2, TypeCorrect, PTL DEF Spec

\* Where no preview can be lost, the counters never fall.
LEMMA CountersRise ==
    ASSUME TypeOK, HandlersInv, [Next]_vars, NEW s \in Server, NEW k \in Key,
           s = "python" => k \notin overlapped
    PROVE  attemptCounter[s][k] <= attemptCounter'[s][k]
  <1>1. attemptCounter[s][k] \in Nat
    BY DEF TypeOK
  <1>2. CASE attemptCounter' = attemptCounter
    BY <1>1, <1>2
  <1>3. ASSUME NEW a \in traffic, PreviewTypeScript(a)
        PROVE  attemptCounter[s][k] <= attemptCounter'[s][k]
    <2>1. AttemptKey(a) \in Key /\ "ts" \in Server
      BY DEF TypeOK, Key, Server
    <2>2. Attempts("ts", a) \in Nat
      BY <2>1 DEF TypeOK, Attempts
    <2>3. Attempts("ts", a) <= Counted(Attempts("ts", a))
      BY <2>2, CountRises
    <2>4. attemptCounter' =
            [attemptCounter EXCEPT !["ts"][AttemptKey(a)] = Counted(Attempts("ts", a))]
      BY <1>3 DEF PreviewTypeScript
    <2> QED BY <1>1, <2>1, <2>3, <2>4 DEF TypeOK, Attempts
  <1>4. ASSUME NEW w \in Worker, WriteAttempts(w)
        PROVE  attemptCounter[s][k] <= attemptCounter'[s][k]
    <2> DEFINE n == handling[w].attempts
               key == AttemptKey(handling[w].action)
    <2>1. handling[w] # Idle
      BY <1>4, AtSomeStep DEF WriteAttempts
    <2>2. key \in Key /\ n \in Nat
      BY <2>1, WhatIsHandled
    <2>3. attemptCounter' = [attemptCounter EXCEPT !["python"][key] = Counted(n)]
      BY <1>4 DEF WriteAttempts
    <2>4. n <= Counted(n)
      BY <2>2, CountRises
    <2>5. s = "python" /\ k = key => n = attemptCounter[s][k]
      BY <2>1 DEF HandlersInv, Serial, Attempts
    <2> HIDE DEF n, key
    <2> QED BY <1>1, <2>2, <2>3, <2>4, <2>5 DEF TypeOK, Server
  <1> QED
    BY <1>2, <1>3, <1>4 DEF Next, vars, ReadAttempts, StorePreview

\* Keys that two handlers were at together stay noted.
LEMMA OverlapsStay ==
    ASSUME [Next]_vars
    PROVE  overlapped \subseteq overlapped'
  BY DEF Next, vars, PreviewTypeScript, ReadAttempts, StorePreview, WriteAttempts

\* What is stored is the judgement of its action, at what the counter says.
LEMMA StoresAtCounter ==
    ASSUME TypeOK, HandlersInv, Next
    PROVE  \/ previews' = previews
           \/ \E s \in Server, a \in Action, n \in Nat :
                /\ Stores(s, a, n)
                /\ Serial(s, a) => n = Attempts(s, a)
  <1>1. "ts" \in Server /\ "python" \in Server /\ "ts" # "python"
    BY DEF Server
  <1>2. ASSUME NEW a \in Action, Stores("ts", a, Attempts("ts", a))
        PROVE  \E n \in Nat : Stores("ts", a, n) /\ (Serial("ts", a) => n = Attempts("ts", a))
    BY <1>2 DEF Stores
  <1>3. ASSUME NEW w \in Worker, handling[w] # Idle,
               Stores("python", handling[w].action, handling[w].attempts)
        PROVE  \E a \in Action, n \in Nat :
                 Stores("python", a, n) /\ (Serial("python", a) => n = Attempts("python", a))
    <2>1. handling[w].action \in Action /\ handling[w].attempts \in Nat
      BY <1>3 DEF Stores
    <2>2. Serial("python", handling[w].action)
            => handling[w].attempts = Attempts("python", handling[w].action)
      BY <1>3 DEF HandlersInv
    <2> QED BY <1>3, <2>1, <2>2
  <1> QED BY <1>1, <1>2, <1>3, NextStores

\* Each stored preview is the judgement of its action, at an attempt count that the counter,
\* where no preview can be lost, has not fallen below (server.ts:148-187, api.py:33-58).
THEOREM JudgementInvariant == Spec => []JudgementInv
  <1>1. Init => JudgementInv
    BY DEF Init, JudgementInv, Previewed
  <1>2. TypeOK /\ HandlersInv /\ JudgementInv /\ [Next]_vars => JudgementInv'
    <2> SUFFICES ASSUME TypeOK, HandlersInv, JudgementInv, [Next]_vars,
                        NEW r \in Server, NEW i \in ActionId, Previewed(r, i)'
                 PROVE  JudgedAt(r, i)'
      BY DEF JudgementInv
    <2>1. \A k \in Key :
            (r = "python" => k \notin overlapped')
            => attemptCounter[r][k] <= attemptCounter'[r][k]
      BY CountersRise, OverlapsStay
    <2>2. CASE previews'[r][i] = previews[r][i]
      <3>0. PICK p : p = previews[r][i]
        OBVIOUS
      <3>1. p \in PreviewResponse
        BY <2>2, <3>0 DEF TypeOK, Previewed
      <3>2. p.action \in Action /\ p.attempts \in Nat
        BY <3>1 DEF PreviewResponse
      <3>3. AttemptKey(p.action) \in Key
        BY <3>2 DEF Key
      <3>4. /\ p.action.action_id = i
            /\ Serial(r, p.action) => p.attempts <= Attempts(r, p.action)
            /\ p.decision = DecisionBy(r, p.action)
            /\ p.risk_score = ScoreBy(r, p.action, p.attempts)
            /\ p.risk_level = level(p.risk_score)
        BY <2>2, <3>0 DEF JudgementInv, JudgedAt, Previewed
      <3>5. /\ attemptCounter[r][AttemptKey(p.action)] \in Nat
            /\ attemptCounter'[r][AttemptKey(p.action)] \in Nat
        <4>1. TypeOK'
          BY TypeStep
        <4> QED BY <3>3, <4>1 DEF TypeOK
      <3>6. Serial(r, p.action)' => p.attempts <= Attempts(r, p.action)'
        <4> SUFFICES ASSUME r = "python" => AttemptKey(p.action) \notin overlapped'
                     PROVE  p.attempts <= attemptCounter'[r][AttemptKey(p.action)]
          BY <2>2 DEF Serial, Attempts
        <4>1. p.attempts <= attemptCounter[r][AttemptKey(p.action)]
          BY <3>4, OverlapsStay DEF Serial, Attempts
        <4> QED BY <2>1, <3>2, <3>3, <3>5, <4>1
      <3>7. previews'[r][i] = p
        BY <2>2, <3>0
      <3> QED BY <3>4, <3>6, <3>7 DEF JudgedAt, DecisionBy, ScoreBy
    <2>3. CASE previews'[r][i] # previews[r][i]
      <3>1. PICK s \in Server, a \in Action, n \in Nat :
              Stores(s, a, n) /\ (Serial(s, a) => n = Attempts(s, a))
        BY <2>3, StoresAtCounter DEF vars
      <3>2. r = s /\ i = a.action_id
        BY <2>3, <3>1, StoredEntry
      <3>3. previews'[r][i] = PreviewOf(a, n, DecisionBy(s, a), ScoreBy(s, a, n))
        BY <3>1, <3>2, StoredEntry
      <3>4. AttemptKey(a) \in Key
        BY DEF Key
      <3>5. Serial(r, a)' => n <= Attempts(r, a)'
        <4> SUFFICES ASSUME r = "python" => AttemptKey(a) \notin overlapped'
                     PROVE  n <= attemptCounter'[r][AttemptKey(a)]
          BY DEF Serial, Attempts
        <4>1. n = attemptCounter[r][AttemptKey(a)]
          BY <3>1, <3>2, OverlapsStay DEF Serial, Attempts
        <4> QED BY <2>1, <3>4, <4>1
      <3>6. LET p == PreviewOf(a, n, DecisionBy(s, a), ScoreBy(s, a, n))
            IN /\ p.action = a /\ p.attempts = n
               /\ p.decision = DecisionBy(s, a) /\ p.risk_score = ScoreBy(s, a, n)
               /\ p.risk_level = level(ScoreBy(s, a, n))
        BY DEF PreviewOf
      <3> DEFINE p == previews'[r][i]
      <3>7. /\ p.action = a /\ p.attempts = n
            /\ p.decision = DecisionBy(r, a) /\ p.risk_score = ScoreBy(r, a, n)
            /\ p.risk_level = level(p.risk_score)
        BY <3>2, <3>3, <3>6
      <3> QED BY <3>2, <3>5, <3>7 DEF JudgedAt, DecisionBy, ScoreBy
    <2> QED BY <2>2, <2>3
  <1> QED BY <1>1, <1>2, TypeCorrect, HandlersInvariant, PTL DEF Spec

\* What the invariant says of one stored preview.
LEMMA StoredJudgement ==
    ASSUME TypeOK, JudgementInv, NEW s \in Server, NEW i \in ActionId, Previewed(s, i)
    PROVE  LET p == previews[s][i]
           IN /\ p.action \in Action /\ p.action \in ActionRequest /\ p.attempts \in Nat
              /\ Serial(s, p.action) => p.attempts <= Attempts(s, p.action)
              /\ p.decision = DecisionBy(s, p.action)
              /\ p.risk_score = ScoreBy(s, p.action, p.attempts)
              /\ p.risk_level = level(p.risk_score)
  <1>1. previews[s][i] \in PreviewResponse
    BY DEF TypeOK, Previewed
  <1>2. previews[s][i].action \in Action /\ previews[s][i].attempts \in Nat
    BY <1>1 DEF PreviewResponse
  <1> QED BY <1>2, ActionAssumption DEF JudgementInv, JudgedAt

\* Asked for the same action equally often, the TypeScript and the Python server give it the
\* same decision and the same score, for any action with numbers where numbers belong.
THEOREM ServersJudgeAlike == Spec => []ServersAgree
  <1>1. TypeOK /\ JudgementInv => ServersAgree
    <2> SUFFICES ASSUME TypeOK, JudgementInv, NEW i \in ActionId,
                        Previewed("ts", i), Previewed("python", i),
                        previews["ts"][i].action = previews["python"][i].action,
                        previews["ts"][i].attempts = previews["python"][i].attempts,
                        Shared(previews["ts"][i].action)
                 PROVE  /\ previews["ts"][i].decision = previews["python"][i].decision
                        /\ previews["ts"][i].risk_score = previews["python"][i].risk_score
      BY DEF ServersAgree
    <2> DEFINE a == previews["ts"][i].action
               n == previews["ts"][i].attempts
    <2>1. "ts" \in Server /\ "python" \in Server
      BY DEF Server
    <2>2. /\ a \in ActionRequest /\ n \in Nat
          /\ previews["ts"][i].decision = evaluatePolicy(a)
          /\ previews["ts"][i].risk_score = scoreRisk(a, n)
      BY <2>1, StoredJudgement DEF DecisionBy, ScoreBy
    <2>3. /\ previews["python"][i].decision = evaluate_policy(a)
          /\ previews["python"][i].risk_score = score_risk(a, n)
      BY <2>1, StoredJudgement DEF DecisionBy, ScoreBy
    <2>4. evaluatePolicy(a) = evaluate_policy(a) /\ scoreRisk(a, n) = score_risk(a, n)
      BY <2>2, SameDecision, SameScore
    <2> QED BY <2>2, <2>3, <2>4
  <1> QED BY <1>1, TypeCorrect, JudgementInvariant, PTL

\* For loans and gold purchases the decision and the risk level are two views of one limit.
THEOREM DecisionAndLevelAgree == Spec => []LimitsAgree
  <1>1. TypeOK /\ JudgementInv => LimitsAgree
    <2> SUFFICES ASSUME TypeOK, JudgementInv, NEW i \in ActionId, Previewed("ts", i),
                        LET a == previews["ts"][i].action
                        IN \/ a.action_type = Kgld
                           \/ /\ a.action_type = Gold
                              /\ a.parameters.currency = "XRP"
                              /\ a.target_resource \in GoldVault
                 PROVE  LET p == previews["ts"][i]
                        IN /\ p.decision = Allow <=> p.risk_level = "LOW"
                           /\ p.decision = Review <=> p.risk_level = "MEDIUM"
                           /\ p.decision = Deny <=> p.risk_level = "CRITICAL"
      BY DEF LimitsAgree
    <2> DEFINE p == previews["ts"][i]
    <2>1. /\ p.attempts \in Nat
          /\ p.decision = evaluatePolicy(p.action)
          /\ p.risk_level = level(scoreRisk(p.action, p.attempts))
      BY StoredJudgement DEF Server, DecisionBy, ScoreBy
    <2> QED BY <2>1, SameLimits
  <1> QED BY <1>1, TypeCorrect, JudgementInvariant, PTL

\* What a policy denies is shown with a HIGH or CRITICAL level, gold purchases apart.
THEOREM DenialsAreShownAsDangerous == Spec => []DenialsLookDangerous
  <1>1. TypeOK /\ JudgementInv => DenialsLookDangerous
    <2> SUFFICES ASSUME TypeOK, JudgementInv, NEW s \in Server, NEW i \in ActionId,
                        Previewed(s, i), previews[s][i].decision = Deny,
                        previews[s][i].action.action_type # Gold
                 PROVE  previews[s][i].risk_level \in {"HIGH", "CRITICAL"}
      BY DEF DenialsLookDangerous
    <2> DEFINE p == previews[s][i]
    <2>1. /\ p.attempts \in Nat
          /\ DecisionBy(s, p.action) = Deny
          /\ p.risk_level = level(ScoreBy(s, p.action, p.attempts))
      BY StoredJudgement
    <2>2. /\ ScoreBy(s, p.action, p.attempts) >= 70
          /\ ScoreBy(s, p.action, p.attempts) \in 0..100
      BY <2>1, DeniedScoresHigh, ScoreIsBounded DEF DecisionBy, ScoreBy
    <2> QED BY <2>1, <2>2 DEF level
  <1> QED BY <1>1, TypeCorrect, JudgementInvariant, PTL

\* However often an action is previewed again, its decision stays, in either server and with
\* any number of threads; and its score never falls, unless two Python handlers were at its
\* key together.
THEOREM RepeatingNeverHelps == Spec => AskingAgainNeverHelps
  <1>1. /\ TypeOK /\ HandlersInv /\ JudgementInv /\ [Next]_vars
        => [\A s \in Server, i \in ActionId :
              LET p == previews[s][i]
                  q == previews'[s][i]
              IN Previewed(s, i) /\ q.action = p.action
                 => /\ q.decision = p.decision
                    /\ Serial(s, p.action) => q.risk_score >= p.risk_score]_vars
    <2> SUFFICES ASSUME TypeOK, HandlersInv, JudgementInv, Next,
                        NEW r \in Server, NEW i \in ActionId, Previewed(r, i),
                        previews'[r][i].action = previews[r][i].action
                 PROVE  /\ previews'[r][i].decision = previews[r][i].decision
                        /\ Serial(r, previews[r][i].action)
                           => previews'[r][i].risk_score >= previews[r][i].risk_score
      OBVIOUS
    <2> DEFINE p == previews[r][i]
    <2>1. /\ p.action \in Action /\ p.attempts \in Nat
          /\ Serial(r, p.action) => p.attempts <= Attempts(r, p.action)
          /\ p.decision = DecisionBy(r, p.action)
          /\ p.risk_score = ScoreBy(r, p.action, p.attempts)
      BY StoredJudgement
    <2>2. CASE previews'[r][i] = p
      <3>1. p.risk_score \in Int
        BY <2>1, ScoreIsBounded DEF ScoreBy
      <3> QED BY <2>2, <3>1
    <2>3. CASE previews'[r][i] # p
      <3>1. PICK s \in Server, a \in Action, n \in Nat :
              Stores(s, a, n) /\ (Serial(s, a) => n = Attempts(s, a))
        BY <2>3, StoresAtCounter
      <3>2. r = s /\ i = a.action_id
        BY <2>3, <3>1, StoredEntry
      <3>3. previews'[r][i] = PreviewOf(a, n, DecisionBy(s, a), ScoreBy(s, a, n))
        BY <3>1, <3>2, StoredEntry
      <3>4. /\ previews'[r][i].action = a
            /\ previews'[r][i].decision = DecisionBy(s, a)
            /\ previews'[r][i].risk_score = ScoreBy(s, a, n)
        BY <3>3 DEF PreviewOf
      <3>5. p.action = a
        BY <3>4
      <3>6. ASSUME Serial(r, a)
            PROVE  ScoreBy(r, a, n) >= ScoreBy(r, a, p.attempts)
        <4>1. p.attempts <= n
          BY <2>1, <3>1, <3>2, <3>5, <3>6
        <4>2. ScoreBy(r, a, p.attempts) <= ScoreBy(r, a, n)
          BY <2>1, <4>1, ScoreRises DEF ScoreBy
        <4>3. ScoreBy(r, a, p.attempts) \in Int /\ ScoreBy(r, a, n) \in Int
          BY <2>1, ScoreIsBounded DEF ScoreBy
        <4> QED BY <4>2, <4>3
      <3> QED BY <2>1, <3>2, <3>4, <3>5, <3>6
    <2> QED BY <2>2, <2>3
  <1> QED
    BY <1>1, TypeCorrect, HandlersInvariant, JudgementInvariant, PTL
    DEF Spec, AskingAgainNeverHelps
=============================================================================
