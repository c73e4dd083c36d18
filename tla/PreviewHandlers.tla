---------------------------- MODULE PreviewHandlers ----------------------------
(***************************************************************************)
(* What the two preview handlers keep of their judgements: the last        *)
(* preview of each action id and, per actor, type and target, how often a  *)
(* preview was asked for.  Clients send the same requests to either server,*)
(* again and again and in any order.  The TypeScript handler runs to its   *)
(* end; the Python one is served by a pool of threads, and what it reads   *)
(* and writes are three steps.  A reset of the stores is modelled in       *)
(* ActionProxy and ThreadedProxy.                                          *)
(***************************************************************************)
EXTENDS ActionPolicy

CONSTANTS
    Action,       \* the request bodies
    Worker,       \* the threads of the Python server
    Traffic,      \* bound: the sets of bodies that clients send in one run
    MaxAttempts   \* bound: the counter stops here; risk reads no further than 3

ASSUME ActionAssumption == Action \subseteq ActionRequest /\ Traffic \subseteq SUBSET Action
ASSUME MaxAttemptsAssumption == MaxAttempts \in Nat /\ MaxAttempts >= 3

VARIABLES
    traffic,         \* the bodies in use
    attemptCounter,  \* server -> attempt key -> number of previews
    previews,        \* server -> action id -> the last preview, or NoPreview
    handling,        \* Python worker -> the request it is at, or Idle
    overlapped       \* history: the keys that two Python handlers were at together

vars == <<traffic, attemptCounter, previews, handling, overlapped>>

Server == {"ts", "python"}
ActionId == {a.action_id : a \in Action}
AttemptKey(a) == <<a.actor_id, a.action_type, a.target_resource>>
Key == {AttemptKey(a) : a \in Action}
NoPreview == [decision |-> "none"]
Idle == [at |-> "idle"]

\* `action` and `attempts` are history: what was judged, after how many earlier previews.
PreviewResponse ==
    [action : Action, attempts : Nat, decision : Decision, risk_score : 0..100,
     risk_level : RiskLevel]

\* A handler that has read the attempts, or has stored its preview too.
Handling == [at : {"read", "stored"}, action : Action, attempts : Nat]

Init ==
    /\ traffic \in Traffic
    /\ attemptCounter = [s \in Server |-> [k \in Key |-> 0]]
    /\ previews = [s \in Server |-> [i \in ActionId |-> NoPreview]]
    /\ handling = [w \in Worker |-> Idle]
    /\ overlapped = {}

Attempts(s, a) == attemptCounter[s][AttemptKey(a)]
Counted(n) == IF n < MaxAttempts THEN n + 1 ELSE n

PreviewOf(a, n, decision, score) ==
    [action |-> a, attempts |-> n, decision |-> decision, risk_score |-> score,
     risk_level |-> level(score)]

\* POST /actions/preview in the TypeScript server.
PreviewTypeScript(a) ==
    LET n == Attempts("ts", a)
    IN /\ previews' = [previews EXCEPT !["ts"][a.action_id] =
            PreviewOf(a, n, evaluatePolicy(a), scoreRisk(a, n))]
       /\ attemptCounter' = [attemptCounter EXCEPT !["ts"][AttemptKey(a)] = Counted(n)]
       /\ UNCHANGED <<traffic, handling, overlapped>>

\* POST /actions/preview in the Python server: a worker reads the attempts, stores the preview
\* and writes the count back; each is one access of a dictionary, and nothing is locked.  A
\* preview that raises does so before it has stored anything.
BusyWith(w, key) == handling[w] # Idle /\ AttemptKey(handling[w].action) = key

ReadAttempts(w, a) ==
    /\ handling[w] = Idle /\ Answers(a)
    /\ handling' = [handling EXCEPT ![w] =
         [at |-> "read", action |-> a, attempts |-> Attempts("python", a)]]
    /\ overlapped' = overlapped \cup
         {k \in {AttemptKey(a)} : \E v \in Worker : BusyWith(v, k)}
    /\ UNCHANGED <<traffic, attemptCounter, previews>>

StorePreview(w) ==
    LET a == handling[w].action
        n == handling[w].attempts
    IN /\ handling[w].at = "read"
       /\ previews' = [previews EXCEPT !["python"][a.action_id] =
            PreviewOf(a, n, evaluate_policy(a), score_risk(a, n))]
       /\ handling' = [handling EXCEPT ![w].at = "stored"]
       /\ UNCHANGED <<traffic, attemptCounter, overlapped>>

WriteAttempts(w) ==
    /\ handling[w].at = "stored"
    /\ attemptCounter' = [attemptCounter EXCEPT
         !["python"][AttemptKey(handling[w].action)] = Counted(handling[w].attempts)]
    /\ handling' = [handling EXCEPT ![w] = Idle]
    /\ UNCHANGED <<traffic, previews, overlapped>>

Next ==
    \/ \E a \in traffic : PreviewTypeScript(a)
    \/ \E w \in Worker, a \in traffic : ReadAttempts(w, a)
    \/ \E w \in Worker : StorePreview(w) \/ WriteAttempts(w)

Spec == Init /\ [][Next]_vars
-----------------------------------------------------------------------------
(***************************************************************************)
(* Properties                                                              *)
(***************************************************************************)
\* The stores hold previews of known bodies; a score is between 0 and 100 and its level is
\* one of the four (risk.ts, risk.py: the cap at 100).
TypeOK ==
    /\ traffic \subseteq Action
    /\ attemptCounter \in [Server -> [Key -> Nat]]
    /\ previews \in [Server -> [ActionId -> PreviewResponse \cup {NoPreview}]]
    /\ handling \in [Worker -> Handling \cup {Idle}]
    /\ overlapped \subseteq Key

Previewed(s, i) == previews[s][i] # NoPreview

\* What a server's two functions say of an action after so many attempts.
DecisionBy(s, a) == IF s = "ts" THEN evaluatePolicy(a) ELSE evaluate_policy(a)
ScoreBy(s, a, n) == IF s = "ts" THEN scoreRisk(a, n) ELSE score_risk(a, n)

\* Where no preview can be lost: in the TypeScript server, and in the Python server for the
\* keys that no two handlers were at together.
Serial(s, a) == s = "python" => AttemptKey(a) \notin overlapped

\* A stored preview is the judgement of the action it was asked for, at a count of attempts
\* that the counter, where no preview can be lost, has not fallen below since
\* (server.ts:148-187, api.py:33-58).
JudgedAt(s, i) ==
    LET p == previews[s][i]
    IN /\ p.action.action_id = i
       /\ Serial(s, p.action) => p.attempts <= Attempts(s, p.action)
       /\ p.decision = DecisionBy(s, p.action)
       /\ p.risk_score = ScoreBy(s, p.action, p.attempts)
       /\ p.risk_level = level(p.risk_score)
JudgementInv == \A s \in Server, i \in ActionId : Previewed(s, i) => JudgedAt(s, i)

\* Two handlers are at one key only if it is noted, and a handler that is alone at its key
\* has what the counter says (api.py:33 and 58).
HandlersInv ==
    \A w \in Worker : handling[w] # Idle =>
      LET a == handling[w].action
      IN Serial("python", a) =>
           /\ handling[w].attempts = Attempts("python", a)
           /\ \A v \in Worker : BusyWith(v, AttemptKey(a)) => v = w

\* Which kind of action both servers have rules for, with numbers where numbers belong.
Shared(a) ==
    /\ a.action_type \notin {Kgld, Gold}
    /\ a.parameters.current_budget \notin {Words, Empty}
    /\ a.parameters.new_budget \notin {Words, Empty}

\* Two servers that were asked for the same action equally often judge it alike, though
\* they write the rules down in different forms and orders (policy.ts and action_policy.py,
\* risk.ts and risk.py).
ServersAgree ==
    \A i \in ActionId :
      LET p == previews["ts"][i]
          q == previews["python"][i]
      IN /\ Previewed("ts", i) /\ Previewed("python", i)
         /\ p.action = q.action /\ p.attempts = q.attempts
         /\ Shared(p.action)
         => p.decision = q.decision /\ p.risk_score = q.risk_score

\* For a loan and for a gold purchase the limits are written twice, once in policy.ts and
\* once in risk.ts; the two always say the same of one request, wherever its numbers come
\* from.  (A gold purchase in another currency or elsewhere than in a vault is denied
\* whatever its amount.)
LimitsAgree ==
    \A i \in ActionId :
      LET p == previews["ts"][i]
      IN /\ Previewed("ts", i)
         /\ \/ p.action.action_type = Kgld
            \/ /\ p.action.action_type = Gold
               /\ p.action.parameters.currency = "XRP"
               /\ p.action.target_resource \in GoldVault
         => /\ p.decision = Allow <=> p.risk_level = "LOW"
            /\ p.decision = Review <=> p.risk_level = "MEDIUM"
            /\ p.decision = Deny <=> p.risk_level = "CRITICAL"

\* No action is denied by one half of a preview and shown as harmless by the other: apart
\* from gold purchases, what either policy denies has at least a HIGH level, from the first
\* attempt on.
DenialsLookDangerous ==
    \A s \in Server, i \in ActionId :
      LET p == previews[s][i]
      IN Previewed(s, i) /\ p.decision = Deny /\ p.action.action_type # Gold
         => p.risk_level \in {"HIGH", "CRITICAL"}

\* Asking again never helps: when the same action is previewed anew, with whatever other
\* previews in between, its decision is the same; and its score is not lower, unless two
\* Python handlers were at its key together, of which one then takes back what the other
\* counted (the attempt counter of server.ts:148-187 and api.py:33-58, and the
\* repeated_attempts points).
AskingAgainNeverHelps ==
    [][\A s \in Server, i \in ActionId :
         LET p == previews[s][i]
             q == previews'[s][i]
         IN Previewed(s, i) /\ q.action = p.action
            => /\ q.decision = p.decision
               /\ Serial(s, p.action) => q.risk_score >= p.risk_score]_vars
=============================================================================
