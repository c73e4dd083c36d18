--------------------------- MODULE SettlementPromise ---------------------------
(***************************************************************************)
(* What an execution sent to the Settlement Orchestrator promises its      *)
(* caller: at most one settlement, one answer, and, unless the execution   *)
(* may be simulated, no claim of a settlement that has not happened.  The  *)
(* settlement and the answer may come in either order.                     *)
(***************************************************************************)
CONSTANTS
    Call,       \* the calls of execute(), one for each token spent
    Simulated   \* those that may be answered with a simulated settlement

VARIABLES
    called,     \* the calls made so far
    settled,    \* those whose settlement has been executed
    answer      \* call -> "none" | "executed" | "blocked"

vars == <<called, settled, answer>>

Init ==
    /\ called = {} /\ settled = {}
    /\ answer = [c \in Call |-> "none"]

Begin(c) ==
    /\ c \notin called
    /\ called' = called \cup {c}
    /\ UNCHANGED <<settled, answer>>

\* Once, and only for a call that was made.
Settle(c) ==
    /\ c \in called \ settled
    /\ settled' = settled \cup {c}
    /\ UNCHANGED <<called, answer>>

\* At once or later, but once.
Answer(c, outcome) ==
    /\ answer[c] = "none"
    /\ outcome = "executed" => c \in settled \cup Simulated
    /\ answer' = [answer EXCEPT ![c] = outcome]
    /\ called' = called \cup {c}
    /\ UNCHANGED settled

Next ==
    \E c \in Call :
        \/ Begin(c)
        \/ Settle(c)
        \/ \E outcome \in {"executed", "blocked"} : Answer(c, outcome)

Spec == Init /\ [][Next]_vars
=============================================================================
