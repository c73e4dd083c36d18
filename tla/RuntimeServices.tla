---------------------------- MODULE RuntimeServices ----------------------------
(***************************************************************************)
(* The two services of the Python package that hand out tokens for one     *)
(* action at a time, RuntimeGateway and GitHubExecutor.  They share no     *)
(* state but the clock, so a behaviour looks at one of them.               *)
(***************************************************************************)
EXTENDS RuntimeGateway, GitHubExecutor

VARIABLE service   \* the one that is looked at

vars == <<now, service, runtimeVars, githubVars>>

Init ==
    /\ service \in {"runtime", "github"}
    /\ ClockInit /\ RuntimeInit /\ GitHubInit

RuntimeStep == service = "runtime" /\ RuntimeNext /\ UNCHANGED <<now, service, githubVars>>
GitHubStep == service = "github" /\ GitHubNext /\ UNCHANGED <<now, service, runtimeVars>>
TimePasses == Tick /\ UNCHANGED <<service, runtimeVars, githubVars>>

Next == RuntimeStep \/ GitHubStep \/ TimePasses

Spec == Init /\ [][Next]_vars
-----------------------------------------------------------------------------
\* The stores of both services are well typed (execution_gateway.py, executor.py).
TypeOK ==
    /\ now \in Nat /\ service \in {"runtime", "github"}
    /\ RuntimeTypeOK /\ GitHubTypeOK
=============================================================================
