---------------------------- MODULE RpcContract ----------------------------
(***************************************************************************)
(* What the launcher promises to a text service, seen from the outside: a  *)
(* request is executed by the engine at most once, it is answered only     *)
(* after it was executed, and the caller gets control back, with an answer *)
(* or with the connection closed.  LauncherBridge implements this.         *)
(***************************************************************************)
EXTENDS Naturals

CONSTANT Callers    \* the connections of text services

VARIABLES
    phase,  \* "idle", "asked" (the caller is blocked) or "over" (closed)
    ran     \* how often the engine executed the caller's last request

contractVars == <<phase, ran>>

ContractInit ==
    /\ phase = [k \in Callers |-> "idle"]
    /\ ran = [k \in Callers |-> 0]

\* callRpcMethod blocks the host's thread.
Submit(k) ==
    /\ phase[k] = "idle"
    /\ phase' = [phase EXCEPT ![k] = "asked"]
    /\ ran' = [ran EXCEPT ![k] = 0]

\* The engine executes the request, even after the caller gave up.
Execute(k) ==
    /\ phase[k] \in {"asked", "over"} /\ ran[k] = 0
    /\ ran' = [ran EXCEPT ![k] = 1]
    /\ UNCHANGED phase

\* callRpcMethod returns the answer.
Return(k) ==
    /\ phase[k] = "asked" /\ ran[k] = 1
    /\ phase' = [phase EXCEPT ![k] = "idle"]
    /\ UNCHANGED ran

\* The connection is closed, by the host, by the launcher or on a failure.
Fail(k) ==
    /\ phase[k] # "over"
    /\ phase' = [phase EXCEPT ![k] = "over"]
    /\ UNCHANGED ran

ContractNext == \E k \in Callers : Submit(k) \/ Execute(k) \/ Return(k) \/ Fail(k)

ContractSafety == ContractInit /\ [][ContractNext]_contractVars

\* A blocked caller is released.
Release(k) == phase[k] = "asked" /\ (Return(k) \/ Fail(k))

ContractSpec ==
    ContractSafety /\ \A k \in Callers : WF_contractVars(Release(k))
=============================================================================
