------------------------------ MODULE MCRpcPool ------------------------------
(***************************************************************************)
(* The pool of endpoints, and the executor that trades through one: each   *)
(* behaviour runs one with the other at rest, since they share no state.   *)
(* The first endpoint has twice the weight of the others.                  *)
(***************************************************************************)
EXTENDS RpcPool, LiveExecutor

VARIABLE part    \* the part that runs

MCWeight == [e \in 1..N |-> IF e = 1 THEN 2 ELSE 1]

(* A price, a better one, and one beyond the slippage                      *)
MCReserves == {<<40, 40>>, <<40, 60>>}

chainRunVars == <<part, vars, executorVars>>

ChainInit == /\ part \in {"pool", "executor"} /\ Init /\ ExecutorInit
             /\ part = "pool" => reserves = <<40, 40>> /\ approved = {}

PoolRuns == part = "pool" /\ Next /\ UNCHANGED <<part, executorVars>>
ExecutorRuns == part = "executor" /\ ExecutorNext /\ UNCHANGED <<part, vars>>
ChainNext == PoolRuns \/ ExecutorRuns

(* RpcPool's fairness, of the behaviours the pool runs in                  *)
Pool == part = "pool"
ChainSpec ==
    /\ ChainInit /\ [][ChainNext]_chainRunVars
    /\ WF_vars(Pool /\ Tick) /\ \A e \in Endpoint : WF_vars(Pool /\ Probe(e))
    /\ \A r \in Request : WF_vars(Pool /\ Begin(r)) /\ WF_vars(Pool /\ (Answered(r) \/ Fails(r)))
=============================================================================
