------------------------------- MODULE MCRisk -------------------------------
(***************************************************************************)
(* From a verdict to a page: the shield, the alert engines of two          *)
(* replicas, and the dispatcher of one of them, explored apart: each       *)
(* behaviour runs one with the others at rest, since they share no state.  *)
(* The dispatcher serves the events of bus.ts, of which the alerts are a   *)
(* special case (one handler for each topic, a key for each rule).         *)
(***************************************************************************)
EXTENDS Shield, AlertEngine, Dispatcher, TLC

CONSTANTS short, long, telegram, discord

VARIABLE part    \* the part that runs

(* Tokens from spotless to rotten, in the three kinds of pool; faults in   *)
(* every combination of the kinds that hide most, and all of one kind      *)
Spotless == [liquidity |-> "deep", pool |-> "v2", lp |-> "locked", owner |-> "renounced",
             code |-> {}, slot |-> FALSE, tax |-> "low", balance |-> "some",
             shape |-> "regular", held |-> "pool"]
Rotten == [liquidity |-> "negligible", pool |-> "v2", lp |-> "loose", owner |-> "contract",
           code |-> {"mint", "pause", "limits", "taxes", "delegatecall"}, slot |-> TRUE,
           tax |-> "punitive", balance |-> "reverts", shape |-> "reverts", held |-> "elsewhere"]

MCWorlds ==
    {[Rotten EXCEPT !.pool = p, !.owner = o, !.code = c, !.tax = t, !.balance = b] :
        p \in {"v2", "v3", "none"}, o \in {"contract", "none"},
        c \in {Rotten.code, {"mint", "pause"}}, t \in {"punitive", "low"}, b \in {"reverts", "some"}}
    \cup {[Spotless EXCEPT !.pool = p, !.liquidity = l] :
            p \in {"v2", "v3", "none"}, l \in {"deep", "thin", "negligible"}}
    \cup {[Rotten EXCEPT !.slot = FALSE, !.liquidity = "moderate"], [Spotless EXCEPT !.held = "zero"]}

Lenient == {{<<"liquidity", "error">>}, {<<"lp", "error">>}, {<<"owner", "error">>},
            {<<"proxy", "error">>}, {<<"taxes", "error">>}, {<<"honeypot", "late">>},
            {<<"shape", "late">>, <<"concentration", "late">>}, {<<"code", "error">>}}
AllReads(kind) == Reading \X {kind}
MCFaultMixes ==
    {UNION g : g \in SUBSET Lenient}
    \cup UNION {{AllReads(kind), AllReads(kind) \cup {<<"code", "error">>}} : kind \in {"error", "late"}}
    \cup {{<<d, "late">>} : d \in Reading} \cup {{<<"owner code", "error">>}}

ThinV3 == {[Spotless EXCEPT !.pool = "v3", !.liquidity = "negligible"]}
LiquidityLate == {{}, {<<"liquidity", "late">>}}

(* Two rules of different windows over the same failures *)
MCWindow == short :> 1 @@ long :> 3
MCThreshold == short :> 2 @@ long :> 2

MCRoute == <<telegram, discord>>

riskVars == <<part, shieldVars, alertVars, dispatcherVars>>

Init == /\ part \in {"shield", "alerts", "notify"}
        /\ ShieldInit /\ AlertInit /\ DispatcherInit

ShieldRuns == part = "shield" /\ ShieldNext /\ UNCHANGED <<part, alertVars, dispatcherVars>>
AlertsRun == part = "alerts" /\ AlertNext /\ UNCHANGED <<part, shieldVars, dispatcherVars>>
DispatcherRuns == part = "notify" /\ DispatcherNext /\ UNCHANGED <<part, shieldVars, alertVars>>

Next == ShieldRuns \/ AlertsRun \/ DispatcherRuns

(* Nothing that the fairness is about is enabled in a part at rest *)
Spec == Init /\ [][Next]_riskVars /\ DispatcherFairness

(* For shield_blind: a shield alone, a pool whose liquidity is negligible, *)
(* and a liquidity read that is answered or late                           *)
SpecShield == part = "shield" /\ Init /\ [][ShieldRuns]_riskVars
=============================================================================
