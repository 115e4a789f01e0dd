----------------------------- MODULE MCGateway -----------------------------
(***************************************************************************)
(* Three parts of the gateway that keep state and share none of it:        *)
(* requests (Access), the live feed (EventsGateway) and the read-model     *)
(* (Portfolio).  Each behaviour runs one of them with the others at rest,  *)
(* so the run explores the three apart and checks the properties of all.   *)
(***************************************************************************)
EXTENDS Access, EventsGateway, Portfolio, TLC

CONSTANTS key

VARIABLE part    \* the part that runs

(* One key that expires, used by itself and revoked or created by its admin *)
Of(c, route) == [by |-> c, to |-> route, key |-> key]
MCCall == <<{Of(key, "read")}, {Of(key, "read"), Of(Admin, "revoke")},
            {Of(key, "read"), Of(key, "revoke")}, {Of(key, "read"), Of(Admin, "create")}>>
MCExpiry == key :> 3

(* A buy, and two sells of one time that are published out of their order *)
MCTrades == <<[side |-> "buy", in |-> 3, out |-> 5, at |-> 1],
              [side |-> "sell", in |-> 2, out |-> 4, at |-> 2],
              [side |-> "sell", in |-> 4, out |-> 1, at |-> 2]>>
MCStream == <<1, 3, 2>>

gatewayVars == <<part, accessVars, feedVars, portfolioVars>>

Init == part \in {"http", "ws", "portfolio"} /\ AccessInit /\ FeedInit /\ PortfolioInit

HttpRuns == part = "http" /\ AccessNext /\ UNCHANGED <<part, feedVars, portfolioVars>>
FeedRuns == part = "ws" /\ FeedNext /\ UNCHANGED <<part, accessVars, portfolioVars>>
PortfolioRuns == part = "portfolio" /\ PortfolioNext /\ UNCHANGED <<part, accessVars, feedVars>>

Next == HttpRuns \/ FeedRuns \/ PortfolioRuns

(* Nothing that the fairness is about is enabled while the feed is at rest *)
Spec == Init /\ [][Next]_gatewayVars /\ FeedFairness
============================================================================
