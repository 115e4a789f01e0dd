------------------------------ MODULE Delivery ------------------------------
(***************************************************************************)
(* What one subscription of the event bus delivers, seen from outside: the *)
(* abstract specification that RedisEventBus implements.  Each entry of a  *)
(* stream goes through a one-way life cycle:                               *)
(*                                                                         *)
(*   absent  -> missed            appended before the group existed        *)
(*   absent  -> queued            appended, waiting to be read             *)
(*   queued  -> taken             read by one consumer of the group        *)
(*   queued  -> orphaned          read, but the reply never arrived        *)
(*   taken   -> settled           acknowledged                             *)
(*   taken   -> orphaned          left in the pending list                 *)
(*                                                                         *)
(* No arrow leads back: an entry is offered to at most one handler, and an *)
(* orphaned one is never offered again.                                    *)
(***************************************************************************)
EXTENDS Naturals

CONSTANT Entry

VARIABLE phase

Phase == {"absent", "missed", "queued", "taken", "settled", "orphaned"}

(* The arrows of the life cycle above.                                     *)
Arrow == { <<"absent", "missed">>, <<"absent", "queued">>,
           <<"queued", "taken">>,  <<"queued", "orphaned">>,
           <<"taken", "settled">>, <<"taken", "orphaned">> }

Init == phase = [e \in Entry |-> "absent"]

(* A step may move several entries at once: a read takes a whole batch, a  *)
(* crash orphans every entry in hand.                                      *)
Next == /\ phase' \in [Entry -> Phase]
        /\ \A e \in Entry : phase'[e] = phase[e] \/ <<phase[e], phase'[e]>> \in Arrow

Spec == Init /\ [][Next]_phase
=============================================================================
