------------------------------- MODULE MCRdd -------------------------------
EXTENDS Rdd

CONSTANTS S, D, E, a1, a2, a3

MCMembers == {"m1", "m2"}
MCPartitions == {"p1", "p2"}
MCPrimary == "p1" :> "m1" @@ "p2" :> "m2"
MCHashOf == "p1" :> "p2" @@ "p2" :> "p2"
MCHome == S :> "m1" @@ D :> "m2" @@ E :> "m1"
Chain == S :> << >> @@ D :> <<S>> @@ E :> <<D>>
MCTarget == [a \in Actions |-> IF a = a3 THEN D ELSE E]

(* Rows kept by both RDDs, the default, or streamed through one or both; a   *)
(* link that fails; rows repartitioned; the store delegate made with them.   *)
(* Actions ask the last RDD (a1, a2) or the one between (a3).                *)
Kept == [fresh |-> {}, persist |-> [r \in {D, E} |-> "ORDERED"], spread |-> {}, broken |-> {},
         asks |-> {a1, a2}, delayed |-> {}]
KeptLate == [Kept EXCEPT !.asks = {a1}, !.delayed = {D, E}]
Streamed == [Kept EXCEPT !.persist[D] = "NONE", !.delayed = {E}]
StreamedE == [Kept EXCEPT !.persist[E] = "NONE", !.asks = {a3}]
AllStreamed == [Kept EXCEPT !.persist = [r \in {D, E} |-> "NONE"], !.delayed = {D}]
AllStreamedD == [AllStreamed EXCEPT !.asks = {a3}, !.delayed = {}]
BrokenE == [Kept EXCEPT !.broken = {<<E, "m2">>}]
BrokenD == [Kept EXCEPT !.broken = {<<D, "m1">>}, !.asks = {a1}, !.delayed = {D}]
Spread == [Kept EXCEPT !.spread = {E}, !.asks = {a1}]
SpreadStreamed == [Spread EXCEPT !.persist = [r \in {D, E} |-> "NONE"], !.spread = {D}]
Fresh == [Kept EXCEPT !.fresh = {S}, !.asks = {a1}]
MCPlans == {Fresh, Kept, KeptLate, Streamed, StreamedE, AllStreamed, AllStreamedD,
            BrokenE, BrokenD, Spread, SpreadStreamed}
GroupedPlans == {Spread}
=============================================================================
