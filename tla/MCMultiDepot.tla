---------------------------- MODULE MCMultiDepot ----------------------------
(* The three agents for TLC: all there, one missing, one name taken twice.   *)
EXTENDS MultiDepot

MCSetups == {
  <<"vehicle", "depot", "tms">>,
  <<"vehicle", "depot">>,
  <<"vehicle", "tms">>,
  <<"vehicle", "depot", "tms", "depot">>,
  <<"vehicle", "depot", "tms", "vehicle">>}

\* The three scenarios, a battery and a site beyond their limits.
MCStarts == {[vehicle |-> v, depot |-> d] :
  v \in {[soc |-> 85, reserve |-> 20, energy_needed |-> 30],
         [soc |-> 30, reserve |-> 20, energy_needed |-> 30],
         [soc |-> 10, reserve |-> 20, energy_needed |-> 30]},
  d \in {[current |-> 0, requested |-> 0, budget |-> 100, pv |-> 0],
         [current |-> 30, requested |-> 50, budget |-> 100, pv |-> 20],
         [current |-> 90, requested |-> 50, budget |-> 100, pv |-> 20],
         [current |-> 130, requested |-> 50, budget |-> 100, pv |-> 20]}}

MCTopics == Outcomes \cup {"Dispatch", "RequestSession", "GrantSession", "DenySession"}
MCSeed == [name |-> "vehicle", topic |-> "Dispatch"]
=============================================================================
