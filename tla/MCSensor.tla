------------------------------ MODULE MCSensor ------------------------------
(* Two settings: one car is either no news (5) or over the threshold (15). *)
EXTENDS Sensor

MCSettings ==
  {[gateOnly |-> TRUE, perCar |-> 15, interval |-> 1], [gateOnly |-> FALSE, perCar |-> 5, interval |-> 2]}
MCDefault == [gateOnly |-> TRUE, perCar |-> 15, interval |-> 1]
=============================================================================
