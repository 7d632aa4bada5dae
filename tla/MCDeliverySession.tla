-------------------------- MODULE MCDeliverySession --------------------------
(* A client and its thread; LongWait lies between a short and a long trip. *)
EXTENDS DeliverySession

MCThreeMeals == {[meal |-> "cookie", amount |-> 1],
                 [meal |-> "cake",   amount |-> 1],
                 [meal |-> "tea",    amount |-> 1]}
=============================================================================
