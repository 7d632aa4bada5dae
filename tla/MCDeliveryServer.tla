-------------------------- MODULE MCDeliveryServer --------------------------
(* The delivery server on small instances.                                 *)
EXTENDS DeliveryServer, TLC

\* A near and a far shop, with different bills.
MCNearAndFar == {[meal |-> "cookie",     amount |-> 1],
                 [meal |-> "fried-rice", amount |-> 1]}

MCOneMeal == {[meal |-> "boba", amount |-> 2]}

MCOneItem == {[meal |-> "boba", amount |-> 1]}
MCOneCookie == {[meal |-> "cookie", amount |-> 2]}

MCSymmetry == Permutations(Threads)
=============================================================================
