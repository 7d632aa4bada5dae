---------------------------- MODULE DeliveryBooks ---------------------------
(***************************************************************************)
(* What the delivery server promises about its two delivery men, without   *)
(* locks, threads or half-done updates: an order is assigned to one man,   *)
(* refused or carried out by him alone, and enters his books once, the     *)
(* customer together with the bill.  DeliveryServer implements it as long  *)
(* as nobody presses Ctrl-C.                                               *)
(***************************************************************************)
EXTENDS Menu

CONSTANTS Customers

VARIABLES
  stage,     \* stage[c]: how far the order of c is
  man,       \* man[c]: the delivery man it was assigned to, 0 before that
  trip,      \* trip[c]: the distance of its shop, 0 before that
  bill,      \* bill[c]: what c will pay, 0 before that
  time,      \* pending time of each man
  customers, \* customers served by each man
  income     \* income of each man

vars == <<stage, man, trip, bill, time, customers, income>>

Men    == 1..2
Stages == {"shopping", "waiting", "refused", "out", "booked", "returned", "home"}
Busy   == {"out", "booked", "returned"}

Init ==
  /\ stage     = [c \in Customers |-> "shopping"]
  /\ man       = [c \in Customers |-> 0]
  /\ trip      = [c \in Customers |-> 0]
  /\ bill      = [c \in Customers |-> 0]
  /\ time      = [m \in Men |-> 0]
  /\ customers = [m \in Men |-> 0]
  /\ income    = [m \in Men |-> 0]

Move(c, from, to) == stage[c] = from /\ stage' = [stage EXCEPT ![c] = to]

\* A confirmed order of any amount goes to either man.
Assign(c) ==
  /\ Move(c, "shopping", "waiting")
  /\ \E m \in Men, s \in Shops :
       /\ man'  = [man EXCEPT ![c] = m]
       /\ trip' = [trip EXCEPT ![c] = Distance(s)]
       /\ time' = [time EXCEPT ![m] = @ + Distance(s)]
  /\ bill'[c] \in Nat
  /\ bill' = [bill EXCEPT ![c] = bill'[c]]
  /\ UNCHANGED <<customers, income>>

Refuse(c) ==
  /\ Move(c, "waiting", "refused")
  /\ time' = [time EXCEPT ![man[c]] = @ - trip[c]]
  /\ UNCHANGED <<man, trip, bill, customers, income>>

Depart(c) ==
  /\ Move(c, "waiting", "out")
  /\ \A d \in Customers : man[d] = man[c] => stage[d] \notin Busy
  /\ UNCHANGED <<man, trip, bill, time, customers, income>>

Book(c) ==
  /\ Move(c, "out", "booked")
  /\ customers' = [customers EXCEPT ![man[c]] = @ + 1]
  /\ income'    = [income EXCEPT ![man[c]] = @ + bill[c]]
  /\ UNCHANGED <<man, trip, bill, time>>

Return(c) ==
  /\ Move(c, "booked", "returned")
  /\ time' = [time EXCEPT ![man[c]] = @ - trip[c]]
  /\ UNCHANGED <<man, trip, bill, customers, income>>

Rest(c) ==
  /\ Move(c, "returned", "home")
  /\ UNCHANGED <<man, trip, bill, time, customers, income>>

Next == \E c \in Customers : \/ Assign(c) \/ Refuse(c) \/ Depart(c)
                             \/ Book(c) \/ Return(c) \/ Rest(c)

Spec == Init /\ [][Next]_vars
=============================================================================
