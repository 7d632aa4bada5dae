-------------------------- MODULE MCTakeawayServer -------------------------
(* Two users who order from two shops, and a meal that is on no menu.       *)
EXTENDS TakeawayServer, TLC

Plain(word)  == [word |-> word, meal |-> "none", quantity |-> 0]
Ask(m, n)    == [word |-> "order", meal |-> m, quantity |-> n]

MCLines == {Plain(w) : w \in {"confirm", "shop list", "cancel"}}
             \cup {Ask("cookie", 1), Ask("cake", 2), Ask("tea", 1), Ask("pie", 1)}

MCSymmetry == Permutations(Clients)
=============================================================================
