-------------------------------- MODULE Menu --------------------------------
(***************************************************************************)
(* The shops, their distances and prices, and the way the delivery server  *)
(* of hw3 turns the order messages of one customer into a basket and a     *)
(* bill (hw3.c, meal_to_shop ... produce_new_ordered_Diner and the order   *)
(* branch of get_order).                                                   *)
(*                                                                         *)
(* The text "cookie 3|cake 1" the server keeps in ordered is the function  *)
(* [cookie |-> 3, cake |-> 1]; the empty text is the empty function.       *)
(***************************************************************************)
EXTENDS Integers, FiniteSets

\* enum shop, used as the index into shop_distance.
Dessert  == 0
Beverage == 1
Diner    == 2
Shops    == {Dessert, Beverage, Diner}

\* What meal_to_shop leaves in the return register when no name matches:
\* any integer that is not a shop.
NoShop == 3

\* int shop_distance[3] = {3, 5, 8}
Distance(s) == CASE s = Dessert  -> 3
                 [] s = Beverage -> 5
                 [] s = Diner    -> 8

Meals == {"cookie", "cake", "tea", "boba", "fried-rice", "Egg-drop-soup"}

\* The content of the buffer meal before the first message is parsed.
Unset == "unset"

\* The shops meal_to_shop may answer: one for a listed meal; the function has
\* no return statement for any other string, so anything may come back.
meal_to_shop(meal) ==
  CASE meal \in {"cookie", "cake"}              -> {Dessert}
    [] meal \in {"tea", "boba"}                 -> {Beverage}
    [] meal \in {"fried-rice", "Egg-drop-soup"} -> {Diner}
    [] OTHER                                    -> Shops \cup {NoShop}

Dessertshop_order(meal, amount)  == (IF meal = "cookie"     THEN 60  ELSE 80) * amount
Beverageshop_order(meal, amount) == (IF meal = "tea"        THEN 40  ELSE 70) * amount
Dinershop_order(meal, amount)    == (IF meal = "fried-rice" THEN 120 ELSE 50) * amount

\* The two switches over the shop; the default branch charges nothing.
OrderMoney(shop, meal, amount) ==
  CASE shop = Dessert  -> Dessertshop_order(meal, amount)
    [] shop = Beverage -> Beverageshop_order(meal, amount)
    [] shop = Diner    -> Dinershop_order(meal, amount)
    [] OTHER           -> 0

-----------------------------------------------------------------------------
(***************************************************************************)
(* produce_new_ordered_*: the basket of a shop whose two meals are first   *)
(* and second, after amount more of meal.  With one item in the basket the *)
(* comparison is with that item's name, and a different meal becomes the   *)
(* other item of the shop; with two items anything but first is second.    *)
(***************************************************************************)
OneItem(i, n) == [x \in {i} |-> n]

MergedBasket(first, second, ordered, meal, amount) ==
  LET items == DOMAIN ordered
      only  == CHOOSE i \in items : TRUE
      grown == IF meal = first THEN first ELSE second
      other == IF meal = first THEN second ELSE first
  IN  IF Cardinality(items) = 2
      THEN [ordered EXCEPT ![grown] = @ + amount]
      ELSE IF only = meal
           THEN OneItem(meal, ordered[only] + amount)
           ELSE [i \in {grown, other} |-> IF i = grown THEN amount ELSE ordered[only]]

produce_new_ordered_Dessert(ordered, meal, amount) ==
  MergedBasket("cookie", "cake", ordered, meal, amount)

produce_new_ordered_Beverage(ordered, meal, amount) ==
  MergedBasket("tea", "boba", ordered, meal, amount)

produce_new_ordered_Diner(ordered, meal, amount) ==
  MergedBasket("fried-rice", "Egg-drop-soup", ordered, meal, amount)

NewOrdered(shop, ordered, meal, amount) ==
  CASE shop = Dessert  -> produce_new_ordered_Dessert(ordered, meal, amount)
    [] shop = Beverage -> produce_new_ordered_Beverage(ordered, meal, amount)
    [] shop = Diner    -> produce_new_ordered_Diner(ordered, meal, amount)

-----------------------------------------------------------------------------
EmptyBasket == [i \in {} |-> 0]

\* The local variables of get_order that an order message reads or writes.
NewSession == [shop_flag   |-> FALSE,
               order_shop  |-> NoShop,
               total_money |-> 0,
               ordered     |-> EmptyBasket,
               meal        |-> Unset,
               amount      |-> 0]

\* Mutant of TakeOrder: the meal is charged before its shop is compared.
TakeOrderChargedFirst(s, shop, meal, amount) ==
  LET charged == [s EXCEPT !.meal = meal, !.amount = amount,
                           !.total_money = @ + OrderMoney(shop, meal, amount)]
  IN  IF ~ s.shop_flag
      THEN [charged EXCEPT !.shop_flag = TRUE, !.order_shop = shop,
                           !.ordered = OneItem(meal, amount)]
      ELSE IF shop = s.order_shop
           THEN [charged EXCEPT !.ordered = NewOrdered(shop, @, meal, amount)]
           ELSE charged

(***************************************************************************)
(* The order branch of get_order once sscanf has left meal and amount in   *)
(* their buffers and meal_to_shop has answered shop: the first order       *)
(* chooses the shop, a later one counts only when it is for the same shop. *)
(***************************************************************************)
TakeOrder(s, shop, meal, amount) ==
  LET parsed == [s EXCEPT !.meal = meal, !.amount = amount]
  IN  IF ~ s.shop_flag
      THEN [parsed EXCEPT !.shop_flag   = TRUE,
                          !.order_shop  = shop,
                          !.total_money = @ + OrderMoney(shop, meal, amount),
                          !.ordered     = OneItem(meal, amount)]
      ELSE IF shop = s.order_shop
           THEN [parsed EXCEPT !.total_money = @ + OrderMoney(shop, meal, amount),
                               !.ordered     = NewOrdered(shop, @, meal, amount)]
           ELSE parsed
=============================================================================
