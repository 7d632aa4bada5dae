------------------------ MODULE DeliveryServer_proofs -----------------------
(***************************************************************************)
(* Proofs about DeliveryServer.                                            *)
(***************************************************************************)
EXTENDS DeliveryServer, Data_proofs, FiniteSetTheorems, TLAPS

-----------------------------------------------------------------------------
(* The order messages.                                                     *)

\* A bill is never negative and never decreases: what a meal costs is a
\* natural number, for every shop the switches of get_order can meet.
LEMMA OrderMoneyType ==
  ASSUME NEW shop \in Shops \cup {NoShop}, NEW meal, NEW amount \in Nat
  PROVE  OrderMoney(shop, meal, amount) \in Nat
BY DEF OrderMoney, Dessertshop_order, Beverageshop_order, Dinershop_order,
       Shops, NoShop, Dessert, Beverage, Diner

\* What a meal costs, n of them and then some more.
LEMMA OrderMoneyAdds ==
  ASSUME NEW shop \in Shops, NEW meal, NEW n \in Nat, NEW amount \in Nat
  PROVE  OrderMoney(shop, meal, n + amount)
           = OrderMoney(shop, meal, n) + OrderMoney(shop, meal, amount)
BY DEF OrderMoney, Dessertshop_order, Beverageshop_order, Dinershop_order,
       Shops, Dessert, Beverage, Diner

\* A basket that has something in it is a basket of known meals, and not an
\* empty one, after one more order of the same shop.
LEMMA MergedBasketType ==
  ASSUME NEW first \in Meals, NEW second \in Meals, NEW ordered,
         IsBasket(ordered), DOMAIN ordered # {},
         NEW meal \in Meals \cup {Unset}, NEW amount \in Nat
  PROVE  LET b == MergedBasket(first, second, ordered, meal, amount)
         IN  IsBasket(b) /\ DOMAIN b # {}
<1> DEFINE items == DOMAIN ordered
           only  == CHOOSE i \in items : TRUE
           grown == IF meal = first THEN first ELSE second
<1>1. only \in items
  OBVIOUS
<1>2. \A i \in items : ordered[i] \in Nat
  BY DEF IsBasket
<1>3. CASE Cardinality(items) = 2
  <2>1. MergedBasket(first, second, ordered, meal, amount)
          = [x \in items |-> IF x = grown THEN ordered[x] + amount ELSE ordered[x]]
    BY <1>3 DEF MergedBasket
  <2> QED
    BY <2>1, <1>2 DEF IsBasket
<1>4. CASE Cardinality(items) # 2 /\ only = meal
  <2>1. MergedBasket(first, second, ordered, meal, amount)
          = OneItem(meal, ordered[only] + amount)
    BY <1>4 DEF MergedBasket
  <2> QED
    BY <2>1, <1>1, <1>2 DEF IsBasket, OneItem
<1>5. CASE Cardinality(items) # 2 /\ only # meal
  <2> DEFINE other == IF meal = first THEN second ELSE first
  <2>1. MergedBasket(first, second, ordered, meal, amount)
          = [i \in {grown, other} |-> IF i = grown THEN amount ELSE ordered[only]]
    BY <1>5 DEF MergedBasket
  <2>2. grown \in Meals /\ other \in Meals
    OBVIOUS
  <2> QED
    BY <2>1, <2>2, <1>1, <1>2 DEF IsBasket
<1> QED
  BY <1>3, <1>4, <1>5

\* The local variables of get_order stay an order in the sense of IsSession
\* through the order branch, for every meal the buffer can hold.
LEMMA TakeOrderType ==
  ASSUME NEW s, IsSession(s),
         NEW shop \in Shops \cup {NoShop}, NEW meal \in Meals \cup {Unset},
         NEW amount \in Nat,
         ~ (s.shop_flag /\ shop = NoShop /\ s.order_shop = NoShop)
  PROVE  LET r == TakeOrder(s, shop, meal, amount)
         IN  IsSession(r) /\ r.shop_flag /\ r.meal = meal
             /\ r.order_shop = IF s.shop_flag THEN s.order_shop ELSE shop
<1> DEFINE money == s.total_money + OrderMoney(shop, meal, amount)
<1>1. money \in Nat
  BY OrderMoneyType DEF IsSession
<1>2. CASE ~ s.shop_flag
  <2>1. IsBasket(OneItem(meal, amount)) /\ DOMAIN OneItem(meal, amount) # {}
    BY DEF IsBasket, OneItem
  <2> QED
    BY <1>1, <1>2, <2>1 DEF TakeOrder, IsSession
<1>3. CASE s.shop_flag /\ shop = s.order_shop
  <2> DEFINE b == NewOrdered(shop, s.ordered, meal, amount)
  <2>1. IsBasket(s.ordered) /\ DOMAIN s.ordered # {} /\ shop \in Shops
    BY <1>3 DEF IsSession
  <2>2. IsBasket(b) /\ DOMAIN b # {}
    BY <2>1, MergedBasketType
    DEF NewOrdered, produce_new_ordered_Dessert, produce_new_ordered_Beverage,
        produce_new_ordered_Diner, Meals, Shops, Dessert, Beverage, Diner
  <2> HIDE DEF b, money
  <2>3. TakeOrder(s, shop, meal, amount)
          = [s EXCEPT !.meal = meal, !.amount = amount, !.total_money = money,
                      !.ordered = b]
    BY <1>3 DEF TakeOrder, IsSession, b, money
  <2> QED
    BY <1>1, <1>3, <2>2, <2>3 DEF IsSession
<1>4. CASE s.shop_flag /\ shop # s.order_shop
  BY <1>4 DEF TakeOrder, IsSession
<1> QED
  BY <1>2, <1>3, <1>4 DEF IsSession

\* A basket with amount more of meal.
More(ordered, meal, amount) ==
  [i \in DOMAIN ordered \cup {meal} |->
     IF i # meal THEN ordered[i]
     ELSE IF meal \in DOMAIN ordered THEN ordered[meal] + amount ELSE amount]

LEMMA MergedBasketIsMore ==
  ASSUME NEW first, NEW second, first # second, NEW ordered, IsBasket(ordered),
         DOMAIN ordered # {}, DOMAIN ordered \subseteq {first, second},
         NEW meal \in {first, second}, NEW amount \in Nat
  PROVE  MergedBasket(first, second, ordered, meal, amount) = More(ordered, meal, amount)
<1> DEFINE items == DOMAIN ordered
           only  == CHOOSE i \in items : TRUE
           grown == IF meal = first THEN first ELSE second
           other == IF meal = first THEN second ELSE first
           b == MergedBasket(first, second, ordered, meal, amount)
<1>1. only \in items /\ grown = meal
  OBVIOUS
<1>2. Cardinality({first, second}) = 2
  <2>1. Cardinality({first}) = 1 /\ IsFiniteSet({first})
    BY FS_Singleton
  <2>2. Cardinality({first} \cup {second}) = Cardinality({first}) + 1
    BY <2>1, FS_AddElement
  <2>3. {first} \cup {second} = {first, second}
    OBVIOUS
  <2> QED
    BY <2>1, <2>2, <2>3
<1>3. \A x : Cardinality({x}) = 1
  BY FS_Singleton
<1>4. CASE items = {first, second}
  <2>1. b = [ordered EXCEPT ![grown] = @ + amount]
    BY <1>2, <1>4 DEF MergedBasket
  <2>2. ordered = [i \in items |-> ordered[i]]
    BY DEF IsBasket
  <2>3. b = [i \in items |-> IF i = meal THEN ordered[meal] + amount ELSE ordered[i]]
    BY <1>1, <2>1, <2>2
  <2> QED
    BY <1>1, <1>4, <2>3 DEF More
<1>5. CASE items # {first, second}
  <2>1. items = {only}
    BY <1>1, <1>5
  <2>2. Cardinality(items) = 1
    BY <1>3, <2>1
  <2>3. b = IF only = meal
            THEN OneItem(meal, ordered[only] + amount)
            ELSE [i \in {grown, other} |-> IF i = grown THEN amount ELSE ordered[only]]
    BY <2>2 DEF MergedBasket
  <2>4. CASE only = meal
    BY <2>1, <2>3, <2>4 DEF More, OneItem
  <2>5. CASE only # meal
    <3>1. other = only /\ items = {other}
      BY <1>1, <2>1, <2>5
    <3> HIDE DEF items, only, other, grown, b
    <3>2. b = [i \in {meal, other} |-> IF i = meal THEN amount ELSE ordered[other]]
      BY <1>1, <2>3, <2>5, <3>1
    <3>3. DOMAIN ordered = {other} /\ other # meal
      BY <2>5, <3>1 DEF items
    <3> QED
      BY <3>2, <3>3 DEF More, b
  <2> QED
    BY <2>4, <2>5
<1> QED
  BY <1>4, <1>5

\* The meals of the shops, as the three produce_new_ordered functions know them.
LEMMA MealsOfShops ==
  /\ MealsOf(Dessert)  = {"cookie", "cake"}
  /\ MealsOf(Beverage) = {"tea", "boba"}
  /\ MealsOf(Diner)    = {"fried-rice", "Egg-drop-soup"}
BY DEF MealsOf, meal_to_shop, Meals, Dessert, Beverage, Diner

LEMMA NewOrderedIsMore ==
  ASSUME NEW shop \in Shops, NEW ordered, IsBasket(ordered), DOMAIN ordered # {},
         DOMAIN ordered \subseteq MealsOf(shop),
         NEW meal \in MealsOf(shop), NEW amount \in Nat
  PROVE  NewOrdered(shop, ordered, meal, amount) = More(ordered, meal, amount)
<1>1. CASE shop = Dessert
  <2>1. NewOrdered(shop, ordered, meal, amount)
          = MergedBasket("cookie", "cake", ordered, meal, amount)
    <3>1. NewOrdered(shop, ordered, meal, amount)
            = produce_new_ordered_Dessert(ordered, meal, amount)
      BY <1>1 DEF NewOrdered, Dessert, Beverage, Diner
    <3> QED
      BY <3>1 DEF produce_new_ordered_Dessert
  <2> QED
    BY <1>1, <2>1, MealsOfShops, MergedBasketIsMore
<1>2. CASE shop = Beverage
  <2>1. NewOrdered(shop, ordered, meal, amount)
          = MergedBasket("tea", "boba", ordered, meal, amount)
    <3>1. NewOrdered(shop, ordered, meal, amount)
            = produce_new_ordered_Beverage(ordered, meal, amount)
      BY <1>2 DEF NewOrdered, Dessert, Beverage, Diner
    <3> QED
      BY <3>1 DEF produce_new_ordered_Beverage
  <2> QED
    BY <1>2, <2>1, MealsOfShops, MergedBasketIsMore
<1>3. CASE shop = Diner
  <2>1. NewOrdered(shop, ordered, meal, amount)
          = MergedBasket("fried-rice", "Egg-drop-soup", ordered, meal, amount)
    <3>1. NewOrdered(shop, ordered, meal, amount)
            = produce_new_ordered_Diner(ordered, meal, amount)
      BY <1>3 DEF NewOrdered, Dessert, Beverage, Diner
    <3> QED
      BY <3>1 DEF produce_new_ordered_Diner
  <2> QED
    BY <1>3, <2>1, MealsOfShops, MergedBasketIsMore
<1> QED
  BY <1>1, <1>2, <1>3 DEF Shops

\* The price of a basket with more of a meal is the price of the basket and of
\* what is new in it.
LEMMA MorePrice ==
  ASSUME NEW shop \in Shops, NEW ordered, IsBasket(ordered),
         DOMAIN ordered \subseteq MealsOf(shop),
         NEW meal \in MealsOf(shop), NEW amount \in Nat,
         NEW f, f = [i \in DOMAIN ordered |-> OrderMoney(shop, i, ordered[i])],
         NEW b, b = More(ordered, meal, amount),
         NEW g, g = [i \in DOMAIN b |-> OrderMoney(shop, i, b[i])]
  PROVE  SumOf(g, DOMAIN b) = SumOf(f, DOMAIN ordered) + OrderMoney(shop, meal, amount)
<1> DEFINE D == DOMAIN ordered
           p == OrderMoney(shop, meal, amount)
<1>1. IsFiniteSet(D)
  <2>1. IsFiniteSet({"cookie", "cake"}) /\ IsFiniteSet({"tea", "boba"})
        /\ IsFiniteSet({"fried-rice", "Egg-drop-soup"})
    <3> SUFFICES \A x, y : IsFiniteSet({x, y})
      OBVIOUS
    <3> SUFFICES ASSUME NEW x, NEW y PROVE IsFiniteSet({x, y})
      OBVIOUS
    <3>1. {x} \cup {y} = {x, y}
      OBVIOUS
    <3>2. IsFiniteSet({x} \cup {y})
      BY FS_Singleton, FS_AddElement
    <3> QED
      BY <3>1, <3>2
  <2>2. IsFiniteSet(MealsOf(shop))
    BY <2>1, MealsOfShops DEF Shops
  <2> QED
    BY <2>2, FS_Subset
<1>2. \A i \in D : ordered[i] \in Nat
  BY DEF IsBasket
<1>3. DOMAIN b = D \cup {meal} /\ \A i \in DOMAIN b : b[i] \in Nat
  BY <1>2 DEF More
<1>4. \A i \in D : f[i] = OrderMoney(shop, i, ordered[i]) /\ f[i] \in Int
  BY <1>2, OrderMoneyType
<1>5. \A i \in DOMAIN b : g[i] = OrderMoney(shop, i, b[i]) /\ g[i] \in Int
  BY <1>3, OrderMoneyType
<1>6. p \in Int
  BY OrderMoneyType
<1>7. \A i \in D \ {meal} : f[i] = g[i]
  BY <1>3, <1>4, <1>5 DEF More
<1> HIDE DEF D, p
<1>8. CASE meal \in D
  <2>1. b[meal] = ordered[meal] + amount
    BY <1>8 DEF More, D
  <2>2. g[meal] = f[meal] + p
    <3>1. ordered[meal] \in Nat /\ f[meal] = OrderMoney(shop, meal, ordered[meal])
      BY <1>2, <1>4, <1>8
    <3>2. g[meal] = OrderMoney(shop, meal, ordered[meal] + amount)
      BY <1>3, <1>5, <2>1
    <3>3. OrderMoney(shop, meal, ordered[meal] + amount)
            = OrderMoney(shop, meal, ordered[meal]) + p
      BY <3>1, OrderMoneyAdds DEF p
    <3> QED
      BY <3>1, <3>2, <3>3
  <2>3. DOMAIN b = D
    BY <1>3, <1>8
  <2>4. SumOf(g, D) = SumOf(f, D) + g[meal] - f[meal]
    <3>1. \A i \in D : f[i] \in Int /\ g[i] \in Int
      BY <1>4, <1>5, <2>3
    <3> QED
      BY <1>1, <1>7, <1>8, <3>1, SumChange, SMTT(60)
  <2>5. SumOf(f, D) \in Int
    BY <1>1, <1>4, SumRemove
  <2> QED
    BY <1>4, <1>6, <1>8, <2>2, <2>3, <2>4, <2>5 DEF D, p
<1>9. CASE meal \notin D
  <2>1. b[meal] = amount
    BY <1>9 DEF More, D
  <2>2. g[meal] = p
    BY <1>3, <1>5, <2>1 DEF p
  <2>3. SumOf(g, D \cup {meal}) = SumOf(g, D) + g[meal]
    <3>1. \A i \in D \cup {meal} : g[i] \in Int
      BY <1>3, <1>5
    <3> QED
      BY <1>1, <1>9, <3>1, SumAdd
  <2>4. SumOf(g, D) = SumOf(f, D)
    BY <1>1, <1>7, <1>9, SumSame
  <2> QED
    BY <1>3, <2>2, <2>3, <2>4 DEF D, p
<1> QED
  BY <1>8, <1>9

\* The order branch charges exactly for what it puts into the basket.
LEMMA TakeOrderPriced ==
  ASSUME NEW s, IsSession(s), Priced(s),
         NEW meal \in Meals \cup {Unset}, NEW amount \in Nat,
         NEW shop \in meal_to_shop(meal),
         ~ (s.shop_flag /\ shop = NoShop /\ s.order_shop = NoShop),
         \/ meal \in Meals /\ (s.shop_flag => s.meal \in Meals)
         \/ meal = s.meal /\ amount = s.amount
  PROVE  Priced(TakeOrder(s, shop, meal, amount))
<1> DEFINE r == TakeOrder(s, shop, meal, amount)
           p == OrderMoney(shop, meal, amount)
<1>1. Unset \notin Meals /\ NoShop \notin Shops
  BY DEF Unset, Meals, NoShop, Shops, Dessert, Beverage, Diner
<1>2. /\ shop \in Shops \cup {NoShop}
      /\ meal \in Meals => shop \in Shops /\ meal \in MealsOf(shop)
  BY DEF meal_to_shop, Meals, MealsOf, Shops
<1>3. p \in Nat
  BY <1>2, OrderMoneyType
<1>4. CASE ~ s.shop_flag
  <2>1. s = NewSession
    BY <1>4 DEF Priced
  <2>2. /\ r.shop_flag /\ r.order_shop = shop /\ r.total_money = p
        /\ r.ordered = OneItem(meal, amount) /\ r.meal = meal /\ r.amount = amount
    BY <1>3, <2>1 DEF TakeOrder, NewSession
  <2> HIDE DEF r, p
  <2>3. CASE meal \in Meals
    <3>1. /\ DOMAIN r.ordered = {meal} /\ r.ordered[meal] = amount
      BY <2>2 DEF OneItem
    <3>2. Prices(r)[meal] = p
      BY <2>2, <3>1 DEF Prices, p
    <3>3. SumOf(Prices(r), {meal}) = p
      BY <1>3, <3>2, SumOne
    <3> QED
      BY <1>2, <2>2, <2>3, <3>1, <3>3 DEF Priced, r
  <2>4. CASE meal \notin Meals
    <3>1. meal = Unset /\ amount = 0
      BY <2>1, <2>4 DEF NewSession
    <3>2. p = 0
      BY <1>2, <3>1
      DEF p, OrderMoney, Dessertshop_order, Beverageshop_order, Dinershop_order
    <3> QED
      BY <2>2, <3>1, <3>2 DEF Priced, r
  <2> QED
    BY <2>3, <2>4
<1>5. CASE s.shop_flag /\ s.meal = Unset
  <2>1. /\ s.amount = 0 /\ s.total_money = 0 /\ s.ordered = OneItem(Unset, 0)
        /\ meal = Unset /\ amount = 0
    BY <1>1, <1>5 DEF Priced, NewSession
  <2>2. CASE shop = s.order_shop
    <3>1. shop \in Shops
      BY <1>2, <1>5, <2>2
    <3>2. p = 0
      BY <1>2, <2>1
      DEF OrderMoney, Dessertshop_order, Beverageshop_order, Dinershop_order
    <3>3. \A first, second :
            MergedBasket(first, second, OneItem(Unset, 0), Unset, 0) = OneItem(Unset, 0)
      <4>1. DOMAIN OneItem(Unset, 0) = {Unset} /\ OneItem(Unset, 0)[Unset] = 0
        BY DEF OneItem
      <4>2. Cardinality({Unset}) = 1
        BY FS_Singleton
      <4> QED
        BY <4>1, <4>2 DEF MergedBasket
    <3>4. NewOrdered(shop, s.ordered, meal, amount) = OneItem(Unset, 0)
      BY <2>1, <3>1, <3>3
      DEF NewOrdered, produce_new_ordered_Dessert, produce_new_ordered_Beverage,
          produce_new_ordered_Diner, Shops, Dessert, Beverage, Diner
    <3> HIDE DEF p
    <3>5. /\ r.shop_flag /\ r.total_money = s.total_money + p /\ r.meal = Unset /\ r.amount = 0
          /\ r.ordered = NewOrdered(shop, s.ordered, meal, amount)
      BY <1>5, <2>1, <2>2 DEF TakeOrder, IsSession, p
    <3> QED
      BY <2>1, <3>2, <3>4, <3>5 DEF Priced
  <2>3. CASE shop # s.order_shop
    <3>1. /\ r.shop_flag /\ r.total_money = 0 /\ r.meal = Unset /\ r.amount = 0
          /\ r.ordered = OneItem(Unset, 0)
      BY <1>5, <2>1, <2>3 DEF TakeOrder, IsSession
    <3> QED
      BY <3>1 DEF Priced
  <2> QED
    BY <2>2, <2>3
<1>6. CASE s.shop_flag /\ s.meal # Unset
  <2>1. /\ s.meal \in Meals /\ s.order_shop \in Shops
        /\ DOMAIN s.ordered \subseteq MealsOf(s.order_shop)
        /\ s.total_money = SumOf(Prices(s), DOMAIN s.ordered)
    BY <1>6 DEF Priced, NewSession
  <2>2. meal \in Meals
    BY <2>1
  <2>3. CASE shop = s.order_shop
    <3> DEFINE b == NewOrdered(shop, s.ordered, meal, amount)
    <3>1. /\ IsBasket(s.ordered) /\ DOMAIN s.ordered # {} /\ shop \in Shops
          /\ DOMAIN s.ordered \subseteq MealsOf(shop) /\ meal \in MealsOf(shop)
      BY <1>2, <1>6, <2>1, <2>2, <2>3 DEF IsSession
    <3>2. b = More(s.ordered, meal, amount)
      BY <3>1, NewOrderedIsMore
    <3>3. DOMAIN b \subseteq MealsOf(shop)
      BY <3>1, <3>2 DEF More
    <3> HIDE DEF b, p
    <3>4. /\ r.shop_flag /\ r.total_money = s.total_money + p /\ r.meal = meal
          /\ r.order_shop = s.order_shop /\ r.ordered = b
      BY <1>6, <2>3 DEF TakeOrder, IsSession, p, b
    <3>5. /\ Prices(s) = [i \in DOMAIN s.ordered |-> OrderMoney(shop, i, s.ordered[i])]
          /\ Prices(r) = [i \in DOMAIN b |-> OrderMoney(shop, i, b[i])]
      BY <2>3, <3>4 DEF Prices
    <3>6. SumOf(Prices(r), DOMAIN b) = SumOf(Prices(s), DOMAIN s.ordered) + p
      BY <3>1, <3>2, <3>5, MorePrice DEF p
    <3> HIDE DEF r
    <3>7. r.total_money = SumOf(Prices(r), DOMAIN r.ordered)
      BY <2>1, <3>4, <3>6
    <3> QED
      BY <2>1, <2>2, <2>3, <3>3, <3>4, <3>7 DEF Priced, r
  <2>4. CASE shop # s.order_shop
    <3>1. /\ r.shop_flag /\ r.total_money = s.total_money /\ r.meal = meal
          /\ r.order_shop = s.order_shop /\ r.ordered = s.ordered
      BY <1>6, <2>4 DEF TakeOrder, IsSession
    <3>2. Prices(r) = Prices(s)
      BY <3>1 DEF Prices
    <3> HIDE DEF r
    <3> QED
      BY <2>1, <2>2, <3>1, <3>2 DEF Priced, r
  <2> QED
    BY <2>3, <2>4
<1> QED
  BY <1>4, <1>5, <1>6

-----------------------------------------------------------------------------
(* Types.                                                                  *)

LEMMA TypeInit == Init => TypeInv
<1> SUFFICES ASSUME Init PROVE TypeInv
  OBVIOUS
<1>1. IsBasket(EmptyBasket) /\ DOMAIN EmptyBasket = {}
  BY DEF IsBasket, EmptyBasket
<1>2. IsSession(NewSession) /\ ~ NewSession.shop_flag
  BY <1>1 DEF IsSession, NewSession, NoShop
<1> QED
  BY <1>2
  DEF Init, TypeInv, TypeOK, OpenOrders, ManChosen, BookedReg, Places, ConnStates,
      Men, Locks, Mutexes, HandlerPlaces, Answers, Unchosen

LEMMA TypeStep == TypeInv /\ [Next]_vars => TypeInv'
<1> SUFFICES ASSUME TypeInv, [Next]_vars PROVE TypeInv'
  OBVIOUS
<1> USE DEF TypeInv, TypeOK, OpenOrders, ManChosen, BookedReg, Places, ConnStates,
            Unchosen, Goto, ThreadAt, MainAt, shared, locks, handler
<1>1. ASSUME NEW t \in Threads, Accept(t) PROVE TypeInv'
  BY <1>1 DEF Accept
<1>2. ASSUME NEW t \in Threads, RecvShopList(t) \/ ConfirmNothing(t) PROVE TypeInv'
  BY <1>2 DEF RecvShopList, ConfirmNothing, sendback_message_to_client
<1>3. ASSUME NEW t \in Threads, Confirm(t) PROVE TypeInv'
  BY <1>3 DEF Confirm, Receives, IsSession
<1>4. ASSUME NEW t \in Threads, Cancel(t) PROVE TypeInv'
  BY <1>4 DEF Cancel
<1>5. ASSUME NEW t \in Threads, NEW meal \in Meals \cup {Unset}, NEW amount \in Nat,
             Order(t, meal, amount), Receives(t) => meal \in Meals
      PROVE  TypeInv'
  <2>1. PICK shop \in meal_to_shop(meal) :
          /\ ~ (sess[t].shop_flag /\ shop = NoShop /\ sess[t].order_shop = NoShop)
          /\ sess' = [sess EXCEPT ![t] = TakeOrder(sess[t], shop, meal, amount)]
    BY <1>5 DEF Order
  <2> DEFINE r == TakeOrder(sess[t], shop, meal, amount)
  <2>2. shop \in Shops \cup {NoShop} /\ (meal \in Meals => shop \in Shops)
    BY <2>1 DEF meal_to_shop, Meals, Shops, Unset
  <2>3. /\ IsSession(r) /\ r.meal = meal
        /\ r.order_shop = IF sess[t].shop_flag THEN sess[t].order_shop ELSE shop
    <3>1. IsSession(sess[t]) /\ shop \in Shops \cup {NoShop}
      BY <2>2
    <3> HIDE DEF TypeInv
    <3> QED
      BY <2>1, <3>1, TakeOrderType
  <2> HIDE DEF r
  <2>4. /\ sess' = [sess EXCEPT ![t] = r]
        /\ pc[t] = "recv" /\ man[t] = 0
        /\ UNCHANGED <<server, pc, man, reg, answer, time, customer, income, lock,
                       destroyed, hpc, report, result, due>>
        /\ conn' \in [Threads -> ConnStates]
        /\ \A u \in Threads : conn'[u] = "open" => conn[u] = "open"
    BY <1>5, <2>1 DEF Order, sendback_message_to_client, r
  <2> QED
    BY <1>5, <2>2, <2>3, <2>4 DEF Receives
<1>6. ASSUME NEW t \in Threads, RecvOrder(t) PROVE TypeInv'
  BY <1>5, <1>6, OrdersAssumption DEF RecvOrder
<1>7. ASSUME NEW t \in Threads, RecvWords(t) \/ RecvEof(t) PROVE TypeInv'
  <2>1. sess[t].meal \in Meals \cup {Unset} /\ sess[t].amount \in Nat
    BY DEF IsSession
  <2>2. Receives(t) => sess[t].meal \in Meals
    BY <1>7 DEF RecvWords, RecvEof, Receives, ReceivesEof
  <2> QED
    BY <1>5, <1>7, <2>1, <2>2 DEF RecvWords, RecvEof
<1>8. ASSUME NEW t \in Threads, Dispatch(t) PROVE TypeInv'
  BY <1>8 DEF Dispatch, LoadTime, Choose, Chosen, Men
<1>9. ASSUME NEW t \in Threads, NEW u \in Updates, BeginUpdate(t, u) PROVE TypeInv'
  BY <1>9 DEF BeginUpdate, Updates, AtBegin, AtEnd, Lock, TimeLock, Locks, Mutexes, Men
<1>10. ASSUME NEW t \in Threads, NEW u \in Updates, EndUpdate(t, u) PROVE TypeInv'
  BY <1>10 DEF EndUpdate, Updates, AtEnd, AfterUpdate, Unlock, TimeLock, Locks,
               Mutexes, Men, Trip, Distance, Shops, Dessert, Beverage, Diner
<1>11. ASSUME NEW t \in Threads, Check(t) \/ Arrive(t) PROVE TypeInv'
  BY <1>11 DEF Check, Arrive, sendback_message_to_client
<1>12. ASSUME NEW t \in Threads, NEW text \in Answers, Answer(t, text) PROVE TypeInv'
  BY <1>12 DEF Answer, Answers
<1>13. ASSUME NEW t \in Threads, EnterShift(t) \/ LeaveShift(t) PROVE TypeInv'
  <2>1. lock' \in [Locks -> Threads \cup {Nobody}]
    BY <1>13 DEF EnterShift, LeaveShift, Lock, Unlock
  <2>2. pc' = [pc EXCEPT ![t] = "out"] \/ pc' = [pc EXCEPT ![t] = "arrive"]
    BY <1>13 DEF EnterShift, LeaveShift
  <2> QED
    BY <1>13, <2>1, <2>2 DEF EnterShift, LeaveShift
<1>14. ASSUME NEW t \in Threads, ComeBack(t) \/ BookCustomer(t) PROVE TypeInv'
  BY <1>14 DEF ComeBack, BookCustomer, Men
<1>15. ASSUME NEW t \in Threads, BookIncome(t) PROVE TypeInv'
  <2>1. Bill(t) \in Nat
    BY DEF Bill, IsSession
  <2> QED
    BY <1>15, <2>1 DEF BookIncome, Men
<1>16. ASSUME NEW t \in Threads, HangUp(t) PROVE TypeInv'
  BY <1>16 DEF HangUp
<1>17. ASSUME Exit \/ Kill, DeathLeaves PROVE TypeInv'
  BY <1>17 DEF Exit, Kill, DeathLeaves, threadVars
<1>18. CASE Sigint
  BY <1>18 DEF Sigint, threadVars, HandlerPlaces, Mutexes
<1>19. ASSUME NEW l \in Mutexes, Destroy(l) PROVE TypeInv'
  BY <1>19 DEF Destroy, AfterDestroy, threadVars, HandlerPlaces, Mutexes
<1>20. CASE OpenResult \/ PrintResult
  BY <1>20 DEF OpenResult, PrintResult, threadVars, HandlerPlaces
<1>21. CASE AddUp
  BY <1>21 DEF AddUp, Total, threadVars, HandlerPlaces, Men
<1>22. CASE UNCHANGED vars
  BY <1>22 DEF vars, threadVars
<1> QED
  BY <1>1, <1>2, <1>3, <1>4, <1>6, <1>7, <1>8, <1>9, <1>10, <1>11, <1>12, <1>13,
     <1>14, <1>15, <1>16, <1>17, <1>18, <1>19, <1>20, <1>21, <1>22
  DEF Next, get_order, Take, Work, DeliveryMan1, DeliveryMan2, Delivery,
      ReadFails, WriteFails, CopyFails, AcceptFails, CtrlCHandler, OpenFails,
      CloseResult

-----------------------------------------------------------------------------
(* Locks, and the loads made under them.                                   *)

LEMMA LockInit == Init => LocksHeld /\ RegsFresh
BY DEF Init, LocksHeld, RegsFresh, InUpdate, InShift

LEMMA LockStep == TypeInv /\ LocksHeld /\ RegsFresh /\ [Next]_vars => LocksHeld' /\ RegsFresh'
<1> SUFFICES ASSUME TypeInv, LocksHeld, RegsFresh, [Next]_vars
             PROVE  LocksHeld' /\ RegsFresh'
  OBVIOUS
<1> DEFINE Typed == /\ pc \in [Threads -> Places] /\ man \in [Threads -> Men \cup {0}]
                    /\ reg \in [Threads -> Int]
                    /\ time \in [Men -> Int] /\ customer \in [Men -> Nat]
                    /\ income \in [Men -> Nat]
                    /\ lock \in [Locks -> Threads \cup {Nobody}]
                    /\ ManChosen
<1>0. Typed
  BY DEF TypeInv, TypeOK
<1> USE DEF LocksHeld, RegsFresh, InUpdate, InShift, Goto, ThreadAt, MainAt, shared,
            locks, handler
<1>1. ASSUME UNCHANGED <<pc, man, reg, time, customer, income, lock, destroyed>>
      PROVE  LocksHeld' /\ RegsFresh'
  BY <1>1
\* Steps outside the updates and the shifts: no lock, no shared integer.
<1>2. ASSUME NEW t \in Threads, UNCHANGED <<time, customer, income, lock, destroyed>>,
             pc[t] \notin InUpdate \cup InShift,
             \E place \in Places \ (InUpdate \cup InShift) : pc' = [pc EXCEPT ![t] = place],
             \A u \in Threads \ {t} : man'[u] = man[u] /\ reg'[u] = reg[u]
      PROVE  LocksHeld' /\ RegsFresh'
  BY <1>0, <1>2
<1>3. ASSUME NEW t \in Threads,
             \/ Accept(t) \/ RecvShopList(t) \/ ConfirmNothing(t) \/ Confirm(t)
             \/ Cancel(t) \/ RecvOrder(t) \/ RecvWords(t) \/ RecvEof(t)
      PROVE  LocksHeld' /\ RegsFresh'
  BY <1>0, <1>1, <1>2, <1>3
  DEF Accept, RecvShopList, ConfirmNothing, Confirm, Cancel, RecvOrder, RecvWords,
      RecvEof, Order, Places
<1>4. ASSUME NEW t \in Threads, Dispatch(t) PROVE LocksHeld' /\ RegsFresh'
  BY <1>0, <1>2, <1>4 DEF Dispatch, LoadTime, Choose, Places
<1>5. ASSUME NEW t \in Threads,
             Check(t) \/ Arrive(t) \/ \E text \in Answers : Answer(t, text)
      PROVE  LocksHeld' /\ RegsFresh'
  BY <1>0, <1>2, <1>5 DEF Check, Arrive, Answer, Places
<1>6. ASSUME NEW t \in Threads, NEW u \in Updates, BeginUpdate(t, u)
      PROVE  LocksHeld' /\ RegsFresh'
  BY <1>0, <1>6, ThreadsAssumption
  DEF BeginUpdate, Updates, AtBegin, AtEnd, Lock, TimeLock, ShiftLock, Locks, Mutexes,
      ManChosen, Unchosen, Men
<1>7. ASSUME NEW t \in Threads, NEW u \in Updates, EndUpdate(t, u)
      PROVE  LocksHeld' /\ RegsFresh'
  BY <1>0, <1>7, ThreadsAssumption
  DEF EndUpdate, Updates, AtEnd, AfterUpdate, Unlock, TimeLock, ShiftLock, Locks,
      Mutexes, ManChosen, Unchosen, Men
<1>8. ASSUME NEW t \in Threads, EnterShift(t) \/ LeaveShift(t)
      PROVE  LocksHeld' /\ RegsFresh'
  BY <1>0, <1>8, ThreadsAssumption
  DEF EnterShift, LeaveShift, Lock, Unlock, TimeLock, ShiftLock, Locks, Mutexes,
      ManChosen, Unchosen, Men
<1>9. ASSUME NEW t \in Threads, ComeBack(t) \/ BookCustomer(t) \/ BookIncome(t)
      PROVE  LocksHeld' /\ RegsFresh'
  BY <1>0, <1>9 DEF ComeBack, BookCustomer, BookIncome, TimeLock, ShiftLock, ManChosen,
                    Unchosen, Men
<1>10. ASSUME NEW l \in Mutexes, Destroy(l) PROVE LocksHeld' /\ RegsFresh'
  BY <1>0, <1>10, ThreadsAssumption
  DEF Destroy, threadVars, TimeLock, ShiftLock, Locks, Mutexes
<1> QED
  BY <1>1, <1>3, <1>4, <1>5, <1>6, <1>7, <1>8, <1>9, <1>10
  DEF Next, get_order, Take, Work, DeliveryMan1, DeliveryMan2, Delivery, HangUp,
      ReadFails, WriteFails, CopyFails, AcceptFails, Exit, Kill, DeathLeaves, Sigint,
      CtrlCHandler, OpenResult, OpenFails, AddUp, Total, PrintResult, CloseResult,
      vars, threadVars

-----------------------------------------------------------------------------
(* The books.                                                              *)

LEMMA AtFinite ==
  ASSUME NEW m, NEW places, NEW shop
  PROVE  /\ IsFiniteSet(At(m, places)) /\ Cardinality(At(m, places)) \in Nat
         /\ IsFiniteSet(Carriers(m, shop)) /\ Cardinality(Carriers(m, shop)) \in Nat
<1>1. At(m, places) \in SUBSET Threads /\ Carriers(m, shop) \in SUBSET Threads
  BY DEF At, Carriers
<1> QED
  BY <1>1, ThreadsAssumption, FS_Subset, FS_CardinalityType

LEMMA BooksInit == Init => TimeLedger /\ CustomerBook
<1> SUFFICES ASSUME Init PROVE TimeLedger /\ CustomerBook
  OBVIOUS
<1>1. ASSUME NEW m, NEW shop
      PROVE  At(m, Counted) = {} /\ Carriers(m, shop) = {}
  BY DEF Init, At, Carriers, Counted, Paid, Carrying
<1>2. /\ Distance(Dessert) = 3 /\ Distance(Beverage) = 5 /\ Distance(Diner) = 8
  BY DEF Distance, Dessert, Beverage, Diner
<1>3. \A m \in Men : time[m] = 0 /\ customer[m] = 0
  BY DEF Init
<1>4. \A m \in Men : /\ Cardinality(At(m, Counted)) = 0
                     /\ \A shop : Cardinality(Carriers(m, shop)) = 0
  BY <1>1, FS_EmptySet
<1> QED
  BY <1>2, <1>3, <1>4 DEF TimeLedger, CustomerBook

\* A step that counts nobody, or does not change who is counted.
LEMMA CustomerBookStep ==
  TypeInv /\ LocksHeld /\ RegsFresh /\ CustomerBook /\ [Next]_vars => CustomerBook'
<1> SUFFICES ASSUME TypeInv, LocksHeld, RegsFresh, CustomerBook, [Next]_vars
             PROVE  CustomerBook'
  OBVIOUS
<1> DEFINE In(u, m) == man[u] = m /\ pc[u] \in Counted
<1>0. pc \in [Threads -> Places] /\ man \in [Threads -> Men \cup {0}] /\ ManChosen
  BY DEF TypeInv, TypeOK
<1>1. ASSUME customer' = customer, destroyed \subseteq destroyed',
             \A u \in Threads, m \in Men : In(u, m)' <=> In(u, m)
      PROVE  CustomerBook'
  <2>1. ASSUME NEW m \in Men PROVE At(m, Counted)' = At(m, Counted)
    BY <1>1 DEF At
  <2> QED
    BY <1>1, <2>1 DEF CustomerBook
<1>2. ASSUME NEW t \in Threads, customer' = customer, destroyed' = destroyed,
             \/ pc[t] \notin Counted
                /\ \E place \in Places \ Counted : pc' = [pc EXCEPT ![t] = place]
             \/ pc[t] \in Counted /\ man'[t] = man[t]
                /\ \E place \in Counted : pc' = [pc EXCEPT ![t] = place],
             \A u \in Threads \ {t} : man'[u] = man[u]
      PROVE  CustomerBook'
  BY <1>0, <1>1, <1>2
<1> USE DEF Goto, ThreadAt, MainAt, shared, locks, handler
<1>3. ASSUME NEW t \in Threads,
             \/ Accept(t) \/ RecvShopList(t) \/ ConfirmNothing(t) \/ Confirm(t)
             \/ Cancel(t) \/ RecvOrder(t) \/ RecvWords(t) \/ RecvEof(t)
             \/ Dispatch(t) \/ Check(t) \/ EnterShift(t) \/ ComeBack(t) \/ BookIncome(t)
             \/ LeaveShift(t) \/ Arrive(t) \/ (\E text \in Answers : Answer(t, text))
             \/ (\E u \in Updates : BeginUpdate(t, u) \/ EndUpdate(t, u))
      PROVE  CustomerBook'
  <2> USE DEF Counted, Paid, Places
  <2>1. CASE \/ Accept(t) \/ RecvShopList(t) \/ ConfirmNothing(t) \/ Confirm(t)
             \/ Cancel(t) \/ RecvOrder(t) \/ RecvWords(t) \/ RecvEof(t)
    BY <1>0, <1>1, <1>2, <2>1
    DEF Accept, RecvShopList, ConfirmNothing, Confirm, Cancel, RecvOrder, RecvWords,
        RecvEof, Order
  <2>2. CASE Dispatch(t)
    BY <1>0, <1>2, <2>2 DEF Dispatch, LoadTime, Choose
  <2>3. CASE \/ Check(t) \/ EnterShift(t) \/ ComeBack(t) \/ BookIncome(t)
             \/ LeaveShift(t) \/ Arrive(t) \/ (\E text \in Answers : Answer(t, text))
    BY <1>0, <1>2, <2>3
    DEF Check, EnterShift, ComeBack, BookIncome, LeaveShift, Arrive, Answer
  <2>4. CASE \E u \in Updates : BeginUpdate(t, u) \/ EndUpdate(t, u)
    BY <1>0, <1>2, <2>4
    DEF BeginUpdate, EndUpdate, Updates, AtBegin, AtEnd, AfterUpdate
  <2> QED
    BY <1>3, <2>1, <2>2, <2>3, <2>4
<1>4. ASSUME NEW t \in Threads, BookCustomer(t) PROVE CustomerBook'
  <2>1. /\ pc[t] = "customer" /\ pc' = [pc EXCEPT ![t] = "income"] /\ man' = man
        /\ man[t] \in Men /\ destroyed' = destroyed
        /\ customer' = [customer EXCEPT ![man[t]] = reg[t] + 1]
    BY <1>0, <1>4 DEF BookCustomer, ManChosen, Unchosen
  <2> SUFFICES ASSUME NEW m \in Men, ShiftLock(m) \notin destroyed
               PROVE  customer'[m] = Cardinality(At(m, Counted)')
    BY <2>1 DEF CustomerBook
  <2>2. customer[m] = Cardinality(At(m, Counted)) /\ customer \in [Men -> Nat]
    BY DEF CustomerBook, TypeInv, TypeOK
  <2>3. CASE m = man[t]
    <3>1. reg[t] = customer[m]
      BY <2>1, <2>3 DEF RegsFresh
    <3>2. At(m, Counted)' = At(m, Counted) \cup {t} /\ t \notin At(m, Counted)
      BY <1>0, <2>1, <2>3 DEF At, Counted, Paid
    <3>3. Cardinality(At(m, Counted)') = Cardinality(At(m, Counted)) + 1
      BY <3>2, AtFinite, FS_AddElement
    <3> QED
      BY <2>1, <2>2, <2>3, <3>1, <3>3
  <2>4. CASE m # man[t]
    <3>1. At(m, Counted)' = At(m, Counted)
      BY <1>0, <2>1, <2>4 DEF At, Counted, Paid
    <3> QED
      BY <2>1, <2>2, <2>4, <3>1
  <2> QED
    BY <2>3, <2>4
<1>5. ASSUME NEW l \in Mutexes, Destroy(l) PROVE CustomerBook'
  BY <1>1, <1>5 DEF Destroy, threadVars
<1> QED
  BY <1>1, <1>3, <1>4, <1>5
  DEF Next, get_order, Take, Work, DeliveryMan1, DeliveryMan2, Delivery, HangUp,
      ReadFails, WriteFails, CopyFails, AcceptFails, Exit, Kill, DeathLeaves, Sigint,
      CtrlCHandler, OpenResult, OpenFails, AddUp, Total, PrintResult, CloseResult,
      vars, threadVars

\* Only the stores of EndUpdate touch a pending time, and only they add an
\* order to those a man carries or take one away.
LEMMA TimeLedgerStep ==
  TypeInv /\ LocksHeld /\ RegsFresh /\ TimeLedger /\ [Next]_vars => TimeLedger'
<1> SUFFICES ASSUME TypeInv, LocksHeld, RegsFresh, TimeLedger, [Next]_vars
             PROVE  TimeLedger'
  OBVIOUS
<1> DEFINE In(u, m, s) == man[u] = m /\ pc[u] \in Carrying /\ sess[u].order_shop = s
<1>0. /\ pc \in [Threads -> Places] /\ man \in [Threads -> Men \cup {0}] /\ ManChosen
      /\ DOMAIN sess = Threads /\ time \in [Men -> Int]
  BY DEF TypeInv, TypeOK
<1>1. ASSUME time' = time, destroyed \subseteq destroyed',
             \A u \in Threads, m \in Men, s \in Shops : In(u, m, s)' <=> In(u, m, s)
      PROVE  TimeLedger'
  <2>1. ASSUME NEW m \in Men, NEW s \in Shops PROVE Carriers(m, s)' = Carriers(m, s)
    BY <1>1 DEF At, Carriers
  <2>2. \A m \in Men : TimeLock(m)' = TimeLock(m) /\ time'[m] = time[m]
    BY <1>1 DEF TimeLock
  <2> QED
    BY <1>1, <2>1, <2>2 DEF TimeLedger, Shops
\* A thread that is not carrying may change anything of its own.
<1>2. ASSUME NEW t \in Threads, time' = time, destroyed' = destroyed,
             \/ pc[t] \notin Carrying
                /\ \E place \in Places \ Carrying : pc' = [pc EXCEPT ![t] = place]
             \/ pc[t] \in Carrying /\ man'[t] = man[t] /\ sess'[t] = sess[t]
                /\ \E place \in Carrying : pc' = [pc EXCEPT ![t] = place],
             \A u \in Threads \ {t} : man'[u] = man[u] /\ sess'[u] = sess[u]
      PROVE  TimeLedger'
  BY <1>0, <1>1, <1>2
<1> USE DEF Goto, ThreadAt, MainAt, shared, locks, handler
<1>3. ASSUME NEW t \in Threads,
             \/ Accept(t) \/ RecvShopList(t) \/ ConfirmNothing(t) \/ Confirm(t)
             \/ Cancel(t) \/ RecvOrder(t) \/ RecvWords(t) \/ RecvEof(t)
             \/ Dispatch(t) \/ Check(t) \/ EnterShift(t) \/ ComeBack(t) \/ BookCustomer(t)
             \/ BookIncome(t) \/ LeaveShift(t) \/ Arrive(t)
             \/ (\E text \in Answers : Answer(t, text))
             \/ (\E u \in Updates : BeginUpdate(t, u))
      PROVE  TimeLedger'
  <2> USE DEF Carrying, Places
  <2>1. CASE Accept(t) \/ RecvShopList(t) \/ ConfirmNothing(t) \/ Confirm(t) \/ Cancel(t)
    BY <1>0, <1>1, <1>2, <2>1
    DEF Accept, RecvShopList, ConfirmNothing, Confirm, Cancel
  <2>2. ASSUME NEW meal, NEW amount, Order(t, meal, amount) PROVE TimeLedger'
    <3>1. /\ pc[t] = "recv" /\ pc' = [pc EXCEPT ![t] = "recv"] /\ man' = man
          /\ time' = time /\ destroyed' = destroyed
          /\ \A u \in Threads \ {t} : sess'[u] = sess[u]
      BY <1>0, <2>2 DEF Order
    <3> QED
      BY <1>2, <3>1
  <2>3. CASE RecvOrder(t) \/ RecvWords(t) \/ RecvEof(t)
    BY <2>2, <2>3 DEF RecvOrder, RecvWords, RecvEof
  <2>4. CASE Dispatch(t)
    BY <1>0, <1>2, <2>4 DEF Dispatch, LoadTime, Choose
  <2>5. CASE Check(t) \/ (\E text \in Answers : Answer(t, text))
    BY <1>0, <1>2, <2>5 DEF Check, Answer
  <2>6. CASE \/ EnterShift(t) \/ ComeBack(t) \/ BookCustomer(t) \/ BookIncome(t)
             \/ LeaveShift(t) \/ Arrive(t)
    BY <1>0, <1>2, <2>6
    DEF EnterShift, ComeBack, BookCustomer, BookIncome, LeaveShift, Arrive
  <2>7. CASE \E u \in Updates : BeginUpdate(t, u)
    BY <1>0, <1>2, <2>7 DEF BeginUpdate, Updates, AtBegin, AtEnd
  <2> QED
    BY <1>3, <2>1, <2>3, <2>4, <2>5, <2>6, <2>7
<1>4. ASSUME NEW t \in Threads, NEW u \in Updates, EndUpdate(t, u) PROVE TimeLedger'
  <2> DEFINE shop == sess[t].order_shop
             change == IF u = "add" THEN Distance(shop) ELSE 0 - Distance(shop)
  <2>1. /\ pc[t] = AtEnd(u) /\ pc' = [pc EXCEPT ![t] = AfterUpdate(u)]
        /\ man' = man /\ sess' = sess /\ destroyed' = destroyed /\ man[t] \in Men
        /\ pc[t] \in InUpdate
    BY <1>0, <1>4 DEF EndUpdate, ManChosen, Unchosen, Updates, AtEnd, InUpdate
  <2>2. shop \in Shops /\ \A s \in Shops : Distance(s) \in Nat
    BY <2>1 DEF TypeInv, TypeOK, InUpdate, Distance, Shops, Dessert, Beverage, Diner
  <2> SUFFICES ASSUME NEW m \in Men, TimeLock(m) \notin destroyed
               PROVE  time'[m] =   Distance(Dessert)  * Cardinality(Carriers(m, Dessert)')
                                 + Distance(Beverage) * Cardinality(Carriers(m, Beverage)')
                                 + Distance(Diner)    * Cardinality(Carriers(m, Diner)')
    BY <2>1 DEF TimeLedger, TimeLock
  <2> DEFINE C(s) == Cardinality(Carriers(m, s))
             D(s) == Cardinality(Carriers(m, s)')
  <2>3. /\ Distance(Dessert) = 3 /\ Distance(Beverage) = 5 /\ Distance(Diner) = 8
        /\ Shops = {Dessert, Beverage, Diner}
        /\ Dessert # Beverage /\ Beverage # Diner /\ Dessert # Diner
    BY DEF Distance, Shops, Dessert, Beverage, Diner
  <2>4. \A s \in Shops : (m # man[t] \/ s # shop) => Carriers(m, s)' = Carriers(m, s)
    BY <1>0, <2>1 DEF Carriers, At
  <2>5. time[m] = 3 * C(Dessert) + 5 * C(Beverage) + 8 * C(Diner)
    BY <2>3 DEF TimeLedger
  <2>6. time[m] \in Int /\ \A s \in Shops : C(s) \in Nat
    BY <1>0, AtFinite
  <2> SUFFICES time'[m] = 3 * D(Dessert) + 5 * D(Beverage) + 8 * D(Diner)
    BY <2>3
  <2>7. CASE m = man[t]
    <3>1. time'[m] = time[m] + change
      BY <1>0, <1>4, <2>1, <2>2, <2>7 DEF EndUpdate, RegsFresh, Trip
    <3>2. CASE u = "add"
      <4>1. Carriers(m, shop)' = Carriers(m, shop) \cup {t} /\ t \notin Carriers(m, shop)
        BY <1>0, <2>1, <2>7, <3>2 DEF Carriers, At, AtEnd, AfterUpdate, Carrying
      <4>2. D(shop) = C(shop) + 1
        BY <4>1, AtFinite, FS_AddElement
      <4>3. \A s \in Shops : s # shop => D(s) = C(s)
        BY <2>4
      <4> HIDE DEF C, D
      <4> QED
        BY <2>2, <2>3, <2>5, <2>6, <3>1, <3>2, <4>2, <4>3
    <3>3. CASE u # "add"
      <4>1. Carriers(m, shop)' = Carriers(m, shop) \ {t} /\ t \in Carriers(m, shop)
        BY <1>0, <2>1, <2>7, <3>3
        DEF Carriers, At, AtEnd, AfterUpdate, Carrying, Updates
      <4>2. D(shop) = C(shop) - 1
        BY <4>1, AtFinite, FS_RemoveElement
      <4>3. \A s \in Shops : s # shop => D(s) = C(s)
        BY <2>4
      <4> HIDE DEF C, D
      <4> QED
        BY <2>2, <2>3, <2>5, <2>6, <3>1, <3>3, <4>2, <4>3
    <3> QED
      BY <3>2, <3>3
  <2>8. CASE m # man[t]
    <3>1. time'[m] = time[m]
      BY <1>0, <1>4, <2>1, <2>8 DEF EndUpdate
    <3> QED
      BY <2>3, <2>4, <2>5, <2>8, <3>1
  <2> QED
    BY <2>7, <2>8
<1>5. ASSUME NEW l \in Mutexes, Destroy(l) PROVE TimeLedger'
  BY <1>1, <1>5 DEF Destroy, threadVars
<1> QED
  BY <1>1, <1>3, <1>4, <1>5
  DEF Next, get_order, Take, Work, DeliveryMan1, DeliveryMan2, Delivery, HangUp,
      ReadFails, WriteFails, CopyFails, AcceptFails, Exit, Kill, DeathLeaves, Sigint,
      CtrlCHandler, OpenResult, OpenFails, AddUp, Total, PrintResult, CloseResult,
      vars, threadVars

\* A man has asked nobody, and told nobody to wait, when he has nobody.
LEMMA UnaskedInit == Init => UnaskedWaitBounded
<1> SUFFICES ASSUME Init PROVE UnaskedWaitBounded
  OBVIOUS
<1>1. ASSUME NEW m, NEW shop PROVE Unasked(m, shop) = {}
  BY DEF Init, Unasked, At, Carriers, Carrying
<1>2. /\ Distance(Dessert) = 3 /\ Distance(Beverage) = 5 /\ Distance(Diner) = 8
  BY DEF Distance, Dessert, Beverage, Diner
<1>3. \A m, shop : Cardinality(Unasked(m, shop)) = 0
  BY <1>1, FS_EmptySet
<1> QED
  BY <1>2, <1>3, BoundsAssumption DEF UnaskedWaitBounded

LEMMA UnaskedFinite ==
  ASSUME NEW m, NEW shop
  PROVE  /\ IsFiniteSet(Unasked(m, shop)) /\ Cardinality(Unasked(m, shop)) \in Nat
         /\ Cardinality(Unasked(m, shop)) <= Cardinality(Carriers(m, shop))
<1>1. Unasked(m, shop) \subseteq Carriers(m, shop)
  BY DEF Unasked
<1> QED
  BY <1>1, AtFinite, FS_Subset, FS_CardinalityType

\* Only Check tells somebody to wait, and it has seen the pending time, which is
\* of all that are carried: the others lose orders of this kind, or keep them.
LEMMA UnaskedStep ==
  TypeInv /\ TimeLedger /\ UnaskedWaitBounded /\ [Next]_vars => UnaskedWaitBounded'
<1> SUFFICES ASSUME TypeInv, TimeLedger, UnaskedWaitBounded, [Next]_vars
             PROVE  UnaskedWaitBounded'
  OBVIOUS
<1> DEFINE In(u, m, s) == /\ man[u] = m /\ pc[u] \in Carrying /\ sess[u].order_shop = s
                          /\ answer[u] = "unasked" /\ pc[u] # "check"
           C(m, s) == Cardinality(Unasked(m, s))
           D(m, s) == Cardinality(Unasked(m, s)')
<1>0. /\ pc \in [Threads -> Places] /\ man \in [Threads -> Men \cup {0}] /\ ManChosen
      /\ DOMAIN sess = Threads /\ time \in [Men -> Int]
      /\ answer \in [Threads -> Answers \cup {"unasked", "asked"}]
  BY DEF TypeInv, TypeOK
<1>a. /\ Distance(Dessert) = 3 /\ Distance(Beverage) = 5 /\ Distance(Diner) = 8
      /\ Shops = {Dessert, Beverage, Diner}
  BY DEF Distance, Shops, Dessert, Beverage, Diner
<1>b. \A m \in Men, s \in Shops : C(m, s) \in Nat /\ D(m, s) \in Nat
  <2>1. ASSUME NEW m, NEW s PROVE D(m, s) \in Nat
    <3>1. Unasked(m, s)' \subseteq Threads
      BY DEF Unasked, Carriers, At
    <3> QED
      BY <3>1, ThreadsAssumption, FS_Subset, FS_CardinalityType
  <2> QED
    BY <2>1, UnaskedFinite
\* A step after which a man has at most the orders of this kind he had.
<1>1. ASSUME destroyed \subseteq destroyed',
             \A u \in Threads, m \in Men, s \in Shops : In(u, m, s)' => In(u, m, s)
      PROVE  UnaskedWaitBounded'
  <2>1. ASSUME NEW m \in Men, NEW s \in Shops PROVE D(m, s) <= C(m, s)
    <3>1. Unasked(m, s)' \subseteq Unasked(m, s)
      BY <1>1 DEF Unasked, At, Carriers
    <3> QED
      BY <3>1, UnaskedFinite, FS_Subset
  <2> SUFFICES ASSUME NEW m \in Men, TimeLock(m) \notin destroyed
               PROVE  3 * D(m, Dessert) + 5 * D(m, Beverage) + 8 * D(m, Diner) <= LongWait
    BY <1>1, <1>a DEF UnaskedWaitBounded, TimeLock
  <2>2. 3 * C(m, Dessert) + 5 * C(m, Beverage) + 8 * C(m, Diner) <= LongWait
    BY <1>a DEF UnaskedWaitBounded
  <2> HIDE DEF C, D
  <2> QED
    BY <1>a, <1>b, <2>1, <2>2, BoundsAssumption
<1>2. ASSUME NEW t \in Threads, destroyed' = destroyed,
             \/ \E place \in (Places \ Carrying) \cup {"check"} : pc' = [pc EXCEPT ![t] = place]
             \/ answer'[t] # "unasked"
             \/ pc[t] \in Carrying /\ pc[t] # "check" /\ man'[t] = man[t]
                /\ sess'[t] = sess[t] /\ answer'[t] = answer[t]
                /\ \E place \in Carrying : pc' = [pc EXCEPT ![t] = place],
             \A u \in Threads \ {t} : /\ pc'[u] = pc[u] /\ man'[u] = man[u]
                                     /\ sess'[u] = sess[u] /\ answer'[u] = answer[u]
      PROVE  UnaskedWaitBounded'
  <2>1. ~ \E m \in Men, s \in Shops : In(t, m, s)' /\ ~ In(t, m, s)
    BY <1>0, <1>2
  <2> QED
    BY <1>1, <1>2, <2>1
<1> USE DEF Goto, ThreadAt, MainAt, shared, locks, handler
<1>3. ASSUME NEW t \in Threads,
             \/ Accept(t) \/ RecvShopList(t) \/ ConfirmNothing(t) \/ Confirm(t)
             \/ Cancel(t) \/ RecvOrder(t) \/ RecvWords(t) \/ RecvEof(t)
             \/ Dispatch(t) \/ EnterShift(t) \/ ComeBack(t) \/ BookCustomer(t)
             \/ BookIncome(t) \/ LeaveShift(t) \/ Arrive(t)
             \/ (\E text \in Answers : Answer(t, text))
             \/ (\E u \in Updates : BeginUpdate(t, u) \/ EndUpdate(t, u))
      PROVE  UnaskedWaitBounded'
  <2> USE DEF Carrying, Places
  <2>1. CASE Accept(t) \/ RecvShopList(t) \/ ConfirmNothing(t) \/ Confirm(t) \/ Cancel(t)
    BY <1>0, <1>1, <1>2, <2>1
    DEF Accept, RecvShopList, ConfirmNothing, Confirm, Cancel
  <2>2. ASSUME NEW meal, NEW amount, Order(t, meal, amount) PROVE UnaskedWaitBounded'
    <3>1. /\ pc[t] = "recv" /\ pc' = [pc EXCEPT ![t] = "recv"] /\ man' = man
          /\ destroyed' = destroyed /\ answer' = answer
          /\ \A u \in Threads \ {t} : sess'[u] = sess[u]
      BY <1>0, <2>2 DEF Order
    <3> QED
      BY <1>0, <1>2, <3>1
  <2>3. CASE RecvOrder(t) \/ RecvWords(t) \/ RecvEof(t)
    BY <2>2, <2>3 DEF RecvOrder, RecvWords, RecvEof
  <2>4. CASE Dispatch(t)
    BY <1>0, <1>2, <2>4 DEF Dispatch, LoadTime, Choose
  <2>5. CASE \E text \in Answers : Answer(t, text)
    <3>1. PICK text \in Answers : Answer(t, text)
      BY <2>5
    <3>2. text # "unasked"
      BY DEF Answers
    <3>3. answer' = [answer EXCEPT ![t] = text] /\ UNCHANGED <<sess, man, destroyed>>
      BY <3>1 DEF Answer
    <3>4. \E place : pc' = [pc EXCEPT ![t] = place]
      BY <3>1 DEF Answer
    <3>5. answer'[t] # "unasked"
      BY <1>0, <3>2, <3>3
    <3>6. \A u \in Threads \ {t} : /\ pc'[u] = pc[u] /\ man'[u] = man[u]
                                   /\ sess'[u] = sess[u] /\ answer'[u] = answer[u]
      BY <1>0, <3>3, <3>4
    <3>7. destroyed' = destroyed
      BY <3>3
    <3> HIDE DEF Carrying, Places, Goto, ThreadAt, MainAt, shared, locks, handler
    <3> QED
      BY <1>2, <3>5, <3>6, <3>7
  <2>6. CASE \/ EnterShift(t) \/ ComeBack(t) \/ BookCustomer(t) \/ BookIncome(t)
             \/ LeaveShift(t) \/ Arrive(t)
    BY <1>0, <1>2, <2>6
    DEF EnterShift, ComeBack, BookCustomer, BookIncome, LeaveShift, Arrive
  <2>7. CASE \E u \in Updates : BeginUpdate(t, u) \/ EndUpdate(t, u)
    BY <1>0, <1>2, <2>7
    DEF BeginUpdate, EndUpdate, Updates, AtBegin, AtEnd, AfterUpdate
  <2> QED
    BY <1>3, <2>1, <2>3, <2>4, <2>5, <2>6, <2>7
<1>4. ASSUME NEW t \in Threads, Check(t) PROVE UnaskedWaitBounded'
  <2>1. /\ pc[t] = "check" /\ man[t] \in Men
        /\ UNCHANGED <<sess, man, time, destroyed>>
    BY <1>0, <1>4 DEF Check, ManChosen, Unchosen
  <2>2. CASE time[man[t]] > LongWait
    BY <1>0, <1>2, <1>4, <2>1, <2>2 DEF Check
  <2>3. CASE ~ (time[man[t]] > LongWait)
    <3>1. pc' = [pc EXCEPT ![t] = "shift"] /\ answer' = answer
      BY <1>4, <2>3 DEF Check
    <3> SUFFICES ASSUME NEW m \in Men, TimeLock(m) \notin destroyed
                 PROVE  3 * D(m, Dessert) + 5 * D(m, Beverage) + 8 * D(m, Diner) <= LongWait
      BY <2>1, <1>a DEF UnaskedWaitBounded, TimeLock
    <3>2. CASE m = man[t]
      <4> DEFINE E(s) == Cardinality(Carriers(m, s))
      <4>1. ASSUME NEW s \in Shops PROVE D(m, s) <= E(s) /\ E(s) \in Nat
        <5>1. Unasked(m, s)' \subseteq Carriers(m, s)
          BY <1>0, <2>1, <3>1 DEF Unasked, Carriers, At, Carrying
        <5> QED
          BY <5>1, AtFinite, FS_Subset
      <4>2. time[m] = 3 * E(Dessert) + 5 * E(Beverage) + 8 * E(Diner)
        BY <1>a DEF TimeLedger
      <4>3. time[m] <= LongWait
        BY <1>0, <2>3, <3>2, BoundsAssumption
      <4> HIDE DEF D, E
      <4> QED
        BY <1>a, <1>b, <4>1, <4>2, <4>3, BoundsAssumption
    <3>3. CASE m # man[t]
      <4>1. \A s \in Shops : Unasked(m, s)' = Unasked(m, s)
        BY <1>0, <2>1, <3>1, <3>3 DEF Unasked, Carriers, At
      <4>2. D(m, Dessert) = C(m, Dessert) /\ D(m, Beverage) = C(m, Beverage)
            /\ D(m, Diner) = C(m, Diner)
        BY <1>a, <4>1
      <4>3. 3 * C(m, Dessert) + 5 * C(m, Beverage) + 8 * C(m, Diner) <= LongWait
        BY <1>a DEF UnaskedWaitBounded
      <4> HIDE DEF C, D
      <4> QED
        BY <4>2, <4>3
    <3> QED
      BY <3>2, <3>3
  <2> QED
    BY <2>2, <2>3
<1>5. ASSUME NEW l \in Mutexes, Destroy(l) PROVE UnaskedWaitBounded'
  BY <1>1, <1>5 DEF Destroy, threadVars
<1> QED
  BY <1>1, <1>3, <1>4, <1>5
  DEF Next, get_order, Take, Work, DeliveryMan1, DeliveryMan2, Delivery, HangUp,
      ReadFails, WriteFails, CopyFails, AcceptFails, Exit, Kill, DeathLeaves, Sigint,
      CtrlCHandler, OpenResult, OpenFails, AddUp, Total, PrintResult, CloseResult,
      vars, threadVars

\* A bill is a natural number, and so is a sum of bills.
LEMMA BillsType ==
  ASSUME TypeInv
  PROVE  /\ \A t \in Threads : Bill(t) \in Nat /\ Bills[t] = Bill(t)
         /\ \A S \in SUBSET Threads : IsFiniteSet(S) /\ SumOf(Bills, S) \in Nat
<1>1. \A t \in Threads : Bill(t) \in Nat /\ Bills[t] = Bill(t)
  BY DEF TypeInv, TypeOK, Bills, Bill, IsSession
<1>2. ASSUME NEW S \in SUBSET Threads PROVE IsFiniteSet(S) /\ SumOf(Bills, S) \in Nat
  <2>1. IsFiniteSet(S)
    BY ThreadsAssumption, FS_Subset
  <2> QED
    BY <1>1, <2>1, SumNat
<1> QED
  BY <1>1, <1>2

LEMMA IncomeBookInit == Init => IncomeBook
<1> SUFFICES ASSUME Init, NEW m \in Men PROVE income[m] = SumOf(Bills, At(m, Paid))
  BY DEF IncomeBook
<1>1. At(m, Paid) = {}
  BY DEF Init, At, Paid
<1> QED
  BY <1>1, SumEmpty DEF Init

\* A step that pays no bill, or does not change who has paid.
LEMMA IncomeBookStep ==
  TypeInv /\ LocksHeld /\ RegsFresh /\ IncomeBook /\ [Next]_vars => IncomeBook'
<1> SUFFICES ASSUME TypeInv, LocksHeld, RegsFresh, IncomeBook, [Next]_vars
             PROVE  IncomeBook'
  OBVIOUS
<1> DEFINE In(u, m) == man[u] = m /\ pc[u] \in Paid
<1>0. /\ pc \in [Threads -> Places] /\ man \in [Threads -> Men \cup {0}] /\ ManChosen
      /\ DOMAIN sess = Threads
  BY DEF TypeInv, TypeOK
<1>1. ASSUME income' = income, destroyed \subseteq destroyed',
             \A u \in Threads, m \in Men :
               (In(u, m)' <=> In(u, m)) /\ (In(u, m) => sess'[u] = sess[u])
      PROVE  IncomeBook'
  <2>1. ASSUME NEW m \in Men
        PROVE  /\ At(m, Paid)' = At(m, Paid)
               /\ SumOf(Bills, At(m, Paid))' = SumOf(Bills, At(m, Paid))
    <3>1. At(m, Paid)' = At(m, Paid)
      BY <1>1 DEF At
    <3>2. \A u \in At(m, Paid) : Bills'[u] = Bills[u]
      BY <1>1 DEF At, Bills, Bill
    <3>3. SumOf(Bills', At(m, Paid)) = SumOf(Bills, At(m, Paid))
      BY <3>2, AtFinite, SumSame
    <3> QED
      BY <3>1, <3>3
  <2> QED
    BY <1>1, <2>1 DEF IncomeBook
<1>2. ASSUME NEW t \in Threads, income' = income, destroyed' = destroyed,
             \/ pc[t] \notin Paid
                /\ \E place \in Places \ Paid : pc' = [pc EXCEPT ![t] = place]
             \/ pc[t] \in Paid /\ man'[t] = man[t] /\ sess'[t] = sess[t]
                /\ \E place \in Paid : pc' = [pc EXCEPT ![t] = place],
             \A u \in Threads \ {t} : man'[u] = man[u] /\ sess'[u] = sess[u]
      PROVE  IncomeBook'
  BY <1>0, <1>1, <1>2
<1> USE DEF Goto, ThreadAt, MainAt, shared, locks, handler
<1>3. ASSUME NEW t \in Threads,
             \/ Accept(t) \/ RecvShopList(t) \/ ConfirmNothing(t) \/ Confirm(t)
             \/ Cancel(t) \/ RecvOrder(t) \/ RecvWords(t) \/ RecvEof(t)
             \/ Dispatch(t) \/ Check(t) \/ EnterShift(t) \/ ComeBack(t) \/ BookCustomer(t)
             \/ LeaveShift(t) \/ Arrive(t) \/ (\E text \in Answers : Answer(t, text))
             \/ (\E u \in Updates : BeginUpdate(t, u) \/ EndUpdate(t, u))
      PROVE  IncomeBook'
  <2> USE DEF Paid, Places
  <2>1. CASE Accept(t) \/ RecvShopList(t) \/ ConfirmNothing(t) \/ Confirm(t) \/ Cancel(t)
    BY <1>0, <1>1, <1>2, <2>1
    DEF Accept, RecvShopList, ConfirmNothing, Confirm, Cancel
  <2>2. ASSUME NEW meal, NEW amount, Order(t, meal, amount) PROVE IncomeBook'
    <3>1. /\ pc[t] = "recv" /\ pc' = [pc EXCEPT ![t] = "recv"] /\ man' = man
          /\ income' = income /\ destroyed' = destroyed
          /\ \A u \in Threads \ {t} : sess'[u] = sess[u]
      BY <1>0, <2>2 DEF Order
    <3> QED
      BY <1>2, <3>1
  <2>3. CASE RecvOrder(t) \/ RecvWords(t) \/ RecvEof(t)
    BY <2>2, <2>3 DEF RecvOrder, RecvWords, RecvEof
  <2>4. CASE Dispatch(t)
    BY <1>0, <1>2, <2>4 DEF Dispatch, LoadTime, Choose
  <2>5. CASE \/ Check(t) \/ EnterShift(t) \/ ComeBack(t) \/ BookCustomer(t)
             \/ LeaveShift(t) \/ Arrive(t) \/ (\E text \in Answers : Answer(t, text))
    BY <1>0, <1>2, <2>5
    DEF Check, EnterShift, ComeBack, BookCustomer, LeaveShift, Arrive, Answer
  <2>6. CASE \E u \in Updates : BeginUpdate(t, u) \/ EndUpdate(t, u)
    BY <1>0, <1>2, <2>6
    DEF BeginUpdate, EndUpdate, Updates, AtBegin, AtEnd, AfterUpdate
  <2> QED
    BY <1>3, <2>1, <2>3, <2>4, <2>5, <2>6
<1>4. ASSUME NEW t \in Threads, BookIncome(t) PROVE IncomeBook'
  <2>1. /\ pc[t] = "income" /\ pc' = [pc EXCEPT ![t] = "subBegin"] /\ man' = man
        /\ man[t] \in Men /\ destroyed' = destroyed /\ sess' = sess
        /\ income' = [income EXCEPT ![man[t]] = reg[t] + Bill(t)]
    BY <1>0, <1>4 DEF BookIncome, ManChosen, Unchosen
  <2>2. Bills' = Bills
    BY <2>1 DEF Bills, Bill
  <2> SUFFICES ASSUME NEW m \in Men, ShiftLock(m) \notin destroyed
               PROVE  income'[m] = SumOf(Bills, At(m, Paid)')
    BY <2>1, <2>2 DEF IncomeBook
  <2>3. income[m] = SumOf(Bills, At(m, Paid)) /\ income \in [Men -> Nat]
    BY DEF IncomeBook, TypeInv, TypeOK
  <2>4. CASE m = man[t]
    <3>1. reg[t] = income[m] /\ income'[m] = reg[t] + Bill(t)
      BY <2>1, <2>3, <2>4 DEF RegsFresh
    <3>2. At(m, Paid)' = At(m, Paid) \cup {t} /\ t \notin At(m, Paid)
      BY <1>0, <2>1, <2>4 DEF At, Paid
    <3>3. \A u \in At(m, Paid) \cup {t} : Bills[u] \in Int
      BY BillsType DEF At
    <3>4. SumOf(Bills, At(m, Paid) \cup {t}) = SumOf(Bills, At(m, Paid)) + Bills[t]
      BY <3>2, <3>3, AtFinite, SumAdd
    <3> QED
      BY <2>3, <3>1, <3>2, <3>4, BillsType
  <2>5. CASE m # man[t]
    <3>1. At(m, Paid)' = At(m, Paid)
      BY <1>0, <2>1, <2>5 DEF At, Paid
    <3> QED
      BY <2>1, <2>3, <2>5, <3>1
  <2> QED
    BY <2>4, <2>5
<1>5. ASSUME NEW l \in Mutexes, Destroy(l) PROVE IncomeBook'
  BY <1>1, <1>5 DEF Destroy, threadVars
<1> QED
  BY <1>1, <1>3, <1>4, <1>5
  DEF Next, get_order, Take, Work, DeliveryMan1, DeliveryMan2, Delivery, HangUp,
      ReadFails, WriteFails, CopyFails, AcceptFails, Exit, Kill, DeathLeaves, Sigint,
      CtrlCHandler, OpenResult, OpenFails, AddUp, Total, PrintResult, CloseResult,
      vars, threadVars

-----------------------------------------------------------------------------
(* The baskets.                                                            *)

LEMMA BasketsPricedInit == Init => BasketsPriced
BY DEF Init, BasketsPriced, Priced

LEMMA BasketsPricedStep == TypeInv /\ BasketsPriced /\ [Next]_vars => BasketsPriced'
<1> SUFFICES ASSUME TypeInv, BasketsPriced, [Next]_vars PROVE BasketsPriced'
  OBVIOUS
<1>0. DOMAIN sess = Threads /\ \A t \in Threads : IsSession(sess[t]) /\ Priced(sess[t])
  BY DEF TypeInv, TypeOK, BasketsPriced
<1>1. ASSUME sess' = sess PROVE BasketsPriced'
  BY <1>1 DEF BasketsPriced
<1>2. ASSUME NEW t \in Threads, NEW meal \in Meals \cup {Unset}, NEW amount \in Nat,
             Order(t, meal, amount),
             \/ meal \in Meals /\ Receives(t)
             \/ meal = sess[t].meal /\ amount = sess[t].amount
      PROVE  BasketsPriced'
  <2>1. PICK shop \in meal_to_shop(meal) :
          /\ ~ (sess[t].shop_flag /\ shop = NoShop /\ sess[t].order_shop = NoShop)
          /\ sess' = [sess EXCEPT ![t] = TakeOrder(sess[t], shop, meal, amount)]
    BY <1>2 DEF Order
  <2>2. Receives(t) /\ sess[t].shop_flag => sess[t].meal \in Meals
    BY DEF Receives, TypeInv, OpenOrders
  <2>3. IsSession(sess[t]) /\ Priced(sess[t])
    BY <1>0
  <2>4. Priced(TakeOrder(sess[t], shop, meal, amount))
    BY <1>2, <2>1, <2>2, <2>3, TakeOrderPriced
  <2>5. \A u \in Threads : Priced(sess'[u])
    BY <1>0, <2>1, <2>4
  <2> QED
    BY <2>5 DEF BasketsPriced
<1>3. ASSUME NEW t \in Threads, RecvOrder(t) PROVE BasketsPriced'
  BY <1>2, <1>3, OrdersAssumption DEF RecvOrder
<1>4. ASSUME NEW t \in Threads, RecvWords(t) \/ RecvEof(t) PROVE BasketsPriced'
  <2>1. sess[t].meal \in Meals \cup {Unset} /\ sess[t].amount \in Nat
    BY <1>0 DEF IsSession
  <2> QED
    BY <1>2, <1>4, <2>1 DEF RecvWords, RecvEof
<1>5. \/ sess' = sess
      \/ \E t \in Threads : RecvOrder(t) \/ RecvWords(t) \/ RecvEof(t)
  BY DEF Next, get_order, Take, Work, Dispatch, DeliveryMan1, DeliveryMan2, Delivery,
        Accept, RecvShopList, ConfirmNothing, Confirm, Cancel,
        Answer, LoadTime, Choose, BeginUpdate, EndUpdate, Check,
        EnterShift, ComeBack, BookCustomer, BookIncome, LeaveShift, Arrive, HangUp,
        ReadFails, WriteFails, CopyFails, AcceptFails, Sigint, DeathLeaves,
        CtrlCHandler, Destroy, OpenResult, OpenFails, AddUp, Total, PrintResult,
        CloseResult, vars, threadVars
<1> QED
  BY <1>1, <1>3, <1>4, <1>5

-----------------------------------------------------------------------------
(* The report.                                                             *)

\* A served thread is finished.
LEMMA ServedStays ==
  ASSUME TypeInv, [Next]_vars, NEW t \in Threads, pc[t] = "served"
  PROVE  pc'[t] = "served" /\ man'[t] = man[t] /\ sess'[t] = sess[t]
<1>0. pc \in [Threads -> Places] /\ man \in [Threads -> Men \cup {0}] /\ DOMAIN sess = Threads
  BY DEF TypeInv, TypeOK
<1>1. ASSUME NEW u \in Threads, pc[u] # "served",
             \E place : pc' = [pc EXCEPT ![u] = place],
             \A v \in Threads \ {u} : man'[v] = man[v] /\ sess'[v] = sess[v]
      PROVE  pc'[t] = "served" /\ man'[t] = man[t] /\ sess'[t] = sess[t]
  BY <1>0, <1>1
<1> USE DEF Goto, ThreadAt, MainAt
<1>2. ASSUME NEW u \in Threads,
             \/ Accept(u) \/ Confirm(u) \/ Cancel(u) \/ Dispatch(u)
             \/ (\E text \in Answers : Answer(u, text))
             \/ Check(u) \/ EnterShift(u) \/ ComeBack(u) \/ BookCustomer(u)
             \/ BookIncome(u) \/ LeaveShift(u) \/ Arrive(u)
             \/ (\E x \in Updates : BeginUpdate(u, x) \/ EndUpdate(u, x))
      PROVE  pc'[t] = "served" /\ man'[t] = man[t] /\ sess'[t] = sess[t]
  BY <1>0, <1>1, <1>2
  DEF Accept, Confirm, Cancel, Dispatch, LoadTime, Choose, Answer, Check, EnterShift,
      ComeBack, BookCustomer, BookIncome, LeaveShift, Arrive, BeginUpdate, EndUpdate,
      Updates, AtBegin, AtEnd
<1>3. ASSUME NEW u \in Threads, RecvOrder(u) \/ RecvWords(u) \/ RecvEof(u)
      PROVE  pc'[t] = "served" /\ man'[t] = man[t] /\ sess'[t] = sess[t]
  BY <1>0, <1>3 DEF RecvOrder, RecvWords, RecvEof, Order
<1> QED
  BY <1>2, <1>3
  DEF Next, get_order, Take, Work, DeliveryMan1, DeliveryMan2, Delivery, HangUp,
      RecvShopList, ConfirmNothing, ReadFails, WriteFails, CopyFails, AcceptFails,
      DeathLeaves, Sigint, CtrlCHandler, Destroy, OpenResult, OpenFails, AddUp, Total,
      PrintResult, CloseResult, vars, threadVars

\* What was due is due to one of the two men.
LEMMA DueParts ==
  ASSUME TypeInv, DueCovered
  PROVE  /\ \A m \in Men : /\ DueOf(m) \in SUBSET Threads /\ IsFiniteSet(DueOf(m))
                           /\ Cardinality(DueOf(m)) \in Nat
                           /\ SumOf(Bills, DueOf(m)) \in Nat
         /\ {t \in due : man[t] \in {}} = {}
         /\ {t \in due : man[t] \in {1}} = DueOf(1)
         /\ {t \in due : man[t] \in Men} = due
         /\ Cardinality(due) = Cardinality(DueOf(1)) + Cardinality(DueOf(2))
         /\ SumOf(Bills, due) = SumOf(Bills, DueOf(1)) + SumOf(Bills, DueOf(2))
<1>1. due \subseteq Threads /\ \A t \in due : man[t] \in Men
  BY DEF TypeInv, TypeOK, ManChosen, Unchosen, DueCovered
<1>2. \A m \in Men : DueOf(m) \in SUBSET Threads
  BY <1>1 DEF DueOf
<1>3. \A m \in Men : /\ IsFiniteSet(DueOf(m)) /\ Cardinality(DueOf(m)) \in Nat
                     /\ SumOf(Bills, DueOf(m)) \in Nat
  BY <1>2, BillsType, FS_CardinalityType
<1>4. /\ {t \in due : man[t] \in {}} = {}
      /\ {t \in due : man[t] \in {1}} = DueOf(1)
      /\ {t \in due : man[t] \in Men} = due
  BY <1>1 DEF DueOf
<1>5. due = DueOf(1) \cup DueOf(2) /\ DueOf(1) \cap DueOf(2) = {}
  BY <1>1 DEF DueOf, Men
<1>6. IsFiniteSet(DueOf(1)) /\ IsFiniteSet(DueOf(2)) /\ DueOf(1) \cup DueOf(2) \in SUBSET Threads
  BY <1>2, <1>3 DEF Men
<1>7. Cardinality(due) = Cardinality(DueOf(1)) + Cardinality(DueOf(2))
  <2>1. Cardinality(DueOf(1) \cup DueOf(2))
          = Cardinality(DueOf(1)) + Cardinality(DueOf(2)) - Cardinality({})
    BY <1>5, <1>6, FS_Union
  <2>2. Cardinality(DueOf(1)) \in Nat /\ Cardinality(DueOf(2)) \in Nat
    BY <1>3 DEF Men
  <2> QED
    BY <1>5, <2>1, <2>2, FS_EmptySet
<1>8. SumOf(Bills, due) = SumOf(Bills, DueOf(1)) + SumOf(Bills, DueOf(2))
  <2>1. \A t \in DueOf(1) \cup DueOf(2) : Bills[t] \in Int
    BY <1>6, BillsType
  <2> QED
    BY <1>5, <1>6, <2>1, SumDisjoint
<1> QED
  BY <1>2, <1>3, <1>4, <1>7, <1>8

LEMMA DueInit == Init => DueCovered
<1> SUFFICES ASSUME Init PROVE DueCovered
  OBVIOUS
<1>1. due = {} /\ destroyed = {} /\ hpc = "none" /\ report = [customer |-> 0, income |-> 0]
  BY DEF Init
<1>2. /\ \A m \in Men : DueOf(m) = {}
      /\ \A S : {t \in due : man[t] \in S} = {}
  BY <1>1 DEF DueOf
<1>3. \A m \in Men, p \in {"customer", "income"} : At(m, {p}) = {}
  BY DEF Init, At
<1>4. Cardinality({}) = 0 /\ SumOf(Bills, {}) = 0
  BY FS_EmptySet, SumEmpty
<1>5. \A m \in Men : customer[m] = 0 /\ income[m] = 0
  BY DEF Init
<1> QED
  BY <1>1, <1>2, <1>3, <1>4, <1>5 DEF DueCovered

\* When Ctrl-C comes the books balance: they hold the served, and others.
LEMMA DueSigint ==
  ASSUME IInv, Sigint
  PROVE  DueCovered'
<1> DEFINE S(m) == At(m, {"served"})
<1>1. /\ hpc = "none" /\ hpc' = "mutex1" /\ due' = {t \in Threads : pc[t] = "served"}
      /\ UNCHANGED <<server, pc, conn, sess, man, reg, answer, time, customer, income,
                     lock, destroyed, report, result>>
  BY DEF Sigint, MainAt, threadVars, shared, locks
<1>2. /\ TypeInv /\ RegsFresh /\ CustomerBook /\ IncomeBook /\ destroyed = {}
  BY <1>1 DEF IInv, DueCovered
<1>3. Bills' = Bills /\ \A m \in Men : DueOf(m)' = S(m)
  BY <1>1 DEF Bills, Bill, DueOf, At
<1>4. \A m \in Men : /\ S(m) \in SUBSET At(m, Counted) /\ S(m) \in SUBSET At(m, Paid)
                     /\ At(m, Counted) \in SUBSET Threads /\ At(m, Paid) \in SUBSET Threads
  BY DEF At, Counted, Paid
<1>5. ASSUME NEW m \in Men
      PROVE  customer[m] >= Cardinality(S(m)) /\ income[m] >= SumOf(Bills, S(m))
  <2>1. customer[m] = Cardinality(At(m, Counted)) /\ income[m] = SumOf(Bills, At(m, Paid))
    BY <1>2 DEF CustomerBook, IncomeBook
  <2>2. /\ IsFiniteSet(At(m, Counted)) /\ IsFiniteSet(At(m, Paid))
        /\ \A t \in At(m, Paid) : Bills[t] \in Nat
    BY <1>2, <1>4, BillsType
  <2>3. Cardinality(S(m)) <= Cardinality(At(m, Counted))
    BY <1>4, <2>2, FS_Subset
  <2>4. SumOf(Bills, S(m)) <= SumOf(Bills, At(m, Paid))
    BY <1>4, <2>2, SumSubset
  <2>5. /\ Cardinality(S(m)) \in Nat /\ Cardinality(At(m, Counted)) \in Nat
        /\ SumOf(Bills, S(m)) \in Nat /\ SumOf(Bills, At(m, Paid)) \in Nat
    <3>1. S(m) \in SUBSET Threads
      BY <1>4
    <3> QED
      BY <1>2, <1>4, <3>1, AtFinite, BillsType
  <2> HIDE DEF S
  <2> QED
    BY <2>1, <2>3, <2>4, <2>5
<1>6. ASSUME NEW m \in Men, NEW t \in At(m, {"customer"}) PROVE reg[t] = customer[m]
  BY <1>2, <1>6 DEF RegsFresh, At
<1>7. ASSUME NEW m \in Men, NEW t \in At(m, {"income"}) PROVE reg[t] = income[m]
  BY <1>2, <1>7 DEF RegsFresh, At
<1>8. Added("mutex1") = {} /\ AddedIncome("mutex1") = {}
  BY DEF Added, AddedIncome
<1>9. Cardinality({}) = 0 /\ report.customer \in Nat /\ report.income \in Nat
  BY <1>2, FS_EmptySet DEF TypeInv, TypeOK
<1> HIDE DEF S
<1>10. \A m \in Men : /\ customer'[m] >= Cardinality(DueOf(m)')
                      /\ income'[m] >= SumOf(Bills', DueOf(m)')
                      /\ \A t \in At(m, {"customer"})' : reg'[t] >= Cardinality(DueOf(m)')
                      /\ \A t \in At(m, {"income"})' : reg'[t] >= SumOf(Bills', DueOf(m)')
  <2>1. \A m \in Men : \A p : At(m, {p})' = At(m, {p})
    BY <1>1 DEF At
  <2> QED
    BY <1>1, <1>3, <1>5, <1>6, <1>7, <2>1
<1>11. /\ report'.customer >= Cardinality({t \in due' : man'[t] \in Added(hpc')})
       /\ report'.income >= SumOf(Bills', {t \in due' : man'[t] \in AddedIncome(hpc')})
  <2>1. /\ {t \in due' : man'[t] \in Added(hpc')} = {}
        /\ {t \in due' : man'[t] \in AddedIncome(hpc')} = {}
    BY <1>1, <1>8
  <2>2. SumOf(Bills', {}) = 0
    BY SumEmpty
  <2> QED
    BY <1>1, <1>9, <2>1, <2>2
<1>12. (hpc' = "none" => due' = {} /\ destroyed' = {}) /\ \A t \in due' : pc'[t] = "served"
  BY <1>1
<1> QED
  BY <1>10, <1>11, <1>12 DEF DueCovered

\* Afterwards what was due stays as it was, and everything stored or loaded is
\* at least that.
LEMMA DueStep == IInv /\ [Next]_vars => DueCovered'
<1> SUFFICES ASSUME IInv, [Next]_vars, ~ Sigint PROVE DueCovered'
  BY DueSigint
<1> USE DEF Goto, ThreadAt, MainAt, shared, locks, handler
<1>0. /\ TypeInv /\ DueCovered
      /\ pc \in [Threads -> Places] /\ man \in [Threads -> Men \cup {0}] /\ ManChosen
      /\ customer \in [Men -> Nat] /\ income \in [Men -> Nat] /\ reg \in [Threads -> Int]
      /\ report \in [customer : Nat, income : Nat]
  BY DEF IInv, TypeInv, TypeOK
<1> DEFINE D(m) == Cardinality(DueOf(m))
           E(m) == SumOf(Bills, DueOf(m))
\* What was due.
<1>1. due' = due
  BY DEF Next, get_order, Take, Work, Dispatch, DeliveryMan1, DeliveryMan2, Delivery,
        Accept, RecvShopList, ConfirmNothing, Confirm, Cancel, RecvOrder, RecvWords,
        RecvEof, Order, Answer, LoadTime, Choose, BeginUpdate, EndUpdate, Check,
        EnterShift, ComeBack, BookCustomer, BookIncome, LeaveShift, Arrive, HangUp,
        ReadFails, WriteFails, CopyFails, AcceptFails, DeathLeaves,
        CtrlCHandler, Destroy, OpenResult, OpenFails, AddUp, Total, PrintResult,
        CloseResult, vars
<1>2. \A t \in due : pc'[t] = "served" /\ man'[t] = man[t] /\ Bills'[t] = Bills[t]
  BY <1>0, ServedStays DEF DueCovered, TypeInv, TypeOK, Bills, Bill
<1>3. /\ \A m \in Men : DueOf(m)' = DueOf(m)
      /\ \A M : {t \in due' : man'[t] \in M} = {t \in due : man[t] \in M}
  BY <1>1, <1>2 DEF DueOf
<1>4. \A S \in SUBSET due : SumOf(Bills', S) = SumOf(Bills, S)
  <2> SUFFICES ASSUME NEW S \in SUBSET due PROVE SumOf(Bills', S) = SumOf(Bills, S)
    OBVIOUS
  <2>1. S \in SUBSET Threads /\ \A t \in S : Bills[t] = Bills'[t]
    BY <1>0, <1>2 DEF TypeInv, TypeOK
  <2>2. IsFiniteSet(S)
    BY <1>0, <2>1, BillsType
  <2> QED
    BY <2>1, <2>2, SumSame
<1>5. \A m \in Men : D(m)' = D(m) /\ E(m)' = E(m) /\ D(m) \in Nat /\ E(m) \in Nat
  <2>1. \A m \in Men : DueOf(m) \in SUBSET due
    BY DEF DueOf
  <2> QED
    BY <1>0, <1>3, <1>4, <2>1, DueParts
<1>6. /\ \A m \in Men : customer[m] >= D(m) /\ income[m] >= E(m)
      /\ \A m \in Men, t \in Threads :
           /\ man[t] = m /\ pc[t] = "customer" => reg[t] >= D(m)
           /\ man[t] = m /\ pc[t] = "income" => reg[t] >= E(m)
  BY <1>0 DEF DueCovered, At
<1> DEFINE Kept == /\ \A m \in Men : customer'[m] >= D(m) /\ income'[m] >= E(m)
                   /\ \A m \in Men, t \in Threads :
                        /\ man'[t] = m /\ pc'[t] = "customer" => reg'[t] >= D(m)
                        /\ man'[t] = m /\ pc'[t] = "income" => reg'[t] >= E(m)
<1> HIDE DEF D, E
\* The books and the threads in the middle of them.
<1>7. ASSUME UNCHANGED <<customer, income>>, NEW t \in Threads,
             \E place \in Places \ {"customer", "income"} : pc' = [pc EXCEPT ![t] = place],
             \A u \in Threads \ {t} : man'[u] = man[u] /\ reg'[u] = reg[u]
      PROVE  Kept
  BY <1>0, <1>6, <1>7
<1>8. ASSUME UNCHANGED <<pc, man, reg, customer, income>> PROVE Kept
  BY <1>6, <1>8
<1>9. ASSUME NEW t \in Threads, ComeBack(t) \/ BookCustomer(t) \/ BookIncome(t) PROVE Kept
  <2>1. man' = man /\ man[t] \in Men
    BY <1>0, <1>9 DEF ComeBack, BookCustomer, BookIncome, ManChosen, Unchosen
  <2>2. CASE ComeBack(t)
    <3>1. /\ pc' = [pc EXCEPT ![t] = "customer"] /\ reg' = [reg EXCEPT ![t] = customer[man[t]]]
          /\ customer' = customer /\ income' = income
      BY <2>2 DEF ComeBack
    <3> QED
      BY <1>0, <1>6, <2>1, <3>1
  <2>3. CASE BookCustomer(t)
    <3>1. /\ pc[t] = "customer" /\ pc' = [pc EXCEPT ![t] = "income"]
          /\ reg' = [reg EXCEPT ![t] = income[man[t]]]
          /\ customer' = [customer EXCEPT ![man[t]] = reg[t] + 1] /\ income' = income
      BY <2>3 DEF BookCustomer
    <3>2. reg[t] >= D(man[t]) /\ reg[t] \in Int
      BY <1>0, <1>6, <2>1, <3>1
    <3>3. reg[t] + 1 >= D(man[t])
      BY <1>5, <2>1, <3>2
    <3> QED
      BY <1>0, <1>6, <2>1, <3>1, <3>3
  <2>4. CASE BookIncome(t)
    <3>1. /\ pc[t] = "income" /\ pc' = [pc EXCEPT ![t] = "subBegin"]
          /\ reg' = [reg EXCEPT ![t] = 0]
          /\ income' = [income EXCEPT ![man[t]] = reg[t] + Bill(t)] /\ customer' = customer
      BY <2>4 DEF BookIncome
    <3>2. reg[t] >= E(man[t]) /\ reg[t] \in Int /\ Bill(t) \in Nat
      BY <1>0, <1>6, <2>1, <3>1, BillsType
    <3>3. reg[t] + Bill(t) >= E(man[t])
      BY <1>5, <2>1, <3>2
    <3> QED
      BY <1>0, <1>6, <2>1, <3>1, <3>3
  <2> QED
    BY <1>9, <2>2, <2>3, <2>4
<1>10. Kept
  <2> HIDE DEF Kept
  <2>1. ASSUME NEW t \in Threads,
               \/ Accept(t) \/ RecvShopList(t) \/ ConfirmNothing(t) \/ Confirm(t) \/ Cancel(t)
        PROVE Kept
    BY <1>0, <1>7, <1>8, <2>1
    DEF Accept, RecvShopList, ConfirmNothing, Confirm, Cancel, Places
  <2>2. ASSUME NEW t \in Threads, RecvOrder(t) \/ RecvWords(t) \/ RecvEof(t) PROVE Kept
    BY <1>8, <2>2 DEF RecvOrder, RecvWords, RecvEof, Order
  <2>3. ASSUME NEW t \in Threads, Dispatch(t) \/ Check(t) \/ (\E text \in Answers : Answer(t, text))
        PROVE Kept
    BY <1>0, <1>7, <2>3 DEF Dispatch, LoadTime, Choose, Check, Answer, Places
  <2>4. ASSUME NEW t \in Threads, EnterShift(t) \/ LeaveShift(t) \/ Arrive(t) PROVE Kept
    BY <1>0, <1>7, <2>4 DEF EnterShift, LeaveShift, Arrive, Places
  <2>5. ASSUME NEW t \in Threads, NEW u \in Updates, BeginUpdate(t, u) \/ EndUpdate(t, u)
        PROVE Kept
    BY <1>0, <1>7, <2>5
    DEF BeginUpdate, EndUpdate, Updates, AtBegin, AtEnd, AfterUpdate, Places
  <2> QED
    BY <1>8, <1>9, <2>1, <2>2, <2>3, <2>4, <2>5
    DEF Next, get_order, Take, Work, DeliveryMan1, DeliveryMan2, Delivery, HangUp,
        ReadFails, WriteFails, CopyFails, AcceptFails, DeathLeaves,
        CtrlCHandler, Destroy, OpenResult, OpenFails, AddUp, Total, PrintResult,
        CloseResult, vars, threadVars
\* The totals.
<1> DEFINE C(M) == Cardinality({t \in due : man[t] \in M})
           I(M) == SumOf(Bills, {t \in due : man[t] \in M})
<1>11. /\ report'.customer >= C(Added(hpc')) /\ report'.income >= I(AddedIncome(hpc'))
       /\ hpc' = "none" => hpc = "none" /\ destroyed' = destroyed
  <2>1. report.customer >= C(Added(hpc)) /\ report.income >= I(AddedIncome(hpc))
    BY <1>0 DEF DueCovered
  <2>2. /\ C({}) = 0 /\ C({1}) = D(1) /\ C(Men) = D(1) + D(2)
        /\ I({}) = 0 /\ I({1}) = E(1) /\ I(Men) = E(1) + E(2)
    BY <1>0, DueParts, FS_EmptySet, SumEmpty DEF D, E
  <2> HIDE DEF C, I
  <2>3. CASE hpc' = hpc /\ report' = report /\ destroyed' = destroyed
    BY <2>1, <2>3
  <2>4. CASE (\E l \in Mutexes : Destroy(l)) \/ OpenResult \/ PrintResult
    <3>1. /\ report' = report /\ hpc' # "none"
          /\ Added(hpc') = Added(hpc) /\ AddedIncome(hpc') = AddedIncome(hpc)
      BY <2>4 DEF Destroy, AfterDestroy, Mutexes, OpenResult, PrintResult, Added, AddedIncome
    <3> QED
      BY <2>1, <3>1
  <2>5. CASE AddUp
    <3>1. /\ customer[1] \in Nat /\ customer[1] >= D(1) /\ D(1) \in Nat
          /\ customer[2] \in Nat /\ customer[2] >= D(2) /\ D(2) \in Nat
          /\ income[1] \in Nat /\ income[1] >= E(1) /\ E(1) \in Nat
          /\ income[2] \in Nat /\ income[2] >= E(2) /\ E(2) \in Nat
          /\ report.customer \in Nat /\ report.income \in Nat
      BY <1>0, <1>5, <1>6 DEF Men
    <3>2. CASE Total("customer1", "customer2", "customer", customer[1])
      <4>1. /\ hpc = "customer1" /\ hpc' = "customer2"
            /\ report'.customer = report.customer + customer[1] /\ report'.income = report.income
        BY <1>0, <3>2 DEF Total
      <4>2. /\ Added(hpc') = {1} /\ AddedIncome(hpc') = {}
        BY <4>1 DEF Added, AddedIncome
      <4>3. report'.customer >= C(Added(hpc'))
        BY <2>2, <3>1, <4>1, <4>2
      <4>4. report'.income >= I(AddedIncome(hpc'))
        BY <2>2, <3>1, <4>1, <4>2
      <4> QED
        BY <4>1, <4>3, <4>4
    <3>3. CASE Total("customer2", "income1", "customer", customer[2])
      <4>1. /\ hpc = "customer2" /\ hpc' = "income1"
            /\ report'.customer = report.customer + customer[2] /\ report'.income = report.income
        BY <1>0, <3>3 DEF Total
      <4>2. /\ Added(hpc) = {1} /\ Added(hpc') = Men /\ AddedIncome(hpc') = {}
        BY <4>1 DEF Added, AddedIncome
      <4>3. report'.customer >= C(Added(hpc'))
        BY <2>1, <2>2, <3>1, <4>1, <4>2
      <4>4. report'.income >= I(AddedIncome(hpc'))
        BY <2>2, <3>1, <4>1, <4>2
      <4> QED
        BY <4>1, <4>3, <4>4
    <3>4. CASE Total("income1", "income2", "income", income[1])
      <4>1. /\ hpc = "income1" /\ hpc' = "income2"
            /\ report'.income = report.income + income[1] /\ report'.customer = report.customer
        BY <1>0, <3>4 DEF Total
      <4>2. /\ Added(hpc) = Men /\ Added(hpc') = Men /\ AddedIncome(hpc') = {1}
        BY <4>1 DEF Added, AddedIncome
      <4> QED
        BY <2>1, <2>2, <3>1, <4>1, <4>2
    <3>5. CASE Total("income2", "fprintf", "income", income[2])
      <4>1. /\ hpc = "income2" /\ hpc' = "fprintf"
            /\ report'.income = report.income + income[2] /\ report'.customer = report.customer
        BY <1>0, <3>5 DEF Total
      <4>2. /\ Added(hpc) = Men /\ Added(hpc') = Men
            /\ AddedIncome(hpc) = {1} /\ AddedIncome(hpc') = Men
        BY <4>1 DEF Added, AddedIncome
      <4> QED
        BY <2>1, <2>2, <3>1, <4>1, <4>2
    <3>6. hpc' # "none"
      BY <2>5 DEF AddUp, Total
    <3> QED
      BY <2>5, <3>2, <3>3, <3>4, <3>5, <3>6 DEF AddUp
  <2>6. \/ hpc' = hpc /\ report' = report /\ destroyed' = destroyed
        \/ (\E l \in Mutexes : Destroy(l)) \/ OpenResult \/ PrintResult \/ AddUp
    BY DEF Next, get_order, Take, Work, Dispatch, DeliveryMan1, DeliveryMan2, Delivery,
           Accept, RecvShopList, ConfirmNothing, Confirm, Cancel, RecvOrder, RecvWords,
           RecvEof, Order, Answer, LoadTime, Choose, BeginUpdate, EndUpdate, Check,
           EnterShift, ComeBack, BookCustomer, BookIncome, LeaveShift, Arrive, HangUp,
           ReadFails, WriteFails, CopyFails, AcceptFails, DeathLeaves,
           CtrlCHandler, OpenFails, CloseResult, vars
  <2> QED
    BY <2>3, <2>4, <2>5, <2>6
<1>12. /\ {t \in due' : man'[t] \in Added(hpc')} = {t \in due : man[t] \in Added(hpc')}
       /\ {t \in due' : man'[t] \in AddedIncome(hpc')} = {t \in due : man[t] \in AddedIncome(hpc')}
       /\ SumOf(Bills', {t \in due : man[t] \in AddedIncome(hpc')})
            = SumOf(Bills, {t \in due : man[t] \in AddedIncome(hpc')})
  BY <1>3, <1>4
<1>13. \A m \in Men : /\ D(m)' = Cardinality(DueOf(m)') /\ D(m)' = D(m)
                      /\ E(m)' = SumOf(Bills', DueOf(m)') /\ E(m)' = E(m)
  BY <1>5 DEF D, E
<1>14. hpc' = "none" => due' = {} /\ destroyed' = {}
  BY <1>0, <1>1, <1>11 DEF DueCovered
<1>15. \A t \in due' : pc'[t] = "served"
  BY <1>1, <1>2
<1> QED
  BY <1>10, <1>11, <1>12, <1>13, <1>14, <1>15 DEF DueCovered, At

-----------------------------------------------------------------------------
(* The theorems.                                                           *)

LEMMA InvInit == Init => IInv
BY TypeInit, LockInit, BooksInit, IncomeBookInit, BasketsPricedInit, DueInit DEF IInv

LEMMA InvStep == IInv /\ [Next]_vars => IInv'
<1>1. IInv /\ [Next]_vars => DueCovered'
  BY DueStep
<1> QED
  BY <1>1, TypeStep, LockStep, CustomerBookStep, TimeLedgerStep, IncomeBookStep,
     BasketsPricedStep
  DEF IInv

\* The books of lines 39-44 balance in every reachable state, for every
\* number of clients: together with the types and the locks they rest on.
THEOREM Invariance == Spec => []IInv
BY InvInit, InvStep, PTL DEF Spec

\* Every variable keeps its type, and shop_distance is read inside its bounds.
THEOREM TypeCorrect == Spec => []TypeOK
BY Invariance, PTL DEF IInv, TypeInv

\* No update of a delivery man's pending time is lost (lines 268, 282, 295,
\* 317 and their twins), whatever the number of clients and their orders.
THEOREM TimeBalanced == Spec => []TimeLedger
BY Invariance, PTL DEF IInv

\* The customers a man serves without having asked them never add up to a long
\* wait (lines 272 and 335), for any number of them and any interleaving.
THEOREM NobodyUnwarned == Spec => []UnaskedWaitBounded
<1>1. IInv /\ UnaskedWaitBounded /\ [Next]_vars => UnaskedWaitBounded'
  BY UnaskedStep DEF IInv
<1> QED
  BY <1>1, UnaskedInit, Invariance, PTL DEF Spec

\* No customer is lost or counted twice (lines 290, 312, 350, 371).
THEOREM CustomersCounted == Spec => []CustomerBook
BY Invariance, PTL DEF IInv

\* No bill is lost or booked twice (lines 291, 313, 351, 372).
THEOREM IncomesBooked == Spec => []IncomeBook
BY Invariance, PTL DEF IInv

LEMMA PricedBaskets == IInv => BillMatchesBasket
<1> SUFFICES ASSUME IInv, NEW t \in Threads
             PROVE  Bill(t) = SumOf(Prices(sess[t]), DOMAIN sess[t].ordered)
  BY DEF BillMatchesBasket
<1> DEFINE s == sess[t]
<1>1. Priced(s)
  BY DEF IInv, BasketsPriced
<1>2. CASE s = NewSession
  <2>1. DOMAIN s.ordered = {} /\ s.total_money = 0
    BY <1>2 DEF NewSession, EmptyBasket
  <2> QED
    BY <2>1, SumEmpty DEF Bill
<1>3. CASE s.total_money = 0 /\ s.ordered = OneItem(Unset, 0)
  <2>1. DOMAIN s.ordered = {Unset} /\ Prices(s)[Unset] = OrderMoney(s.order_shop, Unset, 0)
    BY <1>3 DEF OneItem, Prices
  <2>2. OrderMoney(s.order_shop, Unset, 0) = 0
    BY DEF OrderMoney, Dessertshop_order, Beverageshop_order, Dinershop_order
  <2>3. SumOf(Prices(s), {Unset}) = 0
    BY <2>1, <2>2, SumOne
  <2> QED
    BY <1>3, <2>1, <2>3 DEF Bill
<1>4. CASE s.total_money = SumOf(Prices(s), DOMAIN s.ordered)
  BY <1>4 DEF Bill
<1> QED
  BY <1>1, <1>2, <1>3, <1>4 DEF Priced

\* Every client is charged the price of the basket he is shown, whatever the
\* orders and their order (lines 87-246, 391-434).
THEOREM ChargedForBasket == Spec => []BillMatchesBasket
BY PricedBaskets, Invariance, PTL

\* The totals CtrlCHandler writes cover every customer who had been told of the
\* arrival when Ctrl-C came, and his bill, though the threads go on and the locks
\* are being destroyed (lines 446-481).
THEOREM ReportComplete == Spec => []ReportCoversDue
<1>1. IInv => ReportCoversDue
  <2> SUFFICES ASSUME IInv, hpc \in {"fprintf", "sleep"}
               PROVE  report.customer >= Cardinality(due) /\ report.income >= SumOf(Bills, due)
    BY DEF ReportCoversDue
  <2>1. Added(hpc) = Men /\ AddedIncome(hpc) = Men
    BY DEF Added, AddedIncome
  <2>2. TypeInv /\ DueCovered
    BY DEF IInv
  <2>3. {t \in due : man[t] \in Men} = due
    BY <2>2, DueParts
  <2> QED
    BY <2>1, <2>2, <2>3 DEF DueCovered
<1> QED
  BY <1>1, Invariance, PTL

\* After Ctrl-C the process ends with the report written, unless fopen fails or a
\* thread dies of its client (line 445): only those steps end the process there.
THEOREM ReportWritten == Spec => []ReportSurvives
<1>1. Init => ReportSurvives
  BY DEF Init, ReportSurvives
<1>2. ReportSurvives /\ [Next]_vars => ReportSurvives'
  <2>1. CASE UNCHANGED vars
    BY <2>1 DEF ReportSurvives, vars, threadVars, handler
  <2>2. ASSUME NEW t \in Threads, ReadFails(t) \/ WriteFails(t) \/ CopyFails(t)
        PROVE  ReportSurvives'
    <3>1. /\ pc[t] \in {"recv", "check", "answer", "arrive"} /\ conn[t] # "open"
          /\ UNCHANGED <<pc, conn>>
      BY <2>2 DEF ReadFails, WriteFails, CopyFails, ReceivesEof, ThreadAt, DeathLeaves, threadVars
    <3> QED
      BY <3>1 DEF ReportSurvives
  <2>3. ASSUME NEW t \in Threads, Take(t) \/ Dispatch(t) \/ Delivery(t)
        PROVE  server' = "up"
    BY <2>3
    DEF Take, Dispatch, Delivery, RecvShopList, ConfirmNothing, Confirm, Cancel, RecvOrder,
        RecvWords, RecvEof, Order, Answer, LoadTime, Choose, BeginUpdate, EndUpdate, Check,
        EnterShift, ComeBack, BookCustomer, BookIncome, LeaveShift, Arrive, Goto, ThreadAt
  <2>4. ASSUME NEW t \in Threads, Accept(t) \/ HangUp(t) PROVE server' = "up"
    BY <2>4 DEF Accept, HangUp, Goto, ThreadAt
  <2>5. CASE Sigint \/ CtrlCHandler
    <3>1. server' = "up" \/ OpenFails \/ CloseResult
      BY <2>5 DEF Sigint, CtrlCHandler, Destroy, OpenResult, AddUp, Total, PrintResult, MainAt
    <3> QED
      BY <3>1 DEF OpenFails, CloseResult, MainAt, Exit, DeathLeaves, ReportSurvives
  <2>6. CASE AcceptFails
    BY <2>6 DEF AcceptFails, MainAt, DeathLeaves, ReportSurvives
  <2>7. server' = "up" => ReportSurvives'
    BY DEF ReportSurvives
  <2> QED
    BY <2>1, <2>2, <2>3, <2>4, <2>5, <2>6, <2>7
    DEF Next, get_order, Work, DeliveryMan1, DeliveryMan2
<1> QED
  BY <1>1, <1>2, PTL DEF Spec

-----------------------------------------------------------------------------
(***************************************************************************)
(* The threads of DeliveryServer implement DeliveryBooks, for any number   *)
(* of them, any orders and any bounds, as long as Ctrl-C does not destroy  *)
(* the locks.                                                              *)
(***************************************************************************)

\* The locks are never destroyed.
NoCtrlC == hpc = "none" /\ destroyed = {}

LEMMA NeverCtrlC ==
  ASSUME "sigint" \notin Env
  PROVE  /\ Init => NoCtrlC
         /\ NoCtrlC /\ [Next]_vars => NoCtrlC'
<1>1. Init => NoCtrlC
  BY DEF Init, NoCtrlC
<1>2. ASSUME NoCtrlC, [Next]_vars PROVE NoCtrlC'
  <2>1. ~ CtrlCHandler
    BY <1>2 DEF NoCtrlC, CtrlCHandler, Destroy, Mutexes, OpenResult, OpenFails, AddUp,
                Total, PrintResult, CloseResult, MainAt
  <2>2. UNCHANGED <<hpc, destroyed>>
    BY <1>2, <2>1
    DEF Next, get_order, Take, Work, Dispatch, DeliveryMan1, DeliveryMan2, Delivery,
        Accept, RecvShopList, ConfirmNothing, Confirm, Cancel, RecvOrder, RecvWords,
        RecvEof, Order, Answer, LoadTime, Choose, BeginUpdate, EndUpdate, Check,
        EnterShift, ComeBack, BookCustomer, BookIncome, LeaveShift, Arrive, HangUp,
        ReadFails, WriteFails, CopyFails, AcceptFails, Sigint, DeathLeaves,
        vars, locks, handler
  <2> QED
    BY <1>2, <2>2 DEF NoCtrlC
<1> QED
  BY <1>1, <1>2

-----------------------------------------------------------------------------
(* The mapping.                                                            *)

Shopping == {"none", "recv", "load", "half1", "half2", "addBegin", "addEnd"}
Waiting  == {"check", "answer", "dropBegin", "dropEnd", "shift"}
Out      == {"out", "customer", "income"}

LEMMA Stages ==
  ASSUME NEW m
  PROVE  /\ \A place \in Shopping : StageAt(place, m) = "shopping"
         /\ \A place \in Waiting : StageAt(place, m) = "waiting"
         /\ \A place \in Out : StageAt(place, m) = "out"
         /\ \A place \in {"subBegin", "subEnd"} : StageAt(place, m) = "booked"
         /\ StageAt("leave", m) = "returned"
         /\ \A place \in {"arrive", "served"} : StageAt(place, m) = "home"
         /\ StageAt("left", m) = IF m = 0 THEN "shopping" ELSE "refused"
BY DEF StageAt, Shopping, Waiting, Out

\* The only men who are out are those in the middle of a shift.
LEMMA BusyInShift ==
  ASSUME NEW t \in Threads, pc[t] \in Places, StageOf(t) \in Books!Busy
  PROVE  pc[t] \in InShift
BY Stages DEF StageOf, Books!Busy, InShift, Places, Shopping, Waiting, Out

LEMMA BooksStart == Init => Books!Init
<1> SUFFICES ASSUME Init PROVE Books!Init
  OBVIOUS
<1>1. \A t \in Threads : StageOf(t) = "shopping" /\ ~ Assigned(t)
  BY Stages DEF Init, StageOf, Assigned, Shopping
<1>2. \A m \in Men : At(m, {"income"}) = {}
  BY DEF Init, At
<1>3. \A m \in Men : customer[m] - Cardinality(At(m, {"income"})) = 0
  <2>1. \A m \in Men : Cardinality(At(m, {"income"})) = 0 /\ customer[m] = 0
    BY <1>2, FS_EmptySet DEF Init
  <2> QED
    BY <2>1
<1> QED
  BY <1>1, <1>3 DEF Init, Books!Init, Books!Men, Men

-----------------------------------------------------------------------------
(* The steps the books do not see.                                         *)

LEMMA Unseen ==
  ASSUME UNCHANGED <<time, income>>,
         \A t \in Threads : /\ StageOf(t)' = StageOf(t)
                            /\ Assigned(t) => man'[t] = man[t] /\ sess'[t] = sess[t],
         \A m \in Men : (customer[m] - Cardinality(At(m, {"income"})))'
                          = customer[m] - Cardinality(At(m, {"income"}))
  PROVE  UNCHANGED Books!vars
<1>1. \A t \in Threads : Assigned(t)' <=> Assigned(t)
  BY DEF Assigned
<1>2. \A t \in Threads : Assigned(t) => Trip(t)' = Trip(t) /\ Bill(t)' = Bill(t)
  BY DEF Trip, Bill
<1> QED
  BY <1>1, <1>2 DEF Books!vars

\* Nobody moves, and the shared integers stay as they are.
LEMMA UnseenRest ==
  ASSUME UNCHANGED <<pc, man, sess, time, income, customer>>
  PROVE  UNCHANGED Books!vars
<1>1. \A t \in Threads : StageOf(t)' = StageOf(t)
  BY DEF StageOf
<1>2. \A m \in Men : At(m, {"income"})' = At(m, {"income"})
  BY DEF At
<1> QED
  BY <1>1, <1>2, Unseen

\* One thread moves to another place of the same stage.
LEMMA UnseenMove ==
  ASSUME pc \in [Threads -> Places], NEW t \in Threads, NEW place,
         UNCHANGED <<time, income, customer>>,
         pc' = [pc EXCEPT ![t] = place],
         \A u \in Threads \ {t} : man'[u] = man[u] /\ sess'[u] = sess[u],
         StageAt(place, man'[t]) = StageOf(t),
         Assigned(t) => man'[t] = man[t] /\ sess'[t] = sess[t],
         "income" \notin {pc[t], place}
  PROVE  UNCHANGED Books!vars
<1>1. \A u \in Threads : StageOf(u)' = StageOf(u)
  BY DEF StageOf
<1>2. \A m \in Men : At(m, {"income"})' = At(m, {"income"})
  BY DEF At
<1> QED
  BY <1>1, <1>2, Unseen

LEMMA UnseenSteps ==
  ASSUME IInv, NEW t \in Threads,
         \/ Accept(t) \/ Take(t) \/ Dispatch(t)
         \/ (\E u \in Updates : BeginUpdate(t, u))
         \/ Check(t) \/ ComeBack(t) \/ Arrive(t)
  PROVE  UNCHANGED Books!vars
<1> USE DEF Goto, ThreadAt, MainAt, shared, locks, handler
<1>0. /\ pc \in [Threads -> Places] /\ man \in [Threads -> Men \cup {0}] /\ ManChosen
      /\ DOMAIN sess = Threads
  BY DEF IInv, TypeInv, TypeOK
<1>1. \A u \in Threads : Assigned(u) => pc[u] \notin Shopping
  BY Stages DEF Assigned, StageOf
<1>2. ASSUME NEW place \in Shopping, pc[t] \in Shopping, pc' = [pc EXCEPT ![t] = place],
             UNCHANGED <<time, income, customer>>,
             \A u \in Threads \ {t} : man'[u] = man[u] /\ sess'[u] = sess[u]
      PROVE  UNCHANGED Books!vars
  <2>1. StageAt(place, man'[t]) = "shopping" /\ StageOf(t) = "shopping"
    BY <1>2, Stages DEF StageOf
  <2>2. "income" \notin {pc[t], place} /\ ~ Assigned(t)
    BY <1>1, <1>2 DEF Shopping
  <2> QED
    BY <1>0, <1>2, <2>1, <2>2, UnseenMove
<1>3. ASSUME NEW group \in {Waiting, {"out", "customer"}, {"arrive", "served"}},
             NEW place \in group, pc[t] \in group, pc' = [pc EXCEPT ![t] = place],
             UNCHANGED <<man, sess, time, income, customer>>
      PROVE  UNCHANGED Books!vars
  <2>1. StageAt(place, man[t]) = StageOf(t)
    BY <1>3, Stages DEF StageOf, Out
  <2>2. "income" \notin {pc[t], place}
    BY <1>3 DEF Waiting
  <2> QED
    BY <1>0, <1>3, <2>1, <2>2, UnseenMove
<1>4. CASE Accept(t)
  BY <1>2, <1>4 DEF Accept, Shopping
<1>5. CASE Confirm(t)
  BY <1>2, <1>5 DEF Confirm, Shopping
<1>6. CASE RecvShopList(t) \/ ConfirmNothing(t)
  BY <1>6, UnseenRest DEF RecvShopList, ConfirmNothing
<1>7. CASE Cancel(t)
  <2>1. /\ pc[t] = "recv" /\ pc' = [pc EXCEPT ![t] = "left"] /\ man[t] = 0
        /\ UNCHANGED <<man, sess, time, income, customer>>
    BY <1>0, <1>7 DEF Cancel, ManChosen, Unchosen
  <2>2. StageAt("left", man'[t]) = StageOf(t)
    BY <2>1, Stages DEF StageOf, Shopping
  <2> QED
    BY <1>0, <2>1, <2>2, UnseenMove
<1>8. CASE RecvOrder(t) \/ RecvWords(t) \/ RecvEof(t)
  <2>1. /\ pc[t] = "recv" /\ UNCHANGED <<pc, man, time, income, customer>>
        /\ \A u \in Threads \ {t} : sess'[u] = sess[u]
    BY <1>0, <1>8 DEF RecvOrder, RecvWords, RecvEof, Order
  <2>2. pc' = [pc EXCEPT ![t] = "recv"] /\ "recv" \in Shopping
    BY <1>0, <2>1 DEF Shopping
  <2> QED
    BY <1>2, <2>1, <2>2
<1>9. ASSUME NEW text \in Answers, Answer(t, text) PROVE UNCHANGED Books!vars
  <2>1. PICK place \in {"dropBegin", "shift"} :
          pc[t] = "answer" /\ pc' = [pc EXCEPT ![t] = place]
    BY <1>9 DEF Answer
  <2> QED
    BY <1>3, <1>9, <2>1 DEF Answer, Waiting
<1>10. CASE LoadTime(t)
  <2>1. PICK place \in {"half1", "half2"} : pc[t] = "load" /\ pc' = [pc EXCEPT ![t] = place]
    BY <1>10 DEF LoadTime
  <2> QED
    BY <1>2, <1>10, <2>1 DEF LoadTime, Shopping
<1>11. CASE Choose(t)
  <2>1. /\ pc[t] \in {"half1", "half2"} /\ pc' = [pc EXCEPT ![t] = "addBegin"]
        /\ UNCHANGED <<sess, time, income, customer>>
        /\ \A u \in Threads \ {t} : man'[u] = man[u]
    BY <1>0, <1>11 DEF Choose
  <2> QED
    BY <1>2, <2>1 DEF Shopping
<1>12. ASSUME NEW u \in Updates, BeginUpdate(t, u) PROVE UNCHANGED Books!vars
  <2>1. /\ pc[t] = AtBegin(u) /\ pc' = [pc EXCEPT ![t] = AtEnd(u)]
        /\ UNCHANGED <<man, sess, time, income, customer>>
    BY <1>12 DEF BeginUpdate
  <2>2. /\ StageAt(AtBegin(u), man[t]) = StageAt(AtEnd(u), man[t])
        /\ "income" \notin {AtBegin(u), AtEnd(u)}
    BY Stages DEF AtBegin, AtEnd, Updates, Shopping, Waiting
  <2> QED
    BY <1>0, <2>1, <2>2, UnseenMove DEF StageOf
<1>13. CASE Check(t)
  <2>1. PICK place \in {"answer", "shift"} : pc[t] = "check" /\ pc' = [pc EXCEPT ![t] = place]
    BY <1>13 DEF Check
  <2> QED
    BY <1>3, <1>13, <2>1 DEF Check, Waiting
<1>14. CASE ComeBack(t)
  BY <1>3, <1>14 DEF ComeBack
<1>15. CASE Arrive(t)
  BY <1>3, <1>15 DEF Arrive
<1> QED
  BY <1>4, <1>5, <1>6, <1>7, <1>8, <1>9, <1>10, <1>11, <1>12, <1>13, <1>14, <1>15
  DEF Take, Dispatch

\* The customer is stored before the bill: the books see both when the second is.
LEMMA UnseenCustomer ==
  ASSUME IInv, NoCtrlC, NEW t \in Threads, BookCustomer(t)
  PROVE  UNCHANGED Books!vars
<1>1. /\ pc[t] = "customer" /\ pc' = [pc EXCEPT ![t] = "income"]
      /\ customer' = [customer EXCEPT ![man[t]] = reg[t] + 1]
      /\ UNCHANGED <<man, sess, time, income>>
  BY DEF BookCustomer, Goto, ThreadAt
<1>2. /\ pc \in [Threads -> Places] /\ customer \in [Men -> Nat]
      /\ man[t] \in Men /\ reg[t] = customer[man[t]]
  BY <1>1 DEF IInv, TypeInv, TypeOK, ManChosen, Unchosen, NoCtrlC, RegsFresh
<1>3. \A u \in Threads : StageOf(u)' = StageOf(u)
  BY <1>1, <1>2, Stages DEF StageOf, Out
<1>4. ASSUME NEW m \in Men
      PROVE  (customer[m] - Cardinality(At(m, {"income"})))'
               = customer[m] - Cardinality(At(m, {"income"}))
  <2>1. Cardinality(At(m, {"income"})) \in Nat /\ IsFiniteSet(At(m, {"income"}))
    BY AtFinite
  <2>2. CASE m = man[t]
    <3>1. At(m, {"income"})' = At(m, {"income"}) \cup {t} /\ t \notin At(m, {"income"})
      BY <1>1, <1>2, <2>2 DEF At
    <3>2. Cardinality(At(m, {"income"})') = Cardinality(At(m, {"income"})) + 1
      BY <2>1, <3>1, FS_AddElement
    <3>3. customer'[m] = customer[m] + 1 /\ customer[m] \in Nat
      BY <1>1, <1>2, <2>2
    <3> QED
      BY <2>1, <3>2, <3>3
  <2>3. CASE m # man[t]
    <3>1. At(m, {"income"})' = At(m, {"income"})
      BY <1>1, <1>2, <2>3 DEF At
    <3>2. customer'[m] = customer[m]
      BY <1>1, <1>2, <2>3
    <3> QED
      BY <3>1, <3>2
  <2> QED
    BY <2>2, <2>3
<1> QED
  BY <1>1, <1>3, <1>4, Unseen

-----------------------------------------------------------------------------
(* The steps the books see.                                                *)

\* The mapped variables.
ManBar      == [t \in Threads |-> IF Assigned(t) THEN man[t] ELSE 0]
TripBar     == [t \in Threads |-> IF Assigned(t) THEN Trip(t) ELSE 0]
BillBar     == [t \in Threads |-> IF Assigned(t) THEN Bill(t) ELSE 0]
CustomerBar == [m \in Men |-> customer[m] - Cardinality(At(m, {"income"}))]

\* An assigned order moves on and stays with its man.
LEMMA SeenMove ==
  ASSUME pc \in [Threads -> Places], NEW t \in Threads, NEW place,
         pc' = [pc EXCEPT ![t] = place], UNCHANGED <<man, sess>>,
         StageOf(t) # "shopping", StageAt(place, man[t]) # "shopping"
  PROVE  /\ Books!Move(t, StageOf(t), StageAt(place, man[t]))
         /\ UNCHANGED <<ManBar, TripBar, BillBar>>
         /\ ManBar[t] = man[t] /\ TripBar[t] = Trip(t) /\ BillBar[t] = Bill(t)
<1>1. StageOf(t)' = StageAt(place, man[t]) /\ \A u \in Threads \ {t} : StageOf(u)' = StageOf(u)
  BY DEF StageOf
<1>2. Assigned(t) /\ Assigned(t)' /\ \A u \in Threads : Assigned(u)' <=> Assigned(u)
  BY <1>1 DEF Assigned
<1>3. \A u \in Threads : Trip(u)' = Trip(u) /\ Bill(u)' = Bill(u)
  BY DEF Trip, Bill
<1>4. UNCHANGED <<ManBar, TripBar, BillBar>>
  BY <1>2, <1>3 DEF ManBar, TripBar, BillBar
<1>5. ManBar[t] = man[t] /\ TripBar[t] = Trip(t) /\ BillBar[t] = Bill(t)
  BY <1>2 DEF ManBar, TripBar, BillBar
<1> QED
  BY <1>1, <1>4, <1>5 DEF Books!Move

LEMMA CustomersStay ==
  ASSUME pc \in [Threads -> Places], NEW t \in Threads, NEW place,
         pc' = [pc EXCEPT ![t] = place], UNCHANGED <<man, customer>>,
         "income" \notin {pc[t], place}
  PROVE  UNCHANGED CustomerBar
<1>1. \A m \in Men : At(m, {"income"})' = At(m, {"income"})
  BY DEF At
<1> QED
  BY <1>1 DEF CustomerBar

LEMMA SeenRefusal ==
  ASSUME IInv, NoCtrlC, NEW t \in Threads, EndUpdate(t, "drop")
  PROVE  Books!Refuse(t)
<1>1. /\ pc[t] = "dropEnd" /\ pc' = [pc EXCEPT ![t] = "left"]
      /\ time' = [time EXCEPT ![man[t]] = reg[t] - Trip(t)]
      /\ UNCHANGED <<man, sess, income, customer>>
  BY DEF EndUpdate, Goto, ThreadAt, AtEnd, AfterUpdate
<1>2. /\ pc \in [Threads -> Places] /\ man[t] \in Men /\ reg[t] = time[man[t]]
  BY <1>1 DEF IInv, TypeInv, TypeOK, ManChosen, Unchosen, NoCtrlC, RegsFresh, InUpdate
<1>3. StageOf(t) = "waiting" /\ StageAt("left", man[t]) = "refused"
  BY <1>1, <1>2, Stages DEF StageOf, Waiting, Men
<1>4. /\ Books!Move(t, "waiting", "refused")
      /\ UNCHANGED <<ManBar, TripBar, BillBar>>
      /\ ManBar[t] = man[t] /\ TripBar[t] = Trip(t)
  BY <1>1, <1>2, <1>3, SeenMove
<1>5. UNCHANGED CustomerBar
  BY <1>1, <1>2, CustomersStay
<1>6. time' = [time EXCEPT ![ManBar[t]] = @ - TripBar[t]]
  BY <1>1, <1>2, <1>4
<1> QED
  BY <1>1, <1>4, <1>5, <1>6 DEF Books!Refuse, ManBar, TripBar, BillBar, CustomerBar

LEMMA SeenReturn ==
  ASSUME IInv, NoCtrlC, NEW t \in Threads, EndUpdate(t, "sub")
  PROVE  Books!Return(t)
<1>1. /\ pc[t] = "subEnd" /\ pc' = [pc EXCEPT ![t] = "leave"]
      /\ time' = [time EXCEPT ![man[t]] = reg[t] - Trip(t)]
      /\ UNCHANGED <<man, sess, income, customer>>
  BY DEF EndUpdate, Goto, ThreadAt, AtEnd, AfterUpdate
<1>2. /\ pc \in [Threads -> Places] /\ man[t] \in Men /\ reg[t] = time[man[t]]
  BY <1>1 DEF IInv, TypeInv, TypeOK, ManChosen, Unchosen, NoCtrlC, RegsFresh, InUpdate
<1>3. StageOf(t) = "booked" /\ StageAt("leave", man[t]) = "returned"
  BY <1>1, Stages DEF StageOf
<1>4. /\ Books!Move(t, "booked", "returned")
      /\ UNCHANGED <<ManBar, TripBar, BillBar>>
      /\ ManBar[t] = man[t] /\ TripBar[t] = Trip(t)
  BY <1>1, <1>2, <1>3, SeenMove
<1>5. UNCHANGED CustomerBar
  BY <1>1, <1>2, CustomersStay
<1>6. time' = [time EXCEPT ![ManBar[t]] = @ - TripBar[t]]
  BY <1>1, <1>2, <1>4
<1> QED
  BY <1>1, <1>4, <1>5, <1>6 DEF Books!Return, ManBar, TripBar, BillBar, CustomerBar

\* The shift lock is free, so nobody else is out for this man.
LEMMA SeenDeparture ==
  ASSUME IInv, NoCtrlC, NEW t \in Threads, EnterShift(t)
  PROVE  Books!Depart(t)
<1>1. /\ pc[t] = "shift" /\ pc' = [pc EXCEPT ![t] = "out"]
      /\ Lock(ShiftLock(man[t]), t)
      /\ UNCHANGED <<man, sess, time, income, customer>>
  BY DEF EnterShift, Goto, ThreadAt, shared
<1>2. pc \in [Threads -> Places] /\ destroyed = {}
  BY DEF IInv, TypeInv, TypeOK, NoCtrlC
<1>3. StageOf(t) = "waiting" /\ StageAt("out", man[t]) = "out"
  BY <1>1, Stages DEF StageOf, Waiting, Out
<1>4. /\ Books!Move(t, "waiting", "out")
      /\ UNCHANGED <<ManBar, TripBar, BillBar>>
      /\ ManBar[t] = man[t]
  BY <1>1, <1>2, <1>3, SeenMove
<1>5. UNCHANGED CustomerBar
  BY <1>1, <1>2, CustomersStay
<1>6. ASSUME NEW d \in Threads, ManBar[d] = ManBar[t], StageOf(d) \in Books!Busy
      PROVE  FALSE
  <2>1. pc[d] \in InShift
    BY <1>2, <1>6, BusyInShift
  <2>2. man[d] = man[t]
    BY <1>4, <1>6 DEF ManBar, Assigned, Books!Busy
  <2>3. lock[ShiftLock(man[t])] = d
    BY <1>2, <2>1, <2>2 DEF IInv, LocksHeld
  <2>4. lock[ShiftLock(man[t])] = Nobody
    BY <1>1, <1>2 DEF Lock
  <2> QED
    BY <2>3, <2>4, ThreadsAssumption
<1> QED
  BY <1>1, <1>4, <1>5, <1>6 DEF Books!Depart, ManBar, TripBar, BillBar, CustomerBar

LEMMA SeenRest ==
  ASSUME IInv, NEW t \in Threads, LeaveShift(t)
  PROVE  Books!Rest(t)
<1>1. /\ pc[t] = "leave" /\ pc' = [pc EXCEPT ![t] = "arrive"]
      /\ UNCHANGED <<man, sess, time, income, customer>>
  BY DEF LeaveShift, Goto, ThreadAt, shared
<1>2. pc \in [Threads -> Places]
  BY DEF IInv, TypeInv, TypeOK
<1>3. StageOf(t) = "returned" /\ StageAt("arrive", man[t]) = "home"
  BY <1>1, Stages DEF StageOf
<1>4. Books!Move(t, "returned", "home") /\ UNCHANGED <<ManBar, TripBar, BillBar>>
  BY <1>1, <1>2, <1>3, SeenMove
<1>5. UNCHANGED CustomerBar
  BY <1>1, <1>2, CustomersStay
<1> QED
  BY <1>1, <1>4, <1>5 DEF Books!Rest, ManBar, TripBar, BillBar, CustomerBar

\* With the bill stored, the customer stored before it enters the books too.
LEMMA SeenBooking ==
  ASSUME IInv, NoCtrlC, NEW t \in Threads, BookIncome(t)
  PROVE  Books!Book(t)
<1>1. /\ pc[t] = "income" /\ pc' = [pc EXCEPT ![t] = "subBegin"]
      /\ income' = [income EXCEPT ![man[t]] = reg[t] + Bill(t)]
      /\ UNCHANGED <<man, sess, time, customer>>
  BY DEF BookIncome, Goto, ThreadAt
<1>2. /\ pc \in [Threads -> Places] /\ man[t] \in Men /\ reg[t] = income[man[t]]
      /\ customer \in [Men -> Nat]
  BY <1>1 DEF IInv, TypeInv, TypeOK, ManChosen, Unchosen, NoCtrlC, RegsFresh
<1>3. StageOf(t) = "out" /\ StageAt("subBegin", man[t]) = "booked"
  BY <1>1, Stages DEF StageOf, Out
<1>4. /\ Books!Move(t, "out", "booked")
      /\ UNCHANGED <<ManBar, TripBar, BillBar>>
      /\ ManBar[t] = man[t] /\ BillBar[t] = Bill(t)
  BY <1>1, <1>2, <1>3, SeenMove
<1>5. CustomerBar' = [CustomerBar EXCEPT ![ManBar[t]] = @ + 1]
  <2>1. ASSUME NEW m \in Men
        PROVE  CustomerBar'[m] = IF m = man[t] THEN CustomerBar[m] + 1 ELSE CustomerBar[m]
    <3>1. /\ Cardinality(At(m, {"income"})) \in Nat /\ IsFiniteSet(At(m, {"income"}))
          /\ IsFiniteSet(At(m, {"income"})') /\ Cardinality(At(m, {"income"})') \in Nat
      BY AtFinite, ThreadsAssumption, FS_Subset, FS_CardinalityType DEF At
    <3>2. customer'[m] = customer[m] /\ customer[m] \in Nat
      BY <1>1, <1>2
    <3>3. CASE m = man[t]
      <4>1. At(m, {"income"}) = At(m, {"income"})' \cup {t} /\ t \notin At(m, {"income"})'
        BY <1>1, <1>2, <3>3 DEF At
      <4>2. Cardinality(At(m, {"income"})) = Cardinality(At(m, {"income"})') + 1
        BY <3>1, <4>1, FS_AddElement
      <4> QED
        BY <3>1, <3>2, <3>3, <4>2 DEF CustomerBar
    <3>4. CASE m # man[t]
      <4>1. At(m, {"income"})' = At(m, {"income"})
        BY <1>1, <1>2, <3>4 DEF At
      <4> QED
        BY <3>2, <3>4, <4>1 DEF CustomerBar
    <3> QED
      BY <3>3, <3>4
  <2> QED
    BY <1>4, <2>1 DEF CustomerBar
<1>6. income' = [income EXCEPT ![ManBar[t]] = @ + BillBar[t]]
  BY <1>1, <1>2, <1>4
<1> QED
  BY <1>1, <1>4, <1>5, <1>6 DEF Books!Book, ManBar, TripBar, BillBar, CustomerBar

\* The trip is added: the order is the man's from here on.
LEMMA SeenAssignment ==
  ASSUME IInv, NoCtrlC, NEW t \in Threads, EndUpdate(t, "add")
  PROVE  Books!Assign(t)
<1>1. /\ pc[t] = "addEnd" /\ pc' = [pc EXCEPT ![t] = "check"]
      /\ time' = [time EXCEPT ![man[t]] = reg[t] + Trip(t)]
      /\ UNCHANGED <<man, sess, income, customer>>
  BY DEF EndUpdate, Goto, ThreadAt, AtEnd, AfterUpdate
<1>2. /\ pc \in [Threads -> Places] /\ man[t] \in Men /\ reg[t] = time[man[t]]
      /\ sess[t].order_shop \in Shops /\ Bill(t) \in Nat
  BY <1>1 DEF IInv, TypeInv, TypeOK, IsSession, ManChosen, Unchosen, NoCtrlC, RegsFresh,
              InUpdate, Bill, Men
<1>3. /\ StageOf(t) = "shopping" /\ StageOf(t)' = "waiting"
      /\ \A u \in Threads \ {t} : StageOf(u)' = StageOf(u)
  BY <1>1, <1>2, Stages DEF StageOf, Shopping, Waiting
<1>4. Books!Move(t, "shopping", "waiting")
  BY <1>3 DEF Books!Move
<1>5. /\ ~ Assigned(t) /\ Assigned(t)'
      /\ \A u \in Threads \ {t} : Assigned(u)' <=> Assigned(u)
  BY <1>3 DEF Assigned
<1>6. \A u \in Threads : Trip(u)' = Trip(u) /\ Bill(u)' = Bill(u)
  BY <1>1 DEF Trip, Bill
<1>7. /\ ManBar' = [ManBar EXCEPT ![t] = man[t]]
      /\ TripBar' = [TripBar EXCEPT ![t] = Trip(t)]
      /\ BillBar' = [BillBar EXCEPT ![t] = BillBar'[t]] /\ BillBar'[t] \in Nat
  BY <1>1, <1>2, <1>5, <1>6 DEF ManBar, TripBar, BillBar
<1>8. UNCHANGED CustomerBar
  BY <1>1, <1>2, CustomersStay
<1>9. /\ Trip(t) = Books!Distance(sess[t].order_shop) /\ sess[t].order_shop \in Books!Shops
      /\ man[t] \in Books!Men
  BY <1>2 DEF Trip, Distance, Books!Distance, Shops, Books!Shops, Men, Books!Men, Dessert,
              Books!Dessert, Beverage, Books!Beverage, Diner, Books!Diner
<1>10. time' = [time EXCEPT ![man[t]] = @ + Books!Distance(sess[t].order_shop)]
  BY <1>1, <1>2, <1>9
<1>11. \E m \in Books!Men, s \in Books!Shops :
         /\ ManBar'  = [ManBar EXCEPT ![t] = m]
         /\ TripBar' = [TripBar EXCEPT ![t] = Books!Distance(s)]
         /\ time'    = [time EXCEPT ![m] = @ + Books!Distance(s)]
  BY <1>7, <1>9, <1>10
<1> QED
  BY <1>1, <1>4, <1>7, <1>8, <1>11, Zenon
  DEF Books!Assign, ManBar, TripBar, BillBar, CustomerBar

-----------------------------------------------------------------------------
LEMMA BooksStep == IInv /\ NoCtrlC /\ [Next]_vars => [Books!Next]_Books!vars
<1> SUFFICES ASSUME IInv, NoCtrlC, [Next]_vars PROVE [Books!Next]_Books!vars
  OBVIOUS
<1>1. ASSUME NEW t \in Threads,
             \/ Accept(t) \/ Take(t) \/ Dispatch(t)
             \/ (\E u \in Updates : BeginUpdate(t, u))
             \/ Check(t) \/ ComeBack(t) \/ Arrive(t) \/ BookCustomer(t)
      PROVE  UNCHANGED Books!vars
  BY <1>1, UnseenSteps, UnseenCustomer
<1>2. ASSUME NEW t \in Threads,
             \/ (\E u \in Updates : EndUpdate(t, u))
             \/ EnterShift(t) \/ BookIncome(t) \/ LeaveShift(t)
      PROVE  Books!Next
  <2>1. \/ Books!Assign(t) \/ Books!Refuse(t) \/ Books!Return(t) \/ Books!Depart(t)
        \/ Books!Book(t) \/ Books!Rest(t)
    BY <1>2, SeenAssignment, SeenRefusal, SeenReturn, SeenDeparture, SeenBooking, SeenRest
    DEF Updates
  <2> QED
    BY <2>1 DEF Books!Next
<1>3. CASE UNCHANGED <<pc, man, sess, time, income, customer>>
  BY <1>3, UnseenRest
<1> QED
  BY <1>1, <1>2, <1>3
  DEF Next, get_order, Work, DeliveryMan1, DeliveryMan2, Delivery, HangUp, ReadFails,
      WriteFails, CopyFails, AcceptFails, Sigint, CtrlCHandler, Destroy, OpenResult,
      OpenFails, AddUp, Total, PrintResult, CloseResult, DeathLeaves, threadVars, shared,
      vars

\* Without Ctrl-C the threads implement the books: an order is assigned to one
\* man, refused or carried out by him alone, and its customer and its bill
\* enter his books once and together (lines 264-386).
THEOREM Refinement ==
  ASSUME "sigint" \notin Env
  PROVE  Spec => ImplementsBooks
<1>1. Init => Books!Init /\ NoCtrlC
  BY BooksStart, NeverCtrlC
<1>2. NoCtrlC /\ [Next]_vars => NoCtrlC'
  BY NeverCtrlC
<1> QED
  BY <1>1, <1>2, Invariance, BooksStep, PTL DEF Spec, ImplementsBooks, Books!Spec
=============================================================================
