------------------------ MODULE TakeawayServer_proofs ------------------------
(***************************************************************************)
(* Proofs about TakeawayServer, for any clients, any lines they type and   *)
(* any number of them.                                                     *)
(***************************************************************************)
EXTENDS TakeawayServer, SequenceTheorems, TLAPS

-----------------------------------------------------------------------------
(* The menus.                                                              *)

\* What the menus hold.
LEMMA Menus ==
  /\ Menu("Dessert shop") = {"cookie", "cake"}
  /\ Menu("Beverage shop") = {"tea", "boba"}
  /\ Menu("Diner") = {"fried-rice", "Egg-drop-soup"}
BY DEF Menu, Item

\* Every meal is on the menu of one shop.
LEMMA MenuOfMeal ==
  /\ \A s \in Shops : \A m \in Menu(s) : m \in Meals /\ ShopOf(m) = s
  /\ \A m \in Meals : ShopOf(m) \in Shops /\ m \in Menu(ShopOf(m))
  /\ "none" \notin Shops
<1>1. "none" \notin Shops
  BY DEF Shops
<1>2. \A s, r \in Shops : \A m \in Menu(s) \cap Menu(r) : s = r
  BY Menus DEF Shops
<1>3. \A m \in Meals : ShopOf(m) \in Shops /\ m \in Menu(ShopOf(m))
  BY DEF Meals, ShopOf
<1>4. \A s \in Shops : \A m \in Menu(s) : m \in Meals
  BY DEF Meals
<1>5. \A s \in Shops : \A m \in Menu(s) : ShopOf(m) = s
  BY <1>2, <1>3, <1>4
<1> QED
  BY <1>1, <1>3, <1>4, <1>5

\* A menu has two meals.
LEMMA TwoMeals ==
  ASSUME NEW s \in Shops
  PROVE  \E m, n : Menu(s) = {m, n}
BY DEF Menu

LEMMA MinOfTwo ==
  ASSUME NEW a \in Nat, NEW b \in Nat
  PROVE  Min({a, b}) \in Nat /\ Min({a, b}) <= a /\ Min({a, b}) <= b
<1>1. \E x \in {a, b} : \A y \in {a, b} : x <= y
  OBVIOUS
<1> QED
  BY <1>1 DEF Min

-----------------------------------------------------------------------------
LEMMA Initial == Init => IInv
<1> SUFFICES ASSUME Init PROVE IInv
  OBVIOUS
<1>1. Streams
  BY DEF Init, Streams, Busy
<1>2. Counted
  BY MenuOfMeal DEF Init, Counted
<1>3. OrderShown
  BY DEF Init, OrderShown
<1>4. \A c \in Clients : read[c] <= MessageSize * Len(replies[c])
  BY DEF Init, MessageSize
<1>5. TypeOK
  BY <1>4, MaxLinesAssumption DEF Init, TypeOK, Busy
<1> QED
  BY <1>1, <1>2, <1>3, <1>5 DEF IInv

\* The session's own part is kept by whatever leaves the session alone.
LEMMA SessionKept ==
  ASSUME IInv, UNCHANGED session
  PROVE  Counted' /\ OrderShown'
BY DEF IInv, session, Counted, OrderShown

-----------------------------------------------------------------------------
(* The clients.                                                            *)

LEMMA ClientStep ==
  ASSUME IInv, NEW c \in Clients, Client(c)
  PROVE  IInv'
<1> USE DEF IInv, serverVars, session, stream, clientVars
<1>1. UNCHANGED <<server, current, quantity, currentRestaurant, currentOrder, accepted, bill>>
  BY DEF Client, Connect, Type, TypeNothing, recieve_response, ReceiveEnd, Leave
<1>2. Counted' /\ OrderShown'
  BY <1>1, SessionKept
<1>3. CASE Connect(c)
  <2>1. /\ pc[c] = "start" /\ pc' = [pc EXCEPT ![c] = "prompt"]
        /\ peer' = [peer EXCEPT ![c] = "here"]
        /\ UNCHANGED <<typed, toServer, replies, read>>
    BY <1>3 DEF Connect
  <2>2. replies[c] = <<>>
    BY <2>1 DEF Streams
  <2>3. TypeOK'
    BY <1>1, <2>1, <2>2 DEF TypeOK, Streams
  <2>4. Streams'
    BY <1>1, <2>1, <2>2 DEF TypeOK, Streams
  <2> QED
    BY <1>2, <2>3, <2>4
<1>4. CASE Type(c)
  <2>1. typed' \in [Clients -> 0 .. MaxLines]
    BY <1>4, MaxLinesAssumption DEF Type, TypeOK
  <2>2. toServer' \in [Clients -> Seq([n : Nat, line : Lines])]
    <3>1. PICK l \in Lines :
            toServer' = IF peer[c] = "here" /\ server # "dead"
                        THEN [toServer EXCEPT ![c] = Append(@, [n |-> typed[c] + 1, line |-> l])]
                        ELSE toServer
      BY <1>4 DEF Type
    <3> DEFINE x == [n |-> typed[c] + 1, line |-> l]
    <3>2. x \in [n : Nat, line : Lines]
      BY MaxLinesAssumption DEF TypeOK
    <3>3. toServer[c] \in Seq([n : Nat, line : Lines])
      BY DEF Streams
    <3>4. Append(toServer[c], x) \in Seq([n : Nat, line : Lines])
      BY <3>2, <3>3, AppendProperties
    <3> HIDE DEF x
    <3> QED
      BY <3>1, <3>4 DEF Streams, x
  <2>3. /\ pc[c] = "prompt" /\ pc' = [pc EXCEPT ![c] = "await"]
        /\ UNCHANGED <<replies, read, peer>>
    BY <1>4 DEF Type
  <2>4. TypeOK'
    BY <1>1, <2>1, <2>3 DEF TypeOK
  <2>5. Streams'
    BY <1>1, <2>2, <2>3 DEF TypeOK, Streams
  <2> QED
    BY <1>2, <2>4, <2>5
<1>5. CASE TypeNothing(c)
  <2>1. typed' \in [Clients -> 0 .. MaxLines]
    BY <1>5, MaxLinesAssumption DEF TypeNothing, TypeOK
  <2>2. /\ pc[c] = "prompt" /\ pc' = [pc EXCEPT ![c] = "await"]
        /\ UNCHANGED <<toServer, replies, read, peer>>
    BY <1>5 DEF TypeNothing
  <2>3. TypeOK'
    BY <1>1, <2>1, <2>2 DEF TypeOK
  <2>4. Streams'
    BY <1>1, <2>2 DEF TypeOK, Streams
  <2> QED
    BY <1>2, <2>3, <2>4
<1>6. CASE recieve_response(c)
  <2> DEFINE n == Min({RecvSize, Unread(c)})
  <2>1. n \in Nat /\ n <= Unread(c)
    <3>1. Len(replies[c]) \in Nat /\ read[c] \in Nat /\ read[c] <= MessageSize * Len(replies[c])
      BY DEF TypeOK, Streams
    <3>2. Unread(c) \in Nat /\ RecvSize \in Nat
      BY <3>1 DEF Unread, MessageSize, RecvSize
    <3> QED
      BY <3>2, MinOfTwo
  <2>2. read' = [read EXCEPT ![c] = @ + n] /\ replies' = replies
    BY <1>6 DEF recieve_response
  <2>3. \A d \in Clients : read'[d] <= MessageSize * Len(replies'[d])
    <3>1. \A d \in Clients : Len(replies[d]) \in Nat /\ read[d] \in Nat
                            /\ read[d] <= MessageSize * Len(replies[d])
      BY DEF Streams, TypeOK
    <3>2. read[c] + n <= MessageSize * Len(replies[c])
      BY <2>1, <3>1 DEF Unread, MessageSize
    <3> HIDE DEF n
    <3> QED
      BY <2>2, <3>1, <3>2 DEF Streams
  <2>4. read' \in [Clients -> Nat]
    BY <2>1, <2>2 DEF Streams
  <2>5. pc[c] = "await" /\ pc' = [pc EXCEPT ![c] = "prompt"] /\ UNCHANGED <<typed, toServer, peer>>
    BY <1>6 DEF recieve_response
  <2>6. TypeOK'
    BY <1>1, <2>2, <2>3, <2>5 DEF TypeOK
  <2>9. Streams'
    BY <1>1, <2>2, <2>4, <2>5 DEF TypeOK, Streams
  <2> QED
    BY <1>2, <2>6, <2>9
<1>7. CASE ReceiveEnd(c) \/ Leave(c)
  <2>1. /\ pc[c] # "start"
        /\ \E l \in {"prompt", "left"} : pc' = [pc EXCEPT ![c] = l]
    BY <1>7 DEF ReceiveEnd, Leave
  <2>9. typed' = typed /\ toServer' = toServer /\ replies' = replies /\ read' = read
    BY <1>7 DEF ReceiveEnd, Leave
  <2>2. \/ peer' = peer
        \/ peer[c] = "here" /\ peer' = [peer EXCEPT ![c] = "left"]
    BY <1>7 DEF ReceiveEnd, Leave, TypeOK
  <2>3. pc' \in [Clients -> {"start", "prompt", "await", "left"}]
        /\ \A d \in Clients : pc'[d] = "start" => pc[d] = "start" /\ d # c
    BY <2>1 DEF TypeOK
  <2>4. peer' \in [Clients -> {"none", "here", "left", "reset", "closed"}]
        /\ \A d \in Clients : /\ peer[d] = "closed" => peer'[d] = "closed"
                              /\ d # c => peer'[d] = peer[d]
    BY <2>2 DEF TypeOK
  <2>5. TypeOK'
    BY <1>1, <2>9, <2>3, <2>4 DEF TypeOK
  <2>6. Streams'
    BY <1>1, <2>9, <2>3, <2>4 DEF Streams
  <2> QED
    BY <1>2, <2>5, <2>6
<1> QED
  BY <1>3, <1>4, <1>5, <1>6, <1>7 DEF Client

-----------------------------------------------------------------------------
(* The server.                                                             *)

\* Nobody who waits to be accepted has been replied to.
LEMMA AcceptStep ==
  ASSUME IInv, NEW c \in Clients, Accept(c)
  PROVE  IInv'
<1> USE DEF IInv, clientVars, stream
<1>1. TypeOK'
  BY DEF Accept, TypeOK, Busy
<1>2. Streams'
  BY DEF Accept, TypeOK, Streams, Busy
<1>3. Counted'
  BY MenuOfMeal DEF Accept, Counted
<1>4. OrderShown'
  BY DEF Accept, OrderShown
<1> QED
  BY <1>1, <1>2, <1>3, <1>4

\* What was read is the lines that were sent, and leaves nothing unread.
LEMMA ReadsType ==
  ASSUME IInv, NEW c \in Clients, NEW word, Reads(c, word)
  PROVE  /\ server = "serve" /\ current = c
         /\ toServer' \in [Clients -> Seq([n : Nat, line : Lines])]
         /\ Head(toServer[c]) \in [n : Nat, line : Lines]
<1>1. toServer[c] \in Seq([n : Nat, line : Lines]) /\ toServer[c] # <<>>
  BY DEF IInv, Streams, Reads
<1>2. Head(toServer[c]) \in [n : Nat, line : Lines]
  BY <1>1, HeadTailProperties
<1>3. <<>> \in Seq([n : Nat, line : Lines])
  OBVIOUS
<1>4. toServer' \in [Clients -> Seq([n : Nat, line : Lines])]
  BY <1>3 DEF IInv, Streams, Reads
<1> QED
  BY <1>2, <1>4 DEF Reads

\* A reply keeps the streams in order, whatever becomes of the session.
LEMMA ReplyKeeps ==
  ASSUME IInv, NEW c \in Clients, NEW r \in Nat, NEW then \in Busy, Reply(c, r, then),
         server \in Busy, current = c, bill' = bill,
         UNCHANGED <<current, pc, typed, read>>,
         toServer' \in [Clients -> Seq([n : Nat, line : Lines])],
         quantity' \in [Meals -> Nat],
         currentRestaurant' \in Shops \cup {"none"},
         currentRestaurant' = "none" => currentOrder' = Empty,
         currentRestaurant' # "none" => DOMAIN currentOrder' \subseteq Menu(currentRestaurant'),
         accepted' \in [Meals -> Nat]
  PROVE  TypeOK' /\ Streams'
<1> USE DEF IInv
<1>1. server' \in Busy \cup {"dead"} /\ server' # "accept"
  BY DEF Reply, Send, Busy
<1>2. peer' \in [Clients -> {"none", "here", "left", "reset", "closed"}]
      /\ \A d \in Clients \ {c} : peer'[d] = peer[d]
  BY DEF Reply, TypeOK
<1>a. \/ replies' = replies
      \/ replies' = [replies EXCEPT ![c] = Append(@, r)]
  BY DEF Reply, Send
<1>3. replies' \in [Clients -> Seq(Nat)]
  <2>1. Append(replies[c], r) \in Seq(Nat)
    BY AppendProperties DEF Streams
  <2> QED
    BY <1>a, <2>1 DEF Streams
<1>4. \A d \in Clients \ {c} : replies'[d] = replies[d]
  BY <1>a DEF Streams
<1>5. Len(replies'[c]) \in {Len(replies[c]), Len(replies[c]) + 1}
  BY <1>a DEF Streams
<1>6. \A d \in Clients : read'[d] <= MessageSize * Len(replies'[d])
  <2>1. \A d \in Clients : Len(replies[d]) \in Nat /\ read[d] \in Nat
                          /\ read[d] <= MessageSize * Len(replies[d])
    BY DEF Streams, TypeOK
  <2>2. \A d \in Clients : Len(replies'[d]) \in {Len(replies[d]), Len(replies[d]) + 1}
    BY <1>4, <1>5
  <2>3. ASSUME NEW k \in Nat, NEW l \in {k, k + 1}, NEW b \in Nat, b <= MessageSize * k
        PROVE  b <= MessageSize * l
    BY <2>3 DEF MessageSize
  <2>4. read' = read
    OBVIOUS
  <2> QED
    BY <2>1, <2>2, <2>3, <2>4
<1>7. TypeOK'
  BY <1>1, <1>2, <1>6 DEF TypeOK
<1>8. pc[c] # "start"
  BY DEF Streams
<1>9. Streams'
  <2>1. \A d \in Clients \ {c} : replies[d] # <<>> => peer[d] = "closed"
    BY DEF Streams, Busy
  <2>2. \/ server' \in Busy /\ current' = c
        \/ server' = "dead"
    BY <1>1
  <2>3. ASSUME NEW d \in Clients
        PROVE  /\ pc'[d] = "start" =>
                     replies'[d] = <<>> /\ peer'[d] = "none" /\ (server' \in Busy => current' # d)
               /\ replies'[d] # <<>> =>
                     \/ peer'[d] = "closed"
                     \/ server' = "dead"
                     \/ server' \in Busy /\ current' = d
    <3>1. CASE d = c
      BY <1>8, <2>2, <3>1
    <3>2. CASE d # c
      <4>1. pc[d] = "start" => replies[d] = <<>> /\ peer[d] = "none"
        BY DEF Streams
      <4> QED
        BY <1>2, <1>4, <2>1, <3>2, <4>1
    <3> QED
      BY <3>1, <3>2
  <2>4. read' \in [Clients -> Nat]
    BY DEF Streams
  <2> QED
    BY <1>3, <2>3, <2>4 DEF Streams
<1> QED
  BY <1>7, <1>9

\* The text sent for an order names all that was ordered, the meal just ordered
\* with it: a second meal is only left out while there is none of it.
LEMMA OrderTextShows ==
  ASSUME IInv, NEW m \in Meals, NEW n \in Nat, n > 0, SomeOfEach,
         currentRestaurant \in {"none", ShopOf(m)}
  PROVE  LET q == [quantity EXCEPT ![m] = @ + n]
             text == OrderText(m, q)
         IN  \A i \in Meals :
               ShopOf(i) = ShopOf(m) /\ q[i] # 0 => i \in DOMAIN text /\ text[i] = q[i]
<1> DEFINE q == [quantity EXCEPT ![m] = @ + n]
           s == ShopOf(m)
           text == OrderText(m, q)
<1> USE DEF IInv
<1>1. q \in [Meals -> Nat] /\ q[m] # 0 /\ \A i \in Meals \ {m} : q[i] = quantity[i]
  BY DEF TypeOK
<1>2. s \in Shops /\ m \in Menu(s) /\ \A i \in Meals : ShopOf(i) = s => i \in Menu(s)
  BY MenuOfMeal
<1>3. PICK a, b : Menu(s) = {a, b}
  BY <1>2, TwoMeals
<1>4. Menu(s) \subseteq Meals
  BY <1>2, MenuOfMeal
<1>5. CASE currentOrder # Empty /\ \A i \in Menu(s) : q[i] # 0
  <2>1. text = [i \in Menu(s) |-> q[i]]
    BY <1>5 DEF OrderText
  <2> QED
    BY <1>2, <2>1
<1>6. CASE ~ (currentOrder # Empty /\ \A i \in Menu(s) : q[i] # 0)
  <2>1. text = [i \in {m} |-> q[i]]
    BY <1>6 DEF OrderText
  <2>2. \A i \in Menu(s) : i # m => q[i] = 0
    <3>1. CASE currentOrder = Empty
      <4>1. currentRestaurant = "none"
        BY <3>1 DEF Counted
      <4> QED
        BY <1>1, <1>4, <4>1 DEF Counted
    <3>2. CASE currentOrder # Empty
      <4>1. \E i \in Menu(s) : q[i] = 0
        BY <1>6, <3>2
      <4> QED
        BY <1>1, <1>2, <1>3, <4>1
    <3> QED
      BY <3>1, <3>2
  <2> QED
    BY <1>2, <2>1, <2>2
<1> QED
  BY <1>5, <1>6

LEMMA OrderStep ==
  ASSUME IInv, NEW c \in Clients, Order(c)
  PROVE  IInv'
<1> USE DEF IInv, clientVars
<1> DEFINE r == Head(toServer[c])
           m == r.line.meal
           q == [quantity EXCEPT ![m] = @ + r.line.quantity]
<1>1. /\ Reads(c, "order") /\ m \in Meals /\ quantity' = q /\ Reply(c, r.n, "serve")
      /\ UNCHANGED <<current, bill, pc, typed, shown, read>>
  BY DEF Order
<1>2. \/ /\ currentRestaurant \in {"none", ShopOf(m)}
         /\ currentRestaurant' = ShopOf(m)
         /\ currentOrder' = OrderText(m, q)
         /\ accepted' = [accepted EXCEPT ![m] = @ + r.line.quantity]
      \/ /\ currentRestaurant \notin {"none", ShopOf(m)}
         /\ UNCHANGED <<currentRestaurant, currentOrder, accepted>>
  BY DEF Order
<1>3. /\ server = "serve" /\ current = c
      /\ toServer' \in [Clients -> Seq([n : Nat, line : Lines])]
      /\ r \in [n : Nat, line : Lines]
  BY <1>1, ReadsType
<1>4. r.n \in Nat /\ r.line \in Lines /\ r.line.quantity \in Nat
  BY <1>3, LinesAssumption DEF Line
<1>5. r.line.word = "order"
  BY <1>1 DEF Reads, Understood
<1> HIDE DEF r
<1>6. q \in [Meals -> Nat] /\ accepted' \in [Meals -> Nat]
  <2>1. quantity \in [Meals -> Nat] /\ accepted \in [Meals -> Nat]
    BY DEF TypeOK
  <2>2. m \in Meals
    BY <1>1
  <2> DEFINE n == r.line.quantity
  <2>3. n \in Nat
    BY <1>4
  <2>4. q = [quantity EXCEPT ![m] = @ + n]
    OBVIOUS
  <2>5. accepted' = accepted \/ accepted' = [accepted EXCEPT ![m] = @ + n]
    BY <1>2
  <2> HIDE DEF m, n, q
  <2>6. \A f \in [Meals -> Nat] : [f EXCEPT ![m] = @ + n] \in [Meals -> Nat]
    BY <2>2, <2>3
  <2> QED
    BY <2>1, <2>4, <2>5, <2>6
<1>7. ShopOf(m) \in Shops /\ m \in Menu(ShopOf(m)) /\ ShopOf(m) # "none"
  BY <1>1, MenuOfMeal
<1>8. OrderText(m, q) # Empty /\ DOMAIN OrderText(m, q) \subseteq Menu(ShopOf(m))
      /\ m \in DOMAIN OrderText(m, q)
  BY <1>7 DEF OrderText, Empty
<1>9. /\ currentRestaurant' \in Shops \cup {"none"} /\ currentRestaurant' # "none"
      /\ DOMAIN currentOrder' \subseteq Menu(currentRestaurant')
      /\ currentOrder' # Empty
  BY <1>2, <1>7, <1>8 DEF TypeOK, Counted
<1>10. TypeOK' /\ Streams'
  <2>1. "serve" \in Busy
    BY DEF Busy
  <2> QED
    BY <1>1, <1>3, <1>4, <1>6, <1>9, <2>1, ReplyKeeps
<1>11. Counted'
  <2>1. ASSUME NEW i \in Meals
        PROVE  accepted'[i] = IF ShopOf(i) = currentRestaurant' THEN q[i] ELSE 0
    <3>1. /\ accepted[i] = IF ShopOf(i) = currentRestaurant THEN quantity[i] ELSE 0
          /\ currentRestaurant = "none" => quantity[i] = 0
      BY DEF Counted
    <3>2. q[i] = IF i = m THEN quantity[i] + r.line.quantity ELSE quantity[i]
      BY <1>1 DEF TypeOK
    <3>3. CASE currentRestaurant \in {"none", ShopOf(m)}
      <4>1. accepted'[i] = IF i = m THEN accepted[i] + r.line.quantity ELSE accepted[i]
        BY <1>2, <3>3 DEF TypeOK
      <4>2. currentRestaurant' = ShopOf(m)
        BY <1>2, <3>3
      <4>3. ShopOf(i) # "none"
        BY MenuOfMeal
      <4> HIDE DEF q, m
      <4>4. accepted[i] = IF ShopOf(i) = ShopOf(m) THEN quantity[i] ELSE 0
        BY <3>1, <3>3, <4>3
      <4> QED
        BY <3>2, <4>1, <4>2, <4>4
    <3>4. CASE currentRestaurant \notin {"none", ShopOf(m)}
      BY <1>2, <3>1, <3>2, <3>4
    <3> QED
      BY <3>3, <3>4
  <2> QED
    BY <1>1, <1>9, <2>1 DEF Counted
<1>12. OrderShown'
  <2> SUFFICES ASSUME SomeOfEach, NEW i \in Meals, accepted'[i] # 0
               PROVE  i \in DOMAIN currentOrder' /\ currentOrder'[i] = accepted'[i]
    BY DEF OrderShown
  <2>1. CASE currentRestaurant \in {"none", ShopOf(m)}
    <3>1. currentRestaurant' = ShopOf(m) /\ currentOrder' = OrderText(m, q)
      BY <1>2, <2>1
    <3>2. ShopOf(i) = ShopOf(m) /\ accepted'[i] = q[i]
      BY <1>1, <1>11, <3>1 DEF Counted
    <3>3. r.line.quantity > 0
      BY <1>4, <1>5 DEF SomeOfEach
    <3> QED
      BY <1>1, <1>4, <2>1, <3>1, <3>2, <3>3, OrderTextShows
  <2>2. CASE currentRestaurant \notin {"none", ShopOf(m)}
    BY <1>2, <2>2 DEF OrderShown
  <2> QED
    BY <2>1, <2>2
<1> QED
  BY <1>10, <1>11, <1>12

\* The other lines leave the order as it is.
LEMMA OtherStep ==
  ASSUME IInv, NEW c \in Clients,
         OrderUnknown(c) \/ sendShopList(c) \/ ConfirmNothing(c) \/ Other(c)
  PROVE  IInv'
<1> USE DEF IInv, clientVars, serverVars, session
<1> DEFINE r == Head(toServer[c]).n
<1>1. PICK word : Reads(c, word)
  BY DEF OrderUnknown, sendShopList, ConfirmNothing, Other
<1>2. /\ server = "serve" /\ current = c
      /\ toServer' \in [Clients -> Seq([n : Nat, line : Lines])]
      /\ r \in Nat
  BY <1>1, ReadsType
<1>3. UNCHANGED <<current, quantity, currentRestaurant, currentOrder, accepted, bill, pc, typed, read>>
  BY DEF OrderUnknown, sendShopList, ConfirmNothing, Other
<1>4. Counted' /\ OrderShown'
  BY <1>3, SessionKept
<1>5. CASE Reply(c, r, "serve")
  <2>1. TypeOK' /\ Streams'
    BY <1>2, <1>3, <1>5, ReplyKeeps DEF TypeOK, Busy
  <2> QED
    BY <1>4, <2>1
<1>6. CASE UNCHANGED <<server, replies, peer>>
  <2>1. TypeOK'
    BY <1>3, <1>6 DEF TypeOK
  <2>2. Streams'
    BY <1>2, <1>3, <1>6 DEF Streams
  <2> QED
    BY <1>4, <2>1, <2>2
<1> QED
  BY <1>5, <1>6 DEF OrderUnknown, sendShopList, ConfirmNothing, Other

\* The server that cannot accept is gone, and nobody is being served.
LEMMA AcceptFailsStep ==
  ASSUME IInv, AcceptFails
  PROVE  IInv'
<1> USE DEF IInv, clientVars, stream, session
<1>1. UNCHANGED <<current, quantity, currentRestaurant, currentOrder, accepted, bill, pc, typed,
                  toServer, replies, read, peer>>
      /\ server' = "dead"
  BY DEF AcceptFails
<1>2. TypeOK'
  BY <1>1 DEF TypeOK, Busy
<1>3. Streams'
  BY <1>1 DEF Streams, Busy
<1>4. Counted' /\ OrderShown'
  BY <1>1, SessionKept
<1> QED
  BY <1>2, <1>3, <1>4

\* A confirmed order: its line is kept for the two answers.
LEMMA ConfirmStep ==
  ASSUME IInv, NEW c \in Clients, check_order(c)
  PROVE  IInv'
<1> USE DEF IInv, clientVars, session
<1>1. /\ server = "serve" /\ current = c
      /\ toServer' \in [Clients -> Seq([n : Nat, line : Lines])]
      /\ Head(toServer[c]).n \in Nat
  BY ReadsType DEF check_order
<1>2. /\ server' = "sleep" /\ bill'.line = Head(toServer[c]).n
      /\ UNCHANGED <<current, quantity, currentRestaurant, currentOrder, accepted, pc, typed,
                     replies, read, peer>>
  BY DEF check_order
<1>3. TypeOK'
  BY <1>1, <1>2 DEF TypeOK, Busy
<1>4. Streams'
  BY <1>1, <1>2 DEF Streams, Busy
<1>5. Counted' /\ OrderShown'
  BY <1>2, SessionKept
<1> QED
  BY <1>3, <1>4, <1>5

LEMMA WaitStep ==
  ASSUME IInv, NEW c \in Clients, SendWait(c)
  PROVE  IInv'
<1> USE DEF IInv, clientVars, session
<1>1. /\ server \in Busy /\ current = c /\ "arrived" \in Busy /\ bill.line \in Nat
      /\ Reply(c, bill.line, "arrived")
      /\ UNCHANGED <<current, quantity, currentRestaurant, currentOrder, accepted, bill, pc,
                     typed, toServer, read>>
  BY DEF SendWait, Busy, TypeOK
<1>2. TypeOK' /\ Streams'
  BY <1>1, ReplyKeeps DEF TypeOK, Streams
<1>3. Counted' /\ OrderShown'
  BY <1>1, SessionKept
<1> QED
  BY <1>2, <1>3

\* A session that is over leaves its socket closed.
LEMMA CloseStep ==
  ASSUME IInv, NEW c \in Clients, SendPrice(c) \/ Cancel(c)
  PROVE  IInv'
<1> USE DEF IInv, clientVars, session
<1>1. /\ server \in Busy /\ current = c
      /\ toServer' \in [Clients -> Seq([n : Nat, line : Lines])]
      /\ bill.line \in Nat
  <2>1. CASE SendPrice(c)
    <3>1. <<>> \in Seq([n : Nat, line : Lines])
      OBVIOUS
    <3> QED
      BY <2>1, <3>1 DEF SendPrice, Busy, TypeOK, Streams
  <2>2. CASE Cancel(c)
    BY <2>2, ReadsType DEF Cancel, Busy, TypeOK
  <2> QED
    BY <2>1, <2>2
<1>2. /\ UNCHANGED <<quantity, currentRestaurant, currentOrder, accepted, bill, pc, typed, read>>
      /\ current' = Nobody
      /\ peer' = [peer EXCEPT ![c] = "closed"]
      /\ server' \in {"accept", "dead"}
      /\ replies' = replies \/ replies' = [replies EXCEPT ![c] = Append(@, bill.line)]
  BY DEF SendPrice, Send, Cancel, Close
<1>3. Counted' /\ OrderShown'
  BY <1>2, SessionKept
<1>4. Append(replies[c], bill.line) \in Seq(Nat)
      /\ Len(Append(replies[c], bill.line)) = Len(replies[c]) + 1
  BY <1>1, AppendProperties DEF Streams
<1>5. replies' \in [Clients -> Seq(Nat)] /\ \A d \in Clients \ {c} : replies'[d] = replies[d]
  BY <1>2, <1>4 DEF Streams
<1>6. Len(replies'[c]) \in {Len(replies[c]), Len(replies[c]) + 1}
  BY <1>2, <1>4 DEF Streams
<1>7. \A d \in Clients : read'[d] <= MessageSize * Len(replies'[d])
  <2>1. \A d \in Clients : Len(replies[d]) \in Nat /\ read[d] \in Nat
                          /\ read[d] <= MessageSize * Len(replies[d])
    BY DEF Streams, TypeOK
  <2>2. ASSUME NEW k \in Nat, NEW l \in {k, k + 1}, NEW b \in Nat, b <= MessageSize * k
        PROVE  b <= MessageSize * l
    BY <2>2 DEF MessageSize
  <2>3. \A d \in Clients : Len(replies'[d]) \in {Len(replies[d]), Len(replies[d]) + 1}
    BY <1>5, <1>6
  <2>4. read' = read
    BY <1>2
  <2> QED
    BY <2>1, <2>2, <2>3, <2>4
<1>8. /\ peer' \in [Clients -> {"none", "here", "left", "reset", "closed"}]
      /\ peer'[c] = "closed"
      /\ \A d \in Clients \ {c} : peer'[d] = peer[d]
  BY <1>2 DEF TypeOK
<1>9. \A d \in Clients \ {c} : replies[d] # <<>> => peer[d] = "closed"
  BY <1>1 DEF Streams, Busy
<1>10. \A d \in Clients : replies'[d] # <<>> => peer'[d] = "closed"
  BY <1>5, <1>8, <1>9
<1>11. TypeOK'
  <2>1. \A d \in Clients : Len(replies'[d]) > 0 => replies'[d] # <<>>
    OBVIOUS
  <2> QED
    BY <1>2, <1>7, <1>8, <1>10, <2>1 DEF TypeOK, Busy
<1>12. Streams'
  <2>1. pc[c] # "start"
    BY <1>1 DEF Streams
  <2>2. server' \notin Busy
    BY <1>2 DEF Busy
  <2> QED
    BY <1>1, <1>2, <1>5, <1>8, <1>10, <2>1, <2>2 DEF Streams
<1> QED
  BY <1>3, <1>11, <1>12

-----------------------------------------------------------------------------
LEMMA Step == IInv /\ [Next]_vars => IInv'
<1> SUFFICES ASSUME IInv, [Next]_vars PROVE IInv'
  OBVIOUS
<1>1. ASSUME NEW c \in Clients, Client(c) \/ Accept(c) \/ handle_order(c) PROVE IInv'
  BY <1>1, ClientStep, AcceptStep, OrderStep, OtherStep, ConfirmStep, WaitStep, CloseStep
  DEF handle_order
<1>2. CASE UNCHANGED vars
  <2>1. UNCHANGED <<server, current, quantity, currentRestaurant, currentOrder, accepted,
                    bill, pc, typed, toServer, replies, read, peer>>
    BY <1>2 DEF vars, serverVars, session, clientVars, stream
  <2>2. Counted' /\ OrderShown'
    BY <2>1, SessionKept DEF session
  <2> QED
    BY <2>1, <2>2 DEF IInv, TypeOK, Streams
<1> QED
  BY <1>1, <1>2, AcceptFailsStep DEF Next

\* One client is served at a time, the others are not replied to before they
\* are accepted nor after they are closed, and the table of meals agrees with
\* what was ordered in the shop of the first order (hw2_server.c:73-118).
THEOREM Invariance == Spec => []IInv
BY Initial, Step, PTL DEF Spec

\* The text last sent names all that was ordered, in the quantities that will be
\* paid for (hw2_server.c:153-170).
THEOREM AllShown == Spec => []OrderShown
<1>1. IInv => OrderShown
  BY DEF IInv
<1> QED
  BY <1>1, Invariance, PTL
-----------------------------------------------------------------------------
(* The bill.                                                               *)

\* The prices are those of the menus, and a shop's own items are its menu.
LEMMA PriceType ==
  ASSUME NEW s \in Shops, NEW q \in [Meals -> Nat]
  PROVE  TotalPrice(s, q) \in Nat
<1>1. \A m \in Meals : Price(m) \in Nat
  BY Menus DEF Meals, Shops, Price
<1>2. Item(s)[1] \in Meals /\ Item(s)[2] \in Meals
  BY MenuOfMeal DEF Menu
<1>3. ASSUME NEW a \in Nat, NEW b \in Nat, NEW d \in Nat, NEW e \in Nat
      PROVE  a * b + d * e \in Nat
  BY <1>3
<1> QED
  BY <1>1, <1>2, <1>3 DEF TotalPrice

\* Nothing ordered costs nothing.
LEMMA PriceOfNothing ==
  ASSUME NEW s \in Shops, NEW q \in [Meals -> Nat], \A m \in Menu(s) : q[m] = 0
  PROVE  TotalPrice(s, q) = 0
<1>1. \A m \in Meals : Price(m) \in Nat
  BY Menus DEF Meals, Shops, Price
<1>2. /\ Item(s)[1] \in Meals /\ Item(s)[2] \in Meals
      /\ q[Item(s)[1]] = 0 /\ q[Item(s)[2]] = 0
  BY MenuOfMeal DEF Menu
<1>3. ASSUME NEW a \in Nat, NEW d \in Nat PROVE a * 0 + d * 0 = 0
  BY <1>3
<1> QED
  BY <1>1, <1>2, <1>3 DEF TotalPrice

LEMMA BillInitial == Init => BillMatchesOrders
<1> SUFFICES ASSUME Init PROVE BillMatchesOrders
  OBVIOUS
<1>1. bill.price = 0 /\ bill.for \in [Meals -> Nat] /\ \A m \in Meals : bill.for[m] = 0
  BY DEF Init
<1>2. \A s \in Shops : TotalPrice(s, bill.for) = 0
  BY <1>1, PriceOfNothing, MenuOfMeal
<1> DEFINE a == TotalPrice("Dessert shop", bill.for)
           b == TotalPrice("Beverage shop", bill.for)
           d == TotalPrice("Diner", bill.for)
<1>3. a = 0 /\ b = 0 /\ d = 0
  BY <1>2 DEF Shops
<1>4. BillMatchesOrders <=> bill.price = a + b + d
  BY DEF BillMatchesOrders
<1> HIDE DEF a, b, d
<1> QED
  BY <1>1, <1>3, <1>4

\* The bill is of one shop's menu, and nothing of the others was accepted.
LEMMA BillOfShop ==
  ASSUME IInv, NEW c \in Clients, check_order(c)
  PROVE  BillMatchesOrders'
<1> DEFINE p == TotalPrice(currentRestaurant, accepted)
<1>1. /\ bill' = [line |-> Head(toServer[c]).n, price |-> TotalPrice(currentRestaurant, quantity),
                  for |-> accepted]
      /\ currentRestaurant # "none"
  BY DEF check_order
<1>2. currentRestaurant \in Shops /\ accepted \in [Meals -> Nat]
  BY <1>1 DEF IInv, TypeOK
<1>3. \A m \in Menu(currentRestaurant) : accepted[m] = quantity[m]
  BY <1>2, MenuOfMeal DEF IInv, Counted
<1>4. TotalPrice(currentRestaurant, quantity) = p
  BY <1>3 DEF TotalPrice, Menu
<1>5. ASSUME NEW s \in Shops, s # currentRestaurant PROVE TotalPrice(s, accepted) = 0
  <2>1. \A m \in Menu(s) : accepted[m] = 0
    BY <1>5, MenuOfMeal DEF IInv, Counted
  <2> QED
    BY <1>2, <2>1, PriceOfNothing
<1>6. p \in Nat
  BY <1>2, PriceType
<1>7. bill'.price = p /\ bill'.for = accepted
  BY <1>1, <1>4
<1>8. TotalPrice("Dessert shop", accepted) + TotalPrice("Beverage shop", accepted)
        + TotalPrice("Diner", accepted) = p
  <2> DEFINE a == TotalPrice("Dessert shop", accepted)
             b == TotalPrice("Beverage shop", accepted)
             d == TotalPrice("Diner", accepted)
  <2> HIDE DEF p
  <2>1. /\ a = IF currentRestaurant = "Dessert shop" THEN p ELSE 0
        /\ b = IF currentRestaurant = "Beverage shop" THEN p ELSE 0
        /\ d = IF currentRestaurant = "Diner" THEN p ELSE 0
    BY <1>5 DEF Shops, p
  <2>2. a + b + d = p
    <3> HIDE DEF a, b, d
    <3>1. \/ a = p /\ b = 0 /\ d = 0
          \/ a = 0 /\ b = p /\ d = 0
          \/ a = 0 /\ b = 0 /\ d = p
      BY <1>2, <2>1, Zenon DEF Shops
    <3> QED
      BY <1>6, <3>1
  <2> QED
    BY <2>2
<1> QED
  BY <1>7, <1>8 DEF BillMatchesOrders, TotalPrice

LEMMA BillStep == IInv /\ BillMatchesOrders /\ [Next]_vars => BillMatchesOrders'
<1> SUFFICES ASSUME IInv, BillMatchesOrders, [Next]_vars PROVE BillMatchesOrders'
  OBVIOUS
<1>1. CASE UNCHANGED bill
  BY <1>1 DEF BillMatchesOrders, TotalPrice
<1>2. CASE \E c \in Clients : check_order(c)
  BY <1>2, BillOfShop
<1>3. UNCHANGED bill \/ \E c \in Clients : check_order(c)
  BY DEF Next, vars, serverVars, Client, Connect, Type, TypeNothing, recieve_response,
         ReceiveEnd, Leave, Accept, AcceptFails, handle_order, OrderUnknown, Order,
         sendShopList, ConfirmNothing, SendWait, SendPrice, Cancel, Other
<1> QED
  BY <1>1, <1>2, <1>3

\* A bill is the price of what the client ordered from the shop of its first
\* order, whatever else the server counted (hw2_server.c:142, 225-227).
THEOREM BillRight == Spec => []BillMatchesOrders
<1>1. IInv /\ IInv' /\ BillMatchesOrders /\ [Next]_vars => BillMatchesOrders'
  BY BillStep
<1> QED
  BY <1>1, Invariance, BillInitial, PTL DEF Spec

=============================================================================
