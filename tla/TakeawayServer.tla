--------------------------- MODULE TakeawayServer ---------------------------
(***************************************************************************)
(* The takeaway server of hw2 (hw2_server.c) and its client                *)
(* (clinet_test.c).  The server serves one connection at a time: it reads a *)
(* line, handles it, and reads the next until the order is delivered or     *)
(* cancelled.  A client types a line, sends it and shows one response.      *)
(*                                                                         *)
(* The connection is a stream.  What the client sent is read by the server  *)
(* in one piece, however many lines it is.  The server sends its replies as *)
(* MessageSize bytes, a text and zeros, and the client reads at most        *)
(* RecvSize of them at a time, so what is left of a message counts.         *)
(***************************************************************************)
EXTENDS Integers, Sequences, FiniteSetsExt

CONSTANTS
    Clients,    \* the client processes
    Nobody,     \* no client
    Lines,      \* what a user may type, see Line
    MaxLines    \* a user types at most that many lines

MessageSize == 256      \* the third argument of the server's send
RecvSize    == 255      \* sizeof(buffer) - 1 in recieve_response

\* A line: "order", "confirm", "shop list", "cancel", or "other" for a line the
\* server does not know.  Only an order names a meal and a quantity.
Line == [word : {"order", "confirm", "shop list", "cancel", "other"},
         meal : STRING, quantity : Nat]

ASSUME LinesAssumption == Lines \subseteq Line
ASSUME NobodyAssumption == Nobody \notin Clients
ASSUME MaxLinesAssumption == MaxLines \in Nat

\* The shops and their menus of two meals (hw2_server.c:75-79).
Shops == {"Dessert shop", "Beverage shop", "Diner"}
Item(s) == CASE s = "Dessert shop"  -> <<"cookie", "cake">>
             [] s = "Beverage shop" -> <<"tea", "boba">>
             [] s = "Diner"         -> <<"fried-rice", "Egg-drop-soup">>
Menu(s) == {Item(s)[1], Item(s)[2]}
Meals == UNION {Menu(s) : s \in Shops}
Price(m) == CASE m = "cookie"     -> 60  [] m = "cake"          -> 80
              [] m = "tea"        -> 40  [] m = "boba"          -> 70
              [] m = "fried-rice" -> 120 [] m = "Egg-drop-soup" -> 50
ShopOf(m) == CHOOSE s \in Shops : m \in Menu(s)

Empty == [m \in {} |-> 0]

VARIABLES
    server,             \* "accept", "serve", in check_order, or "dead"
    current,            \* the client being served
    quantity,           \* shops[].menu[].quantity
    currentRestaurant,  \* the shop of the order, "none" before the first
    currentOrder,       \* the order as the text last sent shows it
    accepted,           \* history: what was ordered from that shop
    bill,               \* the last price of check_order; history: the line it
                        \* answers, and what it is for
    pc,                 \* where each client stands
    typed,              \* how many lines each user has typed
    toServer,           \* what the server has not read: numbered lines
    replies,            \* what was sent to each client: the line each answers
    read,               \* how many bytes of that it has read
    peer,               \* each client as the server's socket sees it
    shown               \* the response last shown: [request, answers]

session == <<quantity, currentRestaurant, currentOrder, accepted>>
serverVars == <<server, current, session, bill>>
clientVars == <<pc, typed, shown>>
stream == <<toServer, replies, read, peer>>
vars == <<serverVars, clientVars, stream>>

-----------------------------------------------------------------------------
(* The client, clinet_test.c.                                              *)

Connect(c) ==
    /\ pc[c] = "start"
    /\ server # "dead"
    /\ pc' = [pc EXCEPT ![c] = "prompt"]
    /\ peer' = [peer EXCEPT ![c] = "here"]
    /\ UNCHANGED <<serverVars, typed, shown, toServer, replies, read>>

\* fgets and send; a line sent to a server that has closed or ended is lost.
Type(c) ==
    /\ pc[c] = "prompt"
    /\ typed[c] < MaxLines
    /\ typed' = [typed EXCEPT ![c] = @ + 1]
    /\ pc' = [pc EXCEPT ![c] = "await"]
    /\ \E l \in Lines :
           toServer' = IF peer[c] = "here" /\ server # "dead"
                       THEN [toServer EXCEPT ![c] = Append(@, [n |-> typed[c] + 1, line |-> l])]
                       ELSE toServer
    /\ UNCHANGED <<serverVars, shown, replies, read, peer>>

\* An empty line: send has no byte to send.
TypeNothing(c) ==
    /\ pc[c] = "prompt"
    /\ typed[c] < MaxLines
    /\ typed' = [typed EXCEPT ![c] = @ + 1]
    /\ pc' = [pc EXCEPT ![c] = "await"]
    /\ UNCHANGED <<serverVars, shown, stream>>

\* recv and printf: the text of a message, when its first byte is the first one
\* read; otherwise that is one of the zeros behind a text.
Unread(c) == MessageSize * Len(replies[c]) - read[c]
Response(c) == IF read[c] % MessageSize = 0 THEN replies[c][read[c] \div MessageSize + 1] ELSE 0

recieve_response(c) ==
    /\ pc[c] = "await"
    /\ Unread(c) > 0
    /\ shown' = [shown EXCEPT ![c] = [request |-> typed[c], answers |-> Response(c)]]
    /\ read' = [read EXCEPT ![c] = @ + Min({RecvSize, Unread(c)})]
    /\ pc' = [pc EXCEPT ![c] = "prompt"]
    /\ UNCHANGED <<serverVars, typed, toServer, replies, peer>>

\* recv returns 0 or an error: it is reported and the user is asked again.
ReceiveEnd(c) ==
    /\ pc[c] = "await"
    /\ Unread(c) = 0
    /\ peer[c] = "closed" \/ server = "dead"
    /\ pc' = [pc EXCEPT ![c] = "prompt"]
    /\ UNCHANGED <<serverVars, typed, shown, stream>>

\* "exit" at the prompt, or Ctrl-C at any time: the socket is closed.
Leave(c) ==
    /\ pc[c] \in {"prompt", "await"}
    /\ pc' = [pc EXCEPT ![c] = "left"]
    /\ peer' = [peer EXCEPT ![c] = IF @ = "here" THEN "left" ELSE @]
    /\ UNCHANGED <<serverVars, typed, shown, toServer, replies, read>>

-----------------------------------------------------------------------------
(* The server, hw2_server.c.                                               *)

\* Mutant of Accept: the shops are set up once, before the loop.
AcceptKept(c) ==
    /\ server = "accept"
    /\ peer[c] \in {"here", "left"}
    /\ server' = "serve"
    /\ current' = c
    /\ currentRestaurant' = "none"
    /\ currentOrder' = Empty
    /\ accepted' = [m \in Meals |-> 0]
    /\ UNCHANGED <<quantity, bill, clientVars, stream>>

\* The shops are set up anew, with nothing ordered, for every client.
Accept(c) ==
    /\ server = "accept"
    /\ peer[c] \in {"here", "left"}
    /\ server' = "serve"
    /\ current' = c
    /\ quantity' = [m \in Meals |-> 0]
    /\ currentRestaurant' = "none"
    /\ currentOrder' = Empty
    /\ accepted' = [m \in Meals |-> 0]
    /\ UNCHANGED <<bill, clientVars, stream>>

\* accept fails: the server exits.
AcceptFails ==
    /\ server = "accept"
    /\ server' = "dead"
    /\ UNCHANGED <<current, session, bill, clientVars, stream>>

\* A send of the answer to line r.  A client that has left meets the first one
\* with a reset; a send behind that reset is a SIGPIPE, which ends the server.
Send(c, r, then) ==
    /\ replies' = IF peer[c] = "here" THEN [replies EXCEPT ![c] = Append(@, r)] ELSE replies
    /\ server' \in IF peer[c] = "reset" THEN {then, "dead"} ELSE {then}

Reply(c, r, then) ==
    /\ Send(c, r, then)
    /\ peer' = IF peer[c] = "here" THEN peer ELSE [peer EXCEPT ![c] = "reset"]

\* What sscanf and strcmp make of the lines read in one piece: an order is read
\* off the front of it, any other line is known only when it stands alone.
Understood(s) == IF Len(s) = 1 \/ Head(s).line.word = "order" THEN Head(s).line.word ELSE "other"

\* The next piece, when it is what word says.
Reads(c, word) ==
    /\ server = "serve"
    /\ current = c
    /\ toServer[c] # <<>>
    /\ Understood(toServer[c]) = word
    /\ toServer' = [toServer EXCEPT ![c] = <<>>]

\* Mutant of OrderText: only the meal just ordered.
OrderTextOfOne(m, q) == [i \in {m} |-> q[i]]

\* The text sent for an accepted order of m: the first time the meal alone, then
\* both meals of the shop when there are some of each.
OrderText(m, q) ==
    IF currentOrder # Empty /\ \A i \in Menu(ShopOf(m)) : q[i] # 0
    THEN [i \in Menu(ShopOf(m)) |-> q[i]]
    ELSE [i \in {m} |-> q[i]]

\* An order of a meal that no menu has is not answered.
OrderUnknown(c) ==
    /\ Reads(c, "order")
    /\ Head(toServer[c]).line.meal \notin Meals
    /\ UNCHANGED <<serverVars, clientVars, replies, read, peer>>

\* The quantity is counted before the shop is looked at.
Order(c) ==
    /\ Reads(c, "order")
    /\ LET r == Head(toServer[c])
           m == r.line.meal
           q == [quantity EXCEPT ![m] = @ + r.line.quantity]
       IN  /\ m \in Meals
           /\ quantity' = q
           /\ IF currentRestaurant \in {"none", ShopOf(m)}
              THEN /\ currentRestaurant' = ShopOf(m)
                   /\ currentOrder' = OrderText(m, q)
                   /\ accepted' = [accepted EXCEPT ![m] = @ + r.line.quantity]
              ELSE UNCHANGED <<currentRestaurant, currentOrder, accepted>>
           /\ Reply(c, r.n, "serve")
    /\ UNCHANGED <<current, bill, clientVars, read>>

sendShopList(c) ==
    /\ Reads(c, "shop list")
    /\ Reply(c, Head(toServer[c]).n, "serve")
    /\ UNCHANGED <<current, session, bill, clientVars, read>>

\* "Please order some meals" before the first order.
ConfirmNothing(c) ==
    /\ Reads(c, "confirm")
    /\ currentRestaurant = "none"
    /\ Reply(c, Head(toServer[c]).n, "serve")
    /\ UNCHANGED <<current, session, bill, clientVars, read>>

\* The price of what was ordered in shop s.
TotalPrice(s, q) == Price(Item(s)[1]) * q[Item(s)[1]] + Price(Item(s)[2]) * q[Item(s)[2]]

\* close and break: the server accepts the next client.
Close(c) ==
    /\ current' = Nobody
    /\ UNCHANGED <<session, clientVars, read>>

\* The price is worked out before the sleep, in which the client may leave.
check_order(c) ==
    /\ Reads(c, "confirm")
    /\ currentRestaurant # "none"
    /\ bill' = [line  |-> Head(toServer[c]).n,
                price |-> TotalPrice(currentRestaurant, quantity),
                for   |-> accepted]
    /\ server' = "sleep"
    /\ UNCHANGED <<current, session, clientVars, replies, read, peer>>

\* "Please wait", sent when the wait is over.
SendWait(c) ==
    /\ server = "sleep" /\ current = c
    /\ Reply(c, bill.line, "arrived")
    /\ UNCHANGED <<current, session, bill, clientVars, toServer, read>>

\* "Delivery has arrived", and the end of the session: what the client has sent
\* during the wait is lost.
SendPrice(c) ==
    /\ server = "arrived" /\ current = c
    /\ Send(c, bill.line, "accept")
    /\ peer' = [peer EXCEPT ![c] = "closed"]
    /\ toServer' = [toServer EXCEPT ![c] = <<>>]
    /\ Close(c)
    /\ UNCHANGED bill

\* Mutant of Cancel: the loop is left but the socket is not closed.
CancelOpen(c) ==
    /\ Reads(c, "cancel")
    /\ server' = "accept"
    /\ Close(c)
    /\ UNCHANGED <<bill, replies, peer>>

Cancel(c) ==
    /\ Reads(c, "cancel")
    /\ server' = "accept"
    /\ peer' = [peer EXCEPT ![c] = "closed"]
    /\ Close(c)
    /\ UNCHANGED <<bill, replies>>

\* Any other line is not answered.
Other(c) ==
    /\ Reads(c, "other")
    /\ UNCHANGED <<serverVars, clientVars, replies, read, peer>>

handle_order(c) ==
    \/ OrderUnknown(c)
    \/ Order(c)
    \/ sendShopList(c)
    \/ ConfirmNothing(c)
    \/ check_order(c)
    \/ SendWait(c)
    \/ SendPrice(c)
    \/ Cancel(c)
    \/ Other(c)

-----------------------------------------------------------------------------
Init ==
    /\ server = "accept"
    /\ current = Nobody
    /\ quantity = [m \in Meals |-> 0]
    /\ currentRestaurant = "none"
    /\ currentOrder = Empty
    /\ accepted = [m \in Meals |-> 0]
    /\ bill = [line |-> 0, price |-> 0, for |-> accepted]
    /\ pc = [c \in Clients |-> "start"]
    /\ typed = [c \in Clients |-> 0]
    /\ toServer = [c \in Clients |-> <<>>]
    /\ replies = [c \in Clients |-> <<>>]
    /\ read = [c \in Clients |-> 0]
    /\ peer = [c \in Clients |-> "none"]
    /\ shown = [c \in Clients |-> [request |-> 0, answers |-> 0]]

Client(c) ==
    \/ Connect(c)
    \/ Type(c)
    \/ TypeNothing(c)
    \/ recieve_response(c)
    \/ ReceiveEnd(c)
    \/ Leave(c)

Next == AcceptFails \/ \E c \in Clients : Client(c) \/ Accept(c) \/ handle_order(c)

Spec == Init /\ [][Next]_vars

-----------------------------------------------------------------------------
\* The server is with one client.
Busy == {"serve", "sleep", "arrived"}

\* The values the variables take: one client is served at a time, the others
\* wait, and who was served once is never served again.
TypeOK ==
    /\ server \in Busy \cup {"accept", "dead"}
    /\ bill.line \in Nat
    /\ current \in Clients \cup {Nobody}
    /\ server = "accept" => current = Nobody
    /\ quantity \in [Meals -> Nat]
    /\ currentRestaurant \in Shops \cup {"none"}
    /\ currentRestaurant = "none" => currentOrder = Empty
    /\ currentRestaurant # "none" => DOMAIN currentOrder \subseteq Menu(currentRestaurant)
    /\ accepted \in [Meals -> Nat]
    /\ pc \in [Clients -> {"start", "prompt", "await", "left"}]
    /\ typed \in [Clients -> 0 .. MaxLines]
    /\ peer \in [Clients -> {"none", "here", "left", "reset", "closed"}]
    /\ \A c \in Clients : Len(replies[c]) > 0 /\ server = "accept" => peer[c] = "closed"
    /\ \A c \in Clients : read[c] <= MessageSize * Len(replies[c])

\* A bill is the price of what the client ordered from the shop of its first
\* order, though an order refused for being of another shop is counted as well
\* (hw2_server.c:142) and every client meets the same table of meals (line 75).
BillMatchesOrders ==
    bill.price = TotalPrice("Dessert shop", bill.for) + TotalPrice("Beverage shop", bill.for)
                   + TotalPrice("Diner", bill.for)

\* The order as the client was last told it names all that it ordered, in the
\* quantities it will pay for (hw2_server.c:153-170), as long as nobody orders
\* none of a meal.
SomeOfEach == \A l \in Lines : l.word = "order" => l.quantity > 0
OrderShown ==
    SomeOfEach =>
        \A m \in Meals :
            accepted[m] # 0 => m \in DOMAIN currentOrder /\ currentOrder[m] = accepted[m]

\* What makes these inductive.  The streams and who has been replied to; and
\* the table of meals, which agrees with what was ordered in the current shop.
Streams ==
    /\ toServer \in [Clients -> Seq([n : Nat, line : Lines])]
    /\ replies \in [Clients -> Seq(Nat)]
    /\ read \in [Clients -> Nat]
    /\ \A c \in Clients :
           /\ pc[c] = "start" =>
                  replies[c] = <<>> /\ peer[c] = "none" /\ (server \in Busy => current # c)
           /\ replies[c] # <<>> =>
                  \/ peer[c] = "closed"
                  \/ server = "dead"
                  \/ server \in Busy /\ current = c

Counted ==
    /\ currentRestaurant # "none" => currentOrder # Empty
    /\ \A m \in Meals :
           /\ currentRestaurant = "none" => quantity[m] = 0
           /\ accepted[m] = IF ShopOf(m) = currentRestaurant THEN quantity[m] ELSE 0

IInv == TypeOK /\ Streams /\ Counted /\ OrderShown

\* "Display the server's response" (clinet_test.c:79): the response shown for a
\* line is the server's answer to that line.
ResponseAnswersRequest ==
    \A c \in Clients : shown[c].answers = shown[c].request
=============================================================================
