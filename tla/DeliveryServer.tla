--------------------------- MODULE DeliveryServer ---------------------------
(***************************************************************************)
(* The delivery server of hw3 (hw3.c): main accepts connections and starts *)
(* one get_order thread for each; a thread reads the messages of its       *)
(* client, and on "confirm" hands the order to one of two delivery men,    *)
(* whose pending time, customers and income are plain global integers;     *)
(* Ctrl-C makes main run CtrlCHandler, which destroys the mutexes, adds up *)
(* the totals into result.txt and exits.                                   *)
(*                                                                         *)
(* The steps are cut where another thread can look: at every load and      *)
(* store of a shared integer, lock, unlock, read and write.  A lock and    *)
(* the load after it, and a store and the unlock after it, are one step.   *)
(***************************************************************************)
EXTENDS Menu, Sums

CONSTANTS Threads,      \* the connections the server accepts, one thread each
          Orders,       \* the "order <meal> <amount>" messages clients send
          LongWait,     \* pending time above which a client is asked (30)
          MaxQuantity,  \* bound: a client stops ordering at this many items
          Env,          \* which of EnvEvents can happen
          Nobody        \* the holder of a free lock

\* Ctrl-C, a client that goes away, fopen and accept or pthread_create failing.
EnvEvents == {"sigint", "hangup", "fopen", "accept"}

ASSUME ThreadsAssumption  == IsFiniteSet(Threads) /\ Nobody \notin Threads
ASSUME OrdersAssumption   == Orders \subseteq [meal : Meals, amount : Nat]
ASSUME BoundsAssumption   == LongWait \in Nat /\ MaxQuantity \in Nat
ASSUME EnvAssumption      == Env \subseteq EnvEvents

VARIABLES
  server,     \* "up", or "dead" once the process has ended
  pc,         \* pc[t]: where thread t is in get_order
  conn,       \* conn[t]: the connection, as the server's read and write see it
  sess,       \* sess[t]: the locals of get_order that make up the order
  man,        \* man[t]: the delivery man whose branch t runs, 0 before that
  reg,        \* reg[t]: the register of a shared integer t is working on
  answer,     \* answer[t]: how the client answered the long wait question
  time,       \* delivery_man_<m>_delivery_time
  customer,   \* delivery_man_<m>_customer
  income,     \* delivery_man_<m>_income
  lock,       \* lock[l]: the thread that holds l, or Nobody
  destroyed,  \* the mutexes pthread_mutex_destroy has destroyed
  hpc,        \* where main is in CtrlCHandler, "none" outside it
  report,     \* total_costumer and total_income of CtrlCHandler
  result,     \* result.txt on disk: "absent", "empty" or "written"
  due         \* history: threads whose client had been told of the arrival
              \* when Ctrl-C came; read by no action

shared     == <<time, customer, income>>
locks      == <<lock, destroyed>>
handler    == <<hpc, report, result, due>>
threadVars == <<pc, conn, sess, man, reg, answer>>
vars       == <<server, threadVars, shared, locks, handler>>

-----------------------------------------------------------------------------
Men == 1..2

\* The mutexes, in the order in which CtrlCHandler destroys them, and the
\* semaphore, which it does not destroy.
Mutexes == {"mutex1", "mutex2", "mutex3", "mutex4"}
Locks   == Mutexes \cup {"semaphore"}

\* What guards the pending time of m, and what m holds while out on delivery.
TimeLock(m)  == IF m = 1 THEN "semaphore" ELSE "mutex2"
ShiftLock(m) == IF m = 1 THEN "mutex3" ELSE "mutex4"

\* A lock call on a destroyed mutex fails, and its result is not looked at.
Lock(l, t) ==
  \/ /\ l \notin destroyed
     /\ lock[l] = Nobody
     /\ lock' = [lock EXCEPT ![l] = t]
  \/ /\ l \in destroyed
     /\ lock' = lock

Unlock(l) == lock' = IF l \in destroyed THEN lock ELSE [lock EXCEPT ![l] = Nobody]

(***************************************************************************)
(* The connection.  "open": the client is there.  "fin": it has closed its *)
(* end, read returns 0 and the first write still succeeds.  "gone": the    *)
(* answer to such a write has come back, read returns 0 and write fails.   *)
(* "rst": the client has closed with bytes unread, read and write fail.    *)
(***************************************************************************)
ConnStates == {"open", "fin", "gone", "rst"}

\* sendback_message_to_client when its write succeeds.
sendback_message_to_client(t) ==
  \/ /\ conn[t] = "open"
     /\ conn' = conn
  \/ /\ conn[t] = "fin"
     /\ \E c \in {"fin", "gone"} : conn' = [conn EXCEPT ![t] = c]

\* receive_mssage_from_client: read returns a message, or 0 and an empty one.
Receives(t)    == conn[t] = "open"
ReceivesEof(t) == conn[t] \in {"fin", "gone"}

\* A thread, and main in its handler, is somewhere as long as the process runs.
ThreadAt(t, place) == server = "up" /\ pc[t] = place
MainAt(place)      == server = "up" /\ hpc = place

Goto(t, from, to) == ThreadAt(t, from) /\ pc' = [pc EXCEPT ![t] = to]

Bill(t)  == sess[t].total_money
Trip(t)  == Distance(sess[t].order_shop)

-----------------------------------------------------------------------------
(***************************************************************************)
(* The places of get_order a thread can be at: "recv" waits in the read of *)
(* line 254, "load" to "half2" compare the two pending times, "addBegin"   *)
(* to "dropEnd" update one, "check" is line 272 or 335 with the message it *)
(* leads to, "shift" waits for the delivery man, "out" sleeps, "customer"  *)
(* and "income" are the bookings, "leave" gives the shift back, "arrive"   *)
(* tells the client.  A finished thread is "served" or has "left".         *)
(***************************************************************************)
Updates == {"add", "drop", "sub"}
AtBegin(u) == CASE u = "add" -> "addBegin" [] u = "drop" -> "dropBegin" [] u = "sub" -> "subBegin"
AtEnd(u)   == CASE u = "add" -> "addEnd"   [] u = "drop" -> "dropEnd"   [] u = "sub" -> "subEnd"
AfterUpdate(u) == CASE u = "add" -> "check" [] u = "drop" -> "left" [] u = "sub" -> "leave"

Places == {"none", "recv", "load", "half1", "half2", "addBegin", "addEnd",
           "check", "answer", "dropBegin", "dropEnd", "shift", "out",
           "customer", "income", "subBegin", "subEnd", "leave", "arrive",
           "served", "left"}

Init ==
  /\ server    = "up"
  /\ pc        = [t \in Threads |-> "none"]
  /\ conn      = [t \in Threads |-> "open"]
  /\ sess      = [t \in Threads |-> NewSession]
  /\ man       = [t \in Threads |-> 0]
  /\ reg       = [t \in Threads |-> 0]
  /\ answer    = [t \in Threads |-> "unasked"]
  /\ time      = [m \in Men |-> 0]
  /\ customer  = [m \in Men |-> 0]
  /\ income    = [m \in Men |-> 0]
  /\ lock      = [l \in Locks |-> Nobody]
  /\ destroyed = {}
  /\ hpc       = "none"
  /\ report    = [customer |-> 0, income |-> 0]
  /\ result    = "absent"
  /\ due       = {}

\* main: accept, and a thread that starts in get_order.  While main runs the
\* signal handler it does not accept.
Accept(t) ==
  /\ MainAt("none")
  /\ Goto(t, "none", "recv")
  /\ UNCHANGED <<server, conn, sess, man, reg, answer, shared, locks, handler>>

-----------------------------------------------------------------------------
(* The loop of get_order up to "confirm" or "cancel".                      *)

RecvShopList(t) ==
  /\ ThreadAt(t, "recv") /\ Receives(t)
  /\ sendback_message_to_client(t)
  /\ UNCHANGED <<server, pc, sess, man, reg, answer, shared, locks, handler>>

\* "confirm" with nothing ordered is answered with a request to order.
ConfirmNothing(t) ==
  /\ ThreadAt(t, "recv") /\ Receives(t)
  /\ DOMAIN sess[t].ordered = {}
  /\ sendback_message_to_client(t)
  /\ UNCHANGED <<server, pc, sess, man, reg, answer, shared, locks, handler>>

Confirm(t) ==
  /\ Receives(t)
  /\ DOMAIN sess[t].ordered # {}
  /\ Goto(t, "recv", "load")
  /\ UNCHANGED <<server, conn, sess, man, reg, answer, shared, locks, handler>>

Cancel(t) ==
  /\ Receives(t)
  /\ Goto(t, "recv", "left")
  /\ UNCHANGED <<server, conn, sess, man, reg, answer, shared, locks, handler>>

\* The order branch, once the message has put meal and amount in the buffers.
Order(t, meal, amount) ==
  /\ ThreadAt(t, "recv")
  /\ \E shop \in meal_to_shop(meal) :
       /\ ~ (sess[t].shop_flag /\ shop = NoShop /\ sess[t].order_shop = NoShop)
       /\ sess' = [sess EXCEPT ![t] = TakeOrder(@, shop, meal, amount)]
  /\ sendback_message_to_client(t)
  /\ UNCHANGED <<server, pc, man, reg, answer, shared, locks, handler>>

Quantity(t) == SumOf(sess[t].ordered, DOMAIN sess[t].ordered)

RecvOrder(t) ==
  /\ Receives(t)
  /\ \E o \in Orders : /\ Quantity(t) + o.amount <= MaxQuantity
                       /\ Order(t, o.meal, o.amount)

\* Any other words ("Yes", say): sscanf leaves meal and amount as they were,
\* so the last order is taken again.  Clients send them after an order only.
RecvWords(t) ==
  /\ Receives(t)
  /\ sess[t].shop_flag
  /\ Quantity(t) + sess[t].amount <= MaxQuantity
  /\ Order(t, sess[t].meal, sess[t].amount)

\* A read of 0 bytes is not told from a message: the empty text is an order
\* too, and repeats the last one, until a write fails.
RecvEof(t) ==
  /\ ReceivesEof(t)
  /\ Quantity(t) <= MaxQuantity
  /\ Order(t, sess[t].meal, sess[t].amount)

-----------------------------------------------------------------------------
(* Choosing the delivery man: the two loads of line 264, in either order.  *)

LoadTime(t) ==
  /\ \E m \in Men :
       /\ Goto(t, "load", IF m = 1 THEN "half1" ELSE "half2")
       /\ reg' = [reg EXCEPT ![t] = time[m]]
  /\ UNCHANGED <<server, conn, sess, man, answer, shared, locks, handler>>

Chosen(time1, time2) == IF time1 <= time2 THEN 1 ELSE 2

Choose(t) ==
  /\ \/ /\ Goto(t, "half1", "addBegin")
        /\ man' = [man EXCEPT ![t] = Chosen(reg[t], time[2])]
     \/ /\ Goto(t, "half2", "addBegin")
        /\ man' = [man EXCEPT ![t] = Chosen(time[1], reg[t])]
  /\ reg' = [reg EXCEPT ![t] = 0]
  /\ UNCHANGED <<server, conn, sess, answer, shared, locks, handler>>

-----------------------------------------------------------------------------
(* The branch of the delivery man.                                         *)

\* Mutant of BeginUpdate: the "protect????" of the source answered with no.
BeginUpdateUnlocked(t, u) ==
  /\ Goto(t, AtBegin(u), AtEnd(u))
  /\ reg' = [reg EXCEPT ![t] = time[man[t]]]
  /\ UNCHANGED <<server, conn, sess, man, answer, shared, locks, handler>>

\* delivery_man_<m>_delivery_time += or -= shop_distance[order_shop].
BeginUpdate(t, u) ==
  /\ Goto(t, AtBegin(u), AtEnd(u))
  /\ Lock(TimeLock(man[t]), t)
  /\ reg' = [reg EXCEPT ![t] = time[man[t]]]
  /\ UNCHANGED <<server, conn, sess, man, answer, shared, destroyed, handler>>

EndUpdate(t, u) ==
  /\ Goto(t, AtEnd(u), AfterUpdate(u))
  /\ time' = [time EXCEPT ![man[t]] = IF u = "add" THEN reg[t] + Trip(t)
                                                   ELSE reg[t] - Trip(t)]
  /\ Unlock(TimeLock(man[t]))
  /\ reg' = [reg EXCEPT ![t] = 0]
  /\ UNCHANGED <<server, conn, sess, man, answer, customer, income, destroyed,
                 handler>>

\* Mutant of Check: the order's own trip is left out of the wait.
CheckOthers(t) ==
  /\ IF time[man[t]] - Trip(t) > LongWait
     THEN /\ Goto(t, "check", "answer")
          /\ answer' = [answer EXCEPT ![t] = "asked"]
     ELSE /\ Goto(t, "check", "shift")
          /\ UNCHANGED answer
  /\ sendback_message_to_client(t)
  /\ UNCHANGED <<server, sess, man, reg, shared, locks, handler>>

\* The pending time is read again, without the lock, to decide whether the
\* client is asked to wait or told to.
Check(t) ==
  /\ IF time[man[t]] > LongWait
     THEN /\ Goto(t, "check", "answer")
          /\ answer' = [answer EXCEPT ![t] = "asked"]
     ELSE /\ Goto(t, "check", "shift")
          /\ UNCHANGED answer
  /\ sendback_message_to_client(t)
  /\ UNCHANGED <<server, sess, man, reg, shared, locks, handler>>

\* "No" takes the order back; every other text, the empty one of a closed
\* connection too, is a yes.
Answer(t, text) ==
  /\ IF text = "eof" THEN ReceivesEof(t) ELSE Receives(t)
  /\ Goto(t, "answer", IF text = "No" THEN "dropBegin" ELSE "shift")
  /\ answer' = [answer EXCEPT ![t] = text]
  /\ UNCHANGED <<server, conn, sess, man, reg, shared, locks, handler>>

Answers == {"Yes", "No", "other", "eof"}

\* Mutant of EnterShift: the delivery man leaves again before he is back.
EnterShiftUnlocked(t) ==
  /\ Goto(t, "shift", "out")
  /\ UNCHANGED <<server, conn, sess, man, reg, answer, shared, locks, handler>>

\* Mutant of EnterShift: it takes the time lock, which subBegin takes again.
EnterShiftNested(t) ==
  /\ Goto(t, "shift", "out")
  /\ Lock(TimeLock(man[t]), t)
  /\ UNCHANGED <<server, conn, sess, man, reg, answer, shared, destroyed, handler>>

EnterShift(t) ==
  /\ Goto(t, "shift", "out")
  /\ Lock(ShiftLock(man[t]), t)
  /\ UNCHANGED <<server, conn, sess, man, reg, answer, shared, destroyed, handler>>

\* After the sleep: customer += 1 and income += total_money.
ComeBack(t) ==
  /\ Goto(t, "out", "customer")
  /\ reg' = [reg EXCEPT ![t] = customer[man[t]]]
  /\ UNCHANGED <<server, conn, sess, man, answer, shared, locks, handler>>

BookCustomer(t) ==
  /\ Goto(t, "customer", "income")
  /\ customer' = [customer EXCEPT ![man[t]] = reg[t] + 1]
  /\ reg' = [reg EXCEPT ![t] = income[man[t]]]
  /\ UNCHANGED <<server, conn, sess, man, answer, time, income, locks, handler>>

BookIncome(t) ==
  /\ Goto(t, "income", "subBegin")
  /\ income' = [income EXCEPT ![man[t]] = reg[t] + Bill(t)]
  /\ reg' = [reg EXCEPT ![t] = 0]
  /\ UNCHANGED <<server, conn, sess, man, answer, time, customer, locks, handler>>

LeaveShift(t) ==
  /\ Goto(t, "leave", "arrive")
  /\ Unlock(ShiftLock(man[t]))
  /\ UNCHANGED <<server, conn, sess, man, reg, answer, shared, destroyed, handler>>

\* "Delivery has arrived ...", then close and the end of the thread.
Arrive(t) ==
  /\ Goto(t, "arrive", "served")
  /\ sendback_message_to_client(t)
  /\ UNCHANGED <<server, sess, man, reg, answer, shared, locks, handler>>

-----------------------------------------------------------------------------
(***************************************************************************)
(* The end of the process.  exit() writes the stdio buffers out, a signal  *)
(* (SIGPIPE, SIGSEGV) does not: the text fprintf put in the buffer is in   *)
(* the file only in the first case.                                        *)
(***************************************************************************)
Exit == /\ server' = "dead"
        /\ result' = IF hpc = "sleep" THEN "written" ELSE result
Kill == server' = "dead" /\ UNCHANGED result

DeathLeaves == UNCHANGED <<threadVars, shared, locks, hpc, report, due>>

\* errexit in receive_mssage_from_client.
ReadFails(t) ==
  /\ \E place \in {"recv", "answer"} : ThreadAt(t, place)
  /\ conn[t] = "rst"
  /\ Exit
  /\ DeathLeaves

\* A write to a closed connection: SIGPIPE, or errexit for a pending error.
WriteFails(t) ==
  /\ \/ ThreadAt(t, "recv") /\ conn[t] = "gone"
     \/ /\ \E place \in {"check", "arrive"} : ThreadAt(t, place)
        /\ conn[t] \in {"gone", "rst"}
  /\ Exit \/ Kill
  /\ DeathLeaves

\* strcpy from the pointer no case of the switch has set.
CopyFails(t) ==
  /\ ThreadAt(t, "recv") /\ ReceivesEof(t)
  /\ sess[t].shop_flag /\ sess[t].order_shop = NoShop
  /\ NoShop \in meal_to_shop(sess[t].meal)
  /\ Kill
  /\ DeathLeaves

\* errexit and checkResults in main.
AcceptFails ==
  /\ "accept" \in Env /\ MainAt("none")
  /\ Exit
  /\ DeathLeaves

\* The client goes away, having read everything or not.
HangUp(t) ==
  /\ "hangup" \in Env /\ server = "up"
  /\ pc[t] \notin {"none", "served", "left"} /\ conn[t] = "open"
  /\ \E c \in {"fin", "rst"} : conn' = [conn EXCEPT ![t] = c]
  /\ UNCHANGED <<server, pc, sess, man, reg, answer, shared, locks, handler>>

-----------------------------------------------------------------------------
(* CtrlCHandler, on the thread of main.                                    *)

HandlerPlaces == Mutexes \cup {"none", "fopen", "customer1", "customer2",
                               "income1", "income2", "fprintf", "sleep"}

Sigint ==
  /\ "sigint" \in Env /\ MainAt("none")
  /\ hpc' = "mutex1"
  /\ due' = {t \in Threads : pc[t] = "served"}
  /\ UNCHANGED <<server, threadVars, shared, locks, report, result>>

AfterDestroy(l) == CASE l = "mutex1" -> "mutex2" [] l = "mutex2" -> "mutex3"
                     [] l = "mutex3" -> "mutex4" [] l = "mutex4" -> "fopen"

\* pthread_mutex_destroy refuses a mutex that is held and leaves it working.
Destroy(l) ==
  /\ MainAt(l)
  /\ hpc' = AfterDestroy(l)
  /\ destroyed' = IF lock[l] = Nobody THEN destroyed \cup {l} ELSE destroyed
  /\ UNCHANGED <<server, threadVars, shared, lock, report, result, due>>

OpenResult ==
  /\ MainAt("fopen")
  /\ hpc' = "customer1"
  /\ result' = "empty"
  /\ UNCHANGED <<server, threadVars, shared, locks, report, due>>

OpenFails ==
  /\ "fopen" \in Env /\ MainAt("fopen")
  /\ Exit
  /\ DeathLeaves

\* The four loads of total_costumer and total_income, without any lock.
Total(from, to, field, value) ==
  /\ MainAt(from)
  /\ hpc' = to
  /\ report' = [report EXCEPT ![field] = @ + value]
  /\ UNCHANGED <<server, threadVars, shared, locks, result, due>>

AddUp == \/ Total("customer1", "customer2", "customer", customer[1])
         \/ Total("customer2", "income1",   "customer", customer[2])
         \/ Total("income1",   "income2",   "income",   income[1])
         \/ Total("income2",   "fprintf",   "income",   income[2])

\* fprintf into the buffer, then the sleep.
PrintResult ==
  /\ MainAt("fprintf")
  /\ hpc' = "sleep"
  /\ UNCHANGED <<server, threadVars, shared, locks, report, result, due>>

\* Mutant of CloseResult: the process ends without fclose.
CloseResultAbruptly ==
  /\ MainAt("sleep")
  /\ Kill
  /\ DeathLeaves

\* fclose and exit(0).
CloseResult ==
  /\ MainAt("sleep")
  /\ Exit
  /\ DeathLeaves

CtrlCHandler == \/ \E l \in Mutexes : Destroy(l)
                \/ OpenResult \/ OpenFails \/ AddUp \/ PrintResult \/ CloseResult

-----------------------------------------------------------------------------
\* What a thread does for a message of its client.
Take(t) ==
  \/ RecvShopList(t) \/ ConfirmNothing(t) \/ Confirm(t) \/ Cancel(t)
  \/ RecvOrder(t) \/ RecvWords(t) \/ RecvEof(t)
  \/ \E text \in Answers : Answer(t, text)

\* What a thread does on its own once the order is confirmed.
Dispatch(t) == LoadTime(t) \/ Choose(t)

Delivery(t) ==
  \/ \E u \in Updates : BeginUpdate(t, u) \/ EndUpdate(t, u)
  \/ Check(t) \/ EnterShift(t) \/ ComeBack(t) \/ BookCustomer(t)
  \/ BookIncome(t) \/ LeaveShift(t) \/ Arrive(t)

DeliveryMan1(t) == man[t] = 1 /\ Delivery(t)
DeliveryMan2(t) == man[t] = 2 /\ Delivery(t)

Work(t) == Dispatch(t) \/ DeliveryMan1(t) \/ DeliveryMan2(t)

get_order(t) == Take(t) \/ Work(t)

Next ==
  \/ \E t \in Threads : \/ Accept(t) \/ get_order(t) \/ HangUp(t)
                        \/ ReadFails(t) \/ WriteFails(t) \/ CopyFails(t)
  \/ AcceptFails \/ Sigint \/ CtrlCHandler

(***************************************************************************)
(* Threads run and the sleeps end: a thread that has something of its own  *)
(* to do does it, or the write in it fails.  Nothing is assumed of the     *)
(* clients, of Ctrl-C or of the failures of accept and fopen.              *)
(***************************************************************************)
Fairness == \A t \in Threads : WF_vars(Work(t) \/ WriteFails(t))

Spec == Init /\ [][Next]_vars /\ Fairness

-----------------------------------------------------------------------------
(* Properties.                                                             *)

IsBasket(b) == DOMAIN b \subseteq Meals \cup {Unset} /\ b \in [DOMAIN b -> Nat]

IsSession(s) ==
  /\ s \in [shop_flag : BOOLEAN, order_shop : Shops \cup {NoShop}, total_money : Nat,
            ordered : {s.ordered}, meal : Meals \cup {Unset}, amount : Nat]
  /\ IsBasket(s.ordered)
  /\ s.shop_flag <=> DOMAIN s.ordered # {}

\* Types; beyond them, a thread past "confirm" has an order of one of the
\* shops, so that shop_distance is never read outside its three elements.
TypeOK ==
  /\ server    \in {"up", "dead"}
  /\ pc        \in [Threads -> Places]
  /\ conn      \in [Threads -> ConnStates]
  /\ DOMAIN sess = Threads /\ \A t \in Threads : IsSession(sess[t])
  /\ man       \in [Threads -> Men \cup {0}]
  /\ reg       \in [Threads -> Int]
  /\ answer    \in [Threads -> Answers \cup {"unasked", "asked"}]
  /\ time      \in [Men -> Int]
  /\ customer  \in [Men -> Nat]
  /\ income    \in [Men -> Nat]
  /\ lock      \in [Locks -> Threads \cup {Nobody}]
  /\ destroyed \subseteq Mutexes
  /\ hpc       \in HandlerPlaces
  /\ report    \in [customer : Nat, income : Nat]
  /\ result    \in {"absent", "empty", "written"}
  /\ due       \subseteq Threads
  /\ \A t \in Threads : man[t] # 0 \/ pc[t] \notin {"none", "recv", "left"}
                          => sess[t].order_shop \in Shops

\* The places of a thread whose trip is part of the pending time, and of one
\* whose customer and whose income are booked.
Carrying == {"check", "answer", "dropBegin", "dropEnd", "shift", "out",
             "customer", "income", "subBegin", "subEnd"}
Paid     == {"subBegin", "subEnd", "leave", "arrive", "served"}
Counted  == Paid \cup {"income"}

At(m, places) == {t \in Threads : man[t] = m /\ pc[t] \in places}

\* What each client pays.
Bills == [t \in Threads |-> Bill(t)]

Carriers(m, shop) == {t \in At(m, Carrying) : sess[t].order_shop = shop}

\* The pending time of a delivery man is the sum of the trips of the orders
\* he has been given and has neither finished nor been refused: no update of
\* lines 268, 282, 295, 317 and their twins is ever lost, as long as their
\* lock exists (Ctrl-C destroys the one of the second man).
TimeLedger ==
  \A m \in Men : TimeLock(m) \notin destroyed =>
     time[m] =   Distance(Dessert)  * Cardinality(Carriers(m, Dessert))
               + Distance(Beverage) * Cardinality(Carriers(m, Beverage))
               + Distance(Diner)    * Cardinality(Carriers(m, Diner))

\* The orders of a man whose clients were told to wait and never asked.
Unasked(m, shop) == {t \in Carriers(m, shop) : answer[t] = "unasked" /\ pc[t] # "check"}

\* Whoever is not asked has no long wait: the trips of the customers a man is
\* out for, or has to serve, without having asked them never add up to more than
\* the limit of lines 272 and 335, though the pending time is read there a second
\* time, without its lock, while other threads add to it and take from it.
UnaskedWaitBounded ==
  \A m \in Men : TimeLock(m) \notin destroyed =>
       Distance(Dessert)  * Cardinality(Unasked(m, Dessert))
     + Distance(Beverage) * Cardinality(Unasked(m, Beverage))
     + Distance(Diner)    * Cardinality(Unasked(m, Diner)) <= LongWait

\* A delivery man's customers are those whose delivery is counted: the
\* increments of lines 290, 312, 350 and 371 are never lost while the mutex of
\* his shift exists, however the threads of his customers interleave.
CustomerBook ==
  \A m \in Men : ShiftLock(m) \notin destroyed =>
     customer[m] = Cardinality(At(m, Counted))

\* The same for the bills added to his income at lines 291, 313, 351 and 372.
IncomeBook ==
  \A m \in Men : ShiftLock(m) \notin destroyed =>
     income[m] = SumOf(Bills, At(m, Paid))

\* The price of each item of a basket.
Prices(s) == [i \in DOMAIN s.ordered |-> OrderMoney(s.order_shop, i, s.ordered[i])]

\* What a client is charged is the price of what is in the basket shown to
\* him, whatever mix of orders, repeats and orders refused for being of
\* another shop led to it.
BillMatchesBasket ==
  \A t \in Threads : Bill(t) = SumOf(Prices(sess[t]), DOMAIN sess[t].ordered)

-----------------------------------------------------------------------------
(***************************************************************************)
(* The inductive invariant.  TimeLedger and CustomerBook say what the      *)
(* shared integers are worth; a step keeps that because the thread that    *)
(* stores holds the lock (LocksHeld), so nobody stored since its load      *)
(* (RegsFresh).  The rest is what keeps the types: the delivery man is     *)
(* chosen once (ManChosen), and a client that is still there has ordered   *)
(* listed meals only (OpenOrders); what an order message can find in the   *)
(* locals of get_order (Priced); and how the totals of CtrlCHandler grow   *)
(* past what was due when it began (DueCovered).                           *)
(***************************************************************************)
Unchosen == {"none", "recv", "load", "half1", "half2"}
InUpdate == {"addEnd", "dropEnd", "subEnd"}
InShift  == {"out", "customer", "income", "subBegin", "subEnd", "leave"}

OpenOrders ==
  \A t \in Threads : conn[t] = "open" /\ sess[t].shop_flag
                       => sess[t].order_shop \in Shops /\ sess[t].meal \in Meals

ManChosen ==
  \A t \in Threads : /\ pc[t] \in Unchosen => man[t] = 0
                     /\ pc[t] \notin Unchosen \cup {"left"} => man[t] \in Men

BookedReg == \A t \in Threads : pc[t] \in {"customer", "income"} => reg[t] \in Nat

\* The lock of a pending time or a shift, while it works, is held by the
\* thread in the middle of the update or of the shift.
LocksHeld ==
  \A t \in Threads :
    LET timeLock  == TimeLock(man[t])
        shiftLock == ShiftLock(man[t])
    IN  /\ pc[t] \in InUpdate /\ timeLock \notin destroyed => lock[timeLock] = t
        /\ pc[t] \in InShift /\ shiftLock \notin destroyed => lock[shiftLock] = t

\* What such a thread has loaded is still what is stored.
RegsFresh ==
  \A t \in Threads :
    /\ pc[t] \in InUpdate /\ TimeLock(man[t]) \notin destroyed => reg[t] = time[man[t]]
    /\ ShiftLock(man[t]) \notin destroyed =>
         /\ pc[t] = "customer" => reg[t] = customer[man[t]]
         /\ pc[t] = "income"   => reg[t] = income[man[t]]

\* A session nothing has been ordered in, one whose client was gone before he
\* ordered, and one with a basket of one shop, charged for.
MealsOf(shop) == {meal \in Meals : meal_to_shop(meal) = {shop}}

Priced(s) ==
  \/ s = NewSession
  \/ s.shop_flag /\ s.meal = Unset /\ s.amount = 0 /\ s.total_money = 0
     /\ s.ordered = OneItem(Unset, 0)
  \/ s.shop_flag /\ s.meal \in Meals /\ s.order_shop \in Shops
     /\ DOMAIN s.ordered \subseteq MealsOf(s.order_shop)
     /\ s.total_money = SumOf(Prices(s), DOMAIN s.ordered)

BasketsPriced == \A t \in Threads : Priced(sess[t])

\* Once Ctrl-C has come the locks may be gone and updates be lost, but nothing
\* stored or loaded falls below the part of the due that is the man's.
DueOf(m) == {t \in due : man[t] = m}

Added(place) == CASE place \in {"income1", "income2", "fprintf", "sleep"} -> Men
                  [] place = "customer2" -> {1}
                  [] OTHER -> {}
AddedIncome(place) == CASE place \in {"fprintf", "sleep"} -> Men
                        [] place = "income2" -> {1}
                        [] OTHER -> {}

DueCovered ==
  /\ hpc = "none" => due = {} /\ destroyed = {}
  /\ \A t \in due : pc[t] = "served"
  /\ \A m \in Men :
       /\ customer[m] >= Cardinality(DueOf(m))
       /\ income[m] >= SumOf(Bills, DueOf(m))
       /\ \A t \in At(m, {"customer"}) : reg[t] >= Cardinality(DueOf(m))
       /\ \A t \in At(m, {"income"}) : reg[t] >= SumOf(Bills, DueOf(m))
  /\ report.customer >= Cardinality({t \in due : man[t] \in Added(hpc)})
  /\ report.income >= SumOf(Bills, {t \in due : man[t] \in AddedIncome(hpc)})

TypeInv == TypeOK /\ OpenOrders /\ ManChosen /\ BookedReg

\* The threads of a delivery man are inside one another's updates and shifts
\* never, and the books balance: what DeliveryServer_proofs proves of every
\* number of threads.
IInv == /\ TypeInv /\ LocksHeld /\ RegsFresh
        /\ TimeLedger /\ CustomerBook /\ IncomeBook
        /\ BasketsPriced /\ DueCovered

-----------------------------------------------------------------------------
\* The totals CtrlCHandler writes count at least the customers whose arrival
\* message had been sent when Ctrl-C came, and their bills, though it takes
\* no lock and destroys those the threads go on using.
ReportCoversDue ==
  hpc \in {"fprintf", "sleep"} =>
    /\ report.customer >= Cardinality(due)
    /\ report.income >= SumOf(Bills, due)

\* While the process lives, a confirmed order is delivered or waits for its
\* client's answer to the long wait question, whatever other clients do: the
\* locks of the two delivery men never block each other and nobody is left
\* queueing for a shift.
ConfirmedServed ==
  \A t \in Threads :
    pc[t] = "load" ~> pc[t] \in {"answer", "served"} \/ server = "dead"

\* An answered question leads to the delivery, or to the end of the thread.
AnsweredServed ==
  \A t \in Threads :
    pc[t] \in {"shift", "dropBegin"} ~> pc[t] \in {"served", "left"} \/ server = "dead"

(***************************************************************************)
(* The books kept by the threads implement DeliveryBooks: a step of a      *)
(* thread is one of its steps or changes nothing there, the customer and   *)
(* the bill of a delivery, stored one after the other, enter together, and *)
(* a man is never out for two customers (lines 264-386; no Ctrl-C).        *)
(***************************************************************************)
StageAt(place, m) ==
  CASE place \in {"check", "answer", "dropBegin", "dropEnd", "shift"} -> "waiting"
    [] place \in {"out", "customer", "income"}                        -> "out"
    [] place \in {"subBegin", "subEnd"}                               -> "booked"
    [] place = "leave"                                                -> "returned"
    [] place \in {"arrive", "served"}                                 -> "home"
    [] place = "left" /\ m # 0                                        -> "refused"
    [] OTHER                                                          -> "shopping"

StageOf(t)  == StageAt(pc[t], man[t])
Assigned(t) == StageOf(t) # "shopping"

Books == INSTANCE DeliveryBooks WITH
  Customers <- Threads,
  stage     <- [t \in Threads |-> StageOf(t)],
  man       <- [t \in Threads |-> IF Assigned(t) THEN man[t] ELSE 0],
  trip      <- [t \in Threads |-> IF Assigned(t) THEN Trip(t) ELSE 0],
  bill      <- [t \in Threads |-> IF Assigned(t) THEN Bill(t) ELSE 0],
  customers <- [m \in Men |-> customer[m] - Cardinality(At(m, {"income"}))]

ImplementsBooks == Books!Spec

\* Line 264: the costumer is given to the delivery man who needs less time,
\* at the moment of the choice.
LeastLoaded ==
  [][\A t \in Threads :
       man[t] = 0 /\ man'[t] # 0 => time[man'[t]] <= time[3 - man'[t]]]_vars

\* After Ctrl-C the server ends with result.txt written, unless fopen fails or
\* a thread was still reading from or writing to a client that has gone away
\* (line 445; CtrlCHandler against the errexit and SIGPIPE of the threads).
ReportSurvives ==
  hpc # "none" /\ server = "dead" /\ result # "written" =>
    \/ hpc = "fopen"
    \/ \E t \in Threads : pc[t] \in {"recv", "check", "answer", "arrive"} /\ conn[t] # "open"
=============================================================================
