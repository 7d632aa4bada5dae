# Verification of the embedding_os_lab programs

TLA+ models of the concurrent programs of this repository, the TLC runs that
check them on small instances, and TLAPS proofs of their safety properties.
The repository is a set of course exercises in C: two takeaway servers (hw2,
hw3), a bank server (lab6_new), a guessing game over shared memory (lab7), a
train server (lab5), a character device (lab4) and GPIO drivers (lab1, lab3)
with the programs that write to them.
Each is a program of its own; components of one exercise interact, exercises
do not.

`PROJECT.json` lists components, runs, mutants, the map from definitions to
source lines, findings, hazards and theorems.

## 1. Inventory

| Component | State | Operations | Interaction | Hard behaviour | Status |
|---|---|---|---|---|---|
| hw3 server (`hw3.c`) | per thread: basket, shop, bill; global: pending time, customers and income of two delivery men, four mutexes, a semaphore, `result.txt` | accept, shop list, order, confirm, cancel, answer, delivery, Ctrl-C | TCP with each client; threads share the globals; the SIGINT handler reads them and destroys the mutexes | lost updates, stale comparison, lock order, the handler against running threads, SIGPIPE, end of stream taken for a message | modelled, main theorems proved |
| hw3 client (`hw3_client.c`) | last message received | type a line, read a reply, Ctrl-C | TCP with one thread of the server | guessing from texts whose turn it is; an inverted comparison | modelled, main theorems proved |
| hw2 server and client (`hw2_server.c`, `clinet_test.c`) | item counts, current restaurant, text of the order; client: position in the byte stream | accept, order, shop list, confirm, cancel | TCP, one client at a time | counts made before the order is accepted, 256/255 byte messages, lines read together | modelled, main theorems proved |
| lab6 server and clients (`server.c`, `server_test.c`, `client.c`) | `account_balance`, a semaphore | accept, receive, deposit, withdraw | TCP, a detached thread per connection | lost updates, unchecked `recv`, an unknown operation | modelled, main theorems proved |
| lab7 game and guess (`game.c`, `guess.c`) | shared memory {guess, result}, the bounds | SIGALRM, SIGUSR1, SIGINT | a signal each way and a sleep in place of an answer | the answer read too early, one number left, a second run on the old segment | modelled, main theorems proved |
| hw3 `sockop.c` | none | passivesock, connectsock, errexit | called at start | none | not modelled: pure set-up |
| lab1, lab3 drivers (`hw1_driver.c`, `lab3-1_driver.c`, `lab3-2_driver.c`) | pins: requested, level; region, cdev, class, device | init, unwinding, exit, open, write | the kernel's pins are shared with other drivers; a device file for the writers | a failure at any step of init, pins freed under another driver, unlocked writes, the file visible before init has ended | modelled, main theorems proved |
| lab1, lab3 writers (`writer.c`, `lab3-1_writer.c`, `lab3-2_writer.c`) | the frames still to show | menu, order, number, frame, end | device file | two at once; the digits of a number come out backwards, from an int that may be too narrow for the reverse | modelled, main theorems proved |
| lab4 device, writer, reader (`mydev.c`, `writer.c`, `reader.c`) | one buffer of 1024 bytes | open, read, write, init, exit; Ctrl-C in the reader | device file; the reader sends what it read to `seg.py` over TCP | open() clears the buffer under a reader; rmmod is not refused while a file is open | modelled, main theorems proved; what `seg.py` draws is not |
| lab5 server (`lab5.c`) | child processes, the connections of the parent | accept, fork, exec, SIGCHLD | TCP with each client; the signal handler interrupts `main` | signals that coalesce, descriptors that run out | modelled, main theorems proved |
| lab5 `server.c`, `client.c` | none | one message | TCP | none | not modelled: a straight line |

What makes each correct, and where it is stated:

* hw3 server: pending time, customers and income are what the orders make them
  (`TimeLedger`, `CustomerBook`, `IncomeBook`, abstractly `DeliveryBooks`);
  those told to wait without having been asked have no long wait
  (`UnaskedWaitBounded`);
  the bill is that of the basket (`BillMatchesBasket`); a confirmed order is
  delivered (`ConfirmedServed`, `AnsweredServed`); the report on Ctrl-C covers
  those who were served (`ReportCoversDue`).
* hw3 client: it types when the server reads and reads when the server writes
  (`InStep`), and its wait ends (`WaitIsOver`, `WaitedForArrival`).
* hw2: the price is that of the restaurant's items (`BillMatchesOrders`), and
  the client is shown all it ordered (`OrderShown`).
* lab6: the balance is the sum of what was posted (`Ledger`), each transaction
  sent is posted once and only once (`PostedOnce`, `SentIsPosted`), and the
  printed lines form a statement (`StatementAddsUp`).
* lab7: the secret is never outside the bounds while answers come in time
  (`Bracketed`), bingo means the guess is the secret (`FoundIsSecret`), the
  range halves (`Halved`), and the search ends (`Finishes`).
* lab1, lab3, lab4: a driver has its pins to itself (`PinsExclusive`) and leaves
  nothing behind (`NothingLeft`); what is lit some writer has written
  (`LitByWriter`), the display, in lab4 its buffer, ends without a '1' (`Dark`),
  and a reader comes to send what the buffer holds (`ReaderCatchesUp`); the digits
  shown are those of the number (`DigitsShown`).
* lab5: no ended child is forgotten (`NoneForgotten`, `Collected`), a connection is
  sent one train (`OneTrainEach`), and who waits is accepted while there are
  descriptors (`AcceptedInTheEnd`); a train on the server's terminal means that there
  are none (`TerminalWhenFull` of `IInv`).

## 2. Modules

| Module | Models |
|---|---|
| `Sums` | the sum of a function over a finite set |
| `Decimals` | the digits of a number, as lab3's writers take them off, and the number digits make |
| `Data_proofs` | the lemmas about both, and about powers of two |
| `Menu` | shops, distances, prices, baskets and the order branch of hw3's `get_order` |
| `DeliveryServer` | hw3's threads, locks, signal handler and connections; EXTENDS `Menu` |
| `DeliveryBooks` | abstract specification: customers assigned to men, out, booked, home |
| `DeliveryServer_proofs` | the theorems about `DeliveryServer`, that it implements `DeliveryBooks` among them |
| `DeliverySession` | `DeliveryServer` composed with `hw3_client.c`, one client per thread |
| `DeliverySession_proofs` | the theorems about it |
| `TakeawayServer` | hw2's server and client |
| `BankServer` | lab6's two servers and client |
| `GuessGame` | lab7's two processes |
| `TakeawayServer_proofs`, `BankServer_proofs`, `GuessGame_proofs` | the theorems about them |
| `DisplayDevice` | the four kernel modules of lab1, lab3 and lab4, and another driver of the board |
| `DisplayWriters` | the writers and the reader, composed with `DisplayDevice` (EXTENDS it) |
| `DisplayWriters_proofs` | the theorems about both |
| `TrainServer` | lab5's `lab5.c`: main, its children and the SIGCHLD handler |
| `TrainServer_proofs` | the theorems about it |
| `MC*` | the constants of the runs |

### DeliveryServer

The variable names are the source's where there is one: `time[m]`,
`customer[m]`, `income[m]` are `delivery_man_<m>_delivery_time`, `_customer`,
`_income`; `lock` holds the mutexes and the semaphore; `sess[t]` the locals of
`get_order` (`shop_flag`, `order_shop`, `total_money`, `ordered`, `meal`,
`amount`); `report` and `result` belong to `CtrlCHandler`. `pc[t]` is a place
in `get_order`, `hpc` one in the handler.

* The text `"cookie 3|cake 1"` is a function from meals to amounts.
* A step ends where another thread can look. A lock and the load behind it are
  one step, and so are a store and the unlock behind it: nothing is visible
  between the two. The compound assignments are a load and a store. The two
  loads of line 264 are made in either order, which C permits.
* `Lock` on a destroyed mutex succeeds at once; `pthread_mutex_destroy` refuses
  a held mutex (EBUSY) and turns off a free one, as glibc does. Nobody looks at
  either result.
* A connection is open, closed with everything read (`fin`), answered by a
  reset (`gone`), or closed with bytes unread (`rst`). A read of 0 bytes is an
  empty message, which the code takes for an order; a write to a gone client
  raises SIGPIPE or meets `errexit`.
* `exit` flushes the stdio buffer of `result.txt`; a signal does not.

Inputs assumed: orders name one of the six meals, in amounts that are not
negative (`OrdersAssumption`: `ReportCoversDue` and `IncomeBook` are about such
orders, `hw3.c` takes a negative amount as well); no unparsable text before the
first order; one Ctrl-C. The outcome of the others is undefined in C (an
uninitialised buffer, a missing `return`).

### DeliverySession

Each step of the server is an action of `DeliveryServer` conjoined with the line
it consumes and the message it sends. The server sends 256 byte messages
and the client single lines, and the client sends only
when it has read, so a read returns one message. An empty line is a `write` of
no byte and reaches nobody; `"empty"` stands for it, and for the empty message
a read leaves at the end of the stream. The client's Ctrl-C is taken when the server has
read its last line. After its normal end the client closes a connection that
the server has closed already.

### TakeawayServer, BankServer, GuessGame

* `TakeawayServer` keeps the stream: `read` counts bytes, a reply is
  `MessageSize` = 256 of them, a `recv` takes at most `RecvSize` = 255.
  Lines sent while the server does not read are read together (`Understood`).
  `OrderShown` is about users whose orders are of at least one: an order of 0
  leaves the shown text with the one item just named (lines 158-166). `check_order` is
  three steps: the price is worked out, the server sleeps, and the two messages go out
  one after the other, so a client may leave, or type on, during the wait and between
  them; what it typed is lost with the close. A client that leaves makes the
  server spin on a `recv` of 0 bytes; each turn repeats the state. A failing
  `accept` ends the server (`AcceptFails`).
* `BankServer` has one variable `program` for the two servers, which differ in
  whether `recv` is looked at. The balance wraps at `IntMax`. `pthread_create`
  is compared with `< 0`, which is never true; a failing `accept` changes
  nothing.
* `GuessGame` has the handler of `guess.c` in steps, `InTime` saying whether
  `usleep(100)` was long enough, and integers that wrap at `IntMax`. `game.c`'s
  end removes the segment (`removed`): the next run of `guess.c` makes one of zeros, and
  one that finds a segment meets what is left in it.

### DisplayDevice, DisplayWriters

The variable `lab` says which module the board runs. The three GPIO drivers are
one program with 15, 4 and 7 pins wired, so their init is one set of actions;
`mydev.c` has a buffer in place of pins. A position is a pin, in the order in
which a write sets them, or one of the 16 bytes that the programs of lab4 use.

* `phase` is the step of `etx_driver_init` to come: one action per call that may
  fail. `Unwind(label)` is what the code from that label on takes back:
  `r_gpio` frees all four requested pins, whoever holds them. `class_create`
  and `device_create` fail with an error pointer, which the comparison with
  `NULL` lets through; init goes on, and an unwinding that meets that pointer is
  an oops in the caller (`broken`).
* A pin the driver sets without having requested it is set all the same.
  `taken` is the kernel's mark on a pin, `held` says that another driver made
  it, `robbed` that this driver has freed it.
* `rmmod` of a GPIO driver is refused while a file is open (`.owner`); the one
  of lab4 has no owner, and a process that has it open then calls into code that
  is gone: it is `stranded`, and what it does next is undefined and not modelled.
  The same happens to whoever opened the file of an init that then failed.
* A write sets one position after another; another process may run behind the
  positions in `Cuts`. `script` holds the frames a program will still write, each
  as the set of its lit positions, computed by the code's own loops
  (`Reversed`, `DigitsOf`, `light_led`). `prev` is the frame before. The number
  reversed is an int: a reverse too wide for one wraps (`Wrap`), which is what a multiply
  and an add of the machine do where C leaves it undefined, and a negative one
  shows no digit. Prices and sums of lab1 are
  far inside an int.
* `my_open` of lab4 clears the buffer as a write sets it, one position after another
  (`my_open`, place "opening"), so a reader may copy a buffer that is half cleared. `sent`
  is the last buffer the reader sent to `seg.py`; what that program draws is not
  modelled (section 6).
* `writer.c` of lab1 opens the file for every order and never closes it, and
  its end is a blank frame too (`initial`).

Abstracted: the byte that `sprintf` in `lab3-1_writer.c` puts past its array,
the unterminated rows of lab1's matrix (their `strcpy` finds a zero byte behind
them in what `malloc` returns), what the writer of lab4 prints of its
`read_buffer`.

### TrainServer

`train[t]` follows a child from fork to `waitpid`, `to[t]` is the output it was
given. A SIGCHLD that finds one pending is lost; one that arrives in the handler
is delivered when it returns. `accept` returns -1 at once when the process
has no descriptor left, and main forks all the same; that train runs on
the terminal (`Terminal`). `backlog` keeps connections in order, at most `MaxQueue`
of them. `Clients` are connections: a program that connects twice is two of them.

## 3. Runs

| Run | Bounds | What it shows |
|---|---|---|
| `delivery_faults` | 2 threads, the near shop, `MaxQuantity` 2, `LongWait` 4 (asked only when both have one man), Ctrl-C, `fopen` and `accept` failing, clients going away | the inductive invariant `IInv`, `ReportCoversDue` and `ReportSurvives` under the handler |
| `delivery_load` | 3 threads, a near and a far shop, `LongWait` 7, 1 item each | ledgers, the wait of those not asked, and the refinement of `DeliveryBooks` |
| `delivery_live` | 2 threads, one meal, `MaxQuantity` 2, `LongWait` 5, clients may go away | liveness |
| `session` | 1 client, 3 meals of 2 shops, 4 items, `LongWait` 4, client may go away | bills and the conversation |
| `guess_game` | secrets -1..8, upper bounds 0, 1, 6, 7, `IntMax` 15, 2 runs, late answers | all the properties of lab7 |
| `bank` | 3 clients (a deposit twice, a withdrawal, an unknown operation), `IntMax` 7 | all the properties of lab6 |
| `takeaway` | 2 clients, 3 lines each, meals of 2 shops and one unknown | bills and shown orders |
| `display` | 2 processes, all four modules, `Cuts` {2}, `IntMax` 127, the numbers 120 and 119 and the student number 3, one order of lab1, a name of 2 letters, one pin another driver may request on either lab3 board | all the properties of the displays |
| `trains` | 3 connections, 3 trains, 2 descriptors, a queue of 2 | all the properties of lab5 |

and three that exhibit a disagreement of code and comment:

| Run | Property violated | Why |
|---|---|---|
| `delivery_dispatch` | `LeastLoaded` | lines 264-268 compare and add without one lock |
| `takeaway_lag` | `ResponseAnswersRequest` | 256 bytes sent, 255 read |
| `session_end` | `LastIsArrival` | `!= 0` for `== 0` at `hw3_client.c:75` |

Bounds. Two threads are enough for every pair of steps that conflict, three for
both delivery men to be busy with one queueing. `LongWait` stands for 30: what
matters is that some sums of trips (3, 5, 8) are above it and some not, so the
question is asked with one, two or three orders under way. `MaxQuantity` ends a
client's ordering; four items make baskets of one and two kinds, repeats, and
refused orders of another shop. `MaxLines` and `MCTimes` bound what users do.
`bank` has an `IntMax` of 7, so that two deposits wrap the balance; `guess_game`
has one of 15 and stays at the upper bounds whose midpoints do not wrap, beyond
which the search does not end (its properties say `NoOverflow`). `MaxRuns` = 2 is the
least for a run to meet what an earlier one left. `display` lets others run
behind position 2 and behind the last one of a write, so that every write can be
seen half done by a writer, by a reader and by an init; two processes make
every pair of programs of a lab. The number 120 ends with a zero and is no
palindrome; the reverse of 119, 911, does not fit an int of 127, as that of a ten digit
number may not fit a real one. The student number 311605015 is shortened to a digit, which changes
nothing but the number of frames. `MaxFrames` = 1 keeps a customer of lab1 from
ordering again after an order was shown. Of the two pins another driver may
hold, one is among the four requested (lab3-1) and one is only freed (lab3-2). No
module is loaded again over a process that lost its own (`CanLoad`). `trains`
has one connection more than descriptors and than places in the queue (listen's 10), and as many trains as it takes for two to
end while the signal of a third is pending.

Symmetry is used where threads or clients are interchangeable and no liveness is
checked; `DeliveryBooks` is a specification without fairness.

Deadlock is not checked: all these systems may stop with every client served.

Fairness. `DeliveryServer` and `DeliverySession`: weak fairness of each thread's
own work, a write that fails included (scheduler, sleeps that end, and locks, which weak fairness suffices
for as each lock is released by a finite number of threads that do not come
back); the user owes nothing, so an unanswered question stays. `BankServer`:
weak fairness of accept and of each handler; clients owe nothing. `GuessGame`:
the timer and the handlers run as long as their process lives. `DisplayWriters`: a
process that has begun goes on writing or reading (each sleep ends); nobody owes
an order, a Ctrl-C, an insmod or a rmmod. `TrainServer`: main goes on, a pending
signal is delivered and its handler runs to its end, and every train arrives
(`sl` ends by itself, or with its client).

Each property of a passing run has a mutant in its module: the code with a
dropped lock, a dropped check, a swapped branch. The property must fail on it.

## 4. Refinement

`ImplementsBooks` maps threads of `DeliveryServer` to customers of
`DeliveryBooks`. A customer is assigned (with the trip added to the man's time),
goes out when the man is free, is booked (customer and bill at once), returned
(trip subtracted) and home. The two stores `customer` and `income` come one
after the other, so the mapping shows the customer count without those threads
that are between them. It is checked and proved (`Refinement`) without Ctrl-C, which
destroys the locks the mapping depends on.

## 5. Proofs

Each module of proofs but `Data_proofs` shows `Spec => []IInv` for an inductive
invariant (`IInv`, `SessionIInv`) that the run of the module checks too, and the properties from
it. All hold for every value of the constants that satisfies the module's
assumptions. Every safety property of a passing run is stated by a theorem.

`Data_proofs` has the facts about data the others cite. The library's induction
theorems take an operator as a parameter, which the provers cannot instantiate; here
an induction is a proof by the smallest counterexample instead: the set of the
arguments that refute the fact is named, and if it is not empty it has a smallest
element, by `WFMin` for finite sets (`SmallestSet`) and for numbers
(`SmallestNumber`). In that way are proved

* that the sum of `Sums` over a finite set exists, whatever element is taken
  first (`SumExists`, `SumUnfolds`, `SumRemove`), and so that it changes with the
  function at one point by the difference (`SumChange`), adds up over disjoint sets
  (`SumDisjoint`) and grows with the set (`SumSubset`);
* that recursion on numbers defines a function (`Recursion`, `Folding`), needed for
  the loops of lab3, and what it computes: `Popped` the decimal digits
  (`DigitsMakeNumber`, `NumberHasDigits`), and `ReversedTwice`: a number
  turned round twice is the number, but for the zeros at its end;
* that 2^n doubles with n (`PowerDoubles`), as n more elements double the subsets:
  the provers know nothing of `^`.

`DeliveryServer_proofs`, for any finite set of threads without `Nobody`, any
orders of listed meals and any bounds, Ctrl-C and failures included:
`Invariance` (`IInv`), `TypeCorrect` (`TypeOK`), `TimeBalanced` (`TimeLedger`),
`NobodyUnwarned` (`UnaskedWaitBounded`, by itself once `TimeLedger` holds: the time
read at the check is of all that are carried, so those never asked fit in it),
`CustomersCounted` (`CustomerBook`), `IncomesBooked` (`IncomeBook`),
`ChargedForBasket` (`BillMatchesBasket`), `ReportComplete` (`ReportCoversDue`),
`ReportWritten` (`ReportSurvives`, inductive by itself). The three ledgers are not
inductive: a store writes what a register holds. `IInv` adds that a thread in the
middle of an update or a shift holds the lock unless that lock is destroyed
(`LocksHeld`), and that what it has loaded is still there (`RegsFresh`).
`BillMatchesBasket` speaks of a total computed order by order: `BasketsPriced` says
that the total is at every moment the price of the basket, that all its items are
of the shop of the order, and what the locals are before the first one.
`ReportCoversDue` must hold when the locks are gone and updates are lost:
`DueCovered` says that nothing stored, loaded in a register or read by the handler
so far falls below the part of those told of the arrival, who are no longer at any
update.

`Refinement` (`ImplementsBooks`), there too, under the further assumption that
Ctrl-C is not in `Env`: any threads, orders, clients that go away and failing
`accept`s. The initial states map to one another (`BooksStart`), and each
step maps to a step of the books (`SeenAssignment` ... `SeenRest`) or to none
(`UnseenSteps`, `UnseenCustomer`). `RegsFresh` makes a store the abstract
addition, `LocksHeld` makes the man's shift his alone.

`DeliverySession_proofs`, for any number of clients, orders and failures:
`SessionInvariance` (`SessionIInv`), `StaysInStep` (`InStep`), `ArrivalAwaited`
(`WaitedForArrival`), `SessionServes`, `SessionCharged` (`BillMatchesBasket`). The
first properties are not inductive: a client reads what was sent some steps ago.
`Conversing` says, wherever client and thread are, which messages are on the
way. "confirm" is answered by two messages if the client is not asked, and by one
besides the question if it is, so it looks at whether the thread has asked
(`answer`), and a client behind "please wait" has a delivery man. The steps of other
threads leave a conversation alone (`OtherThread`), but for ending the process.
`SessionServes` is a refinement: every step of the session is a step of
`DeliveryServer` or leaves it alone, so its safety theorems hold of the session.

`DisplayWriters_proofs`, for any processes, numbers, names, frames, cuts and width
of int: `Invariance`, `CleanUnload` (`NothingLeft`), `PinsOwn` (`PinsExclusive`),
`LightsExplained` (`LitByWriter`), `DarkInTheEnd` (`Dark`), `NumberShown`
(`DigitsShown`). `NothingLeft` needs
to know whose each pin is at every step of init (`PinsOwned`, `HeldMarked`) and
what is registered by then (`Registered`). `Dark` follows from `LitByWriter`
because a writer that has come to its end has written a blank frame last, and
a frame once begun has every position '0' or '1' (`FramesKept`), so nothing of an
older frame survives it; for that, a writer must have had the file open
all along (`FilesOpen`). `DigitsShown` needs three things: the frames shown, the
one under way and those of the script are the digits in order (`DigitsKept`);
frames of different digits differ (`DigitRead`), on the four LEDs as on the seven
segments; and the digits taken off the reverse, when it has not wrapped
(`ReversedFits`), make the number up, but for zeros (`DigitsMakeUp`, from
`ReversedTwice`).

`TrainServer_proofs`, for any connections, trains, descriptors and queue: `Invariance`,
`ZombiesMet` (`NoneForgotten`), `TrainsApart` (`OneTrainEach`). The last needs
that main forks with a connection no train has had (`BeforeFork`), and for that
the queue holds each connection once and none that was accepted (`WaitOnce`).

`GuessGame_proofs`, for any secrets, upper bounds, width of int, lateness of
answers and number of runs: `Invariance`, `SecretBracketed` (`Bracketed`),
`FoundTruly` (`FoundIsSecret`), `RangeHalved` (`Halved`). None is inductive: what
the bounds become depends on the word in the segment. `IInv` says at each step whether
that word is the answer to the guess beside it (`Answered`) or one an earlier run
or a late handler has left. The range is halved by any word, an old one included, as
the guess is still the middle of the bounds when the word is read (`Aimed`).

`BankServer_proofs`, for any clients, operations, amounts, repetitions and width
of int, and both servers: `Invariance`, `NotPostedTwice` (`PostedOnce`), `Statement`
(`StatementAddsUp`), `NoLostUpdate` (`Ledger`). The statement of the account adds up
because one thread is in the section (`OneInside`), the balance it loaded is the
balance (`Loaded`) and the line before it is printed (`Printed`). The balance wraps
and the sum of what was posted does not, so the step of `Ledger` is that wrapping
a sum after each addition is wrapping it once. `PostedOnce` needs the life of a
connection (`Flow`): a handler that is about to store has received its client's
transaction and posted nothing, or its client died and the server is `server.c`.

`TakeawayServer_proofs`, for any clients, lines and number of lines:
`Invariance`, `AllShown` (`OrderShown`), `BillRight` (`BillMatchesOrders`). The
server counts an item before it looks at the shop, so neither follows from one
step: `Counted` says that the table holds what was ordered in the current shop,
and that nothing is in it before there is one; `Streams` says whom the server
has replied to. The bill then adds up because nothing of another shop was
accepted, whatever the table holds of it.

Model-checked only: liveness and what a step leads to (`ConfirmedServed`,
`AnsweredServed`, `WaitIsOver`, `Finishes`, `SentIsPosted`, `ReaderCatchesUp`,
`Collected`, `AcceptedInTheEnd`), which rest on fairness and so on ENABLED.

## 6. Not modelled

hw3: the 40-element `thread[]`, 32 bit overflow, undefined input (section 2), a
second SIGINT, the socket helpers. lab7: a second guess process at once, and a
SIGINT to `game.c` before `shmget`. lab6: failures of `pthread_create`, a client
without a server. lab1 and lab3: `etx_read` (it returns 0 and changes nothing),
`gpio_export`, and input that is no number. lab4: letters outside 'A' to 'Z' (`demo.sh` passes small ones: the index is
beyond the table) and the drawing of `seg.py`: it takes any byte but zero for a
lit segment (lines 51-54), the '0' of a blank frame included, so neither `Dark` nor
`ReaderCatchesUp` says that its window ends dark. lab5: `server.c` and `client.c`.

Some outcomes the models contain and no property calls wrong, since no text of the
repository does: a late answer of lab7 that narrows the range by the wrong half
(`InTime` is a condition of `Bracketed`, `FoundIsSecret` and `Finishes`, not of `Halved`);
the number that wraps when lab3 reverses it (`Fits` in `DigitsShown`); the digits of two
numbers mixed on a display that two programs write (`LitByWriter` explains each position
by itself); `server.c` posting an unset buffer (exempt in `PostedOnce`); lab5's trains
on the terminal once the descriptors are used up.

One thing the models show that no text of the repository contradicts:
`guess.c:22` gives up when the bounds have met. By `Bracketed` the number left
is then the secret, which is never guessed; the program ends with an error.

## 7. Plan

1. Done: the modules of section 2 and the proofs of section 5.
2. Left, and worth adding: the second `guess` process on one segment, the second
   SIGINT of hw3, and the hazards `PROJECT.json` lists with no property. What is
   proved of the delivery server holds in the session through `SessionServes`, so
   a new client needs only its own conversation.
