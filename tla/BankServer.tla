----------------------------- MODULE BankServer -----------------------------
(***************************************************************************)
(* The bank account of lab6_new: clients (client.c) that each send one     *)
(* transaction per connection, and a server that starts a detached thread  *)
(* for every connection it accepts and keeps one balance behind a          *)
(* semaphore.  The repository has two servers, server.c and server_test.c. *)
(* They differ in how handle_client receives: server.c reads one           *)
(* transaction and never looks at what recv returned, server_test.c reads  *)
(* until recv returns no byte.  The variable program says which one runs.  *)
(*                                                                         *)
(* A transaction keeps what strcmp tells apart, its operation, and its     *)
(* amount.  The balance is an int: it wraps outside IntMin .. IntMax.      *)
(***************************************************************************)
EXTENDS Sums

CONSTANTS
    Clients,    \* the client processes
    Operation,  \* the word each was started with, argv[3] (client.c:23)
    Amount,     \* the amount each was started with, argv[4] (client.c:24)
    Times,      \* how often each sends it, argv[5] (client.c:25)
    IntMax      \* the largest int of the machine modelled

ASSUME ClientsAssumption == IsFiniteSet(Clients)
ASSUME JobAssumption == /\ Operation \in [Clients -> STRING]
                        /\ Amount \in [Clients -> Int]
                        /\ Times \in [Clients -> Nat]
ASSUME IntAssumption == IntMax \in Nat

VARIABLES
    program,    \* the server that runs
    round,      \* the loop counter i of each client (client.c:44), from 1
    at,         \* where each client stands in its loop
    sock,       \* what has arrived on each connection
    pc,         \* where the handler of each connection stands
    transaction,\* the local transaction of each handler
    reg,        \* the balance a handler has loaded and not stored yet
    semaphore,  \* the value of the semaphore
    balance,    \* account_balance
    printed,    \* the balance of the line printed last
    posted      \* history: what each handler has added to the balance

vars == <<program, round, at, sock, pc, transaction, reg, semaphore, balance,
          printed, posted>>
clientVars == <<round, at>>
accountVars == <<balance, printed, posted>>

IntMin == - IntMax - 1
Wrap(n) == IntMin + ((n - IntMin) % (2 * (IntMax + 1)))

\* The n-th connection a client opens.
Connections == UNION {{c} \X (1 .. Times[c]) : c \in Clients}
Owner(k) == k[1]
Job(c) == [operation |-> Operation[c], amount |-> Wrap(Amount[c])]
Transactions == {Job(c) : c \in Clients}

\* No transaction has been received into the variable yet.
Blank == [operation |-> "blank", amount |-> 0]

\* What a transaction adds to the balance.
Delta(t) == CASE t.operation = "deposit"  -> t.amount
              [] t.operation = "withdraw" -> - t.amount
              [] OTHER                    -> 0
Known(t) == t.operation \in {"deposit", "withdraw"}

-----------------------------------------------------------------------------
(* The client, client.c.                                                   *)

Now(c) == <<c, round[c]>>

\* socket and connect: the connection waits in the server's backlog.
Connect(c) ==
    /\ at[c] = "connect"
    /\ round[c] <= Times[c]
    /\ at' = [at EXCEPT ![c] = "send"]
    /\ pc' = [pc EXCEPT ![Now(c)] = "backlog"]
    /\ UNCHANGED <<program, round, sock, transaction, reg, semaphore, accountVars>>

\* send, close and the next round.
Send(c) ==
    /\ at[c] = "send"
    /\ sock' = [sock EXCEPT ![Now(c)] = "request"]
    /\ at' = [at EXCEPT ![c] = "connect"]
    /\ round' = [round EXCEPT ![c] = @ + 1]
    /\ UNCHANGED <<program, pc, transaction, reg, semaphore, accountVars>>

\* The client is killed between connect and send: the server sees the end of
\* the stream and no transaction.
Killed(c) ==
    /\ at[c] = "send"
    /\ sock' = [sock EXCEPT ![Now(c)] = "eof"]
    /\ at' = [at EXCEPT ![c] = "dead"]
    /\ UNCHANGED <<program, round, pc, transaction, reg, semaphore, accountVars>>

-----------------------------------------------------------------------------
(* The server.  handle_client(k) is the thread of connection k.            *)

\* accept, malloc, pthread_create and pthread_detach.
Accept(k) ==
    /\ pc[k] = "backlog"
    /\ pc' = [pc EXCEPT ![k] = "recv"]
    /\ UNCHANGED <<program, clientVars, sock, transaction, reg, semaphore, accountVars>>

\* The transaction is read; the end of the stream, which the client's close
\* put behind it, stays.
Recv(k) ==
    /\ pc[k] = "recv"
    /\ sock[k] = "request"
    /\ transaction' = [transaction EXCEPT ![k] = Job(Owner(k))]
    /\ sock' = [sock EXCEPT ![k] = "eof"]
    /\ pc' = [pc EXCEPT ![k] = "wait"]
    /\ UNCHANGED <<program, clientVars, reg, semaphore, accountVars>>

\* server.c goes on with what recv left in transaction: the variable was never
\* written, and holds what an earlier thread left on that stack.
RecvNothing(k) ==
    /\ program = "server"
    /\ pc[k] = "recv"
    /\ sock[k] = "eof"
    /\ \E t \in Transactions \cup {Blank} :
           transaction' = [transaction EXCEPT ![k] = t]
    /\ pc' = [pc EXCEPT ![k] = "wait"]
    /\ UNCHANGED <<program, clientVars, sock, reg, semaphore, accountVars>>

\* Mutant of RecvEnd: the result of recv is not looked at, as in server.c.
RecvEndUnchecked(k) ==
    /\ program = "server_test"
    /\ pc[k] = "recv"
    /\ sock[k] = "eof"
    /\ pc' = [pc EXCEPT ![k] = "wait"]
    /\ UNCHANGED <<program, clientVars, sock, transaction, reg, semaphore, accountVars>>

\* server_test.c leaves its loop when no byte came, and closes the socket.
RecvEnd(k) ==
    /\ program = "server_test"
    /\ pc[k] = "recv"
    /\ sock[k] = "eof"
    /\ pc' = [pc EXCEPT ![k] = "closed"]
    /\ UNCHANGED <<program, clientVars, sock, transaction, reg, semaphore, accountVars>>

\* sem_wait and the two strcmp: a deposit or a withdrawal loads the balance,
\* any other word leaves it alone.
Branch(k) ==
    IF Known(transaction[k])
    THEN /\ reg' = [reg EXCEPT ![k] = balance]
         /\ pc' = [pc EXCEPT ![k] = "store"]
    ELSE /\ pc' = [pc EXCEPT ![k] = "post"]
         /\ UNCHANGED reg

\* Mutant of Wait: the semaphore is not taken.
WaitUnguarded(k) ==
    /\ pc[k] = "wait"
    /\ Branch(k)
    /\ UNCHANGED <<program, clientVars, sock, transaction, semaphore, accountVars>>

Wait(k) ==
    /\ pc[k] = "wait"
    /\ semaphore > 0
    /\ semaphore' = semaphore - 1
    /\ Branch(k)
    /\ UNCHANGED <<program, clientVars, sock, transaction, accountVars>>

\* Mutant of Store: the sum is kept as it is, wider than an int.
StoreWide(k) ==
    /\ pc[k] = "store"
    /\ balance' = reg[k] + Delta(transaction[k])
    /\ posted' = [posted EXCEPT ![k] = @ + Delta(transaction[k])]
    /\ reg' = [reg EXCEPT ![k] = 0]
    /\ pc' = [pc EXCEPT ![k] = "print"]
    /\ UNCHANGED <<program, clientVars, sock, transaction, semaphore, printed>>

\* Mutant of Store: the sem_post that stands in a comment behind the
\* subtraction (server.c:36) is made there as well.
StorePosting(k) ==
    /\ pc[k] = "store"
    /\ balance' = Wrap(reg[k] + Delta(transaction[k]))
    /\ posted' = [posted EXCEPT ![k] = @ + Delta(transaction[k])]
    /\ semaphore' = semaphore + 1
    /\ reg' = [reg EXCEPT ![k] = 0]
    /\ pc' = [pc EXCEPT ![k] = "print"]
    /\ UNCHANGED <<program, clientVars, sock, transaction, printed>>

\* The store of account_balance += amount and account_balance -= amount;
\* the loaded value is dead behind it.
Store(k) ==
    /\ pc[k] = "store"
    /\ balance' = Wrap(reg[k] + Delta(transaction[k]))
    /\ posted' = [posted EXCEPT ![k] = @ + Delta(transaction[k])]
    /\ reg' = [reg EXCEPT ![k] = 0]
    /\ pc' = [pc EXCEPT ![k] = "print"]
    /\ UNCHANGED <<program, clientVars, sock, transaction, semaphore, printed>>

\* "After deposit: %d" and "After withdraw: %d" read the balance once more.
PrintBalance(k) ==
    /\ pc[k] = "print"
    /\ printed' = balance
    /\ pc' = [pc EXCEPT ![k] = "post"]
    /\ UNCHANGED <<program, clientVars, sock, transaction, reg, semaphore, balance, posted>>

\* sem_post; server.c then closes the socket, server_test.c receives again.
Onwards == IF program = "server" THEN "closed" ELSE "recv"

\* Mutant of Post: the semaphore is given back in the two branches only.
PostInBranches(k) ==
    /\ pc[k] = "post"
    /\ semaphore' = IF Known(transaction[k]) THEN semaphore + 1 ELSE semaphore
    /\ pc' = [pc EXCEPT ![k] = Onwards]
    /\ UNCHANGED <<program, clientVars, sock, transaction, reg, accountVars>>

Post(k) ==
    /\ pc[k] = "post"
    /\ semaphore' = semaphore + 1
    /\ pc' = [pc EXCEPT ![k] = Onwards]
    /\ UNCHANGED <<program, clientVars, sock, transaction, reg, accountVars>>

handle_client(k) ==
    \/ Recv(k)
    \/ RecvNothing(k)
    \/ RecvEnd(k)
    \/ Wait(k)
    \/ Store(k)
    \/ PrintBalance(k)
    \/ Post(k)

-----------------------------------------------------------------------------
Init ==
    /\ program \in {"server", "server_test"}
    /\ round = [c \in Clients |-> 1]
    /\ at = [c \in Clients |-> "connect"]
    /\ sock = [k \in Connections |-> "empty"]
    /\ pc = [k \in Connections |-> "none"]
    /\ transaction = [k \in Connections |-> Blank]
    /\ reg = [k \in Connections |-> 0]
    /\ semaphore = 1
    /\ balance = 0
    /\ printed = 0
    /\ posted = [k \in Connections |-> 0]

Server == \E k \in Connections : Accept(k) \/ handle_client(k)

Next ==
    \/ \E c \in Clients : Connect(c) \/ Send(c) \/ Killed(c)
    \/ Server

\* The accepting thread and every handler are scheduled; a client owes the
\* server nothing.
Fairness == \A k \in Connections : WF_vars(Accept(k) \/ handle_client(k))

Spec == Init /\ [][Next]_vars /\ Fairness

-----------------------------------------------------------------------------
\* The values the variables take.
TypeOK ==
    /\ program \in {"server", "server_test"}
    /\ round \in [Clients -> Nat \ {0}]
    /\ at \in [Clients -> {"connect", "send", "dead"}]
    /\ sock \in [Connections -> {"empty", "request", "eof"}]
    /\ pc \in [Connections -> {"none", "backlog", "recv", "wait", "store", "print",
                               "post", "closed"}]
    /\ transaction \in [Connections -> Transactions \cup {Blank}]
    /\ reg \in [Connections -> IntMin .. IntMax]
    /\ semaphore \in {0, 1}
    /\ balance \in IntMin .. IntMax
    /\ printed \in IntMin .. IntMax
    /\ posted \in [Connections -> Int]

\* No update of the balance is lost between the threads: it is, as an int, what
\* all the transactions posted so far add up to (server.c:26-39).
Ledger == balance = Wrap(SumOf(posted, Connections))

\* A transaction that was sent is posted at most once, however often its handler
\* goes round its receive loop; one that was never sent is posted by server.c
\* only, which acts on a transaction it did not receive.
PostedOnce ==
    \A k \in Connections :
        \/ posted[k] = 0
        \/ posted[k] = Delta(Job(Owner(k))) /\ k[2] < round[Owner(k)]
        \/ program = "server" /\ k = Now(Owner(k)) /\ at[Owner(k)] = "dead"

\* What makes the last two and StatementAddsUp inductive.  One thread at a time
\* is behind sem_wait; the balance it has loaded is the balance; and the line
\* printed last is the balance, or the sum one thread is about to print.
InSection == {k \in Connections : pc[k] \in {"store", "print", "post"}}

OneInside ==
    /\ InSection # {} => semaphore = 0
    /\ \A j, k \in InSection : j = k

Loaded ==
    \A k \in Connections :
        /\ pc[k] = "store" => reg[k] = balance
        /\ pc[k] = "print" => balance = Wrap(printed + Delta(transaction[k]))

Printed == (\A k \in Connections : pc[k] # "print") => printed = balance

\* A connection from its client's connect to the end of its handler.
Flow ==
    \A k \in Connections :
        LET c == Owner(k)
            sent == k[2] < round[c]
        IN  /\ pc[k] \in {"none", "backlog"} => posted[k] = 0
            /\ sock[k] # "eof" => posted[k] = 0 /\ pc[k] \in {"none", "backlog", "recv"}
            /\ ~ sent => \/ sock[k] = "empty"
                         \/ sock[k] = "eof" /\ k = Now(c) /\ at[c] = "dead"
            /\ sent /\ pc[k] \in {"wait", "store"} =>
                   posted[k] = 0 /\ transaction[k] = Job(c)
            /\ sent /\ sock[k] = "eof" =>
                   pc[k] \notin {"none", "backlog"} /\ (program = "server" => pc[k] # "recv")
            /\ ~ sent /\ program = "server_test" =>
                   posted[k] = 0 /\ pc[k] \in {"none", "backlog", "recv", "closed"}

IInv == TypeOK /\ OneInside /\ Loaded /\ Printed /\ Flow /\ PostedOnce

\* The lines of the server's output are a statement of the account: each is the
\* line before plus the transaction it is printed for (server.c:30-31, 35-37).
StatementAddsUp ==
    [][\A k \in Connections :
           PrintBalance(k) => printed' = Wrap(printed + Delta(transaction[k]))]_vars

\* A transaction that was sent is posted and its connection is closed, whatever
\* the other clients send, an operation the server does not know included.
SentIsPosted ==
    \A k \in Connections :
        sock[k] = "request" ~> pc[k] = "closed" /\ posted[k] = Delta(Job(Owner(k)))
=============================================================================
