-------------------------- MODULE BankServer_proofs -------------------------
(***************************************************************************)
(* Proofs about BankServer, for every set of clients, their transactions   *)
(* and how often they send them, and every width of int.                   *)
(***************************************************************************)
EXTENDS BankServer, Data_proofs, TLAPS

\* The remainder of C's int arithmetic is an int.
LEMMA WrapType ==
  ASSUME NEW n \in Int
  PROVE  Wrap(n) \in IntMin .. IntMax
<1> DEFINE b == 2 * (IntMax + 1)
<1>1. b \in Nat \ {0}
  BY IntAssumption
<1>2. (n - IntMin) % b \in 0 .. (b - 1)
  BY <1>1, IntAssumption DEF IntMin
<1> QED
  BY <1>2, IntAssumption DEF Wrap, IntMin

\* Division with remainder.
LEMMA Remainder ==
  ASSUME NEW M \in Nat \ {0}, NEW a \in Int, NEW q \in Int
  PROVE  (a + M * q) % M = a % M
<1> DEFINE r == a % M
           d == a \div M
<1>1. r \in 0 .. (M - 1) /\ d \in Int /\ a = M * d + r
  BY Z3
<1> HIDE DEF r, d
<1>2. a + M * q = M * (d + q) + r
  BY <1>1
<1>3. \A k \in Int : (M * k + r) % M = r
  BY <1>1
<1>4. d + q \in Int
  BY <1>1
<1>5. (a + M * q) % M = r
  BY <1>2, <1>3, <1>4
<1> QED
  BY <1>5 DEF r

\* Wrapping before an addition makes no difference behind it.
LEMMA WrapAdd ==
  ASSUME NEW n \in Int, NEW d \in Int
  PROVE  Wrap(Wrap(n) + d) = Wrap(n + d)
<1> DEFINE M == 2 * (IntMax + 1)
           a == n - IntMin
           r == a % M
           q == 0 - (a \div M)
<1>1. M \in Nat \ {0} /\ IntMin \in Int /\ a \in Int
  BY IntAssumption DEF IntMin
<1> HIDE DEF M, a
<1>2. r \in Int /\ q \in Int /\ r = a + M * q
  BY <1>1
<1>3. Wrap(n) = IntMin + r
  BY DEF Wrap, M, a
<1> HIDE DEF r, q
<1>4. a = n - IntMin
  BY DEF a
<1> DEFINE e == n + d - IntMin
<1>5. (IntMin + r) + d - IntMin = e + M * q /\ e \in Int
  <2>1. M * q \in Int
    BY <1>1, <1>2
  <2> DEFINE p == M * q
  <2> HIDE DEF p
  <2>2. p \in Int /\ r = a + p
    BY <1>2, <2>1 DEF p
  <2>3. (IntMin + r) + d - IntMin = e + p /\ e \in Int
    BY <1>1, <1>2, <1>4, <2>2
  <2> QED
    BY <2>3 DEF p
<1>6. (e + M * q) % M = e % M
  BY <1>1, <1>2, <1>5, Remainder
<1>7. \A k \in Int : Wrap(k) = IntMin + ((k - IntMin) % M)
  BY DEF Wrap, M
<1> DEFINE w == n + d
           v == (IntMin + r) + d
<1>8. w \in Int /\ v \in Int /\ w - IntMin = e /\ v - IntMin = e + M * q
  BY <1>1, <1>2, <1>5
<1>9. v = Wrap(n) + d
  BY <1>3
<1> HIDE DEF e, w, v
<1>10. Wrap(w) = IntMin + (e % M) /\ Wrap(v) = IntMin + ((e + M * q) % M)
  BY <1>7, <1>8
<1> QED
  BY <1>6, <1>9, <1>10 DEF w

\* Zero is an int.
LEMMA WrapZero == Wrap(0) = 0
<1> DEFINE M == 2 * (IntMax + 1)
           m == IntMax + 1
<1>1. 0 - IntMin = m /\ m \in 0 .. (M - 1) /\ M \in Nat \ {0} /\ m \in Nat /\ IntMin = 0 - m
  BY IntAssumption DEF IntMin
<1> HIDE DEF M, m
<1>2. m % M = m
  BY <1>1
<1>3. Wrap(0) = IntMin + (m % M)
  BY <1>1 DEF Wrap, M
<1> QED
  BY <1>1, <1>2, <1>3

LEMMA IntRange == 0 \in IntMin .. IntMax /\ IntMin .. IntMax \subseteq Int
BY IntAssumption DEF IntMin

\* There are as many connections as the clients open, finitely many.
LEMMA ConnectionsFinite == IsFiniteSet(Connections)
<1> DEFINE Calls(c) == {c} \X (1 .. Times[c])
           F == [c \in Clients |-> Calls(c)]
           S == {Calls(c) : c \in Clients}
<1>1. \A c \in Clients : IsFiniteSet(Calls(c))
  <2> SUFFICES ASSUME NEW c \in Clients PROVE IsFiniteSet(Calls(c))
    OBVIOUS
  <2>1. Times[c] \in Int
    BY JobAssumption
  <2>2. IsFiniteSet(1 .. Times[c])
    BY <2>1, FS_Interval
  <2>3. IsFiniteSet({c})
    BY FS_Singleton
  <2> QED
    BY <2>2, <2>3, FS_Product
<1>2. F \in Surjection(Clients, S)
  BY DEF Surjection
<1>3. IsFiniteSet(S)
  BY <1>2, ClientsAssumption, FS_Surjection
<1>4. IsFiniteSet(UNION S)
  BY <1>1, <1>3, FS_UNION
<1> QED
  BY <1>4 DEF Connections

\* A connection is a client and the number of its round.
LEMMA ConnectionType ==
  \A k \in Connections : k[1] \in Clients /\ k[2] \in Nat /\ k = <<k[1], k[2]>>
BY DEF Connections

\* What a handler adds is an integer, whatever it has received.
LEMMA DeltaType ==
  \A t \in Transactions \cup {Blank} : Delta(t) \in Int
<1>1. ASSUME NEW c \in Clients PROVE Job(c).amount \in Int
  BY <1>1, WrapType, IntRange, JobAssumption DEF Job
<1>2. Blank.amount \in Int
  BY DEF Blank
<1>3. \A t \in Transactions \cup {Blank} : t.amount \in Int
  BY <1>1, <1>2 DEF Transactions
<1> QED
  BY <1>3 DEF Delta

LEMMA Initial == Init => IInv
<1> SUFFICES ASSUME Init PROVE IInv
  OBVIOUS
<1>1. TypeOK
  BY IntRange DEF Init, TypeOK
<1>2. OneInside /\ Printed /\ PostedOnce
  BY DEF Init, OneInside, InSection, Printed, PostedOnce
<1>3. Loaded
  BY DEF Init, Loaded
<1>4. Flow
  BY ConnectionType DEF Init, Flow
<1> QED
  BY <1>1, <1>2, <1>3, <1>4 DEF IInv

-----------------------------------------------------------------------------
(* The clients move no handler that is at work.                            *)

LEMMA ConnectStep ==
  ASSUME IInv, NEW c \in Clients, Connect(c)
  PROVE  IInv'
<1> USE DEF IInv, clientVars, accountVars
<1>1. at[c] = "connect" /\ at' = [at EXCEPT ![c] = "send"]
      /\ pc' = [pc EXCEPT ![Now(c)] = "backlog"]
      /\ UNCHANGED <<program, round, sock, transaction, reg, semaphore, balance, printed, posted>>
  BY DEF Connect
<1>2. Now(c) \in Connections =>
        sock[Now(c)] = "empty" /\ pc[Now(c)] \in {"none", "backlog", "recv"} /\ posted[Now(c)] = 0
  BY <1>1, ConnectionType DEF Flow, Now, Owner, TypeOK
<1>3. TypeOK'
  BY <1>1 DEF TypeOK
<1>4. InSection' = InSection
  BY <1>1, <1>2 DEF InSection, TypeOK
<1>5. OneInside' /\ Loaded' /\ Printed'
  BY <1>1, <1>2, <1>4 DEF OneInside, Loaded, Printed, TypeOK
<1>6. PostedOnce'
  BY <1>1, ConnectionType DEF PostedOnce, TypeOK, Now, Owner
<1>7. Flow'
  BY <1>1, <1>2, ConnectionType DEF Flow, TypeOK, Now, Owner
<1> QED
  BY <1>3, <1>5, <1>6, <1>7

LEMMA SendStep ==
  ASSUME IInv, NEW c \in Clients, Send(c) \/ Killed(c)
  PROVE  IInv'
<1> USE DEF IInv, clientVars, accountVars
<1>1. at[c] = "send"
      /\ UNCHANGED <<program, pc, transaction, reg, semaphore, balance, printed, posted>>
  BY DEF Send, Killed
<1>2. \/ /\ sock' = [sock EXCEPT ![Now(c)] = "request"]
         /\ at' = [at EXCEPT ![c] = "connect"]
         /\ round' = [round EXCEPT ![c] = @ + 1]
      \/ /\ sock' = [sock EXCEPT ![Now(c)] = "eof"]
         /\ at' = [at EXCEPT ![c] = "dead"]
         /\ round' = round
  BY DEF Send, Killed
<1>3. TypeOK'
  BY <1>1, <1>2 DEF TypeOK
<1>4. OneInside' /\ Loaded' /\ Printed'
  BY <1>1 DEF OneInside, InSection, Loaded, Printed
<1>5. Now(c) \in Connections =>
        sock[Now(c)] = "empty" /\ pc[Now(c)] \in {"none", "backlog", "recv"} /\ posted[Now(c)] = 0
  BY <1>1, ConnectionType DEF Flow, Now, Owner, TypeOK
<1>6. \A k \in Connections :
        /\ k[1] # c => round'[k[1]] = round[k[1]] /\ at'[k[1]] = at[k[1]]
        /\ k # Now(c) => sock'[k] = sock[k]
        /\ k = Now(c) => sock'[k] \in {"request", "eof"}
  BY <1>2, ConnectionType DEF TypeOK, Now
<1>7. PostedOnce'
  BY <1>1, <1>2, <1>5, <1>6, ConnectionType DEF PostedOnce, TypeOK, Now, Owner
<1>8. Flow'
  <2> SUFFICES ASSUME NEW k \in Connections
               PROVE  /\ pc[k] \in {"none", "backlog"} => posted[k] = 0
                      /\ sock'[k] # "eof" => posted[k] = 0 /\ pc[k] \in {"none", "backlog", "recv"}
                      /\ ~ k[2] < round'[k[1]] =>
                           \/ sock'[k] = "empty"
                           \/ sock'[k] = "eof" /\ k = Now(k[1])' /\ at'[k[1]] = "dead"
                      /\ k[2] < round'[k[1]] /\ pc[k] \in {"wait", "store"} =>
                           posted[k] = 0 /\ transaction[k] = Job(k[1])
                      /\ k[2] < round'[k[1]] /\ sock'[k] = "eof" =>
                           pc[k] \notin {"none", "backlog"} /\ (program = "server" => pc[k] # "recv")
                      /\ ~ k[2] < round'[k[1]] /\ program = "server_test" =>
                           posted[k] = 0 /\ pc[k] \in {"none", "backlog", "recv", "closed"}
    BY <1>1 DEF Flow, Owner
  <2>1. k[1] \in Clients /\ k[2] \in Nat /\ k = <<k[1], k[2]>> /\ round[c] \in Nat
    BY ConnectionType DEF TypeOK
  <2>2. CASE k = Now(c)
    <3>1. k[1] = c /\ k[2] = round[c] /\ k[2] \in Nat
      BY <2>1, <2>2 DEF Now
    <3>2. /\ posted[k] = 0 /\ pc[k] \in {"none", "backlog", "recv"}
      BY <1>5, <2>2
    <3>3. \/ sock'[k] = "request" /\ k[2] < round'[k[1]]
          \/ sock'[k] = "eof" /\ ~ k[2] < round'[k[1]] /\ k = Now(k[1])' /\ at'[k[1]] = "dead"
      <4>1. CASE Send(c)
        BY <4>1, <2>2, <3>1 DEF Send, TypeOK
      <4>2. CASE Killed(c)
        BY <4>2, <2>2, <3>1 DEF Killed, TypeOK, Now
      <4> QED
        BY <4>1, <4>2
    <3> QED
      BY <3>2, <3>3
  <2>3. CASE k # Now(c)
    <3>1. sock'[k] = sock[k]
      BY <1>6, <2>3
    <3>2. k[2] < round'[k[1]] <=> k[2] < round[k[1]]
      <4>1. CASE k[1] = c
        <5>1. k[2] # round[c]
          BY <2>1, <2>3, <4>1 DEF Now
        <5>2. round'[c] \in {round[c], round[c] + 1}
          BY <1>2 DEF TypeOK
        <5> QED
          BY <2>1, <4>1, <5>1, <5>2
      <4>2. CASE k[1] # c
        BY <1>6, <4>2
      <4> QED
        BY <4>1, <4>2
    <3>3. k = Now(k[1]) /\ at[k[1]] = "dead" => k = Now(k[1])' /\ at'[k[1]] = "dead"
      BY <1>1, <1>6, <2>1, <2>3 DEF Now
    <3> QED
      BY <3>1, <3>2, <3>3 DEF Flow, Owner
  <2> QED
    BY <2>2, <2>3
<1> QED
  BY <1>3, <1>4, <1>7, <1>8

-----------------------------------------------------------------------------
(* The handlers.                                                           *)

\* What holds of a connection is not disturbed by the handler of another.
LEMMA Elsewhere ==
  ASSUME IInv, NEW k \in Connections,
         UNCHANGED <<program, round, at>>,
         \A j \in Connections \ {k} :
             /\ sock'[j] = sock[j]
             /\ pc'[j] = pc[j]
             /\ transaction'[j] = transaction[j]
             /\ posted'[j] = posted[j],
         LET c == Owner(k)
             sent == k[2] < round[c]
         IN  /\ pc'[k] \in {"none", "backlog"} => posted'[k] = 0
             /\ sock'[k] # "eof" => posted'[k] = 0 /\ pc'[k] \in {"none", "backlog", "recv"}
             /\ ~ sent => \/ sock'[k] = "empty"
                          \/ sock'[k] = "eof" /\ k = Now(c) /\ at[c] = "dead"
             /\ sent /\ pc'[k] \in {"wait", "store"} =>
                    posted'[k] = 0 /\ transaction'[k] = Job(c)
             /\ sent /\ sock'[k] = "eof" =>
                    pc'[k] \notin {"none", "backlog"} /\ (program = "server" => pc'[k] # "recv")
             /\ ~ sent /\ program = "server_test" =>
                    posted'[k] = 0 /\ pc'[k] \in {"none", "backlog", "recv", "closed"},
         \/ posted'[k] = 0
         \/ posted'[k] = Delta(Job(Owner(k))) /\ k[2] < round[Owner(k)]
         \/ program = "server" /\ k = Now(Owner(k)) /\ at[Owner(k)] = "dead"
  PROVE  Flow' /\ PostedOnce'
<1> USE DEF IInv
<1>1. Flow'
  BY DEF Flow, Owner, Now
<1>2. PostedOnce'
  BY DEF PostedOnce, Owner, Now
<1> QED
  BY <1>1, <1>2

\* A thread behind sem_wait is the only one, and the balance has been printed
\* unless it is the one to print it.
LEMMA Inside ==
  ASSUME IInv, NEW k \in InSection
  PROVE  /\ semaphore = 0
         /\ \A j \in Connections \ {k} : pc[j] \notin {"store", "print", "post"}
         /\ pc[k] # "print" => printed = balance
<1> USE DEF IInv
<1>1. semaphore = 0 /\ \A j \in InSection : j = k
  BY DEF OneInside
<1>2. \A j \in Connections \ {k} : pc[j] \notin {"store", "print", "post"}
  BY <1>1 DEF InSection
<1> QED
  BY <1>1, <1>2 DEF Printed

\* Outside the section a handler moves without the account.
LEMMA OutsideStep ==
  ASSUME IInv, NEW k \in Connections,
         Accept(k) \/ Recv(k) \/ RecvNothing(k) \/ RecvEnd(k)
  PROVE  IInv'
<1> USE DEF IInv, clientVars, accountVars
<1>1. /\ UNCHANGED <<program, round, at, reg, semaphore, balance, printed, posted>>
      /\ pc[k] \in {"backlog", "recv"}
      /\ \E l \in {"recv", "wait", "closed"} : pc' = [pc EXCEPT ![k] = l]
      /\ \E t \in Transactions \cup {Blank} :
             transaction' \in {transaction, [transaction EXCEPT ![k] = t]}
      /\ sock' \in {sock, [sock EXCEPT ![k] = "eof"]}
  <2>1. Job(Owner(k)) \in Transactions
    BY ConnectionType DEF Owner, Transactions
  <2> QED
    BY <2>1 DEF Accept, Recv, RecvNothing, RecvEnd
<1>2. TypeOK'
  <2>1. pc' \in [Connections -> {"none", "backlog", "recv", "wait", "store", "print",
                                 "post", "closed"}]
    BY <1>1 DEF TypeOK
  <2>2. transaction' \in [Connections -> Transactions \cup {Blank}]
    BY <1>1 DEF TypeOK
  <2>3. sock' \in [Connections -> {"empty", "request", "eof"}]
    BY <1>1 DEF TypeOK
  <2> QED
    BY <1>1, <2>1, <2>2, <2>3 DEF TypeOK
<1>3. \A j \in Connections \ {k} :
          sock'[j] = sock[j] /\ pc'[j] = pc[j] /\ transaction'[j] = transaction[j]
  BY <1>1 DEF TypeOK
<1>4. pc'[k] \in {"recv", "wait", "closed"}
  BY <1>1 DEF TypeOK
<1>5. InSection' = InSection /\ k \notin InSection
  BY <1>1, <1>3, <1>4 DEF InSection
<1>6. OneInside'
  BY <1>1, <1>5 DEF OneInside
<1>7. Loaded' /\ Printed'
  BY <1>1, <1>3, <1>4 DEF Loaded, Printed
<1>8. /\ k[2] \in Nat /\ round[Owner(k)] \in Nat
      /\ pc[k] = "backlog" => posted[k] = 0
  BY ConnectionType DEF TypeOK, Flow, Owner
<1>9. CASE Accept(k)
  <2>1. pc[k] = "backlog" /\ pc'[k] = "recv" /\ sock' = sock /\ transaction' = transaction
    BY <1>9 DEF Accept, TypeOK
  <2> QED
    BY <1>1, <1>2, <1>3, <1>6, <1>7, <1>8, <2>1, Elsewhere DEF Flow, PostedOnce
<1>10. CASE Recv(k)
  <2>1. /\ pc[k] = "recv" /\ sock[k] = "request" /\ pc'[k] = "wait" /\ sock'[k] = "eof"
        /\ transaction'[k] = Job(Owner(k))
    BY <1>10 DEF Recv, TypeOK
  <2>2. posted[k] = 0 /\ k[2] < round[Owner(k)]
    BY <2>1 DEF Flow
  <2> QED
    BY <1>1, <1>2, <1>3, <1>6, <1>7, <1>8, <2>1, <2>2, Elsewhere
<1>11. CASE RecvNothing(k)
  <2>1. program = "server" /\ pc[k] = "recv" /\ sock[k] = "eof" /\ pc'[k] = "wait" /\ sock' = sock
    BY <1>11 DEF RecvNothing, TypeOK
  <2>2. ~ k[2] < round[Owner(k)]
    BY <2>1 DEF Flow
  <2> QED
    BY <1>1, <1>2, <1>3, <1>6, <1>7, <1>8, <2>1, <2>2, Elsewhere DEF Flow, PostedOnce
<1>12. CASE RecvEnd(k)
  <2>1. /\ program = "server_test" /\ pc[k] = "recv" /\ sock[k] = "eof"
        /\ pc'[k] = "closed" /\ sock' = sock /\ transaction' = transaction
    BY <1>12 DEF RecvEnd, TypeOK
  <2> QED
    BY <1>1, <1>2, <1>3, <1>6, <1>7, <1>8, <2>1, Elsewhere DEF Flow, PostedOnce
<1> QED
  BY <1>9, <1>10, <1>11, <1>12

\* sem_wait lets one thread in, which finds the balance printed.
LEMMA WaitStep ==
  ASSUME IInv, NEW k \in Connections, Wait(k)
  PROVE  IInv'
<1> USE DEF IInv, clientVars, accountVars
<1>1. /\ pc[k] = "wait" /\ semaphore = 1 /\ semaphore' = 0
      /\ UNCHANGED <<program, round, at, sock, transaction, balance, printed, posted>>
  BY DEF Wait, TypeOK
<1>2. \/ pc' = [pc EXCEPT ![k] = "store"] /\ reg' = [reg EXCEPT ![k] = balance]
      \/ pc' = [pc EXCEPT ![k] = "post"] /\ reg' = reg
  BY DEF Wait, Branch
<1>3. TypeOK'
  BY <1>1, <1>2 DEF TypeOK
<1>4. /\ \A j \in Connections \ {k} : pc'[j] = pc[j] /\ reg'[j] = reg[j]
      /\ pc'[k] \in {"store", "post"}
      /\ pc'[k] = "store" => reg'[k] = balance
  BY <1>2 DEF TypeOK
<1>5. \A j \in Connections : pc[j] \notin {"store", "print", "post"}
  BY <1>1 DEF OneInside, InSection
<1>6. OneInside'
  BY <1>1, <1>4, <1>5 DEF OneInside, InSection
<1>7. Loaded' /\ Printed'
  BY <1>1, <1>4, <1>5 DEF Loaded, Printed
<1>8. Flow' /\ PostedOnce'
  BY <1>1, <1>4, Elsewhere DEF Flow, PostedOnce
<1> QED
  BY <1>3, <1>6, <1>7, <1>8

\* The store adds to the balance that was loaded, which is the balance still.
LEMMA StoreStep ==
  ASSUME IInv, NEW k \in Connections, Store(k)
  PROVE  IInv'
<1> USE DEF IInv, clientVars, accountVars
<1> DEFINE d == Delta(transaction[k])
<1>1. /\ pc[k] = "store" /\ pc' = [pc EXCEPT ![k] = "print"]
      /\ balance' = Wrap(reg[k] + d)
      /\ posted' = [posted EXCEPT ![k] = @ + d]
      /\ reg' = [reg EXCEPT ![k] = 0]
      /\ UNCHANGED <<program, round, at, sock, transaction, semaphore, printed>>
  BY DEF Store
<1>2. d \in Int /\ reg[k] \in Int
  BY DeltaType, IntRange DEF TypeOK
<1>3. TypeOK'
  <2>1. balance' \in IntMin .. IntMax
    BY <1>1, <1>2, WrapType
  <2>2. posted' \in [Connections -> Int]
    BY <1>1, <1>2 DEF TypeOK
  <2>3. reg' \in [Connections -> IntMin .. IntMax]
    BY <1>1, IntRange DEF TypeOK
  <2> QED
    BY <1>1, <2>1, <2>2, <2>3 DEF TypeOK
<1>4. /\ \A j \in Connections \ {k} : pc'[j] = pc[j] /\ posted'[j] = posted[j]
      /\ pc'[k] = "print" /\ posted'[k] = posted[k] + d
  BY <1>1 DEF TypeOK
<1>5. /\ semaphore = 0 /\ printed = balance
      /\ \A j \in Connections \ {k} : pc[j] \notin {"store", "print", "post"}
  BY <1>1, Inside DEF InSection
<1>6. OneInside'
  BY <1>1, <1>4, <1>5 DEF OneInside, InSection
<1>7. Loaded' /\ Printed'
  <2>1. balance' = Wrap(printed + d)
    BY <1>1, <1>5 DEF Loaded
  <2> QED
    BY <1>1, <1>4, <1>5, <2>1 DEF Loaded, Printed
<1>8. Flow' /\ PostedOnce'
  <2>1. sock[k] = "eof"
    BY <1>1 DEF Flow
  <2>2. /\ k[2] < round[Owner(k)] => posted[k] = 0 /\ transaction[k] = Job(Owner(k))
        /\ ~ k[2] < round[Owner(k)] =>
             program = "server" /\ k = Now(Owner(k)) /\ at[Owner(k)] = "dead"
    BY <1>1, <2>1 DEF Flow, TypeOK
  <2>3. k[2] < round[Owner(k)] => posted'[k] = Delta(Job(Owner(k)))
    BY <1>2, <1>4, <2>2
  <2> QED
    BY <1>1, <1>4, <2>1, <2>2, <2>3, Elsewhere DEF TypeOK
<1> QED
  BY <1>3, <1>6, <1>7, <1>8

LEMMA PrintStep ==
  ASSUME IInv, NEW k \in Connections, PrintBalance(k)
  PROVE  IInv' /\ printed' = Wrap(printed + Delta(transaction[k]))
<1> USE DEF IInv, clientVars, accountVars
<1>1. /\ pc[k] = "print" /\ pc' = [pc EXCEPT ![k] = "post"]
      /\ printed' = balance
      /\ UNCHANGED <<program, round, at, sock, transaction, reg, semaphore, balance, posted>>
  BY DEF PrintBalance
<1>2. TypeOK'
  BY <1>1 DEF TypeOK
<1>3. (\A j \in Connections \ {k} : pc'[j] = pc[j]) /\ pc'[k] = "post"
  BY <1>1 DEF TypeOK
<1>4. /\ semaphore = 0
      /\ \A j \in Connections \ {k} : pc[j] \notin {"store", "print", "post"}
  BY <1>1, Inside DEF InSection
<1>5. OneInside'
  BY <1>1, <1>3, <1>4 DEF OneInside, InSection
<1>6. Loaded' /\ Printed'
  BY <1>1, <1>3, <1>4 DEF Loaded, Printed
<1>7. Flow' /\ PostedOnce'
  BY <1>1, <1>3, Elsewhere DEF Flow, PostedOnce
<1>8. printed' = Wrap(printed + Delta(transaction[k]))
  BY <1>1 DEF Loaded
<1> QED
  BY <1>2, <1>5, <1>6, <1>7, <1>8

\* sem_post opens the section that only its caller was in.
LEMMA PostStep ==
  ASSUME IInv, NEW k \in Connections, Post(k)
  PROVE  IInv'
<1> USE DEF IInv, clientVars, accountVars
<1>1. /\ pc[k] = "post" /\ pc' = [pc EXCEPT ![k] = Onwards]
      /\ semaphore' = semaphore + 1
      /\ UNCHANGED <<program, round, at, sock, transaction, reg, balance, printed, posted>>
  BY DEF Post
<1>2. Onwards = IF program = "server" THEN "closed" ELSE "recv"
  BY DEF Onwards
<1>3. /\ semaphore = 0 /\ printed = balance
      /\ \A j \in Connections \ {k} : pc[j] \notin {"store", "print", "post"}
  BY <1>1, Inside DEF InSection
<1>4. TypeOK'
  BY <1>1, <1>2, <1>3 DEF TypeOK
<1>5. (\A j \in Connections \ {k} : pc'[j] = pc[j]) /\ pc'[k] = Onwards
  BY <1>1 DEF TypeOK
<1>6. OneInside' /\ Loaded' /\ Printed'
  BY <1>1, <1>2, <1>3, <1>5 DEF OneInside, InSection, Loaded, Printed
<1>7. Flow' /\ PostedOnce'
  BY <1>1, <1>2, <1>5, Elsewhere DEF Flow, PostedOnce, TypeOK
<1> QED
  BY <1>4, <1>6, <1>7

-----------------------------------------------------------------------------
LEMMA Step == IInv /\ [Next]_vars => IInv'
<1> SUFFICES ASSUME IInv, [Next]_vars PROVE IInv'
  OBVIOUS
<1>1. ASSUME NEW c \in Clients, Connect(c) \/ Send(c) \/ Killed(c) PROVE IInv'
  BY <1>1, ConnectStep, SendStep
<1>2. ASSUME NEW k \in Connections, Accept(k) \/ handle_client(k) PROVE IInv'
  BY <1>2, OutsideStep, WaitStep, StoreStep, PrintStep, PostStep DEF handle_client
<1>3. CASE UNCHANGED vars
  <2>1. TypeOK' /\ OneInside' /\ Loaded' /\ Printed'
    BY <1>3 DEF IInv, vars, TypeOK, OneInside, InSection, Loaded, Printed
  <2>2. Flow' /\ PostedOnce'
    BY <1>3 DEF IInv, vars, Flow, PostedOnce, Now
  <2> QED
    BY <2>1, <2>2 DEF IInv
<1> QED
  BY <1>1, <1>2, <1>3 DEF Next, Server

\* One thread is behind the semaphore at a time, with the balance as it is
\* loaded and the line before it printed (server.c:23-42).
THEOREM Invariance == Spec => []IInv
BY Initial, Step, PTL DEF Spec

\* A transaction that was sent is posted at most once (server.c:18-45,
\* server_test.c:17-46).
THEOREM NotPostedTwice == Spec => []PostedOnce
<1>1. IInv => PostedOnce
  BY DEF IInv
<1> QED
  BY <1>1, Invariance, PTL

\* Every line of the server's output is the line before it plus the transaction
\* it is printed for (server.c:30-31, 35-37).
THEOREM Statement == Spec => StatementAddsUp
<1>1. IInv /\ [Next]_vars =>
        [\A k \in Connections :
             PrintBalance(k) => printed' = Wrap(printed + Delta(transaction[k]))]_vars
  BY PrintStep
<1> QED
  BY <1>1, Invariance, PTL DEF Spec, StatementAddsUp

-----------------------------------------------------------------------------
(* The balance is the sum of what was posted.                              *)

LEMMA LedgerInitial == Init => Ledger
<1> SUFFICES ASSUME Init PROVE Ledger
  OBVIOUS
<1>1. SumOf(posted, Connections) = 0
  BY ConnectionsFinite, SumZero DEF Init
<1> QED
  BY <1>1, WrapZero DEF Init, Ledger

\* Only a store changes what was posted, by as much as it changes the balance
\* its thread has loaded.
LEMMA LedgerStep == IInv /\ Ledger /\ [Next]_vars => Ledger'
<1> SUFFICES ASSUME IInv, Ledger, [Next]_vars PROVE Ledger'
  OBVIOUS
<1>1. CASE UNCHANGED <<balance, posted>>
  BY <1>1 DEF Ledger
<1>2. ASSUME NEW k \in Connections, Store(k) PROVE Ledger'
  <2> DEFINE d == Delta(transaction[k])
             n == SumOf(posted, Connections)
  <2>1. /\ balance' = Wrap(balance + d)
        /\ posted' = [posted EXCEPT ![k] = @ + d]
    BY <1>2 DEF Store, IInv, Loaded
  <2>2. d \in Int /\ posted \in [Connections -> Int]
    BY DeltaType DEF IInv, TypeOK
  <2> HIDE DEF d
  <2>3. posted' \in [Connections -> Int] /\ posted'[k] = posted[k] + d
        /\ \A j \in Connections \ {k} : posted'[j] = posted[j]
    BY <2>1, <2>2
  <2>4. n \in Int
    BY <2>2, ConnectionsFinite, SumRemove
  <2>5. SumOf(posted', Connections) = n + posted'[k] - posted[k]
    BY <2>2, <2>3, ConnectionsFinite, SumChange
  <2> HIDE DEF n
  <2>6. posted[k] \in Int
    BY <2>2
  <2>7. SumOf(posted', Connections) = n + d
    BY <2>2, <2>3, <2>4, <2>5, <2>6
  <2>8. balance = Wrap(n)
    BY DEF Ledger, n
  <2>9. Wrap(balance + d) = Wrap(n + d)
    BY <2>2, <2>4, <2>8, WrapAdd
  <2> QED
    BY <2>1, <2>7, <2>9 DEF Ledger
<1>3. \/ UNCHANGED <<balance, posted>>
      \/ \E k \in Connections : Store(k)
  BY DEF vars, accountVars, Next, Server, handle_client, Connect, Send, Killed, Accept,
         Recv, RecvNothing, RecvEnd, Wait, PrintBalance, Post
<1> QED
  BY <1>1, <1>2, <1>3

\* No update of the balance is lost: it is, as an int, the sum of the
\* transactions posted so far (server.c:26-39).
THEOREM NoLostUpdate == Spec => []Ledger
BY Invariance, LedgerInitial, LedgerStep, PTL DEF Spec
=============================================================================
