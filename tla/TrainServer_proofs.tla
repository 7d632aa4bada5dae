------------------------- MODULE TrainServer_proofs -------------------------
(***************************************************************************)
(* Proofs about TrainServer, for every number of connections, trains,      *)
(* descriptors and places in the queue.                                    *)
(***************************************************************************)
EXTENDS TrainServer, TLAPS

\* What waits behind the head of a backlog is what waited behind it before,
\* one place further on.
LEMMA TailElements ==
  ASSUME NEW s \in Seq(Clients), s # <<>>
  PROVE  /\ Head(s) = s[1] /\ 1 \in DOMAIN s
         /\ Tail(s) \in Seq(Clients)
         /\ \A i \in DOMAIN Tail(s) :
              i \in Nat /\ i + 1 \in DOMAIN s /\ i + 1 # 1 /\ Tail(s)[i] = s[i + 1]
OBVIOUS

LEMMA AppendElements ==
  ASSUME NEW s \in Seq(Clients), NEW c \in Clients
  PROVE  /\ Append(s, c) \in Seq(Clients)
         /\ \A i \in DOMAIN Append(s, c) :
              \/ i \in DOMAIN s /\ Append(s, c)[i] = s[i]
              \/ i = Len(s) + 1 /\ Append(s, c)[i] = c
OBVIOUS

LEMMA Initial == Init => IInv
<1> SUFFICES ASSUME Init PROVE IInv
  OBVIOUS
<1>1. backlog \in Seq(Clients) /\ DOMAIN backlog = {}
  BY DEF Init
<1>2. TypeOK /\ WaitOnce
  BY <1>1 DEF Init, TypeOK, WaitOnce
<1>3. NoneForgotten /\ OneTrainEach /\ BeforeFork /\ AcceptedOnly /\ TerminalWhenFull
  BY TerminalAssumption
  DEF Init, NoneForgotten, Zombies, OneTrainEach, BeforeFork, AcceptedOnly, TerminalWhenFull
<1> QED
  BY <1>2, <1>3 DEF IInv

\* A connection comes from a client that has none.
LEMMA ConnectStep ==
  ASSUME IInv, NEW c \in Clients, Connect(c)
  PROVE  IInv'
<1> USE DEF IInv, Connect
<1>1. (TypeOK /\ NoneForgotten /\ OneTrainEach /\ BeforeFork /\ AcceptedOnly)'
  BY AppendElements
  DEF TypeOK, NoneForgotten, Zombies, OneTrainEach, BeforeFork, AcceptedOnly
<1>3. TerminalWhenFull'
  BY DEF TerminalWhenFull, Full
<1>2. WaitOnce'
  <2>1. backlog \in Seq(Clients) /\ \A i \in DOMAIN backlog : backlog[i] # c
    BY DEF TypeOK, In
  <2>2. c \notin accepted
    OBVIOUS
  <2> QED
    BY <2>1, <2>2, AppendElements DEF WaitOnce
<1> QED
  BY <1>1, <1>2, <1>3

\* While a descriptor is left no train runs on the terminal.  The client accepted was waiting, so that no train has its connection yet.
LEMMA AcceptStep ==
  ASSUME IInv, Accept
  PROVE  IInv'
<1> USE DEF IInv, Main
<1>1. CASE ~ Full /\ backlog # <<>>
           /\ connfd' = Head(backlog) /\ backlog' = Tail(backlog)
           /\ accepted' = accepted \cup {connfd'}
  <2>1. backlog \in Seq(Clients)
    BY DEF TypeOK
  <2>2. connfd' = backlog[1] /\ 1 \in DOMAIN backlog /\ connfd' \in Clients
    BY <2>1, <1>1, TailElements
  <2>3. connfd' \notin accepted
    BY <2>2 DEF WaitOnce
  <2>4. \A t \in Trains : to[t] # connfd'
    BY <2>2, <2>3, TerminalAssumption DEF AcceptedOnly
  <2>5. (TypeOK /\ NoneForgotten /\ OneTrainEach)'
    BY <1>1, <2>1, <2>2, TailElements DEF Accept, TypeOK, NoneForgotten, Zombies, OneTrainEach
  <2>6. (BeforeFork /\ AcceptedOnly)'
    BY <1>1, <2>4 DEF Accept, BeforeFork, AcceptedOnly
  <2>7. WaitOnce'
    BY <1>1, <2>1, <2>2, TailElements DEF WaitOnce
  <2>8. TerminalWhenFull'
    <3>1. \A t \in Trains : train[t] = "none" \/ to[t] # Terminal
      BY <1>1 DEF TerminalWhenFull
    <3> QED
      BY <2>2, <3>1, TerminalAssumption DEF Accept, TerminalWhenFull
  <2> QED
    BY <2>5, <2>6, <2>7, <2>8
<1>2. CASE Full /\ connfd' = Terminal /\ UNCHANGED <<backlog, accepted>>
  BY <1>2, TerminalAssumption
  DEF Accept, TypeOK, NoneForgotten, Zombies, OneTrainEach, BeforeFork,
      AcceptedOnly, TerminalWhenFull, Full, WaitOnce
<1> QED
  BY <1>1, <1>2 DEF Accept

\* The connection of the train that starts is connfd, accepted and unused.
LEMMA ForkStep ==
  ASSUME IInv, Fork
  PROVE  IInv'
<1>1. PICK t \in Trains : /\ train[t] = "none"
                          /\ train' = [train EXCEPT ![t] = "running"]
                          /\ to' = [to EXCEPT ![t] = connfd]
  BY DEF Fork
<1>2. Main("fork", "accept") /\ UNCHANGED <<connfd, backlog, accepted, pending, handler>>
  BY DEF Fork
<1>3. connfd \in Clients => connfd \in accepted /\ \A s \in Trains : to[s] # connfd
  BY <1>2 DEF IInv, BeforeFork, Main
<1>4. TypeOK' /\ WaitOnce'
  BY <1>1, <1>2 DEF IInv, TypeOK, WaitOnce, Main
<1>5. NoneForgotten'
  BY <1>1, <1>2 DEF IInv, TypeOK, NoneForgotten, Zombies
<1>6. OneTrainEach' /\ BeforeFork' /\ AcceptedOnly'
  BY <1>1, <1>2, <1>3 DEF IInv, TypeOK, OneTrainEach, BeforeFork, AcceptedOnly, Main
<1>7. TerminalWhenFull'
  BY <1>1, <1>2 DEF IInv, TypeOK, TerminalWhenFull, Full, Main
<1> QED
  BY <1>4, <1>5, <1>6, <1>7 DEF IInv

\* Ends and the handler move trains only between states behind "running".
LEMMA EndStep ==
  ASSUME IInv, NEW t \in Trains, End(t)
  PROVE  IInv'
BY DEF IInv, End, TypeOK, NoneForgotten, Zombies, OneTrainEach, BeforeFork,
       AcceptedOnly, TerminalWhenFull, Full, WaitOnce

LEMMA HandlerStep ==
  ASSUME IInv, Handler
  PROVE  IInv'
<1> USE DEF IInv, TypeOK, NoneForgotten, Zombies, OneTrainEach, BeforeFork,
            AcceptedOnly, TerminalWhenFull, Full, WaitOnce
<1>1. CASE Enter
  BY <1>1 DEF Enter
<1>2. CASE Leave
  BY <1>2 DEF Leave
<1>3. ASSUME NEW t \in Trains, Collect(t) PROVE IInv'
  BY <1>3 DEF Collect
<1> QED
  BY <1>1, <1>2, <1>3 DEF Handler

LEMMA Step == IInv /\ [Next]_vars => IInv'
<1> SUFFICES ASSUME IInv, [Next]_vars PROVE IInv'
  OBVIOUS
<1>1. CASE ForkFails
  BY <1>1
  DEF ForkFails, Main, IInv, TypeOK, NoneForgotten, Zombies, OneTrainEach,
      BeforeFork, AcceptedOnly, TerminalWhenFull, Full, WaitOnce
<1>2. CASE UNCHANGED vars
  BY <1>2
  DEF vars, IInv, TypeOK, NoneForgotten, Zombies, OneTrainEach, BeforeFork,
      AcceptedOnly, TerminalWhenFull, Full, WaitOnce
<1> QED
  BY <1>1, <1>2, ConnectStep, AcceptStep, ForkStep, EndStep, HandlerStep DEF Next

-----------------------------------------------------------------------------
\* The invariant holds of every server: whatever the number of clients and
\* children and the order of connections, ends and signals.
THEOREM Invariance == Spec => []IInv
BY Initial, Step, PTL DEF Spec

\* Lost signals leave no zombie behind: each child that has ended is met by a
\* pending SIGCHLD or by the loop of the handler (lab5.c, lines 59-62).
THEOREM ZombiesMet == Spec => []NoneForgotten
<1>1. IInv => NoneForgotten
  BY DEF IInv
<1> QED
  BY <1>1, Invariance, PTL

\* No connection carries two trains (lab5.c, lines 34-56).
THEOREM TrainsApart == Spec => []OneTrainEach
<1>1. IInv => OneTrainEach
  BY DEF IInv
<1> QED
  BY <1>1, Invariance, PTL
=============================================================================
