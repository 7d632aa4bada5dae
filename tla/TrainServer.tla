----------------------------- MODULE TrainServer -----------------------------
(***************************************************************************)
(* The process server of lab5 (lab5.c): main accepts a connection, forks,  *)
(* and the child becomes a train that runs to the client; the handler of   *)
(* SIGCHLD collects the children that have ended.  A signal that arrives   *)
(* while it is pending already is lost, and one that arrives while the     *)
(* handler runs is delivered when it has returned.  The parent never       *)
(* closes a connection, and looks at no result of accept.                  *)
(***************************************************************************)
EXTENDS Naturals, Sequences, FiniteSets

CONSTANTS Clients,   \* the connections clients make, each made once
          Trains,    \* bound: the children that can be forked
          MaxOpen,   \* the connections a process may have open
          MaxQueue,  \* the connections the kernel queues, listen's 10
          Terminal   \* where the train of a failed accept runs

ASSUME TerminalAssumption == Terminal \notin Clients
ASSUME MaxOpenAssumption  == MaxOpen \in Nat
ASSUME MaxQueueAssumption == MaxQueue \in Nat

VARIABLES
  pc,        \* main: "accept" or "fork"
  connfd,    \* the connection accepted last, Terminal when accept failed
  backlog,   \* connections the kernel has made and main has not accepted
  accepted,  \* connections the parent holds open
  train,     \* train[t]: "none", "running", "zombie" or "collected"
  to,        \* to[t]: where t runs
  pending,   \* SIGCHLD is pending
  handler    \* "none", "loop" in the waitpid loop, "return" behind it

vars == <<pc, connfd, backlog, accepted, train, to, pending, handler>>

Init ==
  /\ pc = "accept" /\ connfd = Terminal
  /\ backlog = <<>> /\ accepted = {}
  /\ train = [t \in Trains |-> "none"]
  /\ to = [t \in Trains |-> Terminal]
  /\ pending = FALSE /\ handler = "none"

In(s) == {s[i] : i \in DOMAIN s}

\* A connection waits for a place in the queue of listen.
Connect(c) ==
  /\ c \notin accepted \cup In(backlog)
  /\ Len(backlog) < MaxQueue
  /\ backlog' = Append(backlog, c)
  /\ UNCHANGED <<pc, connfd, accepted, train, to, pending, handler>>

-----------------------------------------------------------------------------
(* main, when it is not in the handler.                                    *)

Main(from, then) == handler = "none" /\ pc = from /\ pc' = then

Full == Cardinality(accepted) >= MaxOpen

\* Mutant of Accept: connfd keeps its value when accept fails.
AcceptKeeping ==
  /\ Main("accept", "fork")
  /\ \/ /\ ~ Full /\ backlog # <<>>
        /\ connfd' = Head(backlog) /\ backlog' = Tail(backlog)
        /\ accepted' = accepted \cup {connfd'}
     \/ /\ Full
        /\ UNCHANGED <<connfd, backlog, accepted>>
  /\ UNCHANGED <<train, to, pending, handler>>

\* Mutant of Accept: it waits for a second descriptor to be free.
AcceptSparing ==
  /\ Main("accept", "fork")
  /\ Cardinality(accepted) + 1 < MaxOpen /\ backlog # <<>>
  /\ connfd' = Head(backlog) /\ backlog' = Tail(backlog)
  /\ accepted' = accepted \cup {connfd'}
  /\ UNCHANGED <<train, to, pending, handler>>

\* accept fails at once when there is no descriptor left, and is restarted
\* after a signal.
Accept ==
  /\ Main("accept", "fork")
  /\ \/ /\ ~ Full /\ backlog # <<>>
        /\ connfd' = Head(backlog) /\ backlog' = Tail(backlog)
        /\ accepted' = accepted \cup {connfd'}
     \/ /\ Full
        /\ connfd' = Terminal
        /\ UNCHANGED <<backlog, accepted>>
  /\ UNCHANGED <<train, to, pending, handler>>

\* dup2 of the connection to the output, and exec.
Fork ==
  /\ Main("fork", "accept")
  /\ \E t \in Trains : /\ train[t] = "none"
                       /\ train' = [train EXCEPT ![t] = "running"]
                       /\ to' = [to EXCEPT ![t] = connfd]
  /\ UNCHANGED <<connfd, backlog, accepted, pending, handler>>

ForkFails ==
  /\ Main("fork", "accept")
  /\ UNCHANGED <<connfd, backlog, accepted, train, to, pending, handler>>

\* A train arrives, or its client has gone away.
End(t) ==
  /\ train[t] = "running"
  /\ train' = [train EXCEPT ![t] = "zombie"]
  /\ pending' = TRUE
  /\ UNCHANGED <<pc, connfd, backlog, accepted, to, handler>>

-----------------------------------------------------------------------------
(* handler: while(waitpid(-1, NULL, WNOHANG) > 0);                         *)

Zombies == {t \in Trains : train[t] = "zombie"}

Enter ==
  /\ handler = "none" /\ pending
  /\ handler' = "loop" /\ pending' = FALSE
  /\ UNCHANGED <<pc, connfd, backlog, accepted, train, to>>

\* Mutant of Collect: one call of waitpid for each signal.
CollectOne(t) ==
  /\ handler = "loop" /\ t \in Zombies
  /\ train' = [train EXCEPT ![t] = "collected"]
  /\ handler' = "return"
  /\ UNCHANGED <<pc, connfd, backlog, accepted, to, pending>>

Collect(t) ==
  /\ handler = "loop" /\ t \in Zombies
  /\ train' = [train EXCEPT ![t] = "collected"]
  /\ UNCHANGED <<pc, connfd, backlog, accepted, to, pending, handler>>

Leave ==
  /\ \/ handler = "loop" /\ Zombies = {} /\ handler' = "return"
     \/ handler = "return" /\ handler' = "none"
  /\ UNCHANGED <<pc, connfd, backlog, accepted, train, to, pending>>

Handler == Enter \/ Leave \/ \E t \in Trains : Collect(t)

Next == Accept \/ Fork \/ ForkFails \/ Handler
        \/ (\E c \in Clients : Connect(c)) \/ \E t \in Trains : End(t)

\* main goes on, a signal is delivered, and every train arrives.
Spec == /\ Init /\ [][Next]_vars
        /\ WF_vars(Accept) /\ WF_vars(Fork) /\ WF_vars(Handler)
        /\ \A t \in Trains : WF_vars(End(t))

-----------------------------------------------------------------------------
TypeOK ==
  /\ pc \in {"accept", "fork"}
  /\ connfd \in Clients \cup {Terminal}
  /\ accepted \subseteq Clients /\ backlog \in Seq(Clients)
  /\ train \in [Trains -> {"none", "running", "zombie", "collected"}]
  /\ to \in [Trains -> Clients \cup {Terminal}]
  /\ pending \in BOOLEAN
  /\ handler \in {"none", "loop", "return"}

\* A child that has ended is one the handler is about to meet: signals that
\* were lost while one was pending leave no zombie behind (the while loop of
\* handler, lines 59-62).
NoneForgotten == Zombies # {} => pending \/ handler = "loop"

\* A connection carries its own train and no second one, in whatever
\* order children start, end and are collected (connfd between accept and fork).
OneTrainEach ==
  \A s, t \in Trains : s # t /\ to[s] \in Clients => to[s] # to[t]

\* What makes the two inductive: main is about to fork with a connection no
\* train has had, and one that waits has not been accepted.
BeforeFork ==
  pc = "fork" /\ connfd \in Clients =>
    connfd \in accepted /\ \A t \in Trains : to[t] # connfd
AcceptedOnly == \A t \in Trains : to[t] \in accepted \cup {Terminal}
WaitOnce ==
  \A i \in DOMAIN backlog : /\ backlog[i] \notin accepted
                           /\ \A j \in DOMAIN backlog : i # j => backlog[i] # backlog[j]

\* The trains nobody asked for, on the server's terminal, are those of an accept
\* that failed, and none fails before the descriptors are used up.
TerminalWhenFull ==
  /\ pc = "fork" /\ connfd = Terminal => Full
  /\ \A t \in Trains : train[t] # "none" /\ to[t] = Terminal => Full

IInv == /\ TypeOK /\ NoneForgotten /\ OneTrainEach
        /\ BeforeFork /\ AcceptedOnly /\ TerminalWhenFull /\ WaitOnce

\* Every train that has ended is collected.
Collected == \A t \in Trains : (train[t] = "zombie") ~> (train[t] = "collected")

\* Whoever connects is accepted unless the descriptors are used up, which no
\* end of a train gives back (connfd is not closed by the parent).
AcceptedInTheEnd ==
  \A c \in Clients : (c \in In(backlog)) ~>
    (c \in accepted \/ Full \/ \A t \in Trains : train[t] # "none")
=============================================================================
