------------------------ MODULE DeliverySession_proofs ----------------------
(***************************************************************************)
(* Proofs about DeliverySession, for any number of clients and any orders. *)
(***************************************************************************)
EXTENDS DeliverySession, DeliveryServer_proofs, SequenceTheorems

-----------------------------------------------------------------------------
(* The server in the session is the server.                                *)

LEMMA ServesIsServer ==
  ASSUME TypeInv, NEW t \in Threads, Serves(t)
  PROVE  get_order(t) \/ ReadFails(t) \/ WriteFails(t) \/ CopyFails(t)
<1> USE DEF get_order
<1>1. CASE TakesLine(t)
  BY <1>1 DEF TakesLine, TakesConfirm, Take
<1>2. CASE TakesAnswer(t)
  BY <1>2 DEF TakesAnswer, Take, Answers
<1>3. CASE Quiet(t)
  BY <1>3 DEF Quiet, Take
<1>4. CASE Tells(t)
  <2>1. Check(t) \/ Arrive(t)
    BY <1>4 DEF Tells
  <2>2. man[t] = 1 \/ man[t] = 2
    <3>1. man[t] \in Men \cup {0} /\ man[t] # 0
      BY <1>4 DEF Tells, TypeInv, TypeOK
    <3> QED
      BY <3>1 DEF Men
  <2>3. Delivery(t)
    BY <2>1 DEF Delivery
  <2> QED
    BY <2>2, <2>3 DEF Work, DeliveryMan1, DeliveryMan2
<1> QED
  BY <1>1, <1>2, <1>3, <1>4 DEF Serves

LEMMA SessionIsServer ==
  ASSUME TypeInv, [SessionNext]_sessionVars
  PROVE  [Next]_vars
<1>1. ASSUME NEW t \in Threads, Connect(t) PROVE Next
  BY <1>1 DEF Connect, Next
<1>2. ASSUME NEW t \in Threads, ClientTypes(t) \/ ClientReads(t) PROVE UNCHANGED vars
  BY <1>2 DEF ClientTypes, TypeLine, ClientReads, ReadReply, ReadNext, ReadLast, ReadMessage
<1>3. ASSUME NEW t \in Threads, CtrlC(t) PROVE Next
  BY <1>3 DEF CtrlC, Next
<1>4. ASSUME NEW t \in Threads, Serves(t) PROVE Next
  BY <1>4, ServesIsServer DEF Next
<1> QED
  BY <1>1, <1>2, <1>3, <1>4 DEF SessionNext, sessionVars

-----------------------------------------------------------------------------
(* The conversation at one thread, untouched by the steps of the others.   *)

LEMMA SessionStart == SessionInit => SessionIInv
<1> SUFFICES ASSUME SessionInit PROVE SessionIInv
  OBVIOUS
<1>1. TypeInv
  BY TypeInit DEF SessionInit
<1>2. <<>> \in Seq(Messages) /\ <<>> \in Seq(Messages \ {"please wait"})
  OBVIOUS
<1>3. SessionTypeOK
  BY <1>2 DEF SessionInit, SessionTypeOK, Lines, Received
<1>4. Conversation
  BY <1>2 DEF SessionInit, Init, Conversation, Conversing
<1> QED
  BY <1>1, <1>3, <1>4 DEF SessionIInv

\* What of SessionTypeOK and Conversation is about thread t.
ThreadOK(t) ==
  /\ cpc[t] \in {"start", "line", "reply", "message", "line2", "reply2", "done", "failed"}
  /\ line[t] \in Lines /\ inbox[t] \in Seq(Messages)
  /\ got[t] \in Received /\ broken[t] \in BOOLEAN
  /\ cpc[t] = "message" => man[t] # 0
  /\ cpc[t] # "failed" => conn[t] = "open"
  /\ pc[t] \in Unsettled => answer[t] = "unasked"
  /\ pc[t] = "answer" => answer[t] = "asked"
  /\ man[t] = 0 => inbox[t] \in Seq(Messages \ {"please wait"})
  /\ server = "up" => Conversing(t)

\* The functions of the client are functions of the threads.
ClientFunctions ==
  /\ DOMAIN cpc = Threads /\ cpc = [t \in Threads |-> cpc[t]]
  /\ DOMAIN line = Threads /\ line = [t \in Threads |-> line[t]]
  /\ DOMAIN inbox = Threads /\ inbox = [t \in Threads |-> inbox[t]]
  /\ DOMAIN got = Threads /\ got = [t \in Threads |-> got[t]]
  /\ DOMAIN broken = Threads /\ broken = [t \in Threads |-> broken[t]]

LEMMA ByThread ==
  SessionTypeOK /\ Conversation <=> ClientFunctions /\ \A t \in Threads : ThreadOK(t)
BY DEF SessionTypeOK, Conversation, ClientFunctions, ThreadOK

\* What a step of the server at thread t does to the line and the messages.
LEMMA ServesTalk ==
  ASSUME NEW t, Serves(t)
  PROVE  /\ UNCHANGED <<cpc, got, broken>>
         /\ UNCHANGED line \/ \E words : Reads(t, words)
         /\ UNCHANGED inbox \/ \E m : Says(t, m)
<1>1. CASE TakesLine(t)
  BY <1>1 DEF Serves, TakesLine, TakesConfirm
<1>2. CASE TakesAnswer(t)
  BY <1>2 DEF Serves, TakesAnswer
<1>3. CASE Quiet(t) \/ (Tells(t) /\ UNCHANGED line)
  BY <1>3 DEF Serves, Quiet, Tells
<1> QED
  BY <1>1, <1>2, <1>3 DEF Serves

LEMMA FunctionsKept ==
  ASSUME ClientFunctions, [SessionNext]_sessionVars
  PROVE  ClientFunctions'
<1>1. ASSUME NEW t \in Threads, Connect(t) \/ ClientTypes(t) \/ ClientReads(t) \/ CtrlC(t)
      PROVE  ClientFunctions'
  BY <1>1
  DEF Connect, ClientTypes, TypeLine, ClientReads, ReadReply, ReadNext, ReadLast,
      ReadMessage, CtrlC, ClientFunctions
<1>2. ASSUME NEW t \in Threads, Serves(t) PROVE ClientFunctions'
  BY <1>2, ServesTalk DEF Reads, Says, ClientFunctions
<1>3. CASE UNCHANGED sessionVars
  BY <1>3 DEF sessionVars, client, ClientFunctions
<1> QED
  BY <1>1, <1>2, <1>3 DEF SessionNext

LEMMA OtherThread ==
  ASSUME TypeInv, ClientFunctions, NEW t \in Threads, NEW u \in Threads \ {t},
         Connect(t) \/ ClientTypes(t) \/ ClientReads(t) \/ CtrlC(t) \/ Serves(t)
  PROVE  /\ pc'[u] = pc[u] /\ conn'[u] = conn[u] /\ man'[u] = man[u] /\ answer'[u] = answer[u]
         /\ cpc'[u] = cpc[u] /\ line'[u] = line[u] /\ inbox'[u] = inbox[u]
         /\ got'[u] = got[u] /\ broken'[u] = broken[u]
         /\ server' \in {server, "dead"}
<1>1. /\ DOMAIN pc = Threads /\ DOMAIN conn = Threads /\ DOMAIN man = Threads
      /\ DOMAIN answer = Threads
  BY DEF TypeInv, TypeOK
<1>2. CASE Connect(t) \/ ClientTypes(t) \/ ClientReads(t)
  BY <1>1, <1>2
  DEF Connect, Accept, Goto, ClientTypes, TypeLine, ClientReads, ReadReply, ReadNext, ReadLast,
      ReadMessage, ClientFunctions, vars, threadVars
<1>3. CASE CtrlC(t)
  BY <1>1, <1>3 DEF CtrlC, HangUp, ClientFunctions
<1>4. CASE Serves(t)
  <2>1. UNCHANGED <<cpc, got, broken>> /\ line'[u] = line[u] /\ inbox'[u] = inbox[u]
    BY <1>4, ServesTalk DEF Reads, Says, ClientFunctions
  <2>2. get_order(t) \/ ReadFails(t) \/ WriteFails(t) \/ CopyFails(t)
    BY <1>4, ServesIsServer
  <2>3. CASE ReadFails(t) \/ WriteFails(t) \/ CopyFails(t)
    BY <2>1, <2>3 DEF ReadFails, WriteFails, CopyFails, Exit, Kill, DeathLeaves, threadVars
  <2>4. CASE get_order(t)
    <3>1. /\ pc'[u] = pc[u] /\ conn'[u] = conn[u] /\ man'[u] = man[u] /\ answer'[u] = answer[u]
          /\ server' = server
      BY <1>1, <2>4
      DEF get_order, Take, Work, Dispatch, DeliveryMan1, DeliveryMan2, Delivery,
          RecvShopList, ConfirmNothing, Confirm, Cancel, RecvOrder, RecvWords,
          RecvEof, Order, Answer, LoadTime, Choose, BeginUpdate, EndUpdate, Check,
          EnterShift, ComeBack, BookCustomer, BookIncome, LeaveShift, Arrive,
          sendback_message_to_client, Goto, ThreadAt
    <3> QED
      BY <2>1, <3>1
  <2> QED
    BY <2>2, <2>3, <2>4
<1> QED
  BY <1>2, <1>3, <1>4

LEMMA ThreadKept ==
  ASSUME NEW t, ThreadOK(t),
         pc'[t] = pc[t], conn'[t] = conn[t], man'[t] = man[t], answer'[t] = answer[t],
         cpc'[t] = cpc[t], line'[t] = line[t], inbox'[t] = inbox[t], got'[t] = got[t],
         broken'[t] = broken[t], server' \in {server, "dead"}
  PROVE  ThreadOK(t)'
BY DEF ThreadOK, Conversing

-----------------------------------------------------------------------------
(* The client's side.                                                      *)

LEMMA ConnectStep ==
  ASSUME TypeInv, ClientFunctions, NEW t \in Threads, ThreadOK(t), Connect(t)
  PROVE  ThreadOK(t)'
<1>1. /\ cpc[t] = "start" /\ cpc'[t] = "line" /\ pc[t] = "none" /\ pc'[t] = "recv"
      /\ UNCHANGED <<line, inbox, got, broken, server, conn, man, answer>>
  BY DEF Connect, Accept, Goto, ThreadAt, ClientFunctions, TypeInv, TypeOK
<1> QED
  BY <1>1 DEF ThreadOK, Conversing, Unsettled, Unheard, Underway

LEMMA TypeLineStep ==
  ASSUME ClientFunctions, NEW t \in Threads, ThreadOK(t), ClientTypes(t)
  PROVE  ThreadOK(t)'
<1>1. UNCHANGED <<pc, conn, man, answer, server, inbox, got>>
  BY DEF ClientTypes, TypeLine, vars, threadVars
<1>2. \/ cpc[t] = "line" /\ cpc'[t] \in {"reply", "failed"}
      \/ cpc[t] = "line2" /\ cpc'[t] \in {"reply2", "failed"}
  BY DEF ClientTypes, TypeLine, ClientFunctions
<1>3. /\ line'[t] \in Lines /\ broken'[t] \in BOOLEAN
      /\ Closed(t) /\ cpc'[t] # "failed" => line'[t] = "empty"
  BY DEF ClientTypes, TypeLine, ClientFunctions, MayType, ThreadOK, Lines
<1>4. server = "up" /\ pc[t] \in {"served", "left"} => Closed(t)
  BY DEF Closed
<1> QED
  BY <1>1, <1>2, <1>3, <1>4 DEF ThreadOK, Conversing, Unsettled, Unheard, Underway

\* The sequences that are on a connection.
LEMMA Few ==
  /\ \A m : Head(<<m>>) = m /\ Tail(<<m>>) = <<>> /\ <<m>> # <<>> /\ Append(<<>>, m) = <<m>>
  /\ \A m, n : /\ Head(<<m, n>>) = m /\ Tail(<<m, n>>) = <<n>> /\ <<m, n>> # <<>>
               /\ Append(<<m>>, n) = <<m, n>>
<1>1. \A m : Head(<<m>>) = m
  OBVIOUS
<1>2. \A m : Tail(<<m>>) = <<>>
  OBVIOUS
<1>3. \A m : <<m>> # <<>>
  OBVIOUS
<1>4. \A m : Append(<<>>, m) = <<m>>
  OBVIOUS
<1>5. \A m, n : Head(<<m, n>>) = m
  OBVIOUS
<1>6. \A m, n : Tail(<<m, n>>) = <<n>>
  OBVIOUS
<1>7. \A m, n : <<m, n>> # <<>>
  OBVIOUS
<1>8. ASSUME NEW m, NEW n PROVE Append(<<m>>, n) = <<m, n>>
  <2>1. <<m>> \in Seq({m, n}) /\ <<m, n>> \in Seq({m, n})
    OBVIOUS
  <2> DEFINE s == Append(<<m>>, n)
             r == <<m, n>>
  <2>2. s \in Seq({m, n}) /\ Len(s) = 2 /\ s[1] = m /\ s[2] = n
    BY <2>1, AppendProperties
  <2>3. Len(r) = 2 /\ r[1] = m /\ r[2] = n
    OBVIOUS
  <2> HIDE DEF s, r
  <2>4. \A i \in 1 .. Len(s) : s[i] = r[i]
    BY <2>2, <2>3
  <2>5. r \in Seq({m, n})
    BY <2>1 DEF r
  <2> QED
    BY <2>2, <2>3, <2>4, <2>5, SeqEqual DEF s, r
<1> QED
  BY <1>1, <1>2, <1>3, <1>4, <1>5, <1>6, <1>7, <1>8, Zenon

\* A client that reads has its next place from what it reads.
LEMMA ReadMessageStep ==
  ASSUME ClientFunctions, NEW t \in Threads, ThreadOK(t), ClientReads(t)
  PROVE  ThreadOK(t)'
<1>1. UNCHANGED <<pc, conn, man, answer, server, line, broken>>
  BY DEF ClientReads, ReadReply, ReadNext, ReadLast, ReadMessage, vars, threadVars
<1>2. PICK from \in {"reply", "message", "reply2"}, next \in {AfterReply, AfterMessage, AfterReply2} :
        /\ cpc[t] = from /\ ReadMessage(t, from, next)
        /\ \/ from = "reply" /\ next = AfterReply
           \/ from = "message" /\ next = AfterMessage
           \/ from = "reply2" /\ next = AfterReply2
  BY DEF ClientReads, ReadReply, ReadNext, ReadLast, ReadMessage
<1>3. CASE inbox[t] # <<>>
  <2> DEFINE m == Head(inbox[t])
  <2>1. inbox[t] \in Seq(Messages) /\ m \in Messages /\ Tail(inbox[t]) \in Seq(Messages)
    BY <1>3, HeadTailProperties DEF ThreadOK
  <2>2. man[t] = 0 => m # "please wait" /\ Tail(inbox[t]) \in Seq(Messages \ {"please wait"})
    <3> SUFFICES ASSUME man[t] = 0
                 PROVE  m # "please wait" /\ Tail(inbox[t]) \in Seq(Messages \ {"please wait"})
      OBVIOUS
    <3>1. inbox[t] \in Seq(Messages \ {"please wait"})
      BY DEF ThreadOK
    <3>2. m \in Messages \ {"please wait"} /\ Tail(inbox[t]) \in Seq(Messages \ {"please wait"})
      BY <1>3, <3>1, HeadTailProperties
    <3> QED
      BY <3>2
  <2>3. got'[t] = m /\ inbox'[t] = Tail(inbox[t]) /\ cpc'[t] = next[m] /\ m \in Received
    BY <1>2, <1>3, <2>1 DEF ReadMessage, ClientFunctions, Received
  <2>4. CASE from = "reply"
    <3>1. cpc'[t] = IF m = "please wait" THEN "message" ELSE "line"
      BY <1>2, <2>3, <2>4 DEF AfterReply
    <3>2. ASSUME server = "up" PROVE Conversing(t)'
      <4>0. /\ line[t] = "empty"
            /\ \/ /\ pc[t] \in {"recv", "answer"}
                  /\ \E k \in {"shops", "basket", "order first", "long wait"} : inbox[t] = <<k>>
               \/ pc[t] \in Underway /\ inbox[t] = <<"please wait">>
               \/ pc[t] = "served" /\ inbox[t] = <<"please wait", "arrived">>
               \/ pc[t] = "served" /\ inbox[t] = <<"arrived">>
        BY <1>2, <1>3, <2>4, <3>2 DEF ThreadOK, Conversing
      <4>1. /\ line[t] = "empty"
            /\ \/ pc[t] \in {"recv", "answer"} /\ m # "please wait" /\ Tail(inbox[t]) = <<>>
               \/ pc[t] \in Underway /\ m = "please wait" /\ Tail(inbox[t]) = <<>>
               \/ pc[t] = "served" /\ m = "please wait" /\ Tail(inbox[t]) = <<"arrived">>
               \/ pc[t] = "served" /\ m = "arrived" /\ Tail(inbox[t]) = <<>>
        <5>1. ASSUME NEW k, inbox[t] = <<k>> PROVE m = k /\ Tail(inbox[t]) = <<>>
          BY <5>1, Few
        <5>2. ASSUME inbox[t] = <<"please wait", "arrived">>
              PROVE  m = "please wait" /\ Tail(inbox[t]) = <<"arrived">>
          BY <5>2, Few
        <5> HIDE DEF m
        <5> QED
          BY <4>0, <5>1, <5>2
      <4> HIDE DEF m
      <4> QED
        BY <1>1, <2>3, <3>1, <4>1 DEF Conversing
    <3> QED
      BY <1>1, <1>2, <2>1, <2>2, <2>3, <2>4, <3>1, <3>2 DEF ThreadOK
  <2>5. CASE from = "message"
    <3>1. cpc'[t] = IF m # "long wait" THEN "line2" ELSE "done"
      BY <1>2, <2>3, <2>5 DEF AfterMessage
    <3>2. ASSUME server = "up" PROVE Conversing(t)'
      <4>1. /\ line[t] = "empty" /\ pc[t] = "served"
            /\ m = "arrived" /\ Tail(inbox[t]) = <<>>
        BY <1>2, <1>3, <2>5, <3>2, Few DEF ThreadOK, Conversing
      <4> HIDE DEF m
      <4> QED
        BY <1>1, <2>3, <3>1, <4>1 DEF Conversing
    <3> QED
      BY <1>1, <1>2, <2>1, <2>2, <2>3, <2>5, <3>1, <3>2 DEF ThreadOK
  <2>6. CASE from = "reply2"
    <3>1. cpc'[t] = "done"
      BY <1>2, <2>3, <2>6 DEF AfterReply2
    <3> QED
      BY <1>1, <1>2, <2>1, <2>2, <2>3, <2>6, <3>1 DEF ThreadOK, Conversing
  <2> QED
    BY <2>4, <2>5, <2>6
<1>4. CASE inbox[t] = <<>>
  <2>1. Closed(t) /\ UNCHANGED inbox
    BY <1>2, <1>4 DEF ReadMessage
  <2>2. \/ cpc'[t] = "failed" /\ UNCHANGED got
        \/ cpc'[t] = next["empty"] /\ got'[t] = "empty"
    BY <1>2, <1>4 DEF ReadMessage, ClientFunctions
  <2>3. \/ from = "reply" /\ next["empty"] = "line"
        \/ from = "message" /\ next["empty"] = "line2"
        \/ from = "reply2" /\ next["empty"] = "done"
    BY <1>2 DEF AfterReply, AfterMessage, AfterReply2, Received, Messages
  <2>4. server = "up" => Conversing(t)'
    BY <1>1, <1>2, <1>4, <2>1, <2>2, <2>3, Few
    DEF ThreadOK, Conversing, Closed, Underway, Unheard, Unsettled
  <2> QED
    BY <1>1, <1>2, <2>1, <2>2, <2>3, <2>4 DEF ThreadOK, Received
<1> QED
  BY <1>3, <1>4

LEMMA CtrlCStep ==
  ASSUME ClientFunctions, NEW t \in Threads, ThreadOK(t), CtrlC(t)
  PROVE  ThreadOK(t)'
BY DEF CtrlC, HangUp, ClientFunctions, ThreadOK, Conversing

-----------------------------------------------------------------------------
(* The server's side.                                                      *)

\* What a message does to the connection of a client that is there.
LEMMA SaysStep ==
  ASSUME ClientFunctions, NEW t \in Threads, ThreadOK(t), NEW m \in Messages, Says(t, m),
         m = "please wait" => man[t] # 0
  PROVE  /\ inbox'[t] \in Seq(Messages)
         /\ man[t] = 0 => inbox'[t] \in Seq(Messages \ {"please wait"})
         /\ conn[t] = "open" =>
              /\ inbox[t] = <<>> => inbox'[t] = <<m>>
              /\ \A k : inbox[t] = <<k>> => inbox'[t] = <<k, m>>
<1>1. inbox'[t] = IF conn[t] = "open" THEN Append(inbox[t], m) ELSE inbox[t]
  BY DEF Says, ClientFunctions
<1>2. inbox[t] \in Seq(Messages) /\ Append(inbox[t], m) \in Seq(Messages)
  BY AppendProperties DEF ThreadOK
<1>3. ASSUME man[t] = 0 PROVE inbox'[t] \in Seq(Messages \ {"please wait"})
  <2>1. inbox[t] \in Seq(Messages \ {"please wait"}) /\ m \in Messages \ {"please wait"}
    BY <1>3 DEF ThreadOK
  <2>2. Append(inbox[t], m) \in Seq(Messages \ {"please wait"})
    BY <2>1, AppendProperties
  <2> QED
    BY <1>1, <2>1, <2>2
<1>4. ASSUME conn[t] = "open", inbox[t] = <<>> PROVE inbox'[t] = <<m>>
  BY <1>1, <1>4, Few
<1>5. ASSUME conn[t] = "open", NEW k, inbox[t] = <<k>> PROVE inbox'[t] = <<k, m>>
  BY <1>1, <1>5, Few
<1> QED
  BY <1>1, <1>2, <1>3, <1>4, <1>5

LEMMA TakesLineStep ==
  ASSUME TypeInv, ClientFunctions, NEW t \in Threads, ThreadOK(t),
         TakesLine(t), UNCHANGED <<cpc, got, broken>>
  PROVE  ThreadOK(t)'
<1>1. /\ server = "up" /\ pc[t] = "recv" /\ conn[t] = "open"
      /\ line[t] # "empty" /\ line' = [line EXCEPT ![t] = "empty"]
      /\ UNCHANGED <<server, man, answer>> /\ conn'[t] = "open"
      /\ \/ pc'[t] = "recv" /\ \E m \in {"shops", "basket", "order first"} : Says(t, m)
         \/ pc'[t] \in {"load", "left"} /\ UNCHANGED inbox
  BY DEF TakesLine, TakesConfirm, Reads, Words, RecvShopList, ConfirmNothing, Confirm, Cancel,
         RecvOrder, RecvWords, Order, Receives, sendback_message_to_client, Goto, ThreadAt,
         TypeInv, TypeOK
<1>2. line'[t] = "empty"
  BY <1>1 DEF ClientFunctions
<1>3. cpc[t] \in {"reply", "done", "failed"} /\ (cpc[t] = "reply" => inbox[t] = <<>>)
  BY <1>1 DEF ThreadOK, Conversing, Underway
<1>4. CASE pc'[t] = "recv" /\ \E m \in {"shops", "basket", "order first"} : Says(t, m)
  <2>1. PICK m \in {"shops", "basket", "order first"} : Says(t, m)
    BY <1>4
  <2>2. /\ inbox'[t] \in Seq(Messages)
        /\ man[t] = 0 => inbox'[t] \in Seq(Messages \ {"please wait"})
        /\ inbox[t] = <<>> => inbox'[t] = <<m>>
    BY <1>1, <2>1, SaysStep DEF Messages
  <2>3. Conversing(t)'
    BY <1>1, <1>2, <1>3, <1>4, <2>2 DEF Conversing
  <2> QED
    BY <1>1, <1>2, <1>4, <2>2, <2>3 DEF ThreadOK, Lines, Unsettled
<1>5. CASE pc'[t] \in {"load", "left"} /\ UNCHANGED inbox
  <2>1. Conversing(t)'
    BY <1>1, <1>2, <1>3, <1>5 DEF Conversing, Unheard, Unsettled
  <2> QED
    BY <1>1, <1>2, <1>5, <2>1 DEF ThreadOK, Lines, Unsettled
<1> QED
  BY <1>1, <1>4, <1>5

LEMMA TakesAnswerStep ==
  ASSUME TypeInv, ClientFunctions, NEW t \in Threads, ThreadOK(t),
         TakesAnswer(t), UNCHANGED <<cpc, got, broken>>
  PROVE  ThreadOK(t)'
<1>1. /\ server = "up" /\ pc[t] = "answer" /\ pc'[t] \in {"dropBegin", "shift"}
      /\ UNCHANGED <<server, man, conn, inbox>> /\ answer'[t] \in Answers
      /\ \/ line[t] # "empty" /\ line' = [line EXCEPT ![t] = "empty"]
         \/ conn[t] # "open" /\ UNCHANGED line
  BY DEF TakesAnswer, Reads, Answer, Answers, ReceivesEof, Goto, ThreadAt, TypeInv, TypeOK
<1>2. line'[t] \in Lines /\ (line[t] # "empty" /\ conn[t] = "open" => line'[t] = "empty")
  BY <1>1 DEF ClientFunctions, ThreadOK, Lines
<1>3. /\ cpc[t] \in {"reply", "done", "failed"}
      /\ cpc[t] = "reply" => conn[t] = "open" /\ inbox[t] = <<>>
  BY <1>1 DEF ThreadOK, Conversing, Underway, Unheard, Unsettled
<1>4. Conversing(t)'
  BY <1>1, <1>2, <1>3 DEF Conversing, Unheard, Unsettled, Underway, Answers
<1> QED
  BY <1>1, <1>2, <1>4 DEF ThreadOK, Unsettled

LEMMA TellsStep ==
  ASSUME TypeInv, ClientFunctions, NEW t \in Threads, ThreadOK(t),
         Tells(t), UNCHANGED <<cpc, line, got, broken>>
  PROVE  ThreadOK(t)'
<1>1. /\ server = "up" /\ man[t] # 0 /\ UNCHANGED <<server, man>>
      /\ conn[t] = "open" => conn'[t] = "open"
      /\ \/ /\ pc[t] = "check" /\ pc'[t] = "answer" /\ answer'[t] = "asked"
            /\ Says(t, "long wait")
         \/ /\ pc[t] = "check" /\ pc'[t] = "shift" /\ answer' = answer
            /\ Says(t, "please wait")
         \/ /\ pc[t] = "arrive" /\ pc'[t] = "served" /\ answer' = answer
            /\ Says(t, "arrived")
  BY DEF Tells, Check, Arrive, sendback_message_to_client, Goto, ThreadAt, TypeInv, TypeOK
<1>2. /\ cpc[t] \in {"reply", "message", "done", "failed"}
      /\ cpc[t] # "failed" => conn[t] = "open"
  BY <1>1 DEF ThreadOK, Conversing, Underway
<1>3. CASE pc[t] = "check"
  <2>1. PICK m \in {"long wait", "please wait"} :
          /\ Says(t, m)
          /\ \/ m = "long wait" /\ pc'[t] = "answer" /\ answer'[t] = "asked"
             \/ m = "please wait" /\ pc'[t] = "shift" /\ answer'[t] = answer[t]
    BY <1>1, <1>3
  <2>2. /\ inbox'[t] \in Seq(Messages)
        /\ conn[t] = "open" /\ inbox[t] = <<>> => inbox'[t] = <<m>>
    BY <1>1, <2>1, SaysStep DEF Messages
  <2>3. /\ cpc[t] # "message" /\ answer[t] = "unasked"
        /\ cpc[t] = "reply" => inbox[t] = <<>> /\ line[t] = "empty"
    BY <1>1, <1>3 DEF ThreadOK, Conversing, Underway, Unsettled
  <2>4. Conversing(t)'
    BY <1>2, <2>1, <2>2, <2>3 DEF Conversing, Underway
  <2> QED
    BY <1>1, <2>1, <2>2, <2>4 DEF ThreadOK, Unsettled
<1>4. CASE pc[t] = "arrive"
  <2>1. Says(t, "arrived") /\ pc'[t] = "served" /\ answer' = answer
    BY <1>1, <1>4
  <2>2. /\ inbox'[t] \in Seq(Messages)
        /\ conn[t] = "open" =>
             /\ inbox[t] = <<>> => inbox'[t] = <<"arrived">>
             /\ inbox[t] = <<"please wait">> => inbox'[t] = <<"please wait", "arrived">>
    BY <1>1, <2>1, SaysStep DEF Messages
  <2>3. /\ cpc[t] \in {"reply", "message"} => line[t] = "empty"
        /\ cpc[t] = "message" => inbox[t] = <<>>
        /\ cpc[t] = "reply" =>
             inbox[t] = IF answer[t] = "unasked" THEN <<"please wait">> ELSE <<>>
    BY <1>1, <1>4 DEF ThreadOK, Conversing, Underway, Unheard, Unsettled
  <2>4. Conversing(t)'
    BY <1>2, <2>1, <2>2, <2>3 DEF Conversing
  <2> QED
    BY <1>1, <2>1, <2>2, <2>4 DEF ThreadOK, Unsettled
<1> QED
  BY <1>1, <1>3, <1>4

\* The work of a thread is not heard of by its client.
LEMMA QuietStep ==
  ASSUME TypeInv, ClientFunctions, NEW t \in Threads, ThreadOK(t),
         Quiet(t), UNCHANGED <<cpc, got, broken>>
  PROVE  ThreadOK(t)'
<1>0. /\ UNCHANGED <<cpc, got, broken, line, inbox>>
      /\ pc \in [Threads -> Places] /\ man \in [Threads -> Men \cup {0}] /\ ManChosen
  BY DEF Quiet, TypeInv, TypeOK
<1>1. CASE Work(t) /\ ~ (\E place \in {"check", "arrive"} : ThreadAt(t, place))
  <2>1. /\ server = "up" /\ UNCHANGED <<server, conn, answer>>
        /\ \/ /\ pc[t] \in {"load", "half1", "half2", "addBegin", "addEnd"}
              /\ pc'[t] \in {"half1", "half2", "addBegin", "addEnd", "check"}
           \/ pc[t] = "dropBegin" /\ pc'[t] = "dropEnd"
           \/ pc[t] = "dropEnd" /\ pc'[t] = "left"
           \/ pc[t] \in Underway \ {"arrive"} /\ pc'[t] \in Underway
    BY <1>0, <1>1
    DEF Work, Dispatch, DeliveryMan1, DeliveryMan2, Delivery, LoadTime, Choose, BeginUpdate,
        EndUpdate, Updates, AtBegin, AtEnd, AfterUpdate, Check, EnterShift, ComeBack,
        BookCustomer, BookIncome, LeaveShift, Arrive, Goto, ThreadAt, Underway
  <2>2. man'[t] = man[t] \/ man'[t] \in {1, 2}
    BY <1>0, <1>1
    DEF Work, Dispatch, DeliveryMan1, DeliveryMan2, Delivery, LoadTime, Choose, Chosen,
        BeginUpdate, EndUpdate, Check, EnterShift, ComeBack, BookCustomer, BookIncome,
        LeaveShift, Arrive
  <2>3. Conversing(t)'
    BY <1>0, <2>1 DEF ThreadOK, Conversing, Unsettled, Unheard, Underway
  <2>4. /\ pc'[t] # "answer" /\ (pc'[t] \in Unsettled => pc[t] \in Unsettled)
        /\ man'[t] = 0 => man[t] = 0
        /\ man[t] # 0 => man'[t] # 0
    BY <2>1, <2>2 DEF Unsettled, Underway
  <2> QED
    BY <1>0, <2>1, <2>3, <2>4 DEF ThreadOK
<1>2. CASE RecvEof(t)
  <2>1. /\ conn[t] \in {"fin", "gone"} /\ UNCHANGED <<server, pc, man, answer>>
    BY <1>2 DEF RecvEof, Order, ReceivesEof
  <2> QED
    BY <1>0, <2>1 DEF ThreadOK, Conversing
<1>3. CASE ReadFails(t) \/ WriteFails(t) \/ CopyFails(t)
  <2>1. server' = "dead" /\ UNCHANGED <<pc, conn, man, answer>>
    BY <1>3 DEF ReadFails, WriteFails, CopyFails, Exit, Kill, DeathLeaves, threadVars
  <2> QED
    BY <1>0, <2>1 DEF ThreadOK
<1> QED
  BY <1>1, <1>2, <1>3 DEF Quiet

-----------------------------------------------------------------------------
LEMMA SessionStep == SessionIInv /\ [SessionNext]_sessionVars => SessionIInv'
<1> SUFFICES ASSUME SessionIInv, [SessionNext]_sessionVars PROVE SessionIInv'
  OBVIOUS
<1>1. TypeInv /\ ClientFunctions /\ \A t \in Threads : ThreadOK(t)
  BY ByThread DEF SessionIInv
<1>2. TypeInv' /\ ClientFunctions'
  BY <1>1, SessionIsServer, TypeStep, FunctionsKept
<1>3. ASSUME NEW t \in Threads,
             Connect(t) \/ ClientTypes(t) \/ ClientReads(t) \/ CtrlC(t) \/ Serves(t)
      PROVE  ThreadOK(t)'
  BY <1>1, <1>3, ConnectStep, TypeLineStep, ReadMessageStep, CtrlCStep, TakesLineStep,
     TakesAnswerStep, TellsStep, QuietStep
  DEF Serves
<1>4. ASSUME NEW t \in Threads,
             Connect(t) \/ ClientTypes(t) \/ ClientReads(t) \/ CtrlC(t) \/ Serves(t),
             NEW u \in Threads
      PROVE  ThreadOK(u)'
  <2>1. CASE u = t
    BY <1>3, <1>4, <2>1
  <2>2. CASE u # t
    BY <1>1, <1>4, <2>2, OtherThread, ThreadKept
  <2> QED
    BY <2>1, <2>2
<1>5. ASSUME UNCHANGED sessionVars, NEW u \in Threads PROVE ThreadOK(u)'
  BY <1>1, <1>5, ThreadKept DEF sessionVars, client, vars, threadVars
<1>6. \A u \in Threads : ThreadOK(u)'
  BY <1>4, <1>5 DEF SessionNext
<1>7. (SessionTypeOK /\ Conversation)'
  BY <1>2, <1>6 DEF SessionTypeOK, Conversation, ClientFunctions, ThreadOK
<1> QED
  BY <1>2, <1>7 DEF SessionIInv

-----------------------------------------------------------------------------
\* Whatever clients and threads do, the types of the client hold, and what is on
\* a connection is what the places of its two ends say (hw3_client.c 56-82).
THEOREM SessionInvariance == SessionSpec => []SessionIInv
<1>1. SessionSpec => SessionInit /\ [][SessionNext]_sessionVars
  BY DEF SessionSpec
<1> QED
  BY <1>1, SessionStart, SessionStep, PTL

\* A client that asks its user for a line has read everything, and its thread, if
\* it has not closed, waits for that line (the loop of lines 56-66).
THEOREM StaysInStep == SessionSpec => []InStep
<1>1. SessionIInv => InStep
  BY DEF SessionIInv, TypeInv, TypeOK, Conversation, Conversing, InStep, Closed
<1> QED
  BY <1>1, SessionInvariance, PTL

\* What a client reads behind "Please wait" is the arrival, or the question, as
\* lines 69-75 expect, as long as the server lives.
THEOREM ArrivalAwaited == SessionSpec => []WaitedForArrival
<1>1. SessionIInv => WaitedForArrival
  BY DEF SessionIInv, Conversation, Conversing, WaitedForArrival
<1> QED
  BY <1>1, SessionInvariance, PTL

\* In the conversation the server does nothing it does not do among arbitrary
\* clients: the session implements the server of DeliveryServer.
THEOREM SessionServes == SessionSpec => Init /\ [][Next]_vars
<1>1. SessionSpec => SessionInit /\ [][SessionNext]_sessionVars
  BY DEF SessionSpec
<1>2. SessionInit => Init
  BY DEF SessionInit
<1>3. SessionIInv /\ [SessionNext]_sessionVars => [Next]_vars
  BY SessionIsServer DEF SessionIInv
<1> QED
  BY <1>1, <1>2, <1>3, SessionInvariance, PTL

\* So its books balance, and a client of the repository is charged the price of
\* the basket it prints (hw3.c 391-434, hw3_client.c 56-66).
THEOREM SessionCharged == SessionSpec => []IInv /\ []BillMatchesBasket
BY SessionServes, InvInit, InvStep, PricedBaskets, PTL
=============================================================================
