--------------------------- MODULE DeliverySession ---------------------------
(***************************************************************************)
(* The delivery server of hw3 in conversation with the client of the       *)
(* repository (hw3_client.c), one client for each thread of the server.    *)
(* A client sends a line and reads one reply, until that is "Please wait   *)
(* a few minutes..."; it then reads the next message, and asks for one     *)
(* more line unless that message is the question about a long wait.        *)
(*                                                                         *)
(* Every step of the server is an action of DeliveryServer, together with  *)
(* the line it reads and the message it sends.  Both sides exchange        *)
(* messages of BUFSIZE bytes, so a read returns one message.               *)
(***************************************************************************)
EXTENDS DeliveryServer, Sequences

VARIABLES
  cpc,     \* cpc[t]: where the client of thread t is
  line,    \* line[t]: the line sent that the server has not read
  inbox,   \* inbox[t]: the messages sent that the client has not read
  got,     \* got[t]: receiveMessage, the message the client has read last
  broken   \* broken[t]: the client has written to a connection that was closed

client     == <<cpc, line, inbox, got, broken>>
sessionVars == <<vars, client>>

\* What a user types.  An empty line is no byte at all.
Lines == {"shop list", "confirm", "cancel", "order", "Yes", "No", "other", "empty"}
Words == {"Yes", "No", "other"}

\* What the server says: the shops, the basket, or one of its sentences.
Messages == {"shops", "basket", "order first", "long wait", "please wait", "arrived"}

\* The content of receiveMessage, empty before the first read and at the end.
Received == Messages \cup {"empty"}

\* The server's end of the connection, which its death closes as well.
Closed(t) == server = "dead" \/ pc[t] \in {"served", "left"}

SessionInit ==
  /\ Init
  /\ cpc    = [t \in Threads |-> "start"]
  /\ line   = [t \in Threads |-> "empty"]
  /\ inbox  = [t \in Threads |-> <<>>]
  /\ got    = [t \in Threads |-> "empty"]
  /\ broken = [t \in Threads |-> FALSE]

-----------------------------------------------------------------------------
(* The client.                                                             *)

\* connectsock: the connection is accepted at once or later.
Connect(t) ==
  /\ cpc[t] = "start"
  /\ Accept(t)
  /\ cpc' = [cpc EXCEPT ![t] = "line"]
  /\ UNCHANGED <<line, inbox, got, broken>>

\* The lines that keep within the bound on what a client orders.
MayType(t) ==
  {w \in Lines : pc[t] = "recv" =>
     /\ w = "order" => \E o \in Orders : Quantity(t) + o.amount <= MaxQuantity
     /\ w \in Words => sess[t].shop_flag /\ Quantity(t) + sess[t].amount <= MaxQuantity}

\* sendback_message_to_server: fgets and write.  A write to a connection the
\* server has closed succeeds once; the next meets the reset, and SIGPIPE.
TypeLine(t, from, to) ==
  /\ cpc[t] = from
  /\ \E w \in MayType(t) :
       \/ /\ cpc'    = [cpc EXCEPT ![t] = to]
          /\ line'   = [line EXCEPT ![t] = IF Closed(t) THEN "empty" ELSE w]
          /\ broken' = [broken EXCEPT ![t] = @ \/ (Closed(t) /\ w # "empty")]
       \/ /\ broken[t] /\ w # "empty"
          /\ cpc' = [cpc EXCEPT ![t] = "failed"]
          /\ UNCHANGED <<line, broken>>
  /\ UNCHANGED <<vars, inbox, got>>

\* receive_mssage_from_server: the next message; at the end of the stream an
\* empty one, or, behind a reset, errexit.
ReadMessage(t, from, next) ==
  /\ cpc[t] = from
  /\ \/ /\ inbox[t] # <<>>
        /\ got'   = [got EXCEPT ![t] = Head(inbox[t])]
        /\ inbox' = [inbox EXCEPT ![t] = Tail(@)]
        /\ cpc'   = [cpc EXCEPT ![t] = next[Head(inbox[t])]]
     \/ /\ inbox[t] = <<>> /\ Closed(t)
        /\ got' = [got EXCEPT ![t] = "empty"]
        /\ cpc' = [cpc EXCEPT ![t] = next["empty"]]
        /\ UNCHANGED inbox
     \/ /\ inbox[t] = <<>> /\ Closed(t) /\ (broken[t] \/ server = "dead")
        /\ cpc' = [cpc EXCEPT ![t] = "failed"]
        /\ UNCHANGED <<got, inbox>>
  /\ UNCHANGED <<vars, line, broken>>

\* The loop, lines 56-65.
AfterReply == [m \in Received |-> IF m = "please wait" THEN "message" ELSE "line"]

\* Line 75 as it stands, with its != 0.
AfterMessage == [m \in Received |-> IF m # "long wait" THEN "line2" ELSE "done"]

\* Behind the last read: close and the end of main.
AfterReply2 == [m \in Received |-> "done"]

ReadReply(t)   == ReadMessage(t, "reply", AfterReply)
ReadNext(t)    == ReadMessage(t, "message", AfterMessage)
ReadLast(t)    == ReadMessage(t, "reply2", AfterReply2)
ClientReads(t) == ReadReply(t) \/ ReadNext(t) \/ ReadLast(t)
ClientTypes(t) == TypeLine(t, "line", "reply") \/ TypeLine(t, "line2", "reply2")

\* Ctrl-C on the client: close and exit.  A line on its way is read first.
CtrlC(t) ==
  /\ cpc[t] \notin {"start", "done", "failed"}
  /\ line[t] = "empty"
  /\ HangUp(t)
  /\ conn'[t] = IF inbox[t] = <<>> THEN "fin" ELSE "rst"
  /\ cpc' = [cpc EXCEPT ![t] = "failed"]
  /\ UNCHANGED <<line, inbox, got, broken>>

-----------------------------------------------------------------------------
(* The server: what its steps read and say.                                *)

Reads(t, words) == line[t] \in words /\ line' = [line EXCEPT ![t] = "empty"]

Says(t, m) == inbox' = [inbox EXCEPT ![t] = IF conn[t] = "open" THEN Append(@, m) ELSE @]

\* Mutant of TakesConfirm: a confirmed order is acknowledged.
TakesConfirmAloud(t) ==
  /\ Reads(t, {"confirm"})
  /\ \/ ConfirmNothing(t) /\ Says(t, "order first")
     \/ Confirm(t) /\ Says(t, "basket")

\* Mutant of TakesConfirm: who has ordered nothing is told to wait as well.
TakesConfirmHasty(t) ==
  /\ Reads(t, {"confirm"})
  /\ \/ ConfirmNothing(t) /\ Says(t, "please wait")
     \/ Confirm(t) /\ UNCHANGED inbox

TakesConfirm(t) ==
  /\ Reads(t, {"confirm"})
  /\ \/ ConfirmNothing(t) /\ Says(t, "order first")
     \/ Confirm(t) /\ UNCHANGED inbox

TakesLine(t) ==
  \/ Reads(t, {"shop list"}) /\ RecvShopList(t) /\ Says(t, "shops")
  \/ TakesConfirm(t)
  \/ Reads(t, {"cancel"}) /\ Cancel(t) /\ UNCHANGED inbox
  \/ Reads(t, {"order"}) /\ RecvOrder(t) /\ Says(t, "basket")
  \/ Reads(t, Words) /\ RecvWords(t) /\ Says(t, "basket")

TakesAnswer(t) ==
  /\ UNCHANGED inbox
  /\ \/ Reads(t, {"Yes"}) /\ Answer(t, "Yes")
     \/ Reads(t, {"No"})  /\ Answer(t, "No")
     \/ Reads(t, Lines \ {"Yes", "No", "empty"}) /\ Answer(t, "other")
     \/ UNCHANGED line /\ Answer(t, "eof")

\* Mutant of Tells: the long wait is announced like the short one.
TellsToWait(t) ==
  /\ man[t] # 0
  /\ \/ Check(t)  /\ Says(t, "please wait")
     \/ Arrive(t) /\ Says(t, "arrived")

\* Mutant of Tells: the connection is closed without a word on the arrival.
TellsNoArrival(t) ==
  /\ man[t] # 0
  /\ \/ Check(t)  /\ Says(t, IF time[man[t]] > LongWait THEN "long wait" ELSE "please wait")
     \/ Arrive(t) /\ UNCHANGED inbox

Tells(t) ==
  /\ man[t] # 0
  /\ \/ Check(t)  /\ Says(t, IF time[man[t]] > LongWait THEN "long wait" ELSE "please wait")
     \/ Arrive(t) /\ Says(t, "arrived")

\* The steps that neither read nor say anything, and those that end the process.
Quiet(t) ==
  /\ \/ Work(t) /\ ~ (\E place \in {"check", "arrive"} : ThreadAt(t, place))
     \/ RecvEof(t) \/ ReadFails(t) \/ WriteFails(t) \/ CopyFails(t)
  /\ UNCHANGED <<line, inbox>>

Serves(t) ==
  /\ \/ TakesLine(t) \/ TakesAnswer(t) \/ Quiet(t)
     \/ Tells(t) /\ UNCHANGED line
  /\ UNCHANGED <<cpc, got, broken>>

SessionNext ==
  \E t \in Threads : \/ Connect(t) \/ ClientTypes(t) \/ ClientReads(t) \/ CtrlC(t)
                     \/ Serves(t)

\* Both programs are scheduled; no user has to type.
SessionFairness ==
  \A t \in Threads : WF_sessionVars(Serves(t)) /\ WF_sessionVars(ClientReads(t))

SessionSpec == SessionInit /\ [][SessionNext]_sessionVars /\ SessionFairness

-----------------------------------------------------------------------------
\* Types of what the client adds; a client that reads behind "please wait" has
\* an order of one of the shops under way.
SessionTypeOK ==
  /\ cpc    \in [Threads -> {"start", "line", "reply", "message", "line2", "reply2",
                             "done", "failed"}]
  /\ line   \in [Threads -> Lines]
  /\ inbox  \in [Threads -> Seq(Messages)]
  /\ got    \in [Threads -> Received]
  /\ broken \in [Threads -> BOOLEAN]
  /\ \A t \in Threads : cpc[t] = "message" => man[t] # 0

\* The two programs stay in step: when the client asks its user for a line it
\* has read all the server has said, and the server, if it has not closed,
\* waits for that line.
InStep ==
  \A t \in Threads :
    cpc[t] = "line" /\ ~ Closed(t) =>
      /\ inbox[t] = <<>> /\ line[t] = "empty"
      /\ pc[t] \in {"recv", "answer"}

\* What makes these inductive: what is on the connection, wherever the two are.
\* The client is answered once for a line, but by two messages for "confirm"
\* when it is not asked, and by none when it cancels or says "No".
Unsettled == {"none", "recv", "load", "half1", "half2", "addBegin", "addEnd", "check"}
Unheard   == (Unsettled \ {"none", "recv"}) \cup {"dropBegin", "dropEnd"}
Underway  == {"shift", "out", "customer", "income", "subBegin", "subEnd", "leave", "arrive"}

Conversing(t) ==
  LET unasked == answer[t] = "unasked"
      said(m) == inbox[t] = m /\ line[t] = "empty"
  IN  /\ cpc[t] = "start" => pc[t] = "none" /\ said(<<>>)
      /\ cpc[t] = "line" => pc[t] \in {"recv", "answer", "served", "left"} /\ said(<<>>)
      /\ cpc[t] = "reply" =>
           \/ pc[t] \in {"recv", "answer"} /\ inbox[t] = <<>>
           \/ pc[t] = "recv" /\ \E m \in {"shops", "basket", "order first"} : said(<<m>>)
           \/ pc[t] = "answer" /\ said(<<"long wait">>)
           \/ pc[t] \in Unheard \cup {"served", "left"} /\ said(<<>>)
           \/ pc[t] \in Underway /\ unasked /\ said(<<"please wait">>)
           \/ pc[t] \in Underway /\ ~ unasked /\ said(<<>>)
           \/ pc[t] = "served" /\ unasked /\ said(<<"please wait", "arrived">>)
           \/ pc[t] = "served" /\ ~ unasked /\ said(<<"arrived">>)
      /\ cpc[t] = "message" => \/ pc[t] \in Underway /\ said(<<>>)
                               \/ pc[t] = "served" /\ said(<<"arrived">>)
      /\ cpc[t] \in {"line2", "reply2"} =>
           pc[t] = "served" /\ said(<<>>) /\ got[t] = "arrived"

Conversation ==
  \A t \in Threads :
    /\ cpc[t] # "failed" => conn[t] = "open"
    /\ pc[t] \in Unsettled => answer[t] = "unasked"
    /\ pc[t] = "answer" => answer[t] = "asked"
    /\ man[t] = 0 => inbox[t] \in Seq(Messages \ {"please wait"})
    /\ server = "up" => Conversing(t)

SessionIInv == TypeInv /\ SessionTypeOK /\ Conversation

\* A client that was told to wait is told that its delivery has arrived, or its
\* connection or its server ends; it is never left reading.
WaitIsOver == \A t \in Threads : cpc[t] = "message" ~> cpc[t] # "message"

\* The message read behind "Please wait" is the arrival or the question, as line
\* 70 of hw3_client.c expects, as long as the server lives.
WaitedForArrival ==
  \A t \in Threads :
    cpc[t] \in {"line2", "reply2"} /\ server = "up" => got[t] \in {"arrived", "long wait"}

\* Line 81 of hw3_client.c: the last message a client reads is the arrival.
LastIsArrival == \A t \in Threads : cpc[t] = "done" => got[t] = "arrived"
=============================================================================
