---------------------------- MODULE DisplayWriters ----------------------------
(***************************************************************************)
(* The programs that use the displays: writer.c of lab1, lab3-1_writer.c,  *)
(* lab3-2_writer.c, and writer.c and reader.c of lab4, up to the bytes     *)
(* that seg.py is sent.  Every process runs a program of its lab once.     *)
(*                                                                         *)
(* A writer writes one frame after another and a blank one at the end; a   *)
(* write sets the positions one by one, and other processes are served     *)
(* between them.                                                           *)
(***************************************************************************)
EXTENDS DisplayDevice, Decimals, SequencesExt

CONSTANTS Users,       \* the processes
          Ids,         \* student numbers given to lab3-1_writer
          StudentId,   \* the number written in lab3-2_writer (311605015)
          Quantities,  \* what a customer of lab1 orders of each item
          Shops,       \* the restaurants of lab1 that are ordered from
          Names,       \* names, as sequences of Letters, given to lab4's writer
          IntMax,      \* INT_MAX
          MaxFrames    \* bound: a customer of lab1 who has seen that many frames
                       \* orders no more

ASSUME IntMaxAssumption == IntMax \in Nat /\ IntMax % 2 = 1
ASSUME NumbersAssumption ==
  Ids \cup {StudentId} \subseteq 0..IntMax /\ Quantities \subseteq Nat /\ MaxFrames \in Nat

VARIABLES
  pc,        \* where the process is
  id,        \* the number it displays, in lab3
  script,    \* what is lit in the frames it is still to write before the blank one
  buf,       \* its buffer: the frame being written or read
  prev,      \* the frame it wrote before
  at,        \* positions of buf that are done
  shown,     \* history: the frames of script written whole
  sent       \* what it sent to seg.py last; the drawing, where every byte but
             \* zero is red, is not modelled

userVars == <<pc, id, script, buf, prev, at, shown, sent>>
vars     == <<deviceVars, userVars>>

-----------------------------------------------------------------------------
(* Frames: texts of the display's width, made of the positions with a '1'. *)

Frame(lit)   == [i \in Positions |-> IF i \in lit THEN "1" ELSE "0"]
Blank        == Frame({})
Zeros        == [i \in Positions |-> "nul"]

\* The segments of the digits 0 to 9: lab1 and lab3-2 differ in the 7.
num_array(seven) ==
  <<1..6, {2,3}, {1,2,4,5,7}, {1,2,3,4,7}, {2,3,6,7}, {1,3,4,6,7}, 3..7, seven,
    1..7, {1,2,3,6,7}>>

intToBinary4Bits(num) == {i \in 1..4 : (num \div 2^(4 - i)) % 2 = 1}
Segments(digit)       == num_array({1,2,3,7})[digit + 1]

\* Rows of the letters the names use.
seg_for_c == [A |-> {1,2,3,4,7,8,12,16}, C |-> {1,2,5,6,7,8}]
Letters   == DOMAIN seg_for_c

\* What a signed int holds after an operation.
Wrap(n) == ((n + IntMax + 1) % (2 * (IntMax + 1))) - IntMax - 1

\* Mutant of Reversed: the last digit is put in front.
ReversedNot(digits) == NumberOf(Reverse(digits))

\* reversedNumber = reversedNumber * 10 + digit, for each digit popped.
Reversed(digits) ==
  LET reversedNumber[k \in 0..Len(digits)] ==
        IF k = 0 THEN 0 ELSE Wrap(10 * reversedNumber[k - 1] + digits[k])
  IN  reversedNumber[Len(digits)]

DigitsOf(number) == Digits(Reversed(Digits(number)))
Shape(digit)     == IF lab = "lab3_1" THEN intToBinary4Bits(digit) ELSE Segments(digit)

\* lab1: a row of 8 LEDs for the distance left, which loses one in every two
\* frames, and next to it the price, whose last digit stays.
PriceText(n) == IF n = 0 THEN <<0>> ELSE Reverse(Popped[n])
light_led(distance, price) ==
  LET str == PriceText(price)
      Digit(i) == str[IF i <= Len(str) THEN i ELSE Len(str)]
      Price(i) == {8 + s : s \in num_array({1,2,3})[Digit(i) + 1]}
  IN [i \in 1..(2 * distance + 1) |->
        1..(distance - ((i - 1) \div 2)) \cup Price(i)]

Restaurants == [Dessert  |-> [distance |-> 3, price1 |-> 60, price2 |-> 80],
                Beverage |-> [distance |-> 5, price1 |-> 40, price2 |-> 70],
                Diner    |-> [distance |-> 8, price1 |-> 120, price2 |-> 50]]

-----------------------------------------------------------------------------
Init ==
  /\ DeviceInit
  /\ pc     = [u \in Users |-> "idle"]
  /\ id     = [u \in Users |-> 0]
  /\ script = [u \in Users |-> <<>>]
  /\ buf    = [u \in Users |-> Zeros]
  /\ prev   = [u \in Users |-> Zeros]
  /\ at     = [u \in Users |-> 0]
  /\ shown  = [u \in Users |-> <<>>]
  /\ sent   = [u \in Users |-> Zeros]

\* A process whose module has gone away makes no step the model knows of.
At(u, place) == pc[u] = place /\ u \notin stranded
Whole(u)     == at[u] = Width(lab)
Goto(u, from, to) == At(u, from) /\ pc' = [pc EXCEPT ![u] = to]

\* A frame is put in the buffer, to be written position by position.
Begin(u, frame) ==
  /\ prev' = [prev EXCEPT ![u] = buf[u]]
  /\ buf'  = [buf EXCEPT ![u] = frame]
  /\ at'   = [at EXCEPT ![u] = 0]

\* The file is open and nothing written yet; on lab4 my_open is still to run.
Start(u, place, number, frames) ==
  /\ Goto(u, "idle", place) /\ Open(u)
  /\ id'     = [id EXCEPT ![u] = number]
  /\ script' = [script EXCEPT ![u] = frames]
  /\ at'     = [at EXCEPT ![u] = IF place = "write" THEN Width(lab) ELSE 0]
  /\ UNCHANGED <<buf, prev, shown, sent>>

StartLab3_1(u) ==
  /\ lab = "lab3_1"
  /\ \E number \in Ids :
       LET digits == DigitsOf(number)
       IN  Start(u, "write", number, [k \in DOMAIN digits |-> Shape(digits[k])])

StartLab3_2(u) ==
  /\ lab = "lab3_2"
  /\ LET digits == DigitsOf(StudentId)
     IN  Start(u, "write", StudentId, [k \in DOMAIN digits |-> Shape(digits[k])])

StartLab4(u) ==
  /\ lab = "lab4"
  /\ \E name \in Names :
       Start(u, "opening", 0, [k \in DOMAIN name |-> seg_for_c[name[k]]])

StartReader(u) == lab = "lab4" /\ Start(u, "connected", 0, <<>>)

\* memset of my_open, beside the copies that others are in the middle of; a
\* signal waits for its end.
my_open(u) ==
  /\ lab = "lab4"
  /\ At(u, "opening") \/ At(u, "connected")
  /\ \E i \in Stops(at[u]) :
       /\ Set((at[u] + 1)..i, Zeros)
       /\ IF i < Width(lab) THEN at' = [at EXCEPT ![u] = i] /\ UNCHANGED pc
          ELSE IF pc[u] = "opening"
          THEN at' = [at EXCEPT ![u] = i] /\ pc' = [pc EXCEPT ![u] = "write"]
          ELSE at' = [at EXCEPT ![u] = 0] /\ pc' = [pc EXCEPT ![u] = "read"]
  /\ UNCHANGED <<id, script, buf, prev, shown, sent>>

\* lab1: a process that has not ordered yet is at the menu too.  The file is
\* opened for each order and never closed.
AtMenu(u, to) == lab = "lab1" /\ (Goto(u, "idle", to) \/ Goto(u, "menu", to))

orderFood(u) ==
  /\ Len(shown[u]) < MaxFrames
  /\ AtMenu(u, "write") /\ Open(u)
  /\ \E shop \in Shops, q1 \in Quantities, q2 \in Quantities :
       LET r == Restaurants[shop]
       IN  script' = [script EXCEPT ![u] =
                        light_led(r.distance, q1 * r.price1 + q2 * r.price2)]
  /\ at' = [at EXCEPT ![u] = Width(lab)]
  /\ UNCHANGED <<id, buf, prev, shown, sent>>

\* Choice 0: a blank frame, if the file can be opened, and the end.
initial(u) ==
  \/ /\ AtMenu(u, "blank") /\ Open(u)
     /\ Begin(u, Blank)
     /\ UNCHANGED <<id, script, shown, sent>>
  \/ /\ AtMenu(u, "ended") /\ ~ Visible
     /\ Close(u)
     /\ UNCHANGED <<id, script, buf, prev, at, shown, sent>>

-----------------------------------------------------------------------------
(* A write, and what each module makes of a byte.                          *)

Put(u, levels) ==
  /\ At(u, "write") \/ At(u, "blank")
  /\ \E i \in Stops(at[u]) :
       /\ Set((at[u] + 1)..i, levels)
       /\ at' = [at EXCEPT ![u] = i]
       /\ shown' = IF pc[u] = "write" /\ i = Width(lab)
                   THEN [shown EXCEPT ![u] = Append(@, buf[u])] ELSE shown
  /\ UNCHANGED <<pc, id, script, buf, prev, sent>>

\* lab1 takes rec_buf[i] - '0' for the level: all but '0' is high.
EtxWrite1(u) ==
  lab = "lab1" /\ Put(u, [i \in Positions |-> IF buf[u][i] = "0" THEN "0" ELSE "1"])

\* Mutant of Known: only '1' is looked at.
KnownHigh(u) == [i \in Positions |-> IF buf[u][i] = "1" THEN "1" ELSE out[i]]

\* lab3 leaves a pin alone when the byte is neither '0' nor '1'.
Known(u) == [i \in Positions |-> IF buf[u][i] \in {"0", "1"} THEN buf[u][i] ELSE out[i]]
EtxWrite3_1(u) == lab = "lab3_1" /\ Put(u, Known(u))
EtxWrite3_2(u) == lab = "lab3_2" /\ Put(u, Known(u))

\* lab4 copies from the start of my_data, whatever the file position.
my_write(u) == lab = "lab4" /\ Put(u, buf[u])

\* The next frame after the sleep, behind the last the blank one or the menu.
NextFrame(u) ==
  /\ Whole(u)
  /\ IF script[u] # <<>>
     THEN /\ Goto(u, "write", "write")
          /\ Begin(u, Frame(Head(script[u])))
          /\ script' = [script EXCEPT ![u] = Tail(@)]
     ELSE /\ UNCHANGED script
          /\ IF lab = "lab1"
             THEN Goto(u, "write", "menu") /\ UNCHANGED <<buf, prev, at>>
             ELSE Goto(u, "write", "blank") /\ Begin(u, Blank)
  /\ UNCHANGED <<deviceVars, id, shown, sent>>

\* The end of a writer closes its files.
Exit(u) ==
  /\ Whole(u)
  /\ Goto(u, "blank", "ended")
  /\ Close(u)
  /\ UNCHANGED <<id, script, buf, prev, at, shown, sent>>

-----------------------------------------------------------------------------
(* The reader of lab4.                                                     *)

\* Mutant of my_read: it goes on at the file position, behind the first 16 bytes.
my_read_on(u) ==
  /\ At(u, "read")
  /\ \E i \in Stops(at[u]) :
       /\ buf' = [buf EXCEPT ![u] = [j \in Positions |->
                    IF sent[u] = Zeros /\ j \in (at[u] + 1)..i THEN out[j] ELSE @[j]]]
       /\ at'  = [at EXCEPT ![u] = i]
  /\ UNCHANGED <<deviceVars, pc, id, script, prev, shown, sent>>

my_read(u) ==
  /\ At(u, "read")
  /\ \E i \in Stops(at[u]) :
       /\ buf' = [buf EXCEPT ![u] = [j \in Positions |->
                    IF j \in (at[u] + 1)..i THEN out[j] ELSE @[j]]]
       /\ at'  = [at EXCEPT ![u] = i]
  /\ UNCHANGED <<deviceVars, pc, id, script, prev, shown, sent>>

\* 16 bytes to the socket.
Send(u) ==
  /\ At(u, "read") /\ Whole(u)
  /\ sent' = [sent EXCEPT ![u] = buf[u]]
  /\ at'     = [at EXCEPT ![u] = 0]
  /\ UNCHANGED <<deviceVars, pc, id, script, buf, prev, shown>>

\* Ctrl-C ends a writer at once; the reader's handler closes the file and the
\* socket, so that its next read fails and ends it.
Interrupt(u) ==
  /\ \/ Goto(u, "read", "closed")
     \/ \E place \in {"menu", "write", "blank"} : Goto(u, place, "killed")
  /\ Close(u)
  /\ UNCHANGED <<id, script, buf, prev, at, shown, sent>>

-----------------------------------------------------------------------------
UserStep(u) ==
  \/ EtxWrite1(u) \/ EtxWrite3_1(u) \/ EtxWrite3_2(u) \/ my_write(u)
  \/ my_open(u) \/ NextFrame(u) \/ Exit(u) \/ my_read(u) \/ Send(u)

UserStarts(u) ==
  \/ StartLab3_1(u) \/ StartLab3_2(u) \/ StartLab4(u)
  \/ orderFood(u) \/ initial(u) \/ StartReader(u) \/ Interrupt(u)

ModuleStep ==
  /\ \/ Lab1Driver \/ Lab3_1Driver \/ Lab3_2Driver \/ my_init \/ my_exit
     \/ \E p \in Positions : OtherRequests(p) \/ OtherFrees(p)
  /\ UNCHANGED userVars

Next == ModuleStep \/ \E u \in Users : UserStarts(u) \/ UserStep(u)

\* A process goes on writing or reading; nobody owes an order, a Ctrl-C, an
\* insmod or a rmmod.
Spec == Init /\ [][Next]_vars /\ \A u \in Users : WF_vars(UserStep(u))

-----------------------------------------------------------------------------
Places == {"idle", "menu", "opening", "write", "blank", "ended", "killed",
           "connected", "read", "closed"}

TypeOK ==
  /\ DeviceTypeOK
  /\ opened \subseteq Users /\ stranded \subseteq Users
  /\ pc \in [Users -> Places]
  /\ buf \in [Users -> [Positions -> Bytes]]
  /\ prev \in [Users -> [Positions -> Bytes]]
  /\ sent \in [Users -> [Positions -> Bytes]]
  /\ at \in [Users -> 0..Width(lab)]

\* The last byte u has written at position i.
Latest(u, i) == IF i <= at[u] THEN buf[u][i] ELSE prev[u][i]

\* What is lit is explained by a writer whose last byte there was a '1',
\* however two writers and an init interleave (etx_write, my_write, unlocked).
LitByWriter ==
  \A i \in Positions : out[i] = "1" =>
    \E u \in Users : pc[u] \notin {"read", "closed"} /\ Latest(u, i) = "1"

\* When every writer that began has come to its end, nothing is lit, whoever
\* wrote last and wherever modules were loaded meanwhile (the blank frame at
\* the end of each writer; the files lab1's writer leaves open).  On lab4 this is
\* said of the module's buffer: its screen is another process (seg.py).
AllEnded ==
  \A u \in Users : /\ pc[u] \in {"idle", "ended", "connected", "read", "closed"}
                   /\ u \notin stranded
Dark == AllEnded => \A i \in Positions : out[i] # "1"

\* What makes the two inductive: whoever writes has the file open, so that
\* nobody at lab1's menu finds it gone; a frame under way has every position
\* '0' or '1', and the last frame of a writer is blank.
FilesOpen ==
  \A u \in Users : pc[u] \in {"menu", "opening", "write", "blank"} => u \in opened \cup stranded

FramesKept ==
  \A u \in Users :
    /\ pc[u] \in {"idle", "opening", "connected"} =>
         buf[u] = Zeros /\ prev[u] = Zeros
    /\ pc[u] \in {"write", "blank"} =>
         Whole(u) \/ \A i \in Positions : buf[u][i] \in {"0", "1"}
    /\ pc[u] = "menu"  => Whole(u)
    /\ pc[u] = "blank" => buf[u] = Blank
    /\ pc[u] = "ended" => \A i \in Positions : Latest(u, i) # "1"

LightInv == TypeOK /\ DeviceInv /\ FilesOpen /\ FramesKept /\ LitByWriter

\* The digits shown are read off the frames; with the zeros put back that the
\* reversal loses at its end they make up the number, as long as its reverse
\* fits in an int (the two loops of lab3's writers).
DigitOf(frame) == CHOOSE d \in 0..9 : frame = Frame(Shape(d))
Fits(number)   == NumberOf(Digits(number)) <= IntMax

DigitsShown ==
  lab \in {"lab3_1", "lab3_2"} =>
    \A u \in Users : pc[u] = "ended" /\ Fits(id[u]) =>
      LET digits == [k \in DOMAIN shown[u] |-> DigitOf(shown[u][k])]
      IN  \E zeros \in 0..Len(Digits(id[u])) :
            NumberOf(digits \o ZerosPut(zeros)) = id[u]

\* What makes it inductive: the frames shown, the one under way and the script
\* are those of the digits, one after the other.
InOrder(u) ==
  LET digits == DigitsOf(id[u])
      k      == Len(digits) - Len(script[u])
  IN  /\ pc[u] = "idle" => shown[u] = <<>>
      /\ pc[u] \in {"write", "blank", "ended"} =>
           \A i \in 1..Len(shown[u]) : shown[u][i] = Frame(Shape(digits[i]))
      /\ pc[u] = "write" =>
           /\ script[u] \in Seq(SUBSET Nat) /\ k \in 0..Len(digits)
           /\ \A i \in 1..Len(script[u]) : script[u][i] = Shape(digits[k + i])
           /\ Whole(u) => Len(shown[u]) = k
           /\ ~ Whole(u) => Len(shown[u]) = k - 1 /\ buf[u] = Frame(Shape(digits[k]))
      /\ pc[u] \in {"blank", "ended"} => Len(shown[u]) = Len(digits)

DigitsKept ==
  lab \in {"lab3_1", "lab3_2"} =>
    /\ id \in [Users -> 0..IntMax] /\ DOMAIN script = Users
    /\ shown \in [Users -> Seq([Positions -> Bytes])]
    /\ \A u \in Users : InOrder(u)

IInv == LightInv /\ DigitsKept

\* With the writers at their end, a reader that goes on comes to send what the
\* buffer holds, hence no '1' (Dark), though it copies the buffer while others
\* write or clear it (reader.c's loop, my_read).  Nothing is said of the drawing:
\* seg.py draws a '0' as it draws a '1'.
ReaderCatchesUp ==
  \A u \in Users :
    (lab = "lab4" /\ AllEnded /\ pc[u] = "read") ~>
      (~ AllEnded \/ pc[u] # "read" \/ sent[u] = out)
=============================================================================
