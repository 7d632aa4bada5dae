------------------------ MODULE DisplayWriters_proofs -----------------------
(***************************************************************************)
(* Proofs about DisplayWriters, for every set of processes, names and      *)
(* numbers, and wherever a copy may be looked at (Cuts).                   *)
(***************************************************************************)
EXTENDS DisplayWriters, Data_proofs, TLAPS

\* A display is at least the four pins init requests.
LEMMA Widths == \A l \in Labs : Width(l) \in {4, 7, 15, 16}
BY LabsAssumption DEF Width

\* A step that keeps the lab keeps the display.
LEMMA SameDisplay ==
  ASSUME lab \in Labs, lab' = lab
  PROVE  Positions' = Positions /\ Width(lab)' = Width(lab) /\ Width(lab) \in Nat
<1>1. Width(lab) \in Nat
  BY Widths
<1>2. Width(lab)' = Width(lab) /\ Positions' = Positions
  BY DEF Positions
<1> QED
  BY <1>1, <1>2

\* A copy goes forward and ends inside the display.
LEMMA StopsInside ==
  ASSUME lab \in Labs, NEW i \in 0..Width(lab), NEW j \in Stops(i)
  PROVE  j \in Positions /\ i < j /\ j \in 0..Width(lab)
BY Widths, CutsAssumption DEF Stops, Positions

LEMMA FrameType ==
  ASSUME NEW lit
  PROVE  /\ Frame(lit) \in [Positions -> Bytes]
         /\ \A i \in Positions : Frame(lit)[i] \in {"0", "1"}
BY DEF Frame, Bytes

LEMMA LightInit == Init => LightInv
<1> SUFFICES ASSUME Init PROVE LightInv
  OBVIOUS
<1>1. lab \in Labs /\ Width(lab) \in {4, 7, 15, 16}
  BY Widths DEF Init, DeviceInit
<1>2. DeviceTypeOK
  BY <1>1 DEF Init, DeviceInit, DeviceTypeOK, Positions, Bytes
<1>3. PinsOwned /\ HeldMarked /\ Registered
  BY DEF Init, DeviceInit, PinsOwned, HeldMarked, Registered, Own
<1>4. TypeOK
  BY <1>1, <1>2 DEF Init, DeviceInit, TypeOK, Places, Zeros, Bytes
<1>5. FilesOpen /\ FramesKept
  BY DEF Init, FilesOpen, FramesKept
<1>6. LitByWriter
  BY DEF Init, DeviceInit, LitByWriter
<1> QED
  BY <1>2, <1>3, <1>4, <1>5, <1>6 DEF LightInv, DeviceInv

-----------------------------------------------------------------------------
(* The kernel modules.                                                     *)

\* The steps of init before the pins are requested.
LEMMA MakeStep ==
  ASSUME DeviceInv, AllocRegion \/ AddCdev \/ CreateClass \/ CreateDevice \/ CheckPins,
         lab # "lab4"
  PROVE  DeviceInv'
<1> USE DEF DeviceInv, DeviceTypeOK, PinsOwned, HeldMarked, Registered, Own, Visible,
            Positions, Requested, Make
<1>0. Width(lab) \in {4, 7, 15, 16}
  BY Widths
<1>1. CASE AllocRegion
  BY <1>1 DEF AllocRegion, CanLoad
<1>2. CASE phase = "cdev" /\ Make("cdev", "class")
  BY <1>2
<1>3. CASE phase = "cdev" /\ Unwind("r_del")
  BY <1>3 DEF Unwind, Undone, Strand
<1>4. CASE CreateClass
  BY <1>4 DEF CreateClass
<1>5. CASE CreateDevice
  BY <1>5 DEF CreateDevice
<1>6. CASE CheckPins /\ phase' = "request" /\ next' = 1
           /\ UNCHANGED <<lab, made, taken, held, robbed, out, opened, stranded>>
  BY <1>0, <1>6 DEF CheckPins
<1>7. CASE phase = "valid" /\ Unwind("r_device")
  BY <1>7 DEF Unwind, Undone, Strand
<1> QED
  BY <1>1, <1>2, <1>3, <1>4, <1>5, <1>6, <1>7 DEF AddCdev, CheckPins

\* A pin nobody has marked is nobody's, unless it has been freed under another
\* driver; unwinding frees the four and hands back those that are held.
LEMMA RequestStep ==
  ASSUME DeviceInv, RequestPin, lab # "lab4"
  PROVE  DeviceInv'
<1> USE DEF DeviceInv
<1>0. Width(lab) \in {4, 7, 15, 16} /\ next \in Requested /\ Requested \subseteq Positions
  BY Widths DEF RequestPin, DeviceTypeOK, Registered, Positions, Requested
<1>1. CASE /\ next \notin taken
           /\ taken' = taken \cup {next}
           /\ phase' = IF next = 4 THEN "config" ELSE "request"
           /\ next' = IF next = 4 THEN 1 ELSE next + 1
           /\ UNCHANGED <<lab, made, held, robbed, out, opened, stranded>>
  <2>1. next' \in Positions /\ (phase' = "request" => next' \in Requested)
    BY <1>0, <1>1 DEF Requested, Positions
  <2>2. phase = "request" /\ Own = 1..(next - 1) /\ Own' = Own \cup {next}
    BY <1>0, <1>1 DEF RequestPin, Own, Requested
  <2>3. DeviceTypeOK' /\ HeldMarked' /\ Registered'
    BY <1>0, <1>1, <2>1, <2>2
    DEF DeviceTypeOK, Positions, HeldMarked, Registered, Visible
  <2>4. PinsOwned'
    BY <1>1, <2>2 DEF PinsOwned, HeldMarked
  <2> QED
    BY <2>3, <2>4
<1>2. CASE Unwind("r_gpio")
  <2>1. phase = "request" /\ Own \subseteq Requested
    BY <1>0 DEF RequestPin, Own, Requested
  <2>2. taken' = taken \ Requested /\ robbed' = robbed \cup (Requested \cap held)
        /\ UNCHANGED <<lab, next, held, out>>
    BY <1>2 DEF Unwind, Free
  <2>3. \/ phase' = "broken" /\ UNCHANGED <<made, opened, stranded>> /\ "class" \notin made
        \/ phase' = "out" /\ made' = {} /\ opened' = {}
    BY <1>2 DEF Unwind, Undone, Strand, DeviceTypeOK
  <2>4. DeviceTypeOK' /\ HeldMarked'
    BY <1>0, <2>2, <2>3 DEF DeviceTypeOK, Positions, HeldMarked
  <2>5. PinsOwned'
    BY <2>1, <2>2, <2>3 DEF PinsOwned, Own
  <2>6. Registered'
    BY <2>1, <2>2, <2>3 DEF Registered, Visible
  <2> QED
    BY <2>4, <2>5, <2>6
<1> QED
  BY <1>1, <1>2 DEF RequestPin

LEMMA ConfigureStep ==
  ASSUME DeviceInv, ConfigurePins(Width(lab)), lab # "lab4"
  PROVE  DeviceInv' /\ \A i \in Positions : out'[i] = "1" => out[i] = "1"
<1> USE DEF DeviceInv
<1>0. Width(lab) \in {4, 7, 15, 16} /\ next \in Positions /\ next - 1 \in 0..Width(lab)
  BY Widths DEF DeviceTypeOK, Positions
<1>1. PICK j \in Stops(next - 1) :
        /\ out' = [i \in Positions |-> IF i \in next..j THEN "0" ELSE out[i]]
        /\ phase' = IF j = Width(lab) THEN "in" ELSE "config"
        /\ next' = IF j = Width(lab) THEN 1 ELSE j + 1
  BY DEF ConfigurePins
<1>2. j \in 1..Width(lab)
  BY <1>0, StopsInside DEF DeviceTypeOK, Positions
<1>3. next' \in Positions
  BY <1>0, <1>1, <1>2 DEF Positions
<1>4. DeviceTypeOK'
  BY <1>1, <1>3 DEF ConfigurePins, DeviceTypeOK, Positions, Bytes
<1>5. Own' = Own
  BY <1>1 DEF ConfigurePins, Own
<1>6. PinsOwned' /\ HeldMarked' /\ Registered'
  BY <1>1, <1>5 DEF ConfigurePins, PinsOwned, HeldMarked, Registered, Visible
<1> QED
  BY <1>1, <1>4, <1>6

LEMMA ExitStep ==
  ASSUME DeviceInv, etx_driver_exit(Width(lab)), lab # "lab4"
  PROVE  DeviceInv'
<1> USE DEF DeviceInv
<1>1. taken' = {} /\ robbed' = robbed \cup held
  BY DEF etx_driver_exit, Free, DeviceTypeOK, Positions
<1> QED
  BY <1>1
  DEF etx_driver_exit, DeviceTypeOK, Positions, PinsOwned, HeldMarked, Registered,
      Own, Visible

LEMMA Lab4Step ==
  ASSUME DeviceInv, my_init \/ my_exit
  PROVE  DeviceInv' /\ \A i \in Positions : out'[i] = "1" => out[i] = "1"
<1>1. DeviceTypeOK' /\ \A i \in Positions : out'[i] = "1" => out[i] = "1"
  BY DEF my_init, my_exit, DeviceInv, DeviceTypeOK, Positions, Bytes
<1>2. lab = "lab4" /\ UNCHANGED <<lab, taken, held, robbed>>
  BY DEF my_init, my_exit
<1>3. PinsOwned' /\ HeldMarked'
  <2>1. taken' = {} /\ Own' = {}
    BY <1>2 DEF DeviceInv, Registered, Own
  <2> QED
    BY <1>2, <2>1 DEF DeviceInv, PinsOwned, HeldMarked
<1>4. Registered'
  BY <1>2 DEF my_init, my_exit, Strand, DeviceInv, Registered, Visible
<1> QED
  BY <1>1, <1>3, <1>4 DEF DeviceInv

LEMMA OtherStep ==
  ASSUME DeviceInv, NEW p \in Positions, OtherRequests(p) \/ OtherFrees(p)
  PROVE  DeviceInv' /\ UNCHANGED <<lab, out, opened, stranded>>
BY DEF OtherRequests, OtherFrees, DeviceInv, DeviceTypeOK, Positions,
       PinsOwned, HeldMarked, Registered, Own, Visible

\* What a step of a module does to the processes: it lights nothing, and takes
\* a file away from no process but one it strands.
LEMMA ModuleKeeps ==
  ASSUME LightInv, ModuleStep
  PROVE  /\ DeviceInv'
         /\ lab' = lab
         /\ \A i \in Positions : out'[i] = "1" => out[i] = "1"
         /\ opened' \subseteq opened /\ opened' \cup stranded' = opened \cup stranded
<1> USE DEF LightInv
<1>1. ASSUME etx_driver_init(Width(lab)), lab # "lab4"
      PROVE  /\ DeviceInv'
             /\ \A i \in Positions : out'[i] = "1" => out[i] = "1"
             /\ lab' = lab
             /\ opened' \subseteq opened /\ opened' \cup stranded' = opened \cup stranded
  <2>1. CASE AllocRegion \/ AddCdev \/ CreateClass \/ CreateDevice \/ CheckPins
    BY <1>1, <2>1, MakeStep
    DEF AllocRegion, AddCdev, CreateClass, CreateDevice, CheckPins, Make, Unwind, Strand
  <2>2. CASE RequestPin
    BY <1>1, <2>2, RequestStep DEF RequestPin, Unwind, Strand
  <2>3. CASE ConfigurePins(Width(lab))
    BY <1>1, <2>3, ConfigureStep DEF ConfigurePins
  <2> QED
    BY <1>1, <2>1, <2>2, <2>3 DEF etx_driver_init
<1>2. ASSUME etx_driver_exit(Width(lab)), lab # "lab4"
      PROVE  DeviceInv' /\ UNCHANGED <<lab, out, opened, stranded>>
  BY <1>2, ExitStep DEF etx_driver_exit
<1>3. CASE Lab1Driver \/ Lab3_1Driver \/ Lab3_2Driver
  <2>1. lab # "lab4" /\ (etx_driver_init(Width(lab)) \/ etx_driver_exit(Width(lab)))
    BY <1>3 DEF Lab1Driver, Lab3_1Driver, Lab3_2Driver, Width
  <2> QED
    BY <2>1, <1>1, <1>2
<1>4. CASE my_init \/ my_exit
  BY <1>4, Lab4Step DEF my_init, my_exit, Strand
<1>5. CASE \E p \in Positions : OtherRequests(p) \/ OtherFrees(p)
  BY <1>5, OtherStep
<1> QED
  BY <1>3, <1>4, <1>5 DEF ModuleStep

LEMMA ModulePreserves ==
  ASSUME LightInv, ModuleStep
  PROVE  LightInv'
<1>1. UNCHANGED userVars
  BY DEF ModuleStep
<1>2. /\ DeviceInv' /\ lab' = lab
      /\ \A i \in Positions : out'[i] = "1" => out[i] = "1"
      /\ opened' \subseteq opened /\ opened' \cup stranded' = opened \cup stranded
  BY ModuleKeeps
<1>3. Positions' = Positions /\ Width(lab)' = Width(lab)
  BY <1>2 DEF Positions
<1>4. TypeOK'
  BY <1>1, <1>2, <1>3 DEF LightInv, TypeOK, DeviceInv, userVars
<1>5. FilesOpen'
  BY <1>1, <1>2 DEF LightInv, FilesOpen, userVars
<1>6. FramesKept' /\ LitByWriter'
  BY <1>1, <1>2, <1>3
  DEF LightInv, FramesKept, LitByWriter, Latest, Whole, Zeros, Blank, Frame, userVars
<1> QED
  BY <1>2, <1>4, <1>5, <1>6 DEF LightInv

-----------------------------------------------------------------------------
(* The processes.                                                          *)

\* Opening and closing, as far as the module is concerned.
LEMMA OpenStep ==
  ASSUME DeviceInv, NEW u \in Users, Open(u)
  PROVE  /\ DeviceInv' /\ UNCHANGED <<lab, out, stranded>>
         /\ opened' = opened \cup {u}
BY DEF Open, DeviceInv, DeviceTypeOK, Positions, PinsOwned, HeldMarked, Registered, Own,
       Visible

LEMMA CloseStep ==
  ASSUME DeviceInv, NEW u \in Users, Close(u)
  PROVE  DeviceInv' /\ UNCHANGED <<lab, out, stranded>> /\ opened' = opened \ {u}
BY DEF Close, DeviceInv, DeviceTypeOK, Positions, PinsOwned, HeldMarked, Registered,
       Own, Visible

LEMMA SetStep ==
  ASSUME DeviceInv, NEW positions \in SUBSET Positions,
         NEW levels, \A i \in positions : levels[i] \in Bytes, Set(positions, levels)
  PROVE  /\ DeviceInv' /\ UNCHANGED <<lab, opened, stranded>>
         /\ \A i \in Positions :
              out'[i] = IF i \in positions THEN levels[i] ELSE out[i]
BY DEF Set, DeviceInv, DeviceTypeOK, Positions, PinsOwned, HeldMarked, Registered,
       Own, Visible

\* A step that lights nothing and leaves what a process has written last alone.
LEMMA LitKept ==
  ASSUME LitByWriter, lab' = lab, \A i \in Positions : out'[i] = "1" => out[i] = "1",
         \A u \in Users : \A i \in Positions :
           pc[u] \notin {"read", "closed"} /\ Latest(u, i) = "1"
             => pc'[u] \notin {"read", "closed"} /\ Latest(u, i)' = "1"
  PROVE  LitByWriter'
BY DEF LitByWriter, Positions

\* Whoever has written nothing, or one frame to its end.
LEMMA LatestIdle ==
  ASSUME TypeOK, FramesKept, NEW u \in Users, pc[u] \in {"idle", "opening", "connected"},
         NEW i \in Positions
  PROVE  buf[u][i] = "nul" /\ prev[u][i] = "nul" /\ Latest(u, i) = "nul"
BY DEF FramesKept, Latest, Zeros

LEMMA LatestWhole ==
  ASSUME lab \in Labs, NEW u \in Users, Whole(u), NEW i \in Positions
  PROVE  Latest(u, i) = buf[u][i]
BY Widths DEF Latest, Whole, Positions

\* The file is open before the first frame: nothing is written yet.
LEMMA StartStep ==
  ASSUME LightInv, NEW u \in Users, NEW place \in {"write", "opening", "connected"},
         NEW number, NEW frames, Start(u, place, number, frames)
  PROVE  LightInv'
<1> USE DEF LightInv
<1>0. pc[u] = "idle" /\ pc' = [pc EXCEPT ![u] = place]
      /\ at' = [at EXCEPT ![u] = IF place = "write" THEN Width(lab) ELSE 0]
      /\ UNCHANGED <<buf, prev, sent>>
  BY DEF Start, Goto, At
<1>1. DeviceInv' /\ UNCHANGED <<lab, out, stranded>> /\ opened' = opened \cup {u}
  BY OpenStep DEF Start
<1>2. Positions' = Positions /\ Width(lab)' = Width(lab) /\ Width(lab) \in Nat
  BY <1>1, SameDisplay DEF TypeOK, DeviceTypeOK
<1>3. TypeOK'
  BY <1>0, <1>1, <1>2 DEF TypeOK, DeviceInv, Places
<1>4. FilesOpen'
  BY <1>0, <1>1 DEF FilesOpen, TypeOK
<1>5. \A v \in Users : \A i \in Positions :
        pc[v] \notin {"read", "closed"} /\ Latest(v, i) = "1"
          => pc'[v] \notin {"read", "closed"} /\ Latest(v, i)' = "1"
  BY <1>0, LatestIdle DEF Latest, TypeOK
<1>6. LitByWriter'
  BY <1>1, <1>5, LitKept
<1>7. FramesKept'
  BY <1>0, <1>1, <1>2 DEF FramesKept, TypeOK, Latest, Whole, Zeros, Blank, Frame
<1> QED
  BY <1>1, <1>3, <1>4, <1>6, <1>7

\* The memset of my_open lights nothing; whoever is in it has written nothing.
LEMMA OpeningStep ==
  ASSUME LightInv, NEW u \in Users, my_open(u)
  PROVE  LightInv'
<1> USE DEF LightInv
<1>1. PICK i \in Stops(at[u]) :
        /\ Set((at[u] + 1)..i, Zeros)
        /\ IF i < Width(lab) THEN at' = [at EXCEPT ![u] = i] /\ UNCHANGED pc
           ELSE IF pc[u] = "opening"
           THEN at' = [at EXCEPT ![u] = i] /\ pc' = [pc EXCEPT ![u] = "write"]
           ELSE at' = [at EXCEPT ![u] = 0] /\ pc' = [pc EXCEPT ![u] = "read"]
  BY DEF my_open
<1>2. /\ pc[u] \in {"opening", "connected"} /\ u \notin stranded
      /\ UNCHANGED <<id, script, buf, prev, shown, sent>>
  BY DEF my_open, At
<1>3. lab \in Labs /\ at[u] \in 0..Width(lab)
  BY DEF TypeOK, DeviceTypeOK
<1>4. i \in Positions /\ at[u] < i /\ i \in 0..Width(lab) /\ Width(lab) \in Nat
  BY <1>1, <1>3, StopsInside, Widths
<1> DEFINE positions == (at[u] + 1)..i
<1>5. positions \in SUBSET Positions
  BY <1>3, <1>4 DEF Positions
<1>6. \A j \in positions : Zeros[j] = "nul"
  BY <1>5 DEF Zeros
<1>7. /\ DeviceInv' /\ UNCHANGED <<lab, opened, stranded>>
      /\ \A j \in Positions : out'[j] = IF j \in positions THEN Zeros[j] ELSE out[j]
  BY <1>1, <1>5, <1>6, SetStep DEF Bytes
<1>8. Positions' = Positions /\ Width(lab)' = Width(lab)
  BY <1>3, <1>7, SameDisplay
<1>9. \/ pc' = pc /\ at' = [at EXCEPT ![u] = i]
      \/ /\ pc[u] = "opening" /\ pc' = [pc EXCEPT ![u] = "write"]
         /\ at' = [at EXCEPT ![u] = Width(lab)]
      \/ pc' = [pc EXCEPT ![u] = "read"] /\ at' = [at EXCEPT ![u] = 0]
  BY <1>1, <1>4
<1>10. TypeOK'
  BY <1>2, <1>4, <1>7, <1>8, <1>9 DEF TypeOK, DeviceInv, Places
<1>11. FilesOpen'
  BY <1>2, <1>7, <1>9 DEF FilesOpen, TypeOK
<1>12. LitByWriter'
  <2>1. \A j \in Positions : out'[j] = "1" => out[j] = "1"
    BY <1>6, <1>7
  <2>2. \A v \in Users : \A j \in Positions :
          pc[v] \notin {"read", "closed"} /\ Latest(v, j) = "1"
            => pc'[v] \notin {"read", "closed"} /\ Latest(v, j)' = "1"
    BY <1>2, <1>9, LatestIdle DEF Latest, TypeOK
  <2> QED
    BY <1>7, <2>1, <2>2, LitKept
<1>13. FramesKept'
  BY <1>2, <1>7, <1>8, <1>9 DEF FramesKept, TypeOK, Latest, Whole, Zeros, Blank, Frame
<1> QED
  BY <1>7, <1>10, <1>11, <1>12, <1>13

\* An order at the menu of lab1: the last frame there is written whole.
LEMMA OrderStep ==
  ASSUME LightInv, NEW u \in Users, orderFood(u)
  PROVE  LightInv'
<1> USE DEF LightInv
<1>0. pc[u] \in {"idle", "menu"} /\ pc' = [pc EXCEPT ![u] = "write"]
      /\ at' = [at EXCEPT ![u] = Width(lab)] /\ UNCHANGED <<buf, prev, sent>>
  BY DEF orderFood, AtMenu, Goto, At
<1>1. DeviceInv' /\ UNCHANGED <<lab, out, stranded>> /\ opened' = opened \cup {u}
  BY OpenStep DEF orderFood
<1>2. Positions' = Positions /\ Width(lab)' = Width(lab) /\ Width(lab) \in Nat
  BY <1>1, SameDisplay DEF TypeOK, DeviceTypeOK
<1>3. TypeOK'
  BY <1>0, <1>1, <1>2 DEF TypeOK, DeviceInv, Places
<1>4. FilesOpen'
  BY <1>0, <1>1 DEF FilesOpen, TypeOK
<1>5. \A v \in Users : \A i \in Positions :
        pc[v] \notin {"read", "closed"} /\ Latest(v, i) = "1"
          => pc'[v] \notin {"read", "closed"} /\ Latest(v, i)' = "1"
  BY <1>0, LatestIdle DEF Latest, TypeOK, FramesKept, Whole
<1>6. LitByWriter'
  BY <1>1, <1>5, LitKept
<1>7. FramesKept'
  BY <1>0, <1>1, <1>2 DEF FramesKept, TypeOK, Latest, Whole, Zeros, Blank, Frame
<1> QED
  BY <1>1, <1>3, <1>4, <1>6, <1>7

\* The end at the menu of lab1: with the file there a blank frame is begun,
\* and it is there for whoever has written, who has it open.
LEMMA InitialStep ==
  ASSUME LightInv, NEW u \in Users, initial(u)
  PROVE  LightInv'
<1> USE DEF LightInv
<1>0. pc[u] \in {"idle", "menu"} /\ u \notin stranded
  BY DEF initial, AtMenu, Goto, At
<1>a. Whole(u) \/ pc[u] = "idle"
  BY <1>0 DEF FramesKept
<1>1. CASE /\ pc' = [pc EXCEPT ![u] = "blank"] /\ Open(u)
           /\ Begin(u, Blank)
           /\ UNCHANGED <<id, script, shown, sent>>
  <2>1. DeviceInv' /\ UNCHANGED <<lab, out, stranded>> /\ opened' = opened \cup {u}
    BY <1>1, OpenStep
  <2>2. Positions' = Positions /\ Width(lab)' = Width(lab) /\ Width(lab) \in Nat
    BY <2>1, SameDisplay DEF TypeOK, DeviceTypeOK
  <2>3. prev' = [prev EXCEPT ![u] = buf[u]] /\ buf' = [buf EXCEPT ![u] = Blank]
        /\ at' = [at EXCEPT ![u] = 0] /\ sent' = sent
    BY <1>1 DEF Begin
  <2>4. Blank \in [Positions -> Bytes] /\ \A i \in Positions : Blank[i] = "0"
    BY DEF Blank, Frame, Bytes
  <2>5. TypeOK'
    BY <1>1, <2>1, <2>2, <2>3, <2>4 DEF TypeOK, DeviceInv, Places
  <2>6. FilesOpen'
    BY <1>1, <2>1 DEF FilesOpen, TypeOK
  <2>7. \A i \in Positions : Latest(u, i)' = buf[u][i] /\ Latest(u, i) = buf[u][i]
    BY <1>a, <2>3, <2>2, LatestIdle, LatestWhole DEF Latest, TypeOK, DeviceTypeOK, Positions
  <2>8. \A v \in Users : \A i \in Positions :
          pc[v] \notin {"read", "closed"} /\ Latest(v, i) = "1"
            => pc'[v] \notin {"read", "closed"} /\ Latest(v, i)' = "1"
    BY <1>1, <2>3, <2>7 DEF Latest, TypeOK
  <2>9. LitByWriter'
    BY <2>1, <2>8, LitKept
  <2>10. FramesKept'
    BY <1>1, <2>1, <2>2, <2>3, <2>4 DEF FramesKept, TypeOK, Latest, Whole, Zeros, Blank, Frame
  <2> QED
    BY <2>1, <2>5, <2>6, <2>9, <2>10
<1>2. CASE /\ pc' = [pc EXCEPT ![u] = "ended"] /\ ~ Visible
           /\ Close(u)
           /\ UNCHANGED <<id, script, buf, prev, at, shown, sent>>
  <2>1. DeviceInv' /\ UNCHANGED <<lab, out, stranded>> /\ opened' = opened \ {u}
    BY <1>2, CloseStep
  <2>2. Positions' = Positions /\ Width(lab)' = Width(lab)
    BY <2>1 DEF Positions
  <2>3. pc[u] = "idle"
    BY <1>0, <1>2 DEF FilesOpen, DeviceInv, Registered
  <2>4. TypeOK'
    BY <1>2, <2>1, <2>2 DEF TypeOK, DeviceInv, Places
  <2>5. FilesOpen'
    BY <1>2, <2>1 DEF FilesOpen, TypeOK
  <2>6. LitByWriter'
    BY <1>2, <2>1, LitKept, LatestIdle, <2>3 DEF Latest, TypeOK
  <2>7. FramesKept'
    BY <1>2, <2>1, <2>2, <2>3, LatestIdle DEF FramesKept, TypeOK, Latest, Whole, Zeros, Blank, Frame
  <2> QED
    BY <2>1, <2>4, <2>5, <2>6, <2>7
<1> QED
  BY <1>1, <1>2 DEF initial, AtMenu, Goto

\* A write sets positions its buffer has a '0' or a '1' for.
LEMMA PutStep ==
  ASSUME LightInv, NEW u \in Users, NEW levels,
         \A i \in Positions : buf[u][i] \in {"0", "1"} => levels[i] = buf[u][i],
         Put(u, levels)
  PROVE  LightInv'
<1> USE DEF LightInv
<1>1. PICK i \in Stops(at[u]) :
        /\ Set((at[u] + 1)..i, levels)
        /\ at' = [at EXCEPT ![u] = i]
  BY DEF Put
<1>2. pc[u] \in {"write", "blank"} /\ UNCHANGED <<pc, id, script, buf, prev, sent>>
  BY DEF Put, At
<1>3. lab \in Labs /\ at[u] \in 0..Width(lab)
  BY DEF TypeOK, DeviceTypeOK
<1>4. i \in Positions /\ at[u] < i /\ i \in 0..Width(lab) /\ Width(lab) \in Nat
  BY <1>1, <1>3, StopsInside, Widths
<1> DEFINE positions == (at[u] + 1)..i
<1>5. positions \in SUBSET Positions
  BY <1>3, <1>4 DEF Positions
<1>6. \A j \in Positions : buf[u][j] \in {"0", "1"} /\ levels[j] = buf[u][j]
  <2>1. ~ Whole(u)
    BY <1>3, <1>4 DEF Whole
  <2> QED
    BY <1>2, <2>1 DEF FramesKept
<1>7. /\ DeviceInv' /\ UNCHANGED <<lab, opened, stranded>>
      /\ \A j \in Positions : out'[j] = IF j \in positions THEN levels[j] ELSE out[j]
  BY <1>1, <1>5, <1>6, SetStep DEF Bytes
<1>8. Positions' = Positions /\ Width(lab)' = Width(lab)
  BY <1>3, <1>7, SameDisplay
<1>9. TypeOK'
  BY <1>1, <1>2, <1>4, <1>7, <1>8 DEF TypeOK, DeviceInv
<1>10. FilesOpen'
  BY <1>2, <1>7 DEF FilesOpen
<1>11. LitByWriter'
  <2> SUFFICES ASSUME NEW j \in Positions, out'[j] = "1"
               PROVE  \E v \in Users : pc[v] \notin {"read", "closed"} /\ Latest(v, j)' = "1"
    BY <1>2, <1>8 DEF LitByWriter
  <2>1. CASE j \in positions
    <3>1. Latest(u, j)' = buf[u][j] /\ buf[u][j] = "1"
      BY <1>1, <1>2, <1>3, <1>4, <1>6, <1>7, <2>1 DEF Latest, TypeOK, Positions
    <3> QED
      BY <1>2, <3>1
  <2>2. CASE j \notin positions
    <3>1. PICK v \in Users : pc[v] \notin {"read", "closed"} /\ Latest(v, j) = "1"
      BY <1>7, <2>2 DEF LitByWriter
    <3>2. Latest(v, j)' = Latest(v, j)
      BY <1>1, <1>2, <1>3, <1>4, <2>2 DEF Latest, TypeOK, Positions
    <3> QED
      BY <3>1, <3>2
  <2> QED
    BY <2>1, <2>2
<1>12. FramesKept'
  BY <1>1, <1>2, <1>6, <1>7, <1>8
  DEF FramesKept, TypeOK, Latest, Whole, Zeros, Blank, Frame
<1> QED
  BY <1>7, <1>9, <1>10, <1>11, <1>12

\* Each driver's reading of a byte is the byte itself in a whole frame.
LEMMA WriteStep ==
  ASSUME LightInv, NEW u \in Users,
         EtxWrite1(u) \/ EtxWrite3_1(u) \/ EtxWrite3_2(u) \/ my_write(u)
  PROVE  LightInv'
<1>1. CASE EtxWrite1(u)
  BY <1>1, PutStep DEF EtxWrite1
<1>2. CASE EtxWrite3_1(u) \/ EtxWrite3_2(u)
  BY <1>2, PutStep DEF EtxWrite3_1, EtxWrite3_2, Known
<1>3. CASE my_write(u)
  BY <1>3, PutStep DEF my_write
<1> QED
  BY <1>1, <1>2, <1>3

\* The last frame stays what explains the lights until the next is written.
LEMMA NextFrameStep ==
  ASSUME LightInv, NEW u \in Users, NextFrame(u)
  PROVE  LightInv'
<1> USE DEF LightInv
<1>1. Whole(u) /\ pc[u] = "write" /\ UNCHANGED <<deviceVars, sent>>
  BY DEF NextFrame, Goto, At
<1>2. UNCHANGED <<lab, phase, next, made, taken, held, robbed, out, opened, stranded>>
      /\ Positions' = Positions /\ Width(lab)' = Width(lab) /\ Width(lab) \in Nat
  BY <1>1, SameDisplay DEF TypeOK, DeviceTypeOK, deviceVars
<1>3. DeviceInv'
  BY <1>2
  DEF DeviceInv, DeviceTypeOK, PinsOwned, HeldMarked, Registered, Own, Visible
<1>4. CASE pc' = [pc EXCEPT ![u] = "menu"] /\ UNCHANGED <<buf, prev, at>>
  <2>1. TypeOK' /\ FilesOpen'
    BY <1>1, <1>2, <1>3, <1>4 DEF TypeOK, DeviceInv, Places, FilesOpen
  <2>2. LitByWriter'
    BY <1>1, <1>2, <1>4, LitKept DEF Latest, TypeOK
  <2>3. FramesKept'
    BY <1>1, <1>2, <1>4 DEF FramesKept, TypeOK, Latest, Whole, Zeros, Blank, Frame
  <2> QED
    BY <1>3, <2>1, <2>2, <2>3
<1>5. ASSUME NEW lit, NEW place \in {"write", "blank"}, place = "blank" => lit = {},
             pc' = [pc EXCEPT ![u] = place], Begin(u, Frame(lit))
      PROVE  LightInv'
  <2>1. prev' = [prev EXCEPT ![u] = buf[u]] /\ buf' = [buf EXCEPT ![u] = Frame(lit)]
        /\ at' = [at EXCEPT ![u] = 0]
    BY <1>5 DEF Begin
  <2>2. TypeOK'
    BY <1>1, <1>2, <1>3, <1>5, <2>1, FrameType DEF TypeOK, DeviceInv, Places
  <2>3. FilesOpen'
    BY <1>1, <1>2, <1>5 DEF FilesOpen, TypeOK
  <2>4. \A i \in Positions : Latest(u, i)' = buf[u][i] /\ Latest(u, i) = buf[u][i]
    BY <1>1, <1>2, <2>1, LatestWhole DEF Latest, TypeOK, DeviceTypeOK, Positions
  <2>5. \A v \in Users : \A i \in Positions :
          pc[v] \notin {"read", "closed"} /\ Latest(v, i) = "1"
            => pc'[v] \notin {"read", "closed"} /\ Latest(v, i)' = "1"
    BY <1>5, <2>1, <2>4 DEF Latest, TypeOK
  <2>6. LitByWriter'
    BY <1>2, <2>5, LitKept
  <2>7. buf'[u] = Frame(lit) /\ \A i \in Positions : buf'[u][i] \in {"0", "1"}
    BY <2>1, FrameType DEF TypeOK
  <2>8. FramesKept'
    BY <1>2, <1>5, <2>1, <2>7 DEF FramesKept, TypeOK, Latest, Whole, Zeros, Blank, Frame
  <2> QED
    BY <1>3, <2>2, <2>3, <2>6, <2>8
<1>6. CASE script[u] # <<>>
  <2>1. pc' = [pc EXCEPT ![u] = "write"] /\ Begin(u, Frame(Head(script[u])))
    BY <1>6 DEF NextFrame, Goto
  <2> QED
    BY <2>1, <1>5
<1>7. CASE script[u] = <<>> /\ lab # "lab1"
  <2>1. pc' = [pc EXCEPT ![u] = "blank"] /\ Begin(u, Frame({}))
    BY <1>7 DEF NextFrame, Goto, Blank
  <2> QED
    BY <2>1, <1>5
<1> QED
  BY <1>4, <1>6, <1>7 DEF NextFrame, Goto

\* A writer ends behind its blank frame.
LEMMA EndStep ==
  ASSUME LightInv, NEW u \in Users, Exit(u)
  PROVE  LightInv'
<1> USE DEF LightInv
<1>1. Whole(u) /\ pc[u] = "blank" /\ pc' = [pc EXCEPT ![u] = "ended"]
      /\ UNCHANGED <<id, script, buf, prev, at, shown, sent>>
  BY DEF Exit, Goto, At
<1>2. DeviceInv' /\ UNCHANGED <<lab, out, stranded>> /\ opened' = opened \ {u}
  BY CloseStep DEF Exit
<1>3. Positions' = Positions /\ Width(lab)' = Width(lab)
  BY <1>2 DEF Positions
<1>4. TypeOK' /\ FilesOpen'
  BY <1>1, <1>2, <1>3 DEF TypeOK, DeviceInv, Places, FilesOpen
<1>5. LitByWriter'
  BY <1>1, <1>2, LitKept DEF Latest, TypeOK
<1>6. \A i \in Positions : Latest(u, i) = "0"
  BY <1>1, LatestWhole DEF FramesKept, Blank, Frame, TypeOK, DeviceTypeOK
<1>7. FramesKept'
  BY <1>1, <1>2, <1>3, <1>6 DEF FramesKept, TypeOK, Latest, Whole, Zeros, Blank, Frame
<1> QED
  BY <1>2, <1>4, <1>5, <1>7

\* A Ctrl-C closes the file; a writer killed still explains what it has lit.
LEMMA InterruptStep ==
  ASSUME LightInv, NEW u \in Users, Interrupt(u)
  PROVE  LightInv'
<1> USE DEF LightInv
<1>1. \/ pc[u] = "read" /\ pc' = [pc EXCEPT ![u] = "closed"]
      \/ pc[u] \in {"menu", "write", "blank"} /\ pc' = [pc EXCEPT ![u] = "killed"]
  BY DEF Interrupt, Goto, At
<1>2. DeviceInv' /\ UNCHANGED <<lab, out, stranded>> /\ opened' = opened \ {u}
      /\ UNCHANGED <<id, script, buf, prev, at, shown, sent>>
  BY CloseStep DEF Interrupt
<1>3. Positions' = Positions /\ Width(lab)' = Width(lab)
  BY <1>2 DEF Positions
<1>4. TypeOK' /\ FilesOpen'
  BY <1>1, <1>2, <1>3 DEF TypeOK, DeviceInv, Places, FilesOpen
<1>5. LitByWriter'
  BY <1>1, <1>2, LitKept DEF Latest, TypeOK
<1>6. FramesKept'
  BY <1>1, <1>2, <1>3 DEF FramesKept, TypeOK, Latest, Whole, Zeros, Blank, Frame
<1> QED
  BY <1>2, <1>4, <1>5, <1>6

LEMMA ReadStep ==
  ASSUME LightInv, NEW u \in Users, my_read(u) \/ Send(u)
  PROVE  LightInv'
<1> USE DEF LightInv
<1>1. pc[u] = "read" /\ UNCHANGED <<deviceVars, pc, prev>>
  BY DEF my_read, Send, At
<1>2. UNCHANGED <<lab, phase, next, made, taken, held, robbed, out, opened, stranded>>
      /\ Positions' = Positions /\ Width(lab)' = Width(lab) /\ Width(lab) \in Nat
  BY <1>1, SameDisplay DEF TypeOK, DeviceTypeOK, deviceVars
<1>3. DeviceInv'
  BY <1>2
  DEF DeviceInv, DeviceTypeOK, PinsOwned, HeldMarked, Registered, Own, Visible
<1>4. /\ buf' \in [Users -> [Positions -> Bytes]] /\ at' \in [Users -> 0..Width(lab)]
      /\ sent' \in [Users -> [Positions -> Bytes]]
      /\ \A v \in Users \ {u} : buf'[v] = buf[v] /\ at'[v] = at[v]
  <2>1. CASE my_read(u)
    <3>1. PICK i \in Stops(at[u]) :
            /\ buf' = [buf EXCEPT ![u] = [j \in Positions |->
                         IF j \in (at[u] + 1)..i THEN out[j] ELSE @[j]]]
            /\ at'  = [at EXCEPT ![u] = i]
      BY <2>1 DEF my_read
    <3>2. i \in 0..Width(lab)
      BY StopsInside DEF TypeOK, DeviceTypeOK
    <3> QED
      BY <2>1, <3>1, <3>2 DEF my_read, TypeOK, DeviceTypeOK
  <2>2. CASE Send(u)
    BY <1>2, <2>2 DEF Send, TypeOK
  <2> QED
    BY <2>1, <2>2
<1>5. TypeOK' /\ FilesOpen'
  BY <1>1, <1>2, <1>3, <1>4 DEF TypeOK, DeviceInv, FilesOpen
<1>6. LitByWriter'
  BY <1>1, <1>2, <1>4, LitKept DEF Latest
<1>7. FramesKept'
  BY <1>1, <1>2, <1>4 DEF FramesKept, Latest, Whole, Zeros, Blank, Frame
<1> QED
  BY <1>3, <1>5, <1>6, <1>7

LEMMA LightStep == LightInv /\ [Next]_vars => LightInv'
<1> SUFFICES ASSUME LightInv, [Next]_vars PROVE LightInv'
  OBVIOUS
<1>1. CASE UNCHANGED vars
  BY <1>1
  DEF vars, deviceVars, userVars, LightInv, DeviceInv, DeviceTypeOK, Positions, PinsOwned,
      HeldMarked, Registered, Own, Visible, TypeOK, FilesOpen, FramesKept, LitByWriter,
      Latest, Whole, Zeros, Blank, Frame
<1>2. ASSUME NEW u \in Users, UserStarts(u) PROVE LightInv'
  BY <1>2, StartStep, OrderStep, InitialStep, InterruptStep
  DEF UserStarts, StartLab3_1, StartLab3_2, StartLab4, StartReader
<1>3. ASSUME NEW u \in Users, UserStep(u) PROVE LightInv'
  BY <1>3, WriteStep, OpeningStep, NextFrameStep, EndStep, ReadStep DEF UserStep
<1> QED
  BY <1>1, <1>2, <1>3, ModulePreserves DEF Next

-----------------------------------------------------------------------------
(* The numbers of lab3, which lose their digits from the end and are       *)
(* reversed in an int that may wrap.                                       *)

LEMMA SmallRemainder ==
  ASSUME NEW a \in Nat, NEW b \in Nat \ {0}, a < b
  PROVE  a % b = a
OBVIOUS

\* An int that fits does not wrap.
LEMMA WrapFits ==
  ASSUME NEW n \in Nat, n <= IntMax
  PROVE  Wrap(n) = n
<1> DEFINE a == n + IntMax + 1
           b == 2 * (IntMax + 1)
<1>1. a \in Nat /\ b \in Nat \ {0} /\ a < b
  BY IntMaxAssumption
<1>2. a % b = a
  BY <1>1, SmallRemainder
<1> QED
  BY <1>2, IntMaxAssumption DEF Wrap

\* A number begun is no larger than the whole.
LEMMA NumberGrows ==
  ASSUME NEW s \in Seq(Nat), NEW g \in [0..Len(s) -> Nat], IsNumber(s, g)
  PROVE  \A k \in 0..Len(s) : g[k] <= g[Len(s)]
<1> DEFINE m == Len(s)
           B == {j \in 0..m : ~ (g[m - j] <= g[m])}
<1>1. m \in Nat
  OBVIOUS
<1> HIDE DEF m
<1>2. CASE B # {}
  <2>1. PICK j \in B : \A i \in B : j <= i
    <3>1. B \in SUBSET Nat
      OBVIOUS
    <3> HIDE DEF B
    <3> QED
      BY <1>2, <3>1, SmallestNumber
  <2>2. j \in 0..m /\ ~ (g[m - j] <= g[m])
    OBVIOUS
  <2>3. j # 0
    <3>1. g[m] \in Nat
      BY <1>1 DEF m
    <3> HIDE DEF B
    <3> QED
      BY <1>1, <2>2, <3>1
  <2>4. j - 1 \in 0..m /\ ~ (j <= j - 1) /\ m - (j - 1) \in 1..m /\ (m - (j - 1)) - 1 = m - j
    <3> HIDE DEF B
    <3> QED
      BY <1>1, <2>2, <2>3
  <2> DEFINE k == m - (j - 1)
  <2>5. g[k] <= g[m]
    <3>1. j - 1 \notin B
      <4> HIDE DEF B
      <4> QED
        BY <2>1, <2>4
    <3> QED
      BY <2>4, <3>1
  <2>6. g[k] = 10 * g[k - 1] + s[k]
    <3> HIDE DEF k
    <3> QED
      BY <2>4, NumberStep DEF m, k
  <2>7. g[k] \in Nat /\ g[k - 1] \in Nat /\ s[k] \in Nat /\ g[m] \in Nat /\ k - 1 = m - j
    <3>1. k \in 1..Len(s) /\ k \in 0..Len(s) /\ k - 1 \in 0..Len(s) /\ m \in 0..Len(s)
      BY <2>4 DEF m
    <3> HIDE DEF k, B
    <3>2. g[k] \in Nat /\ g[k - 1] \in Nat /\ s[k] \in Nat /\ g[m] \in Nat
      BY <3>1
    <3> QED
      BY <2>4, <3>2 DEF k
  <2> HIDE DEF k, B
  <2>8. g[k - 1] <= g[k]
    BY <2>6, <2>7
  <2>9. ~ (g[k - 1] <= g[m])
    BY <2>2, <2>7
  <2> QED
    BY <2>5, <2>7, <2>8, <2>9
<1>3. CASE B = {}
  <2>1. ASSUME NEW k \in 0..m PROVE g[k] <= g[m]
    <3>1. m - k \in 0..m /\ m - (m - k) = k
      BY <1>1
    <3> QED
      BY <1>3, <3>1
  <2> QED
    BY <2>1 DEF m
<1> QED
  BY <1>2, <1>3

\* The loop of lab3's writers, as the function its passes define.
IsReversed(s, f) ==
  f = [k \in 0..Len(s) |-> IF k = 0 THEN 0 ELSE Wrap(10 * f[k - 1] + s[k])]

\* There is one way to run the loop.
LEMMA ReversedOnce ==
  ASSUME NEW s \in Seq(Nat), NEW f, NEW g, IsReversed(s, f), IsReversed(s, g)
  PROVE  \A k \in 0..Len(s) : f[k] = g[k]
<1> DEFINE B == {k \in 0..Len(s) : f[k] # g[k]}
<1>1. CASE B # {}
  <2>1. PICK k \in B : \A j \in B : k <= j
    <3>1. B \in SUBSET Nat
      OBVIOUS
    <3> HIDE DEF B
    <3> QED
      BY <1>1, <3>1, SmallestNumber
  <2>2. k \in 0..Len(s) /\ k # 0
    BY DEF IsReversed
  <2>3. k - 1 \in 0..Len(s) /\ ~ (k <= k - 1)
    BY <2>2
  <2>4. f[k - 1] = g[k - 1]
    BY <2>1, <2>3
  <2>5. f[k] = Wrap(10 * f[k - 1] + s[k]) /\ g[k] = Wrap(10 * g[k - 1] + s[k])
    BY <2>2 DEF IsReversed
  <2> QED
    BY <2>2, <2>4, <2>5
<1> QED
  BY <1>1

\* A reverse that fits in an int is what the loop computes.
LEMMA ReversedFits ==
  ASSUME NEW s \in Seq(Nat), NumberOf(s) <= IntMax
  PROVE  Reversed(s) = NumberOf(s)
<1> DEFINE m == Len(s)
           f == CHOOSE h : IsReversed(s, h)
<1>1. PICK g \in [0..m -> Nat] : IsNumber(s, g) /\ NumberOf(s) = g[m]
  BY NumberChosen
<1>a. g[m] <= IntMax
  <2> HIDE DEF m
  <2> QED
    BY <1>1, Zenon
<1>2. ASSUME NEW k \in 1..m PROVE g[k] = Wrap(10 * g[k - 1] + s[k])
  <2>1. g[k] = 10 * g[k - 1] + s[k] /\ g[k] <= g[m] /\ g[k] \in Nat /\ g[m] \in Nat
    <3>1. k \in 0..m /\ m \in 0..m
      OBVIOUS
    <3> QED
      BY <1>1, <3>1, NumberStep, NumberGrows
  <2>2. g[k] <= IntMax
    <3>1. IntMax \in Nat
      BY IntMaxAssumption
    <3>2. \A a, b, c \in Nat : a <= b /\ b <= c => a <= c
      OBVIOUS
    <3> HIDE DEF m, f
    <3> QED
      BY <1>a, <2>1, <3>1, <3>2, Zenon
  <2>3. Wrap(g[k]) = g[k]
    BY <2>1, <2>2, WrapFits
  <2> QED
    BY <2>1, <2>3
<1>3. IsReversed(s, g)
  <2>1. g = [k \in 0..m |-> g[k]] /\ g[0] = 0
    BY <1>1 DEF IsNumber
  <2>2. \A k \in 0..m : g[k] = IF k = 0 THEN 0 ELSE Wrap(10 * g[k - 1] + s[k])
    <3>1. \A k \in 0..m : k # 0 => k \in 1..m
      OBVIOUS
    <3> QED
      BY <1>2, <2>1, <3>1
  <2> QED
    BY <2>1, <2>2 DEF IsReversed
<1>4. Reversed(s) = f[m]
  BY DEF Reversed, IsReversed
<1>5. IsReversed(s, f)
  BY <1>3
<1>6. f[m] = g[m]
  <2>1. m \in 0..m
    OBVIOUS
  <2> HIDE DEF f
  <2> QED
    BY <1>3, <1>5, <2>1, ReversedOnce
<1> HIDE DEF f
<1> QED
  BY <1>1, <1>4, <1>6

\* The binary digits of a decimal one.
LEMMA FourBits ==
  ASSUME NEW d \in 0..9
  PROVE  /\ 1 \in intToBinary4Bits(d) <=> (d \div 8) % 2 = 1
         /\ 2 \in intToBinary4Bits(d) <=> (d \div 4) % 2 = 1
         /\ 3 \in intToBinary4Bits(d) <=> (d \div 2) % 2 = 1
         /\ 4 \in intToBinary4Bits(d) <=> d % 2 = 1
<1>1. 2^0 = 1 /\ 2^1 = 2 /\ 2^2 = 4 /\ 2^3 = 8
  <2>1. 2^(0 + 1) = 2 * 2^0 /\ 2^(1 + 1) = 2 * 2^1 /\ 2^(2 + 1) = 2 * 2^2
    BY PowerDoubles
  <2>2. 0 + 1 = 1 /\ 1 + 1 = 2 /\ 2 + 1 = 3
    OBVIOUS
  <2>3. 2^1 = 2 * 2^0 /\ 2^2 = 2 * 2^1 /\ 2^3 = 2 * 2^2
    BY <2>1, <2>2
  <2> QED
    BY <2>3, PowerOfNone
<1>2. 4 - 1 = 3 /\ 4 - 2 = 2 /\ 4 - 3 = 1 /\ 4 - 4 = 0 /\ d \div 1 = d
  OBVIOUS
<1>3. 1 \in 1..4 /\ 2 \in 1..4 /\ 3 \in 1..4 /\ 4 \in 1..4
  OBVIOUS
<1>4. \A i \in 1..4 : i \in intToBinary4Bits(d) <=> (d \div 2^(4 - i)) % 2 = 1
  BY Zenon DEF intToBinary4Bits
<1>5. /\ 1 \in intToBinary4Bits(d) <=> (d \div 2^3) % 2 = 1
      /\ 2 \in intToBinary4Bits(d) <=> (d \div 2^2) % 2 = 1
      /\ 3 \in intToBinary4Bits(d) <=> (d \div 2^1) % 2 = 1
      /\ 4 \in intToBinary4Bits(d) <=> (d \div 2^0) % 2 = 1
  BY <1>2, <1>3, <1>4
<1> QED
  BY <1>1, <1>2, <1>5, Zenon

LEMMA BitsDiffer ==
  ASSUME NEW d \in 0..9, NEW e \in 0..9,
         \A i \in 1..4 : i \in intToBinary4Bits(d) <=> i \in intToBinary4Bits(e)
  PROVE  d = e
<1>1. /\ (d \div 8) % 2 = 1 <=> (e \div 8) % 2 = 1
      /\ (d \div 4) % 2 = 1 <=> (e \div 4) % 2 = 1
      /\ (d \div 2) % 2 = 1 <=> (e \div 2) % 2 = 1
      /\ d % 2 = 1 <=> e % 2 = 1
  BY FourBits
<1> QED
  BY <1>1

\* Which digits light a segment.
LEMMA SegmentsLit ==
  ASSUME NEW d \in 0..9
  PROVE  /\ 1 \in Segments(d) <=> d \notin {1, 4, 6}
         /\ 2 \in Segments(d) <=> d \notin {5, 6}
         /\ 3 \in Segments(d) <=> d # 2
         /\ 4 \in Segments(d) <=> d \in {0, 2, 3, 5, 6, 8}
         /\ 5 \in Segments(d) <=> d \in {0, 2, 6, 8}
         /\ 6 \in Segments(d) <=> d \in {0, 4, 5, 6, 8, 9}
         /\ 7 \in Segments(d) <=> d \notin {0, 1}
<1>1. d = 0 \/ d = 1 \/ d = 2 \/ d = 3 \/ d = 4 \/ d = 5 \/ d = 6 \/ d = 7 \/ d = 8 \/ d = 9
  OBVIOUS
<1>2. /\ Segments(0) = 1..6 /\ Segments(1) = {2,3} /\ Segments(2) = {1,2,4,5,7}
      /\ Segments(3) = {1,2,3,4,7} /\ Segments(4) = {2,3,6,7} /\ Segments(5) = {1,3,4,6,7}
      /\ Segments(6) = 3..7 /\ Segments(7) = {1,2,3,7} /\ Segments(8) = 1..7
      /\ Segments(9) = {1,2,3,6,7}
  BY DEF Segments, num_array
<1> QED
  BY <1>1, <1>2

LEMMA SegmentsDiffer ==
  ASSUME NEW d \in 0..9, NEW e \in 0..9,
         \A i \in 1..7 : i \in Segments(d) <=> i \in Segments(e)
  PROVE  d = e
<1>1. /\ d \in {1, 4, 6} <=> e \in {1, 4, 6}
      /\ d \in {5, 6} <=> e \in {5, 6}
      /\ d = 2 <=> e = 2
      /\ d \in {0, 2, 3, 5, 6, 8} <=> e \in {0, 2, 3, 5, 6, 8}
      /\ d \in {0, 2, 6, 8} <=> e \in {0, 2, 6, 8}
      /\ d \in {0, 4, 5, 6, 8, 9} <=> e \in {0, 4, 5, 6, 8, 9}
      /\ d \in {0, 1} <=> e \in {0, 1}
  BY SegmentsLit
<1> QED
  BY <1>1

\* A digit can be read off its frame.
LEMMA DigitRead ==
  ASSUME lab \in {"lab3_1", "lab3_2"}, NEW d \in 0..9
  PROVE  DigitOf(Frame(Shape(d))) = d
<1> DEFINE e == DigitOf(Frame(Shape(d)))
<1>1. e \in 0..9 /\ Frame(Shape(d)) = Frame(Shape(e))
  BY DEF DigitOf
<1>2. \A i \in Positions : i \in Shape(d) <=> i \in Shape(e)
  <2>1. ASSUME NEW i \in Positions PROVE i \in Shape(d) <=> i \in Shape(e)
    <3>1. Frame(Shape(d))[i] = Frame(Shape(e))[i]
      BY <1>1, Zenon
    <3> HIDE DEF e
    <3> QED
      BY <3>1 DEF Frame
  <2> QED
    BY <2>1
<1> HIDE DEF e
<1>3. CASE lab = "lab3_1"
  <2>1. Positions = 1..4
    BY <1>3 DEF Positions, Width
  <2>2. Shape(d) = intToBinary4Bits(d) /\ Shape(e) = intToBinary4Bits(e)
    BY <1>3 DEF Shape
  <2>3. \A i \in 1..4 : i \in intToBinary4Bits(d) <=> i \in intToBinary4Bits(e)
    BY <1>2, <2>1, <2>2
  <2>4. e = d
    BY <1>1, <2>3, BitsDiffer
  <2> QED
    BY <2>4 DEF e
<1>4. CASE lab = "lab3_2"
  <2>1. Positions = 1..7
    BY <1>4 DEF Positions, Width
  <2>2. Shape(d) = Segments(d) /\ Shape(e) = Segments(e)
    BY <1>4 DEF Shape
  <2>3. \A i \in 1..7 : i \in Segments(d) <=> i \in Segments(e)
    BY <1>2, <2>1, <2>2
  <2>4. e = d
    BY <1>1, <2>3, SegmentsDiffer
  <2> QED
    BY <2>4 DEF e
<1> QED
  BY <1>3, <1>4

LEMMA ShapeType ==
  ASSUME NEW d \in 0..9
  PROVE  Shape(d) \in SUBSET Nat
<1>1. intToBinary4Bits(d) \in SUBSET Nat
  BY DEF intToBinary4Bits
<1>2. Segments(d) \in SUBSET Nat
  <2>1. d = 0 \/ d = 1 \/ d = 2 \/ d = 3 \/ d = 4 \/ d = 5 \/ d = 6 \/ d = 7 \/ d = 8 \/ d = 9
    OBVIOUS
  <2> QED
    BY <2>1 DEF Segments, num_array
<1> QED
  BY <1>1, <1>2 DEF Shape

LEMMA DigitsType ==
  ASSUME NEW n \in Int
  PROVE  Digits(n) \in Seq(0..9)
BY PoppedType DEF Digits

LEMMA WrapType ==
  ASSUME NEW n \in Int
  PROVE  Wrap(n) \in Int
<1>1. 2 * (IntMax + 1) \in Nat \ {0}
  BY IntMaxAssumption
<1>2. \A a \in Int : \A b \in Nat \ {0} : a % b \in Int
  OBVIOUS
<1> QED
  BY <1>1, <1>2, IntMaxAssumption DEF Wrap

LEMMA ReversedType ==
  ASSUME NEW s \in Seq(Nat)
  PROVE  Reversed(s) \in Int
<1> DEFINE m == Len(s)
           op == [p \in Int \X (1..m) |-> Wrap(10 * p[1] + s[p[2]])]
           f == CHOOSE h : IsReversed(s, h)
<1>1. \A n \in Int : \A k \in 1..m : Wrap(10 * n + s[k]) \in Int
  <2>1. ASSUME NEW n \in Int, NEW k \in 1..m PROVE Wrap(10 * n + s[k]) \in Int
    <3>1. 10 * n + s[k] \in Int
      OBVIOUS
    <3> QED
      BY <3>1, WrapType
  <2> QED
    BY <2>1
<1>2. m \in Nat /\ op \in FoldSteps(Int, m)
  BY <1>1 DEF FoldSteps
<1>3. PICK h : Follows(h, 0, op, m)
  <2>1. 0 \in Int
    OBVIOUS
  <2> HIDE DEF m, op, f
  <2> QED
    BY <1>2, <2>1, Folding, Zenon
<1>4. \A k \in 0..m : h[k] \in Int /\ (k # 0 => h[k] = Wrap(10 * h[k - 1] + s[k]))
  <2> DEFINE B == {k \in 0..m : ~ (h[k] \in Int /\ (k # 0 => h[k] = Wrap(10 * h[k - 1] + s[k])))}
  <2>1. CASE B # {}
    <3>1. PICK k \in B : \A j \in B : k <= j
      <4>1. B \in SUBSET Nat
        OBVIOUS
      <4> HIDE DEF B
      <4> QED
        BY <2>1, <4>1, SmallestNumber
    <3>2. k \in 0..m /\ k # 0
      BY <1>3 DEF Follows
    <3>3. k - 1 \in 0..m /\ k \in 1..m /\ ~ (k <= k - 1)
      BY <3>2
    <3>4. h[k - 1] \in Int
      BY <3>1, <3>3
    <3>5. h[k] = op[<<h[k - 1], k>>]
      <4> HIDE DEF op, B, f
      <4> QED
        BY <1>3, <3>2 DEF Follows
    <3>6. h[k] = Wrap(10 * h[k - 1] + s[k])
      BY <3>3, <3>4, <3>5
    <3> QED
      BY <1>1, <3>3, <3>4, <3>6
  <2> QED
    BY <2>1
<1>5. IsReversed(s, h)
  <2>1. h = [k \in 0..m |-> h[k]] /\ h[0] = 0
    BY <1>3 DEF Follows
  <2>2. \A k \in 0..m : h[k] = IF k = 0 THEN 0 ELSE Wrap(10 * h[k - 1] + s[k])
    BY <1>4, <2>1
  <2> QED
    BY <2>1, <2>2 DEF IsReversed
<1>6. IsReversed(s, f)
  BY <1>5
<1>7. Reversed(s) = f[m]
  BY DEF Reversed, IsReversed
<1>8. \A k \in 0..m : f[k] = h[k]
  <2> HIDE DEF f
  <2> QED
    BY <1>5, <1>6, ReversedOnce
<1>9. m \in 0..m
  BY <1>2
<1> HIDE DEF f, m
<1> QED
  BY <1>4, <1>7, <1>8, <1>9

LEMMA DigitsOfType ==
  ASSUME NEW n \in 0..IntMax
  PROVE  DigitsOf(n) \in Seq(0..9)
<1>1. n \in Int
  BY IntMaxAssumption
<1>2. Digits(n) \in Seq(0..9)
  BY <1>1, DigitsType
<1>3. Digits(n) \in Seq(Nat)
  <2> DEFINE s == Digits(n)
  <2>1. s \in Seq(0..9)
    BY <1>2
  <2> HIDE DEF s
  <2>2. s \in Seq(Nat)
    BY <2>1
  <2> QED
    BY <2>2 DEF s
<1> QED
  BY <1>3, ReversedType, DigitsType DEF DigitsOf

\* The digits of a number whose reverse fits make it up, but for zeros.
LEMMA DigitsMakeUp ==
  ASSUME NEW n \in 0..IntMax, Fits(n)
  PROVE  \E zeros \in 0..Len(Digits(n)) :
           NumberOf(DigitsOf(n) \o ZerosPut(zeros)) = n
<1>1. n \in Nat
  BY IntMaxAssumption
<1>2. Digits(n) = Popped[n]
  BY <1>1, PoppedNone DEF Digits
<1> DEFINE p == Popped[n]
<1>3. p \in Seq(Nat)
  <2>1. p \in Seq(0..9)
    BY <1>1, PoppedType
  <2> HIDE DEF p
  <2> QED
    BY <2>1
<1>4. Reversed(p) = NumberOf(p) /\ NumberOf(p) \in Nat
  <2>1. NumberOf(p) <= IntMax
    BY <1>2 DEF Fits
  <2> HIDE DEF p
  <2> QED
    BY <1>3, <2>1, ReversedFits, NumberType
<1>5. Digits(NumberOf(p)) = Popped[NumberOf(p)]
  <2> HIDE DEF p
  <2> QED
    BY <1>4, PoppedNone DEF Digits
<1>6. DigitsOf(n) = Popped[NumberOf(Popped[n])]
  BY <1>2, <1>4, <1>5 DEF DigitsOf
<1> QED
  BY <1>1, <1>2, <1>6, ReversedTwice

\* The labs whose frames are the digits of a number.
Lab3 == lab \in {"lab3_1", "lab3_2"}

\* Whoever makes no step keeps the order of its frames.
LEMMA OrderKept ==
  ASSUME NEW u \in Users, InOrder(u), lab' = lab,
         pc'[u] = pc[u], id'[u] = id[u], script'[u] = script[u], buf'[u] = buf[u],
         at'[u] = at[u], shown'[u] = shown[u]
  PROVE  InOrder(u)'
<1>1. \A d : Shape(d)' = Shape(d)
  BY DEF Shape
<1>2. \A lit : Frame(lit)' = Frame(lit)
  BY DEF Frame, Positions
<1>3. Whole(u)' <=> Whole(u)
  BY DEF Whole
<1>4. \A i : shown'[u][i] = shown[u][i] /\ script'[u][i] = script[u][i]
  OBVIOUS
<1>5. DigitsOf(id'[u]) = DigitsOf(id[u])
  OBVIOUS
<1> QED
  BY <1>1, <1>2, <1>3, <1>4, <1>5 DEF InOrder

\* A process that is not at a write, and had nothing to show before one, shows
\* nothing any more.
LEMMA OrderLeft ==
  ASSUME NEW u \in Users, pc'[u] \in {"killed", "read", "closed"}
  PROVE  InOrder(u)'
BY DEF InOrder

LEMMA DigitsInit == Init => DigitsKept
<1> SUFFICES ASSUME Init PROVE DigitsKept
  OBVIOUS
<1>1. 0 \in 0..IntMax
  BY IntMaxAssumption
<1>2. /\ id = [u \in Users |-> 0] /\ script = [u \in Users |-> <<>>]
      /\ shown = [u \in Users |-> <<>>] /\ pc = [u \in Users |-> "idle"]
  BY DEF Init
<1>3. \A u \in Users : InOrder(u)
  BY <1>2 DEF InOrder
<1>4. shown \in [Users -> Seq([Positions -> Bytes])]
  BY <1>2
<1> QED
  BY <1>1, <1>2, <1>3, <1>4 DEF DigitsKept

\* The digits of the number are what is to be shown.
LEMMA StartDigits ==
  ASSUME TypeOK, DigitsKept, Lab3, lab' = lab, NEW u \in Users, NEW number \in 0..IntMax,
         Start(u, "write", number,
               [k \in DOMAIN DigitsOf(number) |-> Shape(DigitsOf(number)[k])])
  PROVE  DigitsKept'
<1> DEFINE digits == DigitsOf(number)
           frames == [k \in DOMAIN digits |-> Shape(digits[k])]
<1>1. digits \in Seq(0..9)
  BY DigitsOfType
<1>2. /\ pc[u] = "idle" /\ pc' = [pc EXCEPT ![u] = "write"]
      /\ id' = [id EXCEPT ![u] = number] /\ script' = [script EXCEPT ![u] = frames]
      /\ at' = [at EXCEPT ![u] = Width(lab)] /\ UNCHANGED <<buf, shown>>
  BY DEF Start, Goto, At
<1> HIDE DEF digits
<1>3. frames \in Seq(SUBSET Nat) /\ Len(frames) = Len(digits)
      /\ \A i \in 1..Len(frames) : frames[i] = Shape(digits[i])
  <2>1. DOMAIN digits = 1..Len(digits) /\ Len(digits) \in Nat
    BY <1>1
  <2>2. \A k \in 1..Len(digits) : Shape(digits[k]) \in SUBSET Nat
    BY <1>1, ShapeType
  <2>3. frames = [k \in 1..Len(digits) |-> Shape(digits[k])]
    BY <2>1
  <2> QED
    BY <2>1, <2>2, <2>3
<1>4. /\ id \in [Users -> 0..IntMax] /\ DOMAIN script = Users
      /\ shown \in [Users -> Seq([Positions -> Bytes])]
      /\ \A v \in Users : InOrder(v)
  BY DEF DigitsKept, Lab3
<1>5. shown[u] = <<>>
  BY <1>2, <1>4 DEF InOrder
<1>6. InOrder(u)'
  <2>1. pc'[u] = "write" /\ id'[u] = number /\ script'[u] = frames /\ shown'[u] = <<>>
        /\ Whole(u)'
    BY <1>2, <1>4, <1>5 DEF TypeOK, Whole
  <2>2. Len(digits) - Len(frames) = 0 /\ Len(digits) \in Nat /\ DigitsOf(id'[u]) = digits
    BY <1>1, <1>3, <2>1 DEF digits
  <2>3. \A i \in 1..Len(frames) : frames[i] = Shape(digits[0 + i])
    BY <1>1, <1>3
  <2>4. \A d : Shape(d)' = Shape(d)
    BY DEF Shape
  <2> HIDE DEF frames
  <2> QED
    BY <1>1, <1>3, <2>1, <2>2, <2>3, <2>4 DEF InOrder
<1>7. \A v \in Users \ {u} : InOrder(v)'
  BY <1>2, <1>4, OrderKept DEF TypeOK
<1>8. id' \in [Users -> 0..IntMax] /\ DOMAIN script' = Users
  BY <1>2, <1>4 DEF Positions
<1> QED
  BY <1>2, <1>4, <1>6, <1>7, <1>8 DEF DigitsKept, Positions

LEMMA ShapesSame ==
  ASSUME lab' = lab
  PROVE  /\ \A d : Shape(d)' = Shape(d)
         /\ \A lit : Frame(lit)' = Frame(lit)
         /\ Positions' = Positions
BY DEF Shape, Frame, Positions

LEMMA Appended ==
  ASSUME NEW S, NEW s \in Seq(S), NEW e \in S, NEW k \in Int, Len(s) = k - 1
  PROVE  Len(Append(s, e)) = k /\ Append(s, e)[k] = e
<1>1. Len(Append(s, e)) = Len(s) + 1 /\ Append(s, e)[Len(s) + 1] = e
  OBVIOUS
<1>2. Len(s) + 1 = k
  OBVIOUS
<1> QED
  BY <1>1, <1>2

\* A write that comes to the end of a frame has shown it.
LEMMA PutDigits ==
  ASSUME LightInv, DigitsKept, Lab3, lab' = lab, NEW u \in Users, NEW levels, Put(u, levels)
  PROVE  DigitsKept'
<1>1. /\ id \in [Users -> 0..IntMax] /\ DOMAIN script = Users
      /\ shown \in [Users -> Seq([Positions -> Bytes])]
      /\ \A v \in Users : InOrder(v)
  BY DEF DigitsKept, Lab3
<1>2. PICK i \in Stops(at[u]) :
        /\ at' = [at EXCEPT ![u] = i]
        /\ shown' = IF pc[u] = "write" /\ i = Width(lab)
                    THEN [shown EXCEPT ![u] = Append(@, buf[u])] ELSE shown
  BY DEF Put
<1>3. pc[u] \in {"write", "blank"} /\ UNCHANGED <<pc, id, script, buf>>
  BY DEF Put, At
<1>4. TypeOK /\ lab \in Labs /\ at[u] \in 0..Width(lab)
  BY DEF LightInv, TypeOK, DeviceTypeOK
<1>5. at[u] < i /\ i \in 0..Width(lab) /\ Width(lab) \in Nat
  BY <1>4, StopsInside, Widths
<1>6. ~ Whole(u) /\ at'[u] = i /\ (Whole(u)' <=> i = Width(lab))
  BY <1>2, <1>4, <1>5 DEF Whole, TypeOK
<1>7. buf[u] \in [Positions -> Bytes]
  BY <1>4 DEF TypeOK
<1>8. shown' \in [Users -> Seq([Positions -> Bytes])]
  BY <1>1, <1>2, <1>7
<1>9. \A v \in Users \ {u} : InOrder(v)'
  BY <1>1, <1>2, <1>3, <1>4, OrderKept DEF TypeOK
<1>10. InOrder(u)'
  <2> DEFINE digits == DigitsOf(id[u])
             k == Len(digits) - Len(script[u])
  <2>1. InOrder(u) /\ DigitsOf(id'[u]) = digits /\ script'[u] = script[u] /\ buf'[u] = buf[u]
        /\ pc'[u] = pc[u]
    BY <1>1, <1>3
  <2>2. CASE pc[u] = "write" /\ i = Width(lab)
    <3>1. shown'[u] = Append(shown[u], buf[u]) /\ shown[u] \in Seq([Positions -> Bytes])
      BY <1>1, <1>2, <2>2
    <3>2. /\ \A j \in 1..Len(shown[u]) : shown[u][j] = Frame(Shape(digits[j]))
          /\ script[u] \in Seq(SUBSET Nat) /\ k \in 0..Len(digits)
          /\ \A j \in 1..Len(script[u]) : script[u][j] = Shape(digits[k + j])
          /\ Len(shown[u]) = k - 1 /\ buf[u] = Frame(Shape(digits[k]))
      BY <1>6, <2>1, <2>2 DEF InOrder
    <3>3. Len(digits) \in Nat
      <4>1. digits \in Seq(0..9)
        BY <1>1, DigitsOfType
      <4> HIDE DEF digits
      <4> QED
        BY <4>1
    <3> HIDE DEF digits, k
    <3>4. Len(shown'[u]) = k /\ shown'[u][k] = buf[u]
      <4>1. k \in Int /\ Len(shown[u]) = k - 1
        BY <3>2, <3>3
      <4> QED
        BY <1>7, <3>1, <4>1, Appended
    <3>5. \A j \in 1..Len(shown'[u]) : shown'[u][j] = Frame(Shape(digits[j]))
      <4> SUFFICES ASSUME NEW j \in 1..k PROVE shown'[u][j] = Frame(Shape(digits[j]))
        BY <3>4
      <4>1. CASE j = k
        BY <3>2, <3>4, <4>1
      <4>2. CASE j # k
        <5>1. j \in 1..Len(shown[u])
          BY <3>2, <4>2
        <5>2. shown'[u][j] = shown[u][j]
          BY <3>1, <5>1
        <5> QED
          BY <3>2, <5>1, <5>2
      <4> QED
        BY <4>1, <4>2
    <3>6. Whole(u)' /\ pc'[u] = "write" /\ DigitsOf(id'[u]) = digits /\ script'[u] = script[u]
      BY <1>6, <2>1, <2>2
    <3>7. k = Len(digits) - Len(script[u])
      BY DEF k
    <3> DEFINE t == script[u]
    <3>8. /\ t \in Seq(SUBSET Nat) /\ k \in 0..Len(digits) /\ k = Len(digits) - Len(t)
          /\ \A j \in 1..Len(t) : t[j] = Shape(digits[k + j])
          /\ script'[u] = t
      BY <3>2, <3>6, <3>7
    <3> HIDE DEF t
    <3> QED
      BY <3>4, <3>5, <3>6, <3>8, ShapesSame DEF InOrder
  <2>3. CASE ~ (pc[u] = "write" /\ i = Width(lab))
    <3>1. shown' = shown /\ (pc[u] = "write" => ~ Whole(u)')
      BY <1>2, <1>6, <2>3
    <3> HIDE DEF digits, k
    <3>2. \A j : shown'[u][j] = shown[u][j] /\ script'[u][j] = script[u][j]
      BY <2>1, <3>1
    <3> QED
      BY <1>3, <1>6, <2>1, <3>1, <3>2, ShapesSame DEF InOrder, digits
  <2> QED
    BY <2>2, <2>3
<1> QED
  BY <1>1, <1>3, <1>8, <1>9, <1>10, ShapesSame DEF DigitsKept

LEMMA NextDigit ==
  ASSUME LightInv, DigitsKept, Lab3, lab' = lab, NEW u \in Users, NextFrame(u)
  PROVE  DigitsKept'
<1>1. /\ id \in [Users -> 0..IntMax] /\ DOMAIN script = Users
      /\ shown \in [Users -> Seq([Positions -> Bytes])]
      /\ \A v \in Users : InOrder(v)
  BY DEF DigitsKept, Lab3
<1>2. TypeOK /\ Whole(u) /\ pc[u] = "write" /\ UNCHANGED <<id, shown>>
  BY DEF NextFrame, LightInv, Goto, At
<1>3. lab # "lab1"
  BY DEF Lab3
<1> DEFINE digits == DigitsOf(id[u])
           k == Len(digits) - Len(script[u])
<1>4. /\ \A j \in 1..Len(shown[u]) : shown[u][j] = Frame(Shape(digits[j]))
      /\ script[u] \in Seq(SUBSET Nat) /\ k \in 0..Len(digits)
      /\ \A j \in 1..Len(script[u]) : script[u][j] = Shape(digits[k + j])
      /\ Len(shown[u]) = k
  BY <1>1, <1>2 DEF InOrder
<1>5. Len(digits) \in Nat /\ DigitsOf(id'[u]) = digits
  <2>1. digits \in Seq(0..9)
    BY <1>1, DigitsOfType
  <2> HIDE DEF digits
  <2>2. Len(digits) \in Nat
    BY <2>1
  <2> QED
    BY <1>2, <2>2 DEF digits
<1>a. k = Len(digits) - Len(script[u])
  OBVIOUS
<1>b. \A j : shown'[u][j] = shown[u][j]
  BY <1>2
<1> HIDE DEF digits, k
<1>6. CASE script[u] # <<>>
  <2>1. /\ pc' = [pc EXCEPT ![u] = "write"]
        /\ buf' = [buf EXCEPT ![u] = Frame(Head(script[u]))]
        /\ at' = [at EXCEPT ![u] = 0]
        /\ script' = [script EXCEPT ![u] = Tail(@)]
    BY <1>6 DEF NextFrame, Goto, Begin
  <2>2. pc'[u] = "write" /\ buf'[u] = Frame(Head(script[u])) /\ script'[u] = Tail(script[u])
        /\ at'[u] = 0
    BY <1>1, <1>2, <2>1 DEF TypeOK
  <2>3. ~ Whole(u)'
    <3>1. Width(lab) \in {4, 7, 15, 16}
      BY <1>2, Widths DEF TypeOK, DeviceTypeOK
    <3> QED
      BY <2>2, <3>1 DEF Whole
  <2>4. /\ Tail(script[u]) \in Seq(SUBSET Nat) /\ Len(Tail(script[u])) = Len(script[u]) - 1
        /\ \A j \in 1..(Len(script[u]) - 1) : Tail(script[u])[j] = script[u][j + 1]
        /\ Head(script[u]) = script[u][1] /\ Len(script[u]) \in Nat /\ Len(script[u]) # 0
    BY <1>4, <1>6
  <2>5. Len(digits) - Len(Tail(script[u])) = k + 1 /\ k + 1 \in 0..Len(digits) /\ k \in Nat
    <3>1. k \in Nat
      BY <1>4
    <3>2. Len(script[u]) \in Nat /\ Len(script[u]) # 0
          /\ Len(Tail(script[u])) = Len(script[u]) - 1
      BY <2>4
    <3> DEFINE s == Len(script[u])
               t == Len(Tail(script[u]))
               d == Len(digits)
    <3>3. s \in Nat /\ s # 0 /\ t = s - 1 /\ d \in Nat /\ k = d - s
      BY <1>5, <1>a, <3>2
    <3> HIDE DEF s, t, d
    <3>4. d - t = k + 1 /\ k + 1 \in 0..d
      BY <3>1, <3>3
    <3> QED
      BY <3>1, <3>4 DEF d, t
  <2>6. \A j \in 1..Len(Tail(script[u])) : Tail(script[u])[j] = Shape(digits[(k + 1) + j])
    <3> SUFFICES ASSUME NEW j \in 1..(Len(script[u]) - 1)
                 PROVE  Tail(script[u])[j] = Shape(digits[(k + 1) + j])
      BY <2>4
    <3>1. j + 1 \in 1..Len(script[u]) /\ k + (j + 1) = (k + 1) + j
      BY <2>4, <2>5
    <3> QED
      BY <1>4, <2>4, <3>1
  <2>7. buf'[u] = Frame(Shape(digits[k + 1])) /\ Len(shown'[u]) = (k + 1) - 1
    <3>1. 1 \in 1..Len(script[u])
      BY <2>4
    <3> QED
      <4>1. script[u][1] = Shape(digits[k + 1])
        BY <1>4, <3>1
      <4>2. (k + 1) - 1 = k
        BY <2>5
      <4>3. Len(shown'[u]) = k
        BY <1>2, <1>4
      <4> QED
        BY <2>2, <2>4, <4>1, <4>2, <4>3, Zenon
  <2>8. InOrder(u)'
    <3> DEFINE n == k + 1
               t == Tail(script[u])
    <3>1. /\ t \in Seq(SUBSET Nat) /\ n \in 0..Len(digits) /\ Len(digits) - Len(t) = n
          /\ \A j \in 1..Len(t) : t[j] = Shape(digits[n + j])
          /\ buf'[u] = Frame(Shape(digits[n])) /\ Len(shown'[u]) = n - 1
          /\ script'[u] = t
      BY <2>2, <2>4, <2>5, <2>6, <2>7
    <3>2. \A j \in 1..Len(shown'[u]) : shown'[u][j] = Frame(Shape(digits[j]))
      BY <1>2, <1>4, <1>b
    <3> HIDE DEF n, t
    <3> QED
      BY <1>5, <2>2, <2>3, <3>1, <3>2, ShapesSame DEF InOrder
  <2>9. \A v \in Users \ {u} : InOrder(v)'
    BY <1>1, <1>2, <2>1, OrderKept DEF TypeOK
  <2>10. DOMAIN script' = Users
    BY <1>1, <2>1
  <2> QED
    BY <1>1, <1>2, <2>8, <2>9, <2>10, ShapesSame DEF DigitsKept
<1>7. CASE script[u] = <<>>
  <2>1. /\ pc' = [pc EXCEPT ![u] = "blank"] /\ script' = script
        /\ buf' = [buf EXCEPT ![u] = Blank] /\ at' = [at EXCEPT ![u] = 0]
    BY <1>3, <1>7 DEF NextFrame, Goto, Begin
  <2>2. pc'[u] = "blank" /\ Len(shown'[u]) = Len(digits)
    BY <1>2, <1>4, <1>5, <1>7, <1>a, <2>1 DEF TypeOK
  <2>3. \A j \in 1..Len(shown'[u]) : shown'[u][j] = Frame(Shape(digits[j]))
    BY <1>2, <1>4, <1>b
  <2>4. InOrder(u)'
    BY <1>5, <2>2, <2>3, ShapesSame DEF InOrder
  <2>5. \A v \in Users \ {u} : InOrder(v)'
    BY <1>1, <1>2, <2>1, OrderKept DEF TypeOK
  <2> QED
    BY <1>1, <1>2, <2>1, <2>4, <2>5, ShapesSame DEF DigitsKept
<1> QED
  BY <1>6, <1>7

\* The other steps of a process show nothing.
LEMMA QuietDigits ==
  ASSUME LightInv, DigitsKept, Lab3, lab' = lab, NEW u \in Users,
         Exit(u) \/ Interrupt(u) \/ my_read(u) \/ Send(u)
  PROVE  DigitsKept'
<1>1. /\ id \in [Users -> 0..IntMax] /\ DOMAIN script = Users
      /\ shown \in [Users -> Seq([Positions -> Bytes])]
      /\ \A v \in Users : InOrder(v)
  BY DEF DigitsKept, Lab3
<1>2. TypeOK /\ UNCHANGED <<id, script, shown>>
  BY DEF Exit, Interrupt, my_read, Send, LightInv
<1>3. \A v \in Users \ {u} : pc'[v] = pc[v] /\ buf'[v] = buf[v] /\ at'[v] = at[v]
  BY <1>2 DEF Exit, Interrupt, my_read, Send, Goto, TypeOK
<1>4. \A v \in Users \ {u} : InOrder(v)'
  BY <1>1, <1>2, <1>3, OrderKept
<1>5. CASE Exit(u)
  <2>1. pc[u] = "blank" /\ pc'[u] = "ended"
    BY <1>2, <1>5 DEF Exit, Goto, At, TypeOK
  <2>2. InOrder(u) /\ \A j : shown'[u][j] = shown[u][j]
    BY <1>1, <1>2
  <2>3. InOrder(u)'
    BY <1>2, <2>1, <2>2, ShapesSame DEF InOrder
  <2> QED
    BY <1>1, <1>2, <1>4, <2>3, ShapesSame DEF DigitsKept
<1>6. CASE Interrupt(u) \/ my_read(u) \/ Send(u)
  <2>1. pc'[u] \in {"killed", "read", "closed"}
    BY <1>2, <1>6 DEF Interrupt, my_read, Send, Goto, At, TypeOK
  <2> QED
    BY <1>1, <1>2, <1>4, <2>1, OrderLeft, ShapesSame DEF DigitsKept
<1> QED
  BY <1>5, <1>6

LEMMA DigitsStep == LightInv /\ DigitsKept /\ [Next]_vars => DigitsKept'
<1> SUFFICES ASSUME LightInv, DigitsKept, [Next]_vars PROVE DigitsKept'
  OBVIOUS
<1>1. CASE ~ Lab3'
  BY <1>1 DEF DigitsKept, Lab3
<1>2. CASE Lab3'
  <2>1. lab' = lab
    BY ModuleKeeps
    DEF Next, vars, deviceVars, UserStarts, UserStep, StartLab3_1, StartLab3_2, StartLab4,
        Start, orderFood, initial, StartReader, Interrupt, EtxWrite1, EtxWrite3_1,
        EtxWrite3_2, my_write, my_open, Put, Set, NextFrame, Exit, my_read, Send, Open, Close
  <2>2. Lab3
    BY <1>2, <2>1 DEF Lab3
  <2>3. /\ id \in [Users -> 0..IntMax] /\ DOMAIN script = Users
        /\ shown \in [Users -> Seq([Positions -> Bytes])]
        /\ \A v \in Users : InOrder(v)
    BY <2>2 DEF DigitsKept, Lab3
  <2>4. CASE UNCHANGED userVars
    <3>1. UNCHANGED <<pc, id, script, buf, at, shown>>
      BY <2>4 DEF userVars
    <3>2. \A v \in Users : InOrder(v)'
      BY <2>1, <2>3, <3>1, OrderKept
    <3> QED
      BY <2>1, <2>3, <3>1, <3>2, ShapesSame DEF DigitsKept
  <2>5. ASSUME NEW u \in Users, UserStarts(u) PROVE DigitsKept'
    <3>1. CASE StartLab3_1(u) \/ StartLab3_2(u)
      <4>1. PICK number \in Ids \cup {StudentId} :
              Start(u, "write", number,
                    [k \in DOMAIN DigitsOf(number) |-> Shape(DigitsOf(number)[k])])
        BY <3>1 DEF StartLab3_1, StartLab3_2
      <4>2. number \in 0..IntMax
        BY NumbersAssumption
      <4> QED
        BY <2>1, <2>2, <4>1, <4>2, StartDigits DEF LightInv
    <3>2. CASE Interrupt(u)
      BY <2>1, <2>2, <3>2, QuietDigits
    <3>3. ~ (StartLab4(u) \/ orderFood(u) \/ initial(u) \/ StartReader(u))
      BY <2>2 DEF Lab3, StartLab4, orderFood, initial, AtMenu, StartReader
    <3> QED
      BY <2>5, <3>1, <3>2, <3>3 DEF UserStarts
  <2>6. ASSUME NEW u \in Users, UserStep(u) PROVE DigitsKept'
    <3>1. CASE EtxWrite3_1(u) \/ EtxWrite3_2(u)
      BY <2>1, <2>2, <3>1, PutDigits DEF EtxWrite3_1, EtxWrite3_2
    <3>2. CASE NextFrame(u)
      BY <2>1, <2>2, <3>2, NextDigit
    <3>3. CASE Exit(u) \/ my_read(u) \/ Send(u)
      BY <2>1, <2>2, <3>3, QuietDigits
    <3>4. ~ (EtxWrite1(u) \/ my_write(u) \/ my_open(u))
      BY <2>2 DEF Lab3, EtxWrite1, my_write, my_open
    <3> QED
      BY <2>6, <3>1, <3>2, <3>3, <3>4 DEF UserStep
  <2> QED
    BY <2>4, <2>5, <2>6 DEF Next, ModuleStep, vars
<1> QED
  BY <1>1, <1>2

LEMMA Initial == Init => IInv
BY LightInit, DigitsInit DEF IInv

LEMMA Step == IInv /\ [Next]_vars => IInv'
BY LightStep, DigitsStep DEF IInv

\* Frames shown in order are read as the number again.
LEMMA KeptShown == DigitsKept => DigitsShown
<1> SUFFICES ASSUME DigitsKept, lab \in {"lab3_1", "lab3_2"}, NEW u \in Users,
                    pc[u] = "ended", Fits(id[u])
             PROVE  \E zeros \in 0..Len(Digits(id[u])) :
                      NumberOf([k \in DOMAIN shown[u] |-> DigitOf(shown[u][k])]
                               \o ZerosPut(zeros)) = id[u]
  BY DEF DigitsShown
<1> DEFINE digits == DigitsOf(id[u])
           read == [k \in DOMAIN shown[u] |-> DigitOf(shown[u][k])]
<1>1. id[u] \in 0..IntMax /\ InOrder(u) /\ shown[u] \in Seq([Positions -> Bytes])
  BY DEF DigitsKept
<1>2. digits \in Seq(0..9)
  BY <1>1, DigitsOfType
<1>3. Len(shown[u]) = Len(digits)
      /\ \A i \in 1..Len(shown[u]) : shown[u][i] = Frame(Shape(digits[i]))
  BY <1>1 DEF InOrder
<1>4. read = digits
  <2> HIDE DEF digits
  <2>1. DOMAIN shown[u] = 1..Len(digits) /\ digits = [i \in 1..Len(digits) |-> digits[i]]
    BY <1>1, <1>2, <1>3
  <2>2. \A i \in 1..Len(digits) : DigitOf(shown[u][i]) = digits[i]
    <3> SUFFICES ASSUME NEW i \in 1..Len(digits) PROVE DigitOf(shown[u][i]) = digits[i]
      OBVIOUS
    <3>1. digits[i] \in 0..9 /\ shown[u][i] = Frame(Shape(digits[i]))
      BY <1>2, <1>3
    <3>2. DigitOf(Frame(Shape(digits[i]))) = digits[i]
      BY <3>1, DigitRead
    <3> QED
      BY <3>1, <3>2
  <2> QED
    BY <2>1, <2>2
<1> HIDE DEF read
<1> QED
  BY <1>1, <1>4, DigitsMakeUp DEF read

-----------------------------------------------------------------------------
\* The invariant of the displays and those who write on them, for every set of
\* processes and every interleaving with the loading and failing of a module.
THEOREM Invariance == Spec => []IInv
BY Initial, Step, PTL DEF Spec

\* An init that fails anywhere, and rmmod, leave nothing behind.
THEOREM CleanUnload == Spec => []NothingLeft
<1>1. IInv => NothingLeft
  BY DEF IInv, LightInv, DeviceInv, NothingLeft, Registered, PinsOwned, Own
<1> QED
  BY <1>1, Invariance, PTL

\* The four pins of a driver are its own but where gpio_free has robbed another.
THEOREM PinsOwn == Spec => []PinsExclusive
<1>1. IInv => PinsExclusive
  BY DEF IInv, LightInv, DeviceInv, PinsExclusive, PinsOwned, Own
<1> QED
  BY <1>1, Invariance, PTL

\* Nothing is lit that no writer has lit last.
THEOREM LightsExplained == Spec => []LitByWriter
<1>1. IInv => LitByWriter
  BY DEF IInv, LightInv
<1> QED
  BY <1>1, Invariance, PTL

\* Writers that have come to their end leave the display dark, in any order.
THEOREM DarkInTheEnd == Spec => []Dark
<1>1. IInv => Dark
  <2> SUFFICES ASSUME IInv, AllEnded, NEW i \in Positions PROVE out[i] # "1"
    BY DEF Dark
  <2>1. \A u \in Users : pc[u] \notin {"read", "closed"} => Latest(u, i) # "1"
    BY LatestIdle DEF IInv, LightInv, AllEnded, FramesKept
  <2> QED
    BY <2>1 DEF IInv, LightInv, LitByWriter
<1> QED
  BY <1>1, Invariance, PTL

\* Whoever has come to its end has shown the digits of its number, in order,
\* but for the zeros at the end, when the reverse fits in an int.
THEOREM NumberShown == Spec => []DigitsShown
<1>1. IInv => DigitsShown
  BY KeptShown DEF IInv
<1> QED
  BY <1>1, Invariance, PTL
=============================================================================
