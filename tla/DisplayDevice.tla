---------------------------- MODULE DisplayDevice ----------------------------
(***************************************************************************)
(* The kernel modules that drive a display: the GPIO drivers of lab1       *)
(* (hw1_driver.c) and lab3 (lab3-1_driver.c, lab3-2_driver.c), which are   *)
(* one driver with 15, 4 and 7 pins wired, and the buffer of lab4          *)
(* (mydev.c).  The processes that open them are in DisplayWriters.         *)
(*                                                                         *)
(* A position of the display is a pin, or a byte of the buffer.  None of   *)
(* the modules has a lock: a write sets one position after the other, and  *)
(* the init of a GPIO driver makes the device file before it has its pins. *)
(***************************************************************************)
EXTENDS Naturals

CONSTANTS Labs,       \* which of the four modules the board may run
          OtherPins,  \* <<lab, pin>>: a pin of that board another driver may request
          Cuts        \* bound: the positions behind which others are served

ASSUME LabsAssumption == Labs \subseteq {"lab1", "lab3_1", "lab3_2", "lab4"}
ASSUME CutsAssumption == Cuts \subseteq Nat

VARIABLES
  lab,       \* the module of this board
  phase,     \* what its init does next; "out" and "in" when it is not running
  next,      \* the pin that init is at
  made,      \* what is registered with the kernel
  taken,     \* the pins the kernel has marked as requested
  held,      \* the pins another driver has requested and not freed
  robbed,    \* history: the pins freed here while another driver held them
  out,       \* out[i]: the level of pin i, or byte i of my_data
  opened,    \* the processes that have the device file open
  stranded   \* those that had it open when the module went away: what a
             \* further call of theirs does is undefined

deviceVars == <<lab, phase, next, made, taken, held, robbed, out, opened, stranded>>

-----------------------------------------------------------------------------
\* Positions in the order in which a write sets them, 21, 20, 16, 26 first.
Width(l) == CASE l = "lab1" -> 15 [] l = "lab3_1" -> 4
              [] l = "lab3_2" -> 7 [] l = "lab4" -> 16
Positions == 1..Width(lab)
Requested == 1..4

Bytes == {"nul", "0", "1"}

\* Mutant of Stops: all 17 bytes of the writers' read_buffer are copied.
StopsWide(i) == {j \in Cuts \cup {Width(lab) + 1} : i < j /\ j <= Width(lab) + 1}

\* Where a copy that has done i positions can be when it is looked at next.
Stops(i) == {j \in Cuts \cup {Width(lab)} : i < j /\ j <= Width(lab)}

DeviceInit ==
  /\ lab \in Labs
  /\ phase = "out"
  /\ next = 1
  /\ made = {}
  /\ taken = {} /\ held = {} /\ robbed = {}
  /\ out = [i \in Positions |-> "nul"]
  /\ opened = {} /\ stranded = {}

\* open finds the module: udev makes the file of a GPIO driver once the device
\* is created, that of lab4 is there and needs a module of its major number.
Visible == phase # "broken" /\ (IF lab = "lab4" THEN "region" ELSE "device") \in made

\* gpio_free asks nobody whose pin it is.
Free(pins) == taken' = taken \ pins /\ robbed' = robbed \cup (pins \cap held)

\* Processes with the file open neither keep a failing init from freeing the
\* module nor, without an owner in my_fops, rmmod of lab4.
Strand == opened' = {} /\ stranded' = stranded \cup opened

\* Mutant of Undone: device_destroy and class_destroy forgotten.
UndoneEarly(label) == {"cdev", "region"}

\* What the code from a label of etx_driver_init to its return -1 takes back.
Undone(label) ==
  CASE label = "r_del" -> {"cdev", "region"}
    [] label \in {"r_device", "r_gpio"} -> {"device", "class", "cdev", "region"}

\* class_create and device_create fail with an error pointer, which is not NULL:
\* device_destroy then takes it for a class, and the kernel stops the caller.
Unwind(label) ==
  /\ IF label = "r_gpio" THEN Free(Requested) ELSE UNCHANGED <<taken, robbed>>
  /\ IF label # "r_del" /\ "class" \notin made
     THEN /\ phase' = "broken"
          /\ UNCHANGED <<made, opened, stranded>>
     ELSE /\ phase' = "out"
          /\ made' = made \ Undone(label)
          /\ Strand
  /\ UNCHANGED <<lab, next, held, out>>

-----------------------------------------------------------------------------
(* etx_driver_init of a driver with n pins wired.                          *)

\* One step of init: it makes the thing, or goes on without it.
Make(thing, then) ==
  /\ phase' = then
  /\ made' \in {made, made \cup {thing}}
  /\ UNCHANGED <<lab, next, taken, held, robbed, out, opened, stranded>>

\* Bound: no module is loaded again over a process that has lost its own.
CanLoad == phase = "out" /\ stranded = {}

\* When alloc_chrdev_region fails there is nothing to take back.
AllocRegion ==
  /\ CanLoad
  /\ Make("region", "cdev")
  /\ made' # made

AddCdev ==
  /\ phase = "cdev"
  /\ \/ Make("cdev", "class") /\ made' # made
     \/ Unwind("r_del")

CreateClass == phase = "class" /\ Make("class", "device")

CreateDevice ==
  /\ phase = "device"
  /\ Make("device", "valid")
  /\ "device" \in made' => "class" \in made

CheckPins ==
  /\ phase = "valid"
  /\ \/ /\ phase' = "request" /\ next' = 1
        /\ UNCHANGED <<lab, made, taken, held, robbed, out, opened, stranded>>
     \/ Unwind("r_device")

\* Mutant of RequestPin: the result of gpio_request is not looked at.
RequestPinBlindly ==
  /\ phase = "request"
  /\ taken' = taken \cup {next}
  /\ phase' = IF next = 4 THEN "config" ELSE "request"
  /\ next' = IF next = 4 THEN 1 ELSE next + 1
  /\ UNCHANGED <<lab, made, held, robbed, out, opened, stranded>>

RequestPin ==
  /\ phase = "request"
  /\ \/ /\ next \notin taken
        /\ taken' = taken \cup {next}
        /\ phase' = IF next = 4 THEN "config" ELSE "request"
        /\ next' = IF next = 4 THEN 1 ELSE next + 1
        /\ UNCHANGED <<lab, made, held, robbed, out, opened, stranded>>
     \/ /\ next \in taken
        /\ Unwind("r_gpio")

\* gpio_direction_output(pin, 0), for the pins that were not requested too.
ConfigurePins(n) ==
  /\ phase = "config"
  /\ \E j \in Stops(next - 1) :
       /\ out' = [i \in Positions |-> IF i \in next..j THEN "0" ELSE out[i]]
       /\ phase' = IF j = n THEN "in" ELSE "config"
       /\ next' = IF j = n THEN 1 ELSE j + 1
  /\ UNCHANGED <<lab, made, taken, held, robbed, opened, stranded>>

etx_driver_init(n) ==
  \/ AllocRegion \/ AddCdev \/ CreateClass \/ CreateDevice
  \/ CheckPins \/ RequestPin \/ ConfigurePins(n)

\* rmmod waits for nobody: it is refused while a file is open, because
\* fops.owner is the module.
etx_driver_exit(n) ==
  /\ phase = "in" /\ opened = {}
  /\ Free(1..n)
  /\ IF "class" \in made THEN phase' = "out" /\ made' = {}
                         ELSE phase' = "broken" /\ made' = made
  /\ UNCHANGED <<lab, next, held, out, opened, stranded>>

Lab1Driver   == lab = "lab1"   /\ (etx_driver_init(15) \/ etx_driver_exit(15))
Lab3_1Driver == lab = "lab3_1" /\ (etx_driver_init(4)  \/ etx_driver_exit(4))
Lab3_2Driver == lab = "lab3_2" /\ (etx_driver_init(7)  \/ etx_driver_exit(7))

\* my_data is zero in a module just loaded.
my_init ==
  /\ lab = "lab4" /\ CanLoad
  /\ phase' = "in" /\ made' = {"region"}
  /\ out' = [i \in Positions |-> "nul"]
  /\ UNCHANGED <<lab, next, taken, held, robbed, opened, stranded>>

my_exit ==
  /\ lab = "lab4" /\ phase = "in"
  /\ phase' = "out" /\ made' = {}
  /\ Strand
  /\ UNCHANGED <<lab, next, taken, held, robbed, out>>

-----------------------------------------------------------------------------
(* Another driver of the board, which keeps to the rules.                  *)

OtherRequests(p) ==
  /\ p \in Positions /\ lab # "lab4" /\ <<lab, p>> \in OtherPins
  /\ p \notin taken \cup held
  /\ taken' = taken \cup {p} /\ held' = held \cup {p}
  /\ UNCHANGED <<lab, phase, next, made, robbed, out, opened, stranded>>

OtherFrees(p) ==
  /\ p \in held
  /\ taken' = taken \ {p} /\ held' = held \ {p}
  /\ UNCHANGED <<lab, phase, next, made, robbed, out, opened, stranded>>

\* The calls of a process; a position is set by etx_write of each lab, and by
\* the memset of lab4's open.
Open(u) ==
  /\ Visible
  /\ opened' = opened \cup {u}
  /\ UNCHANGED <<lab, phase, next, made, taken, held, robbed, out, stranded>>

Close(u) ==
  /\ opened' = opened \ {u}
  /\ UNCHANGED <<lab, phase, next, made, taken, held, robbed, out, stranded>>

Set(positions, levels) ==
  /\ out' = [i \in Positions |-> IF i \in positions THEN levels[i] ELSE out[i]]
  /\ UNCHANGED <<lab, phase, next, made, taken, held, robbed, opened, stranded>>

-----------------------------------------------------------------------------
DeviceTypeOK ==
  /\ lab \in Labs
  /\ phase \in {"out", "cdev", "class", "device", "valid", "request", "config",
                "in", "broken"}
  /\ next \in Positions
  /\ made \subseteq {"region", "cdev", "class", "device"}
  /\ taken \subseteq Positions /\ held \subseteq Positions
  /\ robbed \subseteq Positions
  /\ out \in [Positions -> Bytes]

\* A module that is out, after rmmod or an init that failed anywhere, leaves
\* nothing registered and none of its pins requested (the labels r_gpio to
\* r_unreg of etx_driver_init, and etx_driver_exit).
NothingLeft == phase = "out" => made = {} /\ taken \subseteq held

\* A GPIO driver that is in has its four pins, to itself, unless it has once
\* freed the pin while another driver held it: gpio_free in r_gpio and in
\* etx_driver_exit is the only hole (etx_driver_init's requests and unwinding).
PinsExclusive ==
  phase = "in" /\ lab # "lab4" =>
    \A p \in Requested \ robbed : p \in taken /\ p \notin held

-----------------------------------------------------------------------------
(* What makes these inductive: whose every pin is at each step of init.    *)

Own == {p \in Requested :
          /\ lab # "lab4"
          /\ phase \in {"config", "in"} \/ (phase = "request" /\ p < next)}

PinsOwned ==
  phase # "broken" =>
    /\ taken \subseteq held \cup Own
    /\ \A p \in Own \ robbed : p \in taken /\ p \notin held

HeldMarked == held \subseteq taken \cup robbed

Registered ==
  /\ phase = "out" => made = {}
  /\ phase = "cdev" => made \subseteq {"region", "cdev"}
  /\ "device" \in made => "class" \in made
  /\ opened # {} => Visible
  /\ phase = "request" => next \in Requested
  /\ lab = "lab4" => phase \in {"out", "in"} /\ taken = {}

DeviceInv == DeviceTypeOK /\ PinsOwned /\ HeldMarked /\ Registered
=============================================================================
