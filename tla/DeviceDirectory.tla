--------------------------- MODULE DeviceDirectory ---------------------------
(***************************************************************************)
(* What the device manager promises its users: a directory of devices by   *)
(* name. The first device of a name keeps it for the life of the process,  *)
(* and a lookup tells, at one instant between question and answer, the     *)
(* device that has exactly the name asked for, or that there is none.      *)
(* Namespaces play no role: device_new puts every device into "test".      *)
(***************************************************************************)
EXTENDS Naturals

CONSTANTS
  Names,       \* device names
  Devices,     \* identities of devices, positive numbers
  Clients      \* callers of device_manager_get

VARIABLES
  dir,         \* the device of each name in use
  ask          \* each client's lookup: its state, the name and the answer

vars == <<dir, ask>>

NoDevice == 0
Quiet == [pc |-> "idle"]

Init ==
  /\ dir = << >>                                     \* no names yet
  /\ ask = [c \in Clients |-> Quiet]

Add(n, d) ==           \* a name in use is never given to another device
  /\ n \notin DOMAIN dir
  /\ dir' = [m \in DOMAIN dir \cup {n} |-> IF m = n THEN d ELSE dir[m]]
  /\ UNCHANGED ask

Ask(c, n) ==
  /\ ask[c] = Quiet
  /\ ask' = [ask EXCEPT ![c] = [pc |-> "asked", name |-> n]]
  /\ UNCHANGED dir

Holder(n) == IF n \in DOMAIN dir THEN dir[n] ELSE NoDevice

Tell(c) ==
  /\ ask[c].pc = "asked"
  /\ ask' = [ask EXCEPT ![c] = [pc |-> "told", name |-> ask[c].name,
                                dev |-> Holder(ask[c].name)]]
  /\ UNCHANGED dir

Finish(c) ==
  /\ ask[c].pc = "told"
  /\ ask' = [ask EXCEPT ![c] = Quiet]
  /\ UNCHANGED dir

Next ==
  \/ \E n \in Names, d \in Devices : Add(n, d)
  \/ \E c \in Clients :
       \/ \E n \in Names : Ask(c, n)
       \/ Tell(c) \/ Finish(c)

Spec == Init /\ [][Next]_vars
=============================================================================
