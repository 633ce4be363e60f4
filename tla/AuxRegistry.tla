---------------------------- MODULE AuxRegistry ----------------------------
(***************************************************************************)
(* What the auxiliary bus promises for each controller id of an FPGA: at    *)
(* any time at most one device has it, and that device appears, can then be *)
(* deleted once, and vanishes before the id can be used again.  Where a     *)
(* driver may be unbound beneath its users (MayOrphan), a device may be     *)
(* left behind for ever; otherwise never.                                   *)
(***************************************************************************)
CONSTANTS Ids, MayOrphan

VARIABLE slot

States == {"absent", "appearing", "present", "vanishing", "orphan"}

Move(i, from, to) ==
  /\ slot[i] = from
  /\ slot' = [slot EXCEPT ![i] = to]

Register(i) == Move(i, "absent", "appearing")
Publish(i)  == Move(i, "appearing", "present")
Retire(i)   == Move(i, "present", "vanishing")
Erase(i)    == Move(i, "vanishing", "absent")

Abandon(S) ==
  /\ MayOrphan
  /\ S # {}
  /\ \A i \in S : slot[i] \in {"appearing", "present"}
  /\ slot' = [i \in Ids |-> IF i \in S THEN "orphan" ELSE slot[i]]

Init == slot = [i \in Ids |-> "absent"]

Next ==
  \/ \E i \in Ids : Register(i) \/ Publish(i) \/ Retire(i) \/ Erase(i)
  \/ \E S \in SUBSET Ids : Abandon(S)

Spec == Init /\ [][Next]_slot
=============================================================================
