---------------------------- MODULE AuxBusProofs ----------------------------
(***************************************************************************)
(* Proofs about AuxBus, for every set of callers, adapters and ids.         *)
(***************************************************************************)
EXTENDS AuxBus, TLAPS

(***************************************************************************)
(* Who holds which adapter, whatever the way the driver is removed.         *)
(***************************************************************************)

Busy(t) == IF t = Pci THEN pc[t] \in {"delete", "free"} ELSE pc[t] # "idle"

Ownership ==
  /\ \A t \in Threads : Busy(t) <=> cur[t] \in Adapters
  /\ \A t \in Threads : pc[t] = "add" => core[cur[t]] = "init"
  /\ \A t \in Threads : pc[t] \in {"list", "delete"} => core[cur[t]] = "added"
  /\ \A t \in Threads : pc[t] = "free" => core[cur[t]] = "deleted"
  /\ \A t, u \in Threads : cur[t] = cur[u] /\ cur[t] \in Adapters => t = u
  /\ \A a \in devices : core[a] = "added" /\ \A t \in Threads : cur[t] # a
  /\ \A a \in Adapters : core[a] # "none" => data[a] \in AuxData

StructInv == TypeOK /\ Ownership

LEMMA TranslatedType ==
  ASSUME NEW d \in Request
  PROVE  Translated(d) \in AuxData
<1>1. Request \subseteq AuxData
  BY ConstantsAssumption DEF Request, AuxData, INVALID_OFFSET
<1>2. d \in AuxData
  BY <1>1
<1>3. \A o \in 0 .. INVALID_OFFSET : BusAddr(o) \in 0 .. INVALID_OFFSET
  BY ConstantsAssumption DEF BusAddr, INVALID_OFFSET
<1>4. QED
  BY <1>2, <1>3 DEF Translated, AuxData

LEMMA StructInit == Init => StructInv
<1> SUFFICES ASSUME Init PROVE StructInv
  OBVIOUS
<1> USE ConstantsAssumption DEF Init, Threads
<1>1. TypeOK
  BY DEF TypeOK, CallerPC, PciPC, Replies
<1>2. Ownership
  BY DEF Ownership, Busy
<1>3. QED
  BY <1>1, <1>2 DEF StructInv

\* A step of the PCI thread outside the sweep takes no adapter and drops none.
LEMMA PciMoves ==
  ASSUME StructInv,
         NEW x \in PciPC \ {"delete", "free"},
         pc[Pci] \notin {"delete", "free"},
         pc' = [pc EXCEPT ![Pci] = x],
         UNCHANGED <<cur, core, data>>,
         devices' \subseteq devices
  PROVE  Ownership' /\ (pc \in [Threads -> CallerPC \cup PciPC])'
                    /\ (pc[Pci] \in PciPC)' /\ (\A c \in Callers : pc[c] \in CallerPC)'
<1> USE ConstantsAssumption DEF StructInv, TypeOK, Threads
<1>1. \A t \in Threads : t # Pci => pc'[t] = pc[t]
  OBVIOUS
<1>2. pc'[Pci] = x
  OBVIOUS
<1>3. x \notin {"add", "list", "delete", "free"}
  BY DEF PciPC
<1>4. \A t \in Threads : Busy(t)' <=> Busy(t)
  BY <1>1, <1>2, <1>3 DEF Busy
<1>5. Ownership'
  BY <1>1, <1>2, <1>3, <1>4 DEF Ownership
<1>6. QED
  BY <1>1, <1>2, <1>5

PciQuiet ==
  \/ ProbeBegin \/ AuxbusInit \/ CdevInit \/ RemoveBegin \/ CdevDestroy
  \/ AuxbusDestroyBegin \/ SweepDone \/ AuxbusDestroyEnd \/ DevresRelease

LEMMA PciQuietStep == StructInv /\ PciQuiet => StructInv'
<1> SUFFICES ASSUME StructInv, PciQuiet PROVE StructInv'
  OBVIOUS
<1>1. PICK x \in PciPC \ {"delete", "free"} : pc' = [pc EXCEPT ![Pci] = x]
  BY DEF PciQuiet, PciPC, ProbeBegin, AuxbusInit, CdevInit, RemoveBegin, CdevDestroy,
     AuxbusDestroyBegin, SweepDone, AuxbusDestroyEnd, DevresRelease
<1>2. pc[Pci] \notin {"delete", "free"} /\ UNCHANGED <<cur, core, data, foreign, reply>>
      /\ devices' \subseteq devices
  BY DEF PciQuiet, ProbeBegin, AuxbusInit, CdevInit, RemoveBegin, CdevDestroy,
     AuxbusDestroyBegin, SweepDone, AuxbusDestroyEnd, DevresRelease
<1>3. Ownership' /\ (pc \in [Threads -> CallerPC \cup PciPC])'
      /\ (pc[Pci] \in PciPC)' /\ (\A c \in Callers : pc[c] \in CallerPC)'
  BY <1>1, <1>2, PciMoves
<1>4. (/\ priv \in {"none", "alloc", "ready", "dead"}
       /\ cdev \in BOOLEAN /\ going \in BOOLEAN /\ fault \in BOOLEAN
       /\ fd \in [Callers -> {"closed", "open", "stale"}]
       /\ mutex \in Threads \cup {Nobody})'
  <2> USE DEF StructInv, TypeOK, Threads, files
  <2>1. CASE ProbeBegin
    BY <2>1 DEF ProbeBegin
  <2>2. CASE AuxbusInit
    BY <2>2 DEF AuxbusInit
  <2>3. CASE CdevInit
    BY <2>3 DEF CdevInit
  <2>4. CASE RemoveBegin
    BY <2>4 DEF RemoveBegin
  <2>5. CASE CdevDestroy
    BY <2>5 DEF CdevDestroy
  <2>6. CASE AuxbusDestroyBegin
    BY <2>6 DEF AuxbusDestroyBegin
  <2>7. CASE SweepDone
    BY <2>7 DEF SweepDone
  <2>8. CASE AuxbusDestroyEnd
    BY <2>8 DEF AuxbusDestroyEnd
  <2>9. CASE DevresRelease
    BY <2>9 DEF DevresRelease
  <2>10. QED
    BY <2>1, <2>2, <2>3, <2>4, <2>5, <2>6, <2>7, <2>8, <2>9 DEF PciQuiet
<1>5. QED
  BY <1>2, <1>3, <1>4 DEF StructInv, TypeOK

LEMMA StructStep == StructInv /\ [Next]_vars => StructInv'
<1> SUFFICES ASSUME StructInv, [Next]_vars
             PROVE  StructInv'
  OBVIOUS
<1> USE ConstantsAssumption, NoDataAssumption
    DEF StructInv, TypeOK, Ownership, Busy, Threads, CallerPC, PciPC, Replies, files
<1>1. ASSUME NEW c \in Callers, Open(c) PROVE StructInv'
  BY <1>1 DEF Open
<1>2. ASSUME NEW c \in Callers, Close(c) PROVE StructInv'
  BY <1>2 DEF Close
<1>3. ASSUME NEW c \in Callers, NEW d \in Request, NewRefused(c, d)
      PROVE  StructInv'
  BY <1>3 DEF NewRefused, Return
<1>4. ASSUME NEW c \in Callers, NEW d \in Request, NewAlloc(c, d)
      PROVE  StructInv'
  BY <1>4, TranslatedType DEF NewAlloc, Return
<1>5. ASSUME NEW c \in Callers, NewAdd(c) PROVE StructInv'
  BY <1>5 DEF NewAdd
<1>6. ASSUME NEW c \in Callers, NewAddFails(c) PROVE StructInv'
  BY <1>6 DEF NewAddFails, Return, FreeAdapter
<1>7. ASSUME NEW c \in Callers, NewList(c) PROVE StructInv'
  BY <1>7 DEF NewList, Return
<1>8. ASSUME NEW c \in Callers, NEW i \in Ids, DelFound(c, i)
      PROVE  StructInv'
  BY <1>8 DEF DelFound, Unlink
<1>9. ASSUME NEW c \in Callers, NEW i \in Ids, DelNotFound(c, i)
      PROVE  StructInv'
  BY <1>9 DEF DelNotFound, Return
<1>10. ASSUME NEW t \in Threads, DeviceDelete(t) PROVE StructInv'
  BY <1>10 DEF DeviceDelete
<1>11. ASSUME NEW c \in Callers, DelFree(c) PROVE StructInv'
  BY <1>11 DEF DelFree, Return, FreeAdapter
<1>12. ASSUME NEW c \in Callers, TouchFreed(c) PROVE StructInv'
  BY <1>12 DEF TouchFreed, Return
<1>13. ASSUME PciQuiet PROVE StructInv'
  BY <1>13, PciQuietStep
<1>14. ASSUME SweepUnlink PROVE StructInv'
  BY <1>14 DEF SweepUnlink, Unlink
<1>15. ASSUME SweepFree PROVE StructInv'
  BY <1>15 DEF SweepFree, FreeAdapter
<1>16. ASSUME NEW i \in Foreign, ForeignAdd(i) \/ ForeignDelete(i)
       PROVE  StructInv'
  BY <1>16 DEF ForeignAdd, ForeignDelete
<1>17. CASE UNCHANGED vars
  BY <1>17 DEF vars
<1>18. QED
  BY <1>1, <1>2, <1>3, <1>4, <1>5, <1>6, <1>7, <1>8, <1>9, <1>10, <1>11, <1>12,
     <1>13, <1>14, <1>15, <1>16, <1>17 DEF Next, Ioctl, PciStep, PciQuiet

\* Every variable of the bus keeps its type, however the driver is removed.
THEOREM TypeCorrect == Spec => []TypeOK
<1>1. Spec => []StructInv
  BY StructInit, StructStep, PTL DEF Spec
<1>2. StructInv => TypeOK
  BY DEF StructInv
<1>3. QED
  BY <1>1, <1>2, PTL

(***************************************************************************)
(* What the driver core's check of names gives: (name, id) identifies one   *)
(* live device of the FPGA.  The refinement below rests on it.              *)
(***************************************************************************)

UniqueIds ==
  \A a, b \in Adapters : Live(a) /\ Live(b) /\ data[a].id = data[b].id => a = b

LEMMA UniqueIdsStep == StructInv /\ UniqueIds /\ [Next]_vars => UniqueIds'
<1> SUFFICES ASSUME StructInv, UniqueIds, [Next]_vars
             PROVE  UniqueIds'
  OBVIOUS
<1> USE DEF UniqueIds, Live
<1>1. ASSUME NEW c \in Callers, NewAdd(c) PROVE UniqueIds'
  <2>1. cur[c] \in Adapters /\ ~IdTaken(data[cur[c]].id)
    BY <1>1, ConstantsAssumption
    DEF NewAdd, StructInv, TypeOK, Ownership, Busy, Threads
  <2>2. \A a \in Adapters : core'[a] = IF a = cur[c] THEN "added" ELSE core[a]
    BY <1>1 DEF NewAdd, StructInv, TypeOK
  <2>3. data' = data
    BY <1>1 DEF NewAdd
  <2>4. QED
    BY <2>1, <2>2, <2>3 DEF IdTaken
<1>2. ASSUME \A a \in Adapters : core'[a] = "added" => core[a] = "added" /\ data'[a] = data[a]
      PROVE  UniqueIds'
  BY <1>2
<1>3. ASSUME \E c \in Callers : \E d \in Request : NewAlloc(c, d)
      PROVE  UniqueIds'
  BY <1>2, <1>3 DEF NewAlloc, StructInv, TypeOK
<1>4. ASSUME NEW t \in Threads,
             NewAddFails(t) \/ DeviceDelete(t) \/ DelFree(t)
      PROVE  UniqueIds'
  BY <1>2, <1>4 DEF NewAddFails, DeviceDelete, DelFree, FreeAdapter, StructInv, TypeOK
<1>5. ASSUME SweepFree PROVE UniqueIds'
  BY <1>2, <1>5 DEF SweepFree, FreeAdapter, StructInv, TypeOK
<1>6. CASE UNCHANGED <<core, data>>
  BY <1>2, <1>6
<1>7. QED
  BY <1>1, <1>3, <1>4, <1>5, <1>6
  DEF Next, Ioctl, PciStep, vars, Threads, Open, Close, NewRefused, NewList, DelFound, Unlink,
      DelNotFound, TouchFreed, ProbeBegin, AuxbusInit, CdevInit, RemoveBegin, CdevDestroy,
      AuxbusDestroyBegin, SweepUnlink, SweepDone, AuxbusDestroyEnd, DevresRelease,
      ForeignAdd, ForeignDelete

(***************************************************************************)
(* The addresses that the drivers of the controllers claim.                 *)
(***************************************************************************)

\* A translated offset is the low word of an address of the BAR, and it is in
\* the BAR itself exactly when that address has no more than 32 bits.
LEMMA BusAddrOf ==
  ASSUME NEW o \in 0 .. INVALID_OFFSET, o < MaxOffset
  PROVE  \E b \in Bar : /\ BusAddr(o) = b % AddrSpace
                        /\ BusAddr(o) \in Bar <=> b \in 0 .. INVALID_OFFSET
<1> DEFINE b == o + BaseBusAddr
<1>1. b \in Bar /\ BusAddr(o) = b % AddrSpace
  BY ConstantsAssumption DEF Bar, BusAddr, INVALID_OFFSET
<1>2. CASE b < AddrSpace
  <2>1. b \in 0 .. (AddrSpace - 1)
    BY <1>2, ConstantsAssumption DEF INVALID_OFFSET
  <2>2. b % AddrSpace = b
    BY <2>1, ConstantsAssumption
  <2>3. QED
    BY <1>1, <2>1, <2>2 DEF INVALID_OFFSET
<1>3. CASE ~(b < AddrSpace)
  \* A multiple of AddrSpace is lost, which is more than the offset.
  <2>1. o < AddrSpace /\ b \in Nat
    BY ConstantsAssumption DEF INVALID_OFFSET
  <2>2. b % AddrSpace <= b - AddrSpace
    <3> DEFINE q == b \div AddrSpace
               r == b % AddrSpace
    <3>1. q \in Nat /\ r \in 0 .. (AddrSpace - 1) /\ b = AddrSpace * q + r
      BY <2>1, ConstantsAssumption
    <3> HIDE DEF q, r
    <3>2. q >= 1
      BY <1>3, <3>1, ConstantsAssumption
    <3>3. AddrSpace * q >= AddrSpace
      BY <3>1, <3>2, ConstantsAssumption
    <3>4. QED
      BY <3>1, <3>3, <2>1, ConstantsAssumption DEF r
  <2>3. b % AddrSpace < BaseBusAddr
    BY <2>1, <2>2, ConstantsAssumption
  <2>4. b % AddrSpace \notin Bar
    BY <2>3, ConstantsAssumption DEF Bar
  <2>5. b \notin 0 .. INVALID_OFFSET
    BY <1>3, <2>1, ConstantsAssumption DEF INVALID_OFFSET
  <2>6. QED
    BY <1>1, <2>4, <2>5
<1>4. QED
  BY <1>2, <1>3

\* An address claimed by a controller is the low word of an address of BAR 0:
\* the address itself in a BAR below 4 GB, and outside the BAR in one above,
\* which the code does not refuse.
THEOREM AddressesAreInBar == Spec => []AddressesInBar
<1> DEFINE Good(addr) ==
      \E b \in Bar : addr = b % AddrSpace /\ (addr \in Bar <=> b \in 0 .. INVALID_OFFSET)
<1>1. ASSUME NEW d \in Request, AuxDataValid(d), NEW addr \in Claims(Translated(d))
      PROVE  Good(addr)
  <2>1. Request \subseteq AuxData
    BY ConstantsAssumption DEF Request, AuxData, INVALID_OFFSET
  <2>2. \/ addr = BusAddr(d.csr) /\ d.csr < MaxOffset
        \/ addr = BusAddr(d.iobuf) /\ d.iobuf < MaxOffset
    BY <1>1, <2>1 DEF AuxDataValid, Translated, Claims, AuxData
  <2>3. d.csr \in 0 .. INVALID_OFFSET /\ d.iobuf \in 0 .. INVALID_OFFSET
    BY <2>1 DEF AuxData
  <2>4. QED
    BY <2>2, <2>3, BusAddrOf
<1>2. Init => AddressesInBar
  BY DEF Init, AddressesInBar
<1>3. StructInv /\ AddressesInBar /\ [Next]_vars => AddressesInBar'
  <2> SUFFICES ASSUME StructInv, AddressesInBar, [Next]_vars
               PROVE  AddressesInBar'
    OBVIOUS
  <2>1. ASSUME \A a \in Adapters : core'[a] # "none" => core[a] # "none" /\ data'[a] = data[a]
        PROVE  AddressesInBar'
    BY <2>1 DEF AddressesInBar
  <2>2. ASSUME NEW c \in Callers, NEW d \in Request, NewAlloc(c, d)
        PROVE  AddressesInBar'
    BY <1>1, <2>2 DEF NewAlloc, StructInv, TypeOK, AddressesInBar
  <2>3. ASSUME NEW t \in Threads,
               NewAdd(t) \/ NewAddFails(t) \/ DeviceDelete(t) \/ DelFree(t) \/ SweepFree
        PROVE  AddressesInBar'
    <3>1. cur[t] \in Adapters => core[cur[t]] # "none" \/ SweepFree \/ NewAddFails(t) \/ DelFree(t)
      BY <2>3 DEF StructInv, Ownership, NewAdd, DeviceDelete
    <3>2. QED
      BY <2>1, <2>3, <3>1 DEF NewAdd, NewAddFails, DeviceDelete, DelFree, SweepFree,
                               FreeAdapter, StructInv, TypeOK
  <2>4. CASE UNCHANGED <<core, data>>
    BY <2>1, <2>4
  <2>5. QED
    BY <2>2, <2>3, <2>4
    DEF Next, Ioctl, PciStep, vars, Threads, Open, Close, NewRefused, NewList, DelFound, Unlink,
        DelNotFound, TouchFreed, ProbeBegin, AuxbusInit, CdevInit, RemoveBegin, CdevDestroy,
        AuxbusDestroyBegin, SweepUnlink, SweepDone, AuxbusDestroyEnd, DevresRelease,
        ForeignAdd, ForeignDelete
<1>4. QED
  BY <1>2, <1>3, StructInit, StructStep, PTL DEF Spec

(***************************************************************************)
(* The life cycle of the bus when the driver is removed by rmmod alone: an  *)
(* open descriptor pins the module, so whoever is inside an ioctl keeps the *)
(* bus alive; and whoever is not on the list is in some thread's hands.     *)
(***************************************************************************)

PciReady == {"cdev_init", "bound", "deregister", "destroy", "sweep", "delete", "free",
             "mutex_destroy"}
PciEmpty == {"unbound", "auxbus_init", "cdev_init", "mutex_destroy", "devres"}
Locking(t) == IF t = Pci THEN pc[t] \in {"sweep", "delete", "free"}
                         ELSE pc[t] \in {"delete", "free"}

Pinned ==
  /\ fault = FALSE
  /\ \A c \in Callers : fd[c] # "stale"
  /\ \A c \in Callers : pc[c] # "idle" => fd[c] = "open"
  /\ \A c \in Callers : fd[c] = "open" => pc[Pci] = "bound"
  /\ cdev => pc[Pci] \in {"bound", "deregister"}
  /\ pc[Pci] = "deregister" => going

BusLife ==
  /\ pc[Pci] \in PciReady => priv = "ready"
  /\ \A t \in Threads : mutex = t <=> Locking(t)
  /\ pc[Pci] \in PciEmpty => devices = {}
  /\ \A a \in Adapters : core[a] # "none" =>
        a \in devices \/ \E t \in Threads : cur[t] = a

LifeInv == StructInv /\ Pinned /\ BusLife

LEMMA LifeInit == Init => LifeInv
<1> SUFFICES ASSUME Init PROVE Pinned /\ BusLife
  BY StructInit DEF LifeInv
<1> USE ConstantsAssumption DEF Init, Threads
<1>1. Pinned
  BY DEF Pinned
<1>2. BusLife
  BY DEF BusLife, Locking, PciReady, PciEmpty
<1>3. QED
  BY <1>1, <1>2

\* In rmmod mode an ioctl always finds the bus usable.
LEMMA AlwaysUsable ==
  ASSUME LifeInv, NEW c \in Callers, fd[c] # "closed"
  PROVE  BusUsable(c) /\ pc[Pci] = "bound" /\ ~Locking(Pci)
BY ConstantsAssumption
DEF LifeInv, StructInv, TypeOK, Pinned, BusLife, BusUsable, PciReady, Locking

LEMMA PinnedStep ==
  ASSUME ~HotUnbind
  PROVE  LifeInv /\ [Next]_vars => Pinned'
<1> SUFFICES ASSUME LifeInv, [Next]_vars
             PROVE  Pinned'
  OBVIOUS
<1> USE ConstantsAssumption DEF LifeInv, StructInv, TypeOK, Pinned, Threads
<1>1. ASSUME NEW c \in Callers, Open(c) \/ Close(c)
      PROVE  Pinned'
  BY <1>1 DEF Open, Close
<1>2. ASSUME NEW c \in Callers, Ioctl(c)
      PROVE  Pinned'
  <2>1. fd[c] # "closed"
    BY <1>2 DEF Ioctl, NewRefused, NewAlloc, NewAdd, NewAddFails, NewList, DelFound, Unlink,
                DelNotFound, DeviceDelete, DelFree, TouchFreed, BusUsable
  <2>2. BusUsable(c) /\ fd[c] = "open"
    BY <2>1, AlwaysUsable
  <2>3. UNCHANGED <<priv, cdev, going, fd, fault>>
    BY <1>2, <2>2 DEF Ioctl, NewRefused, NewAlloc, NewAdd, NewAddFails, NewList, DelFound, Unlink,
                DelNotFound, DeviceDelete, DelFree, TouchFreed, files
  <2>4. \A t \in Threads : t # c => pc'[t] = pc[t]
    BY <1>2 DEF Ioctl, NewRefused, NewAlloc, NewAdd, NewAddFails, NewList, DelFound, Unlink,
                DelNotFound, DeviceDelete, DelFree, TouchFreed, Return
  <2>5. QED
    BY <2>2, <2>3, <2>4
<1>3. ASSUME PciStep
      PROVE  Pinned'
  <2>1. \A c \in Callers : pc'[c] = pc[c]
    BY <1>3 DEF PciStep, ProbeBegin, AuxbusInit, CdevInit, RemoveBegin, CdevDestroy,
                AuxbusDestroyBegin, SweepUnlink, Unlink, DeviceDelete, SweepFree, SweepDone,
                AuxbusDestroyEnd, DevresRelease
  <2>2. \A c \in Callers : fd[c] = "open" => pc[Pci] = "bound"
    OBVIOUS
  <2>3. ASSUME RemoveBegin PROVE Pinned'
    BY <2>1, <2>3 DEF RemoveBegin, Unpinned
  <2>4. ASSUME CdevInit \/ CdevDestroy \/ ProbeBegin PROVE Pinned'
    BY <2>1, <2>4 DEF CdevInit, CdevDestroy, ProbeBegin
  <2>5. ASSUME AuxbusInit \/ AuxbusDestroyBegin \/ SweepUnlink \/ DeviceDelete(Pci)
               \/ SweepFree \/ SweepDone
        PROVE  Pinned'
    BY <2>1, <2>5 DEF AuxbusInit, AuxbusDestroyBegin, SweepUnlink, Unlink, DeviceDelete,
                      SweepFree, SweepDone, files
  <2>6. ASSUME AuxbusDestroyEnd PROVE Pinned'
    <3>1. mutex \notin Threads
      BY <2>2, <2>6 DEF AuxbusDestroyEnd, BusLife, Locking
    <3>2. QED
      BY <2>1, <2>6, <3>1 DEF AuxbusDestroyEnd, files
  <2>7. ASSUME DevresRelease PROVE Pinned'
    BY <2>1, <2>7 DEF DevresRelease
  <2>8. QED
    BY <1>3, <2>3, <2>4, <2>5, <2>6, <2>7 DEF PciStep
<1>4. ASSUME NEW i \in Foreign, ForeignAdd(i) \/ ForeignDelete(i)
      PROVE  Pinned'
  BY <1>4 DEF ForeignAdd, ForeignDelete, files
<1>5. CASE UNCHANGED vars
  BY <1>5 DEF vars
<1>6. QED
  BY <1>1, <1>2, <1>3, <1>4, <1>5 DEF Next

LEMMA BusLifeStep ==
  ASSUME ~HotUnbind
  PROVE  LifeInv /\ [Next]_vars => BusLife'
<1> SUFFICES ASSUME LifeInv, [Next]_vars
             PROVE  BusLife'
  OBVIOUS
<1> USE ConstantsAssumption
    DEF LifeInv, StructInv, TypeOK, Ownership, Busy, BusLife, Threads, Locking, files
<1>1. ASSUME NEW c \in Callers, Open(c) \/ Close(c)
      PROVE  BusLife'
  BY <1>1 DEF Open, Close
<1>2. ASSUME NEW c \in Callers, Ioctl(c)
      PROVE  BusLife'
  <2>1. fd[c] # "closed"
    BY <1>2 DEF Ioctl, NewRefused, NewAlloc, NewAdd, NewAddFails, NewList, DelFound, Unlink,
                DelNotFound, DeviceDelete, DelFree, TouchFreed, BusUsable, Pinned
  <2>2. BusUsable(c) /\ pc[Pci] = "bound"
    BY <2>1, AlwaysUsable
  <2> USE <2>2
  <2>3. ASSUME NEW d \in Request, NewRefused(c, d) PROVE BusLife'
    BY <2>3 DEF NewRefused, Return, PciEmpty
  <2>4. ASSUME NEW d \in Request, NewAlloc(c, d) PROVE BusLife'
    BY <2>4 DEF NewAlloc, Return, PciEmpty
  <2>5. ASSUME NewAdd(c) PROVE BusLife'
    BY <2>5 DEF NewAdd, PciEmpty
  <2>6. ASSUME NewAddFails(c) PROVE BusLife'
    BY <2>6 DEF NewAddFails, Return, FreeAdapter, PciEmpty
  <2>7. ASSUME NewList(c) PROVE BusLife'
    BY <2>7 DEF NewList, Return, PciEmpty
  <2>8. ASSUME NEW i \in Ids, DelFound(c, i) PROVE BusLife'
    BY <2>8 DEF DelFound, Unlink, PciEmpty
  <2>9. ASSUME NEW i \in Ids, DelNotFound(c, i) PROVE BusLife'
    BY <2>9 DEF DelNotFound, Return, PciEmpty
  <2>10. ASSUME DeviceDelete(c) PROVE BusLife'
    BY <2>10 DEF DeviceDelete, PciEmpty
  <2>11. ASSUME DelFree(c) PROVE BusLife'
    BY <2>11 DEF DelFree, Return, FreeAdapter, PciEmpty
  <2>12. ~TouchFreed(c)
    BY DEF TouchFreed
  <2>13. QED
    BY <1>2, <2>3, <2>4, <2>5, <2>6, <2>7, <2>8, <2>9, <2>10, <2>11, <2>12 DEF Ioctl
<1>3. ASSUME PciStep
      PROVE  BusLife'
  <2>1. pc[Pci] # "bound" => \A c \in Callers : pc[c] = "idle" /\ mutex # c
    BY DEF Pinned
  <2>2. ASSUME ProbeBegin PROVE BusLife'
    BY <2>1, <2>2 DEF ProbeBegin, PciReady, PciEmpty
  <2>3. ASSUME AuxbusInit PROVE BusLife'
    BY <2>1, <2>3 DEF AuxbusInit, PciReady, PciEmpty
  <2>4. ASSUME CdevInit PROVE BusLife'
    BY <2>1, <2>4 DEF CdevInit, PciReady, PciEmpty
  <2>5. ASSUME RemoveBegin PROVE BusLife'
    BY <2>1, <2>5 DEF RemoveBegin, PciReady, PciEmpty
  <2>6. ASSUME CdevDestroy PROVE BusLife'
    BY <2>1, <2>6 DEF CdevDestroy, PciReady, PciEmpty
  <2>7. ASSUME AuxbusDestroyBegin PROVE BusLife'
    BY <2>1, <2>7 DEF AuxbusDestroyBegin, PciReady, PciEmpty
  <2>8. ASSUME SweepUnlink PROVE BusLife'
    BY <2>1, <2>8 DEF SweepUnlink, Unlink, PciReady, PciEmpty
  <2>9. ASSUME DeviceDelete(Pci) PROVE BusLife'
    BY <2>1, <2>9 DEF DeviceDelete, PciReady, PciEmpty
  <2>10. ASSUME SweepFree PROVE BusLife'
    BY <2>1, <2>10 DEF SweepFree, PciReady, PciEmpty, FreeAdapter
  <2>11. ASSUME SweepDone PROVE BusLife'
    BY <2>1, <2>11 DEF SweepDone, PciReady, PciEmpty
  <2>12. ASSUME AuxbusDestroyEnd PROVE BusLife'
    BY <2>1, <2>12 DEF AuxbusDestroyEnd, PciReady, PciEmpty
  <2>13. ASSUME DevresRelease PROVE BusLife'
    BY <2>1, <2>13 DEF DevresRelease, PciReady, PciEmpty
  <2>14. QED
    BY <1>3, <2>2, <2>3, <2>4, <2>5, <2>6, <2>7, <2>8, <2>9, <2>10, <2>11, <2>12, <2>13 DEF PciStep
<1>4. ASSUME NEW i \in Foreign, ForeignAdd(i) \/ ForeignDelete(i)
      PROVE  BusLife'
  BY <1>4 DEF ForeignAdd, ForeignDelete
<1>5. CASE UNCHANGED vars
  BY <1>5 DEF vars
<1>6. QED
  BY <1>1, <1>2, <1>3, <1>4, <1>5 DEF Next

LEMMA LifeCorrect ==
  ASSUME ~HotUnbind
  PROVE  Spec => []LifeInv
<1>1. LifeInv /\ [Next]_vars => LifeInv'
  BY StructStep, PinnedStep, BusLifeStep DEF LifeInv
<1>2. QED
  BY LifeInit, <1>1, PTL DEF Spec

\* No ioctl touches the bus outside its life, when rmmod removes the driver.
THEOREM NeverTouchesFreed == Spec => []NoUseAfterFree
<1>1. CASE HotUnbind
  <2>1. NoUseAfterFree
    BY <1>1 DEF NoUseAfterFree
  <2>2. QED
    BY <2>1, PTL
<1>2. CASE ~HotUnbind
  <2>1. LifeInv => NoUseAfterFree
    BY DEF LifeInv, Pinned, NoUseAfterFree
  <2>2. QED
    BY <1>2, <2>1, LifeCorrect, PTL
<1>3. QED
  BY <1>1, <1>2

\* Every adapter is on the list or in the hands of exactly one thread.
THEOREM EveryAdapterAccounted == Spec => []Accounted
<1>1. CASE HotUnbind
  <2>1. Accounted
    BY <1>1 DEF Accounted
  <2>2. QED
    BY <2>1, PTL
<1>2. CASE ~HotUnbind
  <2>1. LifeInv => Accounted
    <3> SUFFICES ASSUME LifeInv, NEW a \in Adapters
                 PROVE  IF core[a] = "none" \/ a \in devices
                        THEN Holders(a) = {}
                        ELSE \E t \in Threads : Holders(a) = {t}
      BY DEF Accounted
    <3> USE DEF LifeInv, StructInv, Ownership, BusLife, Holders
    <3>1. CASE core[a] = "none"
      <4>1. \A t \in Threads : cur[t] # a
        BY <3>1, ConstantsAssumption DEF Busy, TypeOK, Threads, CallerPC, PciPC
      <4>2. QED
        BY <3>1, <4>1
    <3>2. CASE a \in devices
      BY <3>2
    <3>3. CASE core[a] # "none" /\ a \notin devices
      <4>1. PICK t \in Threads : cur[t] = a
        BY <3>3
      <4>2. Holders(a) = {t}
        BY <4>1
      <4>3. QED
        BY <3>3, <4>1, <4>2
    <3>4. QED
      BY <3>1, <3>2, <3>3
  <2>2. QED
    BY <1>2, <2>1, LifeCorrect, PTL
<1>3. QED
  BY <1>1, <1>2

\* After a removal, or a probe that failed, no controller and no adapter is left.
THEOREM RemoveLeavesNothing == Spec => []NothingSurvivesRemove
<1>1. CASE HotUnbind
  <2>1. NothingSurvivesRemove
    BY <1>1 DEF NothingSurvivesRemove
  <2>2. QED
    BY <2>1, PTL
<1>2. CASE ~HotUnbind
  <2>1. LifeInv => NothingSurvivesRemove
    <3> SUFFICES ASSUME LifeInv, pc[Pci] \in {"mutex_destroy", "devres", "unbound"},
                        NEW a \in Adapters
                 PROVE  core[a] = "none"
      BY DEF NothingSurvivesRemove
    <3>1. \A t \in Threads : ~Busy(t)
      BY DEF LifeInv, Pinned, Busy, Threads
    <3>2. \A t \in Threads : cur[t] # a
      BY <3>1 DEF LifeInv, StructInv, Ownership
    <3>3. devices = {}
      BY DEF LifeInv, BusLife, PciEmpty
    <3>4. QED
      BY <3>2, <3>3 DEF LifeInv, BusLife
  <2>2. QED
    BY <1>2, <2>1, LifeCorrect, PTL
<1>3. QED
  BY <1>1, <1>2

(***************************************************************************)
(* AuxBus implements AuxRegistry: seen through Slot, every step of the bus  *)
(* is a step of the registry or changes nothing, whatever races.            *)
(***************************************************************************)

\* An adapter's stage is determined by the list and the thread holding it.
LEMMA StageCases ==
  ASSUME StructInv, NEW a \in Adapters
  PROVE  /\ a \in devices => Stage(a) = "present"
         /\ InHand(a, "list") => Stage(a) = "appearing"
         /\ InHand(a, "delete") => Stage(a) = "vanishing"
         /\ a \notin devices /\ ~InHand(a, "list") /\ ~InHand(a, "delete")
              => Stage(a) = "orphan"
<1>1. a \in devices => ~InHand(a, "list") /\ ~InHand(a, "delete")
  BY DEF StructInv, Ownership, InHand
<1>2. InHand(a, "list") => ~InHand(a, "delete")
  BY DEF StructInv, Ownership, InHand
<1>3. QED
  BY <1>1, <1>2 DEF Stage

SlotIsStage ==
  /\ \A a \in Adapters, i \in Ids : Has(a, i) => Slot[i] = Stage(a)
  /\ \A i \in Ids : (\A a \in Adapters : ~Has(a, i)) => Slot[i] = "absent"

LEMMA SlotOf == UniqueIds => SlotIsStage
<1> SUFFICES ASSUME UniqueIds PROVE SlotIsStage
  OBVIOUS
<1>1. ASSUME NEW a \in Adapters, NEW i \in Ids, Has(a, i)
      PROVE  Slot[i] = Stage(a)
  <2> DEFINE b == CHOOSE b \in Adapters : Has(b, i)
  <2>1. b \in Adapters /\ Has(b, i)
    BY <1>1
  <2>2. a = b
    BY <1>1, <2>1 DEF UniqueIds, Has
  <2>3. QED
    BY <1>1, <2>2 DEF Slot
<1>2. ASSUME NEW i \in Ids, \A a \in Adapters : ~Has(a, i)
      PROVE  Slot[i] = "absent"
  BY <1>2 DEF Slot
<1>3. QED
  BY <1>1, <1>2 DEF SlotIsStage

LEMMA SlotOfNext == UniqueIds' => SlotIsStage'
BY SlotOf, PTL

\* The ids of the adapters in S are left alone by a step.
Undisturbed(S) ==
  \A a \in S : /\ Live(a)' <=> Live(a)
               /\ Live(a) => data'[a].id = data[a].id /\ Stage(a)' = Stage(a)

LEMMA SlotUnchanged ==
  ASSUME UniqueIds, UniqueIds', Undisturbed(Adapters)
  PROVE  Slot' = Slot
<1>1. ASSUME NEW i \in Ids PROVE Slot'[i] = Slot[i]
  <2>1. \A a \in Adapters : Has(a, i)' <=> Has(a, i)
    BY DEF Undisturbed, Has
  <2>2. CASE \E a \in Adapters : Has(a, i)
    <3>1. PICK a \in Adapters : Has(a, i)
      BY <2>2
    <3>2. Slot[i] = Stage(a)
      BY <3>1, SlotOf DEF SlotIsStage
    <3>3. Slot'[i] = Stage(a)'
      BY <2>1, <3>1, SlotOfNext DEF SlotIsStage
    <3>4. QED
      BY <3>1, <3>2, <3>3 DEF Undisturbed, Has
  <2>3. CASE \A a \in Adapters : ~Has(a, i)
    <3>1. Slot[i] = "absent"
      BY <2>3, SlotOf DEF SlotIsStage
    <3>2. Slot'[i] = "absent"
      BY <2>1, <2>3, SlotOfNext DEF SlotIsStage
    <3>3. QED
      BY <3>1, <3>2
  <2>4. QED
    BY <2>2, <2>3
<1>2. QED
  BY <1>1 DEF Slot

Seen(b) == IF Live(b) THEN Stage(b) ELSE "absent"

\* A step that concerns one adapter moves the slot of its id, and no other.
LEMMA SlotMoves ==
  ASSUME UniqueIds, UniqueIds', NEW b \in Adapters, NEW i \in Ids,
         Undisturbed(Adapters \ {b}),
         Live(b) \/ Live(b)',
         Live(b) => data[b].id = i,
         Live(b)' => data'[b].id = i
  PROVE  Slot[i] = Seen(b) /\ Slot' = [Slot EXCEPT ![i] = Seen(b)']
<1>1. \A a \in Adapters \ {b}, j \in Ids : Has(a, j)' <=> Has(a, j)
  BY DEF Undisturbed, Has
<1>2. \A a \in Adapters \ {b} : ~Has(a, i)
  BY <1>1 DEF UniqueIds, Has
<1>3. SlotIsStage /\ SlotIsStage'
  BY SlotOf, SlotOfNext
<1>4. Slot[i] = Seen(b)
  BY <1>2, <1>3 DEF SlotIsStage, Has, Seen
<1>5. Slot'[i] = Seen(b)'
  BY <1>1, <1>2, <1>3 DEF SlotIsStage, Has, Seen
<1>6. ASSUME NEW j \in Ids \ {i} PROVE Slot'[j] = Slot[j]
  <2>1. ~Has(b, j) /\ ~Has(b, j)'
    BY DEF Has
  <2>2. CASE \E a \in Adapters : Has(a, j)
    <3>1. PICK a \in Adapters : Has(a, j)
      BY <2>2
    <3>2. a # b /\ Has(a, j)'
      BY <1>1, <2>1, <3>1
    <3>3. QED
      BY <1>3, <3>1, <3>2 DEF SlotIsStage, Undisturbed, Has
  <2>3. CASE \A a \in Adapters : ~Has(a, j)
    <3>1. \A a \in Adapters : ~Has(a, j)'
      BY <1>1, <2>1, <2>3
    <3>2. QED
      BY <1>3, <2>3, <3>1 DEF SlotIsStage
  <2>4. QED
    BY <2>2, <2>3
<1>7. QED
  BY <1>4, <1>5, <1>6 DEF Slot

\* An adapter's stage is untouched by a step that keeps the list and the hands
\* that hold the adapter.
LEMMA StageKept ==
  ASSUME NEW a \in Adapters,
         a \in devices' <=> a \in devices,
         \A t \in Threads : cur[t] = a \/ cur'[t] = a =>
                             cur'[t] = cur[t] /\ pc'[t] = pc[t]
  PROVE  Stage(a)' = Stage(a)
<1>1. InHand(a, "list")' <=> InHand(a, "list")
  BY DEF InHand
<1>2. InHand(a, "delete")' <=> InHand(a, "delete")
  BY DEF InHand
<1>3. QED
  BY <1>1, <1>2 DEF Stage

\* Before fbiob_auxbus_init no list exists.
Fresh == pc[Pci] \in {"unbound", "auxbus_init"} => devices = {} /\ priv \in {"none", "alloc"}

RegInv == StructInv /\ UniqueIds /\ Fresh /\ (HotUnbind \/ LifeInv)

LEMMA FreshStep == StructInv /\ Fresh /\ [Next]_vars => Fresh'
<1> SUFFICES ASSUME StructInv, Fresh, [Next]_vars
             PROVE  Fresh'
  OBVIOUS
<1> USE ConstantsAssumption DEF StructInv, TypeOK, Fresh, Threads, files
<1>1. ASSUME NEW c \in Callers, Open(c) \/ Close(c) \/ Ioctl(c)
      PROVE  Fresh'
  <2>1. pc'[Pci] = pc[Pci] /\ priv' = priv
    BY <1>1 DEF Ioctl, Open, Close, NewRefused, NewAlloc, NewAdd, NewAddFails, NewList,
                DelFound, Unlink, DelNotFound, DeviceDelete, DelFree, TouchFreed, Return
  <2>2. devices' \subseteq devices \/ priv = "ready"
    BY <1>1 DEF Ioctl, Open, Close, NewRefused, NewAlloc, NewAdd, NewAddFails, NewList,
                DelFound, Unlink, DelNotFound, DeviceDelete, DelFree, TouchFreed, BusUsable
  <2>3. QED
    BY <2>1, <2>2
<1>2. ASSUME PciStep
      PROVE  Fresh'
  BY <1>2 DEF PciStep, ProbeBegin, AuxbusInit, CdevInit, RemoveBegin, CdevDestroy,
      AuxbusDestroyBegin, SweepUnlink, Unlink, DeviceDelete, SweepFree, SweepDone,
      AuxbusDestroyEnd, DevresRelease
<1>3. CASE UNCHANGED <<pc, devices, priv>>
  BY <1>3
<1>4. QED
  BY <1>1, <1>2, <1>3 DEF Next, ForeignAdd, ForeignDelete, vars

LEMMA RegCorrect == Spec => []RegInv
<1>1. Spec => [](StructInv /\ UniqueIds /\ Fresh)
  <2>1. Init => UniqueIds /\ Fresh
    BY DEF Init, UniqueIds, Live, Fresh
  <2>2. QED
    BY <2>1, StructInit, StructStep, UniqueIdsStep, FreshStep, PTL DEF Spec
<1>2. CASE HotUnbind
  <2>1. StructInv /\ UniqueIds /\ Fresh => RegInv
    BY <1>2 DEF RegInv
  <2>2. QED
    BY <1>1, <2>1, PTL
<1>3. CASE ~HotUnbind
  <2>1. StructInv /\ UniqueIds /\ Fresh /\ LifeInv => RegInv
    BY DEF RegInv
  <2>2. QED
    BY <1>1, <1>3, <2>1, LifeCorrect, PTL
<1>4. QED
  BY <1>2, <1>3

(***************************************************************************)
(* One lemma for each step of the registry.                                 *)
(***************************************************************************)

LEMMA AppearStep ==
  ASSUME RegInv, RegInv', NEW c \in Callers, NewAdd(c)
  PROVE  \E i \in Ids : Registry!Register(i)
<1> USE ConstantsAssumption DEF RegInv, StructInv, TypeOK, Ownership, Busy, Threads
<1>1. PICK b \in Adapters : b = cur[c] /\ data[b] \in AuxData /\ core[b] = "init"
  BY DEF NewAdd
<1>2. core' = [core EXCEPT ![b] = "added"] /\ UNCHANGED <<cur, data, devices>>
      /\ pc' = [pc EXCEPT ![c] = "list"]
  BY <1>1 DEF NewAdd
<1>3. PICK i \in Ids : i = data[b].id
  BY <1>1 DEF AuxData
<1>4. Undisturbed(Adapters \ {b})
  BY <1>1, <1>2, StageKept DEF Undisturbed, Live
<1>5. Stage(b)' = "appearing"
  BY <1>1, <1>2 DEF InHand, Stage
<1>6. ~Live(b) /\ Live(b)' /\ data'[b].id = i
  BY <1>1, <1>2, <1>3 DEF Live
<1>7. Slot[i] = "absent" /\ Slot' = [Slot EXCEPT ![i] = "appearing"]
  <2> HIDE DEF StructInv, TypeOK, Ownership, Busy
  <2>1. UniqueIds /\ UniqueIds'
    OBVIOUS
  <2>2. Seen(b) = "absent" /\ Seen(b)' = "appearing"
    BY <1>1, <1>3, <1>4, <1>5, <1>6 DEF Seen
  <2>3. Slot[i] = Seen(b) /\ Slot' = [Slot EXCEPT ![i] = Seen(b)']
    BY <2>1, <1>1, <1>3, <1>4, <1>5, <1>6, SlotMoves
  <2>4. QED
    BY <2>2, <2>3
<1>8. QED
  BY <1>3, <1>7 DEF Registry!Register, Registry!Move

LEMMA PublishStep ==
  ASSUME RegInv, RegInv', NEW c \in Callers, NewList(c)
  PROVE  \E i \in Ids : Registry!Publish(i)
<1> USE ConstantsAssumption DEF RegInv, StructInv, TypeOK, Ownership, Busy, Threads
<1>1. PICK b \in Adapters : b = cur[c] /\ data[b] \in AuxData /\ core[b] = "added" /\ b \notin devices
  BY DEF NewList
<1>2. devices' = devices \cup {b} /\ UNCHANGED <<core, data>>
      /\ pc' = [pc EXCEPT ![c] = "idle"] /\ cur' = [cur EXCEPT ![c] = NoAdapter]
      /\ pc[c] = "list"
  BY <1>1 DEF NewList, Return
<1>3. PICK i \in Ids : i = data[b].id
  BY <1>1 DEF AuxData
<1>4. Undisturbed(Adapters \ {b})
  BY <1>1, <1>2, StageKept DEF Undisturbed, Live
<1>5. Stage(b) = "appearing" /\ Stage(b)' = "present"
  <2>1. InHand(b, "list")
    BY <1>1, <1>2 DEF InHand
  <2>2. \A t \in Threads : cur'[t] # b
    BY <1>1, <1>2
  <2>3. QED
    BY <1>1, <1>2, <2>1, <2>2, StageCases DEF Stage, InHand
<1>6. Live(b) /\ Live(b)' /\ data'[b].id = i
  BY <1>1, <1>2, <1>3 DEF Live
<1>7. Slot[i] = "appearing" /\ Slot' = [Slot EXCEPT ![i] = "present"]
  <2> HIDE DEF StructInv, TypeOK, Ownership, Busy
  <2>1. UniqueIds /\ UniqueIds'
    OBVIOUS
  <2>2. Seen(b) = "appearing" /\ Seen(b)' = "present"
    BY <1>1, <1>3, <1>4, <1>5, <1>6 DEF Seen
  <2>3. Slot[i] = Seen(b) /\ Slot' = [Slot EXCEPT ![i] = Seen(b)']
    BY <2>1, <1>1, <1>3, <1>4, <1>5, <1>6, SlotMoves
  <2>4. QED
    BY <2>2, <2>3
<1>8. QED
  BY <1>3, <1>7 DEF Registry!Publish, Registry!Move

\* A DEL or the sweep unlinks a device.
LEMMA RetireStep ==
  ASSUME RegInv, RegInv', NEW t \in Threads, NEW b \in devices,
         pc[t] \notin {"list", "delete"}, cur[t] \notin Adapters,
         devices' = devices \ {b}, UNCHANGED <<core, data>>,
         pc' = [pc EXCEPT ![t] = "delete"], cur' = [cur EXCEPT ![t] = b]
  PROVE  \E i \in Ids : Registry!Retire(i)
<1> USE ConstantsAssumption DEF RegInv, StructInv, TypeOK, Ownership, Threads
<1>1. b \in Adapters /\ data[b] \in AuxData /\ core[b] = "added"
  OBVIOUS
<1>2. PICK i \in Ids : i = data[b].id
  BY <1>1 DEF AuxData
<1>3. Undisturbed(Adapters \ {b})
  BY <1>1, StageKept DEF Undisturbed, Live
<1>4. Stage(b) = "present" /\ Stage(b)' = "vanishing"
  <2>1. InHand(b, "delete")' /\ ~InHand(b, "list")'
    BY <1>1 DEF InHand
  <2>2. QED
    BY <1>1, <2>1, StageCases DEF Stage
<1>5. Live(b) /\ Live(b)' /\ data'[b].id = i
  BY <1>1, <1>2 DEF Live
<1>6. Slot[i] = "present" /\ Slot' = [Slot EXCEPT ![i] = "vanishing"]
  <2> HIDE DEF StructInv, TypeOK, Ownership, Busy
  <2>1. UniqueIds /\ UniqueIds'
    OBVIOUS
  <2>2. Seen(b) = "present" /\ Seen(b)' = "vanishing"
    BY <1>1, <1>2, <1>3, <1>4, <1>5 DEF Seen
  <2>3. Slot[i] = Seen(b) /\ Slot' = [Slot EXCEPT ![i] = Seen(b)']
    BY <2>1, <1>1, <1>2, <1>3, <1>4, <1>5, SlotMoves
  <2>4. QED
    BY <2>2, <2>3
<1>7. QED
  BY <1>2, <1>6 DEF Registry!Retire, Registry!Move

LEMMA EraseStep ==
  ASSUME RegInv, RegInv', NEW t \in Threads, DeviceDelete(t)
  PROVE  \E i \in Ids : Registry!Erase(i)
<1> USE ConstantsAssumption DEF RegInv, StructInv, TypeOK, Ownership, Busy, Threads
<1>1. PICK b \in Adapters : b = cur[t] /\ data[b] \in AuxData /\ core[b] = "added"
  BY DEF DeviceDelete
<1>2. core' = [core EXCEPT ![b] = "deleted"] /\ UNCHANGED <<cur, data, devices>>
      /\ pc' = [pc EXCEPT ![t] = "free"] /\ pc[t] = "delete"
  BY <1>1 DEF DeviceDelete
<1>3. PICK i \in Ids : i = data[b].id
  BY <1>1 DEF AuxData
<1>4. Undisturbed(Adapters \ {b})
  BY <1>1, <1>2, StageKept DEF Undisturbed, Live
<1>5. Stage(b) = "vanishing"
  BY <1>1, <1>2, StageCases DEF InHand
<1>6. Live(b) /\ ~Live(b)'
  BY <1>1, <1>2, <1>3 DEF Live
<1>7. Slot[i] = "vanishing" /\ Slot' = [Slot EXCEPT ![i] = "absent"]
  <2> HIDE DEF StructInv, TypeOK, Ownership, Busy
  <2>1. UniqueIds /\ UniqueIds'
    OBVIOUS
  <2>2. Seen(b) = "vanishing" /\ Seen(b)' = "absent"
    BY <1>1, <1>3, <1>4, <1>5, <1>6 DEF Seen
  <2>3. Slot[i] = Seen(b) /\ Slot' = [Slot EXCEPT ![i] = Seen(b)']
    BY <2>1, <1>1, <1>3, <1>4, <1>5, <1>6, SlotMoves
  <2>4. QED
    BY <2>2, <2>3
<1>8. QED
  BY <1>3, <1>7 DEF Registry!Erase, Registry!Move

\* An ioctl that finds the bus gone loses the device it had registered.
LEMMA OrphanStep ==
  ASSUME RegInv, RegInv', NEW c \in Callers, TouchFreed(c)
  PROVE  Slot' = Slot \/ \E S \in SUBSET Ids : Registry!Abandon(S)
<1> USE ConstantsAssumption DEF RegInv, StructInv, TypeOK, Ownership, Busy, Threads
<1>1. UNCHANGED <<core, data, devices>> /\ pc' = [pc EXCEPT ![c] = "idle"]
      /\ cur' = [cur EXCEPT ![c] = NoAdapter] /\ ~BusUsable(c) /\ fd[c] # "closed"
  BY DEF TouchFreed, Return
<1>2. CASE cur[c] \notin Adapters
  <2>1. Undisturbed(Adapters)
    BY <1>1, <1>2, StageKept DEF Undisturbed, Live
  <2>2. QED
    BY <2>1, SlotUnchanged
<1>3. CASE cur[c] \in Adapters
  <2>1. PICK b \in Adapters : b = cur[c] /\ data[b] \in AuxData /\ core[b] = "added"
                             /\ pc[c] = "list"
    BY <1>3 DEF TouchFreed
  <2>2. PICK i \in Ids : i = data[b].id
    BY <2>1 DEF AuxData
  <2>3. Undisturbed(Adapters \ {b})
    BY <1>1, <2>1, StageKept DEF Undisturbed, Live
  <2>4. Stage(b) = "appearing" /\ Stage(b)' = "orphan"
    <3>1. InHand(b, "list")
      BY <2>1 DEF InHand
    <3>2. \A t \in Threads : cur'[t] # b
      BY <1>1, <2>1
    <3>3. QED
      BY <1>1, <2>1, <3>1, <3>2, StageCases DEF Stage, InHand
  <2>5. Live(b) /\ Live(b)' /\ data'[b].id = i
    BY <1>1, <2>1, <2>2 DEF Live
  <2>6. Slot[i] = "appearing" /\ Slot' = [Slot EXCEPT ![i] = "orphan"]
    <3> HIDE DEF StructInv, TypeOK, Ownership, Busy
    <3>1. UniqueIds /\ UniqueIds'
      OBVIOUS
    <3>2. Seen(b) = "appearing" /\ Seen(b)' = "orphan"
      BY <2>4, <2>5 DEF Seen
    <3>3. Slot[i] = Seen(b) /\ Slot' = [Slot EXCEPT ![i] = Seen(b)']
      BY <2>1, <2>2, <2>3, <2>5, <3>1, SlotMoves
    <3>4. QED
      BY <3>2, <3>3
  <2>7. HotUnbind
    BY <1>1, AlwaysUsable
  <2>8. Slot' = [j \in Ids |-> IF j \in {i} THEN "orphan" ELSE Slot[j]]
    BY <2>6 DEF Slot
  <2>9. Registry!Abandon({i})
    BY <2>6, <2>7, <2>8 DEF Registry!Abandon
  <2>10. QED
    BY <2>9
<1>4. QED
  BY <1>2, <1>3

\* What is still listed when the memory of the list goes is left behind.
LEMMA DevresStep ==
  ASSUME RegInv, RegInv', DevresRelease
  PROVE  Slot' = Slot \/ \E S \in SUBSET Ids : Registry!Abandon(S)
<1> USE ConstantsAssumption DEF RegInv, StructInv, TypeOK, Ownership, Busy, Threads
<1>1. UNCHANGED <<core, data, cur>> /\ pc' = [pc EXCEPT ![Pci] = "unbound"]
      /\ devices' = {} /\ pc[Pci] = "devres"
  BY DEF DevresRelease
<1>2. \A a \in Adapters, j \in Ids : Has(a, j)' <=> Has(a, j)
  BY <1>1 DEF Has, Live
<1>3. \A a \in Adapters \ devices : Stage(a)' = Stage(a)
  BY <1>1, StageKept
<1>4. CASE devices = {}
  <2>1. Undisturbed(Adapters)
    BY <1>1, <1>3, <1>4 DEF Undisturbed, Live
  <2>2. QED
    BY <2>1, SlotUnchanged
<1>5. CASE devices # {}
  <2>1. HotUnbind
    BY <1>1, <1>5 DEF LifeInv, BusLife, PciEmpty
  <2> DEFINE S == {j \in Ids : \E a \in devices : Has(a, j)}
  <2>2. S # {}
    <3>1. PICK a \in devices : TRUE
      BY <1>5
    <3>2. Has(a, data[a].id) /\ data[a].id \in Ids
      BY DEF Has, Live, AuxData
    <3>3. QED
      BY <3>2
  <2>3. \A a \in devices : Stage(a) = "present" /\ Stage(a)' = "orphan"
    <3> SUFFICES ASSUME NEW a \in devices
                 PROVE  Stage(a) = "present" /\ Stage(a)' = "orphan"
      OBVIOUS
    <3>1. ~InHand(a, "list")' /\ ~InHand(a, "delete")'
      BY <1>1 DEF InHand
    <3>2. QED
      BY <1>1, <3>1, StageCases DEF Stage
  <2>4. SlotIsStage /\ SlotIsStage'
    BY SlotOf, SlotOfNext
  <2>5. \A j \in S : Slot[j] = "present" /\ Slot'[j] = "orphan"
    BY <1>2, <2>3, <2>4 DEF SlotIsStage
  <2>6. ASSUME NEW j \in Ids \ S PROVE Slot'[j] = Slot[j]
    <3>1. CASE \E a \in Adapters : Has(a, j)
      <4>1. PICK a \in Adapters : Has(a, j)
        BY <3>1
      <4>2. a \notin devices /\ Has(a, j)'
        BY <1>2, <4>1
      <4>3. Slot[j] = Stage(a) /\ Slot'[j] = Stage(a)'
        BY <2>4, <4>1, <4>2 DEF SlotIsStage
      <4>4. QED
        BY <1>3, <4>2, <4>3
    <3>2. CASE \A a \in Adapters : ~Has(a, j)
      BY <1>2, <2>4, <3>2 DEF SlotIsStage
    <3>3. QED
      BY <3>1, <3>2
  <2>7. Slot' = [j \in Ids |-> IF j \in S THEN "orphan" ELSE Slot[j]]
    BY <2>5, <2>6 DEF Slot
  <2>8. Registry!Abandon(S)
    <3> HIDE DEF S
    <3>1. QED
      BY <2>1, <2>2, <2>5, <2>7 DEF Registry!Abandon
  <2>9. S \in SUBSET Ids
    OBVIOUS
  <2>10. QED
    BY <2>8, <2>9
<1>6. QED
  BY <1>4, <1>5

\* The other steps change no live device, and leave each where it is.
LEMMA QuietStep ==
  ASSUME RegInv, RegInv',
         \A a \in Adapters : Live(a)' <=> Live(a),
         \A a \in Adapters : Live(a) =>
            /\ data'[a] = data[a]
            /\ a \in devices' <=> a \in devices
            /\ \A t \in Threads : cur[t] = a \/ cur'[t] = a =>
                                   cur'[t] = cur[t] /\ pc'[t] = pc[t]
  PROVE  Slot' = Slot
<1>1. Undisturbed(Adapters)
  BY StageKept DEF Undisturbed
<1>2. QED
  BY <1>1, SlotUnchanged DEF RegInv

LEMMA IoctlStep ==
  ASSUME RegInv, RegInv', NEW c \in Callers, Ioctl(c)
  PROVE  [Registry!Next]_Slot
<1> USE ConstantsAssumption DEF RegInv, StructInv, TypeOK, Ownership, Busy, Threads, Live
<1>1. ASSUME NEW d \in Request, NewRefused(c, d) PROVE Slot' = Slot
  BY <1>1, QuietStep DEF NewRefused, Return
<1>2. ASSUME NEW d \in Request, NewAlloc(c, d) PROVE Slot' = Slot
  BY <1>2, QuietStep DEF NewAlloc, Return
<1>3. ASSUME NewAddFails(c) PROVE Slot' = Slot
  BY <1>3, QuietStep DEF NewAddFails, Return, FreeAdapter
<1>4. ASSUME NEW i \in Ids, DelNotFound(c, i) PROVE Slot' = Slot
  BY <1>4, QuietStep DEF DelNotFound, Return
<1>5. ASSUME DelFree(c) PROVE Slot' = Slot
  BY <1>5, QuietStep DEF DelFree, Return, FreeAdapter
<1>6. ASSUME NEW i \in Ids, DelFound(c, i)
      PROVE  \E j \in Ids : Registry!Retire(j)
  <2>1. PICK b \in devices : devices' = devices \ {b} /\ cur' = [cur EXCEPT ![c] = b]
    BY <1>6 DEF DelFound, Unlink
  <2>2. pc[c] \notin {"list", "delete"} /\ cur[c] \notin Adapters /\ UNCHANGED <<core, data>>
        /\ pc' = [pc EXCEPT ![c] = "delete"]
    BY <1>6 DEF DelFound, Unlink
  <2> HIDE DEF RegInv, StructInv, TypeOK, Ownership, Busy
  <2>3. QED
    BY <2>1, <2>2, RetireStep
<1> HIDE DEF RegInv, StructInv, TypeOK, Ownership, Busy, Live
<1>7. QED
  BY <1>1, <1>2, <1>3, <1>4, <1>5, <1>6, AppearStep, PublishStep, EraseStep, OrphanStep
  DEF Ioctl, Registry!Next

LEMMA PciRegistryStep ==
  ASSUME RegInv, RegInv', PciStep
  PROVE  [Registry!Next]_Slot
<1> USE ConstantsAssumption DEF RegInv, StructInv, TypeOK, Ownership, Busy, Threads, Live
<1>1. ASSUME ProbeBegin \/ CdevInit \/ RemoveBegin \/ CdevDestroy \/ AuxbusDestroyBegin
             \/ SweepDone \/ AuxbusDestroyEnd
      PROVE  Slot' = Slot
  <2>1. UNCHANGED <<core, data, devices, cur>> /\ cur[Pci] \notin Adapters
    BY <1>1 DEF ProbeBegin, CdevInit, RemoveBegin, CdevDestroy, AuxbusDestroyBegin,
                SweepDone, AuxbusDestroyEnd
  <2>2. \A t \in Threads : t # Pci => pc'[t] = pc[t]
    BY <1>1 DEF ProbeBegin, CdevInit, RemoveBegin, CdevDestroy, AuxbusDestroyBegin,
                SweepDone, AuxbusDestroyEnd
  <2>3. QED
    BY <2>1, <2>2, QuietStep
<1>2. ASSUME AuxbusInit PROVE Slot' = Slot
  <2>1. devices = {}
    BY <1>2 DEF AuxbusInit, Fresh
  <2>2. QED
    BY <1>2, <2>1, QuietStep DEF AuxbusInit
<1>3. ASSUME SweepFree PROVE Slot' = Slot
  BY <1>3, QuietStep DEF SweepFree, FreeAdapter
<1>4. ASSUME SweepUnlink
      PROVE  \E j \in Ids : Registry!Retire(j)
  <2>1. PICK b \in devices : devices' = devices \ {b} /\ cur' = [cur EXCEPT ![Pci] = b]
    BY <1>4 DEF SweepUnlink, Unlink
  <2>2. pc[Pci] \notin {"list", "delete"} /\ cur[Pci] \notin Adapters
        /\ UNCHANGED <<core, data>> /\ pc' = [pc EXCEPT ![Pci] = "delete"]
    BY <1>4 DEF SweepUnlink, Unlink
  <2> HIDE DEF RegInv, StructInv, TypeOK, Ownership, Busy
  <2>3. QED
    BY <2>1, <2>2, RetireStep
<1> HIDE DEF RegInv, StructInv, TypeOK, Ownership, Busy, Live
<1>5. QED
  BY <1>1, <1>2, <1>3, <1>4, EraseStep, DevresStep DEF PciStep, Registry!Next

\* The bus implements the registry: one device per id, deleted at most once and
\* gone before the id is used again, and never left behind under rmmod alone.
THEOREM ImplementsRegistry == Spec => RefinesRegistry
<1>1. Init => Registry!Init
  BY DEF Init, Registry!Init, Slot, Has, Live
<1>2. RegInv /\ RegInv' /\ [Next]_vars => [Registry!Next]_Slot
  <2> SUFFICES ASSUME RegInv, RegInv', [Next]_vars
               PROVE  [Registry!Next]_Slot
    OBVIOUS
  <2>1. ASSUME UNCHANGED <<core, data, devices, cur, pc>> PROVE Slot' = Slot
    BY <2>1, QuietStep DEF Live
  <2>2. ASSUME NEW c \in Callers, Open(c) \/ Close(c) PROVE Slot' = Slot
    BY <2>1, <2>2 DEF Open, Close
  <2>3. ASSUME NEW i \in Foreign, ForeignAdd(i) \/ ForeignDelete(i) PROVE Slot' = Slot
    BY <2>1, <2>3 DEF ForeignAdd, ForeignDelete
  <2>4. CASE UNCHANGED vars
    BY <2>1, <2>4 DEF vars
  <2>5. QED
    BY <2>2, <2>3, <2>4, IoctlStep, PciRegistryStep DEF Next
<1>3. QED
  BY <1>1, <1>2, RegCorrect, PTL DEF Spec, RefinesRegistry, Registry!Spec
=============================================================================
