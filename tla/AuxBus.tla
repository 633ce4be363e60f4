------------------------------- MODULE AuxBus -------------------------------
(***************************************************************************)
(* The auxiliary bus of one IOB FPGA: the list of I/O controllers created   *)
(* and deleted through the FPGA's character device (lib/fbiob-auxdev.c,     *)
(* lib/fbiob-cdev.c), and the PCI probe and removal that bring both up and  *)
(* tear both down (fboss_iob_pci_main.c).                                   *)
(*                                                                          *)
(* The threads are user processes holding a file descriptor on the cdev     *)
(* (Callers) and the thread that binds and unbinds the PCI driver (Pci).    *)
(* A step is what a thread does between two points where another thread     *)
(* can see or change what it relies on: the bus mutex, the driver core's    *)
(* registration of a device, the registration of the misc device, and the   *)
(* device-managed memory that holds bus and cdev descriptor alike.          *)
(***************************************************************************)
EXTENDS Integers

CONSTANTS
  Callers,      \* processes that may open the cdev
  Pci,          \* the thread running PCI probe and remove
  Adapters,     \* heap slots kzalloc may hand out for a fbiob_aux_adapter
  Ids,          \* (name, id) pairs that identify a controller
  Foreign,      \* the ids that another FPGA of the system may use as well
  Offsets,      \* the offsets user space passes in fbiob_aux_data
  MaxOffset,    \* size of BAR 0
  BaseBusAddr,  \* bus address of BAR 0
  AddrSpace,    \* 2^32 in the code: csr_offset and iobuf_offset are __u32
  HotUnbind,    \* may the driver be unbound while the cdev is held open?
  Nobody, NoAdapter, NoData

Threads == Callers \cup {Pci}
INVALID_OFFSET == AddrSpace - 1

ASSUME ConstantsAssumption ==
  /\ Pci \notin Callers
  /\ Nobody \notin Threads
  /\ NoAdapter \notin Adapters
  /\ Foreign \subseteq Ids
  /\ AddrSpace \in Nat \ {0}
  /\ BaseBusAddr \in Nat
  /\ MaxOffset \in Nat
  /\ Offsets \subseteq 0 .. INVALID_OFFSET
  /\ HotUnbind \in BOOLEAN

AuxData == [id : Ids, csr : 0 .. INVALID_OFFSET, iobuf : 0 .. INVALID_OFFSET]
ASSUME NoDataAssumption == NoData \notin AuxData

VARIABLES
  priv,     \* devm memory: "none", "alloc", "ready" (bus initialised), "dead"
  cdev,     \* is the misc device registered?
  going,    \* has module unloading begun, so that open() is refused?
  fd,       \* a caller's descriptor; "stale" when priv is gone beneath it
  pc,       \* where a thread is; "idle" and "unbound" are outside the driver
  cur,      \* the adapter a thread is working on
  mutex,    \* owner of bus->mutex
  core,     \* an adapter's life in the driver core
  data,     \* an adapter's copy of fbiob_aux_data, translated
  devices,  \* the adapters on bus->devices
  foreign,  \* the ids registered by another FPGA
  reply,    \* what a caller's last ioctl returned
  fault     \* has a thread used memory or a mutex that is gone?

vars == <<priv, cdev, going, fd, pc, cur, mutex, core, data, devices,
          foreign, reply, fault>>
files == <<cdev, going, fd>>

CallerPC == {"idle", "add", "list", "delete", "free"}
PciPC == {"unbound", "auxbus_init", "cdev_init", "bound", "deregister",
          "destroy", "sweep", "delete", "free", "mutex_destroy", "devres"}
Replies == {"none", "ok", "EINVAL", "ENOMEM", "EEXIST", "ENXIO"}

-----------------------------------------------------------------------------
(* What one ioctl validates and what the driver core already knows.          *)

\* Mutant: an offset may equal the size of the BAR.
AuxDataValidOffByOne(d) ==
  /\ d.csr # INVALID_OFFSET
  /\ d.csr <= MaxOffset
  /\ d.iobuf # INVALID_OFFSET => d.iobuf < MaxOffset

\* Mutant: the size of the BAR is not checked for the iobuf.
AuxDataValidCsrOnly(d) ==
  /\ d.csr # INVALID_OFFSET
  /\ d.csr < MaxOffset

AuxDataValid(d) ==
  /\ d.csr # INVALID_OFFSET
  /\ d.csr < MaxOffset
  /\ d.iobuf # INVALID_OFFSET => d.iobuf < MaxOffset

BusAddr(offset) == (offset + BaseBusAddr) % AddrSpace

\* Mutant: the absent iobuf is translated too, and to 64 bits.
TranslatedAlways(d) ==
  [d EXCEPT !.csr = BusAddr(d.csr),
            !.iobuf = d.iobuf + BaseBusAddr]

Translated(d) ==
  [d EXCEPT !.csr = BusAddr(d.csr),
            !.iobuf = IF d.iobuf = INVALID_OFFSET THEN @ ELSE BusAddr(d.iobuf)]

Live(a) == core[a] = "added"

\* auxiliary_device_add names the device <module>.<name>.<id> on one bus that
\* all the FPGAs share.
IdTaken(i) == i \in foreign \/ \E a \in Adapters : Live(a) /\ data[a].id = i

\* priv, and so cdesc and the bus in it, is what the caller's fd points to.
BusUsable(c) == fd[c] = "open" /\ priv = "ready"

Return(c, r) ==
  /\ pc' = [pc EXCEPT ![c] = "idle"]
  /\ cur' = [cur EXCEPT ![c] = NoAdapter]
  /\ reply' = [reply EXCEPT ![c] = r]

\* Mutant: fbiob_auxdev_release does not free.
FreeAdapterLeaks(a) == UNCHANGED <<core, data>>

FreeAdapter(a) ==
  /\ core' = [core EXCEPT ![a] = "none"]
  /\ data' = [data EXCEPT ![a] = NoData]

\* Mutant: list_del is forgotten.
UnlinkForgets(t, a) ==
  /\ devices' = devices
  /\ cur' = [cur EXCEPT ![t] = a]

\* A thread takes an adapter off the list, to delete it.
Unlink(t, a) ==
  /\ devices' = devices \ {a}
  /\ cur' = [cur EXCEPT ![t] = a]

\* Mutant: an open descriptor does not pin the module.
UnpinnedAlways == TRUE

\* No descriptor is open, each of which raises the module's reference count.
Unpinned == \A c \in Callers : fd[c] = "closed"

-----------------------------------------------------------------------------
Init ==
  /\ priv = "none"
  /\ cdev = FALSE
  /\ going = FALSE
  /\ fd = [c \in Callers |-> "closed"]
  /\ pc = [t \in Threads |-> IF t = Pci THEN "unbound" ELSE "idle"]
  /\ cur = [t \in Threads |-> NoAdapter]
  /\ mutex = Nobody
  /\ core = [a \in Adapters |-> "none"]
  /\ data = [a \in Adapters |-> NoData]
  /\ devices = {}
  /\ foreign = {}
  /\ reply = [c \in Callers |-> "none"]
  /\ fault = FALSE

-----------------------------------------------------------------------------
(* The cdev's file operations as the VFS runs them.                          *)

Open(c) ==
  /\ fd[c] = "closed"
  /\ cdev /\ ~going
  /\ fd' = [fd EXCEPT ![c] = "open"]
  /\ UNCHANGED <<priv, cdev, going, pc, cur, mutex, core, data, devices,
                 foreign, reply, fault>>

Close(c) ==
  /\ fd[c] # "closed"
  /\ pc[c] = "idle"
  /\ fd' = [fd EXCEPT ![c] = "closed"]
  /\ reply' = [reply EXCEPT ![c] = "none"]
  /\ UNCHANGED <<priv, cdev, going, pc, cur, mutex, core, data, devices,
                 foreign, fault>>

-----------------------------------------------------------------------------
(* FBIOB_IOC_NEW_DEVICE: aux_data_validate, then fbiob_auxdev_add.           *)

NewRefused(c, d) ==
  /\ pc[c] = "idle"
  /\ BusUsable(c)
  /\ ~AuxDataValid(d)
  /\ Return(c, "EINVAL")
  /\ UNCHANGED <<priv, files, mutex, core, data, devices, foreign, fault>>

\* kzalloc, the fields, auxiliary_device_init.  A failure of either frees
\* whatever was allocated.
NewAlloc(c, d) ==
  /\ pc[c] = "idle"
  /\ BusUsable(c)
  /\ AuxDataValid(d)
  /\ \/ \E a \in Adapters :
          /\ core[a] = "none"
          /\ core' = [core EXCEPT ![a] = "init"]
          /\ data' = [data EXCEPT ![a] = Translated(d)]
          /\ pc' = [pc EXCEPT ![c] = "add"]
          /\ cur' = [cur EXCEPT ![c] = a]
          /\ reply' = [reply EXCEPT ![c] = "none"]
     \/ /\ Return(c, "ENOMEM")
        /\ UNCHANGED <<core, data>>
  /\ UNCHANGED <<priv, files, mutex, devices, foreign, fault>>

\* auxiliary_device_add, which also probes the controller's driver.  No lock
\* is held: the device is live before it is on the list.
NewAdd(c) ==
  /\ pc[c] = "add"
  /\ ~IdTaken(data[cur[c]].id)
  /\ core' = [core EXCEPT ![cur[c]] = "added"]
  /\ pc' = [pc EXCEPT ![c] = "list"]
  /\ UNCHANGED <<priv, files, cur, mutex, data, devices, foreign, reply, fault>>

\* auxiliary_device_add fails; auxiliary_device_uninit releases the adapter.
NewAddFails(c) ==
  /\ pc[c] = "add"
  /\ \/ IdTaken(data[cur[c]].id) /\ Return(c, "EEXIST")
     \/ Return(c, "ENOMEM")
  /\ FreeAdapter(cur[c])
  /\ UNCHANGED <<priv, files, mutex, devices, foreign, fault>>

NewList(c) ==
  /\ pc[c] = "list"
  /\ BusUsable(c)
  /\ mutex = Nobody
  /\ devices' = devices \cup {cur[c]}
  /\ Return(c, "ok")
  /\ UNCHANGED <<priv, files, mutex, core, data, foreign, fault>>

-----------------------------------------------------------------------------
(* FBIOB_IOC_DEL_DEVICE: fbiob_auxdev_remove.                                *)

DelFound(c, i) ==
  /\ pc[c] = "idle"
  /\ BusUsable(c)
  /\ mutex = Nobody
  /\ \E a \in devices :
       /\ data[a].id = i
       /\ Unlink(c, a)
  /\ mutex' = c
  /\ pc' = [pc EXCEPT ![c] = "delete"]
  /\ reply' = [reply EXCEPT ![c] = "none"]
  /\ UNCHANGED <<priv, files, core, data, foreign, fault>>

\* Mutant: the mutex is not released.
DelNotFoundLocked(c, i) ==
  /\ pc[c] = "idle"
  /\ BusUsable(c)
  /\ mutex = Nobody
  /\ \A a \in devices : data[a].id # i
  /\ mutex' = c
  /\ Return(c, "ENXIO")
  /\ UNCHANGED <<priv, files, core, data, devices, foreign, fault>>

DelNotFound(c, i) ==
  /\ pc[c] = "idle"
  /\ BusUsable(c)
  /\ mutex = Nobody
  /\ \A a \in devices : data[a].id # i
  /\ Return(c, "ENXIO")
  /\ UNCHANGED <<priv, files, mutex, core, data, devices, foreign, fault>>

\* auxiliary_device_delete of the unlinked adapter, by a DEL or by the sweep.
DeviceDelete(t) ==
  /\ pc[t] = "delete"
  /\ core' = [core EXCEPT ![cur[t]] = "deleted"]
  /\ pc' = [pc EXCEPT ![t] = "free"]
  /\ UNCHANGED <<priv, files, cur, mutex, data, devices, foreign, reply, fault>>

\* auxiliary_device_uninit: fbiob_auxdev_release frees the adapter.  A DEL
\* then unlocks and returns.
DelFree(c) ==
  /\ pc[c] = "free"
  /\ FreeAdapter(cur[c])
  /\ mutex' = IF BusUsable(c) THEN Nobody ELSE mutex
  /\ fault' = (fault \/ ~BusUsable(c))
  /\ Return(c, "ok")
  /\ UNCHANGED <<priv, files, devices, foreign>>

\* An ioctl that dereferences freed memory or a destroyed mutex.  Whatever it
\* then does, the driver loses track of the adapter it was working on.
TouchFreed(c) ==
  /\ fd[c] # "closed"
  /\ pc[c] \in {"idle", "list"}
  /\ ~BusUsable(c)
  /\ fault' = TRUE
  /\ \E r \in {"ok", "EINVAL", "ENXIO"} : Return(c, r)
  /\ UNCHANGED <<priv, files, mutex, core, data, devices, foreign>>

-----------------------------------------------------------------------------
(* fbiob_pci_probe and fbiob_pci_remove.                                     *)

ProbeBegin ==
  /\ pc[Pci] = "unbound"
  /\ priv' = "alloc"
  /\ going' = FALSE
  /\ pc' = [pc EXCEPT ![Pci] = "auxbus_init"]
  /\ UNCHANGED <<cdev, fd, cur, mutex, core, data, devices, foreign, reply, fault>>

AuxbusInit ==
  /\ pc[Pci] = "auxbus_init"
  /\ priv' = "ready"
  /\ devices' = {}
  /\ mutex' = Nobody
  /\ pc' = [pc EXCEPT ![Pci] = "cdev_init"]
  /\ UNCHANGED <<files, cur, core, data, foreign, reply, fault>>

\* misc_register succeeds, or the error path destroys the bus.
CdevInit ==
  /\ pc[Pci] = "cdev_init"
  /\ \/ /\ cdev' = TRUE
        /\ pc' = [pc EXCEPT ![Pci] = "bound"]
     \/ /\ cdev' = cdev
        /\ pc' = [pc EXCEPT ![Pci] = "destroy"]
  /\ UNCHANGED <<priv, going, fd, cur, mutex, core, data, devices, foreign,
                 reply, fault>>

\* rmmod waits until the module is not pinned (fops.owner is THIS_MODULE);
\* unbinding through sysfs does not.
RemoveBegin ==
  /\ pc[Pci] = "bound"
  /\ \/ /\ Unpinned
        /\ going' = TRUE
     \/ /\ HotUnbind
        /\ going' = going
  /\ pc' = [pc EXCEPT ![Pci] = "deregister"]
  /\ UNCHANGED <<priv, cdev, fd, cur, mutex, core, data, devices, foreign,
                 reply, fault>>

CdevDestroy ==
  /\ pc[Pci] = "deregister"
  /\ cdev' = FALSE
  /\ pc' = [pc EXCEPT ![Pci] = "destroy"]
  /\ UNCHANGED <<priv, going, fd, cur, mutex, core, data, devices, foreign,
                 reply, fault>>

AuxbusDestroyBegin ==
  /\ pc[Pci] = "destroy"
  /\ mutex = Nobody
  /\ mutex' = Pci
  /\ pc' = [pc EXCEPT ![Pci] = "sweep"]
  /\ UNCHANGED <<priv, files, cur, core, data, devices, foreign, reply, fault>>

SweepUnlink ==
  /\ pc[Pci] = "sweep"
  /\ \E a \in devices : Unlink(Pci, a)
  /\ pc' = [pc EXCEPT ![Pci] = "delete"]
  /\ UNCHANGED <<priv, files, mutex, core, data, foreign, reply, fault>>

SweepFree ==
  /\ pc[Pci] = "free"
  /\ FreeAdapter(cur[Pci])
  /\ cur' = [cur EXCEPT ![Pci] = NoAdapter]
  /\ pc' = [pc EXCEPT ![Pci] = "sweep"]
  /\ UNCHANGED <<priv, files, mutex, devices, foreign, reply, fault>>

SweepDone ==
  /\ pc[Pci] = "sweep"
  /\ devices = {}
  /\ mutex' = Nobody
  /\ pc' = [pc EXCEPT ![Pci] = "mutex_destroy"]
  /\ UNCHANGED <<priv, files, cur, core, data, devices, foreign, reply, fault>>

AuxbusDestroyEnd ==
  /\ pc[Pci] = "mutex_destroy"
  /\ priv' = "dead"
  /\ fault' = (fault \/ mutex # Nobody)
  /\ pc' = [pc EXCEPT ![Pci] = "devres"]
  /\ UNCHANGED <<files, mutex, cur, core, data, devices, foreign, reply>>

\* The driver core releases devm memory: descriptors still open now dangle,
\* and the list head is gone with whatever was still linked to it.
DevresRelease ==
  /\ pc[Pci] = "devres"
  /\ priv' = "none"
  /\ devices' = {}
  /\ fd' = [c \in Callers |-> IF fd[c] = "open" THEN "stale" ELSE fd[c]]
  /\ pc' = [pc EXCEPT ![Pci] = "unbound"]
  /\ UNCHANGED <<cdev, going, cur, mutex, core, data, foreign, reply, fault>>

-----------------------------------------------------------------------------
\* The other FPGAs of the system create and delete controllers of their own.
ForeignAdd(i) ==
  /\ ~IdTaken(i)
  /\ foreign' = foreign \cup {i}
  /\ UNCHANGED <<priv, files, pc, cur, mutex, core, data, devices, reply, fault>>

ForeignDelete(i) ==
  /\ i \in foreign
  /\ foreign' = foreign \ {i}
  /\ UNCHANGED <<priv, files, pc, cur, mutex, core, data, devices, reply, fault>>

Request == [id : Ids, csr : Offsets, iobuf : Offsets]

Ioctl(c) ==
  \/ \E d \in Request : NewRefused(c, d) \/ NewAlloc(c, d)
  \/ NewAdd(c) \/ NewAddFails(c) \/ NewList(c)
  \/ \E i \in Ids : DelFound(c, i) \/ DelNotFound(c, i)
  \/ DeviceDelete(c) \/ DelFree(c)
  \/ TouchFreed(c)

PciStep ==
  \/ ProbeBegin \/ AuxbusInit \/ CdevInit \/ RemoveBegin \/ CdevDestroy
  \/ AuxbusDestroyBegin \/ SweepUnlink \/ DeviceDelete(Pci) \/ SweepFree
  \/ SweepDone \/ AuxbusDestroyEnd \/ DevresRelease

Next ==
  \/ \E c \in Callers : Open(c) \/ Close(c) \/ Ioctl(c)
  \/ PciStep
  \/ \E i \in Foreign : ForeignAdd(i) \/ ForeignDelete(i)

Spec == Init /\ [][Next]_vars

-----------------------------------------------------------------------------
(* Properties.                                                               *)

\* Every variable has its type, a thread works on an adapter exactly while it
\* is inside an operation on one, and an adapter has data while it is in use.
TypeOK ==
  /\ priv \in {"none", "alloc", "ready", "dead"}
  /\ cdev \in BOOLEAN
  /\ going \in BOOLEAN
  /\ fd \in [Callers -> {"closed", "open", "stale"}]
  /\ pc \in [Threads -> CallerPC \cup PciPC]
  /\ pc[Pci] \in PciPC
  /\ \A c \in Callers : pc[c] \in CallerPC
  /\ cur \in [Threads -> Adapters \cup {NoAdapter}]
  /\ mutex \in Threads \cup {Nobody}
  /\ core \in [Adapters -> {"none", "init", "added", "deleted"}]
  /\ data \in [Adapters -> AuxData \cup {NoData}]
  /\ devices \subseteq Adapters
  /\ foreign \subseteq Foreign
  /\ reply \in [Callers -> Replies]
  /\ fault \in BOOLEAN

\* When the driver goes away only through rmmod, no ioctl ever reaches the bus
\* before fbiob_auxbus_init or after fbiob_auxbus_destroy, and the bus mutex is
\* never destroyed while it is held.
NoUseAfterFree == ~HotUnbind => ~fault

\* The threads responsible for an adapter.
Holders(a) == {t \in Threads : cur[t] = a}

\* Every adapter is accounted for: it is on the bus list, or exactly one thread
\* is in the middle of creating or deleting it; one on the list is held by no
\* thread, and a free one by nobody.  Nothing leaks and nothing is freed twice.
Accounted ==
  ~HotUnbind =>
    \A a \in Adapters :
      IF core[a] = "none" \/ a \in devices
      THEN Holders(a) = {}
      ELSE \E t \in Threads : Holders(a) = {t}

\* When fbiob_pci_remove, or the error path of fbiob_pci_probe, has run, no
\* controller of the FPGA is left in the driver core and no adapter in memory.
NothingSurvivesRemove ==
  ~HotUnbind /\ pc[Pci] \in {"mutex_destroy", "devres", "unbound"} =>
    \A a \in Adapters : core[a] = "none"

\* What a controller driver claims are low words of addresses of BAR 0, and the
\* addresses themselves if the BAR ends at 2^32 at the latest.  A BAR above is
\* not refused: the high words are lost in the __u32 fields, and the driver
\* claims memory that is not the FPGA's.  An iobuf of INVALID_OFFSET is no claim.
Bar == BaseBusAddr .. (BaseBusAddr + MaxOffset - 1)
Claims(d) == {d.csr} \cup ({d.iobuf} \ {INVALID_OFFSET})
AddressesInBar ==
  \A a \in Adapters : core[a] # "none" =>
    \A addr \in Claims(data[a]) :
      \E b \in Bar : addr = b % AddrSpace /\ (addr \in Bar <=> b \in 0 .. INVALID_OFFSET)

\* The bus implements the abstract registry of AuxRegistry: the life of each id
\* as the driver core, the list and the thread working on it show it.
Has(a, i) == Live(a) /\ data[a].id = i
InHand(a, where) == \E t \in Threads : cur[t] = a /\ pc[t] = where
Stage(a) ==
  CASE a \in devices        -> "present"
    [] InHand(a, "list")    -> "appearing"
    [] InHand(a, "delete")  -> "vanishing"
    [] OTHER                -> "orphan"
Slot ==
  [i \in Ids |-> IF \E a \in Adapters : Has(a, i)
                THEN Stage(CHOOSE a \in Adapters : Has(a, i)) ELSE "absent"]
Registry == INSTANCE AuxRegistry WITH slot <- Slot, MayOrphan <- HotUnbind
RefinesRegistry == Registry!Spec

\* Every ioctl returns and every removal completes, if each thread inside the
\* driver keeps running and the bus mutex is handed to each waiter in the end.
CallsReturn ==
  /\ \A c \in Callers : pc[c] # "idle" ~> pc[c] = "idle"
  /\ pc[Pci] = "deregister" ~> pc[Pci] = "unbound"

Finish(c) == NewAdd(c) \/ NewAddFails(c) \/ DeviceDelete(c) \/ DelFree(c)
Remove ==
  \/ AuxbusInit \/ CdevInit \/ CdevDestroy \/ SweepUnlink \/ DeviceDelete(Pci)
  \/ SweepFree \/ SweepDone \/ AuxbusDestroyEnd \/ DevresRelease

FairSpec ==
  /\ Spec
  /\ \A c \in Callers : WF_vars(Finish(c)) /\ SF_vars(NewList(c))
  /\ WF_vars(Remove)
  /\ SF_vars(AuxbusDestroyBegin)
=============================================================================
