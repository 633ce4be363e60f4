---------------------------- MODULE FbcpldProofs ----------------------------
(***************************************************************************)
(* Proofs about FbcpldCdev, for every set of processes, names and batches,  *)
(* and every size of entries[].                                            *)
(***************************************************************************)
EXTENDS FbcpldCdev, TLAPS

(***************************************************************************)
(* Types, and what the life of the driver and of a descriptor allow.  All   *)
(* of it holds for every use: while calls overlap, and when the CPLD goes    *)
(* away under open descriptors.                                             *)
(***************************************************************************)

Creating == {"create", "create_file"}

ThreadTypes ==
  /\ cdesc \in {"none", "ready"} /\ cdev \in BOOLEAN /\ going \in BOOLEAN
  /\ fd \in [Clients -> {"closed", "open", "stale"}]
  /\ pc \in [Threads -> {"idle", "create", "create_file", "remove", "unbound",
                         "bound", "cleanup", "deregister", "free"}]
  /\ pc[Drv] \in {"unbound", "bound", "cleanup", "remove", "deregister", "free"}
  /\ \A c \in Clients : pc[c] \in {"idle", "create", "create_file", "remove"}
  /\ lock \in Clients \cup {Nobody}

CallTypes ==
  /\ use \in Uses
  /\ todo \in [Clients -> Seq(Cfg)]
  /\ ret \in [Clients -> {"ok", "EINVAL", "ENOSPC", "EEXIST", "ENOMEM"}]

TableTypes ==
  /\ entries \in [Slots -> Cfg \cup {Unset}]
  /\ num \in 0 .. MaxAttrs
  /\ files \in [Names -> Slots \cup {Unset}]

RangeTypes ==
  /\ from \in [Threads -> 0 .. MaxAttrs] /\ to \in [Threads -> 0 .. MaxAttrs]
  /\ \A t \in Threads : from[t] <= to[t]

Types == ThreadTypes /\ CallTypes /\ TableTypes /\ RangeTypes

\* A descriptor is open only over a live cdev, a call is made through one, and
\* the lock is held by the one that creates entries.
Life ==
  /\ cdesc = "none" <=> pc[Drv] = "unbound"
  /\ cdev => pc[Drv] \notin {"free", "unbound"}
  /\ \A c \in Clients : fd[c] = "open" => cdesc = "ready"
  /\ \A c \in Clients : pc[c] # "idle" => fd[c] # "closed"
  /\ \A c \in Clients : lock = c <=> pc[c] \in Creating /\ fd[c] = "open"

\* The listed entries are configured and have different names; the one that is
\* to be listed next has a name of its own.
Listed ==
  /\ \A s \in Slots : s < num => entries[s] \in Cfg
  /\ UniqueNames
  /\ \A c \in Clients : pc[c] = "create_file" /\ fd[c] = "open" =>
       /\ num < MaxAttrs
       /\ todo[c] # <<>> /\ entries[num] = Head(todo[c])
       /\ \A s \in Slots : s < num => entries[s].name # entries[num].name

\* One that was stopped between entry and file has something left to do.
Asking == \A c \in Clients : pc[c] = "create_file" => todo[c] # <<>>

Inv == Types /\ Life /\ Listed /\ Asking

LEMMA Constants ==
  /\ Drv \notin Clients /\ Nobody \notin Clients /\ Nobody # Drv
  /\ Unset \notin Cfg /\ Unset \notin Slots
  /\ MaxAttrs \in Nat /\ MaxAttrs > 0
  /\ \A u \in Uses : \A r \in u.batches : r \in Seq(Cfg)
  /\ <<>> \in Seq(Cfg)
BY ConstantsAssumption DEF Threads

LEMMA InvInit == Init => Inv
<1> SUFFICES ASSUME Init PROVE Inv
  OBVIOUS
<1> USE Constants DEF Init, Threads, Slots
<1>1. Types
  <2>1. ThreadTypes /\ CallTypes
    <3>1. ThreadTypes
      BY DEF ThreadTypes
    <3>2. CallTypes
      BY DEF CallTypes
    <3>3. QED
      BY <3>1, <3>2
  <2>2. TableTypes /\ RangeTypes
    BY DEF TableTypes, RangeTypes
  <2>3. QED
    BY <2>1, <2>2 DEF Types
<1>2. Life
  BY DEF Life, Creating
<1>3. Listed /\ Asking
  BY DEF Listed, Asking, UniqueNames
<1>4. QED
  BY <1>1, <1>2, <1>3 DEF Inv

\* The list stays as it is, and nobody comes to stand between entry and file.
LEMMA ListedKept ==
  ASSUME Listed, Asking, num' = num, entries' = entries,
         \A c \in Clients : pc'[c] = "create_file" =>
           pc[c] = "create_file" /\ todo'[c] = todo[c],
         \A c \in Clients : pc'[c] = "create_file" /\ fd'[c] = "open" => fd[c] = "open"
  PROVE  (Listed /\ Asking)'
BY DEF Listed, Asking, UniqueNames

\* What opening, closing and refused calls do.
LEMMA FileStep ==
  ASSUME Inv, UNCHANGED use, NEW c \in Clients,
         Open(c) \/ Close(c) \/ CreateRefused(c)
  PROVE  Inv'
<1> USE Constants DEF Inv, Types, Open, Close, CreateRefused, binding
<1>1. (ThreadTypes /\ CallTypes)'
  BY DEF ThreadTypes, CallTypes
<1>2. (TableTypes /\ RangeTypes)'
  BY DEF TableTypes, RangeTypes
<1>3. Life'
  BY DEF Life, Creating, ThreadTypes
<1>4. (Listed /\ Asking)'
  BY ListedKept DEF Life, ThreadTypes
<1>5. QED
  BY <1>1, <1>2, <1>3, <1>4

LEMMA CreateStep ==
  ASSUME Inv, UNCHANGED use, NEW c \in Clients, Create(c), ~CreateRefused(c)
  PROVE  Inv'
<1> USE Constants DEF Inv, Types, Threads, Goto, binding
<1>1. ASSUME NEW r \in use.batches, CreateBegin(c, r) PROVE Inv'
  <2>1. r \in Seq(Cfg)
    BY <1>1 DEF CallTypes
  <2>2. (ThreadTypes /\ CallTypes)'
    BY <1>1, <2>1 DEF CreateBegin, ThreadTypes, CallTypes
  <2>3. (TableTypes /\ RangeTypes)'
    BY <1>1 DEF CreateBegin, TableTypes, RangeTypes
  <2>4. Life'
    BY <1>1 DEF Life, Creating, CreateBegin, Usable, ThreadTypes
  <2>5. (Listed /\ Asking)'
    BY <1>1, ListedKept DEF CreateBegin, ThreadTypes, CallTypes
  <2>6. QED
    BY <2>2, <2>3, <2>4, <2>5
<1>2. CASE PassOver(c) \/ NoSpace(c)
  <2>1. todo[c] \in Seq(Cfg) /\ todo[c] # <<>> /\ Tail(todo[c]) \in Seq(Cfg)
    BY <1>2 DEF PassOver, NoSpace, WillAdd, CallTypes
  <2>2. /\ pc[c] = "create" /\ UNCHANGED <<cdesc, cdev, going, fd, pc, lock>>
        /\ UNCHANGED <<entries, num, files, from, to>>
        /\ \/ \E e \in {"ok", "EINVAL"} : NextAttr(c, e)
           \/ GiveUp(c, "ENOSPC")
    BY <1>2 DEF PassOver, NoSpace, WillAdd
  <2>3. (ThreadTypes /\ CallTypes)'
    <3>1. ThreadTypes'
      BY <2>2 DEF ThreadTypes
    <3>2. CallTypes'
      BY <2>1, <2>2 DEF CallTypes, NextAttr, GiveUp
    <3>3. QED
      BY <3>1, <3>2
  <2>4. (TableTypes /\ RangeTypes)'
    BY <2>2 DEF TableTypes, RangeTypes
  <2>5. Life'
    BY <2>2 DEF Life
  <2>6. (Listed /\ Asking)'
    BY <2>2, ListedKept DEF NextAttr, GiveUp, CallTypes
  <2>7. QED
    BY <2>3, <2>4, <2>5, <2>6
<1>3. CASE InitEntry(c)
  <2>1. /\ todo[c] # <<>> /\ Head(todo[c]) \in Cfg
        /\ num \in Slots /\ num < MaxAttrs
        /\ entries' = [entries EXCEPT ![num] = Head(todo[c])]
        /\ pc' = [pc EXCEPT ![c] = "create_file"] /\ pc[c] = "create" /\ fd[c] = "open"
        /\ \A s \in Slots : s < num => entries[s].name # Head(todo[c]).name
        /\ UNCHANGED <<cdesc, cdev, going, fd, lock, todo, ret, num, files, from, to>>
    BY <1>3 DEF InitEntry, WillAdd, Full, Slots, Asked, EntryExists, Usable, CallTypes,
                TableTypes
  <2>2. (ThreadTypes /\ CallTypes)'
    BY <2>1 DEF ThreadTypes, CallTypes
  <2>3. (TableTypes /\ RangeTypes)'
    BY <2>1 DEF TableTypes, RangeTypes
  <2>4. Life'
    BY <2>1 DEF Life, Creating, ThreadTypes
  <2>5. \A d \in Clients : d # c => ~(pc[d] = "create_file" /\ fd[d] = "open")
    BY <2>1 DEF Life, Creating
  <2>6. \A s \in Slots : s < num => entries'[s] = entries[s]
    BY <2>1 DEF Slots, TableTypes
  <2>7. (Listed /\ Asking)'
    BY <2>1, <2>5, <2>6 DEF Listed, Asking, UniqueNames, ThreadTypes, TableTypes
  <2>8. QED
    BY <2>2, <2>3, <2>4, <2>7
<1>4. CASE CreateFile(c)
  <2>1. /\ todo[c] # <<>> /\ todo[c] \in Seq(Cfg) /\ Tail(todo[c]) \in Seq(Cfg)
        /\ fd[c] = "open" /\ pc[c] = "create_file" /\ num < MaxAttrs /\ num \in Slots
        /\ num' = num + 1 /\ num' \in 0 .. MaxAttrs
    BY <1>4 DEF CreateFile, Listed, Usable, Slots, CallTypes, TableTypes
  <2>2. (ThreadTypes /\ CallTypes)'
    BY <1>4, <2>1 DEF CreateFile, NextAttr, ThreadTypes, CallTypes
  <2>3. (TableTypes /\ RangeTypes)'
    BY <1>4, <2>1 DEF CreateFile, TableTypes, RangeTypes
  <2>4. Life'
    BY <1>4 DEF Life, Creating, CreateFile, ThreadTypes
  <2>5. \A d \in Clients : d # c => ~(pc[d] = "create_file" /\ fd[d] = "open")
    BY <2>1 DEF Life, Creating
  <2>6. /\ entries' = entries /\ entries[num] \in Cfg
        /\ \A d \in Clients : pc'[d] = "create_file" => d # c /\ pc[d] = "create_file"
                              /\ todo'[d] = todo[d] /\ fd'[d] = fd[d]
    BY <1>4, <2>1 DEF CreateFile, NextAttr, Listed, ThreadTypes, CallTypes, Asked
  <2>7. \A s \in Slots : s < num + 1 => s < num \/ s = num
    BY DEF Slots, TableTypes
  <2>8. (Listed /\ Asking)'
    BY <2>1, <2>5, <2>6, <2>7 DEF Listed, Asking, UniqueNames
  <2>9. QED
    BY <2>2, <2>3, <2>4, <2>8
<1>5. CASE CreateFileFails(c) \/ CreateEnd(c)
  <2>1. (ThreadTypes /\ CallTypes)'
    <3>1. ThreadTypes'
      BY <1>5 DEF CreateFileFails, CreateEnd, ThreadTypes
    <3>2. CallTypes'
      BY <1>5 DEF CreateFileFails, CreateEnd, GiveUp, CallTypes
    <3>3. QED
      BY <3>1, <3>2
  <2>2. (TableTypes /\ RangeTypes)'
    BY <1>5 DEF CreateFileFails, CreateEnd, TableTypes, RangeTypes
  <2>3. Life'
    BY <1>5 DEF Life, Creating, CreateFileFails, CreateEnd, Usable, ThreadTypes
  <2>4. (Listed /\ Asking)'
    BY <1>5, ListedKept DEF CreateFileFails, CreateEnd, GiveUp, ThreadTypes, CallTypes
  <2>5. QED
    BY <2>1, <2>2, <2>3, <2>4
<1>6. QED
  BY <1>1, <1>2, <1>3, <1>4, <1>5 DEF Create

\* The count is taken while nobody creates.
LEMMA TakeStep ==
  ASSUME Inv, UNCHANGED use,
         \/ CleanupTake
         \/ \E c \in Clients : DestroyBegin(c)
  PROVE  Inv'
<1> USE Constants DEF Inv, Types, Threads, Goto, binding, TakeAll
<1>1. (ThreadTypes /\ CallTypes)'
  <2>1. ThreadTypes'
    BY DEF CleanupTake, DestroyBegin, ThreadTypes
  <2>2. CallTypes'
    BY DEF CleanupTake, DestroyBegin, CallTypes
  <2>3. QED
    BY <2>1, <2>2
<1>2. PICK t \in Threads :
        /\ from' = [from EXCEPT ![t] = 0] /\ to' = [to EXCEPT ![t] = num]
        /\ num' = 0 /\ UNCHANGED <<entries, files, todo, fd>>
        /\ \A c \in Clients : ~(pc'[c] = "create_file" /\ fd'[c] = "open")
        /\ \A c \in Clients : pc'[c] = "create_file" => pc[c] = "create_file"
  BY DEF CleanupTake, DestroyBegin, ThreadTypes, Life, Creating
<1>3. (TableTypes /\ RangeTypes)'
  BY <1>2 DEF TableTypes, RangeTypes
<1>4. Life'
  BY DEF Life, Creating, CleanupTake, DestroyBegin, Usable, ThreadTypes
<1>5. (Listed /\ Asking)'
  BY <1>2 DEF Listed, Asking, UniqueNames, Slots
<1>6. QED
  BY <1>1, <1>3, <1>4, <1>5

LEMMA RemoveStep ==
  ASSUME Inv, UNCHANGED use, NEW t \in Threads, RemoveFile(t) \/ DestroyEnd(t)
  PROVE  Inv'
<1> USE Constants DEF Inv, Types, Threads, Goto, binding
<1>1. (ThreadTypes /\ CallTypes)'
  <2>1. ThreadTypes'
    <3>1. CASE t = Drv
      BY <3>1 DEF RemoveFile, DestroyEnd, ThreadTypes
    <3>2. CASE t \in Clients
      BY <3>2 DEF RemoveFile, DestroyEnd, ThreadTypes
    <3>3. QED
      BY <3>1, <3>2
  <2>2. CallTypes'
    BY DEF RemoveFile, DestroyEnd, CallTypes
  <2>3. QED
    BY <2>1, <2>2
<1>2. TableTypes'
  BY DEF RemoveFile, DestroyEnd, TableTypes
<1>3. RangeTypes'
  BY DEF RemoveFile, DestroyEnd, RangeTypes
<1>4. Life'
  BY DEF Life, Creating, RemoveFile, DestroyEnd, ThreadTypes
<1>5. (Listed /\ Asking)'
  BY ListedKept DEF RemoveFile, DestroyEnd, ThreadTypes
<1>6. QED
  BY <1>1, <1>2, <1>3, <1>4, <1>5

LEMMA TouchStep ==
  ASSUME Inv, UNCHANGED use, NEW c \in Clients, TouchFreed(c)
  PROVE  Inv'
<1> USE Constants DEF Inv, Types, Threads, Goto, binding, TouchFreed
<1>1. fd[c] = "stale"
  BY DEF Usable, Life, ThreadTypes
<1>2. (ThreadTypes /\ CallTypes)'
  BY DEF ThreadTypes, CallTypes
<1>3. (TableTypes /\ RangeTypes)'
  BY DEF TableTypes, RangeTypes
<1>4. Life'
  BY <1>1 DEF Life, Creating, ThreadTypes
<1>5. (Listed /\ Asking)'
  BY ListedKept DEF ThreadTypes, CallTypes
<1>6. QED
  BY <1>2, <1>3, <1>4, <1>5

LEMMA BindingStep ==
  ASSUME Inv, UNCHANGED use, Probe \/ CleanupBegin \/ Deregister \/ Free
  PROVE  Inv'
<1> USE Constants DEF Inv, Types, Threads, Goto
<1>1. CASE Probe \/ Free
  <2>1. /\ \A c \in Clients : fd'[c] # "open"
        /\ num' = 0 /\ lock' = Nobody /\ todo' = todo /\ \A c \in Clients : pc'[c] = pc[c]
        /\ entries' = [s \in Slots |-> Unset] /\ UNCHANGED <<ret, files, from, to>>
    BY <1>1 DEF Probe, Free, Life, ThreadTypes
  <2>2. ThreadTypes'
    BY <1>1 DEF Probe, Free, ThreadTypes
  <2>3. (CallTypes /\ TableTypes /\ RangeTypes)'
    BY <2>1 DEF CallTypes, TableTypes, RangeTypes
  <2>4. Life'
    BY <1>1, <2>1 DEF Life, Creating, Probe, Free, ThreadTypes
  <2>5. (Listed /\ Asking)'
    BY <2>1 DEF Listed, Asking, UniqueNames, Slots
  <2>6. QED
    BY <2>2, <2>3, <2>4, <2>5
<1>2. CASE CleanupBegin \/ Deregister
  <2>1. (ThreadTypes /\ CallTypes)'
    BY <1>2 DEF CleanupBegin, Deregister, ThreadTypes, CallTypes
  <2>2. (TableTypes /\ RangeTypes)'
    BY <1>2 DEF CleanupBegin, Deregister, TableTypes, RangeTypes
  <2>3. Life'
    BY <1>2 DEF Life, Creating, CleanupBegin, Deregister, ThreadTypes
  <2>4. (Listed /\ Asking)'
    BY <1>2, ListedKept DEF CleanupBegin, Deregister, ThreadTypes
  <2>5. QED
    BY <2>1, <2>2, <2>3, <2>4
<1>3. QED
  BY <1>1, <1>2

LEMMA InvStep == Inv /\ [Next]_vars => Inv'
<1> SUFFICES ASSUME Inv, [Next]_vars PROVE Inv'
  OBVIOUS
<1>1. CASE UNCHANGED vars
  BY <1>1 DEF vars, Inv, Types, ThreadTypes, CallTypes, TableTypes, RangeTypes, Life,
              Listed, Asking, UniqueNames
<1>2. CASE Next
  <2>1. UNCHANGED use
    BY <1>2 DEF Next
  <2>2. ASSUME NEW c \in Clients, Open(c) \/ Close(c) \/ Ioctl(c) PROVE Inv'
    BY <2>1, <2>2, FileStep, CreateStep, TakeStep, RemoveStep, TouchStep
    DEF Ioctl, Create, Threads
  <2>3. CASE Driver
    BY <2>1, <2>3, TakeStep, RemoveStep, BindingStep DEF Driver, Threads
  <2>4. QED
    BY <1>2, <2>2, <2>3 DEF Next
<1>3. QED
  BY <1>1, <1>2

LEMMA InvCorrect == Spec => []Inv
BY InvInit, InvStep, PTL DEF Spec

\* Every variable keeps its type, and who adds entries holds the lock.
THEOREM TypeCorrect == Spec => []TypeOK
<1>1. Inv => TypeOK
  <2> SUFFICES ASSUME Inv PROVE TypeOK
    OBVIOUS
  <2>1. DOMAIN todo = Clients /\ \A c \in Clients : \A k \in DOMAIN todo[c] : todo[c][k] \in Cfg
    BY DEF Inv, Types, CallTypes
  <2>2. \A c \in Clients : pc[c] \in {"create", "create_file"} /\ Usable(c) => lock = c
    BY DEF Inv, Life, Creating, Usable
  <2>3. QED
    BY <2>1, <2>2 DEF Inv, Types, ThreadTypes, CallTypes, TableTypes, RangeTypes, Asking,
                      TypeOK
<1>2. QED
  BY <1>1, InvCorrect, PTL

\* No two listed entries have the same name, however calls overlap, and also when
\* the CPLD goes away in between.
THEOREM NamesAreUnique == Spec => []UniqueNames
<1>1. Inv => UniqueNames
  BY DEF Inv, Listed
<1>2. QED
  BY <1>1, InvCorrect, PTL

(***************************************************************************)
(* The files, where no DESTROY_ALL overlaps with another ioctl and the      *)
(* driver is unbound by rmmod only.  The lock does not order a removal      *)
(* against the calls that follow it, so what must be known is who can be     *)
(* about: whoever removes files is alone, and rmmod has waited for every     *)
(* descriptor to be closed.                                                *)
(***************************************************************************)

Unbinding == pc[Drv] \in {"cleanup", "remove", "deregister", "free", "unbound"}
Gone == pc[Drv] \in {"deregister", "free", "unbound"}

Alone ==
  /\ \A c \in Clients : fd[c] # "stale"
  /\ Unbinding => \A c \in Clients : fd[c] = "closed"
  /\ pc[Drv] \in {"cleanup", "remove", "deregister"} => going
  /\ \A c, d \in Clients : pc[c] = "remove" /\ c # d => pc[d] = "idle"

Followed ==
  /\ \A t \in Threads : pc[t] = "remove" => num = 0
  /\ Gone => num = 0 /\ \A n \in Names : files[n] = Unset
  /\ \A s \in Slots : s < num => files[entries[s].name] = s
  /\ \A n \in Names : files[n] # Unset =>
       /\ files[n] < num \/ Doomed(files[n])
       /\ entries[files[n]].name = n

FilesInv == Inv /\ (Calm => Alone /\ Followed)

LEMMA FilesInit == Init => FilesInv
<1> SUFFICES ASSUME Init PROVE FilesInv
  OBVIOUS
<1> USE Constants DEF Init, Threads
<1>1. Alone
  BY DEF Alone, Unbinding
<1>2. Followed
  BY DEF Followed, Gone, Slots
<1>3. QED
  BY <1>1, <1>2, InvInit DEF FilesInv

\* A step that leaves the table, the files and the removals alone.
LEMMA FollowedKept ==
  ASSUME Followed, UNCHANGED <<entries, num, files, from, to>>,
         \A t \in Threads : pc'[t] = "remove" <=> pc[t] = "remove",
         Gone' => Gone
  PROVE  Followed'
BY DEF Followed, Doomed

\* A step after which nobody removes, and the list and the files agree.
LEMMA FollowedAnew ==
  ASSUME ~Gone', \A t \in Threads : pc'[t] # "remove",
         \A s \in Slots : s < num' => files'[entries'[s].name] = s,
         \A n \in Names : files'[n] # Unset => files'[n] < num' /\ entries'[files'[n]].name = n
  PROVE  Followed'
BY DEF Followed, Doomed

LEMMA FilesFileStep ==
  ASSUME Inv, Calm, Alone, Followed, UNCHANGED use, NEW c \in Clients,
         Open(c) \/ Close(c) \/ CreateRefused(c)
  PROVE  (Alone /\ Followed)'
<1> USE Constants DEF Inv, Types, Open, Close, CreateRefused, binding
<1>1. Alone'
  BY DEF Alone, Unbinding, Life, ThreadTypes
<1>2. Followed'
  BY FollowedKept DEF Gone
<1>3. QED
  BY <1>1, <1>2

\* Whoever creates does so while nobody removes.
LEMMA FilesCreateStep ==
  ASSUME Inv, Calm, Alone, Followed, UNCHANGED use, NEW c \in Clients,
         Create(c), ~CreateRefused(c)
  PROVE  (Alone /\ Followed)'
<1> USE Constants DEF Inv, Types, Goto, binding
<1>1. /\ fd[c] = "open" /\ ~Unbinding
      /\ \A d \in Clients : pc[d] # "remove"
      /\ \A t \in Threads : pc[t] # "remove"
  <2>1. Usable(c) /\ (pc[c] = "idle" => \A d \in Clients : pc[d] # "remove")
        /\ pc[c] # "remove"
    BY DEF Create, CreateBegin, PassOver, NoSpace, InitEntry, WillAdd, CreateFile,
           CreateFileFails, CreateEnd, Calm
  <2>2. QED
    BY <2>1 DEF Usable, Alone, Unbinding, Threads, ThreadTypes
<1>2. UNCHANGED <<cdesc, cdev, going, fd, from, to>> /\ pc'[Drv] = pc[Drv]
  BY DEF Create, CreateBegin, PassOver, NoSpace, InitEntry, CreateFile,
         CreateFileFails, CreateEnd, ThreadTypes, Threads
<1>3. \A t \in Threads : pc'[t] # "remove"
  BY <1>1 DEF Create, CreateBegin, PassOver, NoSpace, InitEntry, CreateFile,
         CreateFileFails, CreateEnd, ThreadTypes, Threads
<1>4. Alone'
  BY <1>1, <1>2, <1>3 DEF Alone, Unbinding, Threads
<1>5. ASSUME UNCHANGED <<entries, num, files>> PROVE Followed'
  BY <1>1, <1>2, <1>3, <1>5, FollowedKept DEF Gone
<1>6. CASE InitEntry(c)
  <2>1. /\ \A s \in Slots : s < num => entries'[s] = entries[s]
        /\ UNCHANGED <<num, files>>
    BY <1>6 DEF InitEntry, Slots, TableTypes
  <2>2. \A n \in Names : files[n] # Unset => files[n] < num /\ files[n] \in Slots
    BY <1>1 DEF Followed, Doomed, TableTypes
  <2>3. \A n \in Names : files'[n] # Unset => files'[n] < num' /\ entries'[files'[n]].name = n
    BY <2>1, <2>2 DEF Followed
  <2>4. \A s \in Slots : s < num' => files'[entries'[s].name] = s
    BY <2>1 DEF Followed
  <2>5. ~Gone'
    BY <1>1, <1>2 DEF Gone, Unbinding
  <2>6. QED
    BY <1>3, <1>4, <2>3, <2>4, <2>5, FollowedAnew
<1>7. CASE CreateFile(c)
  <2>1. /\ files[entries[num].name] = Unset /\ entries[num].name \in Names
        /\ files' = [files EXCEPT ![entries[num].name] = num]
        /\ num' = num + 1 /\ num \in Slots /\ entries' = entries
    <3>1. todo[c] \in Seq(Cfg) /\ todo[c] # <<>> /\ entries[num] = Head(todo[c])
      BY <1>1, <1>7 DEF CreateFile, Listed, CallTypes
    <3>2. num \in Slots
      BY <1>1, <1>7 DEF CreateFile, Listed, TableTypes, Slots
    <3>3. entries[num].name \in Names
      <4>1. Head(todo[c]) \in Cfg
        BY <3>1
      <4>2. QED
        BY <3>1, <4>1 DEF Cfg
    <3>4. QED
      BY <1>7, <3>1, <3>2, <3>3 DEF CreateFile, Asked
  <2>2. \A n \in Names : files[n] # Unset => files[n] < num /\ files[n] \in Slots
    BY <1>1 DEF Followed, Doomed, TableTypes
  <2>3. \A s \in Slots : s < num + 1 => s < num \/ s = num
    BY DEF Slots, TableTypes
  <2>4. \A s \in Slots : s < num' => files'[entries'[s].name] = s
    <3>1. SUFFICES ASSUME NEW s \in Slots, s < num + 1 PROVE files'[entries[s].name] = s
      BY <2>1
    <3>2. CASE s = num
      BY <2>1, <3>2 DEF TableTypes
    <3>3. CASE s < num
      <4>1. files[entries[s].name] = s /\ s # Unset
        BY <3>3 DEF Followed
      <4>2. entries[s].name # entries[num].name
        BY <2>1, <4>1
      <4>3. QED
        BY <2>1, <4>1, <4>2 DEF TableTypes
    <3>4. QED
      BY <2>3, <3>1, <3>2, <3>3
  <2>5. \A n \in Names : files'[n] # Unset => files'[n] < num' /\ entries'[files'[n]].name = n
    <3>1. SUFFICES ASSUME NEW n \in Names, files'[n] # Unset
                   PROVE  files'[n] < num + 1 /\ entries[files'[n]].name = n
      BY <2>1
    <3>2. CASE n = entries[num].name
      BY <2>1, <3>2 DEF TableTypes
    <3>3. CASE n # entries[num].name
      <4>1. files'[n] = files[n]
        BY <2>1, <3>3 DEF TableTypes
      <4>2. QED
        BY <2>2, <3>1, <4>1 DEF Followed, Slots, TableTypes
    <3>4. QED
      BY <3>2, <3>3
  <2>6. ~Gone' /\ \A t \in Threads : pc'[t] # "remove"
    BY <1>1, <1>2, <1>3 DEF Gone, Unbinding
  <2>7. QED
    BY <1>4, <2>4, <2>5, <2>6, FollowedAnew
<1>8. QED
  BY <1>4, <1>5, <1>6, <1>7 DEF Create, CreateBegin, PassOver, NoSpace, CreateFileFails,
                               CreateEnd

\* Everything listed becomes doomed.
LEMMA FilesTakeStep ==
  ASSUME Inv, Calm, Alone, Followed, UNCHANGED use,
         \/ CleanupTake
         \/ \E c \in Clients : DestroyBegin(c)
  PROVE  (Alone /\ Followed)'
<1> USE Constants DEF Inv, Types, Goto, binding, TakeAll
<1>1. \A c \in Clients : pc[c] = "idle"
  BY DEF CleanupTake, DestroyBegin, Calm, Alone, Unbinding, Life
<1>2. PICK t \in Threads :
        /\ from' = [from EXCEPT ![t] = 0] /\ to' = [to EXCEPT ![t] = num]
        /\ num' = 0 /\ UNCHANGED <<cdesc, cdev, going, fd, entries, files>>
        /\ pc' = [pc EXCEPT ![t] = "remove"]
        /\ t = Drv => pc[Drv] = "cleanup"
        /\ t \in Clients => fd[t] = "open"
  BY DEF CleanupTake, DestroyBegin, Usable, Threads
<1>3. pc[Drv] # "remove" /\ ~Gone
  BY <1>2 DEF Alone, Unbinding, Gone, Threads
<1>4. Alone'
  BY <1>1, <1>2 DEF Alone, Unbinding, Threads, ThreadTypes
<1>5. Followed'
  <2>1. \A n \in Names : files[n] # Unset =>
          files[n] \in Slots /\ 0 <= files[n] /\ files[n] < num /\ entries[files[n]].name = n
    BY <1>1, <1>3 DEF Followed, Doomed, Threads, TableTypes, Slots
  <2>2. pc'[t] = "remove" /\ from'[t] = 0 /\ to'[t] = num
    BY <1>2 DEF ThreadTypes, RangeTypes
  <2>3. \A n \in Names : files'[n] # Unset =>
          Doomed(files[n])' /\ entries'[files'[n]].name = n
    BY <1>2, <2>1, <2>2 DEF Doomed
  <2>4. ~Gone'
    BY <1>2, <1>3 DEF Gone, ThreadTypes, Threads
  <2>5. \A s \in Slots : ~(s < num')
    BY <1>2 DEF Slots
  <2>6. QED
    BY <1>2, <2>3, <2>4, <2>5 DEF Followed
<1>6. QED
  BY <1>4, <1>5

\* The one that removes files does away with them in order, up to the last.
LEMMA FilesRemoveStep ==
  ASSUME Inv, Calm, Alone, Followed, UNCHANGED use,
         NEW t \in Threads, RemoveFile(t) \/ DestroyEnd(t)
  PROVE  (Alone /\ Followed)'
<1> USE Constants DEF Inv, Types, Goto, binding
<1>1. /\ pc[t] = "remove" /\ num = 0 /\ ~Gone
      /\ UNCHANGED <<cdesc, cdev, going, fd, entries, num, to>>
  BY DEF RemoveFile, DestroyEnd, Followed, Gone, Alone, Unbinding, Life, ThreadTypes, Threads
<1>2. \A u \in Threads : pc[u] = "remove" => u = t
  BY <1>1 DEF Alone, Unbinding, Life, ThreadTypes, Threads
<1>3. \A s \in Slots : ~(s < num)
  BY <1>1 DEF Slots
<1>4. \A n \in Names : files[n] # Unset =>
        /\ files[n] \in Slots /\ from[t] <= files[n] /\ files[n] < to[t]
        /\ entries[files[n]].name = n
  BY <1>2, <1>3 DEF Followed, Doomed, TableTypes
<1>5. CASE RemoveFile(t)
  <2>1. /\ pc' = pc
        /\ files' = [files EXCEPT ![entries[from[t]].name] = Unset]
        /\ from' = [from EXCEPT ![t] = from[t] + 1]
    BY <1>5 DEF RemoveFile
  <2>2. \A n \in Names : files'[n] # Unset => files'[n] = files[n] /\ files[n] # from[t]
    BY <1>4, <2>1 DEF TableTypes
  <2>3. \A n \in Names : files'[n] # Unset =>
          from[t] + 1 <= files'[n] /\ files'[n] < to[t] /\ entries'[files'[n]].name = n
    BY <1>1, <1>4, <2>2 DEF Slots, RangeTypes
  <2>4. Followed'
    BY <1>1, <1>3, <2>1, <2>3 DEF Followed, Doomed, Gone, RangeTypes
  <2>5. QED
    BY <1>1, <2>1, <2>4 DEF Alone, Unbinding
<1>6. CASE DestroyEnd(t)
  <2>1. \A n \in Names : files[n] = Unset
    BY <1>4, <1>6 DEF DestroyEnd, Slots, RangeTypes
  <2>2. \A u \in Threads : pc'[u] # "remove"
    BY <1>2, <1>6 DEF DestroyEnd, ThreadTypes
  <2>3. Followed'
    BY <1>1, <1>3, <1>6, <2>1, <2>2 DEF DestroyEnd, Followed
  <2>4. Alone'
    <3>1. CASE t = Drv
      BY <1>1, <1>6, <3>1 DEF DestroyEnd, Alone, Unbinding, ThreadTypes, Threads
    <3>2. CASE t \in Clients
      BY <1>1, <1>6, <3>2 DEF DestroyEnd, Alone, Unbinding, ThreadTypes, Threads
    <3>3. QED
      BY <3>1, <3>2 DEF Threads
  <2>5. QED
    BY <2>3, <2>4
<1>7. QED
  BY <1>5, <1>6

LEMMA FilesBindingStep ==
  ASSUME Inv, Calm, Alone, Followed, UNCHANGED use,
         Probe \/ CleanupBegin \/ Deregister \/ Free
  PROVE  (Alone /\ Followed)'
<1> USE Constants DEF Inv, Types, Goto
<1>1. CASE CleanupBegin
  <2>1. Alone'
    BY <1>1 DEF CleanupBegin, Calm, Unpinned, Alone, Unbinding, ThreadTypes, Threads
  <2>2. /\ UNCHANGED <<entries, num, files, from, to>>
        /\ \A t \in Threads : pc'[t] = "remove" <=> pc[t] = "remove"
        /\ Gone' => Gone
    BY <1>1 DEF CleanupBegin, Gone, ThreadTypes, Threads
  <2>3. QED
    BY <2>1, <2>2, FollowedKept
<1>2. CASE Deregister
  <2>1. Alone'
    BY <1>2 DEF Deregister, Alone, Unbinding, ThreadTypes, Threads
  <2>2. /\ UNCHANGED <<entries, num, files, from, to>>
        /\ \A t \in Threads : pc'[t] = "remove" <=> pc[t] = "remove"
        /\ Gone' => Gone
    BY <1>2 DEF Deregister, Gone, ThreadTypes, Threads
  <2>3. QED
    BY <2>1, <2>2, FollowedKept
<1>3. CASE Probe \/ Free
  <2>1. /\ Unbinding /\ Gone /\ num' = 0 /\ files' = files
        /\ \A t \in Threads : pc'[t] = "remove" => pc[t] = "remove"
    BY <1>3 DEF Probe, Free, Unbinding, Gone, ThreadTypes, Threads
  <2>2. fd' = fd
    BY <1>3, <2>1 DEF Probe, Free, Alone, ThreadTypes
  <2>3. Alone'
    BY <1>3, <2>1, <2>2 DEF Probe, Free, Alone, Unbinding, ThreadTypes, Threads
  <2>4. Followed'
    BY <2>1 DEF Followed, Slots
  <2>5. QED
    BY <2>3, <2>4
<1>4. QED
  BY <1>1, <1>2, <1>3

LEMMA FilesStep == FilesInv /\ [Next]_vars => FilesInv'
<1> SUFFICES ASSUME FilesInv, [Next]_vars PROVE FilesInv'
  OBVIOUS
<1>1. Inv /\ Inv'
  BY InvStep DEF FilesInv
<1>2. CASE UNCHANGED vars
  BY <1>1, <1>2 DEF vars, FilesInv, Calm, Alone, Unbinding, Followed, Gone, Doomed
<1>3. CASE Next
  <2>1. UNCHANGED use /\ (Calm' <=> Calm)
    BY <1>3 DEF Next, Calm
  <2>2. SUFFICES ASSUME Calm PROVE (Alone /\ Followed)'
    BY <1>1, <2>1 DEF FilesInv
  <2>3. Alone /\ Followed
    BY <2>2 DEF FilesInv
  <2>4. ASSUME NEW c \in Clients, Open(c) \/ Close(c) \/ Ioctl(c)
        PROVE  (Alone /\ Followed)'
    <3>1. ~TouchFreed(c)
      BY <1>1, <2>3 DEF TouchFreed, Usable, Alone, Inv, Types, Life, ThreadTypes
    <3>2. QED
      BY <1>1, <2>1, <2>2, <2>3, <2>4, <3>1, FilesFileStep, FilesCreateStep,
         FilesTakeStep, FilesRemoveStep DEF Ioctl, Create, Threads
  <2>5. CASE Driver
    BY <1>1, <2>1, <2>2, <2>3, <2>5, FilesTakeStep, FilesRemoveStep, FilesBindingStep
    DEF Driver, Threads
  <2>6. QED
    BY <1>3, <2>4, <2>5 DEF Next
<1>4. QED
  BY <1>2, <1>3

LEMMA FilesInvCorrect == Spec => []FilesInv
BY FilesInit, FilesStep, PTL DEF Spec

\* As long as no DESTROY_ALL overlaps with another ioctl and the CPLD stays, every
\* listed entry has its file, and no file leads to an entry that was reused.
THEOREM FilesMatch == Spec => []FilesMatchEntries
<1>1. FilesInv => FilesMatchEntries
  BY DEF FilesInv, Followed, FilesMatchEntries
<1>2. QED
  BY <1>1, FilesInvCorrect, PTL

\* Nor does rmmod leave any file behind.
THEOREM NothingSurvives == Spec => []NothingSurvivesUnbind
<1>1. FilesInv => NothingSurvivesUnbind
  BY DEF FilesInv, Followed, Gone, NothingSurvivesUnbind
<1>2. QED
  BY <1>1, FilesInvCorrect, PTL

\* The comment at entries_lock, "Protects entries array", is true of the calls that
\* do not overlap: none of them rewrites an entry that another still has to remove.
THEOREM ProtectedWhenCalm ==
  Spec => [][Calm => \A s \in Slots : entries'[s] # entries[s] => ~Doomed(s)]_vars
<1>1. FilesInv /\ [Next]_vars =>
        (Calm => \A s \in Slots : entries'[s] # entries[s] => ~Doomed(s))
  <2> SUFFICES ASSUME FilesInv, [Next]_vars, Calm, NEW s \in Slots, entries'[s] # entries[s]
               PROVE  ~Doomed(s)
    OBVIOUS
  <2>1. Inv /\ Alone /\ Followed
    BY DEF FilesInv
  <2>2. Probe \/ Free \/ \E c \in Clients : InitEntry(c)
    BY DEF vars, Next, Open, Close, Ioctl, Create, Driver, CreateRefused, CreateBegin,
      PassOver, NoSpace, CreateFile, CreateFileFails, CreateEnd, DestroyBegin, RemoveFile,
      DestroyEnd, TouchFreed, CleanupBegin, CleanupTake, Deregister
  <2>3. \A t \in Threads : pc[t] # "remove"
    BY <2>1, <2>2, Constants DEF Probe, Free, InitEntry, WillAdd, Usable, Alone, Unbinding,
      Inv, Types, ThreadTypes, Life, Threads
  <2>4. QED
    BY <2>3 DEF Doomed
<1>2. QED
  BY <1>1, FilesInvCorrect, PTL DEF Spec
=============================================================================
