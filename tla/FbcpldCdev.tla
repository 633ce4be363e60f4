----------------------------- MODULE FbcpldCdev -----------------------------
(***************************************************************************)
(* The generic CPLD driver (fbcpld_generic_i2c.c, lib/fbcpld-cdev.c): sysfs *)
(* files for register fields that user processes create in batches, and     *)
(* destroy all at once, through the CPLD's character device.                *)
(*                                                                          *)
(* A sysfs file is known to the kernel by its name and holds a pointer to   *)
(* its entry in entries[]; the driver knows it by the entry alone.  Files   *)
(* are removed by the name the entry has at that moment.                    *)
(***************************************************************************)
EXTENDS Integers, Sequences

CONSTANTS
  Clients,    \* processes that may open the cdev
  Drv,        \* the thread that probes and unbinds the driver
  Names,      \* names of sysfs files
  Regs,       \* the register fields they may be configured for
  Uses,       \* how the driver is used, one way per behaviour: see Use
  MaxAttrs,   \* FBCPLD_MAX_ATTRS
  Nobody, Unset

Threads == Clients \cup {Drv}
Slots == 0 .. MaxAttrs - 1
Cfg == [name : Names, reg : Regs, valid : BOOLEAN]

\* overlap: may a DESTROY_ALL overlap with another ioctl?  hot: may probe fail, or
\* the CPLD go away, while the cdev is open?  batches: what a CREATE may ask for.
Use == [overlap : BOOLEAN, hot : BOOLEAN, batches : SUBSET Seq(Cfg)]

ASSUME ConstantsAssumption ==
  /\ Drv \notin Clients
  /\ Nobody \notin Threads
  /\ Unset \notin Cfg \cup Slots
  /\ MaxAttrs \in Nat \ {0}
  /\ \A u \in Uses :
       /\ DOMAIN u = {"overlap", "hot", "batches"}
       /\ u.overlap \in BOOLEAN /\ u.hot \in BOOLEAN
       /\ u.batches \subseteq Seq(Cfg)

VARIABLES
  use,      \* how the driver is used
  cdesc,    \* the descriptor: "none" or "ready"
  cdev,     \* is the misc device registered?
  going,    \* has module unloading begun?
  fd,       \* a client's descriptor
  pc,       \* where a thread is
  lock,     \* owner of entries_lock
  todo,     \* what a CREATE has still to look at
  ret,      \* its result so far, then what the client got
  entries,  \* entries[]
  num,      \* num_entries
  files,    \* the entry that the file of a name points to
  from, to  \* the entries that a DESTROY_ALL has still to remove

vars == <<use, cdesc, cdev, going, fd, pc, lock, todo, ret, entries, num, files,
          from, to>>
binding == <<cdesc, cdev, going, fd>>

Init ==
  /\ use \in Uses
  /\ cdesc = "none"
  /\ cdev = FALSE
  /\ going = FALSE
  /\ fd = [c \in Clients |-> "closed"]
  /\ pc = [t \in Threads |-> IF t = Drv THEN "unbound" ELSE "idle"]
  /\ lock = Nobody
  /\ todo = [c \in Clients |-> <<>>]
  /\ ret = [c \in Clients |-> "ok"]
  /\ entries = [s \in Slots |-> Unset]
  /\ num = 0
  /\ files = [n \in Names |-> Unset]
  /\ from = [t \in Threads |-> 0] /\ to = [t \in Threads |-> 0]

Goto(t, where) == pc' = [pc EXCEPT ![t] = where]
Usable(t) == cdesc = "ready" /\ (t \in Clients => fd[t] = "open")

-----------------------------------------------------------------------------
(* The file operations as the VFS runs them.                                 *)

Open(c) ==
  /\ fd[c] = "closed"
  /\ cdev /\ ~going
  /\ fd' = [fd EXCEPT ![c] = "open"]
  /\ UNCHANGED <<cdesc, cdev, going, pc, lock, todo, ret, entries, num, files,
                 from, to>>

Close(c) ==
  /\ fd[c] # "closed"
  /\ pc[c] = "idle"
  /\ fd' = [fd EXCEPT ![c] = "closed"]
  /\ ret' = [ret EXCEPT ![c] = "ok"]
  /\ UNCHANGED <<cdesc, cdev, going, pc, lock, todo, entries, num, files,
                 from, to>>

-----------------------------------------------------------------------------
(* FBCPLD_IOC_SYSFS_CREATE: fbcpld_sysfs_create holds entries_lock throughout. *)

CreateRefused(c) ==
  /\ pc[c] = "idle"
  /\ Usable(c)
  /\ <<>> \in use.batches
  /\ ret' = [ret EXCEPT ![c] = "EINVAL"]
  /\ UNCHANGED <<binding, pc, lock, todo, entries, num, files, from, to>>

CreateBegin(c, r) ==
  /\ pc[c] = "idle"
  /\ use.overlap \/ \A d \in Clients : pc[d] # "remove"
  /\ Usable(c)
  /\ r # <<>>
  /\ lock = Nobody
  /\ lock' = c
  /\ todo' = [todo EXCEPT ![c] = r]
  /\ ret' = [ret EXCEPT ![c] = "ok"]
  /\ Goto(c, "create")
  /\ UNCHANGED <<binding, entries, num, files, from, to>>

Asked(c) == Head(todo[c])

\* Mutant: the search begins at the second entry.
EntryExistsSkips(n) == \E s \in Slots : 0 < s /\ s < num /\ entries[s].name = n

\* fbcpld_entry_exists
EntryExists(n) == \E s \in Slots : s < num /\ entries[s].name = n

\* The attribute is done with: on to the next one.
NextAttr(c, r) ==
  /\ todo' = [todo EXCEPT ![c] = Tail(@)]
  /\ ret' = [ret EXCEPT ![c] = r]

\* One that is invalid or exists is passed over; only the first is an error.
PassOver(c) ==
  /\ pc[c] = "create" /\ todo[c] # <<>>
  /\ Usable(c)
  /\ \/ ~Asked(c).valid /\ NextAttr(c, "EINVAL")
     \/ Asked(c).valid /\ EntryExists(Asked(c).name) /\ NextAttr(c, "ok")
  /\ UNCHANGED <<binding, pc, lock, entries, num, files, from, to>>

\* Mutant: the check is off by one.
FullOffByOne == num > MaxAttrs

Full == num >= MaxAttrs

WillAdd(c) ==
  /\ pc[c] = "create" /\ todo[c] # <<>>
  /\ Usable(c)
  /\ Asked(c).valid
  /\ ~EntryExists(Asked(c).name)

\* The rest of the batch is dropped.
GiveUp(c, r) ==
  /\ todo' = [todo EXCEPT ![c] = <<>>]
  /\ ret' = [ret EXCEPT ![c] = r]

NoSpace(c) ==
  /\ WillAdd(c)
  /\ Full
  /\ GiveUp(c, "ENOSPC")
  /\ UNCHANGED <<binding, pc, lock, entries, num, files, from, to>>

InitEntry(c) ==
  /\ WillAdd(c)
  /\ ~Full
  /\ entries' = [entries EXCEPT ![num] = Asked(c)]
  /\ Goto(c, "create_file")
  /\ UNCHANGED <<binding, lock, todo, ret, num, files, from, to>>

\* sysfs_create_file
CreateFile(c) ==
  /\ pc[c] = "create_file"
  /\ Usable(c)
  /\ files[Asked(c).name] = Unset
  /\ files' = [files EXCEPT ![Asked(c).name] = num]
  /\ num' = num + 1
  /\ NextAttr(c, "ok")
  /\ Goto(c, "create")
  /\ UNCHANGED <<binding, lock, entries, from, to>>

CreateFileFails(c) ==
  /\ pc[c] = "create_file"
  /\ Usable(c)
  /\ \/ files[Asked(c).name] # Unset /\ GiveUp(c, "EEXIST")
     \/ GiveUp(c, "ENOMEM")
  /\ Goto(c, "create")
  /\ UNCHANGED <<binding, lock, entries, num, files, from, to>>

CreateEnd(c) ==
  /\ pc[c] = "create" /\ todo[c] = <<>>
  /\ Usable(c)
  /\ lock' = Nobody
  /\ Goto(c, "idle")
  /\ UNCHANGED <<binding, todo, ret, entries, num, files, from, to>>

-----------------------------------------------------------------------------
(* FBCPLD_IOC_SYSFS_DESTROY_ALL, and the same when the driver is unbound:     *)
(* fbcpld_sysfs_destroy_all takes the count under the lock and removes the    *)
(* files after it.                                                           *)

TakeAll(t) ==
  /\ lock = Nobody
  /\ num' = 0
  /\ from' = [from EXCEPT ![t] = 0]
  /\ to' = [to EXCEPT ![t] = num]
  /\ Goto(t, "remove")

DestroyBegin(c) ==
  /\ pc[c] = "idle"
  /\ use.overlap \/ \A d \in Clients : pc[d] = "idle"
  /\ Usable(c)
  /\ TakeAll(c)
  /\ ret' = [ret EXCEPT ![c] = "ok"]
  /\ UNCHANGED <<binding, lock, todo, entries, files>>

\* sysfs_remove_file finds the file by the name in the entry.
RemoveFile(t) ==
  /\ pc[t] = "remove"
  /\ Usable(t)
  /\ from[t] < to[t]
  /\ files' = [files EXCEPT ![entries[from[t]].name] = Unset]
  /\ from' = [from EXCEPT ![t] = @ + 1]
  /\ UNCHANGED <<binding, pc, lock, todo, ret, entries, num, to>>

\* Mutant: the removal stops early.
DestroyEndEarly(t) ==
  /\ pc[t] = "remove"
  /\ Goto(t, IF t = Drv THEN "deregister" ELSE "idle")
  /\ UNCHANGED <<binding, lock, todo, ret, entries, num, files, from, to>>

DestroyEnd(t) ==
  /\ pc[t] = "remove"
  /\ from[t] = to[t]
  /\ Goto(t, IF t = Drv THEN "deregister" ELSE "idle")
  /\ UNCHANGED <<binding, lock, todo, ret, entries, num, files, from, to>>

\* A client reaches for the descriptor after it was freed, and is not followed
\* any further.
TouchFreed(c) ==
  /\ fd[c] # "closed"
  /\ ~Usable(c)
  /\ Goto(c, "idle")
  /\ todo' = [todo EXCEPT ![c] = <<>>]
  /\ to' = [to EXCEPT ![c] = from[c]]
  /\ UNCHANGED <<binding, lock, ret, entries, num, files, from>>

-----------------------------------------------------------------------------
(* fbcpld_cdev_init, fbcpld_cdev_cleanup and the release of devm memory.     *)

Probe ==
  /\ pc[Drv] = "unbound"
  /\ cdesc' = "ready"
  /\ cdev' = TRUE
  /\ going' = FALSE
  /\ entries' = [s \in Slots |-> Unset]
  /\ num' = 0
  /\ lock' = Nobody
  /\ Goto(Drv, "bound")
  /\ UNCHANGED <<fd, todo, ret, files, from, to>>

\* Mutant: an open descriptor does not pin the module.
UnpinnedAlways == TRUE

Unpinned == \A c \in Clients : fd[c] = "closed"

\* rmmod waits until no descriptor is open, as each pins the module.  A probe
\* that fails after misc_register, or the removal of the CPLD, does not wait.
CleanupBegin ==
  /\ pc[Drv] = "bound"
  /\ \/ going' = TRUE /\ Unpinned
     \/ going' = going /\ use.hot
  /\ Goto(Drv, "cleanup")
  /\ UNCHANGED <<cdesc, cdev, fd, lock, todo, ret, entries, num, files, from, to>>

CleanupTake ==
  /\ pc[Drv] = "cleanup"
  /\ TakeAll(Drv)
  /\ UNCHANGED <<binding, lock, todo, ret, entries, files>>

Deregister ==
  /\ pc[Drv] = "deregister"
  /\ cdev' = FALSE
  /\ Goto(Drv, "free")
  /\ UNCHANGED <<cdesc, going, fd, lock, todo, ret, entries, num, files, from, to>>

Free ==
  /\ pc[Drv] = "free"
  /\ cdesc' = "none"
  /\ fd' = [c \in Clients |-> IF fd[c] = "open" THEN "stale" ELSE fd[c]]
  /\ entries' = [s \in Slots |-> Unset]
  /\ num' = 0
  /\ lock' = Nobody
  /\ Goto(Drv, "unbound")
  /\ UNCHANGED <<cdev, going, todo, ret, files, from, to>>

-----------------------------------------------------------------------------
Create(c) ==
  \/ CreateRefused(c) \/ \E r \in use.batches : CreateBegin(c, r)
  \/ PassOver(c) \/ NoSpace(c) \/ InitEntry(c) \/ CreateFile(c) \/ CreateFileFails(c)
  \/ CreateEnd(c)

Ioctl(c) ==
  Create(c) \/ DestroyBegin(c) \/ RemoveFile(c) \/ DestroyEnd(c) \/ TouchFreed(c)

Driver ==
  \/ Probe \/ CleanupBegin \/ CleanupTake \/ RemoveFile(Drv) \/ DestroyEnd(Drv)
  \/ Deregister \/ Free

Next ==
  /\ \/ \E c \in Clients : Open(c) \/ Close(c) \/ Ioctl(c)
     \/ Driver
  /\ UNCHANGED use

Spec == Init /\ [][Next]_vars

-----------------------------------------------------------------------------
(* Properties.                                                               *)

\* The variables have their types, and whoever adds an entry holds the lock.
TypeOK ==
  /\ cdesc \in {"none", "ready"} /\ cdev \in BOOLEAN /\ going \in BOOLEAN
  /\ fd \in [Clients -> {"closed", "open", "stale"}]
  /\ pc \in [Threads -> {"idle", "create", "create_file", "remove", "unbound",
                         "bound", "cleanup", "deregister", "free"}]
  /\ lock \in Clients \cup {Nobody}
  /\ DOMAIN todo = Clients /\ \A c \in Clients : \A k \in DOMAIN todo[c] : todo[c][k] \in Cfg
  /\ ret \in [Clients -> {"ok", "EINVAL", "ENOSPC", "EEXIST", "ENOMEM"}]
  /\ entries \in [Slots -> Cfg \cup {Unset}]
  /\ num \in 0 .. MaxAttrs
  /\ files \in [Names -> Slots \cup {Unset}]
  /\ from \in [Threads -> 0 .. MaxAttrs] /\ to \in [Threads -> 0 .. MaxAttrs]
  /\ \A t \in Threads : from[t] <= to[t]
  /\ \A c \in Clients : pc[c] = "create_file" => todo[c] # <<>>
  /\ \A c \in Clients : pc[c] \in {"create", "create_file"} /\ Usable(c) => lock = c

\* No two listed entries have the same name, whoever creates and destroys, and
\* also when the CPLD goes away in between.
UniqueNames ==
  \A r, s \in Slots :
    r < num /\ s < num /\ entries[r].name = entries[s].name => r = s

\* As long as no DESTROY_ALL overlaps with another ioctl, every listed entry has its
\* file, and the file leads back to the entry and so to its register; a file
\* outlives its entry's place in the list only until the DESTROY_ALL that unlisted
\* it comes to it, and none points to an entry that now describes another register.
Doomed(s) == \E t \in Threads : pc[t] = "remove" /\ from[t] <= s /\ s < to[t]
Calm == ~use.overlap /\ ~use.hot
FilesMatchEntries ==
  Calm =>
    /\ \A s \in Slots : s < num => files[entries[s].name] = s
    /\ \A n \in Names : files[n] # Unset =>
         /\ files[n] < num \/ Doomed(files[n])
         /\ entries[files[n]].name = n

\* When the driver has been unbound by rmmod, no file is left to point into its
\* freed memory.
NothingSurvivesUnbind ==
  Calm /\ pc[Drv] \in {"deregister", "free", "unbound"} => \A n \in Names : files[n] = Unset

\* lib/fbcpld-cdev.h: entries_lock "Protects entries array".  An entry is not
\* rewritten while another thread goes through the array.
EntriesProtected ==
  [][\A s \in Slots : entries'[s] # entries[s] => ~Doomed(s)]_vars
=============================================================================
