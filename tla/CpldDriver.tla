----------------------------- MODULE CpldDriver -----------------------------
(***************************************************************************)
(* A driver of a board: its probe and its removal, the files of             *)
(* regbit-sysfs.c and the LED class devices it registers, and users of them.*)
(* One register is watched; the registers of a CPLD or an FPGA are          *)
(* independent of each other, and so are the LEDs.                          *)
(*                                                                          *)
(* The LED core is external: it runs one work item per LED class device,    *)
(* and switches a device off before it is gone.  So is devres: it undoes    *)
(* what the probe did, the latest first, when the probe fails and when the  *)
(* driver is removed.                                                       *)
(***************************************************************************)
EXTENDS Boards

CONSTANTS
  Users,    \* processes that write to files and LEDs
  Drv,      \* the driver itself, in its probe and its removal
  Inputs    \* what users write to files, as sets of bits

ASSUME UsersAssumption ==
  /\ Drv \notin Users
  /\ Inputs \subseteq SUBSET AllBits

VARIABLES
  board,    \* the driver, a name
  addr,     \* the register watched
  inUse,    \* the files of that register that users write to
  bound,    \* "no", "probing", "yes", "releasing"
  todo,     \* what is left of the probe
  done,     \* what is registered with devres, the latest first
  handle,   \* the handle of the files: "none", "allocated", "ready"
  group,    \* whether the files are there
  refused,  \* whether an entry of the table was refused
  reg,      \* the register
  job,      \* what each process is doing to it
  pc,       \* "idle", "asked", "busy": asked for, and between read and write
  seen,     \* what it has read
  serial,   \* the register, had the updates been done at once
  raced,    \* whether a default value was written while another write was on
  faulty,   \* whether a transfer of the driver itself has failed
  served    \* whether the last probe succeeded

cvars == <<board, addr, inUse, bound, todo, done, handle, group, refused, reg, job, pc, seen,
           serial, raced, faulty, served>>
ghosts == <<serial, raced, faulty, served>>
work == <<reg, job, pc, seen, serial, raced>>
files == <<handle, group, refused>>
config == <<board, addr, inUse>>

Tasks == Users \cup {Drv}
D == Drivers[board]
Lit(pattern, bits) == bits \cap pattern.mask = pattern.is

WritableAt(d, a) == {e \in Range(Drivers[d].files) : e.rw /\ e.at = a}

\* The steps of the probe that concern the register.
Steps(d, a, part) ==
  CASE part = "leds" -> IF a \in Drivers[d].panel.leds THEN Drivers[d].panel.init ELSE <<>>
    [] part = "files" -> <<Register("alloc", ""), Register("attrs", ""),
                           Register("group", ""), Register("action", "")>>
    [] OTHER -> <<Register(part, "")>>
Program(d, a) ==
  FlattenSeq([k \in DOMAIN Drivers[d].probe |-> Steps(d, a, Drivers[d].probe[k])])

Waiting(what) == bound = "probing" /\ pc[Drv] = "idle" /\ todo # <<>> /\ Head(todo).what = what
Doing == {"hwmon", "watchdog", "claim", "led"}
Quiet(names) == ~ \E u \in Users : pc[u] # "idle" /\ job[u].name \in names
FileNames == {e.name : e \in inUse}

Abort == bound' = "releasing" /\ todo' = <<>>

-----------------------------------------------------------------------------
ProbeBegin ==
  /\ bound = "no"
  /\ bound' = "probing"
  /\ todo' = Program(board, addr)
  /\ serial' = reg
  /\ raced' = FALSE /\ faulty' = FALSE /\ served' = FALSE
  /\ UNCHANGED <<config, done, files, reg, job, pc, seen>>

\* A default value is about to be written to the LED.
DefaultBegin ==
  /\ Waiting("write")
  /\ job' = [job EXCEPT ![Drv] = Head(todo).update]
  /\ pc' = [pc EXCEPT ![Drv] = "asked"]
  /\ todo' = Tail(todo)
  /\ UNCHANGED <<config, bound, done, files, reg, seen, ghosts>>

\* Mutant: an LED is registered, but not with devres.
RegisterStepUnmanaged ==
  /\ \E w \in Doing : Waiting(w)
  /\ done' = IF Head(todo).what = "led" THEN done ELSE <<Head(todo)>> \o done
  /\ todo' = Tail(todo)
  /\ UNCHANGED <<config, bound, files, work, faulty, served>>

\* A device or a region is registered with devres.
RegisterStep ==
  /\ \E w \in Doing : Waiting(w)
  /\ done' = <<Head(todo)>> \o done
  /\ todo' = Tail(todo)
  /\ UNCHANGED <<config, bound, files, work, faulty, served>>

\* What leaves nothing to undo.
PassStep ==
  /\ Waiting("trigger") \/ Waiting("unmask")
  /\ todo' = Tail(todo)
  /\ UNCHANGED <<config, bound, done, files, work, faulty, served>>

StepFails ==
  /\ \E w \in Doing \cup {"trigger", "alloc"} : Waiting(w)
  /\ Abort
  /\ UNCHANGED <<config, done, files, work, faulty, served>>

AllocHandle ==
  /\ Waiting("alloc")
  /\ handle' = "allocated"
  /\ todo' = Tail(todo)
  /\ UNCHANGED <<config, bound, done, group, refused, work, faulty, served>>

\* regbit_attr_init, and the end of regbit_sysfs_init_common if it refuses.
InitAttrs ==
  /\ Waiting("attrs")
  /\ IF \A e \in Range(D.files) : ConfigCheck(e, D.bus)
     THEN handle' = "ready" /\ todo' = Tail(todo) /\ UNCHANGED <<bound, refused>>
     ELSE handle' = "none" /\ refused' = TRUE /\ Abort
  /\ UNCHANGED <<config, done, group, work, faulty, served>>

\* sysfs refuses two files of one name.
UniqueNames == Cardinality({e.name : e \in Range(D.files)}) = Len(D.files)

CreateGroup ==
  /\ Waiting("group")
  /\ UniqueNames
  /\ group' = TRUE
  /\ todo' = Tail(todo)
  /\ UNCHANGED <<config, bound, done, handle, refused, work, faulty, served>>

\* Mutant: the handle is not freed when the group is refused.
GroupFailsLeaks ==
  /\ Waiting("group")
  /\ handle' = handle
  /\ Abort
  /\ UNCHANGED <<config, done, group, refused, work, faulty, served>>

GroupFails ==
  /\ Waiting("group")
  /\ handle' = "none"
  /\ Abort
  /\ UNCHANGED <<config, done, group, refused, work, faulty, served>>

AddAction ==
  /\ Waiting("action")
  /\ done' = <<Register("files", "")>> \o done
  /\ todo' = Tail(todo)
  /\ UNCHANGED <<config, bound, files, work, faulty, served>>

\* regbit_sysfs_uninit: sysfs waits for the files that are in use.
RemoveFiles == Quiet(FileNames) /\ group' = FALSE /\ handle' = "none" /\ UNCHANGED refused

\* devm_add_action_or_reset runs the action if it cannot keep it.
ActionFails ==
  /\ Waiting("action")
  /\ RemoveFiles
  /\ Abort
  /\ UNCHANGED <<config, done, work, faulty, served>>

ProbeEnd ==
  /\ bound = "probing" /\ todo = <<>> /\ pc[Drv] = "idle"
  /\ bound' = "yes"
  /\ served' = TRUE
  /\ UNCHANGED <<config, todo, done, files, work, faulty>>

RemoveBegin ==
  /\ bound = "yes"
  /\ bound' = "releasing"
  /\ UNCHANGED <<config, todo, done, files, work, faulty, served>>

Undoing(what) == bound = "releasing" /\ pc[Drv] = "idle" /\ done # <<>> /\ Head(done).what = what

ReleaseFiles ==
  /\ Undoing("files")
  /\ RemoveFiles
  /\ done' = Tail(done)
  /\ UNCHANGED <<config, bound, todo, work, faulty, served>>

\* The LED core waits for the work item of the device and switches it off.
ReleaseLed ==
  /\ Undoing("led")
  /\ Quiet({Head(done).name})
  /\ \E led \in D.panel.set : led.name = Head(done).name /\ job' = [job EXCEPT ![Drv] = led.off]
  /\ pc' = [pc EXCEPT ![Drv] = "asked"]
  /\ done' = Tail(done)
  /\ UNCHANGED <<config, bound, todo, files, reg, seen, ghosts>>

ReleaseOther ==
  /\ \E w \in Doing \ {"led"} : Undoing(w)
  /\ done' = Tail(done)
  /\ UNCHANGED <<config, bound, todo, files, work, faulty, served>>

Released ==
  /\ bound = "releasing" /\ done = <<>> /\ pc[Drv] = "idle"
  /\ bound' = "no"
  /\ UNCHANGED <<config, todo, done, files, work, faulty, served>>

-----------------------------------------------------------------------------
Ask(t, update) ==
  /\ pc[t] = "idle"
  /\ job' = [job EXCEPT ![t] = update]
  /\ pc' = [pc EXCEPT ![t] = "asked"]
  /\ UNCHANGED <<config, bound, todo, done, files, reg, seen, ghosts>>

WriteFile(u) == group /\ \E e \in inUse, i \in Inputs : Ask(u, Store(e, i))

SwitchLed(u) ==
  \E led \in D.panel.set :
    /\ Register("led", led.name) \in Range(done)
    /\ Quiet({led.name})
    /\ Ask(u, led.on) \/ Ask(u, led.off)

\* Mutant: the lock is not taken.
LockAnyway(t) == TRUE

LockFree(t) ==
  ~ \E s \in Tasks \ {t} : pc[s] = "busy" /\ job[s].lock = job[t].lock /\ job[t].lock # NoLock

\* A default value and another write are on at the same time.
Races(t) ==
  \E s \in Tasks : s # t /\ pc[s] = "busy" /\ "default" \in {job[s].name, job[t].name}

\* The lock is taken and the register read, if the update reads it.
Begin(t) ==
  /\ pc[t] = "asked"
  /\ LockFree(t)
  /\ seen' = [seen EXCEPT ![t] = IF ReadsFirst(job[t]) THEN reg ELSE {}]
  /\ pc' = [pc EXCEPT ![t] = "busy"]
  /\ raced' = (raced \/ Races(t))
  /\ UNCHANGED <<config, bound, todo, done, files, reg, job, serial, faulty, served>>

Done(t) ==
  /\ job' = [job EXCEPT ![t] = NoUpdate]
  /\ pc' = [pc EXCEPT ![t] = "idle"]
  /\ seen' = [seen EXCEPT ![t] = {}]

\* Mutant: the bits of the field are not cleared first.
WriteBackOnly(t) ==
  /\ pc[t] = "busy"
  /\ reg' = seen[t] \cup job[t].set
  /\ serial' = Apply(job[t], serial)
  /\ Done(t)
  /\ UNCHANGED <<config, bound, todo, done, files, raced, faulty, served>>

WriteBack(t) ==
  /\ pc[t] = "busy"
  /\ reg' = Apply(job[t], seen[t])
  /\ serial' = Apply(job[t], serial)
  /\ Done(t)
  /\ UNCHANGED <<config, bound, todo, done, files, raced, faulty, served>>

\* The read fails: a probe gives up, anybody else gets the error.
ReadFails(t) ==
  /\ D.bus = "i2c" /\ pc[t] = "asked" /\ LockFree(t) /\ ReadsFirst(job[t])
  /\ Done(t)
  /\ IF t = Drv /\ bound = "probing" THEN Abort ELSE UNCHANGED <<bound, todo>>
  /\ faulty' = (faulty \/ t = Drv)
  /\ UNCHANGED <<config, done, files, reg, serial, raced, served>>

\* The write fails: a probe goes on.
WriteFails(t) ==
  /\ D.bus = "i2c" /\ pc[t] = "busy"
  /\ Done(t)
  /\ faulty' = (faulty \/ t = Drv)
  /\ UNCHANGED <<config, bound, todo, done, files, reg, serial, raced, served>>

-----------------------------------------------------------------------------
\* One register of an LED, those of the files that are written to, or any.
Watched(d) ==
  LET led == IF Drivers[d].panel.leds = {} THEN {} ELSE {CHOOSE a \in Drivers[d].panel.leds : TRUE}
      all == led \cup {e.at : e \in {e \in Range(Drivers[d].files) : e.rw}}
  IN  IF all = {} THEN {0} ELSE all

-----------------------------------------------------------------------------
(* What the tables and the probes of all drivers have in common: the facts   *)
(* that the properties below rest on.                                        *)

LedNames(d) == {led.name : led \in Drivers[d].panel.set}
LedUpdates(d) == UNION {{led.on, led.off} : led \in Drivers[d].panel.set}
Defaults(d, a) == {s.update : s \in {s \in Range(Program(d, a)) : s.what = "write"}}
Whole(u) == u.clear = AllBits /\ u.mask = {} /\ u.is = {}

\* The first default value of a probe, and the first of the four steps that make
\* its files; beyond its end, if there is none.
FirstAt(s, what) ==
  LET places == {k \in DOMAIN s : s[k].what = what}
  IN  IF places = {} THEN Len(s) + 1 ELSE Min(places)
FilesAt(d, a) == FirstAt(Program(d, a), "alloc")
ValueAt(d, a) == FirstAt(Program(d, a), "write")

\* The four steps that make the files are there in a row and once, or none is.
FilesInOrder(d, a) ==
  LET s == Program(d, a)
      at == FilesAt(d, a)
  IN  /\ at \in (1 .. Len(s) - 3) \cup {Len(s) + 1}
      /\ "files" \in Range(Drivers[d].probe) => at <= Len(s)
      /\ \A k \in DOMAIN s :
           /\ s[k].what = "alloc" <=> k = at
           /\ s[k].what = "attrs" <=> k = at + 1
           /\ s[k].what = "group" <=> k = at + 2
           /\ s[k].what = "action" <=> k = at + 3
           /\ s[k].what # "files"

\* The entries of files are accepted, and no file is named like an LED.
FilesAreLegal(d, a) ==
  /\ \A e \in Range(Drivers[d].files) :
       ConfigCheck(e, Drivers[d].bus) /\ e.name \notin LedNames(d) \cup {"default", NoLock}
  /\ IsFiniteSet(WritableAt(d, a))
  /\ \A e \in WritableAt(d, a) : e.off \in Nat /\ e.width \in Nat /\ e.off + e.width <= 8

\* Every colour of an LED is registered, after the LED has got a default value;
\* its updates share a lock, or are of the whole register; and no file is
\* written there.
LedIsLegal(d, a) ==
  LET s == Program(d, a)
  IN  /\ WritableAt(d, a) = {}
      /\ ValueAt(d, a) \in DOMAIN s /\ s[ValueAt(d, a)].what = "write"
      /\ \A k \in DOMAIN s : s[k].what = "led" => k > ValueAt(d, a)
      /\ LedNames(d) # {} /\ "default" \notin LedNames(d)
      /\ \A n \in LedNames(d) : \E k \in DOMAIN s : s[k] = Register("led", n)
      /\ (\A u \in LedUpdates(d) : u.lock = "leds") \/ (\A u \in LedUpdates(d) : Whole(u))

\* The steps and the updates of an LED, wherever it is.
LedStepsAreLegal(d, a) ==
  LET s == Program(d, a)
  IN  /\ s \in Seq(Range(s))
      /\ \A k \in DOMAIN s :
           /\ s[k].what \in {"led", "write"} => a \in Drivers[d].panel.leds
           /\ s[k].what = "led" => s[k] = Register("led", s[k].name) /\ s[k].name \in LedNames(d)
      /\ \A led \in Drivers[d].panel.set : led.on.name = led.name /\ led.off.name = led.name
      /\ \A u \in LedUpdates(d) \cup Defaults(d, a) :
           u.set \subseteq AllBits /\ (ReadsFirst(u) \/ Whole(u))
      /\ \A u \in Defaults(d, a) : u.name = "default" /\ u.lock = NoLock

\* The bits of the register of an LED that may be 1.
Live(d, a) == (0 .. 4) \cup UNION {u.set : u \in LedUpdates(d) \cup Defaults(d, a)}

\* An LED is dark, or left to the hardware, or shows a colour that brightness_get
\* of one of those named reports.
ShowsOneOf(d, names, bits) ==
  \/ Lit(Drivers[d].panel.dark, bits)
  \/ names = LedNames(d) /\ \E p \in Drivers[d].panel.auto : Lit(p, bits)
  \/ \E c \in Drivers[d].panel.get : c.name \in names /\ Lit(c, bits)

\* Updates and default values never mix the codes of two colours, and a colour
\* that is switched off leaves another one lit, or none.
ColoursAreLegal(d, a) ==
  \A bits \in SUBSET Live(d, a) :
    /\ \A u \in Defaults(d, a) : ShowsOneOf(d, LedNames(d), Apply(u, bits))
    /\ \A names \in SUBSET LedNames(d) :
         ShowsOneOf(d, names, bits) =>
           \A led \in Drivers[d].panel.set :
             led.name \in names =>
               /\ ShowsOneOf(d, names, Apply(led.on, bits))
               /\ ShowsOneOf(d, names \ {led.name}, Apply(led.off, bits))

ASSUME TablesAssumption ==
  \A d \in DOMAIN Drivers : \A a \in Watched(d) :
    /\ LedStepsAreLegal(d, a) /\ FilesInOrder(d, a) /\ FilesAreLegal(d, a)
    /\ a \in Drivers[d].panel.leds => LedIsLegal(d, a) /\ ColoursAreLegal(d, a)

-----------------------------------------------------------------------------
CInit(boards) ==
  /\ board \in boards
  /\ addr \in Watched(board)
  /\ inUse \in {s \in SUBSET WritableAt(board, addr) : Cardinality(s) <= 2}
  /\ bound = "no" /\ todo = <<>> /\ done = <<>>
  /\ handle = "none" /\ group = FALSE /\ refused = FALSE
  /\ reg \in {{}, 0 .. 4}
  /\ job = [t \in Tasks |-> NoUpdate]
  /\ pc = [t \in Tasks |-> "idle"]
  /\ seen = [t \in Tasks |-> {}]
  /\ serial = reg
  /\ raced = FALSE /\ faulty = FALSE /\ served = FALSE

CNext ==
  \/ ProbeBegin \/ DefaultBegin \/ RegisterStep \/ PassStep \/ StepFails
  \/ AllocHandle \/ InitAttrs \/ CreateGroup \/ GroupFails \/ AddAction \/ ActionFails \/ ProbeEnd
  \/ RemoveBegin \/ ReleaseFiles \/ ReleaseLed \/ ReleaseOther \/ Released
  \/ \E u \in Users : WriteFile(u) \/ SwitchLed(u)
  \/ \E t \in Tasks : Begin(t) \/ WriteBack(t) \/ ReadFails(t) \/ WriteFails(t)

-----------------------------------------------------------------------------
CTypeOK ==
  /\ bound \in {"no", "probing", "yes", "releasing"}
  /\ handle \in {"none", "allocated", "ready"}
  /\ group \in BOOLEAN
  /\ reg \subseteq AllBits
  /\ pc \in [Tasks -> {"idle", "asked", "busy"}]
  /\ bound = "no" => \A t \in Tasks : pc[t] = "idle"
  /\ bound # "probing" => todo = <<>>

\* Two updates of a register that are protected from each other never lose one:
\* the register is what it would be had each been done at once.  The files of
\* one register have a lock each, so nothing is claimed when users write to two
\* of them; and a default value is written without the lock of the LEDs.
NoLostWrite == Cardinality(inUse) <= 1 /\ ~raced => reg = serial

\* Whatever users of the colours of an LED do, in any order, it shows a colour
\* that brightness_get of one of them reports, or is dark, or is left to the
\* hardware: the codes of two colours are never mixed.  The bits of the register
\* that belong to no colour read 0, as a brightness_get of the whole word expects.
ShowsAColour ==
  bound = "yes" /\ ~faulty /\ addr \in D.panel.leds =>
    \/ Lit(D.panel.dark, reg)
    \/ \E p \in D.panel.auto : Lit(p, reg)
    \/ \E c \in D.panel.get : Lit(c, reg)

\* After the driver has served and is gone, the LED is dark, whichever colour
\* was lit: to unregister the colours switches off the one that is.
DarkWhenReleased ==
  bound = "no" /\ served /\ ~faulty /\ addr \in D.panel.leds => Lit(D.panel.dark, reg)

\* The files are there while the driver is, and no longer; their memory outlives
\* every call; no table of a driver has an entry that is refused; no error path
\* of the probe leaves anything behind.
FilesComeAndGo ==
  /\ group => handle = "ready"
  /\ \A u \in Users : pc[u] # "idle" /\ job[u].name \in FileNames => handle = "ready"
  /\ bound = "no" => handle = "none" /\ ~group
  /\ bound = "yes" /\ "files" \in Range(D.probe) => group
  /\ ~refused
=============================================================================
