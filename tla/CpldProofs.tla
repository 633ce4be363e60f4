----------------------------- MODULE CpldProofs -----------------------------
(***************************************************************************)
(* Proofs about CpldDriver as a part of MCBoards: for any users and inputs, *)
(* every driver of Boards, and every register it writes.  What they take    *)
(* from the tables of the drivers is TablesAssumption.                      *)
(***************************************************************************)
EXTENDS BoardProofs, FiniteSetTheorems, SequenceTheorems

Names == LedNames(board)
P == Program(board, addr)
Passed == Len(P) - Len(todo)
IsLed == addr \in Drivers[board].panel.leds
Serving == bound \in {"probing", "yes"}
LedStep(n) == Register("led", n)
FilesStep == Register("files", "")
Kept(s) == \E k \in DOMAIN s : s[k].what = "files"
Fixed == UNCHANGED <<board, addr, inUse>>

Tables ==
  /\ board \in DOMAIN Drivers /\ addr \in Watched(board)
  /\ inUse \subseteq WritableAt(board, addr)

\* What is left of the probe is the end of its list.
Stepping ==
  /\ bound \in {"no", "probing", "yes", "releasing"}
  /\ todo \in Seq(Range(P))
  /\ bound # "probing" => todo = <<>>
  /\ Len(todo) <= Len(P)
  /\ \A k \in 1 .. Len(todo) : todo[k] = P[Passed + k]

\* What is registered is what the probe has passed, every LED of it; but none
\* before the first default value.
Registered ==
  /\ done \in Seq(Range(P) \cup {FilesStep})
  /\ bound = "no" => done = <<>>
  /\ \A j, k \in DOMAIN done : done[j].what = "files" /\ done[k].what = "files" => j = k
  /\ Serving => \A k \in 1 .. Len(P) : k <= Passed /\ P[k].what = "led" => P[k] \in Range(done)
  /\ bound = "probing" /\ Passed <= ValueAt(board, addr) =>
       \A k \in DOMAIN done : done[k].what # "led"

\* The handle and the files follow the four steps, and are there as long as their
\* removal is registered.
FilesFollow ==
  /\ group \in BOOLEAN /\ ~refused
  /\ Serving =>
       /\ handle = IF Passed < FilesAt(board, addr) THEN "none"
                   ELSE IF Passed = FilesAt(board, addr) THEN "allocated" ELSE "ready"
       /\ group <=> Passed >= FilesAt(board, addr) + 2
       /\ Kept(done) <=> Passed >= FilesAt(board, addr) + 3
  /\ ~Serving =>
       /\ group <=> Kept(done)
       /\ handle = IF Kept(done) THEN "ready" ELSE "none"

\* What a process does to the register.
Stores(t) == t \in Users /\ \E e \in inUse, i \in Inputs : job[t] = Store(e, i)
Switches(t) == IsLed /\ job[t] \in LedUpdates(board)
SwitchesOff == Switches(Drv) /\ \E led \in Drivers[board].panel.set : job[Drv] = led.off
Initialises(t) ==
  /\ t = Drv
  /\ Passed \in 1 .. Len(P) /\ P[Passed].what = "write" /\ job[t] = P[Passed].update

Jobs ==
  /\ pc \in [Tasks -> {"idle", "asked", "busy"}]
  /\ DOMAIN job = Tasks
  /\ \A u \in Users : pc[u] # "idle" =>
       \/ Stores(u) /\ group
       \/ Switches(u) /\ LedStep(job[u].name) \in Range(done)
  /\ pc[Drv] # "idle" =>
       \/ bound = "probing" /\ Initialises(Drv)
       \/ bound = "releasing" /\ SwitchesOff

Locks ==
  \A s, t \in Tasks :
    s # t /\ pc[s] = "busy" /\ pc[t] = "busy" => job[s].lock = NoLock \/ job[s].lock # job[t].lock

Values ==
  /\ raced \in BOOLEAN /\ faulty \in BOOLEAN /\ served \in BOOLEAN
  /\ reg \subseteq AllBits
  /\ seen \in [Tasks -> SUBSET AllBits]
  /\ bound = "yes" => served
  /\ bound = "probing" => ~served
  /\ IsLed => reg \subseteq Live(board, addr) /\ \A t \in Tasks : seen[t] \subseteq Live(board, addr)

CInv == Tables /\ Stepping /\ Registered /\ FilesFollow /\ Jobs /\ Locks /\ Values

-----------------------------------------------------------------------------
(* The tables.                                                               *)

Legal(d, a) ==
  /\ LedStepsAreLegal(d, a) /\ FilesInOrder(d, a) /\ FilesAreLegal(d, a)
  /\ a \in Drivers[d].panel.leds => LedIsLegal(d, a) /\ ColoursAreLegal(d, a)

LEMMA TableIsLegal ==
  ASSUME NEW d \in DOMAIN Drivers, NEW a \in Watched(d)
  PROVE  Legal(d, a)
BY TablesAssumption DEF Legal

LEMMA StepsOfProbe ==
  ASSUME Tables
  PROVE  /\ P \in Seq(Range(P)) /\ Len(P) \in Nat /\ DOMAIN P = 1 .. Len(P)
         /\ \A k \in 1 .. Len(P) :
              /\ P[k] \in Range(P)
              /\ P[k].what \in {"led", "write"} => IsLed
              /\ P[k].what = "led" => P[k] = LedStep(P[k].name) /\ P[k].name \in Names
<1>1. LedStepsAreLegal(board, addr)
  BY TableIsLegal DEF Tables, Legal
<1>2. P \in Seq(Range(P))
  BY <1>1 DEF LedStepsAreLegal, P
<1>3. Len(P) \in Nat /\ DOMAIN P = 1 .. Len(P)
  BY <1>2
<1>4. QED
  BY <1>1, <1>2, <1>3 DEF LedStepsAreLegal, P, IsLed, LedStep, Names, Range

LEMMA FilesOfProbe ==
  ASSUME Tables
  PROVE  LET at == FilesAt(board, addr)
         IN  /\ at \in Nat /\ at >= 1
             /\ at = Len(P) + 1 \/ at + 3 <= Len(P)
             /\ "files" \in Range(Drivers[board].probe) => at <= Len(P)
             /\ \A k \in 1 .. Len(P) :
                  /\ P[k].what = "alloc" <=> k = at
                  /\ P[k].what = "attrs" <=> k = at + 1
                  /\ P[k].what = "group" <=> k = at + 2
                  /\ P[k].what = "action" <=> k = at + 3
                  /\ P[k].what # "files"
<1>1. FilesInOrder(board, addr)
  BY TableIsLegal DEF Tables, Legal
<1>2. Len(P) \in Nat /\ DOMAIN P = 1 .. Len(P)
  BY StepsOfProbe
<1>3. LET at == FilesAt(board, addr)
      IN  at \in Nat /\ at >= 1 /\ (at = Len(P) + 1 \/ at + 3 <= Len(P))
  BY <1>1, <1>2 DEF FilesInOrder, P
<1>4. QED
  BY <1>1, <1>2, <1>3 DEF FilesInOrder, P

LEMMA FilesOfTable ==
  ASSUME Tables
  PROVE  /\ \A e \in Range(Drivers[board].files) : ConfigCheck(e, Drivers[board].bus)
         /\ \A e \in inUse :
              /\ e.name \notin Names /\ e.name # "default" /\ e.name # NoLock
              /\ e.off \in Nat /\ e.width \in Nat /\ e.off + e.width <= 8
         /\ IsFiniteSet(inUse)
         /\ IsLed => inUse = {}
<1>1. FilesAreLegal(board, addr) /\ (IsLed => LedIsLegal(board, addr))
  BY TableIsLegal DEF Tables, Legal, IsLed
<1>2. inUse \subseteq WritableAt(board, addr) /\ inUse \subseteq Range(Drivers[board].files)
  BY DEF Tables, WritableAt
<1>3. IsFiniteSet(inUse)
  BY <1>1, <1>2, FS_Subset DEF FilesAreLegal
<1>4. QED
  BY <1>1, <1>2, <1>3 DEF FilesAreLegal, LedIsLegal, Names

LEMMA LedOfTable ==
  ASSUME Tables, IsLed
  PROVE  /\ ValueAt(board, addr) \in 1 .. Len(P) /\ P[ValueAt(board, addr)].what = "write"
         /\ \A k \in 1 .. Len(P) : P[k].what = "led" => k > ValueAt(board, addr)
         /\ Names # {} /\ "default" \notin Names
         /\ \A n \in Names : \E k \in 1 .. Len(P) : P[k] = LedStep(n)
         /\ \/ \A u \in LedUpdates(board) : u.lock = "leds"
            \/ \A u \in LedUpdates(board) : Whole(u)
<1>1. LedIsLegal(board, addr)
  BY TableIsLegal DEF Tables, Legal, IsLed
<1>2. QED
  BY <1>1, StepsOfProbe DEF LedIsLegal, P, Names, LedStep

LEMMA UpdatesOfTable ==
  ASSUME Tables
  PROVE  /\ \A led \in Drivers[board].panel.set :
              /\ led.on.name = led.name /\ led.off.name = led.name /\ led.name \in Names
              /\ led.on \in LedUpdates(board) /\ led.off \in LedUpdates(board)
         /\ \A u \in LedUpdates(board) \cup Defaults(board, addr) :
              /\ u.set \subseteq AllBits /\ (ReadsFirst(u) \/ Whole(u))
              /\ u.set \subseteq Live(board, addr)
         /\ \A u \in LedUpdates(board) : u.name \in Names
         /\ \A u \in Defaults(board, addr) : u.name = "default" /\ u.lock = NoLock
         /\ \A k \in 1 .. Len(P) : P[k].what = "write" => P[k].update \in Defaults(board, addr)
<1>1. LedStepsAreLegal(board, addr)
  BY TableIsLegal DEF Tables, Legal
<1>2. \A led \in Drivers[board].panel.set :
         /\ led.on.name = led.name /\ led.off.name = led.name /\ led.name \in Names
         /\ led.on \in LedUpdates(board) /\ led.off \in LedUpdates(board)
  BY <1>1 DEF LedStepsAreLegal, LedUpdates, LedNames, Names
<1>3. \A u \in LedUpdates(board) : u.name \in Names
  BY <1>2 DEF LedUpdates
<1>4. \A k \in 1 .. Len(P) : P[k].what = "write" => P[k].update \in Defaults(board, addr)
  BY StepsOfProbe DEF Defaults, P
<1>5. \A u \in LedUpdates(board) \cup Defaults(board, addr) : u.set \subseteq Live(board, addr)
  BY DEF Live
<1>6. QED
  BY <1>1, <1>2, <1>3, <1>4, <1>5 DEF LedStepsAreLegal

-----------------------------------------------------------------------------
(* Sequences.                                                                *)

LEMMA Pushed ==
  ASSUME NEW S, NEW x \in S, NEW s \in Seq(S)
  PROVE  /\ <<x>> \o s \in Seq(S) /\ Len(<<x>> \o s) = Len(s) + 1
         /\ (<<x>> \o s)[1] = x /\ \A k \in 1 .. Len(s) : (<<x>> \o s)[k + 1] = s[k]
         /\ \A k \in 2 .. Len(s) + 1 : (<<x>> \o s)[k] = s[k - 1]
         /\ Range(<<x>> \o s) = Range(s) \cup {x}
<1> DEFINE r == <<x>> \o s
<1>1. r \in Seq(S) /\ Len(r) = Len(s) + 1 /\ r[1] = x
  OBVIOUS
<1>2. \A k \in 1 .. Len(s) : r[k + 1] = s[k]
  OBVIOUS
<1>3. \A k \in 2 .. Len(s) + 1 : r[k] = s[k - 1]
  OBVIOUS
<1>4. DOMAIN r = 1 .. Len(s) + 1 /\ DOMAIN s = 1 .. Len(s) /\ Len(s) \in Nat
  BY <1>1
<1> HIDE DEF r
<1>5. Range(r) = Range(s) \cup {x}
  <2>1. ASSUME NEW y \in Range(r) PROVE y \in Range(s) \cup {x}
    <3>1. PICK k \in 1 .. Len(s) + 1 : y = r[k]
      BY <1>4 DEF Range
    <3>2. CASE k = 1
      BY <1>1, <3>1, <3>2
    <3>3. CASE k # 1
      BY <1>3, <1>4, <3>1, <3>3 DEF Range
    <3>4. QED
      BY <3>2, <3>3
  <2>2. ASSUME NEW y \in Range(s) PROVE y \in Range(r)
    <3>1. PICK k \in 1 .. Len(s) : y = s[k]
      BY <1>4 DEF Range
    <3>2. QED
      BY <1>2, <1>4, <3>1 DEF Range
  <2>3. x \in Range(r)
    BY <1>1, <1>4 DEF Range
  <2>4. QED
    BY <2>1, <2>2, <2>3
<1>6. QED
  BY <1>1, <1>2, <1>3, <1>5 DEF r

LEMMA Popped ==
  ASSUME NEW S, NEW s \in Seq(S), s # <<>>
  PROVE  /\ Len(s) \in Nat /\ Len(s) >= 1 /\ Head(s) = s[1] /\ Head(s) \in S
         /\ Head(s) \in Range(s)
         /\ Tail(s) \in Seq(S) /\ Len(Tail(s)) = Len(s) - 1
         /\ \A k \in 1 .. Len(s) - 1 : Tail(s)[k] = s[k + 1]
         /\ \A x \in Range(s) : x = Head(s) \/ x \in Range(Tail(s))
         /\ Range(Tail(s)) \subseteq Range(s)
<1>1. Len(s) \in Nat /\ Len(s) >= 1 /\ Head(s) = s[1] /\ Head(s) \in S
  BY EmptySeq
<1>2. Tail(s) \in Seq(S) /\ Len(Tail(s)) = Len(s) - 1 /\ \A k \in 1 .. Len(s) - 1 : Tail(s)[k] = s[k + 1]
  BY <1>1
<1>3. DOMAIN s = 1 .. Len(s) /\ DOMAIN Tail(s) = 1 .. Len(s) - 1
  BY <1>1, <1>2
<1>4. ASSUME NEW x \in Range(s) PROVE x = Head(s) \/ x \in Range(Tail(s))
  <2>1. PICK k \in 1 .. Len(s) : x = s[k]
    BY <1>3 DEF Range
  <2>2. CASE k = 1
    BY <1>1, <2>1, <2>2
  <2>3. CASE k # 1
    <3>1. k - 1 \in 1 .. Len(s) - 1 /\ (k - 1) + 1 = k
      BY <1>1, <2>3
    <3>2. Tail(s)[k - 1] = s[k]
      BY <1>2, <3>1
    <3>3. QED
      BY <1>3, <2>1, <3>1, <3>2 DEF Range
  <2>4. QED
    BY <2>2, <2>3
<1>5. ASSUME NEW x \in Range(Tail(s)) PROVE x \in Range(s)
  <2>1. PICK k \in 1 .. Len(s) - 1 : x = Tail(s)[k]
    BY <1>3 DEF Range
  <2>2. k + 1 \in 1 .. Len(s) /\ x = s[k + 1]
    BY <1>1, <1>2, <2>1
  <2>3. QED
    BY <1>3, <2>2 DEF Range
<1>6. Head(s) \in Range(s)
  BY <1>1, <1>3 DEF Range
<1>7. QED
  BY <1>1, <1>2, <1>4, <1>5, <1>6

-----------------------------------------------------------------------------
(* The steps of a probe.                                                     *)

LEMMA FixedTables == Tables /\ Fixed => Tables' /\ P' = P /\ Names' = Names /\ (IsLed' <=> IsLed)
BY DEF Tables, Fixed, P, Names, IsLed

LEMMA Ahead ==
  ASSUME Tables, Stepping, todo # <<>>
  PROVE  /\ bound = "probing"
         /\ Passed \in Nat /\ Passed + 1 <= Len(P)
         /\ Head(todo) = P[Passed + 1] /\ Head(todo) \in Range(P)
<1>1. todo \in Seq(Range(P)) /\ Len(P) \in Nat
  BY StepsOfProbe DEF Stepping
<1>2. QED
  BY <1>1, Popped DEF Stepping, Passed

LEMMA PassedRange == Tables /\ Stepping => Passed \in Nat /\ Passed <= Len(P) /\ (todo = <<>> => Passed = Len(P))
<1> SUFFICES ASSUME Tables, Stepping
             PROVE  Passed \in Nat /\ Passed <= Len(P) /\ (todo = <<>> => Passed = Len(P))
  OBVIOUS
<1>1. todo \in Seq(Range(P)) /\ Len(P) \in Nat
  BY StepsOfProbe DEF Stepping
<1>2. QED
  BY <1>1 DEF Stepping, Passed

LEMMA GoesOn ==
  ASSUME Tables, Stepping, todo # <<>>, Fixed, UNCHANGED bound, todo' = Tail(todo)
  PROVE  Stepping' /\ Passed' = Passed + 1
<1>1. todo \in Seq(Range(P)) /\ Len(P) \in Nat /\ P' = P
  BY StepsOfProbe, FixedTables DEF Stepping
<1>2. Len(todo) \in Nat /\ Len(todo) >= 1 /\ Tail(todo) \in Seq(Range(P)) /\ Len(Tail(todo)) = Len(todo) - 1
  BY <1>1, Popped
<1>3. Passed' = Passed + 1
  BY <1>1, <1>2 DEF Passed
<1>4. ASSUME NEW k \in 1 .. Len(todo) - 1 PROVE Tail(todo)[k] = P[Passed + 1 + k]
  <2>1. Tail(todo)[k] = todo[k + 1] /\ k + 1 \in 1 .. Len(todo)
    BY <1>1, <1>2, Popped
  <2>2. todo[k + 1] = P[Passed + (k + 1)] /\ Passed + (k + 1) = Passed + 1 + k
    BY <1>1, <1>2, <2>1 DEF Stepping, Passed
  <2>3. QED
    BY <2>1, <2>2
<1>5. QED
  BY <1>1, <1>2, <1>3, <1>4, Ahead DEF Stepping

LEMMA Stops ==
  ASSUME Tables, Stepping, Fixed, bound' \in {"no", "yes", "releasing"}, todo' = <<>>
  PROVE  Stepping' /\ Passed' = Len(P)
<1>1. Len(P) \in Nat /\ P' = P /\ <<>> \in Seq(Range(P)) /\ Len(<<>>) = 0
  BY StepsOfProbe, FixedTables
<1>2. QED
  BY <1>1 DEF Stepping, Passed

LEMMA Starts ==
  ASSUME Tables, Fixed, bound' = "probing", todo' = P
  PROVE  Stepping' /\ Passed' = 0
<1>1. Len(P) \in Nat /\ P' = P /\ P \in Seq(Range(P))
  BY StepsOfProbe, FixedTables
<1>2. QED
  BY <1>1 DEF Stepping, Passed

LEMMA Rests ==
  ASSUME Tables, Stepping, Fixed, UNCHANGED <<bound, todo>>
  PROVE  Stepping' /\ Passed' = Passed
<1>1. P' = P
  BY FixedTables
<1>2. QED
  BY <1>1 DEF Stepping, Passed

-----------------------------------------------------------------------------
(* The steps of a driver, by what they leave alone.                          *)

\* Those that touch neither the register nor what is being done to it.
Moving ==
  \/ ProbeBegin \/ RegisterStep \/ PassStep \/ StepFails
  \/ AllocHandle \/ InitAttrs \/ CreateGroup \/ GroupFails \/ AddAction \/ ActionFails \/ ProbeEnd
  \/ RemoveBegin \/ ReleaseFiles \/ ReleaseOther \/ Released

\* Those by which a process begins, and those of a process inside an update.
Asking(t) ==
  \/ t = Drv /\ (DefaultBegin \/ ReleaseLed)
  \/ t \in Users /\ (WriteFile(t) \/ SwitchLed(t))
Working(t) == Begin(t) \/ WriteBack(t) \/ ReadFails(t) \/ WriteFails(t)

LEMMA KindsOfSteps == CNext => Moving \/ (\E t \in Tasks : Asking(t) \/ Working(t))
BY DEF CNext, Moving, Asking, Working, Tasks

LEMMA MovingLeaves ==
  Moving => /\ Fixed /\ UNCHANGED <<reg, job, pc, seen>>
            /\ ProbeBegin \/ UNCHANGED <<serial, raced, faulty>>
            /\ ProbeBegin \/ ProbeEnd \/ UNCHANGED served
BY DEF Moving, Fixed, config, work, files, ProbeBegin, RegisterStep, PassStep, StepFails, AllocHandle,
  InitAttrs, CreateGroup, GroupFails, AddAction, ActionFails, ProbeEnd, RemoveBegin, ReleaseFiles,
  ReleaseOther, Released, Abort, RemoveFiles

LEMMA AskingLeaves ==
  ASSUME NEW t \in Tasks, Asking(t)
  PROVE  /\ Fixed /\ UNCHANGED <<bound, handle, group, refused, reg, seen, serial, raced, faulty, served>>
         /\ pc[t] = "idle" /\ pc' = [pc EXCEPT ![t] = "asked"]
         /\ \E u : job' = [job EXCEPT ![t] = u]
         /\ t \in Users => UNCHANGED <<todo, done>>
<1>1. CASE t = Drv /\ DefaultBegin
  BY <1>1, UsersAssumption DEF Asking, DefaultBegin, Waiting, Fixed, config, files, ghosts, Tasks
<1>2. CASE t = Drv /\ ReleaseLed
  BY <1>2, UsersAssumption DEF Asking, ReleaseLed, Undoing, Fixed, config, files, ghosts, Tasks
<1>3. CASE t \in Users /\ (WriteFile(t) \/ SwitchLed(t))
  BY <1>3 DEF WriteFile, SwitchLed, Ask, Fixed, config, files, ghosts, Tasks
<1>4. QED
  BY <1>1, <1>2, <1>3 DEF Asking

LEMMA WorkingLeaves ==
  ASSUME NEW t \in Tasks, Working(t)
  PROVE  /\ Fixed /\ UNCHANGED <<done, handle, group, refused, served>>
         /\ UNCHANGED <<bound, todo>> \/ (t = Drv /\ bound = "probing" /\ Abort /\ ReadFails(t))
         /\ pc[t] # "idle"
         /\ WriteBack(t) \/ UNCHANGED <<reg, serial>>
         /\ Begin(t) \/ (Done(t) /\ UNCHANGED raced)
BY DEF Working, Begin, WriteBack, ReadFails, WriteFails, Done, Abort, Fixed, config, files

LEMMA AllFixed == CNext => Fixed
BY KindsOfSteps, MovingLeaves, AskingLeaves, WorkingLeaves

\* A process that has begun an update, but for one, is as far as it was.
LEMMA OthersStay ==
  ASSUME pc \in [Tasks -> {"idle", "asked", "busy"}], DOMAIN job = Tasks, NEW t \in Tasks,
         Asking(t) \/ Working(t)
  PROVE  /\ \A s \in Tasks : s # t => pc'[s] = pc[s] /\ job'[s] = job[s]
         /\ pc' \in [Tasks -> {"idle", "asked", "busy"}] /\ DOMAIN job' = Tasks
         /\ Asking(t) => pc'[t] = "asked"
         /\ Working(t) => \/ pc[t] = "asked" /\ pc'[t] = "busy" /\ job'[t] = job[t] /\ Begin(t)
                          \/ pc'[t] = "idle" /\ ~Begin(t)
<1>1. CASE Asking(t)
  BY <1>1, AskingLeaves DEF Working, Begin, WriteBack, ReadFails, WriteFails
<1>2. CASE Working(t)
  BY <1>2, WorkingLeaves, AskingLeaves DEF Begin, Done
<1>3. QED
  BY <1>1, <1>2

LEMMA StepOfSteps == Tables /\ Stepping /\ CNext => Stepping'
<1> SUFFICES ASSUME Tables, Stepping, CNext PROVE Stepping'
  OBVIOUS
<1>1. Fixed
  BY AllFixed
<1>2. CASE UNCHANGED <<bound, todo>>
  BY <1>1, <1>2, Rests
<1>3. CASE todo # <<>> /\ bound' = bound /\ todo' = Tail(todo)
  BY <1>1, <1>3, GoesOn
<1>4. CASE bound' \in {"no", "yes", "releasing"} /\ todo' = <<>>
  BY <1>1, <1>4, Stops
<1>5. CASE bound' = "probing" /\ todo' = P
  BY <1>1, <1>5, Starts
<1>6. CASE Moving
  BY <1>2, <1>3, <1>4, <1>5, <1>6 DEF Moving, ProbeBegin, RegisterStep, PassStep, StepFails, AllocHandle,
    InitAttrs, CreateGroup, GroupFails, AddAction, ActionFails, ProbeEnd, RemoveBegin, ReleaseFiles,
    ReleaseOther, Released, Abort, Waiting, Undoing, P, Stepping
<1>7. ASSUME NEW t \in Tasks, Asking(t) PROVE Stepping'
  BY <1>2, <1>3, <1>7, AskingLeaves DEF Asking, DefaultBegin, ReleaseLed, Waiting
<1>8. ASSUME NEW t \in Tasks, Working(t) PROVE Stepping'
  BY <1>2, <1>4, <1>8, WorkingLeaves DEF Abort
<1>9. QED
  BY <1>6, <1>7, <1>8, KindsOfSteps

-----------------------------------------------------------------------------
(* What is registered.                                                       *)

LEMMA NamesOfSteps == FilesStep.what = "files" /\ \A n : LedStep(n).what = "led" /\ LedStep(n).name = n
BY DEF LedStep, FilesStep, Register, Step

LEMMA KindOfRegistered ==
  ASSUME Tables, Registered, NEW n, LedStep(n) \in Range(done)
  PROVE  IsLed /\ n \in Names
<1>1. LedStep(n) \in Range(P) \cup {FilesStep}
  BY DEF Registered, Range
<1>2. LedStep(n).what = "led" /\ LedStep(n).name = n /\ FilesStep.what = "files"
  BY NamesOfSteps
<1>3. PICK k \in 1 .. Len(P) : LedStep(n) = P[k]
  BY <1>1, <1>2, StepsOfProbe DEF Range
<1>4. QED
  BY <1>2, <1>3, StepsOfProbe

LEMMA RegisterMore ==
  ASSUME Tables, Stepping, Registered, Fixed, UNCHANGED bound, bound = "probing",
         Head(todo) = P[Passed + 1], Passed + 1 <= Len(P), todo # <<>>, todo' = Tail(todo),
         NEW x \in Range(P) \cup {FilesStep}, done' = <<x>> \o done,
         x = Head(todo) \/ (Head(todo).what # "led" /\ x = FilesStep),
         x.what = "files" => ~Kept(done)
  PROVE  Registered'
<1>1. Passed' = Passed + 1 /\ P' = P /\ Passed \in Nat
  BY GoesOn, FixedTables, Ahead
<1>2. done \in Seq(Range(P) \cup {FilesStep})
  BY DEF Registered
<1>3. /\ done' \in Seq(Range(P) \cup {FilesStep}) /\ Range(done') = Range(done) \cup {x}
      /\ Len(done') = Len(done) + 1 /\ done'[1] = x
      /\ \A k \in 2 .. Len(done) + 1 : done'[k] = done[k - 1]
  BY ONLY <1>2, Pushed, done' = <<x>> \o done, x \in Range(P) \cup {FilesStep}
<1>4. DOMAIN done' = 1 .. Len(done) + 1 /\ DOMAIN done = 1 .. Len(done) /\ Len(done) \in Nat
  BY <1>2, <1>3
<1>5. \A j, k \in DOMAIN done' : done'[j].what = "files" /\ done'[k].what = "files" => j = k
  <2> SUFFICES ASSUME NEW j \in 1 .. Len(done) + 1, NEW k \in 1 .. Len(done) + 1,
                      done'[j].what = "files", done'[k].what = "files", j # k
               PROVE  FALSE
    BY <1>4
  <2>1. CASE j = 1
    <3>1. k - 1 \in DOMAIN done /\ done[k - 1].what = "files"
      BY <1>3, <1>4, <2>1
    <3>2. QED
      BY <1>3, <2>1, <3>1 DEF Kept
  <2>2. CASE k = 1
    <3>1. j - 1 \in DOMAIN done /\ done[j - 1].what = "files"
      BY <1>3, <1>4, <2>2
    <3>2. QED
      BY <1>3, <2>2, <3>1 DEF Kept
  <2>3. CASE j # 1 /\ k # 1
    <3>1. /\ j - 1 \in DOMAIN done /\ done[j - 1].what = "files"
          /\ k - 1 \in DOMAIN done /\ done[k - 1].what = "files"
      BY <1>3, <1>4, <2>3
    <3>2. j - 1 = k - 1
      BY <3>1 DEF Registered
    <3>3. QED
      BY <3>2
  <2>4. QED
    BY <2>1, <2>2, <2>3
<1>6. Serving' => \A k \in 1 .. Len(P) : k <= Passed + 1 /\ P[k].what = "led" => P[k] \in Range(done')
  <2> SUFFICES ASSUME NEW k \in 1 .. Len(P), k <= Passed + 1, P[k].what = "led"
               PROVE  P[k] \in Range(done')
    OBVIOUS
  <2>1. CASE k = Passed + 1
    BY <1>3, <2>1
  <2>2. CASE k # Passed + 1
    <3>1. k <= Passed
      BY <1>1, <2>2
    <3>2. P[k] \in Range(done)
      BY <3>1 DEF Registered, Serving
    <3>3. QED
      BY <1>3, <3>2
  <2>3. QED
    BY <2>1, <2>2
<1>7. Passed + 1 <= ValueAt(board, addr) => \A k \in DOMAIN done' : done'[k].what # "led"
  <2> SUFFICES ASSUME Passed + 1 <= ValueAt(board, addr), NEW k \in 1 .. Len(done) + 1, done'[k].what = "led"
               PROVE  FALSE
    BY <1>4
  <2>1. k = 1 \/ (k - 1 \in DOMAIN done /\ done'[k] = done[k - 1])
    BY <1>3, <1>4
  <2>2. IsLed
    <3>1. done'[k] \in Range(P) \cup {FilesStep} /\ FilesStep.what = "files"
      BY <1>3, <1>4, NamesOfSteps
    <3>2. PICK m \in 1 .. Len(P) : done'[k] = P[m]
      BY <3>1, StepsOfProbe DEF Range
    <3>3. QED
      BY <3>2, StepsOfProbe
  <2>3. ValueAt(board, addr) \in Nat
    BY <2>2, LedOfTable
  <2>4. CASE k = 1
    <3>1. P[Passed + 1].what = "led"
      BY <1>3, <2>4, NamesOfSteps
    <3>2. QED
      BY <1>1, <2>2, <3>1, LedOfTable
  <2>5. CASE k - 1 \in DOMAIN done /\ done'[k] = done[k - 1]
    BY <1>1, <2>3, <2>5 DEF Registered
  <2>6. QED
    BY <2>1, <2>4, <2>5
<1>8. UNCHANGED <<board, addr>>
  BY DEF Fixed
<1>9. QED
  BY <1>1, <1>3, <1>5, <1>6, <1>7, <1>8 DEF Registered, Serving

LEMMA RegisterNoMore ==
  ASSUME Tables, Stepping, Registered, Fixed, UNCHANGED done,
         \/ UNCHANGED bound /\ Passed' = Passed
         \/ UNCHANGED bound /\ bound = "probing" /\ Passed' = Passed + 1
            /\ Passed + 1 <= Len(P) /\ P[Passed + 1].what # "led"
         \/ bound' = "yes" /\ bound = "probing" /\ Passed' = Passed
         \/ bound' = "releasing"
         \/ bound' = "no" /\ done = <<>>
         \/ bound' = "probing" /\ done = <<>> /\ Passed' = 0
  PROVE  Registered'
<1>1. P' = P /\ Passed \in Nat /\ UNCHANGED <<board, addr>>
  BY FixedTables, PassedRange DEF Fixed
<1>2. bound' = "no" => done' = <<>>
  BY DEF Registered
<1>3. Serving' => \A k \in 1 .. Len(P) : k <= Passed' /\ P[k].what = "led" => P[k] \in Range(done)
  BY <1>1 DEF Registered, Serving
<1>4. bound' = "probing" /\ Passed' <= ValueAt(board, addr) => \A k \in DOMAIN done : done[k].what # "led"
  <2>1. CASE done = <<>>
    BY <2>1
  <2>2. CASE done # <<>> /\ bound' = "probing"
    <3>1. (\E k \in DOMAIN done : done[k].what = "led") => IsLed
      <4>1. ASSUME NEW k \in DOMAIN done, done[k].what = "led" PROVE IsLed
        <5>1. done[k] \in Range(P) \cup {FilesStep} /\ FilesStep.what = "files"
          BY NamesOfSteps DEF Registered
        <5>2. PICK m \in 1 .. Len(P) : done[k] = P[m]
          BY <4>1, <5>1, StepsOfProbe DEF Range
        <5>3. QED
          BY <4>1, <5>2, StepsOfProbe
      <4>2. QED
        BY <4>1
    <3>2. IsLed => ValueAt(board, addr) \in Nat
      BY LedOfTable
    <3>3. bound = "probing" /\ (Passed' = Passed \/ Passed' = Passed + 1)
      BY <2>2
    <3>4. QED
      BY <1>1, <3>1, <3>2, <3>3 DEF Registered
  <2>3. QED
    BY <2>1, <2>2
<1>5. QED
  BY <1>1, <1>2, <1>3, <1>4 DEF Registered

LEMMA RegisterLess ==
  ASSUME Tables, Registered, Fixed, bound = "releasing", UNCHANGED bound, done # <<>>, done' = Tail(done)
  PROVE  Registered'
<1>1. done \in Seq(Range(P) \cup {FilesStep}) /\ P' = P
  BY FixedTables DEF Registered
<1>2. /\ Len(done) \in Nat /\ Len(done) >= 1
      /\ done' \in Seq(Range(P) \cup {FilesStep}) /\ Len(done') = Len(done) - 1
      /\ \A k \in 1 .. Len(done) - 1 : done'[k] = done[k + 1]
  BY <1>1, Popped
<1>3. DOMAIN done' = 1 .. Len(done) - 1 /\ DOMAIN done = 1 .. Len(done)
  BY <1>1, <1>2
<1>4. ASSUME NEW j \in DOMAIN done', NEW k \in DOMAIN done', done'[j].what = "files", done'[k].what = "files"
      PROVE  j = k
  <2>1. j + 1 \in DOMAIN done /\ k + 1 \in DOMAIN done /\ done'[j] = done[j + 1] /\ done'[k] = done[k + 1]
    BY <1>2, <1>3
  <2>2. j + 1 = k + 1
    BY <1>4, <2>1 DEF Registered
  <2>3. QED
    BY <1>3, <2>2
<1>5. QED
  BY <1>1, <1>2, <1>4 DEF Registered, Serving

LEMMA KeptMore ==
  ASSUME NEW S, NEW x \in S, NEW s \in Seq(S)
  PROVE  Kept(<<x>> \o s) <=> x.what = "files" \/ Kept(s)
<1> DEFINE r == <<x>> \o s
<1>1. Range(r) = Range(s) \cup {x}
  BY Pushed
<1>2. \A q : Kept(q) <=> \E y \in Range(q) : y.what = "files"
  BY DEF Kept, Range
<1>3. QED
  BY <1>1, <1>2

LEMMA KeptLess ==
  ASSUME Registered, done # <<>>
  PROVE  Kept(Tail(done)) <=> Kept(done) /\ Head(done).what # "files"
<1>1. done \in Seq(Range(P) \cup {FilesStep})
  BY DEF Registered
<1>2. /\ Len(done) \in Nat /\ Len(done) >= 1 /\ Head(done) = done[1]
      /\ Tail(done) \in Seq(Range(P) \cup {FilesStep}) /\ Len(Tail(done)) = Len(done) - 1
      /\ \A k \in 1 .. Len(done) - 1 : Tail(done)[k] = done[k + 1]
  BY <1>1, Popped
<1>3. DOMAIN Tail(done) = 1 .. Len(done) - 1 /\ DOMAIN done = 1 .. Len(done)
  BY <1>1, <1>2
<1>4. ASSUME NEW k \in 1 .. Len(done) - 1, Tail(done)[k].what = "files"
      PROVE  Kept(done) /\ Head(done).what # "files"
  <2>1. k + 1 \in DOMAIN done /\ done[k + 1].what = "files" /\ k + 1 # 1 /\ 1 \in DOMAIN done
    BY <1>2, <1>3, <1>4
  <2>2. QED
    BY <1>2, <2>1 DEF Kept, Registered
<1>5. ASSUME NEW k \in 1 .. Len(done), done[k].what = "files", Head(done).what # "files"
      PROVE  Kept(Tail(done))
  <2>1. k # 1 /\ k - 1 \in 1 .. Len(done) - 1 /\ (k - 1) + 1 = k
    BY <1>2, <1>5
  <2>2. Tail(done)[k - 1] = done[k]
    BY <1>2, <2>1
  <2>3. QED
    BY <1>3, <1>5, <2>1, <2>2 DEF Kept
<1>6. QED
  BY <1>3, <1>4, <1>5 DEF Kept

\* What the head of the probe is, and how far it is.
LEMMA WaitingAt ==
  ASSUME Tables, Stepping, NEW w, Waiting(w)
  PROVE  /\ bound = "probing" /\ pc[Drv] = "idle" /\ todo # <<>>
         /\ Passed \in Nat /\ Passed + 1 \in 1 .. Len(P)
         /\ Head(todo) = P[Passed + 1] /\ P[Passed + 1].what = w /\ Head(todo) \in Range(P)
BY Ahead, StepsOfProbe DEF Waiting

LEMMA RegisteredOfSteps ==
  ASSUME Tables, Stepping, Registered, FilesFollow, CNext
  PROVE  Registered'
<1>1. Fixed
  BY AllFixed
<1>2. ASSUME todo # <<>>, todo' = Tail(todo), UNCHANGED bound PROVE Passed' = Passed + 1
  BY <1>1, <1>2, GoesOn
<1>3. CASE RegisterStep
  <2>1. PICK w \in Doing : Waiting(w)
    BY <1>3 DEF RegisterStep
  <2>2. w # "files"
    BY DEF Doing
  <2>3. Head(todo).what # "files" /\ Head(todo) \in Range(P) \cup {FilesStep}
    BY <2>1, <2>2, WaitingAt
  <2>4. UNCHANGED bound /\ done' = <<Head(todo)>> \o done /\ todo' = Tail(todo)
    BY <1>3 DEF RegisterStep
  <2>5. QED
    BY <1>1, <2>1, <2>3, <2>4, WaitingAt, RegisterMore
<1>4. CASE AddAction
  <2>1. Waiting("action") /\ UNCHANGED bound /\ done' = <<FilesStep>> \o done /\ todo' = Tail(todo)
    BY <1>4 DEF AddAction, FilesStep
  <2>2. Passed + 1 = FilesAt(board, addr) + 3 /\ bound = "probing"
    BY <2>1, WaitingAt, FilesOfProbe
  <2>3. ~Kept(done)
    BY <2>1, <2>2, WaitingAt, FilesOfProbe DEF FilesFollow, Serving
  <2>4. Head(todo).what # "led"
    BY <2>1, WaitingAt
  <2>5. QED
    BY <1>1, <2>1, <2>3, <2>4, WaitingAt, RegisterMore
<1>5. CASE PassStep \/ AllocHandle \/ CreateGroup \/ DefaultBegin
           \/ (InitAttrs /\ UNCHANGED bound /\ todo' = Tail(todo))
  <2>1. \E w \in {"trigger", "unmask", "alloc", "attrs", "group", "write"} : Waiting(w)
    BY <1>5 DEF PassStep, AllocHandle, CreateGroup, DefaultBegin, InitAttrs
  <2>2. UNCHANGED <<bound, done>> /\ todo' = Tail(todo)
    BY <1>5 DEF PassStep, AllocHandle, CreateGroup, DefaultBegin, InitAttrs
  <2>3. /\ bound = "probing" /\ Passed' = Passed + 1 /\ Passed + 1 <= Len(P)
        /\ P[Passed + 1].what # "led"
    BY <1>2, <2>1, <2>2, WaitingAt
  <2>4. QED
    BY <1>1, <2>2, <2>3, RegisterNoMore
<1>6. CASE bound' = "releasing" /\ UNCHANGED done
  BY <1>1, <1>6, RegisterNoMore
<1>7. CASE ProbeBegin
  <2>1. bound' = "probing" /\ done = <<>> /\ UNCHANGED done /\ todo' = P
    BY <1>7 DEF ProbeBegin, P, Registered
  <2>2. Passed' = 0
    BY <1>1, <2>1, Starts
  <2>3. QED
    BY <1>1, <2>1, <2>2, RegisterNoMore
<1>8. CASE ProbeEnd
  <2>1. bound' = "yes" /\ bound = "probing" /\ UNCHANGED done /\ todo' = <<>> /\ todo = <<>>
    BY <1>8 DEF ProbeEnd
  <2>2. Passed' = Passed
    BY <1>1, <2>1, Stops, PassedRange
  <2>3. QED
    BY <1>1, <2>1, <2>2, RegisterNoMore
<1>9. CASE ReleaseFiles \/ ReleaseOther \/ ReleaseLed
  BY <1>1, <1>9, RegisterLess DEF ReleaseFiles, ReleaseOther, ReleaseLed, Undoing
<1>10. CASE Released
  BY <1>1, <1>10, RegisterNoMore DEF Released
<1>11. CASE UNCHANGED <<bound, todo, done>>
  BY <1>1, <1>11, Rests, RegisterNoMore
<1>12. CASE StepFails \/ GroupFails \/ ActionFails \/ RemoveBegin
  BY <1>6, <1>12 DEF StepFails, GroupFails, ActionFails, RemoveBegin, Abort
<1>13. CASE InitAttrs
  BY <1>5, <1>6, <1>13 DEF InitAttrs, Abort
<1>14. CASE Moving
  BY <1>3, <1>4, <1>5, <1>7, <1>8, <1>9, <1>10, <1>12, <1>13, <1>14 DEF Moving
<1>15. ASSUME NEW t \in Tasks, Asking(t) PROVE Registered'
  BY <1>5, <1>9, <1>11, <1>15, AskingLeaves DEF Asking
<1>16. ASSUME NEW t \in Tasks, Working(t) PROVE Registered'
  BY <1>6, <1>11, <1>16, WorkingLeaves DEF Abort
<1>17. QED
  BY <1>14, <1>15, <1>16, KindsOfSteps

-----------------------------------------------------------------------------
(* The files.                                                                *)

LEMMA Follows ==
  ASSUME Tables, Stepping, FilesFollow, Fixed, UNCHANGED refused,
         \/ /\ bound = "probing" /\ UNCHANGED bound /\ Passed' = Passed + 1
            /\ Passed + 1 < FilesAt(board, addr) \/ Passed >= FilesAt(board, addr) + 3
            /\ UNCHANGED <<handle, group>> /\ (Kept(done)' <=> Kept(done))
         \/ /\ UNCHANGED bound /\ Passed' = Passed
            /\ UNCHANGED <<handle, group>> /\ (Kept(done)' <=> Kept(done))
         \/ /\ bound = "probing" /\ bound' = "yes" /\ Passed' = Passed
            /\ UNCHANGED <<handle, group>> /\ (Kept(done)' <=> Kept(done))
         \/ /\ bound \in {"probing", "yes"} /\ bound' = "releasing"
            /\ Passed < FilesAt(board, addr) \/ Passed >= FilesAt(board, addr) + 3
            /\ UNCHANGED <<handle, group>> /\ (Kept(done)' <=> Kept(done))
         \/ /\ ~Serving' /\ ~Kept(done)' /\ group' = FALSE /\ handle' = "none"
         \/ /\ bound = "no" /\ bound' = "probing" /\ Passed' = 0 /\ ~Kept(done) /\ ~Kept(done)'
            /\ UNCHANGED <<handle, group>>
  PROVE  FilesFollow'
<1>1. /\ Passed \in Nat /\ FilesAt(board, addr) \in Nat /\ FilesAt(board, addr) >= 1
      /\ UNCHANGED <<board, addr>>
  BY PassedRange, FilesOfProbe DEF Fixed
<1>2. CASE Serving'
  BY <1>1, <1>2 DEF FilesFollow, Serving
<1>3. CASE ~Serving' /\ ~Serving /\ UNCHANGED <<handle, group>> /\ (Kept(done)' <=> Kept(done))
  BY <1>3 DEF FilesFollow
<1>4. CASE /\ ~Serving' /\ Serving /\ UNCHANGED <<handle, group>> /\ (Kept(done)' <=> Kept(done))
           /\ Passed < FilesAt(board, addr) \/ Passed >= FilesAt(board, addr) + 3
  <2>1. group <=> Kept(done)
    BY <1>1, <1>4 DEF FilesFollow
  <2>2. handle = IF Kept(done) THEN "ready" ELSE "none"
    BY <1>1, <1>4 DEF FilesFollow
  <2>3. QED
    BY <1>4, <2>1, <2>2 DEF FilesFollow
<1>5. CASE ~Serving' /\ ~Kept(done)' /\ group' = FALSE /\ handle' = "none"
  BY <1>5 DEF FilesFollow
<1>6. QED
  BY <1>2, <1>3, <1>4, <1>5 DEF Serving

LEMMA FilesOfSteps ==
  ASSUME Tables, Stepping, Registered, FilesFollow, Jobs, CNext
  PROVE  FilesFollow'
<1> DEFINE at == FilesAt(board, addr)
<1>1. /\ Fixed /\ Passed \in Nat /\ at \in Nat /\ at >= 1 /\ UNCHANGED <<board, addr>>
      /\ done \in Seq(Range(P) \cup {FilesStep})
  BY AllFixed, PassedRange, FilesOfProbe DEF Fixed, Registered
<1>2. ASSUME todo # <<>>, todo' = Tail(todo), UNCHANGED bound PROVE Passed' = Passed + 1
  BY <1>1, <1>2, GoesOn
<1>3. ASSUME NEW w \in Doing \cup {"trigger", "unmask", "write"}, Waiting(w)
      PROVE  /\ Passed + 1 < at \/ Passed >= at + 3
             /\ w # "files" /\ bound = "probing" /\ todo # <<>>
             /\ Head(todo) \in Range(P) \cup {FilesStep} /\ Head(todo).what # "files"
  <2>1. w \notin {"alloc", "attrs", "group", "action", "files"}
    BY DEF Doing
  <2>2. Passed + 1 \notin {at, at + 1, at + 2, at + 3}
    BY <1>1, <1>3, <2>1, WaitingAt, FilesOfProbe
  <2>3. QED
    BY <1>1, <1>3, <2>1, <2>2, WaitingAt
<1>4. CASE RegisterStep
  <2>1. PICK w \in Doing : Waiting(w)
    BY <1>4 DEF RegisterStep
  <2>2. /\ UNCHANGED <<bound, handle, group, refused>> /\ todo' = Tail(todo)
        /\ done' = <<Head(todo)>> \o done
    BY <1>4 DEF RegisterStep, files
  <2>3. Kept(done)' <=> Kept(done)
    BY <1>1, <1>3, <2>1, <2>2, KeptMore
  <2>4. QED
    BY <1>1, <1>2, <1>3, <2>1, <2>2, <2>3, Follows
<1>5. CASE PassStep \/ DefaultBegin
  <2>1. PICK w \in {"trigger", "unmask", "write"} : Waiting(w)
    BY <1>5 DEF PassStep, DefaultBegin
  <2>2. UNCHANGED <<bound, handle, group, refused, done>> /\ todo' = Tail(todo)
    BY <1>5 DEF PassStep, DefaultBegin, files
  <2>3. QED
    BY <1>1, <1>2, <1>3, <2>1, <2>2, Follows
<1>6. CASE AllocHandle
  <2>1. /\ Waiting("alloc") /\ handle' = "allocated" /\ UNCHANGED <<bound, group, refused, done>>
        /\ todo' = Tail(todo)
    BY <1>6 DEF AllocHandle
  <2>2. Passed + 1 = at /\ Passed' = at /\ bound = "probing"
    BY <1>2, <2>1, WaitingAt, FilesOfProbe
  <2>3. QED
    BY <1>1, <2>1, <2>2 DEF FilesFollow, Serving
<1>7. CASE InitAttrs
  <2>1. Waiting("attrs") /\ UNCHANGED <<group, done>>
    BY <1>7 DEF InitAttrs
  <2>2. handle' = "ready" /\ todo' = Tail(todo) /\ UNCHANGED <<bound, refused>>
    BY <1>7, FilesOfTable DEF InitAttrs, D
  <2>3. Passed = at /\ Passed' = at + 1 /\ bound = "probing"
    BY <1>1, <1>2, <2>1, <2>2, WaitingAt, FilesOfProbe
  <2>4. QED
    BY <1>1, <2>1, <2>2, <2>3 DEF FilesFollow, Serving
<1>8. CASE CreateGroup
  <2>1. Waiting("group") /\ UNCHANGED <<bound, handle, refused, done>> /\ todo' = Tail(todo) /\ group' = TRUE
    BY <1>8 DEF CreateGroup
  <2>2. Passed = at + 1 /\ Passed' = at + 2 /\ bound = "probing"
    BY <1>1, <1>2, <2>1, WaitingAt, FilesOfProbe
  <2>3. QED
    BY <1>1, <2>1, <2>2 DEF FilesFollow, Serving
<1>9. CASE AddAction
  <2>1. /\ Waiting("action") /\ UNCHANGED <<bound, handle, group, refused>> /\ todo' = Tail(todo)
        /\ done' = <<FilesStep>> \o done
    BY <1>9 DEF AddAction, files, FilesStep
  <2>2. Passed = at + 2 /\ Passed' = at + 3 /\ bound = "probing"
    BY <1>1, <1>2, <2>1, WaitingAt, FilesOfProbe
  <2>3. Kept(done)'
    BY <1>1, <2>1, KeptMore, NamesOfSteps
  <2>4. QED
    BY <1>1, <2>1, <2>2, <2>3 DEF FilesFollow, Serving
<1>10. CASE GroupFails
  <2>1. /\ Waiting("group") /\ handle' = "none" /\ bound' = "releasing" /\ UNCHANGED <<group, refused, done>>
    BY <1>10 DEF GroupFails, Abort
  <2>2. Passed = at + 1 /\ bound = "probing"
    BY <1>1, <2>1, WaitingAt, FilesOfProbe
  <2>3. QED
    BY <1>1, <2>1, <2>2 DEF FilesFollow, Serving
<1>11. CASE ActionFails
  <2>1. /\ Waiting("action") /\ bound' = "releasing" /\ UNCHANGED <<refused, done>>
        /\ group' = FALSE /\ handle' = "none"
    BY <1>11 DEF ActionFails, RemoveFiles, Abort
  <2>2. Passed = at + 2 /\ bound = "probing"
    BY <1>1, <2>1, WaitingAt, FilesOfProbe
  <2>3. ~Kept(done)
    BY <1>1, <2>2 DEF FilesFollow, Serving
  <2>4. ~Kept(done)' /\ ~Serving'
    BY <2>1, <2>3 DEF Serving
  <2>5. QED
    BY <1>1, <2>1, <2>4, Follows
<1>12. CASE StepFails
  <2>1. PICK w \in Doing \cup {"trigger", "alloc"} : Waiting(w)
    BY <1>12 DEF StepFails
  <2>2. bound' = "releasing" /\ UNCHANGED <<handle, group, refused, done>>
    BY <1>12 DEF StepFails, Abort, files
  <2>3. (Passed < at \/ Passed >= at + 3) /\ bound = "probing"
    <3>1. CASE w = "alloc"
      BY <1>1, <2>1, <3>1, WaitingAt, FilesOfProbe
    <3>2. CASE w # "alloc"
      BY <1>1, <1>3, <2>1, <3>2
    <3>3. QED
      BY <3>1, <3>2
  <2>4. QED
    BY <1>1, <2>2, <2>3, Follows
<1>13. CASE ProbeBegin
  <2>1. /\ bound = "no" /\ bound' = "probing" /\ todo' = P /\ UNCHANGED <<done, handle, group, refused>>
    BY <1>13 DEF ProbeBegin, P, files
  <2>2. done = <<>> /\ ~Kept(done) /\ Passed' = 0
    BY <1>1, <2>1, Starts DEF Registered, Kept
  <2>3. QED
    BY <1>1, <2>1, <2>2, Follows
<1>14. CASE ProbeEnd
  <2>1. /\ bound' = "yes" /\ bound = "probing" /\ todo' = <<>> /\ todo = <<>>
        /\ UNCHANGED <<done, handle, group, refused>>
    BY <1>14 DEF ProbeEnd, files
  <2>2. Passed' = Passed
    BY <1>1, <2>1, Stops, PassedRange
  <2>3. QED
    BY <1>1, <2>1, <2>2, Follows
<1>15. CASE RemoveBegin
  <2>1. bound = "yes" /\ bound' = "releasing" /\ UNCHANGED <<done, handle, group, refused>>
    BY <1>15 DEF RemoveBegin, files
  <2>2. Passed = Len(P)
    BY <2>1, PassedRange DEF Stepping
  <2>3. Passed < at \/ Passed >= at + 3
    BY <1>1, <2>2, FilesOfProbe, StepsOfProbe
  <2>4. QED
    BY <1>1, <2>1, <2>3, Follows
<1>16. CASE ReleaseFiles
  <2>1. /\ Undoing("files") /\ UNCHANGED <<bound, refused>> /\ done' = Tail(done)
        /\ group' = FALSE /\ handle' = "none"
    BY <1>16 DEF ReleaseFiles, RemoveFiles
  <2>2. ~Kept(done)' /\ bound = "releasing"
    BY <1>1, <2>1, KeptLess DEF Undoing
  <2>3. QED
    BY <1>1, <2>1, <2>2, Follows DEF Serving
<1>17. CASE ReleaseOther \/ ReleaseLed
  <2>1. PICK w \in Doing : Undoing(w)
    BY <1>17 DEF ReleaseOther, ReleaseLed, Doing
  <2>2. /\ UNCHANGED <<bound, todo, handle, group, refused>> /\ done' = Tail(done)
    BY <1>17 DEF ReleaseOther, ReleaseLed, files
  <2>3. Kept(done)' <=> Kept(done)
    BY <1>1, <2>1, <2>2, KeptLess DEF Undoing, Doing
  <2>4. QED
    BY <1>1, <2>1, <2>2, <2>3, Rests, Follows
<1>18. CASE Released
  <2>1. /\ bound = "releasing" /\ bound' = "no" /\ done = <<>> /\ UNCHANGED <<done, handle, group, refused>>
    BY <1>18 DEF Released, files
  <2>2. ~Kept(done)
    BY <2>1 DEF Kept
  <2>3. QED
    BY <1>1, <2>1, <2>2 DEF FilesFollow, Serving
<1>19. CASE UNCHANGED <<bound, todo, handle, group, refused, done>>
  BY <1>1, <1>19, Rests, Follows
<1>20. CASE Moving
  BY <1>4, <1>5, <1>6, <1>7, <1>8, <1>9, <1>10, <1>11, <1>12, <1>13, <1>14, <1>15, <1>16, <1>17, <1>18,
     <1>20 DEF Moving
<1>21. ASSUME NEW t \in Tasks, Asking(t) PROVE FilesFollow'
  BY <1>5, <1>17, <1>19, <1>21, AskingLeaves DEF Asking
<1>22. ASSUME NEW t \in Tasks, Working(t) PROVE FilesFollow'
  <2>1. CASE UNCHANGED <<bound, todo>>
    BY <1>19, <1>22, <2>1, WorkingLeaves
  <2>2. CASE t = Drv /\ bound = "probing" /\ Abort
    <3>1. Passed \in 1 .. Len(P) /\ P[Passed].what = "write"
      BY <1>22, <2>2, WorkingLeaves DEF Jobs, Initialises
    <3>2. Passed < at \/ Passed >= at + 3
      <4>1. Passed \notin {at, at + 1, at + 2}
        BY <1>1, <3>1, FilesOfProbe
      <4>2. Passed \in Nat /\ at \in Nat
        BY <1>1, <3>1, FilesOfProbe, StepsOfProbe
      <4>3. QED
        BY <4>1, <4>2
    <3>3. bound' = "releasing" /\ UNCHANGED <<handle, group, refused, done>>
      BY <1>22, <2>2, WorkingLeaves DEF Abort
    <3>4. QED
      BY <1>1, <2>2, <3>2, <3>3, Follows
  <2>3. QED
    BY <1>22, <2>1, <2>2, WorkingLeaves
<1>23. QED
  BY <1>20, <1>21, <1>22, KindsOfSteps

-----------------------------------------------------------------------------
(* What is being done to the register.                                       *)

LEMMA StoreFields ==
  ASSUME NEW e, NEW i
  PROVE  /\ Store(e, i).name = e.name /\ Store(e, i).lock = e.name
         /\ Store(e, i).clear = Field(e) /\ Store(e, i).mask = {} /\ Store(e, i).is = {}
         /\ Store(e, i).set = {e.off + b : b \in {b \in i : b < e.width}}
BY DEF Store, Update

\* A file that is in use stays, and so does an LED.
LEMMA FilesStay ==
  ASSUME CNext, group, NEW u \in Users, Stores(u), pc[u] # "idle"
  PROVE  group'
<1>1. job[u].name \in FileNames
  BY StoreFields DEF Stores, FileNames
<1>2. ~Quiet(FileNames)
  BY <1>1 DEF Quiet
<1>3. CASE Moving
  BY <1>2, <1>3 DEF Moving, files, ProbeBegin, RegisterStep, PassStep, StepFails, AllocHandle,
    InitAttrs, CreateGroup, GroupFails, AddAction, ActionFails, ProbeEnd, RemoveBegin, ReleaseFiles,
    ReleaseOther, Released, RemoveFiles
<1>4. ASSUME NEW t \in Tasks, Asking(t) \/ Working(t) PROVE group'
  BY <1>4, AskingLeaves, WorkingLeaves
<1>5. QED
  BY <1>3, <1>4, KindsOfSteps

LEMMA LedsStay ==
  ASSUME Tables, Stepping, Registered, CNext, NEW u \in Users, pc[u] # "idle",
         LedStep(job[u].name) \in Range(done)
  PROVE  LedStep(job[u].name) \in Range(done')
<1>1. done \in Seq(Range(P) \cup {FilesStep})
  BY DEF Registered
<1>2. CASE UNCHANGED done
  BY <1>2
<1>3. CASE \E x \in Range(P) \cup {FilesStep} : done' = <<x>> \o done
  <2>1. PICK x \in Range(P) \cup {FilesStep} : done' = <<x>> \o done
    BY <1>3
  <2>2. Range(<<x>> \o done) = Range(done) \cup {x}
    <3> DEFINE S == Range(P) \cup {FilesStep}
    <3>1. done \in Seq(S) /\ x \in S
      BY <1>1
    <3> HIDE DEF S
    <3>2. QED
      BY ONLY <3>1, Pushed
  <2>3. QED
    BY <2>1, <2>2
<1>4. CASE done # <<>> /\ done' = Tail(done) /\ Head(done) # LedStep(job[u].name)
  BY <1>1, <1>4, Popped
<1>5. CASE RegisterStep
  BY <1>3, <1>5, Ahead DEF RegisterStep, Waiting
<1>6. CASE AddAction
  BY <1>3, <1>6 DEF AddAction, FilesStep
<1>7. CASE ReleaseFiles \/ ReleaseOther
  BY <1>4, <1>7, NamesOfSteps DEF ReleaseFiles, ReleaseOther, Undoing, Doing
<1>8. CASE ReleaseLed
  <2>1. Head(done).name # job[u].name /\ done # <<>> /\ done' = Tail(done)
    BY <1>8 DEF ReleaseLed, Quiet, Undoing
  <2>2. QED
    BY <1>4, <2>1, NamesOfSteps
<1>9. CASE Moving
  BY <1>2, <1>5, <1>6, <1>7, <1>9 DEF Moving, ProbeBegin, PassStep, StepFails, AllocHandle,
    InitAttrs, CreateGroup, GroupFails, ActionFails, ProbeEnd, RemoveBegin, Released
<1>10. ASSUME NEW t \in Tasks, Asking(t) \/ Working(t) PROVE LedStep(job[u].name) \in Range(done')
  BY <1>2, <1>8, <1>10, AskingLeaves, WorkingLeaves DEF Asking, DefaultBegin
<1>11. QED
  BY <1>9, <1>10, KindsOfSteps

\* What a user is at stays well, if it is at the same.
LEMMA UserGoesOn ==
  ASSUME Tables, Stepping, Registered, Jobs, CNext, NEW u \in Users, pc[u] # "idle", job'[u] = job[u]
  PROVE  \/ Stores(u)' /\ group'
         \/ Switches(u)' /\ LedStep(job'[u].name) \in Range(done')
<1>1. Fixed /\ (IsLed' <=> IsLed)
  BY AllFixed, FixedTables
<1>2. CASE Stores(u) /\ group
  BY <1>1, <1>2, FilesStay DEF Stores, Fixed
<1>3. CASE Switches(u) /\ LedStep(job[u].name) \in Range(done)
  BY <1>1, <1>3, LedsStay DEF Switches, Fixed
<1>4. QED
  BY <1>2, <1>3 DEF Jobs

LEMMA IdleMoves == Jobs /\ Moving => pc[Drv] = "idle"
BY DEF Moving, Waiting, Undoing, Jobs, ProbeBegin, RegisterStep, PassStep, StepFails, AllocHandle,
  InitAttrs, CreateGroup, GroupFails, AddAction, ActionFails, ProbeEnd, RemoveBegin, ReleaseFiles,
  ReleaseOther, Released

LEMMA JobsOfMoving ==
  ASSUME Tables, Stepping, Registered, Jobs, CNext, Moving
  PROVE  Jobs'
<1>1. UNCHANGED <<pc, job>> /\ pc[Drv] = "idle"
  BY MovingLeaves, IdleMoves
<1>2. \A u \in Users : pc'[u] # "idle" =>
        \/ Stores(u)' /\ group'
        \/ Switches(u)' /\ LedStep(job'[u].name) \in Range(done')
  BY <1>1, UserGoesOn
<1>3. QED
  BY <1>1, <1>2 DEF Jobs

\* The driver begins: with a default value of the probe, or to switch off an LED.
LEMMA DriverAsks ==
  ASSUME Tables, Stepping, Registered, Jobs, CNext, Asking(Drv)
  PROVE  \/ bound = "probing" /\ bound' = "probing" /\ Initialises(Drv)' /\ DefaultBegin
         \/ bound = "releasing" /\ bound' = "releasing" /\ SwitchesOff' /\ ReleaseLed
              /\ job'[Drv].name = Head(done).name
<1>1. DOMAIN job = Tasks /\ Drv \in Tasks /\ Fixed /\ P' = P /\ (IsLed' <=> IsLed)
  BY AllFixed, FixedTables DEF Jobs, Tasks
<1>2. CASE DefaultBegin
  <2>1. /\ Waiting("write") /\ UNCHANGED bound /\ todo' = Tail(todo)
        /\ job' = [job EXCEPT ![Drv] = Head(todo).update]
    BY <1>2 DEF DefaultBegin
  <2>2. Passed' = Passed + 1
    BY <1>1, <2>1, GoesOn, WaitingAt
  <2>3. job'[Drv] = P[Passed + 1].update
    BY <1>1, <2>1, WaitingAt
  <2>4. QED
    BY <1>1, <1>2, <2>1, <2>2, <2>3, WaitingAt DEF Initialises
<1>3. CASE ReleaseLed
  <2>1. PICK led \in Drivers[board].panel.set :
          led.name = Head(done).name /\ job' = [job EXCEPT ![Drv] = led.off]
    BY <1>3 DEF ReleaseLed, D
  <2>2. Undoing("led") /\ UNCHANGED bound
    BY <1>3 DEF ReleaseLed
  <2>3. Head(done) \in Range(done) /\ Head(done) \in Range(P) \cup {FilesStep} /\ Head(done).what = "led"
    BY <2>2, Popped DEF Undoing, Registered
  <2>4. IsLed
    <3>1. PICK k \in 1 .. Len(P) : Head(done) = P[k]
      BY <2>3, NamesOfSteps, StepsOfProbe DEF Range
    <3>2. QED
      BY <2>3, <3>1, StepsOfProbe
  <2>5. job'[Drv] = led.off /\ led.off \in LedUpdates(board) /\ led.off.name = led.name
    BY <1>1, <2>1, UpdatesOfTable
  <2>6. QED
    BY <1>1, <1>3, <2>1, <2>2, <2>4, <2>5 DEF Switches, SwitchesOff, Undoing, Fixed
<1>4. QED
  BY <1>2, <1>3, UsersAssumption DEF Asking

LEMMA UserAsks ==
  ASSUME Tables, Registered, Jobs, NEW u \in Users, Asking(u)
  PROVE  \/ Stores(u)' /\ group'
         \/ Switches(u)' /\ LedStep(job'[u].name) \in Range(done')
<1>1. DOMAIN job = Tasks /\ u \in Tasks /\ Fixed /\ (IsLed' <=> IsLed)
  BY AskingLeaves, FixedTables DEF Jobs, Tasks
<1>2. CASE WriteFile(u)
  BY <1>1, <1>2 DEF WriteFile, Ask, files, Stores, Fixed
<1>3. CASE SwitchLed(u)
  <2>1. PICK led \in Drivers[board].panel.set :
          LedStep(led.name) \in Range(done) /\ (Ask(u, led.on) \/ Ask(u, led.off))
    BY <1>3 DEF SwitchLed, D, LedStep
  <2>2. IsLed
    BY <2>1, KindOfRegistered
  <2>3. job'[u] \in {led.on, led.off} /\ UNCHANGED done
    BY <1>1, <2>1 DEF Ask
  <2>4. QED
    BY <1>1, <2>1, <2>2, <2>3, UpdatesOfTable DEF Switches, Fixed
<1>4. QED
  BY <1>2, <1>3, UsersAssumption DEF Asking

LEMMA JobsOfProcesses ==
  ASSUME Tables, Stepping, Registered, Jobs, CNext, NEW t \in Tasks, Asking(t) \/ Working(t)
  PROVE  Jobs'
<1>1. /\ \A s \in Tasks : s # t => pc'[s] = pc[s] /\ job'[s] = job[s]
      /\ pc' \in [Tasks -> {"idle", "asked", "busy"}] /\ DOMAIN job' = Tasks
      /\ Working(t) => pc[t] # "idle" /\ (pc'[t] = "idle" \/ job'[t] = job[t])
  BY OthersStay, WorkingLeaves DEF Jobs
<1>2. ASSUME NEW u \in Users, pc'[u] # "idle"
      PROVE  \/ Stores(u)' /\ group'
             \/ Switches(u)' /\ LedStep(job'[u].name) \in Range(done')
  <2>1. CASE u = t /\ Asking(t)
    BY <2>1, UserAsks
  <2>2. CASE pc[u] # "idle" /\ job'[u] = job[u]
    BY <2>2, UserGoesOn
  <2>3. QED
    BY <1>1, <1>2, <2>1, <2>2 DEF Tasks
<1>3. ASSUME pc'[Drv] # "idle"
      PROVE  \/ bound' = "probing" /\ Initialises(Drv)'
             \/ bound' = "releasing" /\ SwitchesOff'
  <2>1. CASE t = Drv /\ Asking(t)
    BY <2>1, DriverAsks
  <2>2. CASE pc[Drv] # "idle" /\ job'[Drv] = job[Drv] /\ UNCHANGED <<bound, todo>>
    <3>1. Fixed /\ P' = P /\ (IsLed' <=> IsLed) /\ Passed' = Passed
      BY <2>2, AllFixed, FixedTables, Rests
    <3>2. QED
      BY <2>2, <3>1 DEF Jobs, Initialises, Switches, SwitchesOff, Fixed
  <2>3. CASE t = Drv /\ Working(t)
    BY <1>1, <1>3, <2>2, <2>3, WorkingLeaves DEF Working, ReadFails, Done, Jobs
  <2>4. CASE t # Drv
    BY <1>1, <1>3, <2>2, <2>4, AskingLeaves, WorkingLeaves DEF Tasks
  <2>5. QED
    BY <2>1, <2>3, <2>4
<1>4. QED
  BY <1>1, <1>2, <1>3 DEF Jobs

LEMMA JobsOfSteps == Tables /\ Stepping /\ Registered /\ Jobs /\ CNext => Jobs'
BY JobsOfMoving, JobsOfProcesses, KindsOfSteps

-----------------------------------------------------------------------------
(* Locks and values.                                                         *)

LEMMA LocksOfSteps == Jobs /\ Locks /\ CNext => Locks'
<1> SUFFICES ASSUME Jobs, Locks, CNext PROVE Locks'
  OBVIOUS
<1>1. CASE Moving
  BY <1>1, MovingLeaves DEF Locks
<1>2. ASSUME NEW t \in Tasks, Asking(t) \/ Working(t), ~Begin(t) PROVE Locks'
  <2>1. \A s \in Tasks : pc'[s] = "busy" => pc[s] = "busy" /\ job'[s] = job[s]
    BY <1>2, OthersStay DEF Jobs
  <2>2. QED
    BY <2>1 DEF Locks
<1>3. ASSUME NEW t \in Tasks, Begin(t) PROVE Locks'
  <2>1. \A s \in Tasks : job'[s] = job[s] /\ (s # t => pc'[s] = pc[s])
    BY <1>3 DEF Begin, Jobs
  <2>2. \A s \in Tasks \ {t} : pc[s] = "busy" => job[s].lock # job[t].lock \/ job[t].lock = NoLock
    BY <1>3 DEF Begin, LockFree
  <2>3. QED
    BY <2>1, <2>2 DEF Locks
<1>4. QED
  BY <1>1, <1>2, <1>3, KindsOfSteps DEF Working

\* An update changes bits that exist, and of the register of an LED those that may be 1.
LEMMA BitsOfJobs ==
  ASSUME Tables, Stepping, Jobs, NEW t \in Tasks, pc[t] # "idle"
  PROVE  /\ job[t].set \subseteq AllBits
         /\ IsLed => job[t].set \subseteq Live(board, addr)
         /\ ReadsFirst(job[t]) \/ Whole(job[t])
         /\ \/ Stores(t) /\ ~IsLed
            \/ Switches(t) /\ job[t].name # "default"
            \/ Initialises(t) /\ job[t] \in Defaults(board, addr) /\ job[t].name = "default" /\ IsLed
<1>1. CASE Stores(t)
  <2>1. PICK e \in inUse, i \in Inputs : job[t] = Store(e, i)
    BY <1>1 DEF Stores
  <2>2. e.off \in Nat /\ e.width \in Nat /\ e.off + e.width <= 8 /\ i \subseteq AllBits /\ ~IsLed
    BY <2>1, FilesOfTable, UsersAssumption
  <2>3. \A b \in i : b < e.width => e.off + b \in AllBits
    BY <2>2 DEF AllBits
  <2>4. job[t].set \subseteq AllBits
    BY <2>1, <2>3, StoreFields
  <2>5. ReadsFirst(job[t]) \/ Whole(job[t])
    BY <2>1, StoreFields DEF ReadsFirst, Whole
  <2>6. QED
    BY <1>1, <2>2, <2>4, <2>5
<1>2. CASE Switches(t)
  <2>1. job[t] \in LedUpdates(board) /\ IsLed
    BY <1>2 DEF Switches
  <2>2. QED
    BY <1>2, <2>1, UpdatesOfTable, LedOfTable
<1>3. CASE Initialises(t)
  <2>1. job[t] \in Defaults(board, addr) /\ IsLed
    BY <1>3, UpdatesOfTable, StepsOfProbe DEF Initialises
  <2>2. QED
    BY <1>3, <2>1, UpdatesOfTable
<1>4. QED
  BY <1>1, <1>2, <1>3 DEF Jobs, SwitchesOff, Tasks

LEMMA ValuesOfSteps ==
  ASSUME Tables, Stepping, Jobs, Values, CNext
  PROVE  Values'
<1>1. Fixed /\ (IsLed' <=> IsLed) /\ Live(board, addr)' = Live(board, addr)
  BY AllFixed, FixedTables DEF Fixed
<1>2. CASE Moving
  <2>1. UNCHANGED <<reg, seen>> /\ raced' \in BOOLEAN /\ faulty' \in BOOLEAN
    BY <1>2, MovingLeaves DEF Values, ProbeBegin
  <2>2. served' \in BOOLEAN /\ (bound' = "yes" => served') /\ (bound' = "probing" => ~served')
    <3>1. CASE ProbeBegin \/ ProbeEnd
      BY <3>1 DEF ProbeBegin, ProbeEnd
    <3>2. CASE ~ProbeBegin /\ ~ProbeEnd
      <4>1. UNCHANGED served
        BY <1>2, <3>2, MovingLeaves
      <4>2. bound' = bound \/ bound' \in {"releasing", "no"}
        BY <1>2, <3>2 DEF Moving, RegisterStep, PassStep, StepFails, AllocHandle, InitAttrs, CreateGroup,
          GroupFails, AddAction, ActionFails, RemoveBegin, ReleaseFiles, ReleaseOther, Released, Abort
      <4>3. QED
        BY <4>1, <4>2 DEF Values
    <3>3. QED
      BY <3>1, <3>2
  <2>3. QED
    BY <1>1, <2>1, <2>2 DEF Values
<1>3. ASSUME NEW t \in Tasks, Asking(t) PROVE Values'
  BY <1>1, <1>3, AskingLeaves DEF Values
<1>4. ASSUME NEW t \in Tasks, Working(t) PROVE Values'
  <2>1. /\ served' = served /\ (bound' = bound \/ bound' = "releasing")
        /\ raced' \in BOOLEAN /\ faulty' \in BOOLEAN
    BY <1>4, WorkingLeaves DEF Values, Abort, Working, Begin, WriteBack, ReadFails, WriteFails, Races
  <2>2. seen' \in [Tasks -> SUBSET AllBits] /\ \A s \in Tasks : seen'[s] \in {seen[s], reg, {}}
    BY <1>4, WorkingLeaves DEF Values, Begin, Done
  <2>3. reg' = reg \/ reg' = Apply(job[t], seen[t])
    BY <1>4, WorkingLeaves DEF WriteBack
  <2>4. /\ job[t].set \subseteq AllBits /\ (IsLed => job[t].set \subseteq Live(board, addr))
        /\ Apply(job[t], seen[t]) \subseteq seen[t] \cup job[t].set
    BY <1>4, WorkingLeaves, BitsOfJobs DEF Apply
  <2>5. QED
    BY <1>1, <2>1, <2>2, <2>3, <2>4 DEF Values
<1>5. QED
  BY <1>2, <1>3, <1>4, KindsOfSteps

LEMMA CInitInv ==
  ASSUME NEW boards, boards \subseteq DOMAIN Drivers, CInit(boards)
  PROVE  CInv
<1> USE DEF CInit
<1>1. Tables
  BY DEF Tables
<1>2. Stepping
  <2>1. Len(P) \in Nat /\ <<>> \in Seq(Range(P)) /\ Len(<<>>) = 0
    BY <1>1, StepsOfProbe
  <2>2. QED
    BY <2>1 DEF Stepping, Passed
<1>3. Registered /\ FilesFollow
  <2>1. <<>> \in Seq(Range(P) \cup {FilesStep}) /\ DOMAIN <<>> = {}
    OBVIOUS
  <2>2. QED
    BY <2>1 DEF Registered, FilesFollow, Serving, Kept
<1>4. Jobs /\ Locks
  BY DEF Jobs, Locks, Tasks
<1>5. Values
  <2>1. 0 .. 4 \subseteq AllBits
    BY DEF AllBits
  <2>2. 0 .. 4 \subseteq Live(board, addr) /\ {} \subseteq Live(board, addr)
    BY DEF Live
  <2>3. QED
    BY <2>1, <2>2 DEF Values
<1>6. QED
  BY <1>1, <1>2, <1>3, <1>4, <1>5 DEF CInv

LEMMA CStepInv == CInv /\ [CNext]_cvars => CInv'
<1> SUFFICES ASSUME CInv, [CNext]_cvars PROVE CInv'
  OBVIOUS
<1>1. CASE CNext
  <2>1. Tables'
    BY <1>1, AllFixed, FixedTables DEF CInv
  <2>2. Stepping' /\ Registered' /\ FilesFollow'
    BY <1>1, StepOfSteps, RegisteredOfSteps, FilesOfSteps DEF CInv
  <2>3. Jobs' /\ Locks' /\ Values'
    BY <1>1, JobsOfSteps, LocksOfSteps, ValuesOfSteps DEF CInv
  <2>4. QED
    BY <2>1, <2>2, <2>3 DEF CInv
<1>2. CASE UNCHANGED cvars
  <2>1. Fixed /\ P' = P /\ (IsLed' <=> IsLed) /\ Tables'
    BY <1>2, FixedTables DEF cvars, Fixed, CInv
  <2>2. Stepping' /\ Passed' = Passed
    BY <1>2, <2>1, Rests DEF cvars, CInv
  <2>3. Registered' /\ FilesFollow'
    BY <1>2, <2>1, <2>2 DEF cvars, CInv, Registered, FilesFollow, Serving, Kept
  <2>4. Jobs' /\ Locks' /\ Values'
    BY <1>2, <2>1, <2>2 DEF cvars, CInv, Jobs, Locks, Values, Stores, Switches, SwitchesOff, Initialises
  <2>5. QED
    BY <2>1, <2>2, <2>3, <2>4 DEF CInv
<1>3. QED
  BY <1>1, <1>2

\* Every behaviour of the boards is one of the CPLD, or leaves it alone.
LEMMA InitOfCpld == MCInit => CInit(DOMAIN Drivers)
<1>1. Boards1 \subseteq DOMAIN Drivers
  BY DEF Boards1, Range
<1>2. "IcecubePic" \in DOMAIN Drivers
  BY DEF Drivers
<1>3. \A boards : boards \subseteq DOMAIN Drivers /\ CInit(boards) => CInit(DOMAIN Drivers)
  BY DEF CInit
<1>4. Of("cpld", Boards1, "IcecubePic") \subseteq DOMAIN Drivers
  BY <1>1, <1>2 DEF Of
<1>5. QED
  BY <1>3, <1>4 DEF MCInit

LEMMA StepOfCpld == [MCNext]_<<part, cvars, wvars, svars>> => [CNext]_cvars
BY DEF MCNext

LEMMA CInvCorrect == MCSpec => []CInv
<1>1. MCInit => CInv
  BY InitOfCpld, CInitInv
<1>2. QED
  BY <1>1, CStepInv, StepOfCpld, PTL DEF MCSpec

\* A driver's files are there while it is, and no longer; no process uses their
\* memory after it was freed, no table is refused, and no failing step of a probe
\* leaves anything behind.
THEOREM FilesAreThere == MCSpec => []FilesComeAndGo
<1>1. CInv => FilesComeAndGo
  <2> SUFFICES ASSUME CInv PROVE FilesComeAndGo
    OBVIOUS
  <2>1. Tables /\ Stepping /\ Registered /\ FilesFollow /\ Jobs
    BY DEF CInv
  <2>2. Passed \in Nat /\ FilesAt(board, addr) \in Nat /\ (bound = "yes" => Passed = Len(P))
    BY <2>1, PassedRange, FilesOfProbe DEF Stepping
  <2>3. (group => handle = "ready") /\ ~refused
    BY <2>1, <2>2 DEF FilesFollow
  <2>4. ASSUME NEW u \in Users, pc[u] # "idle", job[u].name \in FileNames PROVE handle = "ready"
    <3>1. job[u].name \notin Names
      BY <2>1, <2>4, FilesOfTable DEF FileNames
    <3>2. ~Switches(u)
      BY <2>1, <3>1, UpdatesOfTable DEF Switches
    <3>3. QED
      BY <2>1, <2>3, <2>4, <3>2 DEF Jobs
  <2>5. bound = "no" => handle = "none" /\ ~group
    BY <2>1 DEF FilesFollow, Registered, Serving, Kept
  <2>6. bound = "yes" /\ "files" \in Range(D.probe) => group
    BY <2>1, <2>2, FilesOfProbe, StepsOfProbe DEF FilesFollow, Serving, D
  <2>7. QED
    BY <2>3, <2>4, <2>5, <2>6 DEF FilesComeAndGo
<1>2. QED
  BY <1>1, CInvCorrect, PTL

-----------------------------------------------------------------------------
(* No update is lost.                                                        *)

\* What is about to be written is what would be written now; and a default value
\* has the register to itself.
Current(t) == Apply(job[t], seen[t]) = Apply(job[t], reg)
Separate == Cardinality(inUse) <= 1 /\ ~raced
InOrder ==
  Separate =>
    /\ reg = serial
    /\ \A t \in Tasks : pc[t] = "busy" => Current(t)
    /\ \A s, t \in Tasks : s # t /\ pc[s] = "busy" /\ pc[t] = "busy" => job[s].name # "default"

LEMMA WholeApply ==
  ASSUME NEW u, Whole(u), NEW bits \in SUBSET AllBits
  PROVE  Apply(u, bits) = u.set
BY DEF Whole, Apply

LEMMA OneFile ==
  ASSUME Tables, Cardinality(inUse) <= 1, NEW e \in inUse, NEW f \in inUse
  PROVE  e = f
<1>1. IsFiniteSet(inUse) /\ Cardinality(inUse) \in Nat
  BY FilesOfTable, FS_CardinalityType
<1>2. Cardinality(inUse) # 0
  BY <1>1, FS_EmptySet
<1>3. PICK x : inUse = {x}
  BY <1>1, <1>2, FS_Singleton
<1>4. QED
  BY <1>3

\* Two updates are inside at once only if both write the whole register.
LEMMA TogetherWhole ==
  ASSUME CInv, Cardinality(inUse) <= 1, NEW s \in Tasks, NEW t \in Tasks, s # t,
         pc[s] = "busy", pc[t] = "busy", job[s].name # "default", job[t].name # "default"
  PROVE  Whole(job[s])
<1>1. Tables /\ Stepping /\ Jobs /\ Locks
  BY DEF CInv
<1>2. (Stores(s) /\ Stores(t)) \/ (Switches(s) /\ Switches(t))
  <2>1. (Stores(s) /\ ~IsLed) \/ (Switches(s) /\ IsLed)
    BY <1>1, BitsOfJobs DEF Switches
  <2>2. (Stores(t) /\ ~IsLed) \/ (Switches(t) /\ IsLed)
    BY <1>1, BitsOfJobs DEF Switches
  <2>3. QED
    BY <2>1, <2>2
<1>3. job[s].lock = NoLock \/ job[s].lock # job[t].lock
  BY <1>1 DEF Locks
<1>4. CASE Stores(s) /\ Stores(t)
  <2>1. PICK e \in inUse, f \in inUse : job[s].lock = e.name /\ job[t].lock = f.name
    BY <1>4, StoreFields DEF Stores
  <2>2. e = f /\ e.name # NoLock
    BY <1>1, <2>1, OneFile, FilesOfTable
  <2>3. QED
    BY <1>3, <2>1, <2>2
<1>5. CASE Switches(s) /\ Switches(t)
  <2>1. job[s] \in LedUpdates(board) /\ job[t] \in LedUpdates(board) /\ IsLed
    BY <1>5 DEF Switches
  <2>2. QED
    BY <1>1, <1>3, <2>1, LedOfTable DEF NoLock
<1>6. QED
  BY <1>2, <1>4, <1>5

\* Nobody is at the register of a driver that is not loaded.
LEMMA NobodyThere ==
  ASSUME CInv, bound = "no", NEW t \in Tasks
  PROVE  pc[t] = "idle"
<1>1. Range(done) = {} /\ ~group
  BY DEF CInv, Registered, FilesFollow, Serving, Kept, Range
<1>2. QED
  BY <1>1 DEF CInv, Jobs, Tasks

LEMMA OrderOfSteps == CInv /\ InOrder /\ [CNext]_cvars => InOrder'
<1> SUFFICES ASSUME CInv, InOrder, [CNext]_cvars, Separate' PROVE InOrder'
  BY DEF InOrder
<1> USE DEF InOrder, Separate
<1>1. Tables /\ Stepping /\ Jobs /\ Values /\ CInv'
  BY CStepInv DEF CInv
<1>2. CASE UNCHANGED cvars
  BY <1>2 DEF cvars, Current
<1>3. CASE Moving
  <2>1. CASE ProbeBegin
    BY <1>3, <2>1, MovingLeaves, NobodyThere DEF ProbeBegin
  <2>2. CASE ~ProbeBegin
    BY <1>3, <2>2, MovingLeaves DEF Current, Fixed
  <2>3. QED
    BY <2>1, <2>2
<1>4. ASSUME NEW t \in Tasks, Asking(t) \/ ReadFails(t) \/ WriteFails(t) PROVE InOrder'
  <2>1. /\ UNCHANGED <<inUse, raced, reg, serial>>
        /\ \A s \in Tasks : pc'[s] = "busy" => pc[s] = "busy" /\ job'[s] = job[s] /\ seen'[s] = seen[s]
    <3>1. CASE Asking(t)
      BY <1>1, <1>4, <3>1, AskingLeaves, OthersStay DEF Jobs, Fixed
    <3>2. CASE ReadFails(t) \/ WriteFails(t)
      BY <1>1, <1>4, <3>2 DEF ReadFails, WriteFails, Done, Jobs, Values, config
    <3>3. QED
      BY <1>4, <3>1, <3>2
  <2>2. QED
    BY <2>1 DEF Current
<1>5. ASSUME NEW t \in Tasks, Begin(t) PROVE InOrder'
  <2>1. /\ UNCHANGED <<inUse, reg, serial, job>> /\ ~raced /\ ~Races(t) /\ pc[t] = "asked"
        /\ seen' = [seen EXCEPT ![t] = IF ReadsFirst(job[t]) THEN reg ELSE {}]
        /\ pc' = [pc EXCEPT ![t] = "busy"]
    BY <1>5 DEF Begin, config
  <2>2. Current(t)'
    <3>1. seen'[t] = IF ReadsFirst(job[t]) THEN reg ELSE {}
      BY <1>1, <2>1 DEF Values
    <3>2. ReadsFirst(job[t]) \/ Whole(job[t])
      BY <1>1, <2>1, BitsOfJobs
    <3>3. Apply(job[t], seen'[t]) = Apply(job[t], reg)
      BY <1>1, <3>1, <3>2, WholeApply DEF Values
    <3>4. QED
      BY <2>1, <3>3 DEF Current
  <2>3. ASSUME NEW s \in Tasks, s # t, pc'[s] = "busy"
        PROVE  Current(s)' /\ job'[s].name # "default" /\ job'[t].name # "default"
    <3>1. pc[s] = "busy" /\ seen'[s] = seen[s]
      BY <1>1, <2>1, <2>3 DEF Values, Jobs
    <3>2. QED
      BY <2>1, <2>3, <3>1 DEF Current, Races
  <2>4. \A s, r \in Tasks : s # r /\ pc'[s] = "busy" /\ pc'[r] = "busy" => job'[s].name # "default"
    <3> SUFFICES ASSUME NEW s \in Tasks, NEW r \in Tasks, s # r, pc'[s] = "busy", pc'[r] = "busy"
                 PROVE  job'[s].name # "default"
      OBVIOUS
    <3>1. CASE s # t /\ r # t
      BY <1>1, <2>1, <3>1 DEF Jobs
    <3>2. CASE s = t \/ r = t
      BY <2>3, <3>2
    <3>3. QED
      BY <3>1, <3>2
  <2>5. QED
    BY <2>1, <2>2, <2>3, <2>4
<1>6. ASSUME NEW t \in Tasks, WriteBack(t) PROVE InOrder'
  <2>1. /\ UNCHANGED <<inUse, raced>> /\ pc[t] = "busy"
        /\ reg' = Apply(job[t], seen[t]) /\ serial' = Apply(job[t], serial)
        /\ \A s \in Tasks : pc'[s] = "busy" =>
             s # t /\ pc[s] = "busy" /\ job'[s] = job[s] /\ seen'[s] = seen[s]
    BY <1>1, <1>6 DEF WriteBack, Done, Jobs, Values, config
  <2>2. reg' = serial'
    BY <2>1 DEF Current
  <2>3. ASSUME NEW s \in Tasks, pc'[s] = "busy" PROVE Current(s)'
    <3>1. Whole(job[s])
      BY <2>1, <2>3, TogetherWhole
    <3>2. seen[s] \in SUBSET AllBits /\ reg' \in SUBSET AllBits
      BY <1>1 DEF Values, CInv
    <3>3. Apply(job[s], seen[s]) = Apply(job[s], reg')
      BY <3>1, <3>2, WholeApply
    <3>4. QED
      BY <2>1, <2>3, <3>3 DEF Current
  <2>4. QED
    BY <2>1, <2>2, <2>3
<1>7. QED
  BY <1>2, <1>3, <1>4, <1>5, <1>6, KindsOfSteps DEF Working

\* No update of a file, and none of an LED, is undone by another that had read the
\* register before it, whatever transfers fail.
THEOREM NoWriteLost == MCSpec => []NoLostWrite
<1>1. MCInit => InOrder
  <2> SUFFICES ASSUME MCInit PROVE InOrder
    OBVIOUS
  <2>1. CInit(DOMAIN Drivers)
    BY InitOfCpld
  <2>2. QED
    BY <2>1 DEF CInit, InOrder
<1>2. InOrder => NoLostWrite
  BY DEF InOrder, Separate, NoLostWrite
<1>3. QED
  BY <1>1, <1>2, CInvCorrect, OrderOfSteps, StepOfCpld, PTL DEF MCSpec

-----------------------------------------------------------------------------
(* What an LED shows.                                                        *)

\* The colours that may be lit: all of them while the driver serves, and later
\* those that are still registered, and the one that is being switched off.
Lightable ==
  IF Serving THEN Names
  ELSE {n \in Names : LedStep(n) \in Range(done) \/ (pc[Drv] # "idle" /\ job[Drv].name = n)}

\* The first default value has not been written.
Pending ==
  /\ bound = "probing"
  /\ \/ Passed < ValueAt(board, addr)
     \/ Passed = ValueAt(board, addr) /\ pc[Drv] # "idle"

Claimed == IsLed /\ ~faulty /\ (bound = "probing" \/ served) /\ ~Pending
Clear(names) ==
  /\ ShowsOneOf(board, names, reg)
  /\ \A t \in Tasks : pc[t] = "busy" /\ ReadsFirst(job[t]) => ShowsOneOf(board, names, seen[t])
Coloured == Claimed => Clear(Lightable)

LEMMA MoreColours ==
  ASSUME NEW few, NEW many, few \subseteq many, many \subseteq Names, NEW bits,
         ShowsOneOf(board, few, bits)
  PROVE  ShowsOneOf(board, many, bits)
<1>1. CASE few = Names
  <2>1. many = Names
    BY <1>1
  <2>2. QED
    BY <1>1, <2>1
<1>2. CASE few # Names
  BY <1>2 DEF ShowsOneOf, Names
<1>3. QED
  BY <1>1, <1>2

LEMMA ColoursOfTable ==
  ASSUME Tables, IsLed, NEW bits \in SUBSET Live(board, addr)
  PROVE  /\ \A u \in Defaults(board, addr) : ShowsOneOf(board, Names, Apply(u, bits))
         /\ \A names \in SUBSET Names : \A u \in LedUpdates(board) :
              ShowsOneOf(board, names, bits) /\ u.name \in names =>
                \/ ShowsOneOf(board, names, Apply(u, bits))
                \/ ShowsOneOf(board, names \ {u.name}, Apply(u, bits))
         /\ \A names \in SUBSET Names : \A led \in Drivers[board].panel.set :
              ShowsOneOf(board, names, bits) /\ led.name \in names =>
                ShowsOneOf(board, names \ {led.name}, Apply(led.off, bits))
<1>1. ColoursAreLegal(board, addr)
  BY TableIsLegal DEF Tables, Legal, IsLed
<1>2. ASSUME NEW names \in SUBSET Names, NEW led \in Drivers[board].panel.set,
             ShowsOneOf(board, names, bits), led.name \in names
      PROVE  /\ ShowsOneOf(board, names, Apply(led.on, bits))
             /\ ShowsOneOf(board, names \ {led.name}, Apply(led.off, bits))
  BY <1>1, <1>2 DEF ColoursAreLegal, Names
<1>3. \A u \in Defaults(board, addr) : ShowsOneOf(board, Names, Apply(u, bits))
  BY <1>1 DEF ColoursAreLegal, Names
<1>4. ASSUME NEW names \in SUBSET Names, NEW u \in LedUpdates(board),
             ShowsOneOf(board, names, bits), u.name \in names
      PROVE  \/ ShowsOneOf(board, names, Apply(u, bits))
             \/ ShowsOneOf(board, names \ {u.name}, Apply(u, bits))
  <2>1. PICK led \in Drivers[board].panel.set : u = led.on \/ u = led.off
    BY DEF LedUpdates
  <2>2. u.name = led.name
    BY <2>1, UpdatesOfTable
  <2>3. QED
    BY <1>2, <1>4, <2>1, <2>2
<1>5. QED
  BY <1>2, <1>3, <1>4

\* An update whose colour may be lit leaves the LED with one that may be lit.
LEMMA StaysLit ==
  ASSUME Tables, IsLed, NEW bits \in SUBSET Live(board, addr), NEW names \in SUBSET Names,
         NEW u \in LedUpdates(board), ShowsOneOf(board, names, bits), u.name \in names
  PROVE  ShowsOneOf(board, names, Apply(u, bits))
<1>1. CASE ShowsOneOf(board, names \ {u.name}, Apply(u, bits))
  <2>1. names \ {u.name} \subseteq names /\ names \subseteq Names
    OBVIOUS
  <2>2. QED
    BY <1>1, <2>1, MoreColours
<1>2. QED
  BY <1>1, ColoursOfTable

\* While the first value is pending, no LED is there and no user is at one.
LEMMA PendingAlone ==
  ASSUME CInv, IsLed, Pending
  PROVE  /\ \A n : LedStep(n) \notin Range(done)
         /\ \A u \in Users : pc[u] = "idle"
<1>1. Tables /\ Stepping /\ Registered /\ Jobs
  BY DEF CInv
<1>2. Passed <= ValueAt(board, addr)
  BY <1>1, PassedRange, LedOfTable DEF Pending
<1>3. \A k \in DOMAIN done : done[k].what # "led"
  BY <1>1, <1>2 DEF Registered, Pending
<1>4. \A n : LedStep(n) \notin Range(done)
  BY <1>3, NamesOfSteps DEF Range
<1>5. \A u \in Users : ~Stores(u)
  BY <1>1, FilesOfTable DEF Stores
<1>6. QED
  BY <1>1, <1>4, <1>5 DEF Jobs

\* As long as the driver serves, the colours that are there are all of them.
LEMMA AllAreThere ==
  ASSUME CInv, IsLed, bound = "yes", NEW n \in Names
  PROVE  LedStep(n) \in Range(done)
<1>1. PICK k \in 1 .. Len(P) : P[k] = LedStep(n)
  BY LedOfTable DEF CInv
<1>2. k <= Passed /\ P[k].what = "led"
  BY <1>1, PassedRange, NamesOfSteps DEF CInv, Stepping
<1>3. QED
  BY <1>1, <1>2 DEF CInv, Registered, Serving

LEMMA NameIsLightable ==
  ASSUME CInv, NEW t \in Tasks, pc[t] # "idle", Switches(t)
  PROVE  job[t].name \in Lightable /\ job[t] \in LedUpdates(board)
<1>1. Tables /\ Stepping /\ Registered /\ Jobs /\ IsLed /\ job[t] \in LedUpdates(board) /\ job[t].name \in Names
  BY UpdatesOfTable DEF CInv, Switches
<1>2. CASE t \in Users
  <2>1. LedStep(job[t].name) \in Range(done)
    BY <1>1, <1>2, FilesOfTable DEF Jobs, Stores
  <2>2. QED
    BY <1>1, <2>1 DEF Lightable
<1>3. CASE t = Drv
  BY <1>1, <1>3 DEF Lightable
<1>4. QED
  BY <1>2, <1>3 DEF Tasks

LEMMA ColoursOfMoving ==
  ASSUME CInv, Coloured, CNext, Moving, Claimed'
  PROVE  Clear(Lightable)'
<1>1. /\ Tables /\ Stepping /\ Registered /\ Jobs /\ Values /\ Fixed /\ (IsLed' <=> IsLed) /\ IsLed
      /\ Names' = Names /\ P' = P /\ UNCHANGED <<reg, job, pc, seen>> /\ pc[Drv] = "idle"
      /\ Passed \in Nat /\ ValueAt(board, addr) \in 1 .. Len(P) /\ P[ValueAt(board, addr)].what = "write"
      /\ Len(P) \in Nat /\ UNCHANGED <<board, addr>> /\ Drv \in Tasks
  BY MovingLeaves, IdleMoves, FixedTables, PassedRange, LedOfTable, StepsOfProbe
  DEF CInv, Claimed, Fixed, Tasks
<1>2. ~ProbeBegin
  <2> SUFFICES ASSUME ProbeBegin PROVE FALSE
    OBVIOUS
  <2>1. Passed' = 0 /\ bound' = "probing"
    BY <1>1, Starts DEF ProbeBegin, P
  <2>2. QED
    BY <1>1, <2>1 DEF Claimed, Pending
<1>3. UNCHANGED faulty /\ (ProbeEnd \/ UNCHANGED served)
  BY <1>2, MovingLeaves
\* Where a step goes.
<1>4. \/ bound = "probing" /\ bound' = "probing" /\ Passed' = Passed + 1 /\ P[Passed + 1].what # "write"
      \/ bound = "probing" /\ bound' = "releasing" /\ ~ProbeEnd
      \/ ProbeEnd
      \/ RemoveBegin
      \/ ReleaseFiles \/ ReleaseOther
      \/ Released
  <2>1. CASE RegisterStep \/ PassStep \/ AllocHandle \/ CreateGroup \/ AddAction
             \/ (InitAttrs /\ UNCHANGED bound /\ todo' = Tail(todo))
    <3>1. /\ \E w \in Doing \cup {"trigger", "unmask", "alloc", "attrs", "group", "action"} : Waiting(w)
          /\ UNCHANGED bound /\ todo' = Tail(todo)
      BY <2>1 DEF RegisterStep, PassStep, AllocHandle, InitAttrs, CreateGroup, AddAction
    <3>2. PICK w \in Doing \cup {"trigger", "unmask", "alloc", "attrs", "group", "action"} : Waiting(w)
      BY <3>1
    <3>3. w # "write"
      BY DEF Doing
    <3>4. bound = "probing" /\ todo # <<>> /\ P[Passed + 1].what # "write"
      BY <1>1, <3>2, <3>3, WaitingAt
    <3>5. Passed' = Passed + 1
      BY <1>1, <3>1, <3>4, GoesOn
    <3>6. QED
      BY <3>1, <3>4, <3>5
  <2>2. CASE StepFails \/ GroupFails \/ ActionFails \/ (InitAttrs /\ Abort)
    <3>1. bound = "probing" /\ bound' = "releasing"
      BY <2>2 DEF StepFails, GroupFails, ActionFails, InitAttrs, Abort, Waiting
    <3>2. ~ProbeEnd
      BY <3>1 DEF ProbeEnd
    <3>3. QED
      BY <3>1, <3>2
  <2>3. InitAttrs => (UNCHANGED bound /\ todo' = Tail(todo)) \/ Abort
    BY DEF InitAttrs
  <2>4. QED
    BY <1>2, <2>1, <2>2, <2>3 DEF Moving
<1>5. Claimed
  <2>1. bound = "probing" \/ served
    BY <1>3, <1>4 DEF Claimed, ProbeEnd, RemoveBegin, ReleaseFiles, ReleaseOther, Released, Undoing
  <2>2. ~Pending
    <3> SUFFICES ASSUME Pending PROVE FALSE
      OBVIOUS
    <3>1. bound = "probing" /\ Passed < ValueAt(board, addr) /\ ~served
      BY <1>1 DEF Pending, Values
    <3>2. CASE bound' = "probing" /\ Passed' = Passed + 1 /\ P[Passed + 1].what # "write"
      <4>1. Passed + 1 # ValueAt(board, addr)
        BY <1>1, <3>2
      <4>2. Passed' < ValueAt(board, addr)
        BY <1>1, <3>1, <3>2, <4>1
      <4>3. QED
        BY <1>1, <3>2, <4>2 DEF Claimed, Pending
    <3>3. CASE bound' = "releasing" /\ ~ProbeEnd
      BY <1>3, <3>1, <3>3 DEF Claimed
    <3>4. CASE ProbeEnd
      BY <1>1, <3>1, <3>4, PassedRange DEF ProbeEnd
    <3>5. QED
      BY <1>4, <3>1, <3>2, <3>3, <3>4 DEF RemoveBegin, ReleaseFiles, ReleaseOther, Released, Undoing
  <2>3. QED
    BY <1>1, <1>3, <2>1, <2>2 DEF Claimed
<1>6. Clear(Lightable)
  BY <1>5 DEF Coloured
<1>7. Lightable \subseteq Lightable' /\ Lightable' \subseteq Names
  <2>1. Lightable' \subseteq Names /\ Lightable \subseteq Names
    BY <1>1 DEF Lightable
  <2>2. CASE Serving'
    BY <1>1, <2>1, <2>2 DEF Lightable
  <2>3. CASE RemoveBegin
    <3>1. bound = "yes" /\ UNCHANGED done
      BY <2>3 DEF RemoveBegin
    <3>2. \A n \in Names : LedStep(n) \in Range(done)'
      BY <1>1, <3>1, AllAreThere
    <3>3. QED
      BY <1>1, <2>1, <3>2 DEF Lightable
  <2>4. CASE ReleaseFiles \/ ReleaseOther
    <3>1. /\ done # <<>> /\ done' = Tail(done) /\ Head(done).what # "led"
          /\ bound = "releasing" /\ bound' = "releasing"
      BY <2>4 DEF ReleaseFiles, ReleaseOther, Undoing, Doing
    <3>2. \A n : LedStep(n) \in Range(done) => LedStep(n) \in Range(done')
      BY <1>1, <3>1, Popped, NamesOfSteps DEF Registered
    <3>3. QED
      BY <1>1, <3>1, <3>2 DEF Lightable, Serving
  <2>5. CASE Released
    BY <1>1, <2>1, <2>5 DEF Released, Lightable, Serving, Range
  <2>6. CASE bound = "probing" /\ bound' = "releasing" /\ ~ProbeEnd
    BY <1>1, <1>3, <2>6 DEF Claimed, Values
  <2>7. QED
    BY <1>4, <2>2, <2>3, <2>4, <2>5, <2>6 DEF Serving, ProbeEnd
<1>8. \A bits : ShowsOneOf(board, Lightable, bits) => ShowsOneOf(board, Lightable', bits)
  BY <1>7, MoreColours
<1>9. QED
  BY <1>1, <1>6, <1>8 DEF Clear

LEMMA ColoursOfAsking ==
  ASSUME CInv, Coloured, CNext, NEW t \in Tasks, Asking(t), Claimed'
  PROVE  Clear(Lightable)'
<1>1. /\ Tables /\ Stepping /\ Registered /\ Jobs /\ Fixed /\ (IsLed' <=> IsLed) /\ IsLed
      /\ Names' = Names /\ P' = P /\ UNCHANGED <<bound, reg, seen, faulty, served, board, addr>>
      /\ pc[t] = "idle" /\ pc'[t] = "asked"
      /\ \A s \in Tasks : s # t => pc'[s] = pc[s] /\ job'[s] = job[s]
      /\ Drv \in Tasks /\ Drv \notin Users
      /\ Passed \in Nat /\ ValueAt(board, addr) \in Nat
  BY AskingLeaves, AllFixed, FixedTables, OthersStay, UsersAssumption, PassedRange, LedOfTable
  DEF CInv, Claimed, Fixed, Jobs, Tasks
<1>2. CASE t \in Users
  <2>1. UNCHANGED <<todo, done>> /\ Passed' = Passed /\ pc'[Drv] = pc[Drv] /\ job'[Drv] = job[Drv]
    BY <1>1, <1>2, AskingLeaves, Rests
  <2>2. Claimed
    BY <1>1, <2>1 DEF Claimed, Pending
  <2>3. Lightable' = Lightable
    BY <1>1, <2>1 DEF Lightable, Serving
  <2>4. QED
    BY <1>1, <2>2, <2>3 DEF Coloured, Clear
<1>3. CASE t = Drv /\ DefaultBegin
  <2>1. bound = "probing" /\ Passed' = Passed + 1
    BY <1>1, <1>3, GoesOn DEF DefaultBegin, Waiting
  <2>2. Claimed
    BY <1>1, <1>3, <2>1 DEF Claimed, Pending
  <2>3. Lightable' = Lightable
    BY <1>1, <2>1 DEF Lightable, Serving
  <2>4. QED
    BY <1>1, <2>2, <2>3 DEF Coloured, Clear
<1>4. CASE t = Drv /\ ReleaseLed
  <2>1. /\ bound = "releasing" /\ job'[Drv].name = Head(done).name /\ done # <<>> /\ done' = Tail(done)
    BY <1>1, <1>4, DriverAsks DEF ReleaseLed, Undoing
  <2>2. Claimed
    BY <1>1, <2>1 DEF Claimed, Pending
  <2>3. Lightable \subseteq Lightable' /\ Lightable' \subseteq Names
    <3>1. Lightable' \subseteq Names
      BY <1>1 DEF Lightable
    <3>2. ASSUME NEW n \in Lightable PROVE n \in Lightable'
      <4>1. LedStep(n) \in Range(done) /\ n \in Names
        BY <1>1, <1>4, <2>1 DEF Lightable, Serving
      <4>2. LedStep(n) = Head(done) \/ LedStep(n) \in Range(done')
        BY <1>1, <2>1, <4>1, Popped DEF Registered
      <4>3. LedStep(n) = Head(done) => job'[Drv].name = n
        BY <2>1, NamesOfSteps
      <4>4. QED
        BY <1>1, <1>4, <2>1, <4>1, <4>2, <4>3 DEF Lightable, Serving
    <3>3. QED
      BY <3>1, <3>2
  <2>4. \A bits : ShowsOneOf(board, Lightable, bits) => ShowsOneOf(board, Lightable', bits)
    BY <2>3, MoreColours
  <2>5. QED
    BY <1>1, <2>2, <2>4 DEF Coloured, Clear
<1>5. QED
  BY <1>2, <1>3, <1>4 DEF Asking

\* A process inside an update of an LED, before the register is written: nobody
\* else has read what will no longer be there.
LEMMA OnlyReader ==
  ASSUME CInv, IsLed, NEW s \in Tasks, NEW t \in Tasks, s # t, Switches(s), Switches(t),
         pc[s] = "busy", pc[t] = "busy"
  PROVE  ~ReadsFirst(job[s])
<1>1. Tables /\ Stepping /\ Jobs /\ inUse = {}
  BY FilesOfTable DEF CInv
<1>2. Cardinality(inUse) <= 1
  BY <1>1, FS_EmptySet
<1>3. job[s].name # "default" /\ job[t].name # "default"
  BY <1>1, UpdatesOfTable, LedOfTable DEF Switches
<1>4. QED
  BY <1>2, <1>3, TogetherWhole DEF Whole, ReadsFirst

\* A write by a user, with what it has read or the register now.
LEMMA UpdateShows ==
  ASSUME Tables, Values, IsLed, NEW t \in Tasks, NEW names \in SUBSET Names, Clear(names), pc[t] = "busy",
         job[t] \in LedUpdates(board)
  PROVE  /\ \E bits \in SUBSET Live(board, addr) :
              ShowsOneOf(board, names, bits) /\ Apply(job[t], seen[t]) = Apply(job[t], bits)
<1>1. reg \in SUBSET Live(board, addr) /\ seen[t] \in SUBSET Live(board, addr)
      /\ reg \in SUBSET AllBits /\ seen[t] \in SUBSET AllBits
  BY DEF Values
<1>2. CASE ReadsFirst(job[t])
  BY <1>1, <1>2 DEF Clear
<1>3. CASE ~ReadsFirst(job[t])
  <2>1. Whole(job[t])
    BY <1>3, UpdatesOfTable
  <2>2. Apply(job[t], seen[t]) = Apply(job[t], reg)
    BY <1>1, <2>1, WholeApply
  <2>3. QED
    BY <1>1, <2>2 DEF Clear
<1>4. QED
  BY <1>2, <1>3

LEMMA ColoursOfWorking ==
  ASSUME CInv, Coloured, CNext, NEW t \in Tasks, Working(t), Claimed'
  PROVE  Clear(Lightable)'
<1>1. /\ Tables /\ Stepping /\ Registered /\ Jobs /\ Values /\ Fixed /\ (IsLed' <=> IsLed) /\ IsLed
      /\ Names' = Names /\ P' = P /\ UNCHANGED <<done, served, board, addr>>
      /\ DOMAIN job = Tasks /\ pc[t] # "idle"
      /\ \A s \in Tasks : s # t => pc'[s] = pc[s] /\ job'[s] = job[s]
      /\ Drv \in Tasks /\ Drv \notin Users
      /\ Passed \in Nat /\ ValueAt(board, addr) \in Nat
      /\ Lightable \subseteq Names
  BY WorkingLeaves, AllFixed, FixedTables, OthersStay, UsersAssumption, PassedRange, LedOfTable
  DEF CInv, Claimed, Fixed, Jobs, Tasks, Lightable
<1>2. ~(t = Drv /\ (ReadFails(t) \/ WriteFails(t)))
  BY DEF ReadFails, WriteFails, Claimed
<1>3. UNCHANGED <<bound, todo>> /\ Passed' = Passed
  <2>1. UNCHANGED <<bound, todo>>
    BY <1>2, WorkingLeaves
  <2>2. QED
    BY <1>1, <2>1, Rests
<1>4. CASE Begin(t)
  <2>1. /\ UNCHANGED <<reg, job, faulty>> /\ pc[t] = "asked" /\ pc' = [pc EXCEPT ![t] = "busy"]
        /\ seen' = [seen EXCEPT ![t] = IF ReadsFirst(job[t]) THEN reg ELSE {}]
    BY <1>4 DEF Begin
  <2>2. pc'[Drv] # "idle" <=> pc[Drv] # "idle"
    BY <1>1, <2>1 DEF Jobs
  <2>3. Claimed /\ Lightable' = Lightable
    BY <1>1, <1>3, <2>1, <2>2 DEF Claimed, Pending, Lightable, Serving
  <2>4. Clear(Lightable)
    BY <2>3 DEF Coloured
  <2>5. ASSUME NEW s \in Tasks, pc'[s] = "busy", ReadsFirst(job'[s])
        PROVE  ShowsOneOf(board, Lightable, seen'[s])
    BY <1>1, <2>1, <2>4, <2>5 DEF Clear, Values, Jobs
  <2>6. QED
    BY <1>1, <2>1, <2>3, <2>4, <2>5 DEF Clear
<1>5. CASE ReadFails(t) \/ WriteFails(t)
  <2>1. UNCHANGED <<reg, faulty>> /\ t # Drv /\ Done(t)
    <3>1. t # Drv
      BY <1>2, <1>5
    <3>2. UNCHANGED reg /\ Done(t) /\ faulty' = (faulty \/ t = Drv)
      BY <1>5 DEF ReadFails, WriteFails
    <3>3. faulty \in BOOLEAN
      BY <1>1 DEF Values
    <3>4. QED
      BY <3>1, <3>2, <3>3
  <2>2. Claimed /\ Lightable' = Lightable
    BY <1>1, <1>3, <2>1 DEF Claimed, Pending, Lightable, Serving
  <2>3. \A s \in Tasks : pc'[s] = "busy" => s # t /\ pc[s] = "busy" /\ job'[s] = job[s] /\ seen'[s] = seen[s]
    BY <1>1, <2>1 DEF Done, Jobs, Values
  <2>4. QED
    BY <1>1, <2>1, <2>2, <2>3 DEF Coloured, Clear
<1>6. CASE WriteBack(t)
  <2>1. UNCHANGED faulty /\ pc[t] = "busy" /\ reg' = Apply(job[t], seen[t]) /\ Done(t)
    BY <1>6 DEF WriteBack
  <2>2. /\ seen[t] \in SUBSET Live(board, addr)
        /\ \A s \in Tasks : pc'[s] = "busy" => s # t /\ pc[s] = "busy" /\ job'[s] = job[s] /\ seen'[s] = seen[s]
        /\ Lightable' \subseteq Names
    BY <1>1, <2>1 DEF Done, Jobs, Values, Lightable
  <2>3. CASE Initialises(t)
    <3>1. t = Drv /\ bound = "probing"
      <4>1. t = Drv /\ job[t] \in Defaults(board, addr)
        BY <1>1, <2>3, UpdatesOfTable DEF Initialises
      <4>2. ~Switches(t)
        BY <1>1, <4>1, UpdatesOfTable, LedOfTable DEF Switches
      <4>3. QED
        BY <1>1, <4>1, <4>2 DEF Jobs, SwitchesOff
    <3>2. ShowsOneOf(board, Names, reg')
      BY <1>1, <2>1, <2>2, <2>3, BitsOfJobs, ColoursOfTable, UpdatesOfTable DEF Initialises
    <3>3. Lightable' = Names /\ (~Pending => Lightable = Names)
      BY <1>1, <1>3, <3>1 DEF Lightable, Serving
    <3>4. CASE Pending
      <4>1. \A s \in Tasks : pc'[s] # "busy"
        BY <1>1, <2>2, <3>1, <3>4, PendingAlone DEF Tasks
      <4>2. QED
        BY <1>1, <3>2, <3>3, <4>1 DEF Clear
    <3>5. CASE ~Pending
      <4>1. Claimed
        BY <1>1, <1>3, <2>1, <3>1, <3>5 DEF Claimed
      <4>2. QED
        BY <1>1, <2>2, <3>2, <3>3, <3>5, <4>1 DEF Clear, Coloured
    <3>6. QED
      BY <3>4, <3>5
  <2>4. CASE Switches(t)
    <3>1. job[t] \in LedUpdates(board) /\ job[t].name \in Lightable
      BY <1>1, <2>4, NameIsLightable
    <3>2. ~Pending
      <4>1. Pending => t = Drv /\ bound = "probing"
        BY <1>1, PendingAlone DEF Pending, Tasks
      <4>2. t = Drv /\ bound = "probing" => job[t].name = "default"
        BY <1>1, UpdatesOfTable DEF Jobs, Initialises
      <4>3. job[t].name # "default"
        BY <1>1, <3>1, UpdatesOfTable, LedOfTable
      <4>4. QED
        BY <4>1, <4>2, <4>3
    <3>3. Clear(Lightable)
      BY <1>1, <1>3, <2>1, <3>2 DEF Claimed, Coloured
    <3>4. PICK bits \in SUBSET Live(board, addr) :
            ShowsOneOf(board, Lightable, bits) /\ reg' = Apply(job[t], bits)
      BY <1>1, <2>1, <3>1, <3>3, UpdateShows
    <3>5. CASE t \in Users
      <4>1. Lightable' = Lightable
        BY <1>1, <1>3, <3>5 DEF Lightable, Serving
      <4>2. ShowsOneOf(board, Lightable, reg')
        BY <1>1, <3>1, <3>4, StaysLit
      <4>3. QED
        BY <1>1, <2>2, <3>3, <4>1, <4>2 DEF Clear
    <3>6. CASE t = Drv
      <4>1. bound = "releasing" /\ SwitchesOff
        <5>1. job[t].name # "default"
          BY <1>1, <3>1, UpdatesOfTable, LedOfTable
        <5>2. ~Initialises(t)
          BY <1>1, <5>1, UpdatesOfTable DEF Initialises
        <5>3. QED
          BY <1>1, <3>6, <5>2 DEF Jobs
      <4>2. PICK led \in Drivers[board].panel.set : job[Drv] = led.off
        BY <4>1 DEF SwitchesOff
      <4>3. led.off.name = led.name
        BY <1>1, UpdatesOfTable
      <4>4. ShowsOneOf(board, Lightable \ {led.name}, reg')
        BY <1>1, <3>1, <3>4, <3>6, <4>2, <4>3, ColoursOfTable
      <4>5. Lightable \ {led.name} \subseteq Lightable'
        BY <1>1, <1>3, <4>1, <4>2, <4>3 DEF Lightable, Serving
      <4>6. ShowsOneOf(board, Lightable', reg')
        BY <2>2, <4>4, <4>5, MoreColours
      <4>7. ASSUME NEW s \in Tasks, pc'[s] = "busy" PROVE ~ReadsFirst(job'[s])
        <5>1. s # t /\ pc[s] = "busy" /\ job'[s] = job[s] /\ s \in Users
          BY <2>2, <3>6, <4>7 DEF Tasks
        <5>2. Switches(s)
          BY <1>1, <5>1, FilesOfTable DEF Jobs, Stores
        <5>3. QED
          BY <1>1, <2>1, <2>4, <5>1, <5>2, OnlyReader
      <4>8. QED
        BY <1>1, <4>6, <4>7 DEF Clear
    <3>7. QED
      BY <3>5, <3>6 DEF Tasks
  <2>5. QED
    BY <1>1, <2>1, <2>3, <2>4, BitsOfJobs
<1>7. QED
  BY <1>4, <1>5, <1>6 DEF Working

LEMMA ColoursOfSteps == CInv /\ Coloured /\ [CNext]_cvars => Coloured'
<1> SUFFICES ASSUME CInv, Coloured, [CNext]_cvars PROVE Coloured'
  OBVIOUS
<1>1. CASE CNext
  BY <1>1, ColoursOfMoving, ColoursOfAsking, ColoursOfWorking, KindsOfSteps DEF Coloured
<1>2. CASE UNCHANGED cvars
  <2>1. Fixed /\ P' = P /\ Names' = Names /\ (IsLed' <=> IsLed)
    BY <1>2, FixedTables DEF cvars, Fixed, CInv
  <2>2. Passed' = Passed
    BY <1>2, <2>1 DEF cvars, Passed
  <2>3. Claimed' = Claimed /\ Lightable' = Lightable
    BY <1>2, <2>1, <2>2 DEF cvars, Claimed, Pending, Lightable, Serving
  <2>4. QED
    BY <1>2, <2>3 DEF cvars, Coloured, Clear
<1>3. QED
  BY <1>1, <1>2

LEMMA ColouredCorrect == MCSpec => []Coloured
<1>1. MCInit => Coloured
  <2> SUFFICES ASSUME MCInit PROVE Coloured
    OBVIOUS
  <2>1. CInit(DOMAIN Drivers)
    BY InitOfCpld
  <2>2. QED
    BY <2>1 DEF CInit, Coloured, Claimed
<1>2. QED
  BY <1>1, CInvCorrect, ColoursOfSteps, StepOfCpld, PTL DEF MCSpec

\* In every order in which users switch its colours, whatever transfers of theirs
\* fail, an LED shows one that brightness_get reports, or is dark, or is left to
\* the hardware.
THEOREM AColourIsShown == MCSpec => []ShowsAColour
<1>1. CInv /\ Coloured => ShowsAColour
  <2> SUFFICES ASSUME CInv, Coloured, bound = "yes", ~faulty, IsLed
               PROVE  \/ Lit(D.panel.dark, reg)
                      \/ \E p \in D.panel.auto : Lit(p, reg)
                      \/ \E c \in D.panel.get : Lit(c, reg)
    BY DEF ShowsAColour, IsLed, D
  <2>1. Claimed
    BY DEF Claimed, Pending, CInv, Values
  <2>2. QED
    BY <2>1 DEF Coloured, Clear, ShowsOneOf, D
<1>2. QED
  BY <1>1, CInvCorrect, ColouredCorrect, PTL

\* However often its colours were switched before, an LED is dark when a driver
\* that has served is gone.
THEOREM DarkAfterwards == MCSpec => []DarkWhenReleased
<1>1. CInv /\ Coloured => DarkWhenReleased
  <2> SUFFICES ASSUME CInv, Coloured, bound = "no", served, ~faulty, IsLed
               PROVE  Lit(D.panel.dark, reg)
    BY DEF DarkWhenReleased, IsLed, D
  <2>1. Claimed
    BY DEF Claimed, Pending
  <2>2. Lightable = {}
    <3>1. Range(done) = {}
      BY DEF CInv, Registered, Range
    <3>2. pc[Drv] = "idle"
      BY NobodyThere DEF Tasks
    <3>3. QED
      BY <3>1, <3>2 DEF Lightable, Serving
  <2>3. Names # {}
    BY LedOfTable DEF CInv
  <2>4. QED
    BY <2>1, <2>2, <2>3 DEF Coloured, Clear, ShowsOneOf, D, Names
<1>2. QED
  BY <1>1, CInvCorrect, ColouredCorrect, PTL

\* What the chip has measured.
Measured == chip \in Raws \cup {0}

LEMMA MeasuredCorrect == MCSpec => []Measured
<1>1. MCInit => Measured
  BY DEF MCInit, SInit, Measured
<1>2. Measured /\ [SNext]_svars => Measured'
  <2>1. \A raw \in Raws : Measure(raw) => Measured'
    BY DEF Measure, Measured
  <2>2. \A u, v, attr, fails :
          ReadFirst(u, attr, fails) \/ ReadSecond(u, fails) \/ ReadByte(u, fails) \/ Refuse(u, v)
          \/ WriteHigh(u, v) \/ WriteLow(u) \/ WriteBreaks(u) => UNCHANGED chip
    BY DEF ReadFirst, ReadSecond, ReadByte, Refuse, WriteHigh, WriteLow, WriteBreaks
  <2>3. QED
    BY <2>1, <2>2 DEF Measured, SNext, svars
<1>3. Measured /\ [MCNext]_<<part, cvars, wvars, svars>> => Measured'
  BY <1>2 DEF MCNext, svars, Measured
<1>4. QED
  BY <1>1, <1>3, PTL DEF MCSpec

\* The variables of every part have their types.
THEOREM TypeCorrect == MCSpec => []TypeOK
<1>1. CInv => CTypeOK
  <2> SUFFICES ASSUME CInv PROVE CTypeOK
    OBVIOUS
  <2>1. \A t \in Tasks : bound = "no" => pc[t] = "idle"
    BY NobodyThere
  <2>2. handle \in {"none", "allocated", "ready"}
    BY DEF CInv, FilesFollow
  <2>3. QED
    BY <2>1, <2>2 DEF CTypeOK, CInv, Stepping, FilesFollow, Jobs, Values
<1>2. WInv => WTypeOK
  BY DEF WInv, WTypeOK, Flags, Numbers, TIMEOUT_MAX, Unit
<1>3. SInv /\ Measured => STypeOK
  BY KindOfCall, FieldsOfCalls DEF SInv, STypeOK, Measured, Registers
<1>4. QED
  BY <1>1, <1>2, <1>3, CInvCorrect, WInvCorrect, SInvCorrect, MeasuredCorrect, PTL DEF TypeOK
=============================================================================
