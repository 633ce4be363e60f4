------------------------------ MODULE FanProofs ------------------------------
(***************************************************************************)
(* Proofs about FanCpld, for every set of processes, configurations and     *)
(* boards.                                                                 *)
(***************************************************************************)
EXTENDS FanCpld, SequenceTheorems, TLAPS

Sane == {c \in Config : c.fans \in 1 .. MaxFans /\ c.max \in 1 .. 255}
Channels == [tach : Nat, trays : Nat]

ThreadTypes ==
  /\ board \in Boards
  /\ bound \in {"no", "probing", "yes", "releasing"}
  /\ open \subseteq Users
  /\ pc \in [Threads -> {"idle", "configure", "pwm", "mode"} \cup Holding]
  /\ DOMAIN want = Threads
  /\ lock \in Users \cup {Nobody}
  /\ wdtOn \in BOOLEAN

TableTypes ==
  /\ config \in Sane \cup {NoConfig} /\ configured \in BOOLEAN
  /\ table \in Channels /\ table.tach <= 2 * MaxFans /\ table.trays <= MaxFans

DeviceTypes == hwmons \in Seq(Channels) /\ wdds \in Seq(BOOLEAN)

CountTypes == leds \in Nat /\ slot \in Nat /\ failed \in 0 .. MaxFailed

DataTypes == TableTypes /\ DeviceTypes /\ CountTypes

RegTypes ==
  /\ byte \in [Threads -> Bytes]
  /\ pwmReg \in Bytes /\ serial \in Bytes

\* Who holds the lock, who may be in an ioctl, and what each was asked for.
Turns ==
  /\ pc[Drv] \in {"idle"} \cup Applying
  /\ pc[Drv] \in Applying <=> ~Generic /\ bound = "probing"
  /\ \A u \in Users : lock = u <=> pc[u] \in Holding
  /\ open # {} => Generic /\ bound = "yes"
  /\ \A u \in Users : pc[u] \in {"configure"} \cup Applying => u \in open
  /\ \A u \in Users : pc[u] = "configure" => want[u] \in Sane
  /\ \A u \in Users : pc[u] \in {"pwm", "put_pwm"} => want[u] \in Bytes
  /\ \A u \in Users : pc[u] \in {"mode", "put_mode"} => want[u] \in {0, 1}

\* The register holds what the writes give one after the other, and one that has
\* read it has read its present value.
Register ==
  /\ pwmReg = serial
  /\ \A u \in Users : pc[u] = "put_pwm" => byte[u] = PutPwm(pwmReg, want[u])
  /\ \A u \in Users : pc[u] = "put_mode" => byte[u] = PutMode(pwmReg, want[u])

\* A device is there only for a configuration.
Configured ==
  hwmons # <<>> \/ (\E t \in Threads : pc[t] \in Applying) => config \in Sane

Inv == ThreadTypes /\ DataTypes /\ RegTypes /\ Turns /\ Register /\ Configured

\* How far the one attempt to configure has got, unless it failed.
Blank == hwmons = <<>> /\ wdds = <<>> /\ leds = 0
Named == config \in Sane /\ hwmons = <<Shown(config)>>
All == Named /\ Len(wdds) = 1 /\ leds = config.fans * config.colours

Stage(t) ==
  /\ pc[t] = "hwmon" => Blank /\ config \in Sane /\ table = Shown(config)
  /\ pc[t] \in {"stop", "wdt"} => Named /\ wdds = <<>> /\ leds = 0
  /\ pc[t] = "leds" =>
       /\ Named /\ Len(wdds) = 1
       /\ leds = slot /\ leds < config.fans * config.colours

Untouched == Blank /\ table = Empty /\ ~configured
Underway == \E t \in Threads : pc[t] \in Applying

Progress ==
  failed = 0 =>
    /\ \A t \in Threads : Stage(t)
    /\ InForce => All
    /\ Generic /\ ~configured /\ ~Underway => Untouched
    /\ Underway => ~configured
    /\ bound = "no" => Untouched

FanInv == Inv /\ Progress
LEMMA Constants ==
  /\ Drv \notin Users /\ Nobody \notin Users /\ Nobody # Drv
  /\ NoConfig \notin Sane /\ NoConfig \notin Config
  /\ \A c \in Configs : Valid(c) => c \in Sane
  /\ \A b \in Boards : b = NoConfig \/ b \in Sane
  /\ PwmValues \subseteq Nat /\ MaxFailed \in Nat
  /\ <<>> \in Seq(Channels) /\ <<>> \in Seq(BOOLEAN)
  /\ Empty \in Channels /\ Empty.tach <= 2 * MaxFans /\ Empty.trays <= MaxFans
BY ConstantsAssumption DEF Threads, Sane, Valid, Empty, Channels, MaxFans

\* What is written to the PWM register is a byte.
LEMMA Bits ==
  /\ \A b, v \in Bytes : PutPwm(b, v) \in Bytes
  /\ \A b \in Bytes, v \in {0, 1} : PutMode(b, v) \in Bytes
<1>1. \A b \in Bytes : b \div ModeBit \in {0, 1}
  BY DEF Bytes, ModeBit
<1>2. ASSUME NEW b \in Bytes, NEW v \in Bytes PROVE PutPwm(b, v) \in Bytes
  <2>1. CASE b \div ModeBit = 0
    BY <2>1 DEF PutPwm, Bytes, ModeBit
  <2>2. CASE b \div ModeBit = 1
    BY <2>2 DEF PutPwm, Bytes, ModeBit
  <2>3. QED
    BY <1>1, <2>1, <2>2
<1>3. \A b \in Bytes, v \in {0, 1} : PutMode(b, v) \in Bytes
  BY DEF PutMode, Bytes, ModeBit
<1>4. QED
  BY <1>2, <1>3

\* A sane configuration fits the tables, and fills them exactly when they are empty.
LEMMA Fits ==
  ASSUME NEW c \in Sane
  PROVE  /\ Shown(c) \in Channels
         /\ Shown(c).tach <= 2 * MaxFans /\ Shown(c).trays <= MaxFans
         /\ table = Empty => Filled(c) = Shown(c)
         /\ table \in Channels /\ table.tach <= 2 * MaxFans /\ table.trays <= MaxFans =>
              /\ Filled(c) \in Channels
              /\ Filled(c).tach <= 2 * MaxFans /\ Filled(c).trays <= MaxFans
BY DEF Sane, Config, Shown, Filled, Tachs, Larger, Channels, Empty, MaxFans

LEMMA InvInit == Init => FanInv
<1> SUFFICES ASSUME Init PROVE FanInv
  OBVIOUS
<1> USE Constants DEF Init, Fresh, Threads, MaxFans
<1>1. ThreadTypes
  BY DEF ThreadTypes, Holding
<1>2. DataTypes
  <2>1. TableTypes
    BY DEF TableTypes
  <2>2. DeviceTypes
    BY DEF DeviceTypes
  <2>3. CountTypes
    BY DEF CountTypes
  <2>4. QED
    BY <2>1, <2>2, <2>3 DEF DataTypes
<1>3. RegTypes
  BY DEF RegTypes, Bytes
<1>4. Turns
  BY DEF Turns, Holding, Applying
<1>5. Register /\ Configured
  BY DEF Register, Configured, Applying
<1>6. Progress
  BY DEF Progress, Stage, InForce, Untouched, Blank, Underway, Applying, Generic
<1>7. QED
  BY <1>1, <1>2, <1>3, <1>4, <1>5, <1>6 DEF FanInv, Inv

-----------------------------------------------------------------------------
(* Every step preserves Inv.                                                 *)

LEMMA CallStep ==
  ASSUME Inv, NEW u \in Users,
         Open(u) \/ Close(u) \/ (\E c \in Configs : Configure(u, c)) \/ Busy(u)
  PROVE  Inv'
<1> USE Constants DEF Inv, Threads, MaxFans, Open, Close, Configure, Busy, Return, Goto, what, regs
<1>1. ThreadTypes'
  BY DEF ThreadTypes, Holding
<1>2. DataTypes'
  BY DEF DataTypes, TableTypes, DeviceTypes, CountTypes
<1>3. RegTypes'
  BY DEF RegTypes, Bytes
<1>4. Turns'
  BY DEF Turns, ThreadTypes, Holding, Applying, Generic
<1>5. Register'
  BY DEF Register, ThreadTypes, RegTypes
<1>6. Configured'
  BY DEF Configured, ThreadTypes, Applying
<1>7. QED
  BY <1>1, <1>2, <1>3, <1>4, <1>5, <1>6

LEMMA BeginStep ==
  ASSUME Inv, NEW u \in Users, ApplyBegin(u)
  PROVE  Inv'
<1> USE Constants DEF Inv, Threads, MaxFans, ApplyBegin, Take, Goto, regs
<1>1. want[u] \in Sane
  BY DEF Turns
<1>2. ThreadTypes'
  BY DEF ThreadTypes, Holding, Applying
<1>3. DataTypes'
  BY <1>1, Fits DEF DataTypes, TableTypes, DeviceTypes, CountTypes
<1>4. RegTypes'
  BY DEF RegTypes
<1>5. Turns'
  BY DEF Turns, ThreadTypes, Holding, Applying, Generic
<1>6. Register'
  BY DEF Register, ThreadTypes
<1>7. Configured'
  BY <1>1 DEF Configured
<1>8. QED
  BY <1>2, <1>3, <1>4, <1>5, <1>6, <1>7

LEMMA ApplyStep ==
  ASSUME Inv, NEW t \in Threads, Apply(t) \/ ApplyFails(t)
  PROVE  Inv'
<1> USE Constants DEF Inv, Threads, MaxFans, Applied, Return, Goto, regs, what
<1>1. /\ pc[t] \in Applying /\ config \in Sane
      /\ t = Drv <=> ~Generic
      /\ t \in Users => lock = t
      /\ UNCHANGED <<board, open, config, table, pwmReg, serial>>
  BY DEF Apply, RegisterHwmon, StopWatchdog, RegisterWatchdog, RegisterLed, ApplyFails,
         Turns, Applying, Holding, Configured, Generic
<1>2. ThreadTypes'
  BY DEF Apply, RegisterHwmon, StopWatchdog, RegisterWatchdog, RegisterLed, ApplyFails,
         ThreadTypes, Holding, Applying
<1>3. DataTypes'
  <2>1. TableTypes'
    BY DEF Apply, RegisterHwmon, StopWatchdog, RegisterWatchdog, RegisterLed, ApplyFails,
           DataTypes, TableTypes
  <2>2. DeviceTypes'
    <3>1. CASE RegisterHwmon(t)
      BY <3>1 DEF RegisterHwmon, DataTypes, TableTypes, DeviceTypes
    <3>2. CASE RegisterWatchdog(t)
      BY <3>2 DEF RegisterWatchdog, DataTypes, DeviceTypes
    <3>3. CASE StopWatchdog(t) \/ RegisterLed(t) \/ ApplyFails(t)
      BY <3>3 DEF StopWatchdog, RegisterLed, ApplyFails, DataTypes, DeviceTypes
    <3>4. QED
      BY <3>1, <3>2, <3>3 DEF Apply
  <2>3. CountTypes'
    <3>1. CASE RegisterHwmon(t) \/ StopWatchdog(t)
      BY <3>1 DEF RegisterHwmon, StopWatchdog, DataTypes, CountTypes
    <3>2. CASE RegisterWatchdog(t)
      BY <3>2 DEF RegisterWatchdog, DataTypes, CountTypes
    <3>3. CASE RegisterLed(t)
      BY <3>3 DEF RegisterLed, DataTypes, CountTypes
    <3>4. CASE ApplyFails(t)
      BY <3>4 DEF ApplyFails, DataTypes, CountTypes
    <3>5. QED
      BY <3>1, <3>2, <3>3, <3>4 DEF Apply
  <2>4. QED
    BY <2>1, <2>2, <2>3 DEF DataTypes
<1>4. \/ /\ \E w \in Applying : pc' = [pc EXCEPT ![t] = w]
         /\ UNCHANGED <<bound, lock, want, byte>>
      \/ /\ pc' = [pc EXCEPT ![t] = "idle"]
         /\ want' = [want EXCEPT ![t] = NoConfig]
         /\ byte' = [byte EXCEPT ![t] = 0]
         /\ IF Generic THEN lock' = Nobody /\ bound' = bound
            ELSE bound' \in {"yes", "releasing"} /\ lock' = lock
  <2>1. pc = [pc EXCEPT ![t] = pc[t]]
    BY DEF ThreadTypes
  <2>2. CASE RegisterHwmon(t) \/ StopWatchdog(t)
    BY <2>2 DEF RegisterHwmon, StopWatchdog, Applying
  <2>3. CASE RegisterWatchdog(t)
    BY <2>3 DEF RegisterWatchdog, Applying
  <2>4. CASE RegisterLed(t)
    BY <2>1, <2>4 DEF RegisterLed, Applying
  <2>5. CASE ApplyFails(t)
    BY <2>5 DEF ApplyFails
  <2>6. QED
    BY <2>2, <2>3, <2>4, <2>5 DEF Apply
<1>5. RegTypes'
  BY <1>1, <1>4 DEF RegTypes, Bytes
<1>6. Register'
  <2>1. \A u \in Users : pc'[u] \in {"put_pwm", "put_mode"} =>
          pc'[u] = pc[u] /\ byte'[u] = byte[u] /\ want'[u] = want[u]
    BY <1>1, <1>4 DEF RegTypes, ThreadTypes, Applying
  <2>2. QED
    BY <1>1, <2>1 DEF Register
<1>7. Turns'
  <2>1. /\ \A v \in Threads : v # t => pc'[v] = pc[v] /\ want'[v] = want[v]
        /\ pc'[t] \in {"idle"} \cup Applying
        /\ pc'[t] = "idle" => IF Generic THEN lock' = Nobody /\ bound' = bound
                             ELSE bound' \in {"yes", "releasing"} /\ lock' = lock
        /\ pc'[t] # "idle" => UNCHANGED <<bound, lock>>
    BY <1>4 DEF ThreadTypes, Applying
  <2>2. CASE t = Drv
    BY <1>1, <2>1, <2>2 DEF Turns, Applying, Holding, Generic
  <2>3. CASE t \in Users
    BY <1>1, <2>1, <2>3 DEF Turns, Applying, Holding, Generic
  <2>4. QED
    BY <2>2, <2>3
<1>8. Configured'
  BY <1>1 DEF Configured
<1>9. QED
  BY <1>2, <1>3, <1>5, <1>6, <1>7, <1>8

LEMMA HwmonStep ==
  ASSUME Inv, NEW u \in Users,
         \/ \E v \in PwmValues : PwmInputWrite(u, v)
         \/ \E v \in {0, 1} : PwmEnableWrite(u, v)
         \/ Hwmon(u)
  PROVE  Inv'
<1> USE Constants DEF Inv, Threads, MaxFans, Goto, regs, what
<1>1. CASE \/ \E v \in PwmValues : PwmInputWrite(u, v)
           \/ \E v \in {0, 1} : PwmEnableWrite(u, v)
  <2>1. config \in Sane /\ config.max \in 1 .. 255
    BY <1>1 DEF PwmInputWrite, PwmEnableWrite, HwmonBegin, Configured, Sane
  <2>2. PICK w \in {"pwm", "mode"}, v \in Bytes :
          HwmonBegin(u, w, v) /\ (w = "mode" => v \in {0, 1})
    BY <1>1, <2>1 DEF PwmInputWrite, PwmEnableWrite, Bytes
  <2>3. ThreadTypes'
    BY <2>2 DEF HwmonBegin, ThreadTypes
  <2>4. DataTypes' /\ RegTypes'
    BY <2>2 DEF HwmonBegin, DataTypes, TableTypes, DeviceTypes, CountTypes, RegTypes
  <2>5. Turns'
    BY <2>2 DEF HwmonBegin, Turns, ThreadTypes, Holding, Applying, Generic
  <2>6. Register' /\ Configured'
    BY <2>2 DEF HwmonBegin, Register, Configured, ThreadTypes
  <2>7. QED
    BY <2>3, <2>4, <2>5, <2>6
<1>2. CASE ReadPwm(u)
  <2>1. ThreadTypes' /\ DataTypes'
    BY <1>2 DEF ReadPwm, Take, ThreadTypes, Holding, DataTypes, TableTypes,
                      DeviceTypes, CountTypes
  <2>2. RegTypes'
    BY <1>2, Bits DEF ReadPwm, Turns, RegTypes
  <2>3. Turns'
    BY <1>2 DEF ReadPwm, Take, Turns, ThreadTypes, Holding, Applying, Generic
  <2>4. Register' /\ Configured'
    BY <1>2 DEF ReadPwm, Register, Configured, ThreadTypes, RegTypes, Applying
  <2>5. QED
    BY <2>1, <2>2, <2>3, <2>4
<1>3. CASE ReadPwmFails(u)
  <2>1. ThreadTypes' /\ DataTypes'
    BY <1>3 DEF ReadPwmFails, Return, ThreadTypes, Holding, DataTypes, TableTypes,
                      DeviceTypes, CountTypes
  <2>2. RegTypes'
    BY <1>3 DEF ReadPwmFails, Return, RegTypes, Bytes
  <2>3. Turns'
    BY <1>3 DEF ReadPwmFails, Return, Turns, ThreadTypes, Holding, Applying, Generic
  <2>4. Register' /\ Configured'
    BY <1>3 DEF ReadPwmFails, Return, Register, Configured, ThreadTypes, RegTypes, Applying
  <2>5. QED
    BY <2>1, <2>2, <2>3, <2>4
<1>4. CASE WritePwm(u) \/ WritePwmFails(u)
  <2>1. ThreadTypes' /\ DataTypes'
    BY <1>4 DEF WritePwm, WritePwmFails, Return, ThreadTypes, Holding, DataTypes,
                      TableTypes, DeviceTypes, CountTypes
  <2>2. /\ lock = u /\ \A v \in Users : v # u => pc[v] \notin Holding
        /\ pwmReg' \in Bytes /\ pwmReg' = serial'
    BY <1>4 DEF WritePwm, WritePwmFails, Turns, Register, RegTypes, Holding
  <2>3. RegTypes'
    BY <1>4, <2>2 DEF WritePwm, WritePwmFails, Return, RegTypes, Bytes
  <2>4. Turns'
    BY <1>4 DEF WritePwm, WritePwmFails, Return, Turns, ThreadTypes, Holding, Applying, Generic
  <2>5. Register' /\ Configured'
    BY <1>4, <2>2 DEF WritePwm, WritePwmFails, Return, Register, Configured, ThreadTypes,
                      Holding, Applying
  <2>6. QED
    BY <2>1, <2>3, <2>4, <2>5
<1>5. QED
  BY <1>1, <1>2, <1>3, <1>4 DEF Hwmon

LEMMA WatchdogStep ==
  ASSUME Inv, Watchdog
  PROVE  /\ Inv' /\ Len(wdds') = Len(wdds)
         /\ UNCHANGED <<board, bound, open, pc, config, configured, table, hwmons, leds,
                        slot, failed>>
<1> USE DEF Inv, Watchdog, WdtStart, WdtPing, WdtStop, regs, what
<1>1. wdds' \in Seq(BOOLEAN) /\ Len(wdds') = Len(wdds)
  <2>1. wdds \in Seq(BOOLEAN) /\ DOMAIN wdds = 1 .. Len(wdds)
    BY DEF DataTypes, DeviceTypes
  <2>2. PICK k \in DOMAIN wdds, b \in BOOLEAN : wdds' \in {wdds, [wdds EXCEPT ![k] = b]}
    OBVIOUS
  <2>3. QED
    BY <2>1, <2>2, ExceptSeq
<1>2. ThreadTypes' /\ DataTypes' /\ RegTypes'
  BY <1>1 DEF ThreadTypes, DataTypes, TableTypes, DeviceTypes, CountTypes, RegTypes
<1>3. Turns' /\ Register' /\ Configured'
  BY DEF Turns, Register, Configured, Generic
<1>4. QED
  BY <1>1, <1>2, <1>3

LEMMA BindingStep ==
  ASSUME Inv, Probe \/ ProbePlatform \/ Remove \/ Release
  PROVE  Inv'
<1> USE Constants DEF Inv, Threads, MaxFans, Goto, regs, what
<1>1. CASE Probe \/ Remove
  <2>1. ThreadTypes' /\ DataTypes' /\ RegTypes'
    BY <1>1 DEF Probe, Remove, ThreadTypes, DataTypes, TableTypes, DeviceTypes,
                      CountTypes, RegTypes
  <2>2. Turns' /\ Register' /\ Configured'
    BY <1>1 DEF Probe, Remove, Turns, Register, Configured, Generic
  <2>3. QED
    BY <2>1, <2>2
<1>2. CASE ProbePlatform
  <2>1. board \in Sane
    BY <1>2 DEF ProbePlatform, Generic, ThreadTypes
  <2>2. ThreadTypes' /\ RegTypes'
    BY <1>2 DEF ProbePlatform, ThreadTypes, RegTypes, Holding, Applying
  <2>3. DataTypes'
    BY <1>2, <2>1, Fits DEF ProbePlatform, DataTypes, TableTypes, DeviceTypes, CountTypes
  <2>4. Turns'
    BY <1>2 DEF ProbePlatform, Turns, ThreadTypes, Generic, Applying
  <2>5. Register' /\ Configured'
    BY <1>2, <2>1 DEF ProbePlatform, Register, Configured, ThreadTypes
  <2>6. QED
    BY <2>2, <2>3, <2>4, <2>5
<1>3. CASE Release
  <2>1. ThreadTypes' /\ RegTypes'
    BY <1>3 DEF Release, ThreadTypes, RegTypes
  <2>2. DataTypes'
    <3>1. TableTypes'
      BY <1>3 DEF Release, TableTypes
    <3>2. DeviceTypes'
      BY <1>3 DEF Release, DeviceTypes
    <3>3. CountTypes'
      BY <1>3 DEF Release, CountTypes
    <3>4. QED
      BY <3>1, <3>2, <3>3 DEF DataTypes
  <2>3. Turns' /\ Register'
    BY <1>3 DEF Release, Turns, Register, Generic
  <2>4. \A t \in Threads : pc'[t] \notin Applying
    BY <1>3 DEF Release, Turns, Applying
  <2>5. Configured'
    BY <1>3, <2>4 DEF Release, Configured
  <2>6. QED
    BY <2>1, <2>2, <2>3, <2>5
<1>4. QED
  BY <1>1, <1>2, <1>3

LEMMA InvStep == Inv /\ [Next]_vars => Inv'
<1> SUFFICES ASSUME Inv, [Next]_vars PROVE Inv'
  OBVIOUS
<1>1. CASE UNCHANGED vars
  BY <1>1 DEF vars, what, regs, Inv, ThreadTypes, DataTypes, TableTypes, DeviceTypes,
              CountTypes, RegTypes, Turns, Register, Configured, Generic
<1>2. CASE Next
  BY <1>2, CallStep, BeginStep, ApplyStep, HwmonStep, WatchdogStep, BindingStep
  DEF Next, User
<1>3. QED
  BY <1>1, <1>2
-----------------------------------------------------------------------------
(* The one attempt to configure goes through its stages.                      *)

LEMMA ProgressKept ==
  ASSUME Progress, UNCHANGED <<board, bound, config, configured, table, hwmons, leds,
                               slot, failed>>,
         wdds' = <<>> <=> wdds = <<>>, Len(wdds') = Len(wdds),
         \A t \in Threads : pc[t] \in Applying \/ pc'[t] \in Applying => pc'[t] = pc[t]
  PROVE  Progress'
<1>1. (Underway <=> Underway') /\ (Generic <=> Generic') /\ (InForce <=> InForce')
  BY DEF Underway, Generic, InForce
<1>2. SUFFICES ASSUME failed = 0
              PROVE  /\ \A t \in Threads : Stage(t)'
                     /\ InForce' => All'
                     /\ Generic' /\ ~configured' /\ ~Underway' => Untouched'
                     /\ Underway' => ~configured'
                     /\ bound' = "no" => Untouched'
  BY DEF Progress
<1>3. \A t \in Threads : Stage(t)'
  BY <1>2 DEF Progress, Stage, Blank, Named, Applying, Shown, Tachs
<1>4. (All => All') /\ (Untouched => Untouched')
  BY DEF All, Named, Untouched, Blank, Shown, Tachs
<1>5. QED
  BY <1>1, <1>2, <1>3, <1>4 DEF Progress

LEMMA ProgressCallStep ==
  ASSUME Inv, Progress, NEW u \in Users,
         \/ Open(u) \/ Close(u) \/ (\E c \in Configs : Configure(u, c)) \/ Busy(u)
         \/ \E v \in PwmValues : PwmInputWrite(u, v)
         \/ \E v \in {0, 1} : PwmEnableWrite(u, v)
         \/ Hwmon(u)
  PROVE  Progress'
<1>1. UNCHANGED <<board, bound, what>>
  BY DEF Open, Close, Configure, Busy, PwmInputWrite, PwmEnableWrite, HwmonBegin, Hwmon,
         ReadPwm, ReadPwmFails, WritePwm, WritePwmFails
<1>2. \A t \in Threads : pc[t] \in Applying \/ pc'[t] \in Applying => pc'[t] = pc[t]
  BY DEF Open, Close, Configure, Busy, PwmInputWrite, PwmEnableWrite, HwmonBegin, Hwmon,
         ReadPwm, ReadPwmFails, WritePwm, WritePwmFails, Goto, Return, Applying,
         Inv, ThreadTypes
<1>3. QED
  BY <1>1, <1>2, ProgressKept DEF what

LEMMA ProgressWatchdogStep ==
  ASSUME Inv, Progress, Watchdog
  PROVE  Progress'
<1>1. Inv' /\ Len(wdds') = Len(wdds)
  BY WatchdogStep
<1>2. wdds' = <<>> <=> wdds = <<>>
  BY <1>1, EmptySeq DEF Inv, DataTypes, DeviceTypes
<1>3. QED
  BY <1>1, <1>2, WatchdogStep, ProgressKept

\* Only one thread at a time applies a configuration.
LEMMA OneApplies ==
  ASSUME Inv, NEW t \in Threads, NEW v \in Threads,
         pc[t] \in Applying, pc[v] \in Applying
  PROVE  t = v
BY DEF Inv, Turns, Threads, Holding, Generic

LEMMA ProgressBeginStep ==
  ASSUME Inv, Progress, NEW u \in Users, ApplyBegin(u)
  PROVE  Progress'
<1> USE Constants DEF Inv, Threads
<1>1. SUFFICES ASSUME failed = 0 PROVE Progress'
  BY DEF Progress, ApplyBegin
<1>2. Generic /\ bound = "yes" /\ want[u] \in Sane /\ ~configured /\ ~Underway
  BY DEF ApplyBegin, Take, Turns, Underway, Holding
<1>3. Untouched
  BY <1>1, <1>2 DEF Progress
<1>4. config' = want[u] /\ table' = Shown(want[u])
  BY <1>2, <1>3, Fits DEF ApplyBegin, Untouched
<1>5. UNCHANGED <<board, bound, configured, hwmons, wdds, leds, slot>>
      /\ pc' = [pc EXCEPT ![u] = "hwmon"]
  BY DEF ApplyBegin, Goto
<1>6. \A t \in Threads : Stage(t)'
  BY <1>2, <1>3, <1>4, <1>5 DEF Stage, Untouched, Blank, Underway, ThreadTypes, Applying,
                              Shown, Tachs
<1>7. Generic' /\ Underway' /\ ~configured' /\ bound' = "yes"
  BY <1>2, <1>5 DEF Generic, Underway, ThreadTypes, Applying
<1>8. QED
  BY <1>6, <1>7 DEF Progress, InForce

LEMMA ProgressApplyStep ==
  ASSUME Inv, Progress, NEW t \in Threads, Apply(t) \/ ApplyFails(t)
  PROVE  Progress'
<1> USE Constants DEF Inv, Goto
<1>1. SUFFICES ASSUME failed' = 0 PROVE Progress'
  BY DEF Progress
<1>2. /\ pc[t] \in Applying /\ failed = 0 /\ Underway /\ ~configured
      /\ bound # "no" /\ Stage(t) /\ config \in Sane
      /\ UNCHANGED <<board, config, table, failed>>
  <2>1. pc[t] \in Applying /\ UNCHANGED <<board, config, table>>
        /\ (ApplyFails(t) /\ Generic => failed' = failed + 1)
        /\ (~(ApplyFails(t) /\ Generic) => failed' = failed)
    BY DEF Apply, RegisterHwmon, StopWatchdog, RegisterWatchdog, RegisterLed, ApplyFails,
           Applying, what
  <2>2. failed = 0 /\ failed' = failed
    BY <1>1, <2>1 DEF DataTypes, CountTypes
  <2>3. Underway /\ config \in Sane
    BY <2>1 DEF Underway, Configured
  <2>4. bound # "no"
    BY <2>1 DEF Turns, Threads, Holding
  <2>5. QED
    BY <2>1, <2>2, <2>3, <2>4 DEF Progress
<1>3. \A v \in Threads : v # t => pc[v] \notin Applying
  BY <1>2, OneApplies
<1>4. ASSUME pc'[t] \in Applying, bound' = bound, configured' = configured,
             \A v \in Threads : v # t => pc'[v] = pc[v], Stage(t)'
      PROVE  Progress'
  <2>1. \A v \in Threads : Stage(v)'
    BY <1>3, <1>4 DEF Stage, Applying
  <2>2. Underway' /\ ~configured' /\ bound' # "no"
    BY <1>2, <1>4 DEF Underway
  <2>3. ~InForce'
    BY <1>2, <1>4 DEF InForce, Generic, Turns, Threads, Holding
  <2>4. QED
    BY <2>1, <2>2, <2>3 DEF Progress
<1>5. CASE RegisterHwmon(t)
  <2>1. /\ pc' = [pc EXCEPT ![t] = "stop"] /\ UNCHANGED <<bound, configured, wdds, leds>>
        /\ hwmons' = Append(hwmons, table) /\ pc[t] = "hwmon"
    BY <1>5 DEF RegisterHwmon
  <2>2. hwmons' = <<Shown(config)>> /\ wdds = <<>> /\ leds = 0
    BY <1>2, <2>1 DEF Stage, Blank
  <2>3. Stage(t)'
    BY <1>2, <2>1, <2>2 DEF Stage, Named, ThreadTypes, Shown, Tachs
  <2>4. QED
    BY <1>4, <2>1, <2>3 DEF ThreadTypes, Applying
<1>6. CASE StopWatchdog(t)
  <2>1. /\ pc' = [pc EXCEPT ![t] = "wdt"] /\ pc[t] = "stop" /\ bound' = bound
        /\ UNCHANGED what
    BY <1>6 DEF StopWatchdog
  <2>2. Stage(t)'
    BY <1>2, <2>1 DEF Stage, Named, ThreadTypes, Shown, Tachs, what
  <2>3. QED
    BY <1>4, <2>1, <2>2 DEF ThreadTypes, Applying, what
<1>7. ASSUME Applied(t), All' PROVE Progress'
  <2>1. /\ pc' = [pc EXCEPT ![t] = "idle"]
        /\ Generic => configured' /\ bound' = bound
        /\ ~Generic => bound' = "yes" /\ configured' = configured
    BY <1>7 DEF Applied, Return
  <2>2. \A v \in Threads : pc'[v] \notin Applying
    BY <1>3, <2>1 DEF ThreadTypes, Applying
  <2>3. (\A v \in Threads : Stage(v)') /\ ~Underway'
    BY <2>2 DEF Stage, Underway, Applying
  <2>4. (Generic' => configured') /\ bound' # "no"
    BY <1>2, <2>1 DEF Generic
  <2>5. QED
    BY <1>7, <2>3, <2>4 DEF Progress
<1>8. CASE RegisterWatchdog(t)
  <2>1. pc[t] = "wdt" /\ Named /\ wdds = <<>> /\ leds = 0
    BY <1>2, <1>8 DEF RegisterWatchdog, Stage
  <2>2. /\ wdds' = <<FALSE>> /\ Len(wdds') = 1 /\ Named' /\ leds' = 0 /\ slot' = 0
    BY <1>2, <1>8, <2>1 DEF RegisterWatchdog, Named, Shown, Tachs
  <2>3. CASE config.colours = 0
    <3>1. config.fans * config.colours = 0
      BY <1>2, <2>3 DEF Sane, Config
    <3>2. All'
      BY <1>2, <2>2, <3>1 DEF All
    <3>3. QED
      BY <1>7, <1>8, <2>3, <3>2 DEF RegisterWatchdog
  <2>4. CASE config.colours # 0
    <3>1. pc' = [pc EXCEPT ![t] = "leds"] /\ UNCHANGED <<bound, configured>>
      BY <1>8, <2>4 DEF RegisterWatchdog
    <3>2. 0 < config.fans * config.colours
      BY <1>2, <2>4 DEF Sane, Config, MaxFans
    <3>3. Stage(t)'
      BY <1>2, <2>2, <3>1, <3>2 DEF Stage, ThreadTypes
    <3>4. QED
      BY <1>4, <3>1, <3>3 DEF ThreadTypes, Applying
  <2>5. QED
    BY <2>3, <2>4
<1>9. CASE RegisterLed(t)
  <2>1. /\ pc[t] = "leds" /\ Named /\ Len(wdds) = 1
        /\ leds = slot /\ leds < config.fans * config.colours
        /\ leds' = leds + 1 /\ slot' = slot + 1 /\ UNCHANGED <<hwmons, wdds>>
    BY <1>2, <1>9 DEF RegisterLed, Stage
  <2>2. Named' /\ Len(wdds') = 1 /\ leds' = slot'
    BY <1>2, <2>1 DEF Named, Shown, Tachs
  <2>3. CASE slot' = config.fans * config.colours
    <3>1. All'
      BY <1>2, <2>2, <2>3 DEF All
    <3>2. QED
      BY <1>7, <1>9, <2>3, <3>1 DEF RegisterLed
  <2>4. CASE slot' # config.fans * config.colours
    <3>1. UNCHANGED <<pc, bound, configured>>
      BY <1>9, <2>4 DEF RegisterLed
    <3>2. leds + 1 < config.fans * config.colours
      <4>1. config.fans * config.colours \in Nat
        BY <1>2 DEF Sane, Config
      <4>2. QED
        BY <2>1, <2>4, <4>1 DEF DataTypes, CountTypes
    <3>3. Stage(t)'
      BY <1>2, <2>1, <2>2, <3>1, <3>2 DEF Stage
    <3>4. QED
      BY <1>2, <1>4, <3>1, <3>3
  <2>5. QED
    BY <2>3, <2>4
<1>10. CASE ApplyFails(t)
  <2>1. ~Generic /\ bound' = "releasing" /\ pc' = [pc EXCEPT ![t] = "idle"]
    BY <1>2, <1>10 DEF ApplyFails, Return, DataTypes, CountTypes
  <2>2. \A v \in Threads : pc'[v] \notin Applying
    BY <1>3, <2>1 DEF ThreadTypes, Applying
  <2>3. (\A v \in Threads : Stage(v)') /\ ~Underway'
    BY <2>2 DEF Stage, Underway, Applying
  <2>4. QED
    BY <1>2, <2>1, <2>3 DEF Progress, InForce, Generic
<1>11. QED
  BY <1>5, <1>6, <1>8, <1>9, <1>10 DEF Apply

LEMMA ProgressBindingStep ==
  ASSUME Inv, Progress, Probe \/ ProbePlatform \/ Remove \/ Release
  PROVE  Progress'
<1> USE Constants DEF Inv, Threads, Goto
<1>1. SUFFICES ASSUME failed' = 0 PROVE Progress'
  BY DEF Progress
<1>2. CASE Probe \/ Remove
  <2>1. /\ failed = 0 /\ UNCHANGED <<board, pc, what>> /\ bound' # "no"
        /\ ~Generic => bound' # "yes"
    BY <1>1, <1>2 DEF Probe, Remove, what
  <2>2. \A t \in Threads : Stage(t)'
    BY <2>1 DEF Progress, Stage, Blank, Named, what, Shown, Tachs
  <2>3. /\ (Underway <=> Underway') /\ (Generic <=> Generic') /\ (InForce' => InForce)
        /\ (All => All') /\ (Untouched => Untouched')
    BY <2>1 DEF Underway, Generic, InForce, All, Named, Untouched, Blank, what, Shown, Tachs
  <2>4. QED
    BY <2>1, <2>2, <2>3 DEF Progress, what
<1>3. CASE ProbePlatform
  <2>1. /\ failed = 0 /\ Untouched /\ board \in Sane /\ ~Generic
        /\ config' = board /\ table' = Shown(board) /\ bound' = "probing"
        /\ pc' = [pc EXCEPT ![Drv] = "hwmon"]
        /\ UNCHANGED <<board, configured, hwmons, wdds, leds>>
    BY <1>1, <1>3 DEF ProbePlatform, Progress, ThreadTypes, Generic
  <2>2. \A t \in Threads : t # Drv => pc[t] \notin Applying
    BY <2>1 DEF Turns
  <2>3. \A t \in Threads : Stage(t)'
    BY <2>1, <2>2 DEF Stage, Untouched, Blank, ThreadTypes, Applying, Shown, Tachs
  <2>4. ~InForce' /\ ~Generic' /\ ~configured'
    BY <2>1 DEF InForce, Generic, Untouched
  <2>5. QED
    BY <2>1, <2>3, <2>4 DEF Progress
<1>4. CASE Release
  <2>1. \A t \in Threads : pc'[t] \notin Applying
    BY <1>4 DEF Release, Turns, Applying
  <2>2. (\A t \in Threads : Stage(t)') /\ ~Underway'
    BY <2>1 DEF Stage, Underway, Applying
  <2>3. Untouched' /\ bound' = "no" /\ ~configured'
    BY <1>4 DEF Release, Untouched, Blank
  <2>4. QED
    BY <2>2, <2>3 DEF Progress, InForce
<1>5. QED
  BY <1>2, <1>3, <1>4

LEMMA FanInvStep == FanInv /\ [Next]_vars => FanInv'
<1> SUFFICES ASSUME FanInv, [Next]_vars PROVE FanInv'
  OBVIOUS
<1>1. Inv /\ Progress /\ Inv'
  BY InvStep DEF FanInv
<1>2. CASE UNCHANGED vars
  BY <1>1, <1>2, ProgressKept DEF vars, what, FanInv
<1>3. CASE Next
  BY <1>1, <1>3, ProgressCallStep, ProgressBeginStep, ProgressApplyStep,
     ProgressWatchdogStep, ProgressBindingStep DEF Next, User, FanInv
<1>4. QED
  BY <1>2, <1>3

LEMMA FanInvCorrect == Spec => []FanInv
BY InvInit, FanInvStep, PTL DEF Spec

-----------------------------------------------------------------------------

\* Every variable has its type, and a process holds the lock exactly while it
\* applies a configuration or is between reading and writing the PWM register.
THEOREM TypeCorrect == Spec => []TypeOK
<1>1. FanInv => TypeOK
  <2> SUFFICES ASSUME FanInv PROVE TypeOK
    OBVIOUS
  <2> USE Constants DEF FanInv, Inv
  <2>1. /\ \A u \in Users : pc[u] \in {"idle", "configure", "pwm", "mode"} \cup Holding
        /\ pc[Drv] \in {"idle"} \cup Applying
        /\ \A u \in Users : (lock = u) = (pc[u] \in Holding)
        /\ lock # Drv
    BY DEF ThreadTypes, Turns, Threads
  <2>2. config \in Config \cup {NoConfig}
    BY DEF DataTypes, TableTypes, Sane
  <2>3. QED
    BY <2>1, <2>2 DEF TypeOK, ThreadTypes, DataTypes, TableTypes, CountTypes, RegTypes
<1>2. QED
  BY <1>1, FanInvCorrect, PTL

\* One configuration is applied, as a whole and once, unless an earlier one failed,
\* whatever the processes ask for and however many they are.
THEOREM AppliedOnce == Spec => []ConfiguredOnce
<1>1. FanInv => ConfiguredOnce
  BY DEF FanInv, Progress, All, Named, ConfiguredOnce
<1>2. QED
  BY <1>1, FanInvCorrect, PTL

\* The PWM register holds what the writes give one after the other.
THEOREM NoWriteUndone == Spec => []NoLostUpdate
<1>1. FanInv => NoLostUpdate
  BY DEF FanInv, Inv, Register, NoLostUpdate
<1>2. QED
  BY <1>1, FanInvCorrect, PTL

\* As long as no configuration has failed, a watchdog that was started is stopped
\* by user space only.
THEOREM OnlyUserStops == Spec => StoppedByUser
<1>1. FanInv /\ [Next]_vars =>
        (failed = 0 /\ wdtOn /\ ~wdtOn' =>
           \/ \A k \in DOMAIN wdds : ~wdds[k]
           \/ \E k \in DOMAIN wdds : wdds[k] /\ ~wdds'[k])
  <2> SUFFICES ASSUME FanInv, [Next]_vars, failed = 0, wdtOn, ~wdtOn'
               PROVE  \/ \A k \in DOMAIN wdds : ~wdds[k]
                      \/ \E k \in DOMAIN wdds : wdds[k] /\ ~wdds'[k]
    OBVIOUS
  <2>1. (\E t \in Threads : StopWatchdog(t)) \/ (\E k \in DOMAIN wdds : WdtStop(k))
    BY DEF vars, Next, User, Open, Close, Configure, PwmInputWrite, PwmEnableWrite,
      HwmonBegin, Busy, ApplyBegin, Hwmon, ReadPwm, ReadPwmFails, WritePwm, WritePwmFails,
      Apply, RegisterHwmon, RegisterWatchdog, RegisterLed, ApplyFails, Watchdog, WdtStart,
      WdtPing, Probe, ProbePlatform, Remove, Release
  <2>2. CASE \E t \in Threads : StopWatchdog(t)
    BY <2>2 DEF StopWatchdog, FanInv, Progress, Stage
  <2>3. CASE \E k \in DOMAIN wdds : WdtStop(k)
    <3>1. PICK k \in DOMAIN wdds : WdtStop(k)
      BY <2>3
    <3>2. wdds[k] /\ ~wdds'[k]
      BY <3>1 DEF WdtStop, FanInv, Inv, DataTypes, DeviceTypes
    <3>3. QED
      BY <3>2
  <2>4. QED
    BY <2>1, <2>2, <2>3
<1>2. QED
  BY <1>1, FanInvCorrect, PTL DEF Spec, StoppedByUser
=============================================================================
