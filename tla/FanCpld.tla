------------------------------ MODULE FanCpld ------------------------------
(***************************************************************************)
(* The drivers of the fan CPLDs.  The generic one (fbfancpld_i2c.c) gets    *)
(* its configuration from user space, by an ioctl of its character device;  *)
(* those of the platforms (mp3_fancpld_i2c.c and the like) are the same    *)
(* driver with the configuration compiled in, applied by probe.           *)
(*                                                                          *)
(* A configuration is applied in steps: an hwmon device, a watchdog, LEDs.  *)
(* Each is in use as soon as it is registered, and each step may fail.  A   *)
(* failed probe gives everything back; a failed ioctl gives nothing back.   *)
(*                                                                          *)
(* One fan stands for all in what is said of the PWM register.              *)
(***************************************************************************)
EXTENDS Integers, Sequences

CONSTANTS
  Users,      \* processes that use the cdev and the hwmon files
  Drv,        \* the thread that binds and unbinds the driver
  Boards,     \* the fixed configurations, and NoConfig for the generic driver
  Configs,    \* configurations that user space asks for
  PwmValues,  \* values written to pwmN
  MaxFailed,  \* bound: configurations that fail after one probe
  NoConfig, Nobody

MaxFans == 8
ModeBit == 128
Bytes == 0 .. 255

Config == [fans : Nat, max : Nat, mult : Nat, rear : BOOLEAN, colours : Nat]
Threads == Users \cup {Drv}

ASSUME ConstantsAssumption ==
  /\ Drv \notin Users
  /\ Nobody \notin Threads
  /\ NoConfig \notin Config
  /\ Configs \subseteq Config
  /\ \A b \in Boards \ {NoConfig} :
       b \in Config /\ b.fans \in 1 .. MaxFans /\ b.max \in 1 .. 255
  /\ PwmValues \subseteq Nat
  /\ MaxFailed \in Nat

VARIABLES
  board,       \* which driver this is
  bound,       \* "no", "probing", "yes" or "releasing"
  open,        \* who has the cdev open
  pc, want,    \* where a thread is, and what it was asked for
  lock,        \* owner of data->lock
  config, configured,
  table,       \* entries in use in fan_config; in pwm_config and present_ptrs
  hwmons,      \* the channels of each hwmon device registered
  wdds,        \* of each watchdog registered: has user space started it?
  leds,        \* how many LED class devices are registered
  slot,        \* led_slot
  failed,      \* configurations that have failed since probe
  byte,        \* what a thread is about to write to the PWM register
  pwmReg,      \* the PWM register
  wdtOn,       \* WDT_ENABLE of the CPLD
  serial       \* history: PWM register if each write were one atomic step

what == <<config, configured, table, hwmons, wdds, leds, slot, failed>>
regs == <<byte, pwmReg, serial>>
vars == <<board, bound, open, pc, want, lock, what, regs, wdtOn>>

Empty == [tach |-> 0, trays |-> 0]

\* What devm_kzalloc gives a probe.
Fresh ==
  /\ config = NoConfig /\ configured = FALSE
  /\ table = Empty
  /\ hwmons = <<>> /\ wdds = <<>> /\ leds = 0 /\ slot = 0
  /\ failed = 0

Init ==
  /\ board \in Boards
  /\ bound = "no"
  /\ open = {}
  /\ pc = [t \in Threads |-> "idle"]
  /\ want = [t \in Threads |-> NoConfig]
  /\ lock = Nobody
  /\ Fresh
  /\ byte = [t \in Threads |-> 0]
  /\ pwmReg = 0 /\ serial = 0
  /\ wdtOn \in BOOLEAN

Generic == board = NoConfig
Goto(t, where) == pc' = [pc EXCEPT ![t] = where]
Return(t) ==
  /\ Goto(t, "idle")
  /\ want' = [want EXCEPT ![t] = NoConfig]
  /\ byte' = [byte EXCEPT ![t] = 0]
Take(t) == lock = Nobody /\ lock' = t

-----------------------------------------------------------------------------
(* Configuration.                                                            *)

\* Mutant: any number of fans.
ValidAnyFans(c) == c.fans > 0 /\ c.max \in 1 .. 255 /\ c.mult # 0

Valid(c) == c.fans \in 1 .. MaxFans /\ c.max \in 1 .. 255 /\ c.mult # 0
Tachs(c) == IF c.rear THEN 2 * c.fans ELSE c.fans
Shown(c) == [tach |-> Tachs(c), trays |-> c.fans]
Larger(a, b) == IF a > b THEN a ELSE b

\* Entries are set for the fans there are; those beyond are as they were.
Filled(c) == [tach |-> Larger(table.tach, Tachs(c)), trays |-> Larger(table.trays, c.fans)]

Open(u) ==
  /\ Generic /\ bound = "yes"
  /\ open' = open \cup {u}
  /\ UNCHANGED <<board, bound, pc, want, lock, what, regs, wdtOn>>

Close(u) ==
  /\ u \in open /\ pc[u] = "idle"
  /\ open' = open \ {u}
  /\ UNCHANGED <<board, bound, pc, want, lock, what, regs, wdtOn>>

\* fbfancpld_ioctl_configure up to the lock.
Configure(u, c) ==
  /\ u \in open /\ pc[u] = "idle"
  /\ Valid(c)
  /\ want' = [want EXCEPT ![u] = c]
  /\ Goto(u, "configure")
  /\ UNCHANGED <<board, bound, open, lock, what, regs, wdtOn>>

Busy(u) ==
  /\ pc[u] = "configure"
  /\ lock = Nobody /\ configured
  /\ Return(u)
  /\ UNCHANGED <<board, bound, open, lock, what, pwmReg, serial, wdtOn>>

\* Mutant: configured is looked at before the lock is taken.
ApplyBeginUnchecked(u) ==
  /\ pc[u] = "configure"
  /\ Take(u)
  /\ config' = want[u]
  /\ table' = Filled(want[u])
  /\ Goto(u, "hwmon")
  /\ UNCHANGED <<board, bound, open, want, configured, hwmons, wdds, leds, slot, failed, regs, wdtOn>>

ApplyBegin(u) ==
  /\ pc[u] = "configure"
  /\ ~configured
  /\ Take(u)
  /\ config' = want[u]
  /\ table' = Filled(want[u])
  /\ Goto(u, "hwmon")
  /\ UNCHANGED <<board, bound, open, want, configured, hwmons, wdds, leds, slot, failed, regs, wdtOn>>

RegisterHwmon(t) ==
  /\ pc[t] = "hwmon"
  /\ hwmons' = Append(hwmons, table)
  /\ Goto(t, "stop")
  /\ UNCHANGED <<board, bound, open, want, lock, config, configured, table, wdds, leds, slot, failed, regs, wdtOn>>

\* fan_wdt_init stops the watchdog, whatever comes of it, and registers it.
StopWatchdog(t) ==
  /\ pc[t] = "stop"
  /\ wdtOn' \in {FALSE, wdtOn}
  /\ Goto(t, "wdt")
  /\ UNCHANGED <<board, bound, open, want, lock, what, regs>>

\* The end of fbfancpld_ioctl_configure, or of the probe of a platform driver.
Applied(t) ==
  /\ Return(t)
  /\ IF Generic THEN lock' = Nobody /\ configured' = TRUE /\ UNCHANGED bound
     ELSE bound' = "yes" /\ UNCHANGED <<lock, configured>>

RegisterWatchdog(t) ==
  /\ pc[t] = "wdt"
  /\ wdds' = Append(wdds, FALSE)
  /\ slot' = 0
  /\ IF config.colours = 0 THEN Applied(t)
     ELSE Goto(t, "leds") /\ UNCHANGED <<bound, want, lock, configured, byte>>
  /\ UNCHANGED <<board, open, config, table, hwmons, leds, failed, pwmReg, serial, wdtOn>>

RegisterLed(t) ==
  /\ pc[t] = "leds"
  /\ leds' = leds + 1
  /\ slot' = slot + 1
  /\ IF slot' = config.fans * config.colours THEN Applied(t)
     ELSE UNCHANGED <<pc, bound, want, lock, configured, byte>>
  /\ UNCHANGED <<board, open, config, table, hwmons, wdds, failed, pwmReg, serial, wdtOn>>

\* Mutant: an error return without mutex_unlock.
ApplyFailsLocked(t) ==
  /\ pc[t] \in {"hwmon", "stop", "wdt", "leds"}
  /\ IF Generic
     THEN failed < MaxFailed /\ failed' = failed + 1 /\ UNCHANGED <<bound, lock>>
     ELSE bound' = "releasing" /\ UNCHANGED <<lock, failed>>
  /\ Return(t)
  /\ UNCHANGED <<board, open, config, configured, table, hwmons, wdds, leds, slot, pwmReg, serial, wdtOn>>

\* No memory, or a device that cannot be registered.
ApplyFails(t) ==
  /\ pc[t] \in {"hwmon", "stop", "wdt", "leds"}
  /\ IF Generic
     THEN failed < MaxFailed /\ failed' = failed + 1 /\ lock' = Nobody /\ UNCHANGED bound
     ELSE bound' = "releasing" /\ UNCHANGED <<lock, failed>>
  /\ Return(t)
  /\ UNCHANGED <<board, open, config, configured, table, hwmons, wdds, leds, slot, pwmReg, serial, wdtOn>>

Apply(t) == RegisterHwmon(t) \/ StopWatchdog(t) \/ RegisterWatchdog(t) \/ RegisterLed(t)

-----------------------------------------------------------------------------
(* The hwmon files pwmN and pwmN_enable: a read-modify-write under the lock.  *)

\* (byte & FAN_MODE_MASK) | target_pwm, and (val << 7) | byte.
PutPwm(b, v) == IF v >= ModeBit THEN v ELSE (b \div ModeBit) * ModeBit + v
PutMode(b, v) == IF v = 1 /\ b < ModeBit THEN b + ModeBit ELSE b

HwmonBegin(u, where, v) ==
  /\ pc[u] = "idle"
  /\ hwmons # <<>>
  /\ want' = [want EXCEPT ![u] = v]
  /\ Goto(u, where)
  /\ UNCHANGED <<board, bound, open, lock, what, regs, wdtOn>>

PwmInputWrite(u, v) ==
  HwmonBegin(u, "pwm", IF v > config.max THEN config.max ELSE v)
PwmEnableWrite(u, v) == HwmonBegin(u, "mode", v)

\* Mutant: the register is read without the lock.
ReadPwmUnlocked(u) ==
  /\ \/ pc[u] = "pwm" /\ Goto(u, "put_pwm") /\ byte' = [byte EXCEPT ![u] = PutPwm(pwmReg, want[u])]
     \/ pc[u] = "mode" /\ Goto(u, "put_mode") /\ byte' = [byte EXCEPT ![u] = PutMode(pwmReg, want[u])]
  /\ UNCHANGED <<board, bound, open, want, lock, what, pwmReg, serial, wdtOn>>

\* The lock is taken and the register read; an error ends it here.
ReadPwm(u) ==
  /\ \/ pc[u] = "pwm" /\ Goto(u, "put_pwm") /\ byte' = [byte EXCEPT ![u] = PutPwm(pwmReg, want[u])]
     \/ pc[u] = "mode" /\ Goto(u, "put_mode") /\ byte' = [byte EXCEPT ![u] = PutMode(pwmReg, want[u])]
  /\ Take(u)
  /\ UNCHANGED <<board, bound, open, want, what, pwmReg, serial, wdtOn>>

ReadPwmFails(u) ==
  /\ pc[u] \in {"pwm", "mode"}
  /\ lock = Nobody
  /\ Return(u)
  /\ UNCHANGED <<board, bound, open, lock, what, pwmReg, serial, wdtOn>>

WritePwm(u) ==
  /\ \/ pc[u] = "put_pwm" /\ serial' = PutPwm(serial, want[u])
     \/ pc[u] = "put_mode" /\ serial' = PutMode(serial, want[u])
  /\ pwmReg' = byte[u]
  /\ lock' = Nobody
  /\ Return(u)
  /\ UNCHANGED <<board, bound, open, what, wdtOn>>

WritePwmFails(u) ==
  /\ pc[u] \in {"put_pwm", "put_mode"}
  /\ lock' = Nobody
  /\ Return(u)
  /\ UNCHANGED <<board, bound, open, what, pwmReg, serial, wdtOn>>

Hwmon(u) == ReadPwm(u) \/ ReadPwmFails(u) \/ WritePwm(u) \/ WritePwmFails(u)

-----------------------------------------------------------------------------
(* The watchdog, as its device file reaches it: without data->lock.           *)

\* A write that fails leaves the watchdog as it was, and stopped or not.
WdtStart(k) ==
  /\ k \in DOMAIN wdds /\ ~wdds[k]
  /\ wdds' = [wdds EXCEPT ![k] = TRUE]
  /\ wdtOn' = TRUE
  /\ UNCHANGED <<board, bound, open, pc, want, lock, config, configured, table, hwmons, leds, slot, failed, regs>>

\* Mutant: WDT_PET is written without WDT_ENABLE.
WdtPingDisables(k) ==
  /\ k \in DOMAIN wdds /\ wdds[k]
  /\ wdtOn' = FALSE
  /\ UNCHANGED <<board, bound, open, pc, want, lock, what, regs>>

WdtPing(k) ==
  /\ k \in DOMAIN wdds /\ wdds[k]
  /\ wdtOn' = TRUE
  /\ UNCHANGED <<board, bound, open, pc, want, lock, what, regs>>

WdtStop(k) ==
  /\ k \in DOMAIN wdds /\ wdds[k]
  /\ wdds' = [wdds EXCEPT ![k] = FALSE]
  /\ wdtOn' = FALSE
  /\ UNCHANGED <<board, bound, open, pc, want, lock, config, configured, table, hwmons, leds, slot, failed, regs>>

Watchdog == \E k \in DOMAIN wdds : WdtStart(k) \/ WdtPing(k) \/ WdtStop(k)

-----------------------------------------------------------------------------
(* Probe and remove.                                                         *)

Probe ==
  /\ Generic /\ bound = "no"
  /\ bound' = "yes"
  /\ UNCHANGED <<board, open, pc, want, lock, what, regs, wdtOn>>

ProbePlatform ==
  /\ ~Generic /\ bound = "no"
  /\ bound' = "probing"
  /\ config' = board
  /\ table' = Shown(board)
  /\ Goto(Drv, "hwmon")
  /\ UNCHANGED <<board, open, want, lock, configured, hwmons, wdds, leds, slot, failed, regs, wdtOn>>

\* rmmod: an open cdev and a started watchdog hold the module.
Remove ==
  /\ bound = "yes"
  /\ open = {} /\ \A k \in DOMAIN wdds : ~wdds[k]
  /\ bound' = "releasing"
  /\ UNCHANGED <<board, open, pc, want, lock, what, regs, wdtOn>>

\* Unregistering a device waits for those inside its files.
Release ==
  /\ bound = "releasing"
  /\ \A u \in Users : pc[u] = "idle"
  /\ bound' = "no"
  /\ config' = NoConfig /\ configured' = FALSE
  /\ table' = Empty
  /\ hwmons' = <<>> /\ wdds' = <<>> /\ leds' = 0 /\ slot' = 0
  /\ failed' = 0
  /\ UNCHANGED <<board, open, pc, want, lock, regs, wdtOn>>

User(u) ==
  \/ Open(u) \/ Close(u)
  \/ \E c \in Configs : Configure(u, c)
  \/ \E v \in PwmValues : PwmInputWrite(u, v)
  \/ \E v \in {0, 1} : PwmEnableWrite(u, v)
  \/ Busy(u) \/ ApplyBegin(u) \/ Hwmon(u)

Next ==
  \/ \E u \in Users : User(u)
  \/ \E t \in Threads : Apply(t) \/ ApplyFails(t)
  \/ Watchdog
  \/ Probe \/ ProbePlatform \/ Remove \/ Release

Spec == Init /\ [][Next]_vars

\* A thread inside the driver keeps running, and the mutex is handed over in turn.
FairSpec ==
  /\ Spec
  /\ \A t \in Threads : WF_vars(Apply(t))
  /\ \A u \in Users : SF_vars(Busy(u) \/ ApplyBegin(u)) /\ SF_vars(Hwmon(u))

-----------------------------------------------------------------------------
(* Properties.                                                               *)

Applying == {"hwmon", "stop", "wdt", "leds"}
Holding == Applying \cup {"put_pwm", "put_mode"}

\* Every variable has its type; a process holds the lock exactly while it
\* applies a configuration or is between reading and writing the PWM register.
TypeOK ==
  /\ board \in Boards
  /\ bound \in {"no", "probing", "yes", "releasing"}
  /\ open \subseteq Users
  /\ \A u \in Users : pc[u] \in {"idle", "configure", "pwm", "mode"} \cup Holding
  /\ pc[Drv] \in {"idle"} \cup Applying
  /\ \A u \in Users : (lock = u) = (pc[u] \in Holding)
  /\ lock # Drv
  /\ config \in Config \cup {NoConfig}
  /\ configured \in BOOLEAN
  /\ table.tach <= 2 * MaxFans /\ table.trays <= MaxFans
  /\ leds \in Nat /\ slot \in Nat /\ failed \in 0 .. MaxFailed
  /\ pwmReg \in Bytes /\ serial \in Bytes
  /\ byte \in [Threads -> Bytes]
  /\ wdtOn \in BOOLEAN

\* However many processes ask, and whatever they ask for, one configuration is
\* applied, as a whole and once, unless an earlier one has failed half-way.
InForce == IF Generic THEN configured ELSE bound = "yes"
ConfiguredOnce ==
  InForce /\ failed = 0 =>
    /\ hwmons = <<Shown(config)>>
    /\ Len(wdds) = 1
    /\ leds = config.fans * config.colours

\* No write to pwmN or pwmN_enable is undone by another that had read the
\* register before it: the register is what the writes give one after the other.
NoLostUpdate == pwmReg = serial

\* A watchdog that user space has started is stopped by user space only, as long
\* as no configuration fails: after a failed one, the next stops the watchdog of the first.
StoppedByUser ==
  [][failed = 0 /\ wdtOn /\ ~wdtOn' =>
       \/ \A k \in DOMAIN wdds : ~wdds[k]
       \/ \E k \in DOMAIN wdds : wdds[k] /\ ~wdds'[k]]_vars

\* Every ioctl and every write to an hwmon file returns.
CallsReturn == \A u \in Users : pc[u] # "idle" ~> pc[u] = "idle"
=============================================================================
