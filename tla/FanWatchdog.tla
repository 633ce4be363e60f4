---------------------------- MODULE FanWatchdog ----------------------------
(***************************************************************************)
(* The watchdogs of the fans.  If user space does not ping one in time, the *)
(* CPLD sets the fans to a boost value.  Each driver of a fan CPLD has a    *)
(* copy of the same functions, over a limit and a counter that runs up to   *)
(* it; the watchdog of the racks of MTIA has one register that runs down.   *)
(* Both count in units of five seconds.                                     *)
(*                                                                          *)
(* The watchdog core is external: it calls the operations of a driver one   *)
(* at a time, refuses a time-out beyond the bounds the driver gives, and    *)
(* pings a running watchdog after its time-out is set.                      *)
(***************************************************************************)
EXTENDS Integers

CONSTANTS
  Timeouts,   \* what user space asks for, in seconds
  Leftover,   \* what the counter of MTIA may hold when the driver is loaded
  MaxQuiet    \* the units of five seconds that are told apart

ASSUME WatchdogAssumption ==
  /\ Leftover \subseteq 0 .. 255
  /\ MaxQuiet \in Nat

VARIABLES
  wdog,       \* the driver
  loaded,     \* whether the watchdog is registered
  running,    \* whether the core takes it to be running
  timeout,    \* wdd->timeout
  limit,      \* CTRL_1 of a fan CPLD
  count,      \* the counter
  enabled,    \* whether it counts
  fired,      \* whether the fans are boosted
  due,        \* whether the core is about to ping
  told,       \* the last time-out asked for was accepted
  fresh,      \* the counter was reset after that, and since the start
  quiet       \* units since the watchdog was last started, pinged or set

wvars == <<wdog, loaded, running, timeout, limit, count, enabled, fired, due, told, fresh, quiet>>

Unit == 5
TIMEOUT_MAX == 255 * Unit

\* A driver: the values of CTRL_0, the bounds of the core, and the default.
FanWdt(start, stop, pet, default) ==
  [kind |-> "fan", start |-> start, stop |-> stop, pet |-> pet,
   least |-> 1, most |-> TIMEOUT_MAX, default |-> default]

MontblancWdt == FanWdt(16, 0, 48, 315)
Minipack3nWdt == FanWdt(16, 0, 48, 315)
Wedge800Wdt == FanWdt(16, 0, 48, 315)
IcecubeWdt == FanWdt(16, 0, 48, 315)
IceteaWdt == FanWdt(16, 0, 48, 315)
TahansbWdt == FanWdt(16, 0, 48, 315)
AnacapaWdt == FanWdt(16, 0, 48, 315)
Leh800bWdt == FanWdt(16, 0, 48, 315)
GenericWdt == FanWdt(16, 0, 48, 315)
MtiaWdt ==
  [kind |-> "mtia", start |-> 1, stop |-> 0, pet |-> 0,
   least |-> 5, most |-> TIMEOUT_MAX, default |-> 30]

Watchdogs ==
  {MontblancWdt, Minipack3nWdt, Wedge800Wdt, IcecubeWdt, IceteaWdt, TahansbWdt, AnacapaWdt,
   Leh800bWdt, GenericWdt, MtiaWdt}

IsFan == wdog.kind = "fan"
Bit(n, i) == (n \div (2 ^ i)) % 2 = 1

\* What a write to the control register does: it enables or disables the
\* watchdog; bit 5 of a fan CPLD resets the counter.  The fans leave the boost
\* (external) with such a write, and with one to the counter of MTIA.
Control(value) ==
  /\ enabled' = (IF IsFan THEN Bit(value, 4) ELSE Bit(value, 0))
  /\ IF IsFan /\ Bit(value, 5) THEN count' = 0 ELSE UNCHANGED count
  /\ fired' = FALSE

-----------------------------------------------------------------------------
\* fan_wdt_init does not write the time-out, and its stop may fail.
LoadFan ==
  /\ ~loaded /\ IsFan
  /\ timeout' = wdog.default
  /\ Control(wdog.stop) \/ UNCHANGED <<enabled, count, fired>>
  /\ loaded' \in BOOLEAN
  /\ told' = FALSE
  /\ UNCHANGED <<wdog, running, limit, due, fresh, quiet>>

\* The driver of MTIA takes over what the counter holds, and writes it back.
Adopted(value) ==
  IF value * Unit \in wdog.least .. wdog.most THEN value * Unit ELSE wdog.default

LoadMtia ==
  /\ ~loaded /\ ~IsFan
  /\ timeout' = Adopted(count)
  /\ count' = timeout' \div Unit
  /\ loaded' \in BOOLEAN
  /\ told' = loaded' /\ fresh' = TRUE /\ quiet' = 0 /\ fired' = FALSE
  /\ UNCHANGED <<wdog, running, limit, enabled, due>>

\* The watchdog goes on counting when the driver is unloaded.
Unload ==
  /\ loaded /\ ~due
  /\ loaded' = FALSE /\ running' = FALSE /\ told' = FALSE
  /\ UNCHANGED <<wdog, timeout, limit, count, enabled, fired, due, fresh, quiet>>

Start ==
  /\ loaded /\ ~running
  /\ Control(wdog.start)
  /\ running' = TRUE /\ fresh' = FALSE /\ quiet' = 0
  /\ UNCHANGED <<wdog, loaded, timeout, limit, due, told>>

Stop ==
  /\ running /\ ~due
  /\ Control(wdog.stop)
  /\ running' = FALSE
  /\ UNCHANGED <<wdog, loaded, timeout, limit, due, told, fresh, quiet>>

\* The core pings a watchdog that does not stop.
StopFails ==
  /\ running /\ ~due
  /\ due' = TRUE
  /\ UNCHANGED <<wdog, loaded, running, timeout, limit, count, enabled, fired, told, fresh, quiet>>

Ping ==
  /\ running
  /\ IF IsFan THEN Control(wdog.pet)
     ELSE count' = timeout \div Unit /\ fired' = FALSE /\ UNCHANGED enabled
  /\ due' = FALSE /\ fresh' = TRUE /\ quiet' = 0
  /\ UNCHANGED <<wdog, loaded, running, timeout, limit, told>>

PingFails ==
  /\ due /\ due' = FALSE
  /\ UNCHANGED <<wdog, loaded, running, timeout, limit, count, enabled, fired, told, fresh, quiet>>

Least(a, b) == IF a < b THEN a ELSE b

\* Mutant: the seconds are written.
LimitSeconds(t) == Least(t, TIMEOUT_MAX) % 256

\* What fan_wdt_set_timeout writes to CTRL_1, an u8.
Limit(t) == (Least(t, TIMEOUT_MAX) \div Unit) % 256

\* The time-out of the driver changes before the write, and stays if that fails.
SetFan(t) ==
  /\ loaded /\ ~due /\ IsFan /\ t \in wdog.least .. wdog.most
  /\ timeout' = Least(t, TIMEOUT_MAX)
  /\ \/ limit' = Limit(t) /\ told' = TRUE /\ fresh' = FALSE /\ quiet' = 0 /\ due' = running
     \/ told' = FALSE /\ UNCHANGED <<limit, fresh, quiet, due>>
  /\ UNCHANGED <<wdog, loaded, running, count, enabled, fired>>

\* mtia_fan_wdt_set_timeout refuses what is no multiple of five; the time-out
\* of the driver changes only after the write.
SetMtia(t) ==
  /\ loaded /\ ~due /\ ~IsFan /\ t \in wdog.least .. wdog.most /\ t % Unit = 0
  /\ timeout' = t /\ count' = t \div Unit
  /\ fresh' = TRUE /\ quiet' = 0 /\ fired' = FALSE /\ due' = running
  /\ UNCHANGED <<wdog, loaded, running, limit, enabled, told>>

\* Five seconds pass.  The counter of a fan CPLD stops at its end (external).
Tick ==
  /\ enabled /\ ~fired /\ quiet < MaxQuiet
  /\ count' = IF IsFan THEN Least(count + 1, 255) ELSE IF count > 0 THEN count - 1 ELSE 0
  /\ fired' = IF IsFan THEN count' >= limit ELSE count' = 0
  /\ quiet' = quiet + 1
  /\ UNCHANGED <<wdog, loaded, running, timeout, limit, enabled, due, told, fresh>>

\* fan_wdt_get_timeleft and mtia_fan_wdt_get_timeleft.
TimeLeft ==
  IF ~IsFan THEN count * Unit
  ELSE IF limit < count THEN 0 ELSE (limit - count) * Unit

WInit(kinds) ==
  /\ wdog \in kinds
  /\ loaded = FALSE /\ running = FALSE /\ due = FALSE /\ told = FALSE /\ fresh = FALSE
  /\ timeout = 0 /\ quiet = 0
  /\ limit = 63
  /\ count \in IF IsFan THEN {0} ELSE Leftover
  /\ enabled = FALSE /\ fired = FALSE

WNext ==
  \/ LoadFan \/ LoadMtia \/ Unload \/ Start \/ Stop \/ StopFails \/ Ping \/ PingFails
  \/ \E t \in Timeouts : SetFan(t) \/ SetMtia(t)
  \/ Tick

-----------------------------------------------------------------------------
WTypeOK ==
  /\ limit \in 0 .. 255
  /\ count \in 0 .. 255
  /\ quiet \in 0 .. MaxQuiet
  /\ timeout \in 0 .. TIMEOUT_MAX
  /\ running => loaded
  /\ due => running

\* Once a time-out was accepted, the fans are boosted after that time without a
\* ping: never later, and after a ping not earlier; and the time that is left is
\* reported to the unit.
WatchdogKeepsTime ==
  told /\ enabled =>
    /\ ~fired => quiet = 0 \/ Unit * quiet < timeout
    /\ fresh /\ fired => Unit * quiet > timeout - Unit
    /\ fresh /\ ~fired => TimeLeft + Unit * quiet \in timeout - Unit + 1 .. timeout
=============================================================================
