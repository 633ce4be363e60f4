------------------------------ MODULE MCBoards ------------------------------
(***************************************************************************)
(* The small parts of a board: its LEDs and files, the watchdog of its fans *)
(* and its temperatures.  They have no register and no lock in common, and  *)
(* none calls another, so that a behaviour is one of one part; the others   *)
(* rest in a state of before.                                               *)
(***************************************************************************)
EXTENDS CpldDriver, FanWatchdog, SmbSensors

VARIABLE part

\* One driver of each kind: two that are equal in all that is modelled behave
\* alike.
Boards1 == {CHOOSE b \in DOMAIN Drivers : Drivers[b] = d : d \in Range(Drivers)}
Of(p, all, one) == IF part = p THEN all ELSE {one}

MCInputs == {{}, {0}, AllBits}
MCTimeouts == {4, 5, 14, 1275, 1276}
MCLeftover == {0, 1, 2, 6, 255}
MCRaws == {0, 10768, 10839}
MCAsked == {-40, 60, MostLimit, MostLimit + 1, 476}

MCInit ==
  /\ part \in {"cpld", "watchdog", "sensor"}
  /\ CInit(Of("cpld", Boards1, "IcecubePic"))
  /\ part # "cpld" => reg = {} /\ inUse = {}
  /\ WInit(Of("watchdog", Watchdogs, GenericWdt))
  /\ SInit(Of("sensor", Sensors, Th6Sensor))
MCNext ==
  /\ UNCHANGED part
  /\ \/ part = "cpld" /\ CNext /\ UNCHANGED <<wvars, svars>>
     \/ part = "watchdog" /\ WNext /\ UNCHANGED <<cvars, svars>>
     \/ part = "sensor" /\ SNext /\ UNCHANGED <<cvars, wvars>>
MCSpec == MCInit /\ [][MCNext]_<<part, cvars, wvars, svars>>

\* The variables of every part have their types.
TypeOK == CTypeOK /\ WTypeOK /\ STypeOK
=============================================================================
