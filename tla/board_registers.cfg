\* LEDs and files of every kind of driver with two users, the watchdogs of the
\* fans, and the temperatures with two readers.  A driver that is not loaded may
\* stay so.
SPECIFICATION MCSpec
CONSTANTS
  Users = {u1, u2}
  Drv = drv
  Inputs <- MCInputs
  Timeouts <- MCTimeouts
  Leftover <- MCLeftover
  MaxQuiet = 3
  Readers = {r1, r2}
  Raws <- MCRaws
  Asked <- MCAsked
INVARIANTS
  TypeOK
  NoLostWrite
  ShowsAColour
  DarkWhenReleased
  FilesComeAndGo
  WatchdogKeepsTime
  ReadingsAreSound
CHECK_DEADLOCK FALSE
