--------------------------- MODULE FanPlatforms ---------------------------
(***************************************************************************)
(* The configurations that the fan drivers of the platforms are compiled    *)
(* with, in the terms of fbfancpld_ioctl_config: fan trays, the highest PWM *)
(* value, RPM per count of a tachometer, tachometers front and rear or      *)
(* front only, and LED class devices per fan.                               *)
(***************************************************************************)
EXTENDS Naturals

Platform(fans, max, mult, rear, colours) ==
  [fans |-> fans, max |-> max, mult |-> mult, rear |-> rear, colours |-> colours]

Montblanc  == Platform(8, 40, 150, TRUE, 3)
Minipack3n == Platform(8, 40, 150, TRUE, 3)
Wedge800   == Platform(4, 40, 150, TRUE, 3)
Icecube    == Platform(4, 64, 300, TRUE, 0)
Tahansb    == Platform(4, 64, 300, TRUE, 0)
Icetea     == Platform(4, 64, 300, FALSE, 0)
Anacapa    == Platform(6, 64, 300, TRUE, 0)
Leh800b    == Platform(8, 64, 300, FALSE, 2)

Platforms == {Montblanc, Minipack3n, Wedge800, Icecube, Tahansb, Icetea, Anacapa, Leh800b}
=============================================================================
