------------------------------- MODULE MCFan -------------------------------
(* Instances of FanCpld for TLC: the generic driver and every platform.       *)
EXTENDS FanCpld, FanPlatforms

MCBoards == Platforms \cup {NoConfig}
MCUsers == {"a", "b"}

\* One fan with two tachometers and LEDs, two fans with neither, and mistakes.
MCConfigs ==
  {Platform(1, 40, 150, TRUE, 2), Platform(2, 64, 300, FALSE, 0),
   Platform(0, 40, 150, TRUE, 2), Platform(9, 40, 150, TRUE, 2), Platform(1, 256, 300, FALSE, 0)}

\* Beyond the highest PWM value and beyond a byte.
MCPwmValues == {256}
=============================================================================
