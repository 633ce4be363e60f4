------------------------------- MODULE Boards -------------------------------
(***************************************************************************)
(* The drivers of the boards: for each, how the colours of its LEDs are     *)
(* read, set and initialised, and what its probe registers, in order.  A    *)
(* driver is compiled for one board, so that every file has its own copy of *)
(* the LED functions; each copy is a definition here.                       *)
(***************************************************************************)
EXTENDS BoardTables

Pattern(mask, value) == [mask |-> Bits(mask), is |-> Bits(value)]

\* The LEDs of a driver: their registers, brightness_get, brightness_set, the
\* steps that initialise one, and what it shows when it is dark or left to the
\* hardware.
Panel(leds, get, set, init, dark, auto) ==
  [leds |-> leds, get |-> get, set |-> set, init |-> init, dark |-> dark, auto |-> auto]
NoLeds == Panel({}, {}, {}, <<>>, Pattern(0, 0), {})

Driver(bus, panel, files, probe) ==
  [bus |-> bus, panel |-> panel, files |-> files, probe |-> probe]

-----------------------------------------------------------------------------
(* The CPLDs of the SCM.                                                     *)

ScmLeds == {65, 66, 67, 68}
ScmOff == 7
ScmColours == <<Colour("blue", 3), Colour("green", 5), Colour("red", 6), Colour("amber", 4)>>

MontblancScmGet == Shows(ScmColours, 7)
MontblancScmSet == PanelSet(ScmColours, 7, ScmOff)
MontblancScmInit == InitLed(ScmColours, 7, 3)
MontblancScm ==
  Driver("i2c", Panel(ScmLeds, MontblancScmGet, MontblancScmSet, MontblancScmInit, Pattern(7, ScmOff), {}),
         MontblancScmFiles, <<"leds", "files">>)

Minipack3nScmGet == Shows(ScmColours, 7)
Minipack3nScmSet == PanelSet(ScmColours, 7, ScmOff)
Minipack3nScmInit == InitLed(ScmColours, 7, 3)
Minipack3nScm ==
  Driver("i2c", Panel(ScmLeds, Minipack3nScmGet, Minipack3nScmSet, Minipack3nScmInit, Pattern(7, ScmOff), {}),
         Minipack3nScmFiles, <<"leds", "files">>)

Wedge800ScmGet == Shows(ScmColours, 7)
Wedge800ScmSet == PanelSet(ScmColours, 7, ScmOff)
Wedge800ScmInit == InitLed(ScmColours, 7, 3)
Wedge800Scm ==
  Driver("i2c", Panel(ScmLeds, Wedge800ScmGet, Wedge800ScmSet, Wedge800ScmInit, Pattern(7, ScmOff), {}),
         Wedge800ScmFiles, <<"leds", "files">>)

IcecubeScmGet == Shows(ScmColours, 23)
IcecubeScmSet == PanelSet(ScmColours, 23, ScmOff)
IcecubeScmInit == InitLed(ScmColours, 23, 3)
IcecubeScm ==
  Driver("i2c", Panel(ScmLeds, IcecubeScmGet, IcecubeScmSet, IcecubeScmInit, Pattern(23, ScmOff), {}),
         IcecubeScmFiles, <<"leds", "files">>)

IceteaScmGet == Shows(ScmColours, 23)
IceteaScmSet == PanelSet(ScmColours, 23, ScmOff)
IceteaScmInit == InitLed(ScmColours, 23, 3)
IceteaScm ==
  Driver("i2c", Panel(ScmLeds, IceteaScmGet, IceteaScmSet, IceteaScmInit, Pattern(23, ScmOff), {}),
         IceteaScmFiles, <<"leds", "files">>)

TahansbScmGet == Shows(ScmColours, 23)
TahansbScmSet == PanelSet(ScmColours, 23, ScmOff)
TahansbScmInit == InitLed(ScmColours, 23, 3)
TahansbScm ==
  Driver("i2c", Panel(ScmLeds, TahansbScmGet, TahansbScmSet, TahansbScmInit, Pattern(23, ScmOff), {}),
         TahansbScmFiles, <<"leds", "files">>)

AnacapaScmGet == Shows(ScmColours, 23)
AnacapaScmSet == PanelSet(ScmColours, 23, ScmOff)
AnacapaScmInit == InitLed(ScmColours, 23, 3)
AnacapaScm ==
  Driver("i2c", Panel(ScmLeds, AnacapaScmGet, AnacapaScmSet, AnacapaScmInit, Pattern(23, ScmOff), {}),
         AnacapaScmFiles, <<"leds", "files">>)

Leh800bScmGet == Shows(ScmColours, 23)
Leh800bScmSet == PanelSet(ScmColours, 23, ScmOff)
Leh800bScmInit == InitLed(ScmColours, 23, 3)
Leh800bScm ==
  Driver("i2c", Panel(ScmLeds, Leh800bScmGet, Leh800bScmSet, Leh800bScmInit, Pattern(23, ScmOff), {}),
         Leh800bScmFiles, <<"leds", "files">>)

-----------------------------------------------------------------------------
(* Other panels: the SMB of MTIA and the ports of the MCB of Anacapa.        *)

MtiaSmbLeds == {22, 23}
MtiaSmbColours == <<Colour("blue", 3), Colour("green", 5), Colour("red", 6), Colour("amber", 4)>>
MtiaSmbGet == Shows(MtiaSmbColours, 7)
MtiaSmbSet == PanelSet(MtiaSmbColours, 7, 7)
MtiaSmbInit == InitLed(MtiaSmbColours, 7, 3)
MtiaSmb ==
  Driver("i2c", Panel(MtiaSmbLeds, MtiaSmbGet, MtiaSmbSet, MtiaSmbInit, Pattern(7, 7), {}),
         MtiaSmbFiles, <<"leds", "files">>)

AnacapaMcbLeds == {24, 25}
AnacapaMcbColours ==
  <<Colour("red", 131), Colour("green", 133), Colour("blue", 134), Colour("amber", 129)>>
AnacapaMcbGet == Shows(AnacapaMcbColours, 151)
AnacapaMcbSet == PanelSet(AnacapaMcbColours, 151, 135)
AnacapaMcbInit == InitLed(AnacapaMcbColours, 151, 134)
AnacapaMcb ==
  Driver("i2c", Panel(AnacapaMcbLeds, AnacapaMcbGet, AnacapaMcbSet, AnacapaMcbInit, Pattern(151, 135), {}),
         AnacapaMcbFiles, <<"leds", "files">>)

-----------------------------------------------------------------------------
(* Fan trays.  Value 0 leaves an LED to the hardware.                        *)

FanLeds(trays) == {52 + (fn - 1) * 16 : fn \in 1 .. trays}
Hardware == {Pattern(3, 0)}
FanProbe == <<"hwmon", "watchdog", "leds">>

\* Red and amber are the same value.
FanColours == <<Colour("blue", 1), Colour("red", 2), Colour("amber", 2)>>
FanColours2 == <<Colour("blue", 1), Colour("amber", 2)>>

MontblancFanGet == Shows(FanColours, 3)
MontblancFanSet == FanSet(FanColours, 3)
MontblancFanInit == InitLed(FanColours, 255, 0)
MontblancFan ==
  Driver("i2c", Panel(FanLeds(8), MontblancFanGet, MontblancFanSet, MontblancFanInit, Pattern(3, 3), Hardware),
         <<>>, FanProbe)

Minipack3nFanGet == Shows(FanColours, 3)
Minipack3nFanSet == FanSet(FanColours, 3)
Minipack3nFanInit == InitLed(FanColours, 255, 0)
Minipack3nFan ==
  Driver("i2c", Panel(FanLeds(8), Minipack3nFanGet, Minipack3nFanSet, Minipack3nFanInit, Pattern(3, 3), Hardware),
         <<>>, FanProbe)

Wedge800FanGet == Shows(FanColours, 3)
Wedge800FanSet == FanSet(FanColours, 3)
Wedge800FanInit == InitLed(FanColours, 255, 0)
Wedge800Fan ==
  Driver("i2c", Panel(FanLeds(4), Wedge800FanGet, Wedge800FanSet, Wedge800FanInit, Pattern(3, 3), Hardware),
         <<>>, FanProbe)

Leh800bPdbGet == Shows(FanColours2, 3)
Leh800bPdbSet == FanSet(FanColours2, 3)
Leh800bPdbInit == InitLed(FanColours2, 255, 0)
Leh800bPdb ==
  Driver("i2c", Panel(FanLeds(8), Leh800bPdbGet, Leh800bPdbSet, Leh800bPdbInit, Pattern(3, 3), Hardware),
         Leh800bPdbFiles, <<"hwmon", "watchdog", "files", "leds">>)

\* The generic driver, once it is configured for eight fans.
GenericFanGet == Shows(FanColours2, 3)
GenericFanSet == FanSet(FanColours2, 3)
GenericFanInit == InitLed(FanColours2, 255, 0)
GenericFan ==
  Driver("i2c", Panel(FanLeds(8), GenericFanGet, GenericFanSet, GenericFanInit, Pattern(3, 3), Hardware),
         <<>>, FanProbe)

-----------------------------------------------------------------------------
(* The LED of a port, in a register of the FPGA: on, flash, and a colour     *)
(* profile.                                                                  *)

PortOn(profile) == 4 * profile + 1
PortMask == 31
PortColours ==
  <<Colour("amber", PortOn(6)), Colour("blue", PortOn(2)), Colour("green", PortOn(7))>>
PortGet == Shows(PortColours, 255)
PortSet ==
  {LET c == PortColours[k]
   IN  Switch(c.name, Update(c.name, "leds", Bits(PortMask), Bits(c.code)),
                      Update(c.name, "leds", Bits(c.code), {})) : k \in DOMAIN PortColours}

\* Every colour is lit before it is registered; the last one is the default.
PortInit(c) == <<Write(PortMask, c.code), Register("led", c.name), Register("trigger", c.name)>>
Port ==
  Driver("mmio",
         Panel({0}, PortGet, PortSet, FlattenSeq([k \in DOMAIN PortColours |-> PortInit(PortColours[k])]),
               Pattern(1, 0), {}),
         <<>>, <<"claim", "leds">>)

-----------------------------------------------------------------------------
(* Drivers with files only.                                                  *)

\* The last step unmasks interrupts; its errors are ignored.
MontblancSmb == Driver("i2c", NoLeds, MontblancSmbFiles, <<"hwmon", "files", "unmask">>)
JangaSmb == Driver("i2c", NoLeds, JangaSmbFiles, <<"hwmon", "files">>)
TahanSmb == Driver("i2c", NoLeds, TahanSmbFiles, <<"hwmon", "files">>)
Th6Smb == Driver("i2c", NoLeds, Th6SmbFiles, <<"hwmon", "files">>)
Wedge800bSmb == Driver("i2c", NoLeds, Wedge800bSmbFiles, <<"hwmon", "files">>)
Wedge800cSmb == Driver("i2c", NoLeds, Wedge800cSmbFiles, <<"hwmon", "files">>)
IcecubeMcb == Driver("i2c", NoLeds, IcecubeMcbFiles, <<"files">>)
IcecubePic == Driver("i2c", NoLeds, IcecubePicFiles, <<"files">>)
FpgaInfo == Driver("mmio", NoLeds, FpgaInfoFiles, <<"claim", "files">>)
Rtm == Driver("mmio", NoLeds, RtmFiles, <<"claim", "files">>)
Xcvr == Driver("mmio", NoLeds, XcvrFiles, <<"claim", "files">>)

Drivers ==
  [MontblancScm |-> MontblancScm, Minipack3nScm |-> Minipack3nScm, Wedge800Scm |-> Wedge800Scm,
   IcecubeScm |-> IcecubeScm, IceteaScm |-> IceteaScm, TahansbScm |-> TahansbScm,
   AnacapaScm |-> AnacapaScm, Leh800bScm |-> Leh800bScm, MtiaSmb |-> MtiaSmb,
   AnacapaMcb |-> AnacapaMcb, MontblancFan |-> MontblancFan, Minipack3nFan |-> Minipack3nFan,
   Wedge800Fan |-> Wedge800Fan, Leh800bPdb |-> Leh800bPdb, GenericFan |-> GenericFan,
   Port |-> Port, MontblancSmb |-> MontblancSmb, JangaSmb |-> JangaSmb, TahanSmb |-> TahanSmb,
   Th6Smb |-> Th6Smb, Wedge800bSmb |-> Wedge800bSmb, Wedge800cSmb |-> Wedge800cSmb,
   IcecubeMcb |-> IcecubeMcb, IcecubePic |-> IcecubePic, FpgaInfo |-> FpgaInfo, Rtm |-> Rtm,
   Xcvr |-> Xcvr]
=============================================================================
