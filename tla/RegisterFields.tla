--------------------------- MODULE RegisterFields ---------------------------
(***************************************************************************)
(* Fields of CPLD and FPGA registers, and what the drivers do to them.  A   *)
(* register is the set of its bits that are 1.  Only the low eight bits are *)
(* kept: no driver writes to any other bit from the files and LEDs modelled *)
(* here.                                                                    *)
(*                                                                          *)
(* An update is one request of a driver to the register: the bits it clears *)
(* and sets, the lock it does so under, and the field that has to hold a    *)
(* value for the update to change anything.                                 *)
(***************************************************************************)
EXTENDS Integers, Sequences, SequencesExt

AllBits == 0 .. 7
NoLock == "none"

\* The bits of a number.
Bits(n) == {i \in AllBits : (n \div (2 ^ i)) % 2 = 1}

Update(name, lock, clear, set) ==
  [name |-> name, lock |-> lock, clear |-> clear, set |-> set, mask |-> {}, is |-> {}]

\* The same, if the bits of the mask are those given.
UpdateIf(u, mask, is) == [u EXCEPT !.mask = mask, !.is = is]

NoUpdate == Update("", NoLock, {}, {})

Apply(u, bits) == IF bits \cap u.mask = u.is THEN (bits \ u.clear) \cup u.set ELSE bits

\* A register that is written as a whole is not read before.
ReadsFirst(u) == u.clear # AllBits

-----------------------------------------------------------------------------
(* Files.                                                                    *)

Entry(name, at, off, width, rw, custom) ==
  [name |-> name, at |-> at, off |-> off, width |-> width, rw |-> rw, custom |-> custom]
Ro(name, at, off, width) == Entry(name, at, off, width, FALSE, FALSE)
Rw(name, at, off, width) == Entry(name, at, off, width, TRUE, FALSE)

\* fw_ver, with a show function of its own and no field.
Version == Entry("fw_ver", 0, 0, 0, FALSE, TRUE)

Field(e) == e.off .. e.off + e.width - 1

\* Mutant: the input is not cut to the width of the field.
StoreUncut(e, input) == Update(e.name, e.name, Field(e), {e.off + b : b \in input})

\* regbit_sysfs_store, under the lock of the file.
Store(e, input) ==
  Update(e.name, e.name, Field(e), {e.off + b : b \in {b \in input : b < e.width}})

ValBits(bus) == IF bus = "i2c" THEN 8 ELSE 32
MaxRegister(bus) == IF bus = "i2c" THEN 255 ELSE 524287

ConfigCheck(e, bus) ==
  /\ e.at <= MaxRegister(bus)
  /\ e.off < ValBits(bus)
  /\ e.off + e.width <= ValBits(bus)

-----------------------------------------------------------------------------
(* LEDs.  Each colour of an LED is an LED class device; all of them share    *)
(* one register.                                                             *)

Colour(name, code) == [name |-> name, code |-> code]

\* When brightness_get answers LED_ON: the bits of the mask have that value.
Shows(colours, mask) ==
  {[name |-> colours[k].name, mask |-> Bits(mask), is |-> Bits(colours[k].code)] : k \in DOMAIN colours}

\* brightness_set of a colour, for LED_ON and for LED_OFF.
Switch(name, on, off) == [name |-> name, on |-> on, off |-> off]

\* The panel LEDs.  A colour is switched off only if it is lit.
PanelSwitch(c, lock, cleared, mask, off) ==
  Switch(c.name,
         Update(c.name, lock, Bits(cleared), Bits(c.code)),
         UpdateIf(Update(c.name, lock, Bits(mask), Bits(off)), Bits(mask), Bits(c.code)))

PanelSet(colours, mask, off) ==
  {PanelSwitch(colours[k], "leds", mask, mask, off) : k \in DOMAIN colours}

\* The fan LEDs: the register is written, whoever lit it.
FanSet(colours, off) ==
  {LET c == colours[k]
   IN  Switch(c.name, Update(c.name, NoLock, AllBits, Bits(c.code)),
                      Update(c.name, NoLock, AllBits, Bits(off))) : k \in DOMAIN colours}

\* Steps of a probe.
Step(what, name, update) == [what |-> what, name |-> name, update |-> update]
Write(mask, value) == Step("write", "", Update("default", NoLock, Bits(mask), Bits(value)))
Register(what, name) == Step(what, name, NoUpdate)
Leds(colours) == [k \in DOMAIN colours |-> Register("led", colours[k].name)]

\* A default value is written without the lock, then the colours are registered.
InitLed(colours, mask, default) == <<Write(mask, default)>> \o Leds(colours)
=============================================================================
