----------------------------- MODULE SmbSensors -----------------------------
(***************************************************************************)
(* The temperatures the CPLDs of the switch main boards report through      *)
(* hwmon.  A temperature is read as one or two bytes, by one transfer each, *)
(* and converted; two boards also have a limit, written in the same way.    *)
(* No lock is taken: the register may change between the two bytes, and any *)
(* transfer may fail.  Numbers are as the drivers report them, in thousands *)
(* of a degree; a limit is asked for in degrees.                            *)
(*                                                                          *)
(* Every channel has registers of its own, so one is modelled.              *)
(***************************************************************************)
EXTENDS Integers

CONSTANTS
  Readers,    \* the callers
  Raws,       \* what the chip measures; not 1, whose temperature has no 32 bits
  Asked       \* the limits that are asked for, in degrees

\* An u16.
Word == 0 .. 65535

ASSUME SensorsAssumption ==
  /\ Raws \subseteq Word
  /\ Asked \subseteq Int

VARIABLES
  sensor,     \* the driver
  chip,       \* the registers of the temperature
  over,       \* the registers of the limit
  call,       \* the call of each reader, between its two transfers
  lone,       \* the reader that writes a limit with no other at it, as a set
  settled,    \* the limit that was last written, by one alone and whole, as a set
  answer      \* what the last step returned to a reader

svars == <<sensor, chip, over, call, lone, settled, answer>>

High(raw) == raw \div 256
Low(raw) == raw % 256
Pair(h, l) == (h * 256 + l) % 65536

\* The value of an u8 that was assigned -EIO.
ErrorByte == 251

\* 3971300000 / raw, and the like, within 32 bits.
Ratio(hundredth, raw) ==
  100 * (hundredth \div raw) + (100 * (hundredth % raw)) \div raw

Fine(offset, hundredth) == [offset |-> offset, hundredth |-> hundredth, fine |-> TRUE]
Coarse(offset, half) == [offset |-> offset, hundredth |-> half, fine |-> FALSE]

\* The temperature of a raw value that is not zero.
Celsius(formula, raw) ==
  formula.offset -
    IF formula.fine THEN Ratio(formula.hundredth, raw)
    ELSE (formula.hundredth \div (2 * raw)) * 1000

\* How the value of a limit is computed, and from where on limits are refused.
NoLimit == [has |-> FALSE]
LimitOf(top, twice, beyond) == [has |-> TRUE, top |-> top, twice |-> twice, refused |-> beyond]

-----------------------------------------------------------------------------
\* A driver: the bytes of a value, what is done about a transfer that fails
\* ("both": an error after both, "each": an error at once, "none": it passes
\* for data), and which values are answered by an error.
JangaLimit == LimitOf(7942600, 952, 476)
JangaSensor ==
  [bytes |-> 2, check |-> "both", refuses |-> {"zero", "below"}, zero |-> 0,
   formula |-> Fine(476359, 39713000), limits |-> JangaLimit]

TahanLimit == LimitOf(7942600, 952, 476)
TahanSensor ==
  [bytes |-> 2, check |-> "none", refuses |-> {"zero"}, zero |-> 0,
   formula |-> Fine(476359, 39713000), limits |-> TahanLimit]

Th6Sensor ==
  [bytes |-> 2, check |-> "both", refuses |-> {"zero", "below"}, zero |-> 0,
   formula |-> Fine(378850, 32460000), limits |-> NoLimit]

\* Zero is reported as a temperature of -EINVAL.
MontblancSensor ==
  [bytes |-> 2, check |-> "each", refuses |-> {}, zero |-> -22,
   formula |-> Fine(476359, 39713000), limits |-> NoLimit]

Wedge800bSensor ==
  [bytes |-> 2, check |-> "none", refuses |-> {"zero"}, zero |-> 0,
   formula |-> Coarse(476359, 317704 * 25), limits |-> NoLimit]

\* One byte, in degrees, taken as unsigned.
Wedge800cSensor ==
  [bytes |-> 1, check |-> "both", refuses |-> {}, zero |-> 0,
   formula |-> [offset |-> 0], limits |-> NoLimit]

Sensors ==
  {JangaSensor, TahanSensor, Th6Sensor, MontblancSensor, Wedge800bSensor, Wedge800cSensor}

-----------------------------------------------------------------------------
Error == [ok |-> FALSE]
Reading(n) == [ok |-> TRUE, value |-> n]

Convert(raw) ==
  IF sensor.bytes = 1 THEN Reading(1000 * raw)
  ELSE IF raw = 0 THEN IF "zero" \in sensor.refuses THEN Error ELSE Reading(sensor.zero)
  ELSE LET n == Celsius(sensor.formula, raw)
       IN  IF n < 0 /\ "below" \in sensor.refuses THEN Error ELSE Reading(n)

\* Mutant: the temperature is not doubled.
FreqUndoubled(v) == (sensor.limits.top \div (sensor.limits.twice - v)) % 65536

\* The value of the registers for a limit, an u16: 7942600 / (952 - 2 * v).
Freq(v) == (sensor.limits.top \div (sensor.limits.twice - 2 * v)) % 65536

\* Beyond this limit the value has more than 16 bits.
MostLimit == 415

Idle == [at |-> "idle"]
Attributes == IF sensor.limits.has THEN {"input", "max_hyst"} ELSE {"input"}
RawOf(attr) == IF attr = "input" THEN chip ELSE over
Setting == {u \in Readers : call[u].at = "set"}

\* The callers between two transfers see the registers change: as long as the
\* high byte stays, the values they had since are collected.
Seen(new, set) ==
  [u \in Readers |->
    LET c == call[u]
        now == IF c.at = "read" /\ c.attr = "input" THEN new ELSE set
    IN  IF c.at # "read" \/ c.saw = {} THEN c
        ELSE [c EXCEPT !.saw = IF \E raw \in @ : High(raw) # High(now) THEN {} ELSE @ \union {now}]]

NoAnswer == [what |-> Error, failed |-> FALSE, saw |-> {}, from |-> {}]

\* The call of u returns.
Return(u, what, c) ==
  /\ call' = [call EXCEPT ![u] = Idle]
  /\ answer' = [what |-> what, failed |-> c.failed, saw |-> c.saw, from |-> c.from]

-----------------------------------------------------------------------------
\* The chip measures anew, both bytes at once.
Measure(raw) ==
  /\ chip' = raw
  /\ call' = Seen(raw, over)
  /\ answer' = NoAnswer
  /\ UNCHANGED <<sensor, over, lone, settled>>

\* The first transfer of a read, of a temperature or a limit.
ReadFirst(u, attr, fails) ==
  /\ call[u] = Idle /\ sensor.bytes = 2
  /\ LET raw == RawOf(attr)
         c == [at |-> "read", attr |-> attr, failed |-> fails, saw |-> {raw},
               from |-> IF attr = "max_hyst" THEN settled ELSE {},
               high |-> IF fails THEN ErrorByte ELSE High(raw)]
     IN  IF fails /\ sensor.check = "each" THEN Return(u, Error, c)
         ELSE call' = [call EXCEPT ![u] = c] /\ answer' = NoAnswer
  /\ UNCHANGED <<sensor, chip, over, lone, settled>>

ReadSecond(u, fails) ==
  /\ call[u].at = "read"
  /\ LET c == [call[u] EXCEPT !.failed = @ \/ fails,
                              !.from = IF @ = settled THEN @ ELSE {}]
         low == IF fails THEN ErrorByte ELSE Low(RawOf(c.attr))
     IN  Return(u, IF c.failed /\ sensor.check # "none" THEN Error ELSE Convert(Pair(c.high, low)), c)
  /\ UNCHANGED <<sensor, chip, over, lone, settled>>

\* The register of a temperature that has one byte.
ReadByte(u, fails) ==
  /\ call[u] = Idle /\ sensor.bytes = 1
  /\ Return(u, IF fails THEN Error ELSE Convert(Low(chip)),
            [failed |-> fails, saw |-> {Low(chip)}, from |-> {}])
  /\ UNCHANGED <<sensor, chip, over, lone, settled>>

-----------------------------------------------------------------------------
\* A limit is written: refused, or the high byte and then the low byte.
Refuse(u, v) ==
  /\ call[u] = Idle /\ sensor.limits.has /\ v >= sensor.limits.refused
  /\ answer' = NoAnswer
  /\ UNCHANGED <<sensor, chip, over, call, lone, settled>>

WriteHigh(u, v) ==
  /\ call[u] = Idle /\ sensor.limits.has /\ v < sensor.limits.refused
  /\ over' = Pair(High(Freq(v)), Low(over))
  /\ call' = [Seen(chip, over') EXCEPT ![u] = [at |-> "set", value |-> v]]
  /\ lone' = IF Setting = {} THEN {u} ELSE {}
  /\ settled' = {} /\ answer' = NoAnswer
  /\ UNCHANGED <<sensor, chip>>

WriteLow(u) ==
  /\ call[u].at = "set"
  /\ over' = Pair(High(over), Low(Freq(call[u].value)))
  /\ call' = [Seen(chip, over') EXCEPT ![u] = Idle]
  /\ settled' = IF lone = {u} THEN {call[u].value} ELSE {}
  /\ lone' = {}
  /\ answer' = NoAnswer
  /\ UNCHANGED <<sensor, chip>>

\* The first transfer fails, or the second: then half of the limit is written.
WriteBreaks(u) ==
  /\ call[u].at = "set"
  /\ call' = [call EXCEPT ![u] = Idle]
  /\ settled' = {} /\ lone' = {}
  /\ answer' = [NoAnswer EXCEPT !.failed = TRUE]
  /\ UNCHANGED <<sensor, chip, over>>

SInit(kinds) ==
  /\ sensor \in kinds
  /\ chip = 0 /\ over = 10693
  /\ call = [u \in Readers |-> Idle]
  /\ lone = {} /\ settled = {} /\ answer = NoAnswer

SNext ==
  \/ \E raw \in Raws : Measure(raw)
  \/ \E u \in Readers :
       \/ \E fails \in BOOLEAN :
            \/ \E attr \in Attributes : ReadFirst(u, attr, fails)
            \/ ReadSecond(u, fails) \/ ReadByte(u, fails)
       \/ \E v \in Asked : Refuse(u, v) \/ WriteHigh(u, v)
       \/ WriteLow(u) \/ WriteBreaks(u)

-----------------------------------------------------------------------------
AbsoluteZero == -273

STypeOK ==
  /\ chip \in Raws \cup {0} /\ over \in Word
  /\ lone \subseteq Readers /\ settled \subseteq Asked
  /\ \A u \in Readers : call[u].at \in {"idle", "read", "set"}

\* A driver that looks at its transfers answers no value when one failed.  When
\* the high byte stayed the same during the call, the value is that of a
\* temperature the chip measured in that time.  A limit that was written whole,
\* with no other caller at it, is a temperature and fits the registers, reads back to
\* the degree.
ReadingsAreSound ==
  answer.what.ok =>
    /\ sensor.check # "none" => ~answer.failed
    /\ ~answer.failed /\ answer.saw # {}
         => \E raw \in answer.saw : answer.what = Convert(raw)
    /\ ~answer.failed =>
         \A v \in answer.from :
           v \in AbsoluteZero .. MostLimit => answer.what.value \in 1000 * v .. 1000 * v + 1000
=============================================================================
