----------------------------- MODULE BoardProofs -----------------------------
(***************************************************************************)
(* Proofs about the parts of a board, for any users, time-outs and          *)
(* temperatures.                                                            *)
(***************************************************************************)
EXTENDS MCBoards, TLAPS

-----------------------------------------------------------------------------
(* The watchdogs.                                                            *)

Flags ==
  /\ wdog \in Watchdogs
  /\ loaded \in BOOLEAN /\ running \in BOOLEAN /\ enabled \in BOOLEAN /\ fired \in BOOLEAN
  /\ due \in BOOLEAN /\ told \in BOOLEAN /\ fresh \in BOOLEAN
  /\ (running => loaded) /\ (due => running)

Numbers ==
  /\ timeout \in 0 .. 1275
  /\ limit \in 0 .. 255 /\ count \in 0 .. 255
  /\ quiet \in 0 .. MaxQuiet

Units == timeout \div Unit

\* The counter runs up to the limit, from zero if it is fresh.
FanCounts ==
  IsFan =>
    /\ told => limit = Units
    /\ enabled /\ ~fired => quiet = 0 \/ (quiet <= count /\ count < limit)
    /\ fresh => count <= quiet
    /\ fresh /\ fired => limit <= count

\* The counter runs down from the time-out, or from less.
MtiaCounts ==
  ~IsFan /\ told =>
    /\ Units > 0 /\ count <= Units
    /\ enabled /\ ~fired => count + quiet <= Units /\ (quiet = 0 \/ count > 0)
    /\ fresh => count + quiet = Units
    /\ fresh /\ fired => count = 0
    /\ fresh /\ count = 0 => fired \/ ~enabled

WInv == Flags /\ Numbers /\ FanCounts /\ MtiaCounts

LEMMA Kinds ==
  ASSUME wdog \in Watchdogs
  PROVE  /\ IsFan => /\ wdog.start = 16 /\ wdog.stop = 0 /\ wdog.pet = 48
                     /\ wdog.least = 1 /\ wdog.most = 1275 /\ wdog.default = 315
         /\ ~IsFan => /\ wdog.start = 1 /\ wdog.stop = 0
                      /\ wdog.least = 5 /\ wdog.most = 1275 /\ wdog.default = 30
BY DEF Watchdogs, IsFan, MontblancWdt, Minipack3nWdt, Wedge800Wdt, IcecubeWdt,
   IceteaWdt, TahansbWdt, AnacapaWdt, Leh800bWdt, GenericWdt, MtiaWdt, FanWdt, TIMEOUT_MAX, Unit

LEMMA BitsOfControl ==
  /\ Bit(16, 4) /\ ~Bit(16, 5) /\ Bit(48, 4) /\ Bit(48, 5) /\ ~Bit(0, 4) /\ ~Bit(0, 5)
  /\ Bit(1, 0) /\ ~Bit(0, 0)
BY DEF Bit

LEMMA ControlStep ==
  ASSUME NEW value, Control(value)
  PROVE  /\ ~fired' /\ fired' \in BOOLEAN
         /\ value = 0 => ~enabled' /\ enabled' \in BOOLEAN /\ count' = count
         /\ IsFan /\ value = 16 => enabled' /\ enabled' \in BOOLEAN /\ count' = count
         /\ IsFan /\ value = 48 => enabled' /\ enabled' \in BOOLEAN /\ count' = 0
         /\ ~IsFan /\ value = 1 => enabled' /\ enabled' \in BOOLEAN /\ count' = count
<1>1. /\ ~fired' /\ fired' \in BOOLEAN
      /\ enabled' = (IF IsFan THEN Bit(value, 4) ELSE Bit(value, 0))
      /\ IF IsFan /\ Bit(value, 5) THEN count' = 0 ELSE count' = count
  BY DEF Control
<1>2. enabled' \in BOOLEAN
  BY <1>1 DEF Bit
<1>3. QED
  BY <1>1, <1>2, BitsOfControl

LEMMA WInitInv == WInit(Watchdogs) => WInv
<1> SUFFICES ASSUME WInit(Watchdogs) PROVE WInv
  OBVIOUS
<1>1. Flags
  BY DEF WInit, Flags
<1>2. Numbers
  BY WatchdogAssumption DEF WInit, Numbers
<1>3. FanCounts /\ MtiaCounts
  BY <1>2 DEF WInit, FanCounts, MtiaCounts, Numbers
<1>4. QED
  BY <1>1, <1>2, <1>3 DEF WInv

LEMMA WStepInv == WInv /\ [WNext]_wvars => WInv'
<1> SUFFICES ASSUME Flags, Numbers, FanCounts, MtiaCounts, [WNext]_wvars
             PROVE  (Flags /\ Numbers /\ FanCounts /\ MtiaCounts)'
  BY DEF WInv
<1> MaxQuiet \in Nat /\ wdog \in Watchdogs
  BY WatchdogAssumption DEF Flags
<1>0. /\ IsFan => /\ wdog.start = 16 /\ wdog.stop = 0 /\ wdog.pet = 48
                  /\ wdog.least = 1 /\ wdog.most = 1275 /\ wdog.default = 315
      /\ ~IsFan => /\ wdog.start = 1 /\ wdog.stop = 0
                   /\ wdog.least = 5 /\ wdog.most = 1275 /\ wdog.default = 30
  BY Kinds
<1> USE DEF Units, IsFan, Unit, TIMEOUT_MAX
<1>1. CASE LoadFan
  <2>1. timeout' = 315 /\ IsFan /\ ~told' /\ told' \in BOOLEAN
    <3>1. IsFan /\ timeout' = wdog.default /\ told' = FALSE
      BY <1>1 DEF LoadFan
    <3>2. wdog.default = 315
      BY <3>1, <1>0
    <3>3. QED
      BY <3>1, <3>2
  <2>2. \/ ~enabled' /\ enabled' \in BOOLEAN /\ ~fired' /\ fired' \in BOOLEAN /\ count' = count
        \/ UNCHANGED <<enabled, fired, count>>
    BY <1>1, <2>1, <1>0, ControlStep DEF LoadFan
  <2>3. Flags'
    BY <1>1, <2>1, <2>2 DEF LoadFan, Flags
  <2>4. Numbers'
    BY <1>1, <2>1, <2>2 DEF LoadFan, Numbers
  <2>5. FanCounts'
    BY <1>1, <2>1, <2>2 DEF LoadFan, Flags, Numbers, FanCounts
  <2>6. MtiaCounts'
    BY <1>1, <2>1, <2>2 DEF LoadFan, Flags, Numbers, MtiaCounts
  <2>7. QED
    BY <2>3, <2>4, <2>5, <2>6
<1>2. CASE LoadMtia
  <2>1. timeout' \in 5 .. 1275
    BY <1>2, <1>0 DEF LoadMtia, Adopted, Numbers
  <2>2. count' = timeout' \div 5 /\ count' \in 1 .. 255
    BY <1>2, <2>1 DEF LoadMtia
  <2>3. Flags'
    <3>1. UNCHANGED <<wdog, running, enabled, due>> /\ ~running
      BY <1>2 DEF LoadMtia, Flags
    <3>2. loaded' \in BOOLEAN /\ told' \in BOOLEAN /\ fresh' \in BOOLEAN /\ fired' \in BOOLEAN
      BY <1>2 DEF LoadMtia
    <3>3. QED
      BY <3>1, <3>2 DEF Flags
  <2>4. Numbers'
    <3>1. limit' = limit /\ quiet' = 0
      BY <1>2 DEF LoadMtia
    <3>2. timeout' \in 0 .. 1275
      BY <2>1
    <3>3. count' \in 0 .. 255
      BY <2>2
    <3>4. QED
      BY <3>1, <3>2, <3>3 DEF Numbers
  <2>5. FanCounts'
    BY <1>2, <2>1, <2>2 DEF LoadMtia, Flags, Numbers, FanCounts
  <2>6. MtiaCounts'
    BY <1>2, <2>1, <2>2 DEF LoadMtia, Flags, Numbers, MtiaCounts
  <2>7. QED
    BY <2>3, <2>4, <2>5, <2>6
<1>3. CASE Unload
  <2>1. Flags'
    BY <1>3 DEF Unload, Flags
  <2>2. Numbers'
    BY <1>3 DEF Unload, Numbers
  <2>3. FanCounts'
    BY <1>3 DEF Unload, Flags, Numbers, FanCounts
  <2>4. MtiaCounts'
    BY <1>3 DEF Unload, Flags, Numbers, MtiaCounts
  <2>5. QED
    BY <2>1, <2>2, <2>3, <2>4
<1>4. CASE Start
  <2>1. enabled' /\ enabled' \in BOOLEAN /\ ~fired' /\ fired' \in BOOLEAN /\ count' = count
    BY <1>4, <1>0, ControlStep DEF Start
  <2>2. Flags'
    BY <1>4, <2>1 DEF Start, Flags
  <2>3. Numbers'
    BY <1>4, <2>1 DEF Start, Numbers
  <2>4. FanCounts'
    BY <1>4, <2>1 DEF Start, Flags, Numbers, FanCounts
  <2>5. MtiaCounts'
    BY <1>4, <2>1 DEF Start, Flags, Numbers, MtiaCounts
  <2>6. QED
    BY <2>2, <2>3, <2>4, <2>5
<1>5. CASE Stop
  <2>1. ~enabled' /\ enabled' \in BOOLEAN /\ ~fired' /\ fired' \in BOOLEAN /\ count' = count
    BY <1>5, <1>0, ControlStep DEF Stop
  <2>2. Flags'
    BY <1>5, <2>1 DEF Stop, Flags
  <2>3. Numbers'
    BY <1>5, <2>1 DEF Stop, Numbers
  <2>4. FanCounts'
    BY <1>5, <2>1 DEF Stop, Flags, Numbers, FanCounts
  <2>5. MtiaCounts'
    BY <1>5, <2>1 DEF Stop, Flags, Numbers, MtiaCounts
  <2>6. QED
    BY <2>2, <2>3, <2>4, <2>5
<1>6. CASE StopFails \/ PingFails
  <2>1. Flags'
    BY <1>6 DEF StopFails, PingFails, Flags
  <2>2. Numbers'
    <3>1. UNCHANGED <<timeout, limit, count, quiet>>
      BY <1>6 DEF StopFails, PingFails
    <3>2. QED
      BY <3>1 DEF Numbers
  <2>3. FanCounts'
    BY <1>6 DEF StopFails, PingFails, Flags, Numbers, FanCounts
  <2>4. MtiaCounts'
    <3>1. UNCHANGED <<wdog, timeout, count, quiet, enabled, fired, told, fresh>>
      BY <1>6 DEF StopFails, PingFails
    <3>2. QED
      BY <3>1 DEF MtiaCounts
  <2>5. QED
    BY <2>1, <2>2, <2>3, <2>4
<1>7. CASE Ping
  <2>1. /\ ~fired' /\ fired' \in BOOLEAN /\ enabled' \in BOOLEAN
        /\ (IsFan => enabled' /\ count' = 0)
        /\ (~IsFan => count' = timeout \div 5 /\ UNCHANGED enabled)
    <3>1. CASE IsFan
      BY <1>7, <3>1, <1>0, ControlStep DEF Ping
    <3>2. CASE ~IsFan
      BY <1>7, <3>2 DEF Ping, Flags
    <3>3. QED
      BY <3>1, <3>2
  <2>2. timeout \div 5 \in 0 .. 255
    BY <1>7, <2>1 DEF Numbers
  <2>3. Flags'
    BY <1>7, <2>1, <2>2 DEF Ping, Flags
  <2>4. Numbers'
    BY <1>7, <2>1, <2>2 DEF Ping, Numbers
  <2>5. FanCounts'
    BY <1>7, <2>1, <2>2 DEF Ping, Flags, Numbers, FanCounts
  <2>6. MtiaCounts'
    BY <1>7, <2>1, <2>2 DEF Ping, Flags, Numbers, MtiaCounts
  <2>7. QED
    BY <2>3, <2>4, <2>5, <2>6
<1>8. ASSUME NEW t \in Timeouts, SetFan(t)
      PROVE  (Flags /\ Numbers /\ FanCounts /\ MtiaCounts)'
  <2>1. t \in 1 .. 1275 /\ timeout' = t
    BY <1>8, <1>0 DEF SetFan, Least
  <2>2. Limit(t) = t \div 5 /\ Limit(t) \in 0 .. 255
    BY <1>8, <2>1 DEF Limit, Least
  <2>3. Flags'
    <3>1. /\ told' \in BOOLEAN /\ fresh' \in BOOLEAN /\ due' \in BOOLEAN
          /\ (due' => running)
      <4>1. CASE /\ limit' = Limit(t) /\ told' = TRUE /\ fresh' = FALSE /\ quiet' = 0
                 /\ due' = running
        BY <4>1 DEF Flags
      <4>2. CASE told' = FALSE /\ UNCHANGED <<limit, fresh, quiet, due>>
        BY <4>2 DEF Flags
      <4>3. QED
        BY <1>8, <4>1, <4>2 DEF SetFan
    <3>2. UNCHANGED <<wdog, loaded, running, enabled, fired>>
      BY <1>8 DEF SetFan
    <3>3. QED
      BY <3>1, <3>2 DEF Flags
  <2>4. Numbers'
    <3>1. timeout' \in 0 .. 1275
      BY <2>1
    <3>2. limit' \in {limit, Limit(t)} /\ quiet' \in {quiet, 0} /\ count' = count
      BY <1>8 DEF SetFan
    <3>3. QED
      BY <2>2, <3>1, <3>2 DEF Numbers
  <2>5. FanCounts'
    BY <1>8, <2>1, <2>2 DEF SetFan, Flags, Numbers, FanCounts
  <2>6. MtiaCounts'
    BY <1>8, <2>1, <2>2 DEF SetFan, Flags, Numbers, MtiaCounts
  <2>7. QED
    BY <2>3, <2>4, <2>5, <2>6
<1>9. ASSUME NEW t \in Timeouts, SetMtia(t)
      PROVE  (Flags /\ Numbers /\ FanCounts /\ MtiaCounts)'
  <2>1. t \in 5 .. 1275 /\ timeout' = t /\ t \div 5 \in 1 .. 255 /\ count' = t \div 5
    BY <1>9, <1>0 DEF SetMtia
  <2>2. Flags'
    <3>1. /\ UNCHANGED <<wdog, loaded, running, enabled, told>>
          /\ fresh' = TRUE /\ fired' = FALSE /\ due' = running
      BY <1>9 DEF SetMtia
    <3>2. QED
      BY <3>1 DEF Flags
  <2>3. Numbers'
    BY <1>9, <2>1 DEF SetMtia, Numbers
  <2>4. FanCounts'
    BY <1>9, <2>1 DEF SetMtia, Flags, Numbers, FanCounts
  <2>5. MtiaCounts'
    BY <1>9, <2>1 DEF SetMtia, Flags, Numbers, MtiaCounts
  <2>6. QED
    BY <2>2, <2>3, <2>4, <2>5
<1>10. CASE Tick
  <2>1. /\ count' \in 0 .. 255 /\ fired' \in BOOLEAN
        /\ IsFan => /\ count' = Least(count + 1, 255)
                    /\ (fired' <=> count' >= limit)
        /\ ~IsFan => /\ count' = IF count > 0 THEN count - 1 ELSE 0
                     /\ (fired' <=> count' = 0)
    <3>1. /\ IsFan => count' = Least(count + 1, 255) /\ fired' = (count' >= limit)
          /\ ~IsFan => /\ count' = IF count > 0 THEN count - 1 ELSE 0
                       /\ fired' = (count' = 0)
      BY <1>10 DEF Tick
    <3>2. fired' \in BOOLEAN
      <4>1. (count' >= limit) \in BOOLEAN /\ (count' = 0) \in BOOLEAN
        OBVIOUS
      <4>2. QED
        BY <3>1, <4>1, Zenon
    <3>3. count' \in 0 .. 255
      BY <3>1 DEF Numbers, Least
    <3>4. QED
      BY <3>1, <3>2, <3>3
  <2>2. Flags'
    BY <1>10, <2>1 DEF Tick, Least, Flags
  <2>3. Numbers'
    BY <1>10, <2>1 DEF Tick, Least, Numbers
  <2>4. FanCounts'
    BY <1>10, <2>1 DEF Tick, Least, Flags, Numbers, FanCounts
  <2>5. MtiaCounts'
    BY <1>10, <2>1 DEF Tick, Least, Flags, Numbers, MtiaCounts
  <2>6. QED
    BY <2>2, <2>3, <2>4, <2>5
<1>11. CASE UNCHANGED wvars
  <2>1. Flags'
    BY <1>11 DEF wvars, Flags
  <2>2. Numbers'
    BY <1>11 DEF wvars, Numbers
  <2>3. FanCounts'
    BY <1>11 DEF wvars, Flags, Numbers, FanCounts
  <2>4. MtiaCounts'
    BY <1>11 DEF wvars, Flags, Numbers, MtiaCounts
  <2>5. QED
    BY <2>1, <2>2, <2>3, <2>4
<1>12. QED
  BY <1>1, <1>2, <1>3, <1>4, <1>5, <1>6, <1>7, <1>8, <1>9, <1>10, <1>11 DEF WNext

LEMMA WInvCorrect == MCSpec => []WInv
<1>1. MCInit => WInv
  <2>1. MCInit => WInit(Watchdogs)
    BY DEF MCInit, WInit, Of, Watchdogs
  <2>2. QED
    BY <2>1, WInitInv
<1>2. WInv /\ [MCNext]_<<part, cvars, wvars, svars>> => WInv'
  BY WStepInv DEF MCNext
<1>3. QED
  BY <1>1, <1>2, PTL DEF MCSpec

\* The fans are boosted when, and only when, the accepted time-out has passed
\* without a ping, for every time-out.
THEOREM KeepsTime == MCSpec => []WatchdogKeepsTime
<1>1. WInv => WatchdogKeepsTime
  <2> SUFFICES ASSUME WInv, told, enabled
               PROVE  /\ ~fired => quiet = 0 \/ Unit * quiet < timeout
                      /\ fresh /\ fired => Unit * quiet > timeout - Unit
                      /\ fresh /\ ~fired => TimeLeft + Unit * quiet \in timeout - Unit + 1 .. timeout
    BY DEF WatchdogKeepsTime
  <2>1. /\ timeout \in 0 .. 1275 /\ limit \in 0 .. 255 /\ count \in 0 .. 255 /\ quiet \in Nat
        /\ Unit = 5 /\ Units \in 0 .. 255 /\ 5 * Units \in timeout - 4 .. timeout
    BY WatchdogAssumption DEF WInv, Numbers, Units, Unit
  <2>2. CASE IsFan
    BY <2>1, <2>2 DEF WInv, FanCounts, TimeLeft
  <2>3. CASE ~IsFan
    BY <2>1, <2>3 DEF WInv, MtiaCounts, TimeLeft
  <2>4. QED
    BY <2>2, <2>3
<1>2. QED
  BY <1>1, WInvCorrect, PTL

-----------------------------------------------------------------------------
(* The temperatures.  First the arithmetic of their registers.               *)

\* A product, to be reasoned about by the lemmas on it.
Times(a, b) == a * b

LEMMA Product ==
  ASSUME NEW a \in Nat, NEW b \in Nat
  PROVE  /\ Times(a, b) \in Nat
         /\ \A k \in Nat : k <= a => k * b <= Times(a, b)
         /\ \A k \in Nat : a <= k => Times(a, b) <= k * b
<1>1. a * b \in Nat
  BY SMTT(60)
<1>2. \A k \in Nat : k <= a => k * b <= a * b
  BY SMTT(60)
<1>3. \A k \in Nat : a <= k => a * b <= k * b
  BY SMTT(60)
<1>4. QED
  BY <1>1, <1>2, <1>3, Zenon DEF Times

LEMMA Quotient ==
  ASSUME NEW a \in Nat, NEW b \in Nat, b > 0
  PROVE  /\ a \div b \in Nat
         /\ Times(a \div b, b) <= a /\ a < Times(a \div b, b) + b
         /\ a % b \in Nat /\ a = Times(a \div b, b) + (a % b)
BY SMTT(60) DEF Times

\* Ratio is the whole part of the quotient, without a product that is too large.
LEMMA RatioIsQuotient ==
  ASSUME NEW h \in Nat, NEW r \in Nat, r > 0
  PROVE  /\ Ratio(h, r) \in Nat
         /\ Times(Ratio(h, r), r) <= 100 * h /\ 100 * h < Times(Ratio(h, r), r) + r
<1> DEFINE q == h \div r
           m == h % r
           y == (100 * m) \div r
<1>1. q \in Nat /\ m \in Nat /\ h = Times(q, r) + m
  <2>1. h \div r \in Nat /\ h % r \in Nat /\ h = Times(h \div r, r) + (h % r)
    BY Quotient, Zenon
  <2>2. QED
    BY <2>1
<1>2. y \in Nat /\ Times(y, r) <= 100 * m /\ 100 * m < Times(y, r) + r
  <2> HIDE DEF m
  <2> DEFINE c == 100 * m
  <2>1. c \in Nat
    BY <1>1
  <2> HIDE DEF c
  <2>2. c \div r \in Nat /\ Times(c \div r, r) <= c /\ c < Times(c \div r, r) + r
    BY <2>1, Quotient
  <2>3. QED
    BY <2>2 DEF c
<1>3. Ratio(h, r) = 100 * q + y
  BY DEF Ratio
<1> HIDE DEF q, m, y
<1>4. Times(100 * q + y, r) = 100 * Times(q, r) + Times(y, r)
  BY <1>1, <1>2 DEF Times
<1>5. Times(q, r) \in Nat /\ Times(y, r) \in Nat
  BY <1>1, <1>2, Product
<1>6. QED
  BY <1>1, <1>2, <1>3, <1>4, <1>5


LEMMA WordRange == \A f : f \in Word <=> f \in Int /\ 0 <= f /\ f <= 65535
<1> DEFINE top == 65535
<1>1. top \in Int /\ top >= 65535 /\ top <= 65535
  BY SMT
<1> HIDE DEF top
<1>2. \A f : f \in 0 .. top <=> f \in Int /\ 0 <= f /\ f <= top
  BY SMT
<1>3. \A f : f \in 0 .. top <=> f \in Int /\ 0 <= f /\ f <= 65535
  BY SMT, <1>1, <1>2
<1>4. Word = 0 .. top
  BY SMT DEF Word, top
<1>5. QED
  BY SMT, <1>3, <1>4

\* The value of a limit has 16 bits.
LEMMA SixteenBits ==
  ASSUME NEW n \in Nat, n >= 122, NEW f \in Nat,
         n <= 1498, Times(f, n) <= 7942600, 7942600 < Times(f, n) + n
  PROVE  f >= 3000 /\ f <= 65535
<1>1. Times(f, n) \in Nat
  BY SMT, Product
<1>2. f >= 3000
  <2>1. SUFFICES ASSUME f <= 2999 PROVE FALSE
    BY SMT
  <2>2. Times(f, n) <= 2999 * n
    BY SMT, <2>1, Product
  <2>3. QED
    BY SMT, <1>1, <2>2
<1>3. f <= 65535
  <2>1. SUFFICES ASSUME 65536 <= f PROVE FALSE
    BY SMT
  <2>2. 65536 * n <= Times(f, n)
    BY SMT, <2>1, Product
  <2>3. QED
    BY SMT, <1>1, <2>2
<1>4. QED
  BY SMT, <1>2, <1>3

LEMMA WithinADegree ==
  ASSUME NEW n \in Nat, NEW f \in Nat, NEW x \in Nat,
         n >= 122, n <= 1498, f >= 3000, f <= 65535,
         Times(f, n) <= 7942600, 7942600 < Times(f, n) + n,
         Times(x, f) <= 3971300000, 3971300000 < Times(x, f) + f
  PROVE  500 * n <= x /\ x <= 500 * n + 359
<1>1. Times(f, n) \in Nat /\ Times(x, f) \in Nat
  BY SMT, Product
<1>3. x >= 500 * n
  <2>1. SUFFICES ASSUME x + 1 <= 500 * n PROVE FALSE
    BY SMT
  <2>2. Times(x + 1, f) = Times(x, f) + f
    BY SMT DEF Times
  <2>3. Times(x + 1, f) <= (500 * n) * f
    <3> DEFINE y == x + 1
               k == 500 * n
    <3>1. y \in Nat /\ k \in Nat /\ y <= k
      BY SMT, <2>1
    <3> HIDE DEF y, k
    <3>2. Times(y, f) <= k * f
      BY ONLY <3>1, f \in Nat, x \in Nat, Product, Zenon
    <3>3. QED
      BY SMT, <3>2 DEF y, k
  <2>4. (500 * n) * f = 500 * Times(f, n)
    BY SMT DEF Times
  <2>5. QED
    BY SMT, <1>1, <2>2, <2>3, <2>4
<1>4. x <= 500 * n + 359
  <2>1. SUFFICES ASSUME 500 * n + 360 <= x PROVE FALSE
    BY SMT
  <2>2. (500 * n + 360) * f <= Times(x, f)
    <3> DEFINE k == 500 * n + 360
    <3>1. k \in Nat /\ k <= x
      BY SMT, <2>1
    <3> HIDE DEF k
    <3>2. k * f <= Times(x, f)
      BY ONLY <3>1, f \in Nat, x \in Nat, Product, Zenon
    <3>3. QED
      BY SMT, <3>2 DEF k
  <2>3. (500 * n + 360) * f = 500 * Times(f, n) + 360 * f
    BY SMT DEF Times
  <2>4. QED
    BY SMT, <1>1, <2>2, <2>3
<1>5. QED
  BY SMT, <1>3, <1>4

LEMMA ReadsBack ==
  ASSUME NEW v \in Int, v >= -273, v <= 415
  PROVE  LET raw == (7942600 \div (952 - 2 * v)) % 65536
         IN  /\ raw \in Nat /\ 0 < raw /\ raw <= 65535
             /\ 1000 * v <= 476359 - Ratio(39713000, raw)
             /\ 476359 - Ratio(39713000, raw) <= 1000 * v + 1000
<1> DEFINE n == 952 - 2 * v
           f == 7942600 \div n
           x == Ratio(39713000, f)
<1>1. n \in Nat /\ n >= 122 /\ n <= 1498 /\ 2 * v = 952 - n
  BY SMT
<1> HIDE DEF n
<1>2. f \in Nat /\ Times(f, n) <= 7942600 /\ 7942600 < Times(f, n) + n
  BY SMT, <1>1, Quotient
<1> HIDE DEF f
<1>3. f >= 3000 /\ f <= 65535
  BY SMT, <1>1, <1>2, SixteenBits
<1>4. x \in Nat /\ Times(x, f) <= 3971300000 /\ 3971300000 < Times(x, f) + f
  <2> DEFINE h == 39713000
  <2>1. h \in Nat /\ 100 * h = 3971300000
    BY SMT
  <2> HIDE DEF h
  <2>3. h \in Nat /\ f \in Nat /\ f > 0
    BY SMT, <1>2, <1>3, <2>1
  <2>2. LET y == Ratio(h, f)
        IN  y \in Nat /\ Times(y, f) <= 100 * h /\ 100 * h < Times(y, f) + f
    BY ONLY <2>3, RatioIsQuotient, Zenon
  <2>4. QED
    BY SMT, <2>1, <2>2 DEF h
<1> HIDE DEF x
<1>5. 500 * n <= x /\ x <= 500 * n + 359
  BY SMT, <1>1, <1>2, <1>3, <1>4, WithinADegree
<1>6. f % 65536 = f
  BY SMT, <1>2, <1>3
<1>7. 1000 * v <= 476359 - x /\ 476359 - x <= 1000 * v + 1000
  BY SMT, <1>1, <1>4, <1>5
<1>9. QED
  BY SMT, <1>2, <1>3, <1>6, <1>7 DEF n, f, x

\* The bytes of a word, and the word of two bytes.
LEMMA Bytes ==
  /\ \A raw \in Word : /\ High(raw) \in Nat /\ High(raw) <= 255
                       /\ Low(raw) \in Nat /\ Low(raw) <= 255
                       /\ Pair(High(raw), Low(raw)) = raw
  /\ \A h, l \in Nat : h <= 255 /\ l <= 255 => Pair(h, l) \in Word /\ High(Pair(h, l)) = h
<1>1. ASSUME NEW raw \in Int, 0 <= raw, raw <= 65535
      PROVE  /\ High(raw) \in Nat /\ High(raw) <= 255
             /\ Low(raw) \in Nat /\ Low(raw) <= 255
             /\ Pair(High(raw), Low(raw)) = raw
  <2> DEFINE h == raw \div 256
             l == raw % 256
  <2>1. h \in Nat /\ h <= 255 /\ l \in Nat /\ l <= 255 /\ h * 256 + l = raw
    BY SMT, <1>1
  <2> HIDE DEF h, l
  <2>2. (h * 256 + l) % 65536 = raw
    BY SMT, <1>1, <2>1
  <2>3. QED
    BY SMT, <2>1, <2>2 DEF High, Low, Pair, h, l
<1>2. ASSUME NEW h \in Nat, NEW l \in Nat, h <= 255, l <= 255
      PROVE  /\ Pair(h, l) \in Int /\ 0 <= Pair(h, l) /\ Pair(h, l) <= 65535
             /\ High(Pair(h, l)) = h
  BY SMT, <1>2 DEF High, Pair
<1>3. QED
  BY SMT, <1>1, <1>2, WordRange

\* The drivers with a limit convert alike.
LEMMA SensorKinds ==
  ASSUME sensor \in Sensors
  PROVE  /\ sensor.limits.has \in BOOLEAN
         /\ sensor.limits.has =>
              /\ sensor.bytes = 2
              /\ sensor.limits.top = 7942600 /\ sensor.limits.twice = 952
              /\ sensor.limits.refused = 476
              /\ sensor.formula.fine
              /\ sensor.formula.offset = 476359 /\ sensor.formula.hundredth = 39713000
<1>1. CASE sensor \in {JangaSensor, TahanSensor}
  <2> DEFINE limits == LimitOf(7942600, 952, 476)
             formula == Fine(476359, 39713000)
  <2>1. sensor.bytes = 2 /\ sensor.limits = limits /\ sensor.formula = formula
    BY SMT, <1>1 DEF JangaSensor, TahanSensor, JangaLimit, TahanLimit
  <2>2. /\ limits.has /\ limits.has \in BOOLEAN /\ limits.refused = 476
        /\ limits.top = 7942600 /\ limits.twice = 952
    BY SMT DEF LimitOf
  <2>3. formula.fine /\ formula.offset = 476359 /\ formula.hundredth = 39713000
    BY SMT DEF Fine
  <2> HIDE DEF limits, formula
  <2>4. QED
    BY SMT, <2>1, <2>2, <2>3
<1>2. CASE sensor \in {Th6Sensor, MontblancSensor, Wedge800bSensor, Wedge800cSensor}
  <2>1. sensor.limits = NoLimit
    BY SMT, <1>2 DEF Th6Sensor, MontblancSensor, Wedge800bSensor, Wedge800cSensor
  <2>2. QED
    BY SMT, <2>1 DEF NoLimit
<1>3. QED
  BY SMT, <1>1, <1>2 DEF Sensors

\* The value of a limit that is not refused is a word; if the limit is a
\* temperature that fits, the word reads back to the degree.
LEMMA Limits ==
  ASSUME sensor \in Sensors, sensor.limits.has, NEW v \in Int
  PROVE  /\ v < sensor.limits.refused => Freq(v) \in Word
         /\ v \in AbsoluteZero .. MostLimit /\ Convert(Freq(v)).ok
              => Convert(Freq(v)).value \in 1000 * v .. 1000 * v + 1000
<1>0. sensor.limits.top = 7942600 /\ sensor.limits.twice = 952
  BY SMT, SensorKinds
<1>1. Freq(v) = (7942600 \div (952 - 2 * v)) % 65536
  BY SMT, <1>0 DEF Freq
<1>2. ASSUME v < sensor.limits.refused PROVE Freq(v) \in Word
  <2> DEFINE n == 952 - 2 * v
             f == 7942600 \div n
  <2>1. n \in Nat /\ n > 0
    BY SMT, <1>2, SensorKinds
  <2> HIDE DEF n
  <2>2. f \in Nat
    BY SMT, <2>1
  <2> HIDE DEF f
  <2>3. f % 65536 \in Int /\ 0 <= f % 65536 /\ f % 65536 <= 65535
    BY SMT, <2>2
  <2>4. f % 65536 \in Word
    BY SMT, <2>3, WordRange
  <2>5. QED
    BY SMT, <1>1, <2>4 DEF n, f
<1>3. ASSUME v \in AbsoluteZero .. MostLimit, Convert(Freq(v)).ok
      PROVE  Convert(Freq(v)).value \in 1000 * v .. 1000 * v + 1000
  <2> DEFINE raw == Freq(v)
             n == 476359 - Ratio(39713000, raw)
  <2>1. v >= -273 /\ v <= 415
    <3> DEFINE a == AbsoluteZero
               b == MostLimit
    <3>1. a \in Int /\ b \in Int /\ a >= -273 /\ b <= 415
      BY SMT DEF AbsoluteZero, MostLimit
    <3> HIDE DEF a, b
    <3>2. v \in a .. b
      BY <1>3 DEF a, b
    <3>3. QED
      BY SMT, <3>1, <3>2
  <2>2. raw \in Nat /\ 0 < raw /\ 1000 * v <= n /\ n <= 1000 * v + 1000
    BY SMT, <1>1, <2>1, ReadsBack
  <2>3. n \in Int
    <3>1. Ratio(39713000, raw) \in Nat
      <4> DEFINE h == 39713000
      <4>1. h \in Nat
        BY SMT
      <4> HIDE DEF h, raw
      <4>2. raw \in Nat /\ raw > 0
        BY SMT, <2>2
      <4>3. Ratio(h, raw) \in Nat
        BY ONLY <4>1, <4>2, RatioIsQuotient, Zenon
      <4>4. QED
        BY SMT, <4>3 DEF h
    <3>2. QED
      BY SMT, <3>1
  <2>4. Celsius(sensor.formula, raw) = n
    BY SMT, SensorKinds DEF Celsius
  <2> HIDE DEF n, raw
  <2>5. Convert(raw) \in {Error, Reading(n)}
    BY SMT, SensorKinds, <2>2, <2>4 DEF Convert
  <2>6. Convert(raw).value = n
    BY SMT, <1>3, <2>5 DEF Error, Reading, raw
  <2>7. QED
    BY SMT, <2>2, <2>3, <2>6 DEF raw
<1>4. QED
  BY SMT, <1>2, <1>3



-----------------------------------------------------------------------------
(* The calls of the readers.                                                 *)

ReadCalls ==
  [at : {"read"}, attr : {"input", "max_hyst"}, failed : BOOLEAN,
   saw : SUBSET Word, from : SUBSET Asked, high : Nat]
SetCalls == [at : {"set"}, value : Asked]

Registers ==
  /\ sensor \in Sensors /\ chip \in Word /\ over \in Word
  /\ lone \subseteq Readers /\ settled \subseteq Asked
Calls == call \in [Readers -> {Idle} \cup ReadCalls \cup SetCalls]

\* A call that reads has seen its register as it is, under the high byte it
\* took, as long as it has seen anything; the limit it reads is the one that was
\* settled when it took that byte.
ReadsWell(u) ==
  call[u].at = "read" =>
    /\ call[u].attr = "max_hyst" => sensor.limits.has
    /\ call[u].from # {} => call[u].attr = "max_hyst"
    /\ ~call[u].failed =>
         /\ call[u].saw # {} => RawOf(call[u].attr) \in call[u].saw
         /\ \A raw \in call[u].saw : High(raw) = call[u].high
         /\ \A v \in call[u].from : call[u].high = High(Freq(v))

\* The limit a call writes is not refused.
SetsWell(u) ==
  call[u].at = "set" => sensor.limits.has /\ call[u].value < sensor.limits.refused

\* The one that writes alone has written its high byte.
LoneWell ==
  \A u \in lone : call[u].at = "set" /\ High(over) = High(Freq(call[u].value))

\* A settled limit is the one in the registers.
SettledWell ==
  \A v \in settled : sensor.limits.has /\ v < sensor.limits.refused /\ over = Freq(v)

SInv ==
  /\ Registers /\ Calls
  /\ \A u \in Readers : ReadsWell(u) /\ SetsWell(u)
  /\ LoneWell /\ SettledWell
  /\ ReadingsAreSound

LEMMA FieldsOfCalls ==
  /\ \A c \in ReadCalls : /\ c.at = "read" /\ c.attr \in {"input", "max_hyst"}
                          /\ c.failed \in BOOLEAN /\ c.saw \subseteq Word
                          /\ c.from \subseteq Asked /\ c.high \in Nat
  /\ \A c \in SetCalls : c.at = "set" /\ c.value \in Asked
  /\ Idle.at = "idle"
BY DEF ReadCalls, SetCalls, Idle

\* What is known of a call by where it is.
LEMMA KindOfCall ==
  ASSUME Calls, NEW u \in Readers
  PROVE  /\ call[u].at = "read" => call[u] \in ReadCalls
         /\ call[u].at = "set" => call[u] \in SetCalls
         /\ call[u] \in {Idle} \cup ReadCalls \cup SetCalls
BY FieldsOfCalls DEF Calls

\* Nothing that was answered is unsound.
LEMMA NoAnswerIsSound == answer' = NoAnswer \/ ~answer'.what.ok => ReadingsAreSound'
BY DEF NoAnswer, Error, ReadingsAreSound

LEMMA SInitInv == SInit(Sensors) => SInv
<1> SUFFICES ASSUME SInit(Sensors) PROVE SInv
  OBVIOUS
<1>1. Registers
  <2>1. 0 \in Word /\ 10693 \in Word
    BY SMT, WordRange
  <2>2. QED
    BY <2>1 DEF SInit, Registers
<1>2. \A u \in Readers : call[u] = Idle
  BY DEF SInit
<1>3. Calls
  BY DEF SInit, Calls
<1>4. \A u \in Readers : ReadsWell(u) /\ SetsWell(u)
  BY <1>2 DEF Idle, ReadsWell, SetsWell
<1>5. LoneWell /\ SettledWell
  BY DEF SInit, LoneWell, SettledWell
<1>6. ReadingsAreSound
  BY DEF SInit, NoAnswer, Error, ReadingsAreSound
<1>7. QED
  BY <1>1, <1>3, <1>4, <1>5, <1>6 DEF SInv

\* What a call has seen goes with the registers, in every step that changes
\* them; only a call that sets can be another call afterwards.
LEMMA SeenWell ==
  ASSUME Registers, Calls, \A u \in Readers : ReadsWell(u),
         NEW new \in Word, NEW set \in Word, NEW w \in Readers, UNCHANGED sensor,
         chip' = new, over' = set, call'[w] = Seen(new, set)[w],
         call[w].at = "read"
  PROVE  call'[w] \in ReadCalls /\ ReadsWell(w)'
<1> DEFINE c == call[w]
           d == Seen(new, set)[w]
           now == IF c.attr = "input" THEN new ELSE set
<1>1. c \in ReadCalls /\ c.at = "read"
  BY KindOfCall
<1>2. d = IF c.saw = {} THEN c
          ELSE [c EXCEPT !.saw = IF \E raw \in @ : High(raw) # High(now) THEN {} ELSE @ \union {now}]
  BY <1>1 DEF Seen
<1>3. now \in Word
  OBVIOUS
<1> HIDE DEF now
<1>4. /\ d \in ReadCalls /\ d.at = "read" /\ d.attr = c.attr /\ d.failed = c.failed
      /\ d.from = c.from /\ d.high = c.high
      /\ d.saw = IF c.saw = {} \/ \E raw \in c.saw : High(raw) # High(now) THEN {} ELSE c.saw \union {now}
  <2>1. CASE c.saw = {}
    BY <1>1, <1>2, <2>1
  <2>2. CASE c.saw # {}
    <3> DEFINE s == IF \E raw \in c.saw : High(raw) # High(now) THEN {} ELSE c.saw \union {now}
    <3>1. s \subseteq Word
      BY <1>1, <1>3 DEF ReadCalls
    <3>2. d = [c EXCEPT !.saw = s]
      BY <1>2, <2>2
    <3> HIDE DEF d, s
    <3>3. /\ d \in ReadCalls /\ d.at = "read" /\ d.attr = c.attr /\ d.failed = c.failed
          /\ d.from = c.from /\ d.high = c.high /\ d.saw = s
      BY <1>1, <3>1, <3>2 DEF ReadCalls
    <3>4. QED
      BY <2>2, <3>3 DEF s
  <2>3. QED
    BY <2>1, <2>2
<1>5. call'[w] = d
  OBVIOUS
<1> HIDE DEF c, d
<1>6. now = (IF c.attr = "input" THEN chip' ELSE over')
  BY DEF now
<1>7. ReadsWell(w)
  OBVIOUS
<1>8. \A v : Freq(v)' = Freq(v)
  BY DEF Freq
<1>9. ReadsWell(w)'
  <2>1. /\ c.attr = "max_hyst" => sensor.limits.has
        /\ c.from # {} => c.attr = "max_hyst"
        /\ ~c.failed => /\ \A raw \in c.saw : High(raw) = c.high
                        /\ \A v \in c.from : c.high = High(Freq(v))
    BY <1>1, <1>7 DEF ReadsWell, c
  <2>2. SUFFICES /\ d.attr = "max_hyst" => sensor'.limits.has
                 /\ d.from # {} => d.attr = "max_hyst"
                 /\ ~d.failed => /\ d.saw # {} => (IF d.attr = "input" THEN chip' ELSE over') \in d.saw
                                 /\ \A raw \in d.saw : High(raw) = d.high
                                 /\ \A v \in d.from : d.high = High(Freq(v)')
    BY <1>5 DEF ReadsWell, RawOf
  <2>3. d.attr = "max_hyst" => sensor'.limits.has
    BY <1>4, <2>1
  <2>4. d.from # {} => d.attr = "max_hyst"
    BY <1>4, <2>1
  <2>5. (IF d.attr = "input" THEN chip' ELSE over') = now
    BY <1>4, <1>6
  <2>6. ASSUME ~d.failed
        PROVE  /\ d.saw # {} => now \in d.saw
               /\ \A raw \in d.saw : High(raw) = d.high
               /\ \A v \in d.from : d.high = High(Freq(v)')
    <3>1. \A v \in d.from : d.high = High(Freq(v)')
      BY <1>4, <1>8, <2>1, <2>6
    <3>2. CASE d.saw = {}
      BY <3>1, <3>2
    <3>3. CASE d.saw # {}
      <4>1. /\ c.saw # {} /\ d.saw = c.saw \union {now}
            /\ \A raw \in c.saw : High(raw) = High(now)
        BY <1>4, <3>3
      <4>2. \A raw \in c.saw : High(raw) = c.high
        BY <1>4, <2>1, <2>6
      <4>3. High(now) = c.high
        BY <4>1, <4>2
      <4>4. QED
        BY <1>4, <3>1, <4>1, <4>2, <4>3
    <3>4. QED
      BY <3>2, <3>3
  <2>7. QED
    BY <2>2, <2>3, <2>4, <2>5, <2>6
<1>10. QED
  BY <1>4, <1>5, <1>9

\* A call that is not touched, under registers that are not.
LEMMA SameCall ==
  ASSUME NEW w, UNCHANGED sensor, call'[w] = call[w], SetsWell(w)
  PROVE  /\ SetsWell(w)'
         /\ UNCHANGED <<chip, over>> /\ ReadsWell(w) => ReadsWell(w)'
         /\ call[w].at # "read" => ReadsWell(w)'
<1>1. \A v : Freq(v)' = Freq(v)
  BY DEF Freq
<1>2. SetsWell(w)'
  BY DEF SetsWell
<1>3. ASSUME UNCHANGED <<chip, over>>, ReadsWell(w) PROVE ReadsWell(w)'
  BY <1>1, <1>3 DEF ReadsWell, RawOf
<1>4. call[w].at # "read" => ReadsWell(w)'
  BY DEF ReadsWell
<1>5. QED
  BY <1>2, <1>3, <1>4

\* A step that changes registers, for the calls that it leaves.
LEMMA OtherCalls ==
  ASSUME Registers, Calls, \A u \in Readers : ReadsWell(u) /\ SetsWell(u),
         NEW new \in Word, NEW set \in Word, NEW w \in Readers, UNCHANGED sensor,
         chip' = new, over' = set, call'[w] = Seen(new, set)[w]
  PROVE  /\ call'[w] \in {Idle} \cup ReadCalls \cup SetCalls
         /\ ReadsWell(w)' /\ SetsWell(w)'
         /\ call[w].at = "set" => call'[w] = call[w]
         /\ call'[w].at = call[w].at
<1>1. CASE call[w].at = "read"
  <2>1. call'[w] \in ReadCalls /\ ReadsWell(w)'
    BY <1>1, SeenWell
  <2>2. call'[w].at = "read"
    BY <2>1, FieldsOfCalls
  <2>3. QED
    BY <1>1, <2>1, <2>2 DEF SetsWell
<1>2. CASE call[w].at # "read"
  <2>1. call'[w] = call[w]
    BY <1>2 DEF Seen
  <2>2. QED
    BY <1>2, <2>1, SameCall, KindOfCall
<1>3. QED
  BY <1>1, <1>2

LEMMA MeasureStep ==
  ASSUME SInv, NEW raw \in Raws, Measure(raw)
  PROVE  SInv'
<1>1. raw \in Word /\ over \in Word
  BY SensorsAssumption DEF SInv, Registers
<1>2. /\ UNCHANGED <<sensor, over, lone, settled>> /\ chip' = raw /\ answer' = NoAnswer
      /\ call' = Seen(raw, over)
  BY DEF Measure
<1>3. \A w \in Readers :
        /\ call'[w] \in {Idle} \cup ReadCalls \cup SetCalls
        /\ ReadsWell(w)' /\ SetsWell(w)'
        /\ call[w].at = "set" => call'[w] = call[w]
  BY <1>1, <1>2, OtherCalls DEF SInv
<1>4. Registers'
  BY <1>1, <1>2 DEF SInv, Registers
<1>5. Calls'
  <2>1. call' = [w \in Readers |-> call'[w]]
    BY <1>2 DEF Seen
  <2>2. QED
    BY <1>3, <2>1 DEF Calls
<1>6. \A v : Freq(v)' = Freq(v)
  BY <1>2 DEF Freq
<1>7. LoneWell'
  BY <1>2, <1>3, <1>6 DEF SInv, LoneWell, Registers
<1>8. SettledWell'
  BY <1>2, <1>6 DEF SInv, SettledWell
<1>9. ReadingsAreSound'
  BY <1>2, NoAnswerIsSound
<1>10. QED
  BY <1>3, <1>4, <1>5, <1>7, <1>8, <1>9 DEF SInv

\* The high byte of a limit is written.
LEMMA WriteHighStep ==
  ASSUME SInv, NEW u \in Readers, NEW v \in Asked, WriteHigh(u, v)
  PROVE  SInv'
<1> DEFINE set == Pair(High(Freq(v)), Low(over))
           c == [at |-> "set", value |-> v]
<1>1. /\ UNCHANGED <<sensor, chip>> /\ over' = set /\ answer' = NoAnswer /\ settled' = {}
      /\ call' = [Seen(chip, set) EXCEPT ![u] = c]
      /\ lone' = IF Setting = {} THEN {u} ELSE {}
      /\ sensor.limits.has /\ v < sensor.limits.refused
  BY DEF WriteHigh
<1>2. Freq(v) \in Word
  BY <1>1, Limits, SensorsAssumption DEF SInv, Registers
<1>3. set \in Word /\ High(set) = High(Freq(v))
  BY <1>2, Bytes DEF SInv, Registers
<1> HIDE DEF set
<1>4. c \in SetCalls /\ c.at = "set" /\ c.value = v
  BY DEF SetCalls
<1>5. /\ call' = [w \in Readers |-> call'[w]] /\ call'[u] = c
      /\ \A w \in Readers \ {u} : call'[w] = Seen(chip, set)[w]
  BY <1>1 DEF Seen
<1> HIDE DEF c
<1>6. \A v2 : Freq(v2)' = Freq(v2)
  BY <1>1 DEF Freq
<1>7. \A w \in Readers : /\ call'[w] \in {Idle} \cup ReadCalls \cup SetCalls
                         /\ ReadsWell(w)' /\ SetsWell(w)'
  <2>1. ReadsWell(u)' /\ SetsWell(u)'
    BY <1>1, <1>4, <1>5 DEF ReadsWell, SetsWell
  <2>2. ASSUME NEW w \in Readers, w # u
        PROVE  /\ call'[w] \in {Idle} \cup ReadCalls \cup SetCalls
               /\ ReadsWell(w)' /\ SetsWell(w)'
    <3>1. call'[w] = Seen(chip, set)[w]
      BY <1>5, <2>2
    <3>2. chip \in Word /\ UNCHANGED sensor /\ chip' = chip /\ over' = set
      BY <1>1 DEF SInv, Registers
    <3>3. QED
      BY <1>3, <3>1, <3>2, OtherCalls DEF SInv
  <2>3. QED
    BY <1>4, <1>5, <2>1, <2>2
<1>8. Registers'
  BY <1>1, <1>3 DEF SInv, Registers
<1>9. Calls'
  BY <1>5, <1>7 DEF Calls
<1>10. LoneWell'
  BY <1>1, <1>3, <1>4, <1>5, <1>6 DEF LoneWell
<1>11. SettledWell'
  BY <1>1 DEF SettledWell
<1>12. ReadingsAreSound'
  BY <1>1, NoAnswerIsSound
<1>13. QED
  BY <1>7, <1>8, <1>9, <1>10, <1>11, <1>12 DEF SInv

\* The low byte follows.
LEMMA WriteLowStep ==
  ASSUME SInv, NEW u \in Readers, WriteLow(u)
  PROVE  SInv'
<1> DEFINE v == call[u].value
           set == Pair(High(over), Low(Freq(v)))
<1>1. /\ UNCHANGED <<sensor, chip>> /\ over' = set /\ answer' = NoAnswer /\ lone' = {}
      /\ call' = [Seen(chip, set) EXCEPT ![u] = Idle]
      /\ settled' = IF lone = {u} THEN {v} ELSE {}
      /\ call[u].at = "set"
  BY DEF WriteLow
<1>2. sensor.limits.has /\ v < sensor.limits.refused /\ v \in Asked
  BY <1>1, KindOfCall, FieldsOfCalls DEF SInv, SetsWell
<1> HIDE DEF v
<1>3. Freq(v) \in Word /\ over \in Word
  BY <1>2, Limits, SensorsAssumption DEF SInv, Registers
<1>4. set \in Word /\ (lone = {u} => set = Freq(v))
  <2>1. set \in Word
    BY <1>3, Bytes
  <2>2. lone = {u} => High(over) = High(Freq(v))
    BY DEF SInv, LoneWell, v
  <2>3. QED
    BY <1>3, <2>1, <2>2, Bytes
<1>5. /\ call' = [w \in Readers |-> call'[w]] /\ call'[u] = Idle
      /\ \A w \in Readers \ {u} : call'[w] = Seen(chip, set)[w]
  BY <1>1 DEF Seen
<1> HIDE DEF set
<1>6. \A v2 : Freq(v2)' = Freq(v2)
  BY <1>1 DEF Freq
<1>7. \A w \in Readers : /\ call'[w] \in {Idle} \cup ReadCalls \cup SetCalls
                         /\ ReadsWell(w)' /\ SetsWell(w)'
  <2>1. ReadsWell(u)' /\ SetsWell(u)'
    BY <1>5, FieldsOfCalls DEF ReadsWell, SetsWell
  <2>2. ASSUME NEW w \in Readers, w # u
        PROVE  /\ call'[w] \in {Idle} \cup ReadCalls \cup SetCalls
               /\ ReadsWell(w)' /\ SetsWell(w)'
    <3>1. call'[w] = Seen(chip, set)[w]
      BY <1>5, <2>2
    <3>2. chip \in Word /\ UNCHANGED sensor /\ chip' = chip /\ over' = set
      BY <1>1 DEF SInv, Registers
    <3>3. QED
      BY <1>4, <3>1, <3>2, OtherCalls DEF SInv
  <2>3. QED
    BY <1>5, <2>1, <2>2
<1>8. Registers'
  BY <1>1, <1>2, <1>4 DEF SInv, Registers
<1>9. Calls'
  BY <1>5, <1>7 DEF Calls
<1>10. LoneWell'
  BY <1>1 DEF LoneWell
<1>11. SettledWell'
  BY <1>1, <1>2, <1>4, <1>6 DEF SettledWell
<1>12. ReadingsAreSound'
  BY <1>1, NoAnswerIsSound
<1>13. QED
  BY <1>7, <1>8, <1>9, <1>10, <1>11, <1>12 DEF SInv

\* A step of one call that leaves the registers.
LEMMA CallStep ==
  ASSUME SInv, NEW u \in Readers, NEW c \in {Idle} \cup ReadCalls,
         UNCHANGED <<sensor, chip, over>>, call' = [call EXCEPT ![u] = c],
         \/ UNCHANGED <<lone, settled>> /\ call[u].at # "set"
         \/ lone' = {} /\ settled' = {},
         ReadsWell(u)', ReadingsAreSound'
  PROVE  SInv'
<1>1. call'[u] = c /\ \A w \in Readers \ {u} : call'[w] = call[w]
  BY DEF SInv, Calls
<1>2. c.at # "set"
  BY FieldsOfCalls
<1>3. \A w \in Readers : ReadsWell(w)' /\ SetsWell(w)'
  <2>1. SetsWell(u)'
    BY <1>1, <1>2 DEF SetsWell
  <2>2. ASSUME NEW w \in Readers, w # u PROVE ReadsWell(w)' /\ SetsWell(w)'
    BY <1>1, <2>2, SameCall DEF SInv
  <2>3. QED
    BY <2>1, <2>2
<1>4. Registers'
  BY DEF SInv, Registers
<1>5. Calls'
  BY DEF SInv, Calls
<1>6. \A v : Freq(v)' = Freq(v)
  BY DEF Freq
<1>7. LoneWell'
  <2>1. CASE lone' = {}
    BY <2>1 DEF LoneWell
  <2>2. CASE UNCHANGED lone /\ call[u].at # "set"
    BY <1>1, <1>6, <2>2 DEF SInv, LoneWell, Registers
  <2>3. QED
    BY <2>1, <2>2
<1>8. SettledWell'
  BY <1>6 DEF SInv, SettledWell
<1>9. QED
  BY <1>3, <1>4, <1>5, <1>7, <1>8 DEF SInv

LEMMA ReadFirstStep ==
  ASSUME SInv, NEW u \in Readers, NEW attr \in Attributes, NEW fails \in BOOLEAN,
         ReadFirst(u, attr, fails)
  PROVE  SInv'
<1> DEFINE raw == RawOf(attr)
           high == IF fails THEN ErrorByte ELSE High(raw)
           from == IF attr = "max_hyst" THEN settled ELSE {}
           c == [at |-> "read", attr |-> attr, failed |-> fails, saw |-> {raw},
                 from |-> from, high |-> high]
<1>1. /\ call[u] = Idle /\ UNCHANGED <<sensor, chip, over, lone, settled>>
      /\ \/ Return(u, Error, c)
         \/ call' = [call EXCEPT ![u] = c] /\ answer' = NoAnswer
  BY DEF ReadFirst
<1>2. attr \in {"input", "max_hyst"} /\ (attr = "max_hyst" => sensor.limits.has)
  BY DEF Attributes
<1>3. raw \in Word
  BY <1>2 DEF RawOf, SInv, Registers
<1>4. high \in Nat /\ (~fails => high = High(raw))
  BY <1>3, Bytes DEF ErrorByte
<1>5. from \subseteq Asked /\ (from # {} => attr = "max_hyst" /\ from = settled)
  BY DEF SInv, Registers
<1>6. RawOf(attr)' = raw
  BY <1>1 DEF RawOf
<1>7. \A v \in from : over = Freq(v) /\ Freq(v)' = Freq(v) /\ raw = over
  BY <1>1, <1>5 DEF SInv, SettledWell, RawOf, Freq
<1> HIDE DEF raw, high, from
<1>8. c \in ReadCalls
  BY <1>2, <1>3, <1>4, <1>5 DEF ReadCalls
<1>9. call[u].at # "set"
  BY <1>1, FieldsOfCalls
<1>10. CASE Return(u, Error, c)
  <2>1. call' = [call EXCEPT ![u] = Idle] /\ ~answer'.what.ok
    BY <1>10 DEF Return, Error
  <2>2. ReadsWell(u)'
    BY <2>1, FieldsOfCalls DEF ReadsWell, SInv, Calls
  <2>3. QED
    BY <1>1, <1>9, <2>1, <2>2, NoAnswerIsSound, CallStep
<1>11. CASE call' = [call EXCEPT ![u] = c] /\ answer' = NoAnswer
  <2>1. call'[u] = c
    BY <1>11 DEF SInv, Calls
  <2>2. ReadsWell(u)'
    <3>1. SUFFICES /\ attr = "max_hyst" => sensor'.limits.has
                   /\ from # {} => attr = "max_hyst"
                   /\ ~fails => /\ RawOf(attr)' \in {raw}
                                /\ High(raw) = high
                                /\ \A v \in from : high = High(Freq(v)')
      BY <2>1 DEF ReadsWell, RawOf
    <3>2. QED
      BY <1>1, <1>2, <1>4, <1>5, <1>6, <1>7
  <2>3. ReadingsAreSound'
    BY <1>11, NoAnswerIsSound
  <2>4. QED
    BY <1>1, <1>8, <1>9, <1>11, <2>2, <2>3, CallStep
<1>12. QED
  BY <1>1, <1>10, <1>11

\* The value is that of the register as it is, if none of the two transfers
\* failed and the high byte stayed.
LEMMA ReadSecondStep ==
  ASSUME SInv, NEW u \in Readers, NEW fails \in BOOLEAN, ReadSecond(u, fails)
  PROVE  SInv'
<1> DEFINE k == call[u]
           failed == k.failed \/ fails
           from == IF k.from = settled THEN k.from ELSE {}
           raw == RawOf(k.attr)
           low == IF fails THEN ErrorByte ELSE Low(raw)
           what == IF failed /\ sensor.check # "none" THEN Error ELSE Convert(Pair(k.high, low))
<1>1. k \in ReadCalls /\ k.at = "read" /\ UNCHANGED <<sensor, chip, over, lone, settled>>
  BY KindOfCall DEF ReadSecond, SInv
<1>2. /\ k.attr \in {"input", "max_hyst"} /\ k.failed \in BOOLEAN /\ k.saw \subseteq Word
      /\ k.from \subseteq Asked /\ k.high \in Nat
  BY <1>1, FieldsOfCalls
<1> DEFINE c == [k EXCEPT !.failed = @ \/ fails, !.from = IF @ = settled THEN @ ELSE {}]
<1>3. /\ c.failed = failed /\ c.from = from /\ c.saw = k.saw /\ c.attr = k.attr
      /\ c.high = k.high
  BY <1>1 DEF ReadCalls
<1>4. /\ call' = [call EXCEPT ![u] = Idle]
      /\ answer' = [what |-> what, failed |-> failed, saw |-> k.saw, from |-> from]
  <2>1. Return(u, IF c.failed /\ sensor.check # "none" THEN Error
                  ELSE Convert(Pair(c.high, IF fails THEN ErrorByte ELSE Low(RawOf(c.attr)))), c)
    BY DEF ReadSecond
  <2> HIDE DEF c
  <2>2. Return(u, what, c)
    BY <1>3, <2>1
  <2>3. QED
    BY <1>3, <2>2 DEF Return
<1>5. ReadsWell(u) /\ SettledWell /\ raw \in Word
  BY <1>2 DEF SInv, Registers, RawOf
<1>6. failed \in BOOLEAN /\ (~failed => ~k.failed /\ ~fails)
  BY <1>2
<1>7. ~failed /\ k.saw # {} => raw \in k.saw /\ what = Convert(raw)
  <2>1. SUFFICES ASSUME ~failed, k.saw # {} PROVE raw \in k.saw /\ what = Convert(raw)
    OBVIOUS
  <2>2. raw \in k.saw /\ High(raw) = k.high
    BY <1>1, <1>5, <1>6, <2>1 DEF ReadsWell
  <2>3. Pair(k.high, low) = raw
    BY <1>5, <1>6, <2>1, <2>2, Bytes
  <2>4. QED
    BY <2>1, <2>2, <2>3
<1>8. ~failed => \A v \in from : /\ sensor.limits.has /\ v \in Int
                                 /\ what = Convert(Freq(v))
  <2>1. SUFFICES ASSUME ~failed, NEW v \in from
                 PROVE  sensor.limits.has /\ v \in Int /\ what = Convert(Freq(v))
    OBVIOUS
  <2>2. v \in settled /\ v \in k.from /\ v \in Asked
    BY <1>2
  <2>3. sensor.limits.has /\ over = Freq(v)
    BY <1>5, <2>2 DEF SettledWell
  <2>4. k.attr = "max_hyst" /\ raw = over /\ k.high = High(Freq(v))
    BY <1>1, <1>5, <1>6, <2>1, <2>2 DEF ReadsWell, RawOf
  <2>5. Pair(k.high, low) = raw
    BY <1>5, <1>6, <2>1, <2>3, <2>4, Bytes
  <2>6. QED
    BY <2>1, <2>2, <2>3, <2>4, <2>5, SensorsAssumption
<1>9. failed /\ sensor.check # "none" => ~what.ok
  BY DEF Error
<1> HIDE DEF failed, from, raw, what, k
<1>10. ReadingsAreSound'
  <2>1. /\ answer'.what = what /\ answer'.failed = failed /\ answer'.saw = k.saw
        /\ answer'.from = from /\ \A r : Convert(r)' = Convert(r)
    BY <1>1, <1>4 DEF Convert, Celsius
  <2>2. \A v \in from : ~failed /\ what.ok /\ v \in AbsoluteZero .. MostLimit
                          => what.value \in 1000 * v .. 1000 * v + 1000
    BY <1>8, Limits DEF SInv, Registers
  <2>3. SUFFICES ASSUME what.ok
                 PROVE  /\ sensor'.check # "none" => ~failed
                        /\ ~failed /\ k.saw # {} => \E r \in k.saw : what = Convert(r)'
                        /\ ~failed => \A v \in from : v \in AbsoluteZero .. MostLimit
                             => what.value \in 1000 * v .. 1000 * v + 1000
    BY <2>1 DEF ReadingsAreSound
  <2>4. sensor'.check # "none" => ~failed
    BY <1>1, <1>9, <2>3
  <2>5. ~failed /\ k.saw # {} => \E r \in k.saw : what = Convert(r)'
    BY <1>7, <2>1
  <2>6. QED
    BY <2>2, <2>3, <2>4, <2>5
<1>11. ReadsWell(u)'
  BY <1>4, FieldsOfCalls DEF ReadsWell, SInv, Calls
<1>12. QED
  BY <1>1, <1>4, <1>10, <1>11, CallStep DEF k

LEMMA ReadByteStep ==
  ASSUME SInv, NEW u \in Readers, NEW fails \in BOOLEAN, ReadByte(u, fails)
  PROVE  SInv'
<1> DEFINE what == IF fails THEN Error ELSE Convert(Low(chip))
<1>1. /\ UNCHANGED <<sensor, chip, over, lone, settled>> /\ call[u] = Idle
      /\ call' = [call EXCEPT ![u] = Idle]
      /\ answer' = [what |-> what, failed |-> fails, saw |-> {Low(chip)}, from |-> {}]
  BY DEF ReadByte, Return
<1>2. \A r : Convert(r)' = Convert(r)
  BY <1>1 DEF Convert, Celsius
<1>3. (fails => ~what.ok) /\ (~fails => what = Convert(Low(chip)))
  BY DEF Error
<1> HIDE DEF what
<1>4. ReadingsAreSound'
  BY <1>1, <1>2, <1>3 DEF ReadingsAreSound
<1>5. call[u].at # "set" /\ ReadsWell(u)'
  BY <1>1, FieldsOfCalls DEF ReadsWell, SInv, Calls
<1>6. QED
  BY <1>1, <1>4, <1>5, CallStep

LEMMA WriteBreaksStep ==
  ASSUME SInv, NEW u \in Readers, WriteBreaks(u)
  PROVE  SInv'
<1>1. /\ UNCHANGED <<sensor, chip, over>> /\ lone' = {} /\ settled' = {}
      /\ call' = [call EXCEPT ![u] = Idle] /\ ~answer'.what.ok
  BY DEF WriteBreaks, NoAnswer, Error
<1>2. ReadsWell(u)'
  BY <1>1, FieldsOfCalls DEF ReadsWell, SInv, Calls
<1>3. QED
  BY <1>1, <1>2, NoAnswerIsSound, CallStep

\* Nothing changes but the answer, if that.
LEMMA SRest ==
  ASSUME SInv, UNCHANGED <<sensor, chip, over, call, lone, settled>>,
         answer' = NoAnswer \/ UNCHANGED answer
  PROVE  SInv'
<1>1. Registers' /\ Calls'
  BY DEF SInv, Registers, Calls
<1>2. \A u \in Readers : ReadsWell(u)' /\ SetsWell(u)'
  BY SameCall DEF SInv
<1>3. LoneWell' /\ SettledWell'
  BY DEF SInv, LoneWell, SettledWell, Freq
<1>4. ReadingsAreSound'
  <2>1. CASE answer' = NoAnswer
    BY <2>1, NoAnswerIsSound
  <2>2. CASE UNCHANGED answer
    <3>1. \A r : Convert(r)' = Convert(r)
      BY DEF Convert, Celsius
    <3>2. QED
      BY <2>2, <3>1 DEF SInv, ReadingsAreSound
  <2>3. QED
    BY <2>1, <2>2
<1>5. QED
  BY <1>1, <1>2, <1>3, <1>4 DEF SInv

LEMMA SStepInv == SInv /\ [SNext]_svars => SInv'
<1> SUFFICES ASSUME SInv, [SNext]_svars PROVE SInv'
  OBVIOUS
<1>1. ASSUME NEW raw \in Raws, Measure(raw) PROVE SInv'
  BY <1>1, MeasureStep
<1>2. ASSUME NEW u \in Readers, NEW fails \in BOOLEAN,
             \/ \E attr \in Attributes : ReadFirst(u, attr, fails)
             \/ ReadSecond(u, fails) \/ ReadByte(u, fails)
      PROVE  SInv'
  BY <1>2, ReadFirstStep, ReadSecondStep, ReadByteStep
<1>3. ASSUME NEW u \in Readers, NEW v \in Asked, Refuse(u, v) \/ WriteHigh(u, v)
      PROVE  SInv'
  <2>1. CASE Refuse(u, v)
    BY <2>1, SRest DEF Refuse
  <2>2. QED
    BY <1>3, <2>1, WriteHighStep
<1>4. ASSUME NEW u \in Readers, WriteLow(u) \/ WriteBreaks(u) PROVE SInv'
  BY <1>4, WriteLowStep, WriteBreaksStep
<1>5. CASE UNCHANGED svars
  BY <1>5, SRest DEF svars
<1>6. QED
  BY <1>1, <1>2, <1>3, <1>4, <1>5 DEF SNext

LEMMA SInvCorrect == MCSpec => []SInv
<1>1. MCInit => SInv
  <2>1. MCInit => SInit(Sensors)
    BY DEF MCInit, SInit, Of, Sensors
  <2>2. QED
    BY <2>1, SInitInv
<1>2. SInv /\ [MCNext]_<<part, cvars, wvars, svars>> => SInv'
  BY SStepInv DEF MCNext
<1>3. QED
  BY <1>1, <1>2, PTL DEF MCSpec

\* What a sensor answers is a temperature that was measured during the call, and
\* never data of a transfer that failed if the driver looks at its transfers; a
\* limit reads back to the degree.  For any chip, any callers, and any limits.
THEOREM ReadingsSound == MCSpec => []ReadingsAreSound
<1>1. SInv => ReadingsAreSound
  BY DEF SInv
<1>2. QED
  BY <1>1, SInvCorrect, PTL
=============================================================================
