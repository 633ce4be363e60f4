------------------------------ MODULE I2cProofs ------------------------------
(***************************************************************************)
(* Proofs about I2cMaster, for pages and blocks of any size, any devices    *)
(* and any number of transfers, however late the controller is.  They are   *)
(* about RegisterAccess, the transfers that I2cMaster says are safe.        *)
(***************************************************************************)
EXTENDS I2cMaster, SequenceTheorems, TLAPS

Addresses == [addr : Devices, dir : {"read", "write"}]
Commands ==
  [kind : {"transmit", "receive", "stop"}, n : 0 .. RX_PAYLOAD_MAX, stop : BOOLEAN, serial : Nat]
Total(m) == IF m.block THEN BlockMax ELSE m.len

DriverTypes ==
  /\ pc \in {"idle", "wait_free", "msg", "issue", "poll", "next"}
  /\ IF pc = "idle" THEN msgs = <<>> /\ i = 0
     ELSE msgs \in Transfers /\ i \in 1 .. Len(msgs)
  /\ pc = "wait_free" => i = 1
  /\ left \in Nat /\ xfer \in 0 .. RX_PAYLOAD_MAX
  /\ buf \in Seq(Bytes)
  /\ reply \in {"none", "ok", "EINVAL", "EBUSY", "EIO", "ETIMEDOUT"}
  /\ serial \in Nat
  /\ serial + (IF pc = "idle" THEN 0 ELSE Len(msgs) - i)
            + (IF pc \in {"wait_free", "msg"} THEN 1 ELSE 0) <= MaxSerial

ControllerTypes ==
  /\ page \in {"low", "high"}
  /\ iobuf \in [Cells -> Bytes]
  /\ cmd \in Commands \cup {NoCmd}
  /\ sts \subseteq {"rx", "tx", "nack"}
  /\ busy \in BOOLEAN
  /\ cmd # NoCmd => busy
  /\ cmd # NoCmd /\ cmd.kind = "receive" => iobuf[0] \in Addresses

\* The bus is held from the first message to the last, and a read finds the low
\* page selected.
Bus ==
  /\ pc \in {"msg", "issue", "next"} => cmd = NoCmd
  /\ pc \in {"msg", "issue"} => (busy <=> i > 1)
  /\ pc = "next" => (busy <=> ~LastMsg)
  /\ pc = "idle" /\ reply = "ok" => ~busy
  /\ pc \in {"wait_free", "msg"} /\ Msg.dir = "read" => page = "low"
  /\ pc \in {"poll", "next"} /\ Msg.dir = "write" /\ Msg.len < PageSize => page = "low"

Delivered == inbox = [k \in 1 .. Msg.len |-> [to |-> AddrByte(Msg), byte |-> Payload(serial, k)]]

\* What the buffer holds while a command runs, and after it.
Loaded ==
  /\ iobuf[0] = AddrByte(Msg)
  /\ Msg.dir = "write" => \A k \in 1 .. Msg.len : iobuf[k] = Payload(serial, k)

Running ==
  /\ cmd.kind = IF Msg.dir = "read" THEN "receive" ELSE "transmit"
  /\ cmd.n = xfer /\ cmd.serial = serial
  /\ (cmd.stop <=> LastMsg)
  /\ sts = {} /\ buf = <<>> /\ inbox = <<>> /\ Loaded
Nacked == sts = {"nack"} /\ busy
Transmitted == Msg.dir = "write" /\ Delivered /\ sts = {"tx"} /\ (busy <=> ~LastMsg)
Received ==
  /\ Msg.dir = "read" /\ buf = <<>> /\ "rx" \in sts /\ "nack" \notin sts /\ ~busy
  /\ \A j \in 0 .. xfer - 1 : iobuf[j] = Answer(AddrByte(Msg), serial, j + 1)

Command1 ==
  /\ pc = "issue" =>
       /\ sts = {} /\ buf = <<>> /\ inbox = <<>> /\ left = Total(Msg)
       /\ Msg.dir = "read" => iobuf[0] = AddrByte(Msg)
  /\ pc = "poll" =>
       /\ left = 0 /\ xfer = Total(Msg)
       /\ IF cmd # NoCmd THEN Running ELSE Nacked \/ Transmitted \/ Received

Answered ==
  pc = "next" =>
    /\ Msg.dir = "write" => Delivered
    /\ Msg.dir = "read" /\ ~Msg.block => Len(buf) = Msg.len
    /\ Msg.dir = "read" => \A k \in DOMAIN buf : buf[k] = Answer(AddrByte(Msg), serial, k)

Inv == DriverTypes /\ ControllerTypes /\ Bus /\ Command1 /\ Answered
LEMMA Constants ==
  /\ PageSize \in Nat /\ PageSize > 0 /\ BlockMax \in Nat /\ BlockMax > 0
  /\ BlockMax <= PageSize
  /\ MaxSerial \in Nat /\ Counts \subseteq Nat
  /\ \A t \in Transfers : t \in Seq(Message)
  /\ RX_PAYLOAD_MAX = 2 * PageSize /\ TX_PAYLOAD_MAX = 2 * PageSize - 1
  /\ Cells = 0 .. 2 * PageSize - 1
  /\ NoCmd \notin Commands
BY ConstantsAssumption DEF RX_PAYLOAD_MAX, TX_PAYLOAD_MAX, Cells, Commands

LEMMA ByteKinds ==
  /\ NoByte \in Bytes /\ Addresses \subseteq Bytes
  /\ \A s, k \in Nat : Payload(s, k) \in Bytes
  /\ \A a \in Addresses, s, k \in Nat : Answer(a, s, k) \in Bytes
BY DEF Bytes, Addresses, Payload, Answer

\* What is known of the current message.
LEMMA Current ==
  ASSUME RegisterAccess, DriverTypes, pc # "idle"
  PROVE  /\ Msg \in Message /\ AddrByte(Msg) \in Addresses
         /\ i \in Nat /\ Len(msgs) \in Nat /\ i >= 1 /\ i <= Len(msgs)
         /\ Msg.len \in Nat /\ Msg.block \in BOOLEAN
         /\ Msg.dir \in {"read", "write"}
         /\ Total(Msg) \in Nat /\ Total(Msg) <= RX_PAYLOAD_MAX
         /\ Msg.dir = "write" => Total(Msg) = Msg.len /\ Msg.len <= TX_PAYLOAD_MAX
         /\ Msg.dir = "read" => LastMsg
         /\ Msg.dir = "read" /\ i > 1 => Total(Msg) > 0
<1>1. /\ msgs \in Seq(Message) /\ i \in 1 .. Len(msgs) /\ Simple(msgs)
      /\ Len(msgs) \in Nat
  BY Constants DEF DriverTypes, RegisterAccess
<1>2. Msg \in Message
  BY <1>1 DEF Msg
<1>3. AddrByte(Msg) \in Addresses /\ Msg.len \in Nat /\ Msg.block \in BOOLEAN
      /\ Msg.dir \in {"read", "write"}
  BY <1>2 DEF Message, AddrByte, Addresses
<1>4. /\ OneCommand(Msg) /\ (Msg.dir = "read" => i = Len(msgs))
      /\ (Msg.dir = "read" /\ i > 1 => (Msg.block \/ Msg.len > 0))
  BY <1>1 DEF Simple, Msg
<1>5. Total(Msg) \in Nat /\ Total(Msg) <= RX_PAYLOAD_MAX
  BY <1>3, <1>4, Constants DEF OneCommand, Total
<1>6. QED
  BY <1>1, <1>2, <1>3, <1>4, <1>5, Constants DEF OneCommand, Total, LastMsg

\* A step after which the transfer has its result.
LEMMA ReturnStep ==
  ASSUME Inv, NEW r \in {"ok", "EINVAL", "EBUSY", "EIO", "ETIMEDOUT"}, Return(r),
         UNCHANGED <<buf, serial>>, ControllerTypes', r = "ok" => ~busy'
  PROVE  Inv'
<1> USE DEF Inv, Return, Goto
<1>1. pc' = "idle" /\ msgs' = <<>> /\ i' = 0 /\ left' = 0 /\ xfer' = 0 /\ reply' = r
  OBVIOUS
<1>2. serial <= MaxSerial
  BY Constants DEF DriverTypes
<1>3. DriverTypes'
  BY <1>1, <1>2, Constants DEF DriverTypes
<1>4. (Bus /\ Command1 /\ Answered)'
  BY <1>1 DEF Bus, Command1, Answered
<1>5. QED
  BY <1>3, <1>4

LEMMA BeginStep ==
  ASSUME RegisterAccess, Inv, NEW t \in Transfers, Refuse(t) \/ Begin(t)
  PROVE  Inv'
<1> USE DEF Inv, hw
<1>1. CASE Refuse(t)
  <2>1. ControllerTypes'
    BY <1>1 DEF Refuse, ControllerTypes
  <2>2. QED
    BY <1>1, <2>1, ReturnStep DEF Refuse
<1>2. CASE Begin(t)
  <2>1. t \in Seq(Message) /\ t # <<>> /\ Len(t) \in Nat /\ 1 \in 1 .. Len(t)
    BY <1>2, Constants, EmptySeq DEF Begin, MsgParamsOK
  <2>2. /\ pc = "idle" /\ pc' = "wait_free" /\ msgs' = t /\ i' = 1 /\ reply' = "none"
        /\ t[1].dir = "write" \/ page = "low"
        /\ serial + Len(t) <= MaxSerial
        /\ UNCHANGED <<left, xfer, buf, serial, page, iobuf, cmd, sts, busy, inbox>>
    BY <1>2 DEF Begin, Goto, RegisterAccess
  <2>3. DriverTypes'
    BY <2>1, <2>2, Constants DEF DriverTypes
  <2>4. ControllerTypes'
    BY <2>2 DEF ControllerTypes
  <2>5. (Bus /\ Command1 /\ Answered)'
    BY <2>2 DEF Bus, Command1, Answered, Msg
  <2>6. QED
    BY <2>3, <2>4, <2>5
<1>3. QED
  BY <1>1, <1>2

LEMMA WaitStep ==
  ASSUME RegisterAccess, Inv, BusFree \/ Recover
  PROVE  Inv'
<1> USE DEF Inv
<1>1. CASE Recover /\ Return("EBUSY")
  <2>1. ControllerTypes'
    BY <1>1 DEF Recover, ControllerTypes
  <2>2. QED
    BY <1>1, <2>1, ReturnStep DEF Recover
<1>2. CASE ~(Recover /\ Return("EBUSY"))
  <2>1. /\ pc = "wait_free" /\ pc' = "msg" /\ cmd' = NoCmd /\ busy' = FALSE
        /\ UNCHANGED <<msgs, i, left, xfer, buf, reply, serial, page, iobuf, sts, inbox>>
    BY <1>2 DEF BusFree, Recover, Goto, hw, ControllerTypes
  <2>2. Msg' = Msg /\ i = 1
    BY <2>1 DEF Msg, DriverTypes
  <2>3. DriverTypes'
    BY <2>1 DEF DriverTypes
  <2>4. ControllerTypes'
    BY <2>1 DEF ControllerTypes
  <2>5. Bus'
    BY <2>1, <2>2 DEF Bus
  <2>6. (Command1 /\ Answered)'
    BY <2>1 DEF Command1, Answered
  <2>7. QED
    BY <2>3, <2>4, <2>5, <2>6
<1>3. QED
  BY <1>1, <1>2

LEMMA MessageStep ==
  ASSUME RegisterAccess, Inv, MessageBegin
  PROVE  Inv'
<1> USE DEF Inv
<1>1. /\ pc = "msg" /\ pc' = "issue" /\ serial' = serial + 1 /\ sts' = {}
      /\ iobuf' = IF Msg.dir = "read"
                  THEN [iobuf EXCEPT ![IF page = "low" THEN 0 ELSE PageSize] = AddrByte(Msg)]
                  ELSE iobuf
      /\ left' = Total(Msg) /\ buf' = <<>> /\ inbox' = <<>>
      /\ UNCHANGED <<msgs, i, xfer, reply, page, cmd, busy>>
  BY DEF MessageBegin, CleanIntrStatus, Goto, Total
<1>2. Msg' = Msg /\ cmd = NoCmd /\ (Msg.dir = "read" => page = "low")
  BY <1>1 DEF Msg, Bus
<1>3. AddrByte(Msg) \in Addresses /\ AddrByte(Msg) \in Bytes /\ Total(Msg) \in Nat
  BY <1>1, Current, ByteKinds
<1>4. 0 \in Cells /\ PageSize \in Cells
  BY Constants
<1>5. DriverTypes'
  BY <1>1, <1>3, EmptySeq DEF DriverTypes
<1>6. ControllerTypes'
  BY <1>1, <1>2, <1>3, <1>4 DEF ControllerTypes
<1>7. Bus' /\ Answered'
  BY <1>1, <1>2 DEF Bus, Answered
<1>8. Command1'
  BY <1>1, <1>2, <1>4 DEF Command1, AddrByte, ControllerTypes
<1>9. QED
  BY <1>5, <1>6, <1>7, <1>8

LEMMA EmptyReadStep ==
  ASSUME RegisterAccess, Inv, ReadNothing
  PROVE  Inv'
<1> USE DEF Inv
<1>1. /\ pc = "issue" /\ pc' = "next" /\ Msg.dir = "read" /\ left = 0
      /\ UNCHANGED <<msgs, i, left, xfer, buf, reply, serial, page, iobuf, cmd, sts, busy, inbox>>
  BY DEF ReadNothing, Goto, hw
<1>2. /\ Msg' = Msg /\ (LastMsg' <=> LastMsg) /\ LastMsg /\ ~(i > 1)
      /\ buf = <<>> /\ Total(Msg) = 0
  BY <1>1, Current DEF Msg, LastMsg, Command1
<1>3. ~Msg.block /\ Msg.len = 0
  BY <1>1, <1>2, Constants, Current DEF Total
<1>4. DriverTypes' /\ ControllerTypes'
  BY <1>1 DEF DriverTypes, ControllerTypes
<1>5. Bus'
  BY <1>1, <1>2 DEF Bus
<1>6. Command1'
  BY <1>1 DEF Command1
<1>7. Answered'
  BY <1>1, <1>2, <1>3 DEF Answered
<1>8. QED
  BY <1>4, <1>5, <1>6, <1>7

\* One command takes the whole message.
LEMMA IssueStep ==
  ASSUME RegisterAccess, Inv, IssueRead \/ IssueWrite
  PROVE  Inv'
<1> USE DEF Inv
<1>1. /\ pc = "issue" /\ pc' = "poll" /\ left = Total(Msg)
      /\ sts = {} /\ buf = <<>> /\ inbox = <<>> /\ cmd = NoCmd
      /\ UNCHANGED <<msgs, i, buf, reply, serial, sts, inbox>>
  BY DEF IssueRead, IssueWrite, Goto, Command1, Bus
<1>2. Msg' = Msg /\ (LastMsg' <=> LastMsg) /\ serial \in Nat /\ LastMsg \in BOOLEAN
  BY <1>1 DEF Msg, LastMsg, DriverTypes
<1>3. /\ Msg.len \in Nat /\ Total(Msg) \in 0 .. RX_PAYLOAD_MAX
      /\ AddrByte(Msg) \in Addresses
      /\ Msg.dir \in {"read", "write"}
      /\ Msg.dir = "write" => Total(Msg) = Msg.len /\ Msg.len <= TX_PAYLOAD_MAX
      /\ Msg.dir = "read" => LastMsg
  BY <1>1, Current
<1>4. /\ left' = 0 /\ xfer' = Total(Msg) /\ busy' = TRUE
      /\ cmd' = [kind |-> IF Msg.dir = "read" THEN "receive" ELSE "transmit",
                 n |-> Total(Msg), stop |-> LastMsg, serial |-> serial]
  <2>1. CASE IssueRead
    <3>1. AtMost(left, RX_PAYLOAD_MAX) = left
      BY <1>1, <1>3, Constants DEF AtMost
    <3>2. Msg.dir = "read" /\ Command("receive", left, TRUE) /\ xfer' = left /\ left' = left - left
      BY <2>1, <3>1 DEF IssueRead
    <3>3. QED
      BY <1>1, <1>3, <3>2 DEF Command
  <2>2. CASE IssueWrite
    <3>1. AtMost(left, TX_PAYLOAD_MAX) = left
      BY <1>1, <1>3, <2>2, Constants DEF AtMost, IssueWrite
    <3>2. Msg.dir = "write" /\ Command("transmit", left, LastMsg) /\ xfer' = left /\ left' = left - left
      BY <2>2, <3>1 DEF IssueWrite
    <3>3. QED
      BY <1>1, <1>3, <3>2 DEF Command
  <2>3. QED
    BY <2>1, <2>2
<1>5. /\ iobuf' \in [Cells -> Bytes] /\ iobuf'[0] = AddrByte(Msg)
      /\ Msg.dir = "write" => \A k \in 1 .. Msg.len : iobuf'[k] = Payload(serial, k)
      /\ page' \in {"low", "high"}
      /\ Msg.dir = "write" /\ Msg.len < PageSize => page' = "low"
  <2>1. CASE IssueRead
    BY <1>1, <2>1 DEF IssueRead, Command1, ControllerTypes
  <2>2. CASE IssueWrite
    <3>1. AtMost(left, TX_PAYLOAD_MAX) = Msg.len /\ left = Msg.len /\ Msg.dir = "write"
      BY <1>1, <1>3, <2>2, Constants DEF AtMost, IssueWrite
    <3>2. /\ iobuf' = FillTxBuf(Msg.len, 0)
          /\ page' = IF Msg.len < PageSize THEN "low" ELSE "high"
      BY <1>3, <2>2, <3>1 DEF IssueWrite
    <3>3. \A j \in Cells : iobuf'[j] = IF j = 0 THEN AddrByte(Msg)
                                       ELSE IF j \in 1 .. Msg.len THEN Payload(serial, j)
                                       ELSE iobuf[j]
      BY <1>3, <3>2, Constants DEF FillTxBuf
    <3>4. 0 \in Cells /\ \A k \in 1 .. Msg.len : k \in Cells /\ k # 0
      BY <1>3, <3>1, Constants
    <3>5. \A j \in Cells : iobuf'[j] \in Bytes
      BY <1>2, <1>3, <3>3, ByteKinds DEF ControllerTypes
    <3>6. iobuf' = [j \in Cells |-> iobuf'[j]]
      BY <3>2 DEF FillTxBuf
    <3>7. QED
      BY <3>2, <3>3, <3>4, <3>5, <3>6
  <2>3. QED
    BY <2>1, <2>2
<1>6. DriverTypes'
  BY <1>1, <1>2, <1>3, <1>4 DEF DriverTypes
<1>7. ControllerTypes'
  BY <1>1, <1>2, <1>3, <1>4, <1>5 DEF ControllerTypes, Commands
<1>8. Bus' /\ Answered'
  BY <1>1, <1>2, <1>5 DEF Bus, Answered
<1>9. Running' /\ cmd' # NoCmd
  <2>1. /\ cmd'.kind = IF Msg.dir = "read" THEN "receive" ELSE "transmit"
        /\ cmd'.n = xfer' /\ cmd'.serial = serial' /\ cmd'.stop = LastMsg
        /\ cmd' \in Commands
    BY <1>1, <1>2, <1>3, <1>4 DEF Commands
  <2>2. cmd'.stop <=> LastMsg'
    BY <1>2, <2>1, Zenon
  <2>3. Loaded'
    BY <1>1, <1>2, <1>5 DEF Loaded, AddrByte, Payload
  <2>4. cmd' # NoCmd
    BY <2>1, Constants
  <2>5. QED
    BY <1>1, <1>2, <2>1, <2>2, <2>3, <2>4 DEF Running
<1>10. Command1'
  BY <1>1, <1>2, <1>4, <1>9 DEF Command1, Total
<1>11. QED
  BY <1>6, <1>7, <1>8, <1>10
LEMMA PollFailsStep ==
  ASSUME RegisterAccess, Inv, PollNack \/ PollTimeout
  PROVE  Inv'
<1> USE DEF Inv
<1>1. CASE PollNack
  <2>1. busy
    BY <1>1 DEF PollNack, Command1, Running, Nacked, Transmitted, Received
  <2>2. cmd' \in Commands /\ cmd'.kind = "stop"
    BY <1>1, Constants DEF PollNack, Commands, DriverTypes
  <2>3. ControllerTypes'
    BY <1>1, <2>1, <2>2 DEF PollNack, ControllerTypes
  <2>4. QED
    BY <1>1, <2>3, ReturnStep DEF PollNack
<1>2. CASE PollTimeout
  <2>1. ControllerTypes'
    BY <1>2 DEF PollTimeout, ControllerTypes, hw
  <2>2. QED
    BY <1>2, <2>1, ReturnStep DEF PollTimeout
<1>3. QED
  BY <1>1, <1>2

LEMMA WriteDoneStep ==
  ASSUME RegisterAccess, Inv, WriteDone
  PROVE  Inv'
<1> USE DEF Inv
<1>1. /\ pc = "poll" /\ Msg.dir = "write" /\ "nack" \notin sts /\ "tx" \in sts
      /\ UNCHANGED <<msgs, i, left, xfer, buf, reply, serial, page, iobuf, cmd, sts, busy, inbox>>
      /\ left = 0 /\ pc' = "next"
  BY DEF WriteDone, Goto, hw, Command1
<1>2. Transmitted /\ cmd = NoCmd
  BY <1>1 DEF Command1, Running, Nacked, Transmitted, Received
<1>3. Msg' = Msg /\ (LastMsg' <=> LastMsg) /\ Msg.dir # "read"
  BY <1>1 DEF Msg, LastMsg
<1>4. DriverTypes' /\ ControllerTypes'
  BY <1>1 DEF DriverTypes, ControllerTypes
<1>5. Bus' /\ Command1'
  BY <1>1, <1>2, <1>3 DEF Bus, Command1, Transmitted
<1>6. Answered'
  BY <1>1, <1>2, <1>3 DEF Answered, Transmitted, Delivered, AddrByte, Payload
<1>7. QED
  BY <1>4, <1>5, <1>6

\* The bytes are copied out: from the buffer the whole answer, of a block no more
\* than has arrived.
LEMMA CopyStep ==
  ASSUME RegisterAccess, Inv, pc = "poll", Msg.dir = "read", "rx" \in sts, "nack" \notin sts,
         pc' = "next",
         UNCHANGED <<msgs, i, left, xfer, reply, serial, iobuf, cmd, sts, busy, inbox>>,
         page' \in {"low", "high"},
         NEW n \in 0 .. xfer, buf' \in Seq(Bytes), Len(buf') = n,
         ~Msg.block => n = xfer,
         \A k \in 1 .. n : buf'[k] = iobuf[k - 1]
  PROVE  Inv'
<1> USE DEF Inv
<1>1. Received /\ cmd = NoCmd /\ xfer = Total(Msg) /\ xfer \in Nat
  BY DEF Command1, Running, Nacked, Transmitted, Received, DriverTypes
<1>2. Msg' = Msg /\ (LastMsg' <=> LastMsg) /\ LastMsg /\ serial' = serial
  BY Current DEF Msg, LastMsg
<1>3. \A k \in 1 .. n : buf'[k] = Answer(AddrByte(Msg), serial, k)
  <2>1. SUFFICES ASSUME NEW k \in 1 .. n PROVE buf'[k] = Answer(AddrByte(Msg), serial, k)
    OBVIOUS
  <2>2. k - 1 \in 0 .. xfer - 1 /\ k - 1 + 1 = k
    BY <1>1
  <2>3. iobuf[k - 1] = Answer(AddrByte(Msg), serial, k - 1 + 1)
    BY <1>1, <2>2 DEF Received
  <2>4. QED
    BY <2>2, <2>3
<1>4. DriverTypes' /\ ControllerTypes'
  BY DEF DriverTypes, ControllerTypes
<1>5. Bus' /\ Command1'
  BY <1>1, <1>2 DEF Bus, Command1, Received
<1>6. DOMAIN buf' = 1 .. n /\ (~Msg.block => Len(buf') = Msg.len)
  BY <1>1 DEF Total
<1>7. Answered'
  BY <1>1, <1>2, <1>3, <1>6 DEF Answered, Received, AddrByte, Answer
<1>8. QED
  BY <1>4, <1>5, <1>7

LEMMA ReadDoneStep ==
  ASSUME RegisterAccess, Inv, ReadDone
  PROVE  Inv'
<1> USE DEF Inv
<1>1. /\ pc = "poll" /\ Msg.dir = "read" /\ ~Msg.block /\ "nack" \notin sts /\ "rx" \in sts
      /\ buf' = buf \o [k \in 1 .. xfer |-> iobuf[k - 1]]
      /\ page' \in {"low", "high"}
      /\ UNCHANGED <<msgs, i, left, xfer, reply, serial, iobuf, cmd, sts, busy, inbox>>
      /\ left = 0 /\ pc' = "next"
  BY DEF ReadDone, Goto, Command1, ControllerTypes
<1>2. buf = <<>> /\ xfer \in 0 .. RX_PAYLOAD_MAX /\ RX_PAYLOAD_MAX \in Nat
  BY <1>1, Constants DEF Command1, Running, Nacked, Transmitted, Received, DriverTypes
<1>3. \A k \in 1 .. xfer : iobuf[k - 1] \in Bytes
  BY <1>2, Constants DEF ControllerTypes
<1>4. [k \in 1 .. xfer |-> iobuf[k - 1]] \in Seq(Bytes)
  BY <1>2, <1>3, IsASeq
<1>5. buf' = [k \in 1 .. xfer |-> iobuf[k - 1]]
  BY <1>1, <1>2, <1>4, ConcatEmptySeq
<1>6. Len(buf') = xfer
  BY <1>2, <1>5
<1>7. QED
  BY <1>1, <1>2, <1>4, <1>5, <1>6, CopyStep

LEMMA BlockDoneStep ==
  ASSUME RegisterAccess, Inv, BlockDone
  PROVE  Inv'
<1> USE DEF Inv
<1>1. PICK count \in Counts :
        \/ /\ count > BlockMax
           /\ Return("EINVAL")
           /\ buf' = buf
        \/ /\ count <= BlockMax
           /\ buf' = [k \in 1 .. count + (IF Msg.pec THEN 2 ELSE 1) |->
                        IF k <= xfer THEN iobuf[k - 1] ELSE NoByte]
           /\ Goto("next")
           /\ UNCHANGED <<msgs, i, left, xfer, reply>>
  BY DEF BlockDone
<1>2. /\ pc = "poll" /\ Msg.dir = "read" /\ Msg.block /\ "nack" \notin sts /\ "rx" \in sts
      /\ UNCHANGED <<serial, page, iobuf, cmd, sts, busy, inbox>>
  BY DEF BlockDone, hw
<1>3. CASE Return("EINVAL") /\ buf' = buf
  <2>1. ControllerTypes'
    BY <1>2 DEF ControllerTypes
  <2>2. QED
    BY <1>2, <1>3, <2>1, ReturnStep
<1>4. CASE count <= BlockMax /\ Goto("next")
           /\ buf' = [k \in 1 .. count + (IF Msg.pec THEN 2 ELSE 1) |->
                        IF k <= xfer THEN iobuf[k - 1] ELSE NoByte]
           /\ UNCHANGED <<msgs, i, left, xfer, reply>>
  <2> DEFINE n == count + (IF Msg.pec THEN 2 ELSE 1)
  <2>1. xfer = BlockMax /\ count \in Nat /\ count + 2 <= BlockMax
    BY <1>2, <1>4, Constants DEF Command1, Total, RegisterAccess
  <2>2. n \in 0 .. xfer /\ n \in Nat
    BY <2>1, Constants
  <2>3. \A k \in 1 .. n : k <= xfer /\ iobuf[k - 1] \in Bytes
    BY <2>1, <2>2, Constants DEF ControllerTypes
  <2>4. buf' = [k \in 1 .. n |-> IF k <= xfer THEN iobuf[k - 1] ELSE NoByte]
    BY <1>4
  <2>5. \A k \in 1 .. n : (IF k <= xfer THEN iobuf[k - 1] ELSE NoByte) = iobuf[k - 1]
    BY <2>3
  <2> HIDE DEF n
  <2>6. buf' = [k \in 1 .. n |-> iobuf[k - 1]]
    BY <2>4, <2>5
  <2>7. [k \in 1 .. n |-> iobuf[k - 1]] \in Seq(Bytes)
    BY <2>2, <2>3, IsASeq
  <2>8. Len(buf') = n /\ \A k \in 1 .. n : buf'[k] = iobuf[k - 1]
    BY <2>2, <2>6
  <2>9. QED
    BY <1>2, <1>4, <2>2, <2>6, <2>7, <2>8, CopyStep DEF Goto, ControllerTypes
<1>5. QED
  BY <1>1, <1>3, <1>4

LEMMA NextStep ==
  ASSUME RegisterAccess, Inv, NextMessage
  PROVE  Inv'
<1> USE DEF Inv
<1>1. pc = "next" /\ cmd = NoCmd /\ (busy <=> ~LastMsg)
      /\ UNCHANGED <<buf, serial, page, iobuf, cmd, sts, busy, inbox>>
  BY DEF NextMessage, Bus, hw
<1>2. ControllerTypes'
  BY <1>1 DEF ControllerTypes
<1>3. CASE LastMsg /\ Return("ok")
  BY <1>1, <1>2, <1>3, ReturnStep
<1>4. CASE ~LastMsg /\ i' = i + 1 /\ Goto("msg") /\ UNCHANGED <<msgs, left, xfer, reply>>
  <2>1. /\ i \in Nat /\ i >= 1 /\ i < Len(msgs) /\ Len(msgs) \in Nat
        /\ Msg.dir = "write" /\ msgs \in Transfers
    BY <1>1, <1>4, Current DEF LastMsg, DriverTypes
  <2>2. pc' = "msg" /\ Msg' = msgs[i + 1] /\ i + 1 \in 1 .. Len(msgs) /\ i + 1 > 1
    BY <1>4, <2>1 DEF Goto, Msg
  <2>3. Msg'.dir = "read" => page = "low"
    <3>1. Simple(msgs)
      BY <2>1 DEF RegisterAccess
    <3>2. \A k \in 1 .. Len(msgs) :
            msgs[k].dir = "read" /\ k > 1 => msgs[k - 1].len < PageSize
      BY <3>1 DEF Simple
    <3>3. i + 1 - 1 = i
      BY <2>1
    <3>4. QED
      BY <1>1, <2>1, <2>2, <3>2, <3>3 DEF Bus, Msg
  <2>4. DriverTypes'
    BY <1>1, <1>4, <2>1, <2>2 DEF DriverTypes
  <2>5. Bus'
    BY <1>1, <1>4, <2>2, <2>3 DEF Bus
  <2>6. Command1' /\ Answered'
    BY <2>2 DEF Command1, Answered
  <2>7. QED
    BY <1>2, <2>4, <2>5, <2>6
<1>5. QED
  BY <1>3, <1>4 DEF NextMessage

\* What the controller does while the driver polls, or has given up on it.
LEMMA EngineStep ==
  ASSUME RegisterAccess, Inv, Engine
  PROVE  Inv'
<1> USE DEF Inv
<1>1. /\ UNCHANGED <<msgs, i, pc, left, xfer, buf, reply, serial, page>>
      /\ cmd # NoCmd /\ cmd \in Commands /\ busy /\ cmd' = NoCmd
      /\ pc \in {"idle", "wait_free", "poll"}
      /\ ~(pc = "idle" /\ reply = "ok")
      /\ pc = "poll" => Running /\ left = 0 /\ xfer = Total(Msg)
  BY DEF Engine, EngineTransmits, EngineReceives, EngineNack, EngineStops, Complete, driver,
         ControllerTypes, Bus, DriverTypes, Command1
<1>2. Msg' = Msg /\ (LastMsg' <=> LastMsg)
  BY <1>1 DEF Msg, LastMsg
<1>3. DriverTypes'
  BY <1>1 DEF DriverTypes
<1>4. Bus' /\ Answered'
  BY <1>1, <1>2 DEF Bus, Answered
<1>5. iobuf' \in [Cells -> Bytes]
  <2>1. CASE EngineReceives
    <3>1. /\ cmd.serial \in Nat /\ Len(buf) \in Nat /\ iobuf[0] \in Addresses
          /\ \A j \in Cells : j \in Nat
      BY <1>1, <2>1, Constants DEF EngineReceives, ControllerTypes, DriverTypes, Commands
    <3>2. \A j \in Cells : Answer(iobuf[0], cmd.serial, Len(buf) + j + 1) \in Bytes
      BY <3>1, ByteKinds
    <3>3. QED
      BY <2>1, <3>2 DEF EngineReceives, ControllerTypes
  <2>2. CASE ~EngineReceives
    BY <2>2 DEF Engine, EngineTransmits, EngineNack, EngineStops, ControllerTypes
  <2>3. QED
    BY <2>1, <2>2
<1>6. ControllerTypes'
  <2>1. sts' \subseteq {"rx", "tx", "nack"} /\ busy' \in BOOLEAN
    BY <1>1 DEF Engine, EngineTransmits, EngineReceives, EngineNack, EngineStops, Complete,
                ControllerTypes, Commands
  <2>2. QED
    BY <1>1, <1>5, <2>1 DEF ControllerTypes
<1>7. ASSUME pc = "poll" PROVE (Nacked \/ Transmitted \/ Received)'
  <2>1. /\ Running /\ serial \in Nat /\ xfer = Total(Msg) /\ xfer \in 0 .. RX_PAYLOAD_MAX
        /\ sts = {} /\ buf = <<>> /\ inbox = <<>> /\ iobuf[0] = AddrByte(Msg)
        /\ cmd.n = xfer /\ cmd.serial = serial /\ (cmd.stop <=> LastMsg)
    BY <1>1, <1>7 DEF Running, Loaded, DriverTypes
  <2>2. CASE EngineTransmits
    <3>1. /\ Msg.dir = "write" /\ Msg.len = xfer /\ Msg.len \in Nat
          /\ \A k \in 1 .. Msg.len : iobuf[k] = Payload(serial, k)
      BY <1>7, <2>1, <2>2, Current DEF EngineTransmits, Running, Loaded
    <3>2. inbox' = <<>> \o [k \in 1 .. Msg.len |-> [to |-> iobuf[0], byte |-> iobuf[k]]]
      BY <2>1, <2>2, <3>1 DEF EngineTransmits
    <3>3. [k \in 1 .. Msg.len |-> [to |-> iobuf[0], byte |-> iobuf[k]]]
            = [k \in 1 .. Msg.len |-> [to |-> AddrByte(Msg), byte |-> Payload(serial, k)]]
      BY <2>1, <3>1
    <3> DEFINE Sent == [to : {AddrByte(Msg)}, byte : {Payload(serial, k) : k \in 1 .. Msg.len}]
    <3>4. [k \in 1 .. Msg.len |-> [to |-> AddrByte(Msg), byte |-> Payload(serial, k)]] \in Seq(Sent)
      <4>1. \A k \in 1 .. Msg.len : [to |-> AddrByte(Msg), byte |-> Payload(serial, k)] \in Sent
        OBVIOUS
      <4> HIDE DEF Sent
      <4>2. QED
        BY <3>1, <4>1, IsASeq
    <3> HIDE DEF Sent
    <3>5. inbox' = [k \in 1 .. Msg.len |-> [to |-> AddrByte(Msg), byte |-> Payload(serial, k)]]
      BY <3>2, <3>3, <3>4, ConcatEmptySeq
    <3>6. Delivered'
      BY <1>1, <1>2, <3>5 DEF Delivered, AddrByte, Payload
    <3>7. sts' = {"tx"} /\ (busy' <=> ~LastMsg)
      BY <2>1, <2>2 DEF EngineTransmits, Complete
    <3>8. QED
      BY <1>2, <3>1, <3>6, <3>7 DEF Transmitted
  <2>3. CASE EngineReceives
    <3>1. Msg.dir = "read" /\ LastMsg
      BY <1>7, <2>1, <2>3, Current DEF EngineReceives, Running
    <3>2. \A j \in Cells : j < xfer => iobuf'[j] = Answer(AddrByte(Msg), serial, 0 + j + 1)
      BY <2>1, <2>3 DEF EngineReceives
    <3>3. \A j \in 0 .. xfer - 1 : j \in Cells /\ j < xfer /\ 0 + j + 1 = j + 1
      BY <2>1, Constants
    <3>4. \A j \in 0 .. xfer - 1 : iobuf'[j] = Answer(AddrByte(Msg), serial, j + 1)
      BY <3>2, <3>3
    <3>5. "rx" \in sts' /\ "nack" \notin sts' /\ ~busy'
      BY <2>1, <2>3, <3>1 DEF EngineReceives, Complete
    <3>6. QED
      BY <1>1, <1>2, <2>1, <3>1, <3>4, <3>5 DEF Received, AddrByte, Answer
  <2>4. CASE EngineNack
    BY <1>1, <2>1, <2>4 DEF EngineNack, Nacked
  <2>5. CASE EngineStops
    BY <2>1, <2>5 DEF EngineStops, Running
  <2>6. QED
    BY <2>2, <2>3, <2>4, <2>5 DEF Engine
<1>8. Command1'
  BY <1>1, <1>2, <1>7 DEF Command1
<1>9. QED
  BY <1>3, <1>4, <1>6, <1>8

LEMMA InvInit == Init => Inv
<1> SUFFICES ASSUME Init PROVE Inv
  OBVIOUS
<1> USE DEF Init
<1>1. DriverTypes
  BY Constants, EmptySeq DEF DriverTypes
<1>2. ControllerTypes
  BY ByteKinds DEF ControllerTypes
<1>3. Bus /\ Command1 /\ Answered
  BY DEF Bus, Command1, Answered
<1>4. QED
  BY <1>1, <1>2, <1>3 DEF Inv

LEMMA InvStep == RegisterAccess /\ Inv /\ [Next]_vars => Inv'
<1> SUFFICES ASSUME RegisterAccess, Inv, [Next]_vars PROVE Inv'
  OBVIOUS
<1>1. CASE UNCHANGED vars
  <2>1. UNCHANGED <<msgs, i, pc, left, xfer, buf, reply, serial, page, iobuf, cmd, sts, busy, inbox>>
    BY <1>1 DEF vars, driver, hw
  <2>2. Msg' = Msg /\ (LastMsg' <=> LastMsg)
    BY <2>1 DEF Msg, LastMsg
  <2>3. DriverTypes' /\ ControllerTypes'
    BY <2>1 DEF Inv, DriverTypes, ControllerTypes
  <2>4. Bus' /\ Answered'
    BY <2>1, <2>2 DEF Inv, Bus, Answered, Delivered, AddrByte, Payload, Answer
  <2>5. Command1'
    BY <2>1, <2>2 DEF Inv, Command1, Running, Loaded, Nacked, Transmitted, Received, Delivered,
                      AddrByte, Payload, Answer
  <2>6. QED
    BY <2>3, <2>4, <2>5 DEF Inv
<1>2. CASE Next
  BY <1>2, BeginStep, WaitStep, MessageStep, EmptyReadStep, IssueStep, PollFailsStep,
     WriteDoneStep, ReadDoneStep, BlockDoneStep, NextStep, EngineStep DEF Next, Advance
<1>3. QED
  BY <1>1, <1>2

LEMMA InvCorrect == RegisterAccess /\ Spec => []Inv
<1>1. SUFFICES ASSUME RegisterAccess PROVE Spec => []Inv
  OBVIOUS
<1>2. Inv /\ [Next]_vars => Inv'
  BY <1>1, InvStep
<1>3. QED
  BY <1>2, InvInit, PTL DEF Spec

\* In register access every variable keeps its type, every cell of the buffer holds
\* a byte, and no more messages are numbered than are sent.
THEOREM TypeCorrect ==
  ASSUME RegisterAccess
  PROVE  Spec => []TypeOK
<1>1. Inv => TypeOK
  <2> SUFFICES ASSUME Inv PROVE TypeOK
    OBVIOUS
  <2>1. /\ msgs \in Transfers \cup {<<>>} /\ (pc = "idle" <=> msgs = <<>>)
        /\ IF pc = "idle" THEN i = 0 ELSE i \in 1 .. Len(msgs)
    BY EmptySeq DEF Inv, DriverTypes
  <2>2. serial \in 0 .. MaxSerial
    BY Constants DEF Inv, DriverTypes
  <2>3. \A k \in DOMAIN buf : buf[k] \in Bytes
    BY DEF Inv, DriverTypes
  <2>4. cmd # NoCmd => cmd.kind \in {"transmit", "receive", "stop"} /\ cmd.n <= RX_PAYLOAD_MAX
    BY DEF Inv, ControllerTypes, Commands
  <2>5. QED
    BY <2>1, <2>2, <2>3, <2>4 DEF TypeOK, Inv, DriverTypes, ControllerTypes
<1>2. QED
  BY <1>1, InvCorrect, PTL

\* In register access a read that succeeds has returned what the addressed device
\* sent for it, all of it and in order, whatever the commands before it left behind
\* and however late the controller was with them.
THEOREM ReadsOwnData ==
  ASSUME RegisterAccess
  PROVE  Spec => []ReadReturnsOwnData
<1>1. Inv => ReadReturnsOwnData
  BY DEF Inv, Answered, ReadReturnsOwnData
<1>2. QED
  BY <1>1, InvCorrect, PTL

\* And a write that succeeds has delivered its payload, once and in order.
THEOREM WritesDeliver ==
  ASSUME RegisterAccess
  PROVE  Spec => []WriteDelivered
<1>1. Inv => WriteDelivered
  BY DEF Inv, Answered, Delivered, WriteDelivered
<1>2. QED
  BY <1>1, InvCorrect, PTL

\* The bus is held from the first message of a transfer to the last, and no command
\* is given while another still runs.
THEOREM BusIsHeld ==
  ASSUME RegisterAccess
  PROVE  Spec => []HeldForTransfer
<1>1. Inv => HeldForTransfer
  BY DEF Inv, Bus, HeldForTransfer, PolledTillDone
<1>2. QED
  BY <1>1, InvCorrect, PTL
=============================================================================
