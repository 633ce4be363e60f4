----------------------------- MODULE I2cMaster -----------------------------
(***************************************************************************)
(* The I2C master driver (fboss_iob_i2c.c): a transfer is a sequence of     *)
(* messages to one device, sent in chunks through the controller's two      *)
(* pages of I/O buffer and polled for completion.  The I2C core serialises  *)
(* transfers; what runs concurrently is the controller.                     *)
(*                                                                          *)
(* The controller is in the FPGA and modelled from the registers the driver *)
(* uses.  It takes the address byte of every command from the first cell of *)
(* the low page, and the bits of INTR_STS stay until they are written back. *)
(***************************************************************************)
EXTENDS Integers, Sequences

CONSTANTS
  Devices,    \* device addresses
  Transfers,  \* the transfers clients ask for
  PageSize,   \* FBIOB_I2C_IOBUF_SIZE
  BlockMax,   \* I2C_SMBUS_BLOCK_MAX
  Counts,     \* the counts devices put first in a block they send
  SlowEngine, \* may a command outlast FBOSS_I2C_SMBUS_MAX_TIMEOUT_US?
  AnyPage,    \* may a transfer begin with a read whatever page is selected?
  MaxSerial,  \* bound on the number of messages
  NoCmd, NoByte

RX_PAYLOAD_MAX == 2 * PageSize
TX_PAYLOAD_MAX == 2 * PageSize - 1

Message == [addr : Devices, dir : {"read", "write"}, len : Nat,
            block : BOOLEAN, pec : BOOLEAN]

ASSUME ConstantsAssumption ==
  /\ PageSize \in Nat \ {0}
  /\ BlockMax \in 1 .. PageSize
  /\ Counts \subseteq Nat
  /\ SlowEngine \in BOOLEAN /\ AnyPage \in BOOLEAN
  /\ MaxSerial \in Nat
  /\ \A t \in Transfers : t \in Seq(Message)
  /\ NoCmd \notin [kind : {"transmit", "receive", "stop"}, n : Nat, stop : BOOLEAN, serial : Nat]

VARIABLES
  msgs, i,  \* the transfer and the index of its current message
  pc,       \* where master_xfer is
  left,     \* rx_len or nleft
  xfer,     \* xfer_len
  buf,      \* what the current read has put into msg->buf
  reply,    \* the result of the last transfer
  serial,   \* numbers the messages, to tell their bytes apart
  page,     \* BUF_CTRL.MEM_PAGE_SEL
  iobuf,    \* the low page and the high page after it
  cmd,      \* the command the controller is carrying out
  sts,      \* INTR_STS
  busy,     \* CMD_STS.BUS_BUSY
  inbox     \* the bytes of the current message that reached a device

driver == <<msgs, i, pc, left, xfer, buf, reply, serial>>
hw == <<page, iobuf, cmd, sts, busy, inbox>>
vars == <<driver, hw>>

Cells == 0 .. 2 * PageSize - 1
Msg == msgs[i]
AddrByte(m) == [addr |-> m.addr, dir |-> m.dir]
Payload(s, k) == [sent |-> s, nth |-> k]
Answer(from, s, k) == [from |-> from, to |-> s, nth |-> k]

AtMost(n, max) == IF n < max THEN n ELSE max

Init ==
  /\ msgs = <<>> /\ i = 0
  /\ pc = "idle"
  /\ left = 0 /\ xfer = 0
  /\ buf = <<>>
  /\ reply = "none"
  /\ serial = 0
  /\ page = "low"
  /\ iobuf = [j \in Cells |-> NoByte]
  /\ cmd = NoCmd
  /\ sts = {}
  /\ busy = FALSE
  /\ inbox = <<>>

-----------------------------------------------------------------------------
(* fbiob_i2c_master_xfer.                                                    *)

Goto(where) == pc' = where

Return(r) ==
  /\ Goto("idle")
  /\ reply' = r
  /\ msgs' = <<>> /\ i' = 0
  /\ left' = 0 /\ xfer' = 0

\* Mutant: the loop runs to num inclusive.
LastMsgOffByOne == i > Len(msgs)

LastMsg == i = Len(msgs)

\* The retries of a poll may run out.
RunsOut == SlowEngine \/ cmd = NoCmd

MsgParamsOK(t) == t # <<>> /\ \A k \in DOMAIN t : t[k].addr = t[1].addr

Refuse(t) ==
  /\ pc = "idle"
  /\ ~MsgParamsOK(t)
  /\ Return("EINVAL")
  /\ UNCHANGED <<buf, serial, hw>>

Begin(t) ==
  /\ pc = "idle"
  /\ MsgParamsOK(t)
  /\ AnyPage \/ t[1].dir = "write" \/ page = "low"
  /\ serial + Len(t) <= MaxSerial
  /\ msgs' = t /\ i' = 1
  /\ Goto("wait_free")
  /\ reply' = "none"
  /\ UNCHANGED <<left, xfer, buf, serial, hw>>

\* wait_bus_for_free ends because the bus is free, ...
BusFree ==
  /\ pc = "wait_free"
  /\ ~busy
  /\ Goto("msg")
  /\ UNCHANGED <<msgs, i, left, xfer, buf, reply, serial, hw>>

\* Mutant: it waits for as long as the bus is busy.
RecoverNever == FALSE

\* ... or gives up; then fbiob_i2c_reset drops whatever the controller is doing.
\* A device that holds the bus may keep it busy.
Recover ==
  /\ pc = "wait_free"
  /\ busy
  /\ RunsOut
  /\ cmd' = NoCmd
  /\ \/ /\ busy' = FALSE
        /\ Goto("msg")
        /\ UNCHANGED <<msgs, i, left, xfer, reply>>
     \/ /\ busy' = TRUE
        /\ Return("EBUSY")
  /\ UNCHANGED <<buf, serial, page, iobuf, sts, inbox>>

\* Mutant: INTR_STS is not cleaned.
CleanNothing == sts' = sts

\* fbiob_i2c_clean_intr_status
CleanIntrStatus == sts' = {}

\* The status is cleaned, and fbiob_i2c_read or _write begins.
\* A read puts its address where the page select points.
MessageBegin ==
  /\ pc = "msg"
  /\ serial' = serial + 1
  /\ CleanIntrStatus
  /\ iobuf' = IF Msg.dir = "read"
              THEN [iobuf EXCEPT ![IF page = "low" THEN 0 ELSE PageSize] = AddrByte(Msg)]
              ELSE iobuf
  /\ left' = IF Msg.block THEN BlockMax ELSE Msg.len
  /\ buf' = <<>>
  /\ inbox' = <<>>
  /\ Goto("issue")
  /\ UNCHANGED <<msgs, i, xfer, reply, page, cmd, busy>>

\* Mutant: every message ends with a STOP.
CommandStops(kind, n, stop) ==
  /\ cmd' = [kind |-> kind, n |-> n, stop |-> TRUE, serial |-> serial]
  /\ busy' = TRUE

\* A write to CMD_STS.  What it does to a command still running is not known;
\* PolledTillDone says that there is none.
Command(kind, n, stop) ==
  /\ cmd' = [kind |-> kind, n |-> n, stop |-> stop, serial |-> serial]
  /\ busy' = TRUE

\* Reading no bytes gives the controller nothing to do.
ReadNothing ==
  /\ pc = "issue"
  /\ Msg.dir = "read"
  /\ left = 0
  /\ Goto("next")
  /\ UNCHANGED <<msgs, i, left, xfer, buf, reply, serial, hw>>

IssueRead ==
  /\ pc = "issue"
  /\ Msg.dir = "read"
  /\ left > 0
  /\ LET n == AtMost(left, RX_PAYLOAD_MAX)
     IN  /\ xfer' = n
         /\ left' = left - n
         /\ Command("receive", n, n = left)
  /\ page' = "low"
  /\ Goto("poll")
  /\ UNCHANGED <<msgs, i, buf, reply, serial, iobuf, sts, inbox>>

\* Mutant: the high page is filled from the start of the payload.
FillTxBufAgain(n, sent) ==
  [j \in Cells |-> CASE j = 0      -> AddrByte(Msg)
                     [] j \in 1..n -> Payload(serial, sent + (IF j < PageSize THEN j ELSE j - PageSize + 1))
                     [] OTHER      -> iobuf[j]]

\* fbiob_i2c_fill_tx_buf: the address, and payload from the low into the high page.
FillTxBuf(n, sent) ==
  [j \in Cells |-> CASE j = 0      -> AddrByte(Msg)
                     [] j \in 1..n -> Payload(serial, sent + j)
                     [] OTHER      -> iobuf[j]]

IssueWrite ==
  /\ pc = "issue"
  /\ Msg.dir = "write"
  /\ LET n == AtMost(left, TX_PAYLOAD_MAX)
     IN  /\ iobuf' = FillTxBuf(n, Msg.len - left)
         /\ page' = IF n < PageSize THEN "low" ELSE "high"
         /\ xfer' = n
         /\ left' = left - n
         /\ Command("transmit", n, LastMsg)
  /\ Goto("poll")
  /\ UNCHANGED <<msgs, i, buf, reply, serial, sts, inbox>>

\* wait_till_xfer_done returns.
PollNack ==
  /\ pc = "poll"
  /\ "nack" \in sts
  /\ cmd' = [kind |-> "stop", n |-> 0, stop |-> TRUE, serial |-> serial]
  /\ Return("EIO")
  /\ UNCHANGED <<buf, serial, page, iobuf, sts, busy, inbox>>

PollTimeout ==
  /\ pc = "poll"
  /\ RunsOut
  /\ "nack" \notin sts
  /\ (IF Msg.dir = "read" THEN "rx" ELSE "tx") \notin sts
  /\ Return("ETIMEDOUT")
  /\ UNCHANGED <<buf, serial, hw>>

WriteDone ==
  /\ pc = "poll"
  /\ Msg.dir = "write"
  /\ "nack" \notin sts /\ "tx" \in sts
  /\ Goto(IF left > 0 THEN "issue" ELSE "next")
  /\ UNCHANGED <<msgs, i, left, xfer, buf, reply, serial, hw>>

\* The bytes are copied out of one or both pages.
ReadDone ==
  /\ pc = "poll"
  /\ Msg.dir = "read" /\ ~Msg.block
  /\ "nack" \notin sts /\ "rx" \in sts
  /\ buf' = buf \o [k \in 1..xfer |-> iobuf[k - 1]]
  /\ page' = IF xfer > PageSize THEN "high" ELSE page
  /\ Goto(IF left > 0 THEN "issue" ELSE "next")
  /\ UNCHANGED <<msgs, i, left, xfer, reply, serial, iobuf, cmd, sts, busy, inbox>>

\* An SMBus block: the first byte counts those that follow it.  What the copy
\* takes from beyond the bytes received was never written.
BlockDone ==
  /\ pc = "poll"
  /\ Msg.dir = "read" /\ Msg.block
  /\ "nack" \notin sts /\ "rx" \in sts
  /\ \E count \in Counts :
       \/ /\ count > BlockMax
          /\ Return("EINVAL")
          /\ buf' = buf
       \/ /\ count <= BlockMax
          /\ buf' = [k \in 1 .. count + (IF Msg.pec THEN 2 ELSE 1) |->
                       IF k <= xfer THEN iobuf[k - 1] ELSE NoByte]
          /\ Goto("next")
          /\ UNCHANGED <<msgs, i, left, xfer, reply>>
  /\ UNCHANGED <<serial, hw>>

NextMessage ==
  /\ pc = "next"
  /\ \/ /\ ~LastMsg
        /\ i' = i + 1
        /\ Goto("msg")
        /\ UNCHANGED <<msgs, left, xfer, reply>>
     \/ /\ LastMsg
        /\ Return("ok")
  /\ UNCHANGED <<buf, serial, hw>>

-----------------------------------------------------------------------------
(* The controller.                                                           *)

\* A command is done, and the bus is released if it said so.
Complete(bits) ==
  /\ sts' = sts \cup bits
  /\ busy' = ~cmd.stop
  /\ cmd' = NoCmd

EngineTransmits ==
  /\ cmd # NoCmd /\ cmd.kind = "transmit"
  /\ inbox' = inbox \o [k \in 1..cmd.n |-> [to |-> iobuf[0], byte |-> iobuf[k]]]
  /\ Complete({"tx"})
  /\ UNCHANGED <<driver, page, iobuf>>

\* Sending the address may show as a transmission, too.
EngineReceives ==
  /\ cmd # NoCmd /\ cmd.kind = "receive"
  /\ iobuf' = [j \in Cells |-> IF j < cmd.n
                              THEN Answer(iobuf[0], cmd.serial, Len(buf) + j + 1)
                              ELSE iobuf[j]]
  /\ Complete({"rx"}) \/ Complete({"rx", "tx"})
  /\ UNCHANGED <<driver, page, inbox>>

EngineNack ==
  /\ cmd # NoCmd /\ cmd.kind # "stop"
  /\ sts' = sts \cup {"nack"}
  /\ cmd' = NoCmd
  /\ UNCHANGED <<driver, page, iobuf, busy, inbox>>

EngineStops ==
  /\ cmd # NoCmd /\ cmd.kind = "stop"
  /\ Complete({})
  /\ UNCHANGED <<driver, page, iobuf, inbox>>

-----------------------------------------------------------------------------
Advance ==
  \/ BusFree \/ Recover \/ MessageBegin
  \/ ReadNothing \/ IssueRead \/ IssueWrite
  \/ PollNack \/ PollTimeout \/ WriteDone \/ ReadDone \/ BlockDone
  \/ NextMessage

Engine == EngineTransmits \/ EngineReceives \/ EngineNack \/ EngineStops

Next ==
  \/ \E t \in Transfers : Refuse(t) \/ Begin(t)
  \/ Advance
  \/ Engine

Spec == Init /\ [][Next]_vars

\* The driver only polls and sleeps.  Nothing is asked of the controller.
FairSpec == Spec /\ WF_vars(Advance)

-----------------------------------------------------------------------------
(* Register access, the transfers that are safe: each message takes one      *)
(* command; a read comes last, after nothing that leaves the high page       *)
(* selected; and no device counts so many bytes into a block that, with the   *)
(* count and a PEC, it goes beyond the bytes asked for.                       *)

OneCommand(m) ==
  /\ m.block => m.dir = "read"
  /\ ~m.block => m.len <= IF m.dir = "read" THEN RX_PAYLOAD_MAX ELSE TX_PAYLOAD_MAX

Simple(t) ==
  \A k \in 1 .. Len(t) :
    /\ OneCommand(t[k])
    /\ t[k].dir = "read" => k = Len(t)
    /\ t[k].dir = "read" /\ k > 1 => t[k - 1].len < PageSize /\ (t[k].block \/ t[k].len > 0)

RegisterAccess ==
  /\ ~AnyPage
  /\ \A t \in Transfers : Simple(t)
  /\ \A count \in Counts : count > BlockMax \/ count + 2 <= BlockMax

-----------------------------------------------------------------------------
(* Properties.                                                               *)

Bytes ==
  LET Addresses == [addr : Devices, dir : {"read", "write"}]
  IN  Addresses \cup [sent : Nat, nth : Nat]
        \cup [from : Addresses, to : Nat, nth : Nat] \cup {NoByte}

\* The variables have their types; there is a current message exactly inside a
\* transfer, and a page of the buffer never holds more than the message left.
TypeOK ==
  /\ msgs \in Transfers \cup {<<>>}
  /\ pc \in {"idle", "wait_free", "msg", "issue", "poll", "next"}
  /\ pc = "idle" <=> msgs = <<>>
  /\ IF pc = "idle" THEN i = 0 ELSE i \in 1 .. Len(msgs)
  /\ left \in Nat
  /\ xfer \in 0 .. RX_PAYLOAD_MAX
  /\ \A k \in DOMAIN buf : buf[k] \in Bytes
  /\ reply \in {"none", "ok", "EINVAL", "EBUSY", "EIO", "ETIMEDOUT"}
  /\ serial \in 0 .. MaxSerial
  /\ page \in {"low", "high"}
  /\ DOMAIN iobuf = Cells /\ \A j \in Cells : iobuf[j] \in Bytes
  /\ cmd # NoCmd => cmd.kind \in {"transmit", "receive", "stop"} /\ cmd.n <= RX_PAYLOAD_MAX
  /\ sts \subseteq {"rx", "tx", "nack"}
  /\ busy \in BOOLEAN

\* A read that succeeds returns the bytes the addressed device sent for it, all
\* of them and in order: none is left over from an earlier command, was sent by
\* another device or to a write, or was never received.
ReadReturnsOwnData ==
  pc = "next" /\ Msg.dir = "read" =>
    /\ ~Msg.block => Len(buf) = Msg.len
    /\ \A k \in DOMAIN buf : buf[k] = Answer(AddrByte(Msg), serial, k)

\* A write that succeeds has delivered its payload to the addressed device, once
\* and in order.
WriteDelivered ==
  pc = "next" /\ Msg.dir = "write" =>
    inbox = [k \in 1..Msg.len |-> [to |-> AddrByte(Msg), byte |-> Payload(serial, k)]]

\* When a poll reports that a command is done the controller has ended it: the
\* buffer is never refilled, and no other command given, while it still runs.
PolledTillDone == pc \in {"issue", "next"} => cmd = NoCmd

\* The bus is held from the first message of a transfer to the last, so that no
\* other master can come between them, and is free when the transfer succeeds; and
\* no command is given over one that still runs, as PolledTillDone says.
HeldForTransfer ==
  /\ PolledTillDone
  /\ pc \in {"msg", "issue"} /\ i > 1 => busy
  /\ pc = "idle" /\ reply = "ok" => ~busy

\* A controller that does not answer, or a bus that stays busy, costs a transfer
\* an error and never its return.
TransferReturns == pc # "idle" ~> pc = "idle"
=============================================================================
