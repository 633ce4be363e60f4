----------------------------- MODULE SpiMaster -----------------------------
(***************************************************************************)
(* The SPI master driver (fboss_iob_spi.c).  The SPI core hands it one      *)
(* message at a time: chip select, transfer_one for each of its transfers   *)
(* until one fails, chip select.  A transfer is cut into descriptors of at  *)
(* most MaxXfer bytes, each uploaded, started and polled for.               *)
(*                                                                          *)
(* The controller is in the FPGA and modelled from the registers the driver *)
(* uses.  It clocks the MOSI buffer out and the MISO buffer in, for the     *)
(* device whose chip select is active, and keeps the bits of DESC_STS until *)
(* they are written back.  Nothing aborts a descriptor that outlasts its    *)
(* poll.                                                                    *)
(***************************************************************************)
EXTENDS Integers, Sequences

CONSTANTS
  Messages,   \* the messages that clients of the SPI core send
  MaxXfer,    \* FBIOB_SPI_MAX_XFER_LEN
  Tags,       \* number the messages, modulo Tags, to tell their bytes apart
  SlowEngine, \* may a descriptor outlast the 31 polls?
  NoCmd, NoByte

Transfer == [dir : {"tx", "rx", "both"}, len : Nat \ {0}]

ASSUME ConstantsAssumption ==
  /\ MaxXfer \in Nat \ {0}
  /\ Tags \in Nat \ {0}
  /\ SlowEngine \in BOOLEAN
  /\ \A m \in Messages : m \in Seq(Transfer) /\ m # <<>>
  /\ NoCmd \notin [n : Nat, tag : Nat]

VARIABLES
  msg, i,  \* the message and its current transfer
  pc,      \* where transfer_one is
  ndata,   \* bytes of the current half that are done
  rxbuf,   \* xfer->rx_buf
  reply,   \* the result of the last message
  tag,     \* the number of the message
  clean,   \* history: has this message had an idle controller and no timeout?
  before,  \* history: the bytes of the transfers before the current one
  mosi, miso, \* the I/O buffers
  cmd,     \* the descriptor the controller is working on
  sts,     \* DESC_STS
  cs,      \* DESC_CMD.CS_MAN_ACT
  frame    \* the bytes the device was sent since its chip select

driver == <<msg, i, pc, ndata, rxbuf, reply, tag, clean, before>>
hw == <<mosi, miso, cmd, sts, cs, frame>>
vars == <<driver, hw>>

Cells == 1 .. MaxXfer
Xfer == msg[i]
Payload(k) == [tag |-> tag, xfer |-> i, nth |-> k]
Answer(k) == [tag |-> tag, answer |-> k]

Init ==
  /\ msg = <<>> /\ i = 0
  /\ pc = "idle"
  /\ ndata = 0
  /\ rxbuf = <<>>
  /\ reply = "ok"
  /\ tag = 0
  /\ clean = TRUE /\ before = 0
  /\ mosi = [j \in Cells |-> NoByte] /\ miso = [j \in Cells |-> NoByte]
  /\ cmd = NoCmd
  /\ sts = {}
  /\ cs = FALSE
  /\ frame = <<>>

Goto(where) == pc' = where

-----------------------------------------------------------------------------
(* The SPI core's side of a message.                                         *)

\* fbiob_spi_set_cs; a device takes what follows for a new frame.
SelectChip ==
  /\ cs' = TRUE
  /\ frame' = <<>>

Begin(m) ==
  /\ pc = "idle"
  /\ msg' = m /\ i' = 1
  /\ tag' = (tag + 1) % Tags
  /\ clean' = (cmd = NoCmd) /\ before' = 0
  /\ SelectChip
  /\ Goto("start")
  /\ UNCHANGED <<ndata, rxbuf, reply, mosi, miso, cmd, sts>>

NextTransfer ==
  /\ pc = "next"
  /\ i < Len(msg)
  /\ i' = i + 1
  /\ before' = before + Xfer.len
  /\ Goto("start")
  /\ UNCHANGED <<msg, ndata, rxbuf, reply, tag, clean, hw>>

\* Deselecting the device ends its frame.
End(r) ==
  /\ reply' = r
  /\ cs' = FALSE
  /\ frame' = <<>>
  /\ msg' = <<>> /\ i' = 0
  /\ ndata' = 0 /\ rxbuf' = <<>>
  /\ Goto("idle")

MessageDone ==
  /\ pc = "next"
  /\ i = Len(msg)
  /\ End("ok")
  /\ UNCHANGED <<tag, clean, before, mosi, miso, cmd, sts>>

-----------------------------------------------------------------------------
(* fbiob_spi_xfer_one: what is to be sent, and then what is to be received.   *)

StartTransfer ==
  /\ pc = "start"
  /\ ndata' = 0
  /\ rxbuf' = <<>>
  /\ Goto(IF Xfer.dir = "rx" THEN "rx" ELSE "tx")
  /\ UNCHANGED <<msg, i, reply, tag, clean, before, hw>>

NBytes == IF Xfer.len - ndata < MaxXfer THEN Xfer.len - ndata ELSE MaxXfer

\* Mutant: DESC_STS is cleaned once per transfer.
ClearStatusOnce == sts' = IF ndata = 0 THEN {} ELSE sts

ClearStatus == sts' = {}

\* fbiob_spi_send_cmd: a full buffer is 0 in the length field.  A descriptor
\* written over one that still runs may replace it or be lost.
SendCmd ==
  LET field == NBytes % MaxXfer
      new == [n |-> IF field = 0 THEN MaxXfer ELSE field, tag |-> tag]
  IN  cmd' = new \/ (cmd # NoCmd /\ cmd' = cmd)

\* Mutant: each descriptor sends from the start of tx_buf.
SendTxFromStart ==
  /\ pc = "tx"
  /\ ClearStatus
  /\ mosi' = [j \in Cells |-> IF j <= NBytes THEN Payload(j) ELSE mosi[j]]
  /\ SendCmd
  /\ Goto("poll_tx")
  /\ UNCHANGED <<msg, i, ndata, rxbuf, reply, tag, clean, before, miso, cs, frame>>

SendTx ==
  /\ pc = "tx"
  /\ ClearStatus
  /\ mosi' = [j \in Cells |-> IF j <= NBytes THEN Payload(ndata + j) ELSE mosi[j]]
  /\ SendCmd
  /\ Goto("poll_tx")
  /\ UNCHANGED <<msg, i, ndata, rxbuf, reply, tag, clean, before, miso, cs, frame>>

SendRx ==
  /\ pc = "rx"
  /\ ClearStatus
  /\ SendCmd
  /\ Goto("poll_rx")
  /\ UNCHANGED <<msg, i, ndata, rxbuf, reply, tag, clean, before, mosi, miso, cs, frame>>

\* Mutant: DONE is looked at before ERR.
PollDoneFirst ==
  {r \in {"ok", "EIO", "ETIMEDOUT"} :
     \/ "done" \in sts /\ r = "ok"
     \/ "done" \notin sts /\ "err" \in sts /\ r = "EIO"
     \/ sts = {} /\ (SlowEngine \/ cmd = NoCmd) /\ r = "ETIMEDOUT"}

\* Mutant: the poll has no bound.
PollForever ==
  {r \in {"ok", "EIO"} :
     \/ "err" \in sts /\ r = "EIO"
     \/ "err" \notin sts /\ "done" \in sts /\ r = "ok"}

\* wait_till_xfer_done
Poll ==
  {r \in {"ok", "EIO", "ETIMEDOUT"} :
     \/ "err" \in sts /\ r = "EIO"
     \/ "err" \notin sts /\ "done" \in sts /\ r = "ok"
     \/ sts = {} /\ (SlowEngine \/ cmd = NoCmd) /\ r = "ETIMEDOUT"}

\* Mutant: one descriptor too many.
TxDoneOffByOne ==
  /\ pc = "poll_tx"
  /\ "ok" \in Poll
  /\ IF ndata + NBytes <= Xfer.len
     THEN ndata' = ndata + NBytes /\ Goto("tx")
     ELSE ndata' = 0 /\ Goto(IF Xfer.dir = "both" THEN "rx" ELSE "next")
  /\ UNCHANGED <<msg, i, rxbuf, reply, tag, clean, before, hw>>

TxDone ==
  /\ pc = "poll_tx"
  /\ "ok" \in Poll
  /\ IF ndata + NBytes < Xfer.len
     THEN ndata' = ndata + NBytes /\ Goto("tx")
     ELSE ndata' = 0 /\ Goto(IF Xfer.dir = "both" THEN "rx" ELSE "next")
  /\ UNCHANGED <<msg, i, rxbuf, reply, tag, clean, before, hw>>

\* ret of the first half is overwritten by the second.
TxFails ==
  /\ pc = "poll_tx"
  /\ \E r \in Poll \ {"ok"} :
       /\ clean' = (clean /\ r # "ETIMEDOUT")
       /\ \/ /\ Xfer.dir = "both"
             /\ ndata' = 0
             /\ Goto("rx")
             /\ UNCHANGED <<msg, i, rxbuf, reply, cs, frame>>
          \/ /\ Xfer.dir = "tx"
             /\ End(r)
  /\ UNCHANGED <<tag, before, mosi, miso, cmd, sts>>

RxDone ==
  /\ pc = "poll_rx"
  /\ "ok" \in Poll
  /\ rxbuf' = rxbuf \o SubSeq(miso, 1, NBytes)
  /\ ndata' = ndata + NBytes
  /\ Goto(IF ndata' < Xfer.len THEN "rx" ELSE "next")
  /\ UNCHANGED <<msg, i, reply, tag, clean, before, hw>>

RxFails ==
  /\ pc = "poll_rx"
  /\ \E r \in Poll \ {"ok"} : End(r) /\ clean' = (clean /\ r # "ETIMEDOUT")
  /\ UNCHANGED <<tag, before, mosi, miso, cmd, sts>>

-----------------------------------------------------------------------------
(* The controller.                                                           *)

\* A device that is not selected neither hears nor answers.
EngineRuns ==
  /\ cmd # NoCmd
  /\ frame' = IF cs THEN frame \o SubSeq(mosi, 1, cmd.n) ELSE frame
  /\ miso' = [j \in Cells |->
                CASE j > cmd.n      -> miso[j]
                  [] j <= cmd.n /\ cs -> [tag |-> cmd.tag, answer |-> Len(frame) + j]
                  [] OTHER          -> NoByte]
  /\ sts' = sts \cup {"done"}
  /\ cmd' = NoCmd
  /\ UNCHANGED <<driver, mosi, cs>>

EngineFails ==
  /\ cmd # NoCmd
  /\ sts' \in {sts \cup {"err"}, sts \cup {"err", "done"}}
  /\ cmd' = NoCmd
  /\ UNCHANGED <<driver, mosi, miso, cs, frame>>

-----------------------------------------------------------------------------
Advance ==
  \/ NextTransfer \/ MessageDone
  \/ StartTransfer \/ SendTx \/ SendRx \/ TxDone \/ TxFails \/ RxDone \/ RxFails

Engine == EngineRuns \/ EngineFails

Next ==
  \/ \E m \in Messages : Begin(m)
  \/ Advance
  \/ Engine

Spec == Init /\ [][Next]_vars

\* The driver only polls and sleeps.  Nothing is asked of the controller.
FairSpec == Spec /\ WF_vars(Advance)

-----------------------------------------------------------------------------
(* Properties.                                                               *)

\* The variables have their types, and chip select is active inside a message.
TypeOK ==
  /\ msg \in Messages \cup {<<>>}
  /\ pc \in {"idle", "start", "tx", "rx", "poll_tx", "poll_rx", "next"}
  /\ pc # "idle" => i \in DOMAIN msg
  /\ pc \in {"tx", "rx", "poll_tx", "poll_rx"} => ndata \in 0 .. Xfer.len - 1
  /\ reply \in {"ok", "EIO", "ETIMEDOUT"}
  /\ tag \in 0 .. Tags - 1
  /\ clean \in BOOLEAN /\ before \in Nat
  /\ DOMAIN mosi = Cells /\ DOMAIN miso = Cells
  /\ cmd # NoCmd => cmd.n \in Cells /\ cmd.tag \in 0 .. Tags - 1
  /\ sts \subseteq {"done", "err"}
  /\ cs = (pc # "idle")

OneWay == \A k \in DOMAIN msg : msg[k].dir # "both"

\* In a message that begins on an idle controller, a transfer that succeeds has its
\* place in the frame, byte for byte across the descriptors and right after the
\* transfers before it: it has received what the device sends there, and nothing
\* that an earlier descriptor left in the buffer, or sent its bytes there, each once
\* and in order.
BytesInPlace ==
  clean /\ OneWay /\ pc = "next" =>
    IF Xfer.dir = "rx" THEN rxbuf = [k \in 1 .. Xfer.len |-> Answer(before + k)]
    ELSE frame = SubSeq(frame, 1, before) \o [k \in 1 .. Xfer.len |-> Payload(k)]

\* Unless a poll gives up, a descriptor does not outlive the transfer that started
\* it, so that the chip select is not released under it and the buffers not reused.
DescriptorsEnd == clean /\ cmd # NoCmd => pc \in {"poll_tx", "poll_rx"}

\* The error of a descriptor becomes that of its message, whatever the controller
\* reports with it.
ErrorsSurface ==
  [][OneWay /\ "err" \in sts /\ pc \in {"poll_tx", "poll_rx"} /\ pc' # pc
       => pc' = "idle" /\ reply' = "EIO"]_vars

\* Every message gets its result, whether or not the controller ever answers.
MessageReturns == pc # "idle" ~> pc = "idle"
=============================================================================
