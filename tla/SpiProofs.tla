------------------------------ MODULE SpiProofs ------------------------------
(***************************************************************************)
(* Proofs about SpiMaster, for descriptors of any size, any messages and    *)
(* any controller.                                                          *)
(***************************************************************************)
EXTENDS SpiMaster, SequenceTheorems, TLAPS

Out == [tag : Nat, xfer : Nat, nth : Nat] \cup {NoByte}
In == [tag : Nat, answer : Nat] \cup {NoByte}
Commands == [n : Cells, tag : 0 .. Tags - 1]
Polling == {"poll_tx", "poll_rx"}

MessageTypes ==
  /\ pc \in {"idle", "start", "tx", "rx", "poll_tx", "poll_rx", "next"}
  /\ IF pc = "idle" THEN msg = <<>> /\ i = 0 ELSE msg \in Messages /\ i \in 1 .. Len(msg)
  /\ pc \in {"tx", "poll_tx"} => Xfer.dir # "rx"
  /\ pc \in {"rx", "poll_rx"} => Xfer.dir # "tx"
  /\ pc \in {"tx", "rx", "poll_tx", "poll_rx"} => ndata \in 0 .. Xfer.len - 1
  /\ cs \in BOOLEAN /\ (cs <=> pc # "idle")

DataTypes ==
  /\ reply \in {"ok", "EIO", "ETIMEDOUT"}
  /\ tag \in 0 .. Tags - 1
  /\ clean \in BOOLEAN /\ before \in Nat
  /\ \A k \in Cells : mosi[k] \in Out /\ miso[k] \in In
  /\ DOMAIN mosi = Cells /\ DOMAIN miso = Cells
  /\ frame \in Seq(Out) /\ rxbuf \in Seq(In)
  /\ cmd \in Commands \cup {NoCmd}
  /\ sts \subseteq {"done", "err"}

Ended ==
  clean =>
    IF pc \in Polling
    THEN IF cmd = NoCmd THEN sts # {} ELSE sts = {} /\ cmd = [n |-> NBytes, tag |-> tag]
    ELSE cmd = NoCmd

Sent(n) == Len(frame) = before + n /\ \A k \in 1 .. n : frame[before + k] = Payload(k)
Got(n) == Len(rxbuf) = n /\ \A k \in 1 .. n : rxbuf[k] = Answer(before + k)

Sending ==
  /\ pc = "tx" => Sent(ndata)
  /\ pc = "poll_tx" =>
       IF cmd # NoCmd THEN Sent(ndata) /\ \A k \in 1 .. NBytes : mosi[k] = Payload(ndata + k)
       ELSE "err" \in sts \/ Sent(ndata + NBytes)

Receiving ==
  /\ pc = "rx" => Len(frame) = before + ndata /\ Got(ndata)
  /\ pc = "poll_rx" =>
       /\ Got(ndata)
       /\ IF cmd # NoCmd THEN Len(frame) = before + ndata
          ELSE \/ "err" \in sts
               \/ /\ Len(frame) = before + ndata + NBytes
                  /\ \A k \in 1 .. NBytes : miso[k] = Answer(before + ndata + k)

Placed ==
  clean /\ OneWay =>
    /\ pc = "start" => Len(frame) = before
    /\ Sending
    /\ Receiving
    /\ pc = "next" =>
         /\ Len(frame) = before + Xfer.len
         /\ IF Xfer.dir = "rx" THEN Got(Xfer.len) ELSE Sent(Xfer.len)

Inv == MessageTypes /\ DataTypes /\ Ended /\ Placed

LEMMA Constants ==
  /\ MaxXfer \in Nat /\ MaxXfer > 0 /\ Tags \in Nat /\ Tags > 0
  /\ Cells = 1 .. MaxXfer
  /\ \A m \in Messages : m \in Seq(Transfer) /\ Len(m) \in Nat /\ Len(m) > 0
  /\ NoCmd \notin Commands
  /\ <<>> \in Seq(Out) /\ <<>> \in Seq(In) /\ Len(<<>>) = 0
<1>1. \A m \in Messages : m \in Seq(Transfer) /\ Len(m) \in Nat /\ Len(m) > 0
  <2>1. SUFFICES ASSUME NEW m \in Messages
                 PROVE  m \in Seq(Transfer) /\ Len(m) \in Nat /\ Len(m) > 0
    OBVIOUS
  <2>2. m \in Seq(Transfer) /\ m # <<>>
    BY ConstantsAssumption
  <2>3. QED
    BY <2>2, EmptySeq
<1>2. <<>> \in Seq(Out) /\ <<>> \in Seq(In) /\ Len(<<>>) = 0
  BY EmptySeq
<1>3. NoCmd \notin Commands
  BY ConstantsAssumption DEF Commands, Cells
<1>4. QED
  BY <1>1, <1>2, <1>3, ConstantsAssumption DEF Cells

\* What is known of the current transfer and the descriptor it is about to send.
LEMMA Current ==
  ASSUME MessageTypes, pc # "idle"
  PROVE  /\ msg \in Messages /\ i \in Nat /\ i >= 1 /\ i <= Len(msg) /\ Len(msg) \in Nat
         /\ DOMAIN msg = 1 .. Len(msg)
         /\ Xfer \in Transfer /\ Xfer.dir \in {"tx", "rx", "both"}
         /\ Xfer.len \in Nat /\ Xfer.len > 0
<1>1. msg \in Messages /\ msg \in Seq(Transfer) /\ i \in 1 .. Len(msg) /\ Len(msg) \in Nat
  BY Constants DEF MessageTypes
<1>2. Xfer \in Transfer
  BY <1>1, ElementOfSeq DEF Xfer
<1>3. QED
  BY <1>1, <1>2, LenProperties DEF Transfer

LEMMA Descriptor ==
  ASSUME MessageTypes, pc \in {"tx", "rx", "poll_tx", "poll_rx"}
  PROVE  /\ NBytes \in Cells /\ NBytes \in Nat /\ NBytes >= 1 /\ NBytes <= MaxXfer
         /\ ndata \in Nat /\ ndata < Xfer.len /\ ndata + NBytes <= Xfer.len
         /\ ndata + NBytes < Xfer.len => ndata + NBytes \in 0 .. Xfer.len - 1
         /\ ~(ndata + NBytes < Xfer.len) => ndata + NBytes = Xfer.len
<1>1. /\ Xfer.len \in Nat /\ ndata \in 0 .. Xfer.len - 1
  BY Current DEF MessageTypes
<1>2. QED
  BY <1>1, Constants DEF NBytes

LEMMA FullBufferIsZero ==
  ASSUME NEW m \in Nat, m > 0, NEW x \in 1 .. m
  PROVE  (IF x % m = 0 THEN m ELSE x % m) = x
BY SMTT(30)

\* The descriptor that the driver writes covers NBytes.
LEMMA WrittenDescriptor ==
  ASSUME MessageTypes, DataTypes, pc \in {"tx", "rx"}, SendCmd
  PROVE  /\ cmd' \in Commands \cup {NoCmd} /\ cmd' # NoCmd
         /\ cmd = NoCmd => cmd' = [n |-> NBytes, tag |-> tag]
<1>1. NBytes \in Cells /\ NBytes \in 1 .. MaxXfer
  BY Descriptor, Constants
<1>2. (IF NBytes % MaxXfer = 0 THEN MaxXfer ELSE NBytes % MaxXfer) = NBytes
  BY <1>1, Constants, FullBufferIsZero
<1>3. [n |-> NBytes, tag |-> tag] \in Commands
  BY <1>1 DEF DataTypes, Commands
<1>4. cmd' = [n |-> NBytes, tag |-> tag] \/ (cmd # NoCmd /\ cmd' = cmd)
  BY <1>2 DEF SendCmd
<1>5. QED
  BY <1>3, <1>4, Constants DEF DataTypes

LEMMA InitInv == Init => Inv
<1>1. Init => MessageTypes
  BY DEF Init, MessageTypes
<1>2. Init => DataTypes
  BY Constants DEF Init, DataTypes, Out, In
<1>3. Init => Ended /\ Placed
  BY DEF Init, Ended, Placed, Sending, Receiving, Polling
<1>4. QED
  BY <1>1, <1>2, <1>3 DEF Inv

\* A step after which the message has its result.
LEMMA EndStep ==
  ASSUME Inv, NEW r \in {"ok", "EIO", "ETIMEDOUT"}, End(r), pc # "idle",
         UNCHANGED <<tag, before, mosi, miso, cmd, sts>>,
         clean' \in BOOLEAN, clean' => clean /\ cmd = NoCmd
  PROVE  Inv'
<1> USE DEF Inv, End, Goto
<1>1. MessageTypes'
  BY DEF MessageTypes
<1>2. DataTypes'
  BY Constants DEF DataTypes
<1>3. Ended'
  BY DEF Ended, Polling
<1>4. Placed'
  BY DEF Placed, Sending, Receiving
<1>5. QED
  BY <1>1, <1>2, <1>3, <1>4

LEMMA MessageSteps ==
  ASSUME Inv, (\E m \in Messages : Begin(m)) \/ NextTransfer \/ MessageDone \/ StartTransfer
  PROVE  Inv'
<1> USE DEF Inv, Goto, hw
<1>1. CASE \E m \in Messages : Begin(m)
  <2>1. PICK m \in Messages : Begin(m)
    BY <1>1
  <2>2. Len(m) \in Nat /\ Len(m) > 0 /\ 1 \in 1 .. Len(m)
    BY Constants
  <2>3. MessageTypes'
    BY <2>1, <2>2 DEF Begin, SelectChip, MessageTypes
  <2>4. tag' \in 0 .. Tags - 1
    BY <2>1, Constants DEF Begin, DataTypes
  <2>5. DataTypes'
    BY <2>1, <2>4, Constants DEF Begin, SelectChip, DataTypes
  <2>6. Ended'
    BY <2>1 DEF Begin, Ended, Polling
  <2>7. Placed'
    BY <2>1, Constants DEF Begin, SelectChip, Placed, Sending, Receiving
  <2>8. QED
    BY <2>3, <2>5, <2>6, <2>7
<1>2. CASE NextTransfer
  <2>1. pc # "idle"
    BY <1>2 DEF NextTransfer
  <2>2. MessageTypes'
    BY <1>2, <2>1, Current DEF NextTransfer, MessageTypes
  <2>3. DataTypes'
    BY <1>2, <2>1, Current DEF NextTransfer, DataTypes
  <2>4. Ended'
    BY <1>2 DEF NextTransfer, Ended, Polling
  <2>5. Placed'
    BY <1>2 DEF NextTransfer, Placed, Sending, Receiving, OneWay, Sent
  <2>6. QED
    BY <2>2, <2>3, <2>4, <2>5
<1>3. CASE MessageDone
  BY <1>3, EndStep DEF MessageDone, Ended, Polling, DataTypes
<1>4. CASE StartTransfer
  <2>1. pc # "idle"
    BY <1>4 DEF StartTransfer
  <2>2. Xfer' = Xfer /\ 0 \in 0 .. Xfer.len - 1
    BY <1>4, <2>1, Current DEF StartTransfer, Xfer
  <2>3. MessageTypes'
    BY <1>4, <2>1, <2>2, Current DEF StartTransfer, MessageTypes
  <2>4. DataTypes'
    BY <1>4, Constants DEF StartTransfer, DataTypes
  <2>5. Ended'
    BY <1>4 DEF StartTransfer, Ended, Polling
  <2>6. Placed'
    BY <1>4, Constants DEF StartTransfer, Placed, Sending, Receiving, OneWay, Sent, Got, DataTypes
  <2>7. QED
    BY <2>3, <2>4, <2>5, <2>6
<1>5. QED
  BY <1>1, <1>2, <1>3, <1>4

LEMMA SendSteps ==
  ASSUME Inv, SendTx \/ SendRx
  PROVE  Inv'
<1> USE DEF Inv, Goto
<1>1. pc \in {"tx", "rx"} /\ pc # "idle" /\ SendCmd /\ sts' = {}
  BY DEF SendTx, SendRx, ClearStatus
<1>2. UNCHANGED <<msg, i, ndata, rxbuf, reply, tag, clean, before, miso, cs, frame>>
  BY DEF SendTx, SendRx
<1>3. Xfer' = Xfer /\ NBytes' = NBytes /\ OneWay' = OneWay
  BY <1>2 DEF Xfer, NBytes, OneWay
<1>4. MessageTypes'
  BY <1>2, <1>3 DEF SendTx, SendRx, MessageTypes
<1>5. /\ cmd' \in Commands \cup {NoCmd} /\ cmd' # NoCmd
      /\ cmd = NoCmd => cmd' = [n |-> NBytes, tag |-> tag]
  BY <1>1, WrittenDescriptor
<1>6. DataTypes'
  <2>1. CASE SendRx
    BY <1>1, <1>2, <1>5, <2>1 DEF SendRx, DataTypes
  <2>2. CASE SendTx
    <3>1. NBytes \in Nat /\ NBytes <= MaxXfer /\ ndata \in Nat /\ i \in Nat /\ tag \in Nat
      BY <1>1, Descriptor, Current, Constants DEF DataTypes
    <3>2. \A k \in Cells : Payload(ndata + k) \in Out
      BY <3>1, Constants DEF Payload, Out
    <3>3. DOMAIN mosi' = Cells /\ \A k \in Cells : mosi'[k] \in Out
      BY <2>2, <3>2 DEF SendTx, DataTypes
    <3>4. QED
      BY <1>1, <1>2, <1>5, <3>3 DEF DataTypes
  <2>3. QED
    BY <2>1, <2>2
<1>7. Ended'
  BY <1>1, <1>2, <1>3, <1>5 DEF SendTx, SendRx, Ended, Polling
<1>8. Placed'
  <2>1. SUFFICES ASSUME clean, OneWay
                 PROVE  (Sending /\ Receiving)' /\ pc' # "start" /\ pc' # "next"
    BY <1>2, <1>3 DEF Placed
  <2>2. CASE SendTx
    <3>1. Sent(ndata)' /\ pc' = "poll_tx"
      BY <1>2, <2>1, <2>2 DEF SendTx, Placed, Sending, Sent, Payload
    <3>2. NBytes \in Nat /\ NBytes <= MaxXfer
      BY <1>1, Descriptor, Constants
    <3>3. \A k \in 1 .. NBytes' : mosi'[k] = Payload(ndata + k)'
      BY <1>2, <1>3, <2>2, <3>2, Constants DEF SendTx, Payload
    <3>4. QED
      BY <1>5, <3>1, <3>3 DEF Sending, Receiving
  <2>3. CASE SendRx
    BY <1>2, <1>5, <2>1, <2>3 DEF SendRx, Placed, Sending, Receiving, Got, Answer
  <2>4. QED
    BY <2>2, <2>3
<1>9. QED
  BY <1>4, <1>6, <1>7, <1>8

\* What the driver makes of the end of a descriptor.
LEMMA Polled ==
  ASSUME DataTypes, Ended, pc \in Polling
  PROVE  /\ Poll \subseteq {"ok", "EIO", "ETIMEDOUT"}
         /\ "ok" \in Poll => "err" \notin sts /\ "done" \in sts
         /\ clean /\ "ok" \in Poll => cmd = NoCmd
         /\ \A r \in Poll : clean /\ r # "ETIMEDOUT" => cmd = NoCmd
BY DEF Poll, Ended, DataTypes

LEMMA TxSteps ==
  ASSUME Inv, TxDone \/ TxFails
  PROVE  Inv'
<1> USE DEF Inv, Goto, hw
<1>1. pc = "poll_tx" /\ pc \in Polling /\ Xfer.dir # "rx"
  BY DEF TxDone, TxFails, MessageTypes, Polling
<1>2. CASE TxDone
  <2>1. UNCHANGED <<msg, i, rxbuf, reply, tag, clean, before, hw>> /\ "ok" \in Poll
    BY <1>2 DEF TxDone
  <2>2. Xfer' = Xfer /\ OneWay' = OneWay
    BY <2>1 DEF Xfer, OneWay
  <2>3. MessageTypes'
    BY <1>1, <1>2, <2>1, <2>2, Descriptor, Current DEF TxDone, MessageTypes
  <2>4. DataTypes'
    BY <2>1 DEF DataTypes
  <2>5. Ended'
    BY <1>1, <1>2, <2>1, Polled DEF TxDone, Ended, Polling
  <2>6. ASSUME clean, OneWay
        PROVE  Sent(ndata + NBytes) /\ Xfer.dir = "tx"
    <3>1. Sent(ndata + NBytes)
      BY <1>1, <2>1, <2>6, Polled DEF Placed, Sending
    <3>2. Xfer.dir = "tx"
      BY <1>1, <2>6, Current DEF OneWay, Xfer
    <3>3. QED
      BY <3>1, <3>2
  <2>7. Placed'
    <3>1. SUFFICES ASSUME clean, OneWay
                   PROVE  /\ (pc' = "tx" /\ Sent(ndata)') \/ pc' = "next"
                          /\ pc' = "next" =>
                               /\ Len(frame) = before + Xfer.len
                               /\ Sent(Xfer.len)'
      BY <1>1, <2>1, <2>2, <2>6 DEF Placed, Sending, Receiving
    <3>2. CASE ndata + NBytes < Xfer.len
      BY <1>2, <2>1, <2>6, <3>1, <3>2 DEF TxDone, Sent, Payload
    <3>3. CASE ~(ndata + NBytes < Xfer.len)
      BY <1>1, <1>2, <2>1, <2>2, <2>6, <3>1, <3>3, Descriptor DEF TxDone, Sent, Payload
    <3>4. QED
      BY <3>2, <3>3
  <2>8. QED
    BY <2>3, <2>4, <2>5, <2>7
<1>3. CASE TxFails
  <2>1. PICK r \in Poll \ {"ok"} :
          /\ clean' = (clean /\ r # "ETIMEDOUT")
          /\ \/ /\ Xfer.dir = "both"
                /\ ndata' = 0
                /\ pc' = "rx"
                /\ UNCHANGED <<msg, i, rxbuf, reply, cs, frame>>
             \/ /\ Xfer.dir = "tx"
                /\ End(r)
    BY <1>3 DEF TxFails
  <2>2. r \in {"ok", "EIO", "ETIMEDOUT"} /\ clean' \in BOOLEAN /\ (clean' => clean /\ cmd = NoCmd)
    BY <1>1, <2>1, Polled DEF DataTypes
  <2>3. UNCHANGED <<tag, before, mosi, miso, cmd, sts>>
    BY <1>3 DEF TxFails
  <2>4. CASE Xfer.dir = "tx"
    BY <1>1, <2>1, <2>2, <2>3, <2>4, EndStep
  <2>5. CASE Xfer.dir = "both"
    <3>1. /\ ndata' = 0 /\ pc' = "rx" /\ UNCHANGED <<msg, i, rxbuf, reply, cs, frame>>
      BY <2>1, <2>5
    <3>2. Xfer' = Xfer /\ 0 \in 0 .. Xfer.len - 1
      BY <1>1, <3>1, Current DEF Xfer
    <3>3. MessageTypes'
      BY <1>1, <2>5, <3>1, <3>2 DEF MessageTypes
    <3>4. DataTypes'
      BY <2>2, <2>3, <3>1 DEF DataTypes
    <3>5. Ended'
      BY <2>2, <2>3, <3>1 DEF Ended, Polling
    <3>6. ~OneWay /\ OneWay' = OneWay
      BY <1>1, <2>5, <3>1, Current DEF OneWay, Xfer
    <3>7. QED
      BY <3>3, <3>4, <3>5, <3>6 DEF Placed
  <2>6. QED
    BY <1>1, <2>4, <2>5, Current
<1>4. QED
  BY <1>2, <1>3

LEMMA RxSteps ==
  ASSUME Inv, RxDone \/ RxFails
  PROVE  Inv'
<1> USE DEF Inv, Goto, hw
<1>1. pc = "poll_rx" /\ pc \in Polling /\ Xfer.dir # "tx"
  BY DEF RxDone, RxFails, MessageTypes, Polling
<1>2. CASE RxDone
  <2>1. /\ UNCHANGED <<msg, i, reply, tag, clean, before, hw>> /\ "ok" \in Poll
        /\ rxbuf' = rxbuf \o SubSeq(miso, 1, NBytes) /\ ndata' = ndata + NBytes
        /\ pc' = IF ndata' < Xfer.len THEN "rx" ELSE "next"
    BY <1>2 DEF RxDone
  <2>2. Xfer' = Xfer /\ OneWay' = OneWay
    BY <2>1 DEF Xfer, OneWay
  <2>3. MessageTypes'
    BY <1>1, <2>1, <2>2, Descriptor, Current DEF MessageTypes
  <2>4. /\ SubSeq(miso, 1, NBytes) \in Seq(In) /\ Len(SubSeq(miso, 1, NBytes)) = NBytes
        /\ \A k \in 1 .. NBytes : SubSeq(miso, 1, NBytes)[k] = miso[k]
    <3>1. NBytes \in Int /\ NBytes >= 1 /\ \A k \in 1 .. NBytes : miso[k] \in In
      BY <1>1, Descriptor, Constants DEF DataTypes
    <3>2. QED
      BY <3>1, SubSeqProperties
  <2>5. /\ rxbuf' \in Seq(In) /\ Len(rxbuf') = Len(rxbuf) + NBytes
        /\ \A k \in 1 .. Len(rxbuf) + NBytes :
             rxbuf'[k] = IF k <= Len(rxbuf) THEN rxbuf[k] ELSE SubSeq(miso, 1, NBytes)[k - Len(rxbuf)]
    BY <2>1, <2>4, ConcatProperties DEF DataTypes
  <2>6. DataTypes'
    BY <2>1, <2>5 DEF DataTypes
  <2>7. Ended'
    BY <1>1, <2>1, Polled DEF Ended, Polling
  <2>8. Placed'
    <3>1. SUFFICES ASSUME clean, OneWay
                   PROVE  /\ Got(ndata)' /\ Len(frame') = before + ndata'
                          /\ Xfer.dir = "rx" /\ (pc' = "next" => ndata' = Xfer.len)
      BY <1>1, <2>1, <2>2 DEF Placed, Sending, Receiving
    <3>2. /\ Got(ndata) /\ Len(frame) = before + ndata + NBytes
          /\ \A k \in 1 .. NBytes : miso[k] = Answer(before + ndata + k)
      BY <1>1, <2>1, <3>1, Polled DEF Placed, Receiving
    <3>3. Xfer.dir = "rx" /\ (pc' = "next" => ndata' = Xfer.len)
      BY <1>1, <2>1, <3>1, Current, Descriptor DEF OneWay, Xfer
    <3>4. ndata \in Nat /\ NBytes \in Nat /\ before \in Nat /\ tag' = tag /\ before' = before
      BY <1>1, <2>1, Descriptor DEF DataTypes
    <3>5. \A k \in 1 .. ndata + NBytes : rxbuf'[k] = Answer(before + k)
      <4>1. TAKE k \in 1 .. ndata + NBytes
      <4>2. k \in Nat /\ Len(rxbuf) = ndata /\ k \in 1 .. Len(rxbuf) + NBytes
        BY <3>2, <3>4 DEF Got
      <4>3. CASE k <= ndata
        BY <2>5, <3>2, <4>2, <4>3 DEF Got
      <4>4. CASE k > ndata
        <5>1. k - ndata \in 1 .. NBytes /\ before + ndata + (k - ndata) = before + k
          BY <3>4, <4>2, <4>4
        <5>2. rxbuf'[k] = miso[k - ndata]
          BY <2>4, <2>5, <3>4, <4>2, <4>4, <5>1
        <5>3. QED
          BY <3>2, <5>1, <5>2
      <4>5. QED
        BY <3>4, <4>2, <4>3, <4>4
    <3>6. Got(ndata)' /\ Len(frame') = before + ndata'
      BY <2>1, <2>5, <3>2, <3>4, <3>5 DEF Got, Answer
    <3>7. QED
      BY <3>3, <3>6
  <2>9. QED
    BY <2>3, <2>6, <2>7, <2>8
<1>3. CASE RxFails
  <2>1. PICK r \in Poll \ {"ok"} : End(r) /\ clean' = (clean /\ r # "ETIMEDOUT")
    BY <1>3 DEF RxFails
  <2>2. r \in {"ok", "EIO", "ETIMEDOUT"} /\ clean' \in BOOLEAN /\ (clean' => clean /\ cmd = NoCmd)
    BY <1>1, <2>1, Polled DEF DataTypes
  <2>3. UNCHANGED <<tag, before, mosi, miso, cmd, sts>>
    BY <1>3 DEF RxFails
  <2>4. QED
    BY <1>1, <2>1, <2>2, <2>3, EndStep
<1>4. QED
  BY <1>2, <1>3

\* The controller touches nothing of the driver.
LEMMA EngineFrame ==
  ASSUME Inv, UNCHANGED driver, UNCHANGED cs
  PROVE  /\ MessageTypes' /\ Xfer' = Xfer /\ NBytes' = NBytes /\ OneWay' = OneWay
<1>1. Xfer' = Xfer /\ NBytes' = NBytes /\ OneWay' = OneWay
  BY DEF driver, Xfer, NBytes, OneWay
<1>2. MessageTypes'
  BY <1>1 DEF Inv, driver, MessageTypes
<1>3. QED
  BY <1>1, <1>2

LEMMA EngineSteps ==
  ASSUME Inv, Engine
  PROVE  Inv'
<1> USE DEF Inv
<1>1. cmd \in Commands /\ cmd' = NoCmd /\ UNCHANGED <<driver, mosi, cs>>
  BY DEF Engine, EngineRuns, EngineFails, DataTypes
<1>2. MessageTypes' /\ Xfer' = Xfer /\ NBytes' = NBytes /\ OneWay' = OneWay
  BY <1>1, EngineFrame
<1>3. /\ clean => pc \in Polling /\ cmd = [n |-> NBytes, tag |-> tag]
      /\ UNCHANGED <<pc, clean, tag, i, before, ndata, rxbuf, reply, msg>>
  BY <1>1, Constants DEF Ended, driver, Commands
<1>4. Ended'
  BY <1>1, <1>3 DEF Engine, EngineRuns, EngineFails, Ended
<1>5. CASE EngineFails
  <2>1. DataTypes'
    BY <1>1, <1>3, <1>5 DEF EngineFails, DataTypes
  <2>2. UNCHANGED <<miso, frame>> /\ "err" \in sts'
    BY <1>5 DEF EngineFails
  <2>3. Placed'
    BY <1>1, <1>2, <1>3, <2>2, Constants DEF Placed, Sending, Receiving, Sent, Got, Answer, Payload, Polling
  <2>4. QED
    BY <1>2, <1>4, <2>1, <2>3
<1>6. CASE EngineRuns
  <2>1. cmd.n \in Cells /\ cmd.n \in Nat /\ cmd.tag \in Nat /\ Len(frame) \in Nat
    BY <1>1, Constants, LenProperties DEF Commands, DataTypes
  <2>2. /\ SubSeq(mosi, 1, cmd.n) \in Seq(Out) /\ Len(SubSeq(mosi, 1, cmd.n)) = cmd.n
        /\ \A k \in 1 .. cmd.n : SubSeq(mosi, 1, cmd.n)[k] = mosi[k]
    <3>1. cmd.n \in Int /\ cmd.n >= 1 /\ \A k \in 1 .. cmd.n : mosi[k] \in Out
      BY <2>1, Constants DEF DataTypes
    <3>2. QED
      BY <3>1, SubSeqProperties
  <2> DEFINE longer == frame \o SubSeq(mosi, 1, cmd.n)
  <2>3. /\ longer \in Seq(Out) /\ Len(longer) = Len(frame) + cmd.n
        /\ \A k \in 1 .. Len(frame) + cmd.n :
             longer[k] = IF k <= Len(frame) THEN frame[k] ELSE SubSeq(mosi, 1, cmd.n)[k - Len(frame)]
    BY <2>2, ConcatProperties DEF DataTypes
  <2>4. frame' = (IF cs THEN longer ELSE frame) /\ sts' = sts \cup {"done"}
    BY <1>6 DEF EngineRuns
  <2> HIDE DEF longer
  <2>5. /\ DOMAIN miso' = Cells
        /\ \A k \in Cells :
             miso'[k] = CASE k > cmd.n -> miso[k]
                          [] k <= cmd.n /\ cs -> [tag |-> cmd.tag, answer |-> Len(frame) + k]
                          [] OTHER -> NoByte
    BY <1>6 DEF EngineRuns
  <2>6. DataTypes'
    <3>1. \A k \in Cells : miso'[k] \in In
      <4>1. TAKE k \in Cells
      <4>2. miso[k] \in In /\ NoByte \in In /\ [tag |-> cmd.tag, answer |-> Len(frame) + k] \in In
        BY <2>1, Constants DEF DataTypes, In
      <4>3. k \in Nat
        BY Constants
      <4>4. QED
        BY <2>1, <2>5, <4>2, <4>3
    <3>2. QED
      BY <1>1, <1>3, <2>3, <2>4, <2>5, <3>1 DEF DataTypes
  <2>7. Placed'
    <3>1. SUFFICES ASSUME clean, OneWay
                   PROVE  /\ pc = "poll_tx" => Sent(ndata + NBytes)'
                          /\ pc = "poll_rx" =>
                               /\ Got(ndata) /\ Len(frame') = before + ndata + NBytes
                               /\ \A k \in 1 .. NBytes : miso'[k] = Answer(before + ndata + k)
      BY <1>1, <1>2, <1>3 DEF Placed, Sending, Receiving, Got, Sent, Answer, Payload, Polling
    <3>2. cmd.n = NBytes /\ cmd.tag = tag /\ cs /\ frame' = longer /\ before \in Nat
      BY <1>3, <2>4, <3>1 DEF MessageTypes, DataTypes, Polling
    <3>3. pc \in Polling => ndata \in Nat
      BY Descriptor DEF Polling
    <3>4. CASE pc = "poll_tx"
      <4>1. Sent(ndata) /\ \A k \in 1 .. NBytes : mosi[k] = Payload(ndata + k)
        BY <1>1, <3>1, <3>4, Constants DEF Placed, Sending
      <4>2. Len(frame') = before + (ndata + NBytes)
        BY <2>1, <2>3, <3>2, <3>3, <3>4, <4>1 DEF Sent, Polling
      <4>3. \A k \in 1 .. ndata + NBytes : frame'[before + k] = Payload(k)
        <5>1. TAKE k \in 1 .. ndata + NBytes
        <5>2. k \in Nat /\ Len(frame) = before + ndata /\ ndata \in Nat /\ NBytes \in Nat
          BY <2>1, <3>2, <3>3, <3>4, <4>1 DEF Sent, Polling
        <5>3. before + k \in 1 .. Len(frame) + cmd.n
          BY <3>2, <5>2
        <5>4. CASE k <= ndata
          BY <2>3, <3>2, <4>1, <5>2, <5>3, <5>4 DEF Sent
        <5>5. CASE k > ndata
          <6>1. k - ndata \in 1 .. NBytes /\ (before + k) - Len(frame) = k - ndata
                /\ ndata + (k - ndata) = k
            BY <3>2, <5>2, <5>5
          <6>2. frame'[before + k] = mosi[k - ndata]
            BY <2>2, <2>3, <3>2, <5>2, <5>3, <5>5, <6>1
          <6>3. QED
            BY <4>1, <6>1, <6>2
        <5>6. QED
          BY <5>2, <5>4, <5>5
      <4>4. QED
        BY <1>2, <1>3, <3>4, <4>2, <4>3 DEF Sent, Payload
    <3>5. CASE pc = "poll_rx"
      <4>1. Got(ndata) /\ Len(frame) = before + ndata
        BY <1>1, <3>1, <3>5, Constants DEF Placed, Receiving
      <4>2. \A k \in 1 .. NBytes : miso'[k] = Answer(before + ndata + k)
        BY <2>1, <2>5, <3>2, <3>3, <3>5, <4>1, Constants DEF Answer, Polling
      <4>3. QED
        BY <2>1, <2>3, <3>2, <3>3, <3>5, <4>1, <4>2 DEF Polling
    <3>6. QED
      BY <3>4, <3>5
  <2>8. QED
    BY <1>2, <1>4, <2>6, <2>7
<1>7. QED
  BY <1>5, <1>6 DEF Engine

LEMMA StepInv == Inv /\ [Next]_vars => Inv'
<1> SUFFICES ASSUME Inv, [Next]_vars
             PROVE  Inv'
  OBVIOUS
<1>1. CASE Next
  BY <1>1, MessageSteps, SendSteps, TxSteps, RxSteps, EngineSteps DEF Next, Advance
<1>2. CASE UNCHANGED vars
  <2>1. Xfer' = Xfer /\ NBytes' = NBytes /\ OneWay' = OneWay
    BY <1>2 DEF vars, driver, Xfer, NBytes, OneWay
  <2>2. MessageTypes' /\ DataTypes'
    BY <1>2, <2>1 DEF Inv, vars, driver, hw, MessageTypes, DataTypes
  <2>3. Ended'
    BY <1>2, <2>1 DEF Inv, vars, driver, hw, Ended
  <2>4. Placed'
    BY <1>2, <2>1 DEF Inv, vars, driver, hw, Placed, Sending, Receiving, Sent, Got, Answer, Payload
  <2>5. QED
    BY <2>2, <2>3, <2>4 DEF Inv
<1>3. QED
  BY <1>1, <1>2

LEMMA InvCorrect == Spec => []Inv
BY InitInv, StepInv, PTL DEF Spec

\* The variables have their types, and chip select is active inside a message.
THEOREM TypeCorrect == Spec => []TypeOK
<1>1. Inv => TypeOK
  <2> SUFFICES ASSUME Inv
               PROVE  TypeOK
    OBVIOUS
  <2>1. pc # "idle" => i \in DOMAIN msg
    BY Current DEF Inv
  <2>2. msg \in Messages \cup {<<>>}
    BY DEF Inv, MessageTypes
  <2>3. cmd # NoCmd => cmd.n \in Cells /\ cmd.tag \in 0 .. Tags - 1
    BY DEF Inv, DataTypes, Commands
  <2>4. cs = (pc # "idle")
    BY DEF Inv, MessageTypes
  <2>5. QED
    BY <2>1, <2>2, <2>3, <2>4 DEF Inv, MessageTypes, DataTypes, TypeOK
<1>2. QED
  BY <1>1, InvCorrect, PTL

\* Unless a poll gives up, a descriptor does not outlive the transfer that started
\* it.
THEOREM NothingOutlives == Spec => []DescriptorsEnd
<1>1. Inv => DescriptorsEnd
  BY DEF Inv, Ended, Polling, DescriptorsEnd
<1>2. QED
  BY <1>1, InvCorrect, PTL

\* What a transfer that succeeds has sent or received is its own, whole and in
\* its place, whatever the sizes of the buffers and of the transfers before it.
THEOREM TransfersInPlace == Spec => []BytesInPlace
<1>1. Inv => BytesInPlace
  <2> SUFFICES ASSUME Inv, clean, OneWay, pc = "next"
               PROVE  /\ Xfer.dir = "rx" => rxbuf = [k \in 1 .. Xfer.len |-> Answer(before + k)]
                      /\ Xfer.dir # "rx" =>
                           frame = SubSeq(frame, 1, before) \o [k \in 1 .. Xfer.len |-> Payload(k)]
    BY DEF BytesInPlace
  <2>1. /\ Len(frame) = before + Xfer.len
        /\ IF Xfer.dir = "rx" THEN Got(Xfer.len) ELSE Sent(Xfer.len)
    BY DEF Inv, Placed
  <2>2. /\ frame \in Seq(Out) /\ rxbuf \in Seq(In) /\ before \in Nat
        /\ Xfer.len \in Nat /\ tag \in Nat /\ i \in Nat
    BY Current, Constants DEF Inv, DataTypes
  <2>3. CASE Xfer.dir = "rx"
    BY <2>1, <2>2, <2>3, LenProperties DEF Got
  <2>4. CASE Xfer.dir # "rx"
    <3> DEFINE first == SubSeq(frame, 1, before)
               last == [k \in 1 .. Xfer.len |-> Payload(k)]
    <3>1. /\ first \in Seq(Out) /\ Len(first) = before
          /\ \A k \in 1 .. before : first[k] = frame[k]
      <4>1. \A k \in 1 .. before : frame[k] \in Out
        BY <2>1, <2>2, ElementOfSeq
      <4>2. before \in Int
        BY <2>2
      <4>3. QED
        BY <2>2, <4>1, <4>2, SubSeqProperties
    <3>2. last \in Seq(Out) /\ Len(last) = Xfer.len /\ \A k \in 1 .. Xfer.len : last[k] = Payload(k)
      <4>1. \A k \in 1 .. Xfer.len : Payload(k) \in Out
        BY <2>2 DEF Payload, Out
      <4>2. last \in Seq(Out)
        <5> HIDE DEF Out, Payload
        <5>1. QED
          BY <2>2, <4>1, IsASeq
      <4>3. QED
        BY <2>2, <4>2, LenProperties
    <3> HIDE DEF first, last
    <3>3. /\ first \o last \in Seq(Out) /\ Len(first \o last) = before + Xfer.len
          /\ \A k \in 1 .. before + Xfer.len :
               (first \o last)[k] = IF k <= before THEN first[k] ELSE last[k - before]
      <4>1. /\ first \o last \in Seq(Out) /\ Len(first \o last) = Len(first) + Len(last)
            /\ \A k \in 1 .. Len(first) + Len(last) :
                 (first \o last)[k] = IF k <= Len(first) THEN first[k] ELSE last[k - Len(first)]
        BY <3>1, <3>2, ConcatProperties
      <4>2. QED
        BY <3>1, <3>2, <4>1
    <3>4. \A k \in 1 .. Len(frame) : frame[k] = (first \o last)[k]
      <4>1. TAKE k \in 1 .. Len(frame)
      <4>2. k \in Nat /\ k >= 1 /\ k <= before + Xfer.len
        BY <2>1, <2>2
      <4>3. (first \o last)[k] = IF k <= before THEN first[k] ELSE last[k - before]
        BY <2>2, <3>3, <4>2
      <4>4. CASE k <= before
        BY <2>2, <3>1, <4>2, <4>3, <4>4
      <4>5. CASE ~(k <= before)
        <5>1. k - before \in 1 .. Xfer.len /\ before + (k - before) = k
          BY <2>2, <4>2, <4>5
        <5>2. frame[k] = Payload(k - before)
          BY <2>1, <2>4, <5>1 DEF Sent
        <5>3. (first \o last)[k] = Payload(k - before)
          BY <3>2, <4>3, <4>5, <5>1
        <5>4. QED
          BY <5>2, <5>3
      <4>6. QED
        BY <4>4, <4>5
    <3>5. frame = first \o last
      BY <2>1, <2>2, <3>3, <3>4, SeqEqual
    <3>6. QED
      BY <2>4, <3>5 DEF first, last
  <2>5. QED
    BY <2>3, <2>4
<1>2. QED
  BY <1>1, InvCorrect, PTL

\* The error of a descriptor becomes that of its message.
THEOREM NoErrorIsLost == Spec => ErrorsSurface
<1> DEFINE Surfaces ==
      OneWay /\ "err" \in sts /\ pc \in {"poll_tx", "poll_rx"} /\ pc' # pc
        => pc' = "idle" /\ reply' = "EIO"
<1>1. Inv /\ [Next]_vars => [Surfaces]_vars
  <2> SUFFICES ASSUME Inv, Next, OneWay, "err" \in sts, pc \in {"poll_tx", "poll_rx"}, pc' # pc
               PROVE  pc' = "idle" /\ reply' = "EIO"
    OBVIOUS
  <2>1. Poll = {"EIO"}
    BY DEF Poll
  <2>2. Xfer.dir # "both"
    BY Current DEF Inv, OneWay, Xfer
  <2>3. TxDone \/ TxFails \/ RxDone \/ RxFails
    BY DEF Next, Advance, Engine, Begin, NextTransfer, MessageDone, StartTransfer, SendTx, SendRx,
           EngineRuns, EngineFails, driver
  <2>4. QED
    BY <2>1, <2>2, <2>3 DEF TxDone, TxFails, RxDone, RxFails, End, Goto
<1>2. QED
  BY <1>1, InvCorrect, PTL DEF Spec, ErrorsSurface
=============================================================================
