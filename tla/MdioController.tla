--------------------------- MODULE MdioController ---------------------------
(***************************************************************************)
(* The MDIO controller driver (fboss_iob_mdio_aux.c): Clause 45 transfers   *)
(* that user processes request through the fb-mdio cdev (lib/fboss-mdio.c), *)
(* one at a time under the lock of the mii_bus, and the reset_bus sysfs     *)
(* file, which takes no lock.                                               *)
(*                                                                          *)
(* A write is posted: it returns as soon as the command register is         *)
(* written, and the next transfer waits for it, receives its error, and is  *)
(* then not carried out.  bus->state remembers whether such a wait is due.  *)
(*                                                                          *)
(* The controller itself is in the FPGA.  It is modelled from the registers *)
(* the driver uses: CMD starts a command on one engine, STS holds DONE and  *)
(* ERR until they are written back as 1, RST clears itself.                 *)
(***************************************************************************)
EXTENDS Integers

CONSTANTS
  Clients,    \* processes with the fb-mdio cdev open
  Resetters,  \* processes that write reset_bus
  Regs,       \* PHY registers
  Vals,       \* their values
  PowerOn,    \* a register's first value
  SlowEngine, \* may a command outlast FBOSS_MDIO_MAX_TIMEOUT_US?
  Nobody, NoOp

Threads == Clients \cup Resetters
Ops == {[kind |-> "read", reg |-> r, val |-> PowerOn] : r \in Regs}
         \cup [kind : {"write"}, reg : Regs, val : Vals]

ASSUME ConstantsAssumption ==
  /\ Clients \cap Resetters = {}
  /\ Nobody \notin Threads
  /\ PowerOn \in Vals
  /\ SlowEngine \in BOOLEAN
ASSUME NoOpAssumption == NoOp \notin Ops

VARIABLES
  lock,     \* owner of mdio_lock, which mdiobus_c45_read and _write take
  pc,       \* where a thread is in its operation
  op,       \* the transfer a client has asked for
  ret,      \* what wait_bus_ready returned to it
  state,    \* bus->state, after a probe that succeeded
  engine,   \* the command in progress
  latest,   \* is that the command last written to CMD?
  executed, \* has the command last written to CMD been carried out?
  done, err,\* STS.DONE and STS.ERR
  rst,      \* RST.RESET
  rdDat,    \* RD_DAT
  phy,      \* the PHY's registers
  trouble   \* history: have resets or timeouts left the bus in doubt?

driver == <<lock, pc, op, ret, state>>
hw == <<engine, latest, executed, done, err, rst, rdDat, phy>>
vars == <<driver, hw, trouble>>

Idle == engine = NoOp

Init ==
  /\ lock = Nobody
  /\ pc = [t \in Threads |-> "idle"]
  /\ op = [c \in Clients |-> NoOp]
  /\ ret = [c \in Clients |-> "ok"]
  /\ state = "READY"
  /\ engine = NoOp
  /\ latest = FALSE
  /\ executed = TRUE
  /\ done = FALSE /\ err = FALSE
  /\ rst = FALSE
  /\ rdDat = PowerOn
  /\ phy = [r \in Regs |-> PowerOn]
  /\ trouble = "none"

-----------------------------------------------------------------------------
(* A transfer.  Both kinds wait for the bus, clear the status and issue; a    *)
(* read waits again and fetches its data.                                    *)

Goto(t, where) == pc' = [pc EXCEPT ![t] = where]

Finish(c) ==
  /\ Goto(c, "idle")
  /\ op' = [op EXCEPT ![c] = NoOp]
  /\ ret' = [ret EXCEPT ![c] = "ok"]
  /\ lock' = Nobody

\* Mutant: mdio_lock is not taken.
StartUnlocked(c, o) ==
  /\ pc[c] = "idle"
  /\ op' = [op EXCEPT ![c] = o]
  /\ Goto(c, "wait1")
  /\ UNCHANGED <<lock, ret, state, hw, trouble>>

Start(c, o) ==
  /\ pc[c] = "idle"
  /\ lock = Nobody
  /\ lock' = c
  /\ op' = [op EXCEPT ![c] = o]
  /\ Goto(c, "wait1")
  /\ trouble' = IF trouble = "reset" THEN "some" ELSE trouble
  /\ UNCHANGED <<ret, state, hw>>

\* Mutant: DONE is looked at before ERR.
WaitResultDoneFirst ==
  {r \in {"ok", "EIO", "EBUSY"} :
     \/ state = "READY" /\ r = "ok"
     \/ state # "READY" /\ err /\ ~done /\ r = "EIO"
     \/ state # "READY" /\ done /\ r = "ok"
     \/ state # "READY" /\ ~err /\ ~done /\ (SlowEngine \/ Idle) /\ r = "EBUSY"}

\* Mutant: the poll has no bound.
WaitResultNoRetries ==
  {r \in {"ok", "EIO", "EBUSY"} :
     \/ state = "READY" /\ r = "ok"
     \/ state # "READY" /\ err /\ r = "EIO"
     \/ state # "READY" /\ ~err /\ done /\ r = "ok"}

\* wait_bus_ready: one turn of the poll that ends it.  A turn that finds
\* nothing and sleeps changes nothing.  The retries run out when the engine
\* does not answer within a millisecond, or has nothing to answer.
WaitResult ==
  {r \in {"ok", "EIO", "EBUSY"} :
     \/ state = "READY" /\ r = "ok"
     \/ state # "READY" /\ err /\ r = "EIO"
     \/ state # "READY" /\ ~err /\ done /\ r = "ok"
     \/ state # "READY" /\ ~err /\ ~done /\ (SlowEngine \/ Idle) /\ r = "EBUSY"}

Wait(c) ==
  /\ \/ pc[c] = "wait1" /\ Goto(c, "clean1")
     \/ pc[c] = "wait2" /\ Goto(c, "clean2")
  /\ \E r \in WaitResult :
       /\ ret' = [ret EXCEPT ![c] = r]
       /\ trouble' = IF r = "EBUSY" THEN "some" ELSE trouble
  /\ UNCHANGED <<lock, op, state, hw>>

\* fbiob_mdio_clean_status writes DONE and ERR back.
CleanStatus ==
  /\ done' = FALSE
  /\ err' = FALSE
  /\ UNCHANGED <<engine, latest, executed, rst, rdDat, phy, trouble>>

\* A failed wait ends the transfer that met it; the next one will not wait.
CleanFailed(c) ==
  /\ pc[c] \in {"clean1", "clean2"}
  /\ ret[c] # "ok"
  /\ CleanStatus
  /\ state' = "READY"
  /\ Finish(c)

\* Mutant: bus->state is left at READY.
CleanBeforeReady(c) ==
  /\ pc[c] = "clean1"
  /\ ret[c] = "ok"
  /\ CleanStatus
  /\ state' = "READY"
  /\ Goto(c, "issue")
  /\ UNCHANGED <<lock, op, ret>>

CleanBefore(c) ==
  /\ pc[c] = "clean1"
  /\ ret[c] = "ok"
  /\ CleanStatus
  /\ state' = "BUSY"
  /\ Goto(c, "issue")
  /\ UNCHANGED <<lock, op, ret>>

CleanAfter(c) ==
  /\ pc[c] = "clean2"
  /\ ret[c] = "ok"
  /\ CleanStatus
  /\ state' = "READY"
  /\ Goto(c, "fetch")
  /\ UNCHANGED <<lock, op, ret>>

\* WR_DAT and CMD.  The engine ignores a command while it is held in reset; it
\* is not known whether one written while another runs is lost or replaces it.
IssueCommand(o) ==
  /\ executed' = FALSE
  /\ \/ ~rst /\ engine' = o /\ latest' = TRUE
     \/ (rst \/ ~Idle) /\ engine' = engine /\ latest' = FALSE
  /\ UNCHANGED <<done, err, rst, rdDat, phy, trouble>>

IssueRead(c) ==
  /\ pc[c] = "issue"
  /\ op[c].kind = "read"
  /\ IssueCommand(op[c])
  /\ Goto(c, "wait2")
  /\ UNCHANGED <<lock, op, ret, state>>

\* Mutant: the bus is marked ready behind a posted write.
IssueWriteReady(c) ==
  /\ pc[c] = "issue"
  /\ op[c].kind = "write"
  /\ IssueCommand(op[c])
  /\ Finish(c)
  /\ state' = "READY"

IssueWrite(c) ==
  /\ pc[c] = "issue"
  /\ op[c].kind = "write"
  /\ IssueCommand(op[c])
  /\ Finish(c)
  /\ UNCHANGED state

\* RD_DAT is returned to the caller of mdiobus_c45_read.
Fetch(c) ==
  /\ pc[c] = "fetch"
  /\ Finish(c)
  /\ UNCHANGED <<state, hw, trouble>>

-----------------------------------------------------------------------------
(* fbiob_mdio_reset, from reset_bus_store.                                   *)

\* A reset restores the bus if it has it for itself from begin to end.
ResetBegin(r) ==
  /\ pc[r] = "idle"
  /\ rst' = TRUE
  /\ trouble' = IF \A t \in Threads : pc[t] = "idle" THEN "reset" ELSE "some"
  /\ Goto(r, "sleep")
  /\ UNCHANGED <<lock, op, ret, state, engine, latest, executed, done, err, rdDat, phy>>

\* After the sleep: the bit has cleared itself, or -ETIMEDOUT.  The interrupts
\* unmasked here are not used.
ResetEnd(r) ==
  /\ pc[r] = "sleep"
  /\ \/ /\ rst
        /\ trouble' = "some"
        /\ UNCHANGED state
     \/ /\ ~rst
        /\ trouble' = IF trouble = "reset" THEN "none" ELSE trouble
        /\ state' = "READY"
  /\ Goto(r, "idle")
  /\ UNCHANGED <<lock, op, ret, hw>>

-----------------------------------------------------------------------------
(* The controller.                                                           *)

EngineCompletes ==
  /\ ~Idle /\ ~rst
  /\ done' = TRUE
  /\ IF engine.kind = "write"
     THEN phy' = [phy EXCEPT ![engine.reg] = engine.val] /\ rdDat' = rdDat
     ELSE rdDat' = phy[engine.reg] /\ phy' = phy
  /\ executed' = (executed \/ latest)
  /\ engine' = NoOp
  /\ UNCHANGED <<driver, latest, err, rst, trouble>>

EngineFails ==
  /\ ~Idle /\ ~rst
  /\ err' = TRUE
  /\ done' \in {done, TRUE}
  /\ engine' = NoOp
  /\ UNCHANGED <<driver, latest, executed, rst, rdDat, phy, trouble>>

EngineResets ==
  /\ rst
  /\ rst' = FALSE
  /\ engine' = NoOp
  /\ done' = FALSE
  /\ err' = FALSE
  /\ UNCHANGED <<driver, latest, executed, rdDat, phy, trouble>>

-----------------------------------------------------------------------------
Transfer(c) ==
  \/ \E o \in Ops : Start(c, o)
  \/ Wait(c) \/ CleanFailed(c) \/ CleanBefore(c) \/ CleanAfter(c)
  \/ IssueRead(c) \/ IssueWrite(c) \/ Fetch(c)

Engine == EngineCompletes \/ EngineFails \/ EngineResets

Next ==
  \/ \E c \in Clients : Transfer(c)
  \/ \E r \in Resetters : ResetBegin(r) \/ ResetEnd(r)
  \/ Engine

Spec == Init /\ [][Next]_vars

Advance(c) ==
  \/ Wait(c) \/ CleanFailed(c) \/ CleanBefore(c) \/ CleanAfter(c)
  \/ IssueRead(c) \/ IssueWrite(c) \/ Fetch(c)

\* A thread inside the driver keeps running, since it only polls and sleeps.  No
\* process has to start a transfer, and nothing is asked of the controller.
FairSpec ==
  /\ Spec
  /\ \A c \in Clients : WF_vars(Advance(c))
  /\ \A r \in Resetters : WF_vars(ResetEnd(r))

-----------------------------------------------------------------------------
(* Properties.                                                               *)

\* The variables have their types and mdio_lock belongs to the one client that
\* is inside a transfer.
Inside(c) == pc[c] # "idle"
TypeOK ==
  /\ lock \in Clients \cup {Nobody}
  /\ pc \in [Threads -> {"idle", "wait1", "clean1", "issue", "wait2", "clean2",
                         "fetch", "sleep"}]
  /\ op \in [Clients -> Ops \cup {NoOp}]
  /\ ret \in [Clients -> {"ok", "EIO", "EBUSY"}]
  /\ state \in {"READY", "BUSY"}
  /\ engine \in Ops \cup {NoOp}
  /\ latest \in BOOLEAN /\ executed \in BOOLEAN
  /\ done \in BOOLEAN /\ err \in BOOLEAN /\ rst \in BOOLEAN
  /\ rdDat \in Vals
  /\ phy \in [Regs -> Vals]
  /\ trouble \in {"none", "reset", "some"}
  /\ \A c \in Clients : Inside(c) <=> lock = c
  /\ \A c \in Clients : Inside(c) <=> op[c] # NoOp

\* While nothing has disturbed the bus since it was probed or last reset alone, a
\* read that succeeds was carried out by the PHY, and returns what the register it
\* names holds: neither an older answer nor another register's.
Fresh(c) == executed /\ rdDat = phy[op[c].reg]
ReadsAreFresh ==
  trouble = "none" => \A c \in Clients : pc[c] = "fetch" => Fresh(c)

\* lib/fbiob-ioctl.h says that the two steps of a transfer are combined "into an
\* "atomic" operation": a read is as good while others reset the bus.
ReadsAreAtomic == \A c \in Clients : pc[c] = "fetch" => Fresh(c)

\* While nothing has disturbed the bus, a command is only issued when the one
\* before it has left the engine, so that posted writes take effect in the order
\* they were requested.
IssuedInOrder ==
  trouble = "none" => \A c \in Clients : pc[c] = "issue" => Idle

\* The error of a command, posted writes included, is never dropped: whoever
\* clears ERR returns an error, unless the bus is or was being disturbed.
ErrorsSurface ==
  [][trouble = "none" /\ err /\ ~err' =>
       \E c \in Clients : Inside(c) /\ ret[c] # "ok"]_vars

\* While nothing has disturbed the bus, a write that was acknowledged, and that no
\* transfer has waited for yet, has reached the PHY when the next one is issued.
WritesLand ==
  [][\A c \in Clients :
       trouble = "none" /\ pc[c] = "clean1" /\ pc'[c] = "issue" /\ state = "BUSY"
         => executed]_vars

\* Every transfer returns, whether or not the controller ever answers.
TransfersReturn == \A c \in Clients : Inside(c) ~> ~Inside(c)
=============================================================================
