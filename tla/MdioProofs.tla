----------------------------- MODULE MdioProofs -----------------------------
(***************************************************************************)
(* Proofs about MdioController, for every set of clients and registers.     *)
(***************************************************************************)
EXTENDS MdioController, TLAPS

LEMMA TypeInit == Init => TypeOK
<1> SUFFICES ASSUME Init PROVE TypeOK
  OBVIOUS
<1>1. /\ phy \in [Regs -> Vals] /\ rdDat \in Vals
      /\ op \in [Clients -> Ops \cup {NoOp}] /\ engine \in Ops \cup {NoOp}
      /\ ret \in [Clients -> {"ok", "EIO", "EBUSY"}]
  BY ConstantsAssumption DEF Init
<1>2. pc \in [Threads -> {"idle", "wait1", "clean1", "issue", "wait2", "clean2",
                         "fetch", "sleep"}]
  BY DEF Init
<1>3. \A c \in Clients : ~Inside(c) /\ op[c] = NoOp /\ lock # c
  BY ConstantsAssumption DEF Init, Inside, Threads
<1>4. QED
  BY <1>1, <1>2, <1>3 DEF Init, TypeOK

LEMMA TypeStep == TypeOK /\ [Next]_vars => TypeOK'
<1> SUFFICES ASSUME TypeOK, [Next]_vars
             PROVE  TypeOK'
  OBVIOUS
<1> USE ConstantsAssumption, NoOpAssumption
    DEF TypeOK, Threads, Inside, Goto, Finish, CleanStatus, hw, driver
<1>1. ASSUME NEW c \in Clients, NEW o \in Ops, Start(c, o) PROVE TypeOK'
  BY <1>1 DEF Start
<1>2. ASSUME NEW c \in Clients, Wait(c) PROVE TypeOK'
  <2>1. \A r \in WaitResult : r \in {"ok", "EIO", "EBUSY"}
    BY DEF WaitResult
  <2>2. QED
    BY <1>2, <2>1 DEF Wait
<1>3. ASSUME NEW c \in Clients, CleanFailed(c) PROVE TypeOK'
  BY <1>3 DEF CleanFailed
<1>4. ASSUME NEW c \in Clients, CleanBefore(c) \/ CleanAfter(c) PROVE TypeOK'
  BY <1>4 DEF CleanBefore, CleanAfter
<1>5. ASSUME NEW c \in Clients, IssueRead(c) PROVE TypeOK'
  BY <1>5 DEF IssueRead, IssueCommand
<1>6. ASSUME NEW c \in Clients, IssueWrite(c) PROVE TypeOK'
  BY <1>6 DEF IssueWrite, IssueCommand
<1>7. ASSUME NEW c \in Clients, Fetch(c) PROVE TypeOK'
  BY <1>7 DEF Fetch
<1>8. ASSUME NEW r \in Resetters, ResetBegin(r) \/ ResetEnd(r) PROVE TypeOK'
  BY <1>8 DEF ResetBegin, ResetEnd
<1>9. ASSUME EngineCompletes PROVE TypeOK'
  BY <1>9 DEF EngineCompletes, Idle, Ops
<1>10. ASSUME EngineFails \/ EngineResets PROVE TypeOK'
  BY <1>10 DEF EngineFails, EngineResets
<1>11. CASE UNCHANGED vars
  BY <1>11 DEF vars
<1>12. QED
  BY <1>1, <1>2, <1>3, <1>4, <1>5, <1>6, <1>7, <1>8, <1>9, <1>10, <1>11
  DEF Next, Transfer, Engine

\* Every variable keeps its type and mdio_lock its one owner.
THEOREM TypeCorrect == Spec => []TypeOK
BY TypeInit, TypeStep, PTL DEF Spec

(***************************************************************************)
(* While nothing has disturbed the bus, bus->state and STS tell what the    *)
(* engine is doing; a reset that has the bus for itself gets it back there. *)
(***************************************************************************)

Quiet == Idle /\ ~done /\ ~err
Working == ~Idle /\ latest /\ ~done /\ ~err
Succeeded == Idle /\ done /\ ~err /\ executed
Failed == Idle /\ err

EngineInv ==
  /\ ~rst
  /\ \A r \in Resetters : pc[r] = "idle"
  /\ state = "READY" => Quiet
  /\ state = "BUSY" => Quiet \/ Working \/ Succeeded \/ Failed
  /\ state = "BUSY" /\ Quiet => \E c \in Clients : pc[c] = "issue"

ClientOK(c) ==
  /\ pc[c] = "issue" => state = "BUSY" /\ Quiet
  /\ pc[c] \in {"wait2", "clean2", "fetch"} => op[c].kind = "read"
  /\ pc[c] \in {"wait2", "clean2"} => state = "BUSY"
  /\ pc[c] \in {"clean1", "clean2"} =>
       \/ ret[c] = "ok" /\ (state = "READY" \/ Succeeded)
       \/ ret[c] = "EIO" /\ state = "BUSY" /\ Failed
  /\ pc[c] = "wait2" =>
       \/ Working /\ engine = op[c]
       \/ Failed
       \/ Succeeded /\ Fresh(c)
  /\ pc[c] = "clean2" /\ ret[c] = "ok" => Fresh(c)
  /\ pc[c] = "fetch" => Fresh(c) /\ state = "READY"

ClientInv == \A c \in Clients : ClientOK(c)

ResetInv ==
  /\ \A c \in Clients : pc[c] = "idle"
  /\ \A r1, r2 \in Resetters : pc[r1] = "sleep" /\ pc[r2] = "sleep" => r1 = r2
  /\ rst \/ Quiet

Inv ==
  /\ TypeOK
  /\ \A r \in Resetters : pc[r] \in {"idle", "sleep"}
  /\ trouble = "none" => EngineInv /\ ClientInv
  /\ trouble = "reset" => ResetInv

LEMMA InvInit == Init => Inv
<1> SUFFICES ASSUME Init PROVE Inv
  OBVIOUS
<1>1. TypeOK
  BY TypeInit
<1>2. EngineInv
  BY DEF Init, EngineInv, Quiet, Idle, Threads
<1>3. ClientInv
  BY DEF Init, ClientInv, ClientOK, Threads
<1>4. QED
  BY <1>1, <1>2, <1>3 DEF Inv, Init, Threads

\* What a transfer's steps do to an undisturbed bus.
LEMMA TransferStep ==
  ASSUME TypeOK, EngineInv, ClientInv, NEW c \in Clients, Transfer(c), trouble' = "none"
  PROVE  EngineInv' /\ ClientInv'
<1> USE ConstantsAssumption, NoOpAssumption
    DEF TypeOK, EngineInv, ClientInv, ClientOK, Threads, Inside, Goto, Finish, CleanStatus,
        hw, driver, Quiet, Working, Succeeded, Failed, Idle, Fresh
<1>1. ASSUME NEW o \in Ops, Start(c, o)
      PROVE  EngineInv' /\ ClientInv'
  BY <1>1 DEF Start
<1>2. ASSUME Wait(c)
      PROVE  EngineInv' /\ ClientInv'
  BY <1>2 DEF Wait, WaitResult
<1>3. ASSUME CleanFailed(c)
      PROVE  EngineInv' /\ ClientInv'
  BY <1>3 DEF CleanFailed
<1>4. ASSUME CleanBefore(c)
      PROVE  EngineInv' /\ ClientInv'
  BY <1>4 DEF CleanBefore
<1>5. ASSUME CleanAfter(c)
      PROVE  EngineInv' /\ ClientInv'
  BY <1>5 DEF CleanAfter
<1>6. ASSUME IssueRead(c)
      PROVE  EngineInv' /\ ClientInv'
  <2>1. /\ engine' = op[c] /\ latest' /\ ~executed' /\ engine' # NoOp
        /\ UNCHANGED <<done, err, rst, rdDat, phy, state, op, ret, lock>>
        /\ pc' = [pc EXCEPT ![c] = "wait2"] /\ pc[c] = "issue" /\ op[c].kind = "read"
        /\ Quiet /\ state = "BUSY"
    BY <1>6 DEF IssueRead, IssueCommand
  <2>2. \A d \in Clients : d # c => pc[d] = "idle" /\ pc'[d] = "idle"
    BY <2>1
  <2>3. EngineInv'
    BY <2>1
  <2>4. ClientInv'
    <3>1. ClientOK(c)'
      <4>1. /\ pc'[c] = "wait2" /\ op'[c].kind = "read" /\ state' = "BUSY"
            /\ Working' /\ engine' = op'[c]
        BY <2>1
      <4> HIDE DEF TypeOK, EngineInv, Quiet, Working, Succeeded, Failed, Idle, Fresh
      <4>2. QED
        BY <4>1
    <3>2. ASSUME NEW d \in Clients, d # c PROVE ClientOK(d)'
      BY <2>2, <3>2
    <3>3. QED
      BY <3>1, <3>2 DEF ClientInv
  <2>5. QED
    BY <2>3, <2>4
<1>7. ASSUME IssueWrite(c)
      PROVE  EngineInv' /\ ClientInv'
  BY <1>7 DEF IssueWrite, IssueCommand
<1>8. ASSUME Fetch(c)
      PROVE  EngineInv' /\ ClientInv'
  BY <1>8 DEF Fetch
<1>9. QED
  BY <1>1, <1>2, <1>3, <1>4, <1>5, <1>6, <1>7, <1>8 DEF Transfer

\* What the engine does on an undisturbed bus.
LEMMA EngineStep ==
  ASSUME TypeOK, EngineInv, ClientInv, Engine
  PROVE  EngineInv' /\ ClientInv'
<1> USE ConstantsAssumption, NoOpAssumption
    DEF TypeOK, EngineInv, ClientInv, ClientOK, Threads, Inside, driver,
        Quiet, Working, Succeeded, Failed, Idle, Fresh
<1>1. ASSUME EngineCompletes
      PROVE  EngineInv' /\ ClientInv'
  BY <1>1 DEF EngineCompletes
<1>2. ASSUME EngineFails
      PROVE  EngineInv' /\ ClientInv'
  BY <1>2 DEF EngineFails
<1>3. ~EngineResets
  BY DEF EngineResets
<1>4. QED
  BY <1>1, <1>2, <1>3 DEF Engine

\* A transfer neither begins nor ends a reset that is alone.
LEMMA TransferTrouble ==
  ASSUME TypeOK, NEW c \in Clients, Transfer(c)
  PROVE  /\ trouble' \in {trouble, "some"}
         /\ trouble = "reset" /\ pc[c] = "idle" => trouble' = "some"
         /\ \A r \in Resetters : pc'[r] = pc[r]
<1> USE ConstantsAssumption DEF TypeOK, Threads, Goto, Finish, CleanStatus, IssueCommand, hw
<1>1. ASSUME NEW o \in Ops, Start(c, o)
      PROVE  /\ trouble' \in {trouble, "some"}
             /\ trouble = "reset" /\ pc[c] = "idle" => trouble' = "some"
             /\ \A r \in Resetters : pc'[r] = pc[r]
  BY <1>1 DEF Start
<1>2. CASE Wait(c)
  BY <1>2 DEF Wait
<1>3. CASE CleanFailed(c) \/ CleanBefore(c) \/ CleanAfter(c)
  BY <1>3 DEF CleanFailed, CleanBefore, CleanAfter
<1>4. CASE IssueRead(c) \/ IssueWrite(c) \/ Fetch(c)
  BY <1>4 DEF IssueRead, IssueWrite, Fetch
<1>5. QED
  BY <1>1, <1>2, <1>3, <1>4 DEF Transfer

LEMMA InvStep == Inv /\ [Next]_vars => Inv'
<1> SUFFICES ASSUME Inv, [Next]_vars
             PROVE  Inv'
  OBVIOUS
<1>1. TypeOK /\ TypeOK'
  BY TypeStep DEF Inv
<1>2. ASSUME NEW c \in Clients, Transfer(c) PROVE Inv'
  <2>1. \A r \in Resetters : pc'[r] \in {"idle", "sleep"}
    BY <1>1, <1>2, TransferTrouble DEF Inv
  <2>2. trouble' # "reset"
    BY <1>1, <1>2, TransferTrouble DEF Inv, ResetInv, TypeOK
  <2>3. ASSUME trouble' = "none" PROVE EngineInv' /\ ClientInv'
    <3>1. trouble = "none"
      BY <1>1, <1>2, <2>3, TransferTrouble
    <3>2. QED
      BY <1>1, <1>2, <2>3, <3>1, TransferStep DEF Inv
  <2>4. QED
    BY <1>1, <2>1, <2>2, <2>3 DEF Inv
<1>3. ASSUME NEW r \in Resetters, ResetBegin(r) PROVE Inv'
  BY <1>1, <1>3, ConstantsAssumption DEF Inv, ResetBegin, ResetInv, TypeOK, Threads, Goto
<1>4. ASSUME NEW r \in Resetters, ResetEnd(r) PROVE Inv'
  <2>1. /\ pc[r] = "sleep" /\ pc' = [pc EXCEPT ![r] = "idle"] /\ UNCHANGED <<lock, op, ret, hw>>
        /\ \A s \in Resetters : pc'[s] \in {"idle", "sleep"}
    BY <1>1, <1>4 DEF ResetEnd, Inv, Goto, TypeOK, Threads
  <2>2. trouble' # "reset"
    BY <1>4 DEF ResetEnd
  <2>3. ASSUME trouble' = "none" PROVE EngineInv' /\ ClientInv'
    <3>1. trouble = "reset" /\ ~rst /\ state' = "READY"
      <4>1. trouble # "none"
        BY <2>1 DEF Inv, EngineInv
      <4>2. QED
        BY <1>4, <2>3, <4>1 DEF ResetEnd
    <3>2. Quiet' /\ ~rst'
      BY <2>1, <3>1 DEF Inv, ResetInv, Quiet, Idle, hw
    <3>3. \A t \in Threads : pc'[t] = "idle"
      BY <1>1, <2>1, <3>1 DEF Inv, ResetInv, TypeOK, Threads
    <3>4. QED
      BY <3>1, <3>2, <3>3 DEF EngineInv, ClientInv, ClientOK, Threads
  <2>4. QED
    BY <1>1, <2>1, <2>2, <2>3 DEF Inv
<1>5. ASSUME Engine PROVE Inv'
  <2>1. UNCHANGED <<pc, trouble>>
    BY <1>5 DEF Engine, EngineCompletes, EngineFails, EngineResets, driver
  <2>2. ASSUME trouble = "none" PROVE EngineInv' /\ ClientInv'
    BY <1>1, <1>5, <2>2, EngineStep DEF Inv
  <2>3. ASSUME trouble = "reset" PROVE ResetInv'
    <3>1. rst' \/ Quiet'
      BY <1>5, <2>3 DEF Inv, ResetInv, Engine, EngineCompletes, EngineFails, EngineResets,
        Quiet, Idle
    <3>2. QED
      BY <2>1, <2>3, <3>1 DEF Inv, ResetInv
  <2>4. QED
    BY <1>1, <2>1, <2>2, <2>3 DEF Inv
<1>6. CASE UNCHANGED vars
  BY <1>6, <1>1 DEF vars, driver, hw, Inv, EngineInv, ClientInv, ClientOK, ResetInv, Quiet,
    Working, Succeeded, Failed, Idle, Fresh
<1>7. QED
  BY <1>2, <1>3, <1>4, <1>5, <1>6 DEF Next

LEMMA InvCorrect == Spec => []Inv
BY InvInit, InvStep, PTL DEF Spec

\* On an undisturbed bus, a read that succeeds returns the register it asked for,
\* read by the PHY for it; a reset that runs alone restores this.
THEOREM ReadsFresh == Spec => []ReadsAreFresh
<1>1. Inv => ReadsAreFresh
  BY DEF Inv, ClientInv, ClientOK, Fresh, ReadsAreFresh
<1>2. QED
  BY <1>1, InvCorrect, PTL

\* On an undisturbed bus no command is issued before the last one is over.
THEOREM InOrder == Spec => []IssuedInOrder
<1>1. Inv => IssuedInOrder
  BY DEF Inv, ClientInv, ClientOK, Quiet, IssuedInOrder
<1>2. QED
  BY <1>1, InvCorrect, PTL

\* On an undisturbed bus a posted write has reached the PHY when the next transfer
\* is issued.
THEOREM PostedWritesLand == Spec => WritesLand
<1>1. Inv /\ [Next]_vars =>
        [\A c \in Clients :
           trouble = "none" /\ pc[c] = "clean1" /\ pc'[c] = "issue" /\ state = "BUSY"
             => executed]_vars
  <2> SUFFICES ASSUME Inv, [Next]_vars, NEW c \in Clients, trouble = "none",
                      pc[c] = "clean1", pc'[c] = "issue", state = "BUSY"
               PROVE  executed
    OBVIOUS
  <2>1. ret[c] = "ok"
    <3>1. ASSUME NEW d \in Clients, Transfer(d) PROVE ret[c] = "ok"
      <4>1. d = c
        BY <3>1 DEF Inv, TypeOK, Inside, Threads, Transfer, Start, Wait, CleanFailed,
          CleanBefore, CleanAfter, IssueRead, IssueWrite, Fetch, Goto, Finish
      <4>2. QED
        BY <3>1, <4>1 DEF Inv, TypeOK, Threads, Transfer, Start, Wait, CleanFailed,
          CleanBefore, CleanAfter, IssueRead, IssueWrite, Fetch, Goto, Finish
    <3>2. CASE Engine \/ UNCHANGED vars
      BY <3>2 DEF Engine, EngineCompletes, EngineFails, EngineResets, vars, driver
    <3>3. ASSUME NEW r \in Resetters, ResetBegin(r) \/ ResetEnd(r) PROVE ret[c] = "ok"
      BY <3>3, ConstantsAssumption DEF Inv, TypeOK, Threads, ResetBegin, ResetEnd, Goto
    <3>4. QED
      BY <3>1, <3>2, <3>3 DEF Next
  <2>2. QED
    BY <2>1 DEF Inv, ClientInv, ClientOK, Succeeded
<1>2. QED
  BY <1>1, InvCorrect, PTL DEF Spec, WritesLand

\* On an undisturbed bus the error of a command, a posted write included, is cleared
\* only by a client that returns an error for it.
THEOREM NoErrorIsDropped == Spec => ErrorsSurface
<1> DEFINE Surfaces ==
      trouble = "none" /\ err /\ ~err' => \E c \in Clients : Inside(c) /\ ret[c] # "ok"
<1>1. Inv /\ [Next]_vars => [Surfaces]_vars
  <2> SUFFICES ASSUME Inv, Next, trouble = "none", err, ~err'
               PROVE  \E c \in Clients : Inside(c) /\ ret[c] # "ok"
    OBVIOUS
  <2>1. EngineInv /\ ClientInv
    BY DEF Inv
  <2>2. PICK c \in Clients : CleanFailed(c) \/ CleanBefore(c) \/ CleanAfter(c)
    BY <2>1 DEF Next, Transfer, Engine, Start, Wait, IssueRead, IssueWrite, IssueCommand, Fetch,
      ResetBegin, ResetEnd, EngineCompletes, EngineFails, EngineResets, EngineInv, hw
  <2>3. ~CleanBefore(c) /\ ~CleanAfter(c)
    BY <2>1 DEF ClientInv, ClientOK, CleanBefore, CleanAfter, EngineInv, Quiet, Succeeded
  <2>4. QED
    BY <2>2, <2>3 DEF CleanFailed, Inside
<1>2. QED
  BY <1>1, InvCorrect, PTL DEF Spec, ErrorsSurface
=============================================================================
