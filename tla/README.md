# A formal model of the FBOSS BSP kernel modules

TLA+ specifications of the kernel modules under `src/kmods`, checked with TLC on
small instances and, where it says so below, proved with TLAPS for all instances.
Paths below are relative to `src/kmods`.

## 1. The system

The modules drive the boards of Meta's network switches. A PCI FPGA (the IOB) has
blocks of registers for I2C and SPI masters, MDIO controllers, LEDs, transceivers
and so on. User space decides what is there: it opens the FPGA's character device
and asks, by ioctl, for an I/O controller to be created or deleted; each one becomes
a device on the auxiliary bus, and the driver of its kind is bound to it. CPLDs and
fan controllers are reached over the I2C masters so created, and have drivers of
their own, some of them configured by further ioctls.

```
 user space ── ioctl ──> fbiob cdev ──> auxiliary bus ──> I2C / SPI / MDIO masters, LEDs,
                             ^                             GPIO, xcvr, rtm, info drivers
                             │ probe, remove                       │            │
                          PCI driver                               │ I2C        │ sysfs
                                                                   v            v
 user space ── ioctl ──> fbcpld cdev, fan CPLD cdev <── I2C client drivers    user space
 user space ── ioctl ──> fb-mdio cdev ──> MDIO master
```

What runs concurrently: user processes inside ioctls and sysfs files of any of
these devices; the thread that binds or unbinds a driver; and the FPGA itself.
Memory of a device is device-managed (devm): it is freed when the driver is
unbound, whoever still holds a descriptor. `.owner = THIS_MODULE` makes an open
descriptor pin the module, so `rmmod` waits for it; unbinding through sysfs,
removal of the hardware, or a probe that fails late do not.

### Components

| Component | Files | State | Operations | What is hard | What makes it correct |
|---|---|---|---|---|---|
| FPGA cdev, auxiliary bus, PCI binding | `lib/fbiob-cdev.c`, `lib/fbiob-auxdev.c`, `fboss_iob_pci_main.c` | list of adapters and its mutex; devices known to the driver core | `NEW_DEVICE`, `DEL_DEVICE`, probe, remove | a device is live before it is listed; two FPGAs share one bus; freed memory under open descriptors | each adapter is released once, ids are unique, removal leaves nothing, addresses lie in the BAR |
| MDIO controller, fb-mdio cdev | `fboss_iob_mdio_aux.c`, `lib/fboss-mdio.c` | `bus->state`, the lock of the `mii_bus`, the registers of the controller | C45 read and write, `reset_bus` | writes are posted; a reset takes no lock; late answers | reads are fresh, posted errors surface, writes land in order, transfers end |
| I2C master | `fboss_iob_i2c.c` | two pages of buffer, page select, `INTR_STS`, the current command | `master_xfer` | status and page select outlive a message; timeouts do not stop the controller | data is the message's own, the bus is held for a transfer, transfers end |
| SPI master | `fboss_iob_spi.c` | I/O buffers, chip select, `DESC_STS`, the current descriptor | `transfer_one`, `set_cs` | descriptors of one transfer share status and buffers; timeouts do not stop the controller | bytes at their place in the frame, chip select held, errors surface |
| Generic CPLD driver | `lib/fbcpld-cdev.c`, `fbcpld_generic_i2c.c` | `entries[]`, `num_entries`, its lock; sysfs files | `SYSFS_CREATE`, `SYSFS_DESTROY_ALL`, probe, remove | files are removed by what an entry says after the lock is dropped | entries and files correspond; unbinding leaves no file |
| Register-bit files | `lib/regbit-sysfs.c` and its users (xcvr, rtm, info, SCM, SMB, MCB and PIC CPLDs, PDB) | a register; a lock per file; the handle of the files | probe, store, removal | fields of one register have different locks; four steps make the files | no update of one file is lost; files come and go with their driver |
| Fan CPLDs | `fbfancpld_i2c.c`, `*/*_fancpld_i2c.c`, `leh800b/leh800b_pdbcpld_i2c.c` | `configured`, tables of hwmon channels, PWM | configure, hwmon, boost | configuration in steps, any of which may fail | configured once; no PWM write is lost; a caller gets its answer |
| Fan watchdogs | the same, and `mtia/mtia_fan_watchdog.c` | the time-out of the driver, that of the CPLD, its counter | start, stop, ping, set and get time-out | a time-out kept in two places, in two units; what the counter held before | the fans are boosted when the time-out reported says |
| Port LEDs | `fboss_iob_led_aux.c`, `fboss_iob_led_trigger.c` | one register and lock per port, one class device per colour | brightness, default values | colours share bits | a colour is shown, or none; dark in the end |
| Front-panel LEDs, fan LEDs | `*/*_scmcpld_i2c.c`, `mtia/mtia_smbcpld_i2c.c`, `anacapa/anacapa_mcbcpld_i2c.c`, the fan CPLDs | a register per LED, shared by its colours | brightness, default values | read-modify-write over I2C, initialisation without the lock | the same, and no update is lost |
| Temperatures of the SMB | `mtia/janga_smbcpld_i2c.c`, `mtia/tahan_smbcpld_i2c.c`, `th6_smbcpld_i2c.c`, `montblanc/mp3_smbcpld_i2c.c`, `wedge800/w800?_smbcpld_i2c.c` | registers of a temperature and of a limit, two bytes each | read, set a limit | two transfers per value, no lock, 16 bits | a reading is one the chip had; a limit reads back |
| GPIO controller | `fboss_iob_gpio.c` | a register per pin | direction, get, set | read-modify-write without a lock | the direction reported is that of the pin |
| Power monitors | `leh800b/mspm0.c`, `tahansb/tps1689.c` | none | conversions of sensor readings | limits of channels | conversions in range |
| Backports | `backports/` | | | | third-party drivers, not this project's logic |

`PROJECT.json` lists them all with their status, and, under `hazards`, each place in
the code where a test would hardly find what goes wrong. A hazard with no property is one that
the code does not guard against, so that the properties nearby exclude it; its note says how.

## 2. Plan

Order: first what everything else hangs on, then the controllers, then what is
reached through them.

1. `AuxBus`: the cdev, the bus and the PCI driver; `AuxRegistry`, what they promise
   together; the refinement. Proofs of both. **Done.**
2. `MdioController`: posted writes, resets, late answers. Proofs. **Done.**
3. `I2cMaster`: chunks, pages, polling, recovery. Proofs. **Done.**
4. `SpiMaster`: descriptors, polling, chip select. Proofs. **Done.**
5. `FbcpldCdev`: batches, destruction, unbinding. Proofs: `UniqueNames` for every use,
   `FilesMatchEntries` and `NothingSurvivesUnbind` while calls do not overlap. **Done.**
6. `RegisterFields`, `BoardTables`, `Boards`, `CpldDriver`: every driver that makes files
   or LEDs of register bits, with the locks it takes, from probe to removal; the tables
   and the LEDs of each driver as values. Proofs of all invariants, from facts about the tables
   (names of LEDs are those of their updates, an update stays within its field, the steps
   that make files are in order, the codes of two colours are not mixed). **Done.**
7. `FanCpld`: configuration and its partial failure, hwmon, with the
   platforms' configurations as values. `FanWatchdog`: the time-out that the driver keeps
   against the one in the CPLD, and petting; the MTIA watchdog with it.
   `SmbSensors`: temperatures and limits of two bytes. Proofs of the three. **Done.**
8. `ChildController`: the life cycle of the devices a controller registers (clients,
   `mii_bus`, cdev) against the deletion of its auxiliary device, composed with `AuxBus`.
9. `RegisterCodec`: validation of the attributes of a CREATE and the conversions of PWM
   values over their whole range of bytes.

What comes next is 8 and 9. Properties are
replaced rather than added where a deeper one is found. Instances that differ by
a constant only are kept together by stating properties from the state that the constant distinguishes:
`trouble` in `MdioController`, `AnyPage` in `I2cMaster`, `use` in `FbcpldCdev`, `part` in `MCBoards`.

## 3. Modules

| Module | What it is |
|---|---|
| `AuxRegistry` | abstract: a registry of devices with unique ids, of one FPGA among others |
| `AuxBus` | the FPGA cdev, the auxiliary bus and the PCI driver, lock by lock |
| `AuxBusProofs` | proofs about `AuxBus`, and that it implements `AuxRegistry` |
| `MdioController`, `MdioProofs` | the MDIO driver, the fb-mdio cdev and the controller; proofs |
| `I2cMaster`, `I2cProofs` | the I2C master driver and its controller; proofs |
| `SpiMaster`, `SpiProofs` | the SPI master driver and its controller; proofs |
| `FbcpldCdev`, `FbcpldProofs` | the generic CPLD driver and the sysfs files it makes; proofs |
| `FanCpld`, `FanPlatforms` | the drivers of the fan CPLDs, generic and of the platforms; the configurations compiled into the latter |
| `FanProofs` | proofs about `FanCpld` |
| `RegisterFields`, `BoardTables`, `Boards` | fields of registers and the updates drivers make of them; the tables of files of all drivers; their LEDs and probes |
| `CpldDriver` | a driver of a board, its files and LEDs, and their users |
| `FanWatchdog` | the watchdogs of the fans |
| `SmbSensors` | temperatures and limits |
| `MCAuxBus`, `MCMdio`, `MCI2c`, `MCSpi`, `MCFbcpld`, `MCFan` | values of constants for TLC |
| `MCBoards` | the same for `CpldDriver`, `FanWatchdog` and `SmbSensors`, which it puts side by side |
| `BoardProofs`, `CpldProofs` | proofs about the latter two, and about `CpldDriver`, as parts of `MCBoards` |

Conventions. A step is what the code does between two points where another thread,
or the controller, can see or change the state: a lock taken and held, a register
read or written, a call into the driver core. `pc` names the point a thread has
reached; `vars` are grouped into what the driver keeps (`driver`) and what the
hardware does (`hw`). Each definition's lines in the source are in `PROJECT.json`
under `map`. Definitions commented `Mutant:` are not part of the model: each is a
wrong version of the definition that follows it, on record because it breaks one of
the properties.

**AuxBus.** A thread that creates a device allocates and validates (`NewAlloc`), adds
it to the driver core (`NewAdd`, `NewAddFails`) and only then takes `bus->mutex` and
lists it (`NewList`). Deletion looks the id up and deletes the device under the mutex
(`DelFound`), and frees it after. The PCI thread's probe and removal are modelled step
by step, the sweep of `fbiob_auxbus_destroy` included. `core` is the driver core's
view: whether an adapter is initialised, added or deleted. Other FPGAs add and delete
devices of the same names (`ForeignAdd`, `ForeignDelete`). `HotUnbind` says whether
the driver may be unbound while descriptors are open.

**MdioController.** `Wait`, `Clean…`, `Issue…`, `Fetch` are the register accesses of a
transfer in their order; `ResetBegin` and `ResetEnd` are those of `reset_bus`, which
takes no lock. `trouble` is a history variable: it becomes `some` when a reset runs
beside a transfer or another reset, or when a wait times out, and `none` again when a
reset has run with the bus to itself.

**I2cMaster.** One transfer is followed message by message and chunk by chunk:
`MessageBegin` (status cleared, address byte), `IssueRead` and `IssueWrite` (buffer, page select,
command), the outcomes of the poll, `NextMessage`. Bytes carry who sent them, for
which message, and their place, so that a stale byte is visible. `AnyPage` says whether
a transfer may begin with a read while the high page is selected.

**SpiMaster.** The SPI core's side of a message is modelled from the callbacks the
driver gives it: `Begin`, `NextTransfer`, `MessageDone`, `End`. A transfer is cut into
descriptors (`SendTx`, `SendRx`) and polled for (`TxDone`, `TxFails`, `RxDone`, `RxFails`).
`frame` is what the selected device has heard. `clean` is a history variable: the
message began on an idle controller and no poll of it has given up.

**FbcpldCdev.** `CreateBegin` to `CreateEnd` hold `entries_lock`; `TakeAll` takes the
count and drops the lock, and `RemoveFile` then removes files one by one by the names
that the entries have at that moment. `files` is the kernel's view: the entry that the file of a
name points to. `use` says what a behaviour may do: whether a DESTROY_ALL may run beside
other ioctls, whether the CPLD may go away while descriptors are open, and which batches
are created.

**FanCpld.** One model for all fan drivers: `board` is the configuration compiled in,
or `NoConfig` for the generic driver, whose processes ask for one (`Configure`, `Busy`,
`ApplyBegin`). A configuration registers an hwmon device, stops and registers a
watchdog and registers LEDs one by one, as `Drv` in a probe (`ProbePlatform`) or as the caller in an ioctl;
`ApplyFails` ends it at any of these. A failed probe releases what is there; a failed
ioctl leaves it and returns the lock. `hwmons` and `wdds` are sequences, so that a second
registration is visible. `serial` is what the PWM register would be if each write to
`pwmN` and `pwmN_enable` were a single step. The watchdog's file is used without the driver's lock.

**RegisterFields, BoardTables, Boards.** A register is the set of its bits that are 1. An
`Update` is what a driver does to one: the bits it clears and sets, the lock
it holds, and the value that a field must have for it to change anything.
`Store` is a write to a file; `PanelSet` and `FanSet` are the two ways `brightness_set`
is written; `PortSet` is that of the ports. `BoardTables` is every `sysfs_files` of the drivers,
entry by entry. `Boards` has one record per driver: its LEDs, how colours are read
and set, and its probe as a list of steps. Where drivers are copies of each other, each has
definitions of its own, so that one that changes is changed here alone.

**CpldDriver.** A behaviour is one driver and one register. The probe runs through its list
(`ProbeBegin` to `ProbeEnd`): it writes defaults (`DefaultBegin`), registers devices (`RegisterStep`),
allocates the handle of the files, checks the table, creates the group and keeps the action
that removes them (`AllocHandle`, `InitAttrs`, `CreateGroup`, `AddAction`). Each step may fail; what was
done is then undone from the latest (`ReleaseFiles`, `ReleaseLed`, `ReleaseOther`), as on removal. Users write to
files and switch LEDs: `Begin` takes the lock and reads, `WriteBack` writes, and over I2C
both may fail. `serial` is what the register would be if each update were a single
step, and `raced` whether a default value was written beside another update.

**FanWatchdog.** `limit`, `count` and `enabled` are the registers, `timeout` and `running` what the
driver and the watchdog core keep. `Tick` is five seconds. `quiet` counts them since the watchdog was last
heard of, which is what the time-out promises something about; `told` and `fresh` say from when on
it can.

**SmbSensors.** `chip` and `over` are the registers of a temperature and of its limit. A reader is
between its two transfers when `Measure` or another process changes them; `saw` collects the
values they had meanwhile. A driver is a record: its formula, what it does about a
transfer that fails, and what it refuses.

### What is assumed of the hardware

The FPGA is not in the repository; it is modelled from the registers the drivers use,
and those definitions are marked external in `map`.

* Status bits (`INTR_STS`, `DESC_STS`, the MDIO `STS`) stay set until written back as
  1: this is why the drivers write them back.
* A command ends with a status, or never. What a command written over a running one
  does is left open: it may replace it or be lost.
* The I2C controller takes the address byte of a command from the first cell of the
  low page, whatever page is selected for access, and uses the buffer across both
  pages: the driver fills and empties it this way.
* An MDIO reset clears the command and the status, and then its own bit.
* A device that is not selected on SPI neither hears nor answers.
* A boost of the fans ends with the next write to the control register of the watchdog,
  or to the counter of MTIA. The counter of a fan CPLD stops at 255.

Of the kernel, beyond the locks and lists it is known for:

* devres undoes what a probe has done in the reverse order, when it fails and on removal.
* sysfs refuses two files of one name in a directory, and removes a file only when
  no call is inside it.
* The LED core runs one work item per LED, and switches an LED off when it is
  unregistered. The kernel is built with `CONFIG_LEDS_TRIGGERS`, as the comment in
  `fboss_iob_led_trigger.c` has it, so that `led_trigger_init` and `led_trigger_deinit` do nothing.
* The watchdog core runs one operation at a time, refuses a time-out outside the bounds
  the driver gives, and pings a running watchdog after its time-out is set, and when it
  does not stop.

## 4. Runs

Deadlock is checked except where a bound on the number of messages ends the
behaviour (`I2cMaster`), and in `board_registers`, where a watchdog or a driver that is not loaded may stay so.

| Run | Instance | Shows |
|---|---|---|
| `auxbus_rmmod` | 2 callers and the PCI thread, 3 adapters, 2 ids, the last offset of the BAR, the first past it and the one that means none, a BAR below 4 GB; fair | with removal by `rmmod` only: `TypeOK`, `NoUseAfterFree`, `Accounted`, `NothingSurvivesRemove`, `AddressesInBar`; `CallsReturn`: ioctls and removals end |
| `auxbus_hot` | 3 callers, 3 adapters, 1 id that another FPGA uses too, unbinding at any time, a BAR above 4 GB | what is still true then: `RefinesRegistry`, the registry with orphans; `AddressesInBar`: controllers claim low words of addresses of the BAR |
| `mdio_transfers` | 2 clients, 1 process that resets, 2 registers, 2 values, commands that may never end; fair | `TypeOK`, `ReadsAreFresh`, `IssuedInOrder`, `ErrorsSurface`, `WritesLand`, `TransfersReturn` |
| `mdio_reset_race` (violation) | the same with a timely controller | a reset makes a read return an older value (`ReadsAreAtomic`) |
| `i2c_registers` | 2 devices, 17 kinds of transfer, a page of 3 bytes, 4 messages, NACKs, late and absent answers, a bus that stays busy; fair | `TypeOK`, `ReadReturnsOwnData`, `WriteDelivered`, `HeldForTransfer` (with `PolledTillDone` in it), `TransferReturns` |
| `i2c_page` (violation) | reads after a use of both pages | an address byte is put into the wrong page, and another device is read |
| `i2c_chunks` (violation) | a write of two commands | the second is taken for done because of the status of the first |
| `spi_messages` | messages of 1 and 2 transfers, of 1 and 2 descriptors; errors, late and absent answers; fair | `TypeOK`, `BytesInPlace`, `DescriptorsEnd`, `ErrorsSurface`, `MessageReturns` |
| `fbcpld_calls` | 2 processes, an array of 2; either 3 names and batches of up to 2 attributes, some invalid, no overlap, removal by `rmmod`; or 2 names and ioctls that overlap freely, unbinding at any time | in the first use `FilesMatchEntries` and `NothingSurvivesUnbind`, in both `TypeOK` and `UniqueNames` |
| `fbcpld_race` (violation) | DESTROY_ALL beside CREATE | an entry is rewritten while its file is still to be removed |
| `fan_config` | the generic driver with 2 processes and 5 configurations (3 of them invalid), one of which may fail; the drivers of all 8 platforms; any step of a configuration failing; fair | `TypeOK`, `ConfiguredOnce`, `NoLostUpdate`, `StoppedByUser`, `CallsReturn` |
| `board_registers` | one driver of each kind of files and LEDs, each register of it that can be written, 2 users; all watchdogs; all sensors, 2 readers; any step or transfer failing | `TypeOK`, `NoLostWrite`, `ShowsAColour`, `DarkWhenReleased`, `FilesComeAndGo`, `WatchdogKeepsTime`, `ReadingsAreSound` |

**Why these bounds.** Two callers and the PCI thread are every pair of operations that
can meet, three callers every triple at one id; a third adapter is needed for one to
be added while one is listed and one is being deleted. In `fan_config`, two processes suffice for
two configurations, or two writes to one register, to meet; one failed configuration leaves a
second hwmon device and a second watchdog; `PwmValues` is one value above
the highest PWM of each configuration and above a byte. The I2C page of 3 bytes keeps
the proportions of the code (one page, exactly one, one byte more, both; the last byte
of the second page belongs to reads only), and 4 messages let a transfer of two
follow another of two. SPI messages are numbered modulo 2, so there is no bound on how many
follow each other. In `fbcpld_calls` the array is full within a batch and names are
more than entries. `Transfers` of `i2c_registers` leaves out what the violation runs
show to fail, and no more: messages after one that left the high page selected,
messages of more than one command, and blocks whose count is within two of the maximum. It also
leaves out a transfer whose first message is a read and that goes on, because the read
ends with a STOP.

`board_registers` checks three parts that have no register, lock or call in common, so a
behaviour is one of one part and the others rest: nothing that could happen between them
is lost. Two users are every pair of updates that can meet; they
write no bit, one bit or all bits, to at most two files of a register, whose first value is
all 0 or has five bits set; the reserved bits of the port LED's register, whose `brightness_get` compares the whole
word, are among those that are 0, and stay so. Two drivers whose records are equal behave alike,
so one of them is run: if one of the copies changes, it gets a run by itself. Time-outs
are the least, one unit less, not a multiple of a unit, the most, and one more; the counter of MTIA is
found at 0, 1, 2, 6 and 255; three units without a ping (`MaxQuiet`) are enough for time-outs of
one and two units to run out, early, in time and late. Raw values of a
temperature are 0 and two that differ in the high byte and the low one; a raw value of 1
is left out, because its temperature has more than the 32 bits that TLC has. Limits are one that is usual, the
greatest that fits 16 bits, the next, and the least that is refused.

**Fairness.** A thread that is inside a driver keeps running: its loops only poll and
sleep, and the mutexes are handed over in turn (strong fairness of taking a lock, where
that is needed in `AuxBus`, stands for the queue of the kernel's mutex). Nobody is obliged to begin an
operation, and nothing at all is asked of the controllers: transfers return even if
these never answer, since each poll is bounded.

**Disagreements.** Each run marked as a violation shows one between the code and what
a comment of the repository says; `PROJECT.json` quotes it under `findings`. Smaller ones
that have no run are noted with the hazards: `aux_data_validate` adds a BAR address of 64 bits to fields of
32, so that with a BAR above 4 GB the "bus address" of its comments (`fbiob-cdev.c:16` and `:19`) is not one of the BAR; the error of a two-way SPI transfer's
first half is lost, the last bytes of the longest SMBus blocks are not received data,
MDIO commands may be issued to a controller that is still busy after a timeout. In the
drivers of the boards: two stores to files that share a register may lose one
(`NoLostWrite` is stated for one file at a time); switching off a port colour that is not lit darkens the port, or changes
its colour, and a fan LED is switched off whoever lit it; a limit of 416 to 475 degrees is accepted and becomes
another, because it is computed into 16 bits; two SMB drivers keep the result of a transfer in an
u8, so that an error becomes a byte of the temperature; `wedge800/w800c_smbcpld_i2c.c:95` describes the
temperature as signed and line 100 multiplies an unsigned byte.

## 5. Proofs

TLAPS checks every theorem below for all values of the constants that satisfy the
assumptions in the modules (`ConstantsAssumption`, `NoOpAssumption` and the like: threads, ids and
special values are distinct, bounds are natural numbers; sets need not be finite).

* **`AuxBusProofs`.** `TypeCorrect`. `StructInv` adds to the types who holds which
  adapter: a thread's `cur` is an adapter exactly while its `pc` is inside an operation that has
  one, no two threads hold the same, none holds a listed one, and the core's state of
  an adapter follows from where it is. From it, `AddressesAreInBar`,
  wherever the BAR lies: what a controller claims is an address of the BAR reduced to 32 bits, and it is in the BAR
  exactly when nothing was lost (`BusAddrOf`). For
  `NeverTouchesFreed`, `EveryAdapterAccounted` and `RemoveLeavesNothing`, under
  `~HotUnbind`, the invariant adds that the PCI thread is past its wait only if no descriptor is
  open, so that no client is inside an ioctl: the module reference is what these three rest on.
  `ImplementsRegistry`, in the second half of the module: initial states map to initial states,
  and each step to a step of the registry or to a stutter (`RefinesRegistry`), by the state function that
  makes a device of the registry out of each adapter the core has added, orphaned if the bus it was on is gone. That two
  such adapters never share an id (`UniqueIds`) is the driver core's doing; it is a lemma here, and no property of the runs.
* **`MdioProofs`.** `TypeCorrect`, including that the lock belongs to the one client
  inside. `Inv`: while `trouble = "none"`, `bus->state` tells what the
  controller is doing (`READY` only when it is idle with a clear status; `BUSY` when it
  is idle, working on the last command, or done with it), and each point of a transfer
  what its answer is; while `trouble = "reset"`, nobody else is inside and the
  controller is in reset or cleared. From it `ReadsFresh`, `InOrder`, `PostedWritesLand`.
  `NoErrorIsDropped` is an action property: only the three steps that write the status back
  clear the error, `Inv` rules out two of them (they run after a success, or on a clear
  status), and the third has made `-EIO` the answer.
* **`I2cProofs`**, from `RegisterAccess`: each message of a transfer takes one command, a
  read comes last and after no write that leaves the high page selected, and no device counts more
  bytes into a block than were asked for. `i2c_page` and
  `i2c_chunks` show that the properties fail for others. `MCI2c` states that its transfers are such
  (`InstanceAssumption`). Lateness, NACKs and absent answers are not restricted. Types alone are not
  inductive: `xfer` and the page bound each other. `Inv` adds to them who drives the bus at each `pc`
  (`Bus`: a command runs only while it is polled for, and the bus is held from the first message to the
  last), that the running command is the one of this message, with its payload in the buffer and a clear status
  (`Command1`), and that at `next` the answer is in `buf` or at the device (`Answered`). From it `TypeCorrect`, `ReadsOwnData`,
  `WritesDeliver`, `BusIsHeld`.
* **`SpiProofs`.** `Ended`: while `clean`, a command runs only while it is polled for, and
  it is the descriptor just sent, which `NothingOutlives` (`DescriptorsEnd`) follows from. `Placed` is
  about `frame` and `rxbuf`, for each point of a one-way transfer: all that was sent
  before, and the bytes of the descriptor in the buffer of the controller, each at its index; `before`, a history
  variable of `SpiMaster`, is how long the frame was when the transfer began. From it
  `TransfersInPlace`, for any number of descriptors of any size, and `NoErrorIsLost`.
* **`FbcpldProofs`.** `Inv` holds for every `use`: a descriptor is open only over a live
  cdev, `entries_lock` belongs to the one that creates, and the entry it is about to list has
  a name that no listed one has. From it `TypeCorrect` and `NamesAreUnique`. `FilesMatch` and
  `NothingSurvives` need the files too, and hold while `use` is without overlap and hot unbinding
  (`fbcpld_race` shows why): the invariant then says that one call at a time is inside, that every listed entry
  has a file that leads to it, and every file is that of a listed entry or of one that the call inside is about to
  remove. `ProtectedWhenCalm` is the property that `fbcpld_race` violates, proved for that use.
* **`FanProofs`.** `Inv`: who may be inside, who holds the lock, and that one that
  has read the PWM register under it has read its present value, so that `pwmReg = serial` (`NoWriteUndone`).
  `Progress`, while no step of a configuration has failed (`failed = 0`), says how much of the configuration is in place at each step, so that what is
  registered when it ends is all of it, once (`AppliedOnce`); after a failure the code promises less, and so does `ConfiguredOnce`. So it does for `OnlyUserStops`: the driver's own
  stop of the watchdog comes before any is registered.
* **`BoardProofs`**, about the specification of `MCBoards`, whose parts share nothing.
  `KeepsTime`: the invariant relates the counter in the CPLD to `quiet`, upwards from zero in the fan CPLDs (`FanCounts`), and
  downwards from the time-out or less in MTIA (`MtiaCounts`), with `fresh` for a counter that was set since the driver
  was loaded. Time-outs are any of the 1275 seconds. `ReadingsSound`: a reader that has its
  first byte has it in common with all values it saw, so that its second byte completes
  one of them (`ReadsWell`), and a limit that was written by one process alone is the one in the registers (`SettledWell`); with it,
  that converting a limit to the register and back loses less than a degree (`ReadsBack`), which is
  arithmetic of the formulas with truncating division. It is proved for limits from absolute zero (`AbsoluteZero`)
  up to the least one that is refused, which is more than the run tries; far below absolute zero, from about -718 degrees, it is false. `Word` is kept
  as an operator because the provers would enumerate its 65536 values.

* **`CpldProofs`**, about the same specification: any number of users, any inputs, each register that is
  watched, and any of the 27 drivers (`CInitInv` and `CStepInv` are stated for all; of drivers that are equal, `MCBoards` starts one). It takes from the tables what `TablesAssumption` of `CpldDriver` says of them, driver by
  driver: the four steps that make files are in a row (`FilesInOrder`), the entries pass the check and no file is named
  like an LED (`FilesAreLegal`), every colour is registered after a default value, and the updates of an LED share a lock
  or write the whole register (`LedIsLegal`), and one update at a time never mixes two codes (`ColoursAreLegal`). These are
  facts about definitions without parameters; TLC evaluates them before each run of `MCBoards`, so that a table
  that was changed to something else is reported there. The proofs are about what a single update does not show: several of them at
  once, failing transfers, and a probe or a removal that stops anywhere.
  `CInv` says that `todo` is the end of the probe's list (`Stepping`); that what is registered is what the probe has
  passed (`Registered`); how far the four steps of the files are, from `todo` while the driver probes or serves and from `done` when it
  releases (`FilesFollow`); that a process inside an update of a file or an LED has its file or LED still there (`Jobs`); and that no
  two hold one lock (`Locks`). `FilesAreThere` follows from it. For `NoWriteLost`, `InOrder` adds that what a process is
  about to write is what it would write had it read the register now: two processes inside at once
  either hold different locks, which at one file or LED they do not, or write the whole
  register. For `AColourIsShown` and `DarkAfterwards`, `Coloured` adds the
  colours that may be lit (`Lightable`): all while the driver serves, and then those still
  registered and the one being switched off; what is in the register, and what anybody
  has read of it, is one of them, dark, or, while all may be lit, left to the hardware. When none is left, only dark is.
  `TypeCorrect` puts the types of the three parts together.

Only model-checked: the liveness properties (`CallsReturn` of `AuxBus` and of `FanCpld`,
`TransfersReturn`, `TransferReturns`, `MessageReturns`), since the prover has no rules for
fairness here. Evaluated and not proved: `TablesAssumption`, as said.

## 6. What is not modelled

* `show` and `store` of the files that `FbcpldCdev` creates, and the details of which
  attributes are valid: planned as `RegisterCodec`. The files of `regbit-sysfs.c` that are only read, beyond their
  place in a table: to show them changes nothing.
* Probe and remove of the I2C, SPI and MDIO masters and the devices they register:
  planned as `ChildController`.
* Of the fan CPLDs: the files that only read, and the boost value, a register that is written
  as a whole; unbinding while files are in use. `mutex_destroy` runs there, and in the drivers of LEDs, before devres
  releases the devices whose release still takes the mutex; the kernel's mutex allows it unless it is built for debugging.
* What `FanCpld` follows of the code without a property: a write of 0 to `pwmN_enable`
  changes nothing, since the bit is only ever set; a highest PWM value of 128 or more, which the
  check of a configuration admits, overlaps that bit.
* The files `trigger`, `delay_on` and `delay_off` of `fboss_iob_led_trigger.c`, for kernels without LED triggers.
* The GPIO controller: three read-modify-writes of the register of one pin, which the GPIO core
  serializes for the one consumer that a pin has. Worth knowing: `get_direction` (`fboss_iob_gpio.c:59`) answers "input" whatever the
  register holds, since it ORs the bit where it would have to AND it; `direction_output` then always takes its first branch, which
  is right for a pin of either direction.
* Power monitors: `leh800b/mspm0.c` converts readings and keeps nothing; `tahansb/tps1689.c` is the
  vendor's driver for the pmbus core of the kernel, whose conversions take 64 bits.
* Of a sensor with several channels, all but one: each has registers of its own.
* Bulk copies of words (`fboss_iob_mmio.h`): `I2cMaster` has bytes.
* Two devices of one name on two FPGAs: the auxiliary bus is shared, so that an id in
  use on one is refused on the other (`ForeignAdd`, `NewAddFails`), though `fbiob-ioctl.h` calls it
  "the controller instance ID within the FPGA".
* Time as such, but for the watchdogs: whether a poll runs out is a choice of the model. That a full SPI
  descriptor takes about as long as its poll lasts at least is noted as a hazard.
* `backports/`: third-party drivers. Build files, packaging, `scripts/`: no state of
  the running system.
