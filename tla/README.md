# Verification of the UDC test-jig firmware

The firmware (C, bare metal, ARM Cortex-M3 side of a Concerto F28M36) turns a
UDC board into a test jig: a host sends BSMP commands over a USB serial line or
over TCP, the firmware runs a test of the board and the host reads the verdict.
This directory holds TLA+ models of that program, TLC runs that check them on
small instances and TLAPS proofs for every value of their constants. All paths
below are relative to `src/app/communication_drivers/` unless they begin with
`src/`.

Check a model with `tlc -config MCX.cfg MCX`, a proof with `tlapm XProofs.tla`.
`PROJECT.json` lists the runs, the lines of code each definition stands for, a
mutant of the code that breaks each property, and the hazards the properties
are for.

## 1. Inventory

There is one main loop and there are interrupts; there is no operating system.
`src/main.c` initializes (`SystemConfig`, the C28 core's boot, `SystemInit`),
enables interrupts and then alternates for ever `EthernetProcessData()` and
`TaskCheck()`.

| Component | State | Operations | Interacts with |
|---|---|---|---|
| Dispatcher (`system_task`, `main.c`) | one `volatile bool` per task | `TaskSetNew`, `TaskCheck` | every interrupt raises flags, every handler is called here |
| Global timer (`timer`) | ms and s counters, one counter per lamp | 1 ms interrupt | raises EEPROM check, temperature sample, lamps off |
| Lamps and IO expanders (`i2c_onboard/exio.c`) | shadow of the expander's output byte, mode per lamp | `LedStsCtrl`, `LedItlkCtrl`, `SoundSelCtrl`, `DcdcPwrCtrl`, `BuffersCtrl` | written by tasks, modes read by the timer interrupt |
| Jig functions (`bsmp/bsmp_lib.c`, `jiga`) | channel to test, 41 + 9 result variables | 14 BSMP functions; a test handler per task | raise tasks; drive lines; read the results the tasks left |
| BSMP server (`bsmp/bsmp/src`) | tables of variables, groups, functions, curves | one command per packet | called by the serial handler and by Ethernet |
| BSMP client (`bsmp/bsmp/src/client.c`, for hosts) | copies of the server's lists | one function per command; loading of the lists | sends commands, checks them against its copies |
| USB serial link (`usb_to_serial`) | receive buffer with index | UART interrupt, task handler, blocking transmit | raises its task, calls the BSMP server |
| TCP server (`ethernet/server_net/httpd.c`, `ethernet_uip.c`) | one receive buffer, one answer, one "send" flag | application callback, command processing, periodic timer | called by uIP, calls the BSMP server |
| uIP stack (vendored) | two connections with one outstanding segment each | `uip_input`, `uip_periodic` | calls the application for data, polls and retransmissions |
| Ethernet frames (`ethernet_uip.c`) | pending/transmit/receive flag bits, one packet buffer | ETH and DMA interrupts, get and put of a packet | main loop and interrupt share the flags |
| ARP (`uip_arp.c`) | table of addresses with their age | learn, look up, age | called for each frame and each outgoing packet |
| Parameters (`i2c_onboard/eeprom.c`, `parameters`) | copy of each parameter, "new data" mark each | `SaveX`, `EepromWriteRequestCheck` (each 100 ms), `TestEepromMemory` | BSMP raises saves, the timer's task writes them |
| Component tests (RTC, temperature, flash, SDRAM, EEPROM, supply) | one or two results each | request by BSMP, task, poll | I2C, SSI, EPI |
| ADC (`adcp`) | DMA buffer, last samples | SSI/DMA interrupt | read by the ADC test |
| CAN backup bus (`can`) | message objects' flags | interrupt, task | its initialization is commented out |
| IPC and shared memory (`ipc`, `shared_memory`) | command flags, setpoints | C28 interrupts, setters | setpoints drive the PWM outputs of the ADC test |
| Display, USB device, RS-485 links (`ihm`, `usb_device`, `rs485`) | own buffers | own framings | not started in this firmware |

What is hard here, and what makes each component correct:

* **Requests and interrupts.** A flag may be raised between its test and its
  clearing, or while the handler runs. No request may be lost; a higher task
  may not be passed; nothing ages, so lower tasks can starve.
* **One register, many writers.** All outputs of an expander are written from
  one shadow byte; a lamp handler must not disturb the isolated supply, and the
  timer interrupt reads modes that a handler is just changing.
* **Verdicts.** About fifty hand-copied scripts drive lines, read others and
  store results. A verdict must tell the fault of *its* line, a poll must answer
  the last run, and each script must leave its lines at rest for the next one.
* **Framing.** The serial link has only a size field; the interrupt looks at it
  before it has been received. Two interrupts tell of received characters, of a
  level and of a time-out, and either may join the other before it is served.
* **Shared buffers over TCP.** Two connections share one receive buffer and one
  answer; uIP relies on the application to make a lost segment again.
* **Server tables.** Groups carry derived fields (count, size, permission) that
  every registration and creation updates; checks are made by each command. A
  client works with copies built of many commands, beside other hosts.
* **DMA.** One packet buffer is read and written by two channels, whose ends are
  reported by the interrupt that also reports received frames.
* **Power failures.** Saves are written up to 100 ms later, one after the other;
  18 parameters have their places written by hand.
* **Tables by hand.** The CAN link has some 150 alarms and interlocks, each with
  its own bit, word, flag and status bit, shared by an interrupt, the main loop
  and the C28 core.

## 2. Modules

| Module | Models | Code it stands for |
|---|---|---|
| `SystemTask` | flags, `TaskSetNew`, the else-if chain test by test, the main loop | `system_task.c`, `src/main.c` |
| `TaskService` | `SystemTask` with history variables and its guarantees | |
| `FrontPanel` (extends `SystemTask`) | lamps: commands, handlers, timer interrupt, expander register | `timer.c`, `exio.c`, `jiga.c` |
| `WireTest` | all 32 loopbacks, 8 ADC channels, RS-485 bus test, tests of clock, expanders, isolated supply and SDRAM, against a board that can break | `jiga.c`, `rtc.c`, `exio.c`, `sdram_mem.c`, pins of `src/app/board_drivers/hardware_def.c` |
| `Parameters` | 18 parameters in the EEPROM, saves, the write check, boot, power failures | `eeprom.c`, `parameters/system/system.c`, `ethernet_uip.c` |
| `CanBkp` | CAN interrupt, `CanCheck` for four models, reset, words and flags for the C28 | `can_bkp.c`, `ipc_lib.h`, `main_var.c` |
| `RequestReply` | abstract: each request executed once, as sent, then answered | |
| `UsbSerial` | UART with its two receive interrupts, their handler, task and host; implements `RequestReply` | `usb_to_serial.c`, `bsmp_process_packet` |
| `BsmpServer` | registration and every command on variables, groups and functions | `server.c`, `server_priv.c`, `bsmp.c` |
| `BsmpClient` (extends `BsmpServer`) | the client library with its copies, beside another host, with losses | `client.c` |
| `BsmpCurves` (extends `BsmpClient`) | curves: the server's commands and the client's functions | `server_priv.c`, `client.c` |
| `EthernetServer` | TCP application, command processing, connections; implements `RequestReply` | `httpd.c`, `ethernet_uip.c`, parts of `uip.c` |
| `Arp` | the ARP table as operators | `uip_arp.c` |
| `EthernetFrames` (extends `Arp`) | interrupt handler, DMA transfers, turn of the main loop, addressing | `ethernet_uip.c` |
| `DispatcherProofs`, `UsbSerialProofs`, `EthernetServerProofs`, `EthernetFramesProofs`, `CanBkpProofs`, `BsmpProofs`, `ParametersProofs`, `WireTestProofs` | theorems | |
| `MC...` | instances for TLC | |

**How state and steps correspond.**

*SystemTask.* `flag[t]` is the bool of task `t`; `pc` and `pos` are where the
main loop is. A branch of `TaskCheck` is three steps, `TestFlag`, `ClearFlag`,
`CallHandler`, so an interrupt can come between any two. `HandlerCommand` is a
BSMP command executed inside a handler, `EthernetCommand` one executed before
`TaskCheck`. `PROCESS_RS485_MESSAGE` is not in the chain: its branch is
commented out.

*FrontPanel* (`PanelSpec`) gives the lamp handlers their bodies in two steps: `StartHandler`
sets mode and shadow, `EndHandler` has the I2C write behind it. The timer
interrupt is one step, since nothing the main loop does can come inside it.
`StsExpIO2` is the set of bits at 1.

*WireTest.* A test is a script of pin writes and expected readings; one step per
write and per reading. `level` is what the firmware drives, `Actual` what is on
the line given the fault, `Carried` what the bench's wiring brings to an input.
Memory cells and configuration registers are lines of their own that keep what
was written. A command of function type 0 is `Request`, of type 1 `Answer`.
`truth` is history: what the last run should have found, when the board did not
change meanwhile. `Conclude` ends a script with the verdict and the rest levels.

*Parameters.* `data` and `newData` are the RAM copies and their marks; `memory`
is the chip, byte by byte at the code's addresses, with page writes that wrap
and reads that do not. `WriteItem` sends the bytes, `FinishItem` is the end of
the 5 ms wait, so the power can fail in between and leave the addressed bytes
undefined. `written` is history.

*CanBkp.* `object[n]` is what message object `n` holds, `received` is
`g_bRXFlag1` .. of the objects, `pc`, `at`, `bit` say where `CanCheck` is: at
which object and at which of the 16 bits of a status message. Setting an
interlock is three steps (word, flag, status bit), and the C28 or the interrupt
may come between any two. `reported`, `known`, `newest` are history.

*UsbSerial.* `data` and `index` are `recv_buffer`; stale bytes stay in `data`.
`line` is what the host has sent and nobody has read, `arrived` how much of it is
in the FIFO of the UART, `pending` what `UARTIntStatus` would return, `timing`
whether the receive time-out runs. `Arrive` raises "RX" when the FIFO comes to
`Level` characters and starts the time-out, `TimeOut` raises "RT". `UartInterrupt`
clears what is pending and reads the FIFO if that was one of the two, as the
comparison in line 110 has it; with both it reads nothing. Some of the bytes it
reads may have arrived since it began. `Prompt` says that the handler is entered
before the time-out joins the interrupt of the level. `Packet` is what the library
makes of the buffer.

*BsmpServer, BsmpClient, BsmpCurves.* `vars`, `groups`, `funcs` are the tables,
`value` the memory the variables point at; each command is one step that leaves
an answer. Values are one bit, on which the binary operations act as on every
bit of a byte. A behaviour has `hosts`: "any" hosts that send whatever they like
while the application registers its objects; one "client" that uses the library,
beside another host that only rearranges groups; or a client and another host at
work on a curve. In the last two the application registers its objects first
(`SetUp`, `Complete`), as `bsmp_lib.c` does at startup. `cache` is the client's lists, `job` where it is in loading
them: one command per step. `Exchange` is `command` of `client.c`: the request is
lost, or executed and its answer lost, or all goes well. `report` is what the
application asks for in a step and is told. Curves have `curve` at the server,
`copy` and `work` at the client.

*EthernetServer.* `conn` is `uip_conns` with the segment outstanding on each and
its retransmission count; `rx`, `response`, `new_data_send` are the
application's. A frame received is one step with everything `EthernetProcessData`
does for it, the command included; `Periodic` is the periodic timer over all
connections in the order of the table. Peers and the network are the
environment.

*EthernetFrames.* Below that step. `fifo` is the controller's, `flags` is
`g_ulFlags`, `rx` and `tx` the channels' modes, `buffer` is `uip_buf`, `pc` the
place in `EthernetProcessData`, whose every access to the flags, the interrupt
mask and the channels is a step. The interrupt handler is one step and comes
before the main loop's next one whenever it is pending. `slip` is history: one of
the two windows the code leaves open has been hit (see `FramesAreWhole`).

## 3. Runs

| Run | Question | Instance | Result |
|---|---|---|---|
| `dispatcher` | Is every request served after it was made, in priority order, and in its turn once the higher ones are quiet? Do register, shadow and modes agree, are supply and buffers left alone, do lamps go off? | 7 tasks of all three origins, in the code's order; two lamps, seconds of 3 ticks, EEPROM check each 2, limit 0; a behaviour follows either the requests or the lamps | holds |
| `wire_test` | Does the answer tell the fault, are lines at rest, never two drivers on the bus, is the channel asked for run? | four campaigns: loopbacks 16 and 29 with ADC 3; RS-485 with loopbacks 26, 27; clock with supply; expanders with SDRAM | holds |
| `wire_test_channel_15` | Does channel 15 report its own line? | loopbacks 10, 15 | **violated** |
| `usb_serial` | Are characters never left in the FIFO, and is each request executed once, as sent, and answered? | bytes of 3 values, buffer of 8, five requests; the handler in time (`Prompt`) | holds |
| `bsmp_server` | Are groups and lists right after any registrations and commands, is nothing changed that must not be; is a client served truly beside another host; does a curve keep its content and have the checksum of all of it? | 3 variables, 1 function, room for one more group; a curve of 3 blocks of 3 bytes, data of 1, 6, 8 and 10 bytes | holds |
| `bsmp_checksum` | Does it when a curve has more blocks than a block has bytes? | a curve of 3 blocks of 2 bytes | **violated** |
| `ethernet_server` | Is every TCP request executed once and answered to its sender; with loss, are answers not mixed up and is no connection stuck? | two peers in turns, two requests each, with and without loss, two retransmissions | holds |
| `ethernet_server_two` | Does a peer get its own answers when two talk at once? | two peers at once | **violated** |
| `parameters` | Does every parameter read back as written, is the verdict that of the memory, is a board never without an address, is what was saved written? | all 18 parameters, three of them set; two saves, two power failures, one fault; with and without the call at boot | holds |
| `can_bkp` | Does the C28 learn of every interlock, does a reset let it be reported again, is nothing forgotten or shown in another's place, is every flag served? | the four models; one status and one measuring identifier each | holds |
| `can_bkp_stranded` | Does a message that waits have its flag? | one model | **violated** |
| `ethernet_frames` | Is the board never deaf, do its waits end, are frames whole, addressed as announced, is a fresh entry known? | three workloads: bursts, periodic packets, announcements around the turn of the clock; table of 2, two connections | holds |

What the less obvious properties say: `CachedGroupsStand` and `MeantIsDone` hold
until groups are removed: ids are positions, so that a removal by another host
gives the ids a client has kept to other groups, and nothing tells it.
`WrittenReadsBack` speaks of writes that the client calls successful.
`ChecksumIsTheCurves` compares the checksum with the bytes of the whole curve,
which end with the first block that is not full, as they do for
`bsmp_read_curve`: it says that the server's loop covers them all, and that no
write leaves the checksum of older content standing. `FifoIsServed` says that for
characters in the FIFO an interrupt is pending or will come. `FramesAreWhole`
excepts two windows that the code leaves open, named below.

**The four violations.**

1. *Channel 15* (`jiga.c:1593`) stores its success in `loopback_10_result`. Once
   it has failed it answers error for ever, and a good board 15 hides a failure
   of channel 10.
2. *Two peers.* `httpd_appcall` hands the pending answer to whichever connection
   uIP calls it for next, and appends what any connection sends to one buffer.
3. *A CAN message between reading and clearing.* `CanCheck` reads an object and
   clears its flag only after storing the message; one that arrives in between
   is left without a flag (`can_bkp.c:381`).
4. *The checksum of a curve.* The loop of the server ends at a block of fewer
   bytes than the curve has *blocks* (`server_priv.c:694`): of a curve of 3 blocks
   of 2 bytes only the first block is covered, while `bsmp.h:155` says "MD5
   checksum of the curve".

**What else the models show of the code, without a run of its own.**

* `Usb2SerialIntHandler` compares the interrupt status, which it has cleared, for
  equality with one interrupt and with the other (`usb_to_serial.c:110`). A
  handler entered later than 32 bit times (0.28 ms) after the last character of a
  request can find both, clear both and read nothing: the characters stay in the
  FIFO, no interrupt comes for them, and the host waits for ever. With
  `Prompt = FALSE` in `MCUsbSerial.cfg` TLC shows it, on a request of three
  characters, as a violation of `FifoIsServed`. The code bounds that delay nowhere:
  other handlers have the same priority, and the UART is set up before interrupts
  are enabled (`system.c:154`, `main.c:132`). A time-out that comes first does no
  harm: the character that completes the level starts it again.
* Channels 17, 18, 19, 20, 32 drive `BP_I2C_SDA` and `BP_I2C_SCL`, which
  `PinoutSet` has given to the I2C peripheral (the lines that made them outputs
  are commented out, `hardware_def.c:293-296`): they fail on a good board.
* `httpd_appcall` does not look at `uip_rexmit()`, although `uip.h:701` asks for
  "the exact same data": a lost answer is followed by another one in its place or
  by nothing, until uIP gives the connection up (`SlotFreed`).
* `EthernetPacketGetDMA` and `EthernetPacketPutDMA` mark a transfer before its
  channel is started; an interrupt in between takes the stopped channel for one
  that has finished (lines 554-574, 645-667). And the wait for a transmission is
  skipped while the controller still transmits the frame before (679). Both end
  in frames that are not whole.
* The age of an ARP entry is `arptime - tmpage` taken as int: an entry last heard
  when `arptime` was above 135 is never dropped by the timer.
* With no router set, a packet for another network goes to the hardware address
  that an unused or dropped entry still holds.
* The CAN tables contain copies: rectifier 2's over-voltage is reported as that of
  rectifier 1 (`can_bkp.c:1014`), a case without break gives the buck module
  identifiers of another model (1917).
* `bsmp_recalc_checksum` expects `CMD_OK` (`client.c:790`), the server answers
  `CMD_CURVE_CSUM` (`server_priv.c:700`): the function always reports an error.
* `bsmp_write_curve` sends a block for every block of the curve: with data that
  end before the last one it sends an empty block and reports an error.
* After a removal of its own whose reload of the list fails, a client keeps its
  old groups and reports success (`client.c:638`).
* The temperature test answers with the SDRAM's verdict (`jiga.c:247`), the flash
  test with an identity read once at boot (172).

**Bounds and why they are enough.** The dispatcher's behaviour depends on the
order of tasks and the origin of requests; seven tasks interleave all origins
above and below each other, and the proofs are for every chain. Two lamps suffice
because handlers touch one lamp and the shared byte; the shortened seconds keep
every coincidence of the two periods, and a lamp's counter still counts a second
before its limit is passed. The campaigns of `WireTest` put together
the tests that share lines or verdicts; each fault of a line, stuck at each
level, appears in one. The serial instance has requests without payload, with a
payload that looks like a header, one that fills the buffer and every mix of two
size fields; `Level` has its value in the code, so that requests with an odd
number of characters end below it, and the shortest is above it; the proof is for
every buffer and request set. A variable without a
check, one with a check and a read-only one of the largest size are all the kinds
a BSMP command can tell apart; two hosts that make groups of the same size
compete for one place, and the data of a curve end inside it, with a block, in
its last block and beyond it. A curve of three blocks of three bytes has full and
short blocks, and empty ones, in every place; for it the limit in the server's
loop and the size of a block are the same, and with blocks of two bytes they are
not. All parameters are in the memory with their real
addresses; those that are set are an address and the two neighbours in place and
order. Bits 1 and 6 of a CAN status message are a hard and a soft interlock, and
each model has one status and one measuring object. Two peers and two connections
are what the TCP server has; a retransmission count of two has first, repeated
and last retransmissions. The ARP clock of 256 values with a limit of 120 is
scaled to 3 and 2, which keeps a limit below the number of values and a distance
that can be negative; three hosts compete for two places. `Spec` of no model is
cut by a state constraint; all bounds are constants named in the configurations,
or guards (`MaxSaves`, `MaxLosses`, `MaxFaults`, `MaxAsk`, the depth of a
workload) on the environment's actions.

**Assumptions about the environment.**

* *WireTest*: the 5 ms wait before each reading outlasts the settling of the
  lines and the refresh of values that come through the C28 core and the ADC. A
  memory cell stuck at the very byte the test writes is not among the faults: the
  tests write the same bytes in every run and cannot find it.
* *Parameters*: pages of 32 bytes; a power failure during programming leaves the
  addressed bytes undefined and the others alone; a chip that is broken ignores
  writes. A programmed value never reads as blank (a 0xFF RS-485 address is).
* *CanBkp*: a message that arrives at an object not yet read replaces the one
  there (a later one is lost or replaces it, as the controller is set up); what
  the C28 does with the words is its own affair. Measured values are small
  integers for floats.
* *UsbSerial*: the host waits for its answer before it sends again, no byte is
  lost on the line or overrun in the FIFO of 16 characters (the handler is
  entered within 1.4 ms), and an answer reaches the host after the handler
  has emptied the buffer, since the UART still has it to transmit then. The
  time-out of the UART starts with a character and not when its interrupt is
  cleared; the interrupt of the level comes when the FIFO reaches the level. In
  `usb_serial`, and in the theorem `FifoServed`, the handler is entered before the
  time-out can join the interrupt of the level (`Prompt`); the other theorems do
  without that. The requests satisfy `MessageAssumption`: also a size put together from the high
  byte of one and the low byte of another fits the buffer. The jig's requests
  have a payload of at most 15 bytes, so their high byte is 0.
* *BsmpClient*: a client learns of a lost message as an error of its own send or
  recv; an answer never comes after its command was given up.
* *EthernetServer*: the peers' own TCP is correct and retransmits, so only pure
  acknowledgements are lost for good towards the board; segments are lost
  towards the peer. The retransmission time can run out at any moment, but the
  whole series of retransmissions, of many seconds, outlasts frames in flight.
  In the passing run peers take turns (`Orderly`); `ethernet_server_two` drops
  that.
* *EthernetFrames*: the RX interrupt stays pending while the FIFO holds a frame
  and it is enabled; DMA transfers end; the buffer is aligned for DMA and frames
  fit it. The check of the hardware address in `EthernetInit` cannot fail.
* I2C, SSI and EPI transfers complete; the code busy-waits for them without a
  timeout.

**Fairness.** The main loop is never suspended for good, as interrupt handlers
are short and nothing blocks while devices answer: weak fairness of `MainLoop`,
`Firmware`, `Handler`, `Receive`, `Tick`. The timer interrupt comes for ever.
Bytes on the serial line arrive, a receive
time-out that runs does run out, and a pending UART interrupt is taken (weak
fairness of `Arrive`, `TimeOut`, `UartInterrupt`): taken, not served, since the
handler may read nothing. TCP peers take what arrives and finish what
they began to send. A retransmission time that runs does run out (`Expire`). DMA
transfers and transmissions end. Nothing is assumed of hosts' requests, of other
interrupts, of breaking boards, or of frames and ticks in `EthernetFrames`. Where
fixed priority lets a busy higher task starve a lower one, the property says so
in its premise: `ServedWhenHigherQuiet` (the higher ones are quiet from some time
on), `LampGoesOff` (the scan reaches the branch again and again).

**Reachable ends.** No run switches the deadlock check off: idle main loops,
retransmission timers and polls keep every model moving.

**Type invariants.** Those of all modules are proved. The runs check those of
`TaskService` and `FrontPanel` too.

## 4. Proofs

All theorems are checked by TLAPS from the named assumptions on constants alone.

*Dispatcher* (`DispatcherProofs`; any set of tasks, any chain without
repetition, any sources): `TypeCorrect`, `RequestsKept` (`[]NoLostRequest`),
`PriorityRespected` (`[]HigherPendingFirst`). `HigherPendingFirst` is not
inductive: that the branches behind `pos` were not pending when the scan began
must also hold *while* scanning (`PassedNotSeen`), and to extend it by the branch
just tested one needs that what was pending then still is
(`SeenStillPending`), true because only `ClearFlag` lowers a flag.

*Lamps* (`DispatcherProofs` too; any chain, lamps and timing): `PanelTypeCorrect`
(counters within their limits), `PanelShown` (`[]BoardMatchesModes`),
`PanelSparesSupply` (`[]SupplyUndisturbed`). The strengthening says that the
register is behind its shadow only while a *lamp* handler runs
(`WrittenUnlessSwitching`): other handlers are at the same place of the main loop
and write nothing. `ShadowUndisturbed` states for the shadow what the property
states for the register.

*Line tests* (`WireTestProofs`, any campaigns of the jig's tests, any faults):
`LinesComeToRest` (`[]LinesAtRest`), `BusIsFree` (`[]NoBusContention`). Each script is
first shown to be `WellMade`: it ends with a reading, every line it drives is
brought to rest by what is written in the end, and it turns no transceiver on
before the others are off. The invariant `LineInv` then says that a test that runs
has a part of its script before it or a part of what it writes in the end, that
every line not at rest is still to be written there (`ComesToRest`), and that what
is left of the script turns no second transceiver on (`OneTalks`). All of it is
stated of the steps that are left, so a step taken off the front keeps it without
an induction over the script. `WireTypeCorrect` is the type invariant.

`AnswersTellTheFault` (`[]AnswerTellsTheFault`) has one hypothesis: every campaign
is `Tellable`, that is, without the tests that are `Useless` (channel 15 stores its
success elsewhere; 17 to 20 and 32 drive pins of the I2C peripheral) and the faults
that are `Misleading` for one of its tests (a memory cell stuck at the byte
written there, a direction line of the RS-485 bus, a supply that is always on,
channel 29's line stuck high). `MCWireTest` has TLC check that the campaigns of the
run are (`CampaignsTell`). Test by test the script is shown to be
`Conclusive`: what each reading expects was commanded by the steps before it, every
stuck line it uses differs at some reading from what is expected there, and
it drives nothing that other tests take as set up at boot. The invariant
`VerdictInv` then says where in its script the handler is (`KeepsToScript`), that
the lines have the levels of the steps before that place (`Followed`), and that a
fault that was there from the start is found at a reading ahead. So the script
cannot end well on a bad board, and a reading that differs on a good one does
not exist.

*Serial link* (`UsbSerialProofs`, any byte range, buffer and request set within
`MessageAssumption`): `UsbTypeCorrect` (the buffer does not overflow),
`BytesKept` (`[]NothingLost`), `PromiseKept` (the safety half of implementing
`RequestReply`: initial states map to initial states, every step to a step or a
stutter), all three for a handler however late; and `FifoServed`
(`[]FifoIsServed`) for one in time, `Prompt`, without which it is false. Its
strengthening `Served` says that both interrupts are pending only while the
time-out runs once more, so that what is cleared unread is asked for again. The invariant ties buffer and line together byte by byte (`Arriving`),
says that the two bytes read as the size come from requests but perhaps from
different ones (`SizeBytes`), and that the link is at rest between requests. Two
lemmas carry the argument: no mix of size bytes looks too long
(`NeverOverlong`), and the comparison with a size that has not yet arrived
cannot succeed before the header is complete, after which it is right
(`WholeIsWhole`).

*TCP server* (`EthernetServerProofs`, any number of peers, connections, requests,
parts of a request and retransmissions): `EthernetTypeCorrect`, and for peers that
take turns (`Orderly`) `AnswersAreMine` (`[]AnswersMine`) and `EthernetPromiseKept`
(the safety half of implementing `RequestReply`, over a network without loss).
Buffer, answer and mark belong to no connection, so nothing said of one connection
is inductive: the invariant `IInv` follows the one conversation the board has.
Nobody talks (`Quiet`), one peer knocks (`Knock`), or it talks over one connection
and is in one of the stages from `Opening` to `Parting` (`Talk`), each of which
fixes the peer, its connection, every frame in flight both ways and the shared
variables. What makes the stages few is `Telling`: what the peer has said since its
last answer, with the acknowledgement of that answer before it or lost. Each
action is shown to lead from a stage to a stage (`TalkStep`, `KnockStep`,
`RestingStep`), and what the step does to requests and answers (`Outcome`) is what
the promise allows. Besides `Orderly` the proofs use `ServerAssumption` (a
request has at least one part, there is a slot) and `MarkAssumption` (the marks
for a SYN, a FIN and nothing are no answers).

*Frames and ARP* (`EthernetFramesProofs`, any number of connections, table size,
clock and workload): `FramesTypeCorrect`, `StaysAttentive` (`[]NeverDeaf`),
`AnswersReachTheirHost` (`[]AnswersGoHome`), `FreshEntriesStay`
(`[]FreshIsKnown`), `FramesStayWhole` (`[]FramesAreWhole`). Each property has a
strengthening of its own. `Armed`: the RX interrupt is enabled, or the flag is
up, or the step that enables it is next. `HomeInv`: no address has two entries,
so that the entry an announcement overwrites is the only one a packet can be
addressed by, and every entry has what its host announced last. `LastIsThere`:
the entry of the host heard last has an age equal to the timer's runs since, or
less than it by the range of the clock once that has started again; in both
cases the comparison made by the code keeps it. `Whole`: unless one of the two
windows was hit, a channel runs only while the main loop waits for it and the
frame it copies is the one at the head of the FIFO or in the buffer. The
assumptions: only local hosts send ARP, and the empty address is nobody's. That
a place in the table is always found is the existence of a least element, by
well-foundedness of the natural numbers (`FirstIsIn`, `PlaceIsSlot`).

*CAN link* (`CanBkpProofs`, any set of models, identifiers and messages; the
tables are the code's): `C28LearnsOfInterlocks` (`[]InterlockReachesC28`),
`LatchesAreReported` (`[]LatchedIsReported`), `ReportsStay`
(`[]NothingForgotten`), `FlagsAreServed` (`[]FlagIsServed`), `ShownStaysNewest`
(`[]ShownIsNewest`), `CanTypeCorrect`. The first three are inductive as they stand:
the order word, flag, status bit is what keeps them. `FlagIsServed` needs that flags are raised
for set-up objects only and that `at` stays a number (`FlagsInUse`).
`ShownIsNewest` needs that an object without a message is one just being
processed, whose data are the newest, and that messages say what their object's
counter says (`MessagesInPlace`). On that rests the type invariant
(`CanTypeCorrect`): only if a set flag means a message is there is what lies in the
buffer a message of the object looked at, so that its bits are in the tables of the
model (`Typed`).

*Parameters* (`ParametersProofs`, any bytes, any parameters the hosts set, any
number of saves and losses; the table of places is the code's):
`ParametersTypeCorrect`, `MemoryIsKept` (`[]MemoryHolds`), `VerdictIsRight`
(`[]VerdictTellsTheMemory`), `AddressComesFirst` (`[]NeverWithoutAddress`). That no
two parameters share a cell and none crosses a page is shown from the table
itself; programming one then leaves the cells of all others alone. The invariant
follows a parameter from its mark through the programming to the read-back: what
is being programmed is `Torn` until it ends, what the verdict compares is what was
sent, and the defaults of an empty memory are written in the order of the code,
the marker after the addresses (`DefaultsInOrder`).

*BSMP* (`BsmpProofs`, any variables, sizes, permissions, checks, functions, limits
and lists of ids, any number and size of blocks, any data). `Spec` is the server
alone, `CurveSpec` the server with hosts, client and curve; the theorems about the
server hold for both.

- *Tables:* `ServerTypeCorrect`, `GroupsStayWellFormed` (`[]GroupsWellFormed`). The
  invariant `ServerInv`: no variable is registered twice, each group is `Proper`
  (its variables are registered ones in the order of registration, size and
  permission are theirs) and the standard groups are complete. Appending a variable
  keeps a group proper, and by induction over the ids of a request so does
  `group_create` (`CollectedProper`); sums over a list are handled by the sums of
  its beginnings (`SumOfOneMore`).
- *Values:* `ReadOnlyStays` (`ReadOnlyKept`), `RefusalsAreHarmless`
  (`RefusedIsHarmless`). Neither follows from the commands' own checks: `group_write`
  and `group_bin_op` look at the group's permission only, which `ServerInv` ties to
  its variables. `Right` is what a command may do to the values, `Effect` what a
  step of the server may do, and every step of every host is shown to be one
  (`StepEffect`).
- *Lists:* `ListsAreTrue` (`[]ListsTellTheTruth`), under `ListsHaveRoom`: sizes are 1
  to 128 and there are fewer than 128 variables. The second part is needed: the
  code takes 128 (`BSMP_MAX_VARIABLES`), and the byte of a group of 128
  (`server_priv.c:317`) reads as an empty group with the opposite permission. This
  firmware registers 14 functions and no variable.
- *Client:* `CopiesStand` (`[]CachedGroupsStand`), `MeantIsWhatIsDone`
  (`MeantIsDone`), under `ListsHaveRoom` too. `ClientInv` says what the copies are worth at
  each point of loading them: the variables as registered once the list is there,
  the groups up to the one asked for complete, those behind it with number and
  permission only (`RightGroups`). It needs that nothing is registered once the
  client works (`Ready`), which is why `SetUp` comes first.
- *Curve:* `ChecksumStaysCurrent`, `SquareCurveChecksum`: whatever two hosts do, a
  curve is left alone, or a block is replaced and the checksum dropped, or the
  checksum computed from the blocks (`Touched`), so that a valid checksum is what
  the code's loop makes of the blocks as they are now (`Current`). It is that of
  the curve, `ChecksumIsTheCurves`, whenever the limit of the loop and the size of a
  block tell the same blocks from full ones (`LimitsAgree`); this is always so if
  there are as many blocks as a block has bytes, and need not be
  otherwise, as `bsmp_checksum` shows. `ReadsBack` (`[]WrittenReadsBack`):
  `CurveInv` says that while writing the blocks behind the current one hold their
  parts of the data and what is left begins at it, that a write with success was of
  data that reach into the last block, and that what was read so far is the
  beginning of the data. The lemmas about parts of a list (`CutOff`, `PutTogether`)
  do the arithmetic once.

Only model-checked: liveness (`ServedWhenHigherQuiet`, `LampGoesOff`,
`AskedIsRun`, `SlotFreed`, `SavedIsWritten`, `WaitsEnd` and the liveness half of
`Implements`), which needs fairness and ENABLED. Every safety property of every
passing run is the subject of a theorem.

## 5. Not modelled, and why

* Not called in this firmware: display, RS-485 links, control law, supervisory
  commands, the commands and setpoints for the C28 (the jig registers functions
  only). The CAN link and the check of a new EEPROM at boot are commented out,
  too, but modelled, since that is where the repository's own logic is.
* Register access over I2C, SSI and EPI: hardware without control of its own; a
  transfer is one step of its caller. The clock's date and the temperature
  sensors are no more than that.
* ADC sampling below a channel's last value: the order of DMA and SSI is fixed by
  registers.
* In uIP: IP, UDP, checksums, windows, urgent data.
* Vendored code: USB stack, console, driver library, MD5.
* Values returned for unknown channels and function types are uninitialized
  memory (`jiga.c:322`); no property can say what they mean.

## 6. Plan

Done: dispatcher, lamps, line and component tests, serial link, BSMP server with
client and curves, TCP server, frames and ARP, parameters, CAN link, and the
proofs above. Next, in this order:

1. `AdcSampling` (DMA double use of one buffer) under the readings of `WireTest`.
2. The composition of `EthernetFrames` and `EthernetServer`: a frame that is not
   whole as one that is lost.
