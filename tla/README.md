# A verification of the BBK 9588 emulator

The repository emulates a handheld computer, the BBK 9588 with its Ingenic
JZ4740.  A custom QEMU machine (`src/qemu/overlay`, C) runs the original
firmware from a raw NAND image; a Python front end (`src/emu`) owns that image,
starts and stops QEMU, and serves screen, sound, keys, touch and a file manager
to browsers.  This directory holds TLA+ models of the devices of the board, of
the patched CPU core and of the sessions of the front end, the TLC runs that
check them on small instances, and proofs, checked by TLAPS, of what holds for
every size.

Paths below are relative to the repository; `hw/` stands for
`src/qemu/overlay/hw/` and `mips/` for `src/qemu/overlay/target/mips/`.

1. [The system](#1-the-system)
2. [The plan](#2-the-plan)
3. [The modules](#3-the-modules)
4. [The runs](#4-the-runs)
5. [The proofs](#5-the-proofs)
6. [Findings](#6-findings)
7. [What is left out](#7-what-is-left-out)

## 1. The system

### 1.1 Threads, locks and processes

| who | runs | under |
|---|---|---|
| vCPU thread | guest instructions; a device register access | the big QEMU lock (BQL) for the access, nothing for `WAIT`'s own tests |
| QEMU main loop | timers, block completions, host input, QMP | the BQL |
| front end, request threads | one per HTTP request or WebSocket | `nand_lifecycle_lock` for every command that starts, stops or switches |
| front end, tick thread | publishes status twice a second | `lock` |
| front end, page threads | a loop for pictures and one for sound per page | `lock` to fetch, nothing to send |
| front end, reader threads | what QEMU writes: frames, sound, stderr, QMP events | the backend's lock to store it |
| debugger requests | GDB exchanges, each with a timeout | the backend's lock for the whole operation |
| another front end | the same on the same host | an advisory OS lock per NAND image |

So inside QEMU a register access or a callback is never interrupted by another
one.  It is not one step for that reason: devices call each other through
`qemu_irq` lines, and a call may come back into its caller (the AIC's FIFO
drives a DMA request, which runs the DMAC, which pushes into the FIFO).  And
three things do happen between any two accesses: a timer may fire or be late, a
block request may complete or fail, the host may move the pen.

The Web front end starts QEMU with the adaptive instruction counter and a single
TCG thread (`src/emu/web/frontend.py`, docs/jz4740-qemu-remodel-plan.md:363).
This is what makes "a due timer runs before the next guest instruction" a fair
assumption for the timer unit, and for it only (`Icount`, section 3.5).

### 1.2 Inventory

| component | state it keeps | operations | talks to |
|---|---|---|---|
| raw NAND, commands: `hw/block/bbk9588_nand.c` | cells, last command, address bytes, program buffer and its range, status, busy samples | command, address and data windows; page read, program, random data input, copy-back, erase, status, id, reset | GPIO C30 (ready event), the backing layer |
| raw NAND, backing: the same file | `dirty_generation`, `flush_generation`, `flushed_generation`, timer, request in flight | write-back, `nand_flush_timer_cb`, `nand_flush_complete`, shutdown notifier, unrealize | block layer, host page cache |
| interrupt tree: `hw/intc/jz4740_intc.c`, `hw/mips/bbk9588.c`, `mips/tcg/exception.c`, `mips/cpu.c` | pending and mask, the board's copy of the output, the CPU's IP2 level, Cause, `halted`, the wake request | source lines, mask writes, resample timer, `cpu-irq-output`, WAIT, interrupt entry | every device, the vCPU thread |
| TCU: `hw/timer/jz4740_tcu.c` | per channel base, anchor, compare, half compare, clock; enable, stop and flag masks; two deadlines per channel; one host timer | register writes, timer callback, reset | interrupt tree (three parents and an event output) |
| SADC: `hw/input/jz4740_sadc.c` | pen, pending channels, touch FIFO, states, masks, shared timer, owed samples | `jz4740_sadc_set_touch`, timer, register accesses | interrupt tree, host input |
| DMAC: `hw/dma/jz4740_dmac.c` | per channel source, target, count, command, control; request levels; `transferring` | register writes, doorbells, `jz4740_dmac_set_request`, `jz4740_dmac_kick`, descriptors, bulk callback | AIC, MSC bridge, interrupt tree |
| AIC: `hw/audio/jz4740_aic.c` | FIFOs, control, sample timer, frame debt, block boundary | register writes, sample timer, push, pop | DMAC, host voice |
| MSC and bridge: `hw/sd/jz4740_msc.c`, `hw/dma/bbk9588_dma_bridge.c` | command, pending transfer, block counts | commands, responses, bulk transfer of up to 128 sectors | DMAC |
| RTC: `hw/rtc/jz4740_rtc.c` | seconds, alarm, control, hibernation, wake-up cause, power-down | register accesses, host timer, alarm, reset, wake | board (power-down, reset) |
| GPIO and host input: `hw/gpio/jz4740_gpio.c`, `hw/input/bbk9588_host_input.c`, `hw/mips/bbk9588.c` | pins with data, mask and flags per port; line buffer | lines from a chardev, key, pen and cable callbacks, register writes | interrupt tree, NAND |
| boot ROM: `hw/mips/bbk9588.c` | what the first stage was loaded from, start address | start, reset, exit, raw and kernel images | NAND image, ECC, CPU |
| UART: `hw/char/jz4740_uart.c` | FIFO, transmitter latch, line and modem status, ranked causes | register accesses, receive, loop | interrupt tree |
| UDC, CPM, CIM: `hw/usb`, `hw/misc` | banks of registers | register accesses by lane | interrupt tree, board |
| EMC and ECC: `hw/mem/jz4740_emc.c`, `jz4740_ecc.c` | control, block, parity, status | bytes to and from the chip, encode, decode, Hamming | NAND windows, boot ROM |
| LCD, panel, host bridge: `hw/display/` | descriptor chains, frame identifier, last picture, scan-out timers | refresh timer, register writes, a client that comes and goes | interrupt tree, front end |
| diagnostic recorder: `hw/misc/bbk9588_diag.c`, `mips/tcg/op_helper.c` | rings in guest RAM, input queue, switches | a record, a poll, `qom-set`, the translator's probe | front end's snapshots |
| CPU core, TLB: `mips/tcg/system/tlb_helper.c` | entries, shadow entries, EntryHi, QEMU's softmmu | TLBWI, TLBWR, TLBP, TLBR, ASID change, fill, reset | softmmu |
| CPU core, code: `mips/tcg/translate.c`, `exception.c` | PC, branch flags, translated blocks | translate, run, fault, interrupt, ERET, changed code | softmmu, interrupt tree |
| CPU core, system coprocessor: `translate.c`, `mips/tcg/system/cp0_helper.c` | Status, Cause, the interrupt request, the kick of a running block | MFC0, MTC0, ERET, WAIT, EI, DI, in a block or in a delay slot | interrupt tree, the main loop of the vCPU |
| front end, ownership: `src/emu/web/frontend_state.py`, `src/emu/qemu/nand_lock.py` | lease, selected image, backend, tick thread, `cancel_run` | reset, run-start, stop, force-stop, set-nand-image, file manager, close | OS locks, QEMU process |
| front end, keys and power: `frontend_state.py` | leases, active codes, USB wish, safe shutdown | key down, renewal and up, snapshot, USB switch, shutdown | QEMU's input socket |
| front end, pictures and sound: `frontend_state.py`, `frontend_server.py`, `frontend_ws.py` | latest and packed frame, packet queue, each page's number | receive, fetch, dump, send, reset | frame and audio chardevs, browsers |
| QEMU process: `src/emu/qemu/system.py` | process, sockets, exit reason, stop request | start, stop, refresh, readers, shutdown by the guest | QEMU |
| debugger: `system.py` | one GDB connection and what is left in it | interrupt, read, write, call, watch, trace | QEMU's GDB stub |
| NAND images: `src/emu/qemu/ftl.py`, `nand_fs.py`, `nand_source.py`, `ecc.py` | FTL map, FAT, candidate file | decode, rebuild, replace atomically | front end |
| Web server and pages | connections | HTTP, WebSocket, JSON, rendering | browsers |

`PROJECT.json` lists the same parts with the files and the state of the work.

### 1.3 What is hard here, and what has to hold

* **Durability.**  Writes stay in the host's page cache until a flush one second
  later (docs/architecture.md:92).  A write may land while a flush is in flight;
  a flush may fail; the machine may be torn down with both a timer and a request
  pending.  *Has to hold:* whatever is counted as flushed is on disk; whatever is
  not, something is pending for; nothing is pending after unrealize.
* **The flash protocol.**  The chip is driven by three windows in any order.
  *Has to hold:* cells are only cleared by programs and only set by block erases;
  success means that what was asked for is in the cells; failure means that
  nothing changed, and the end of an operation is signalled.
* **Sleeping and waking.**  The vCPU tests for work without the lock, then
  sleeps.  Lines pass through four copies of one level.  *Has to hold:* the copies
  agree between calls, no wakeup is lost, a key always ends a `WAIT`.
* **Time.**  The timer unit never counts; it computes.  *Has to hold:* a deadline is
  the next match, re-arming loses none, a register write moves a counter only
  when it is meant to.
* **Asking again.**  The SADC requests its next sample when two things have been
  done by the driver, in either order, or when the pen moves.  *Has to hold:* the
  pen never goes silent while it is held and its position has not been read.
* **Re-entrancy.**  Audio playback is mutual recursion of two devices.  *Has to
  hold:* each sample enters the FIFO once and in order, a raised request is
  served, the calls unwind.
* **Ownership.**  A NAND image is written in place by QEMU and by the front end,
  and there may be several front ends (README.md:72, docs/architecture.md:98-100).
  *Has to hold:* one writer at a time, whatever command fails where; a failed switch
  changes nothing; no command waits for another process for ever.
* **Devices that depend on the guest's order.**  Descriptors, doorbells, a pending
  card command, an error-corrected block, a clock that hibernates: the guest may
  do the steps in any order.  *Has to hold:* the interrupt output is what flags and
  enables ask for, nothing that could go on is left behind, and each odd state is
  reached by the one step known for it.
* **Code that is only translated once.**  The CPU's state is behind while a block
  runs; QEMU's own TLB remembers what the guest has replaced.  *Has to hold:*
  control comes where the architecture says, whatever faults and wherever blocks
  end, and the guest cannot tell that a shadow entry lives.
* **Sessions.**  Pages come and go, QEMU is started again under them, answers come
  late.  *Has to hold:* a key is held only while a page holds it; the newest
  picture arrives; sound is in order; the reason of an exit is that process's; a
  debugger reads what is there, or the known late answer is to blame.

The 38 entries of `hazards` in `PROJECT.json` say at which line each of these can
go wrong, and which property would show it.

## 2. The plan

Done, in the order of what could hurt a user's data most:

1. `NandBacking` with its proofs: durability of what the guest wrote.
2. `FlashArray`, `NandDevice`, its refinement and proofs: what a write means.
3. `FrontendLifecycle` with its proofs: who may write the image.
4. `InterruptTree` with its proofs: the guest is woken and interrupted.
5. `AicDma` with `AudioStream`; `Sadc`; `Tcu`: the devices with the most intricate
   control.
6. The remaining devices, composed in `MCBoard`: `Dma` (DMAC, card and bridge), `Rtc`,
   `Input` (host input and GPIO), `Uart`, `Display`, `Emc` with `Ecc` and `RsCodec`,
   `Udc`, `Cim`, `Cpm`, `BootRom`, `Diag`.
7. The CPU: `Tlb`, `Core`, `Cp0`, `Alu`.
8. The sessions of the front end, composed with the lifecycle in `Host` (`MCHost` gives it
   values): `WebKeys`, `WebFrames`, `WebAudio`, `QemuProcess`, `GdbSession`.
9. Proofs for `Sadc` (`SadcProofs`), for playback and that it implements `AudioStream`
   (`AicDmaProofs`), for the CPU (`CpuProofs`), for every device of `Board` (`BoardProofs`,
   `DisplayProofs`): invariants, order and odd states; for the sessions of `Host`
   (`FrontendProofs`).

Left, in this order:

10. `NandDevice` over `NandBacking`: the cells in memory, the file and the disk, with a
    crash and a reload, refining a flash chip that may lose unflushed pages only.  `Nand`
    puts the two side by side, a behaviour being one of one of them.
11. Candidate replacement and the FTL map of `src/emu/qemu/nand_fs.py` and `ftl.py`.

A module gets few properties, each aimed at a hazard.  The small devices share the
properties of `MCBoard`, each of which is one question asked of every device.

## 3. The modules

Conventions.  A module names the function a definition translates in the comment
before it; `PROJECT.json` "map" gives the lines.  An operator whose name says what
could be wrong with it (`CoveredLatest`, `KickAlways`, `BlindLock`) is a fault: no
action uses it, it stands before the definition it would replace, and putting it
there must violate the property named in "mutants".  Variables that exist only to
state a property (`wait`, `asked`, `tracked`, `read`, `cleared`, `vector`, `first`,
`blind`, `prog`, `ended`, `strayed`, `due`, `crossed`, `late`) are history: no action's
choice depends on them.

No module declares a recursive operator; what a C function does for every channel, or a
Python function for every packet, in turn is a recursive function (`TryAll` and `AutoAll` of
`Dma`, `After` of `WebAudio`), so that it can be proved about.  The small devices and the CPU
are instances in `Board`, the sessions in `Host`, the two layers of the NAND in `Nand`; these
also name what is assumed of the constants, and `MCBoard`, `MCHost`, `MCNand` give them values.

The small units are checked together.  A behaviour of `Board` or `Host` is one of
one *unit* (of `Nand`, of one *layer*), chosen at the start; the other units do not move, and no unit reads
another one's variables, so nothing is lost by this and every unit's states are
counted once.  What couples the devices in the code (the interrupt tree, the DMA
request of the AIC, the NAND lease) is modelled in `InterruptTree`, `AicDma` and
`FrontendLifecycle`; what is left to an environment in a unit is chosen freely.

### 3.1 `NandBacking`: from the cells in memory to the disk

`dirty`, `flush`, `flushed`, `timer` and `acb` are the device's fields.  `file`
and `disk` are the page cache and what survives a loss of power; a page carries
the generation that wrote it last.

| action | code |
|---|---|
| `Write`, `WriteFails`, `WriteRamOnly` | `nand_backend_update`: the write succeeds, is only reported, or there is no writable drive |
| `Tick`, `FlushTimer` | the realtime clock; `nand_flush_timer_cb` |
| `FlushDone`, `FlushFailed` | `nand_flush_complete` |
| `HostWriteback` | the host's own write-back, at any time |
| `Shutdown`, `Unrealize` | `nand_shutdown_notify`, `nand_unrealize`, both through `nand_flush_now`, whose `blk_aio_cancel` first runs the completion of the request in flight |

The block layer is external: a successful flush makes stable at least what had been
written when it was submitted and possibly more (`AfterFlush`).

### 3.2 `FlashArray` and `NandDevice`: what a command does

`FlashArray` is the promise of a raw NAND chip: a program clears cells of one page,
an erase sets the cells of one block, nothing else happens.  `NandDevice` is the
command interface: every order of writes to the three windows, with the fields of
`BBK9588NandState`.  A column holds one bit and the geometry is small, but it is found
as in `nand_detect_geometry`: `size` is the length of the image, `StrideOf` the page it
implies, with spare bytes or without.  The image may end inside a block and inside a
page, and an address may lie outside.  `data` has `NumPages` pages of `RawStride`
columns; those that are no byte of the image (`~Exists`) stay 1.  `Window` is the
range that `nand_commit_program` changes, with both of its clamps (line 546).

`CommitNothing`, `CommitFails`, `CommitPage` are the ways out of
`nand_commit_program`, including the early one that reports success for nothing and
the two failures of which only one raises the ready event.  `CommitErase` is
`nand_commit_erase`.  `Address` keeps at most five bytes and stores the program
address when it has them, `Append1` is one byte of `nand_append_program_data`.
`CopyPage` makes the page that was read the program buffer, and `asked` follows it as it
follows the bytes since 0x80: `AcknowledgedIsProgrammed` covers a copy with the
bytes written over it.  What success does *not* mean is in that property too: bytes below
the first column are dropped (`first`), so are columns that the image does not have (the
spare bytes of a page-only image).  An ordinary copy-back always reports FAIL: the copy
marks the buffer as holding data, so no later byte sets `program_start`, which stays
past the page.  Only a copy over bytes not yet committed has a first column, theirs, and
may be acknowledged.  A page that continues an old buffer (0x85 without 0x80) is
not claimed.
Reads of the data window and of port C change only the read cursor and the busy
sample; both are left out, no cell depends on them.

The refinement maps `cells` to `data`.

### 3.3 `InterruptTree`: from a device line to `WAIT`

`wire` is the chain of copies of one level, each an operation's argument and result:
INTC pending, mask and output; the board's `intc_output_level`, `cpu-irq-output` and
resample timer; the CPU's IP2 level, Cause, interrupt request and wake request; the
signal on `halt_cond`.  A device call (`DeviceLine`, `HandledLine`, `KeyEdge`,
`TcuMatch`, ...) is one step, because it holds the BQL.  `helper_wait` does not, so
`Wait`, `WaitLatch`, `WaitTest`, `WaitHalt`, `WaitClear` are steps of their own, and
so are the parts of QEMU's halt loop (`HaltLoop`, `Idle`, `Wake`, external).

`Devices` are wired straight to the INTC, `Handled` have a handler on the board,
`Timers` are the parents of the TCU, `Keys` is the GPIO port with the keys; other
modules decide when a device raises its line, here it does so at any time.

### 3.4 `AicDma` and `AudioStream`: playback

A call from one device into another is an activation on the stack `calls`; the top
one takes the next step.  `UpdateLines` is the chain `jz4740_aic_update_lines`,
`jz4740_dmac_set_request`, `jz4740_dmac_kick`; it may put a transfer on top of the
activation that called it.  `Push` and `Leave` are the loop of
`dmac_try_audio_transfer` and its end, `Refill`, `Pop`, `Frame` the sample timer.

The source address counts samples, so the FIFO's content says by itself whether a
sample was lost, doubled or reordered.  `AudioStream` is the promise: samples enter
once each in order and leave in that order or are flushed.  The refinement takes
`fed` from the innermost transfer, whose local source is ahead of the register.

A unit of several samples that fits only in part is offered again from its first
sample.  The guest of the model therefore uses units of two samples while the
request lasts (a requested unit always fits) and single samples in block mode.

### 3.5 `Tcu`

A counter is a base, an anchor and a clock; `CountWith` is `tcu_current_counter`,
`TicksUntil` `tcu_ticks_until_match`, `Schedule` `tcu_schedule`.  `Due` and `Timer`
are the host timer's callback.  Every register write is an action, with the
instant at which its handler latches: `Enable` before the gate opens, `Start` after
it, `WriteClock` after the new clock is stored.  Unsigned subtraction that wraps is
a choice of "already past" and "never".

`Icount` makes due timers run before the next guest instruction, as the instruction
counter of the Web mode does.  Without it a match may be served late for reasons
outside this code, and `NoUndividedMatchLost` would not be about the code.

The module is a unit of `MCBoard`; the prescaled clock has a run of its own (finding 2).

### 3.6 `Sadc`

`PenDown`, `PenMove`, `PenUp`, `PenAway` are the cases of `jz4740_sadc_set_touch`,
`Timer` is `sadc_timer_cb`, `WriteEnable` `sadc_schedule_conversion`, the others the
register accesses.  `QueueNext` is `sadc_queue_next_touch_sample`, the place from
which the guest's acknowledgement, its read of the FIFO and a move ask for the next
sample.  The timer is armed or not: no property depends on how long it takes.

A driver may acknowledge `DTCH` while it is clear.  The code takes that for a sample all
the same (jz4740_sadc.c:452-461): it counts down `conversion_events_remaining`, and
enough of them use up a press before its position was sampled.  `blind` records
that one was counted; `HeldPositionRead` assumes a driver that acknowledges only what
it has seen, and promises nothing after a blind one until the pen moves again.  The
other properties hold for every driver.

### 3.7 `FrontendLifecycle`

Several emulator processes, each in the middle of at most one command, because a
command holds the lifecycle lock; `phase` says which and how far.  Between two steps
of a command the guest may power off, the tick thread may end, and other processes
may act: this is where acquire, stop, swap and start of a command meet those of
another process.  `owner` is what the host's lock table says, `path` and `spare` what
the process believes.  The steps that raise in practice have their failing
alternative: the guest does not answer the shutdown request, the image is invalid,
the lock is another's, QEMU starts but does not take the USB state, a checkpoint
migration fails, the process dies.  One is left out: a QEMU that was killed and still
does not end within the second wait of a stop (`TimeoutExpired`, system.py:1378-1380).

Four steps are called stray, because after them a process can run QEMU without the
lock of its image or while it is rewritten: `set-nand-image` with `reset=false`, a
failed migration, a command that was waiting when `close()` ran, and `Wake`, a key or a
picture request that starts an exited backend again under the state lock alone while a
command is in progress.  `strayed` records that one was taken.  What is promised only
without them says so (`~strayed => ...`); the rest holds with them.

### 3.8 The devices of `MCBoard`

All calls between these devices run under the BQL, so a register access is one action
that makes every call the handler makes.  An operator on a record (`Fetch(s, c)`,
`SetLevel(g, pin, high, latch)`, `Latched(r, t)`) is a C function from a device's state
to its state; the action applies the handler's functions in the order of the code.

* **`Dma`**: blocks of memory, linked and checked descriptors, doorbells, and the card
  with its bridge.  `WriteRegister`, `WriteControl`, `WritePending`, `WriteDoorbell`,
  `SetDoorbell` are `dmac_write` and what it tries afterwards (`TryAll`, `Kick`);
  `Bulk` is the callback of the bridge, `Command`, `AckMsc`, `ReadResponse` the card.
  The audio request line stays low here; it is in `AicDma`.  Known oddities, each
  stated as the only way into its state: a doorbell never asks the bulk callback, so
  the transfer of a card whose descriptor it loads waits for another write
  (`DoorbellStrands`); loading a descriptor leaves the interrupt output behind
  (`LoadDesyncs`); while a command is pending, a block of channel 0 or 1 is served as its transfer,
  whatever its request number or unit (`EndsByCard`); more than `BulkLimit` sectors are
  refused and stay pending until the next command, which forgets them (`PendingKept`).
* **`Rtc`**: time in half seconds; every access, a read as well, latches what is due,
  drives the output and arms the timer.  The guest may power down with the alarm
  latched, and sleeps until a reset then: `AlarmWakes` speaks of alarms still to come.
  With `hibernate-poweroff`, the default, power-down requests a shutdown: `machine` is
  "ending" while guest and timer may still run, and "off" once QEMU has exited (`Exit`),
  when nothing runs but the time, until a new QEMU starts (`Reset`).  No alarm wakes
  such a machine, so `AlarmWakes` is about a QEMU that was not asked to end.
* **`Input`**: lines cut and joined by the socket (`Send`, `Deliver`), the board's
  callbacks, the pins.  The pen and a key share a pin and a reset restores all pins, so
  a pin may contradict what the host holds; `OnlyResetOrSharing` says by which steps.
  Functions, directions and triggers of a pin are registers without effect.
* **`Uart`**: bytes are numbered as the host sends them; a byte of the host is lost only
  by a clear of the FIFO, and only the loop overruns it (the host waits while it is full).
* **`Display`**: two instances, one with both channels of the controller, one with the
  client of the frame chardev.  The controller signals the end of a frame only when the
  picture changes; a source that moves faster than the period holds the scan-out back.
* **`Emc`, `Ecc`, `RsCodec`**: `RsCodec` builds the tables of the field, `Ecc` the
  codes, `Emc` the registers around them.  The Reed-Solomon code and the Hamming code are
  those of the C file with every size a parameter.  `Restores` compares the decoder with
  a search for the nearest codeword; `Corrects` says that a decoding of a full block
  tells the truth.  The guest may ask for a decoding of a block it has not filled, and
  then gets an answer about something else (`OnlyFullBlocks`).
* **`BootRom`**: the first stage is read from the normal or the backup area, page by
  page, corrected and checked; a reset does not read it again.
* **`Udc`, `Cim`, `Cpm`**: registers by byte lanes and masks.  No USB host and no camera
  sensor exist, so only what the code can do is there: banks behind `INDEX`, the answer
  to a disabled camera, the PLL that locks at once, the wake bits told to the board.
* **`Diag`**: rings in guest RAM.  Under the BQL a record is one step; the translator's
  probe writes without it, word by word, so a snapshot may find one torn record, and
  nothing but the newest may be torn (`NewestWhole`).  Slots of the progress ring overlap
  the ring of the watched page (bbk9588_diag.c:40 and :46), the one way in which records
  mix (`OnlyOverlapMixes`).  Switching the storage trace by `qom-set` does not reach the
  probe, whose flag is set once at start.

### 3.9 The CPU: `Tlb`, `Core`, `Cp0`, `Alu`

`Tlb` is the guest's TLB over QEMU's: `Indexed` and `Randomised` are TLBWI and TLBWR,
`InvalidateOrShadow` and `FlushExtra` which shadows they leave and discard, `FirstShadow`
the one that a probe discards from, `Invalidate` and `FlushPages` what reaches the softmmu.
The victim of TLBWR is any unwired entry.  `absent` is what the guest can know to be
unmapped: `Unseen` says that no shadow contradicts it.  The guest maps a page only when it
knows it to be unmapped (`MayWrite`), as the architecture demands: two matching entries
are undefined there.

`Core` executes the program that `MCBoard` gives it, block by block as the translator cuts them:
a block ends at a branch's slot, a page, its budget or a changed status.  While it runs
the PC and the branch flags in the CPU are behind; `Restored` is what a fault brings back.
A fault or an interrupt may strike at every instruction, and a device may rewrite code.
`due` follows the architecture: what comes next and, in a slot, what after it; `Follows`
compares.  A block that begins with a slot carries the target its branch had when it was
translated; when the branch has been rewritten since, control goes there (`edited`).

`Cp0` is the system coprocessor as `gen_cp0`, `gen_mfc0` and `gen_mtc0` see it: `Reads` and
`Writes` are their tables, with the options a register belongs to and how a block goes on
after a write (on, `stop` to the next block, `exit` to the main loop).  `Drive`, `Expire`
and the effects of Status, Cause and Compare move the interrupt lines while a block runs;
`Prompt` says that an interrupt which can be delivered has kicked the block or finds the
main loop.  One case is known: an instruction in a delay slot that asks to leave is
followed by its branch, which chains to the next block (`swallowed`).  The comments at
translate.c:6217 and 6253-6257, that the block must be left because the flags may have
changed or an interrupt may be pending, hold outside delay slots only.  With `CpuIcount`
every write that the translator knows leaves the block, as the code does when instructions
are counted.

`Alu` gives the integer instructions as the translator emits them, with its short cuts,
beside their meaning; `InstructionsHold` compares them for all words of four bits, loads
and stores of every width and conditional moves among them.  It has no state and is
evaluated once, at the initial state of `Core`.

### 3.10 The sessions of `Host`

* **`WebKeys`**: a page that holds a key has a lease, renewed by its heartbeat.  Only a
  change of "some page leases it" is sent to QEMU, whose socket may fail.  Leases end in
  a snapshot or another key (`Expired`), so they end only while some page is connected;
  `Orphan` is awaited under that condition.  A key that was refused stays recorded as
  active and is not sent again; a QEMU that is started again holds nothing while leases
  live on.  `OnlyInterrupted` names these cases.  The safe shutdown holds the power key
  for seconds without the lock: `HoldKept` says which steps of a page end the hold.
* **`WebFrames`**: numbers of frames start again with every process; the cache and the
  numbers that pages remember do not.  `crossed` records that a picture has come under a
  number of another process, from where on a page may miss or keep an old one; until
  then `NumbersName`, `PicturesForward` and the arrival of the newest hold.
* **`WebAudio`**: a queue of bounded depth for all, batches per listener, newest first
  when it is too slow.
* **`QemuProcess`**: one backend over several processes.  `stop()` waits without the
  lock and then records an end: when a key has started another process in between, it
  closes the new one's sockets (`SocketsKept` names that step); an old reader may give a
  new process its reason (`late`).
* **`GdbSession`**: an operation is a list of exchanges (`Body`), each with a timeout.
  An answer that comes too late stays in the stream and is met by the next exchange: a
  read may then return an earlier value.  `ReadsTrue` and `LeavesOrder` hold of
  operations that began in order and passed over nothing.

## 4. The runs

Run with `tlc -workers 2 -config X.cfg M.tla` in this directory.

| run | module, cfg | states | what it shows |
|---|---|---|---|
| `nand_backing` | `MCNand`, `NandBacking.cfg` | 14,120 | durability, nothing stranded, the one-second deadline, quiet after unrealize, eventual flush |
| `nand_device` | `MCNand`, `NandDevice.cfg` | 1,394,038 | refinement of `FlashArray`; success, failure and the ready event mean what they say |
| `interrupt_tree` | `InterruptTree` | 309,948 | copies agree, no lost wakeup, a key ends `WAIT` |
| `interrupt_vector` | `InterruptTreeVector.cfg` | violation | finding 1 |
| `sadc` | `Sadc` | 265,952 | no request without deadline, who may stall and who may overrun, a held position is read |
| `tcu_prescaled` | `TcuPrescaled.cfg` | violation | finding 2 |
| `aic_dma` | `MCAicDma`, `AicDma.cfg` | 26,386 | refinement of `AudioStream`, requests served, no underrun at a block's end, calls unwind |
| `aic_dma_direct` | `AicDmaDirect.cfg` | violation | finding 3 |
| `board` | `MCBoard` | 295,480 | sixteen units, thirteen of the devices and three of the CPU: lines, order, nothing stranded, the program kept, odd states only by their one step |
| `frontend` | `MCHost` | 419,004 | exclusive ownership, locks are the leases, every command answers; keys, pictures, sound, process and debugger |
| `frontend_unleased` | `FrontendUnleased.cfg` | violation | finding 4 |
| `frontend_changed` | `FrontendChanged.cfg` | violation | finding 5 |

What each property says.

| property | says |
|---|---|
| `FlushedIsDurable` | every write counted by `flushed_generation` survives a loss of power |
| `NeverStranded`, `FlushWithinInterval` | unflushed data has a timer or a flush in flight; the flush starts within the interval of the first write that could start it |
| `QuietAfterUnrealize` | nothing can call back into the freed device |
| `EventuallyFlushed` | what was written is flushed in the end, or the machine stops |
| `FlashRefined` | cells change as those of `FlashArray` |
| `AcknowledgedIsProgrammed` | an acknowledged program, of a page begun by 0x80 or by a copy, changed exactly that page, to what was put together from its first column on, as far as the image has it |
| `FailedKeepsData`, `CompletionSignalled` | failure changes nothing; the end of an operation raises the ready event, injected failures included |
| `SourcesAgree`, `WiresAgree` | between calls the INTC knows the active sources, and all copies of the level agree |
| `NoLostWakeup`, `KeyWakes` | a sleeping thread with work has been signalled; an unmasked key ends `WAIT` |
| `OnlyWaitLeavesCause` | Cause keeps a level that is gone only by way of `WAIT` |
| `TimerServes` | a requested conversion has a deadline |
| `OnlyClearStalls`, `OnlyEnableOverruns` | only an emptying write stalls the pen; only ADENA overwrites an unread sample |
| `HeldPositionRead` | a held position reaches a driver that answers and acknowledges only what it has seen |
| `NoUnservedRequest`, `NoUnderrunAfterBlock` | at rest no enabled channel has an open request; no frame is played past a block's end |
| `StreamRefined`, `CallbacksReturn` | samples enter once and in order; the calls unwind |
| `LinesAgree` (board) | the output of each device (of the DMAC, see `LoadDesyncs`) is what its flags and enables ask for; the board knows the wake bits |
| `NothingStrands` (board) | no block that could be copied waits (`NothingWaits`), deadlines are set and exact (`DeadlineSet`, `DeadlineExact`), the line buffer has room, the boot ROM's stage is one run of corrected pages, records are kept |
| `OrderKept` (board) | bytes, frame identifiers, pictures, counters and matches keep their order; a sleeping clock stays frozen until alarm or reset |
| `ComputesRight` (board) | encodings are codewords, decoding restores what can be restored, and the registers say so of full blocks only; the integer instructions compute what they mean |
| `CpuSound` (board) | softmmu within TLB and shadows, one match per page, control and flags as the architecture says (`Follows`, `FlagsAgree`), deliverable interrupts on their way (`Prompt`), blocks run under what they were translated for (`AssumptionsHold`), a register that can be set can be read (`ReadsBack`) |
| `OddStates` (board) | each odd state of section 3.8 is reached by its one step only |
| `Progress` (board) | an alarm still to come wakes a machine that was not asked to shut down; the newest picture reaches a client |
| `ServiceExclusive`, `OverwritesAlone` | until a stray step: a QEMU runs on its process's own lock and alone; who overwrites an image holds it, with no QEMU on it |
| `LocksAreLeases`, `TradesStopped` | the host's locks are the leases; until a stray step, QEMU is down while leases are traded |
| `SessionsAgree` (host) | active keys are the leased ones; a page's number names the picture it shows; batches continue; a reason is that of its process |
| `SessionSteps` (host) | a failed switch changes nothing; keys, power, pictures, sound, ends of a shutdown and reads of a debugger go wrong in the named ways only |
| `Delivered` (host) | no command waits for ever; the lease of a page that is gone ends; the newest picture is shown; a guest's shutdown is told |

`TypeOK` and `SessionTypes` are checked for `board`, `frontend`, `sadc` and `aic_dma`; type
correctness is a theorem for these and for the NAND and the interrupt tree as well.

**Bounds, and why they are enough.**

* `nand_backing`: two pages, three writes, a flush interval of two ticks.  A third
  write can fall after a flush that covers the first and while the second is in
  flight; two pages let the host write back one and not the other.
* `nand_device`: pages of three columns, or of two without the spare one, in blocks of two;
  three images: raw and ending inside its last page, page-only, and raw with a partial
  block, so that page 3 exists in two of them and lies outside the third, and column 2
  is spare, absent or past the end; two operations, which is what it takes for one to
  leave something behind for the next; columns 0 and 2, so random data input leaves a
  gap; a block that fails.
* `interrupt_tree`: one source of each kind.  The kinds differ in wiring, the members
  of a kind do not; two sources at a time already arise across kinds.
* `sadc`: two positions, one CPU channel, one mask, and the five samples of a press,
  the code's number.
* `tcu_prescaled`: two channels that differ only in their masks, one divisor.
* `aic_dma`: a FIFO of four, a threshold of two, blocks of one and three units, nine
  samples, a debt of six frames: several blocks, an underrun, and a block that ends
  inside a callback.
* `board`, devices: `Dma` has two channels (the card reads through one and writes through
  the other), two descriptors that link to each other and two addresses that are none, RAM
  that the second block runs out of, a limit of two sectors.  `Rtc` runs two seconds.
  `Input` has a key and the pen on one pin, the cable on another, a line of three pieces.
  `Uart` has a FIFO of two and both trigger levels.  `Display` has a chain whose channels
  both run, and a ring whose source goes bad.  `Tcu` has one channel: channels interact
  only through the shared timer and the rescheduling that any write causes; compare values
  lie around zero, the wrap and each other.  `BootRom` has a stage of two pages, a backup
  that overlaps the end of the chip, images too short and without spare bytes.  `Diag` has
  rings of one to three slots, two of which overlap as in the board, and four records.
* `board`, codes: GF(8), four roots, a block of five bits, so two errors are correctable
  and three are not; all data words and all damages of a block are tried.
* `board`, CPU: two guest entries and one shadow, two ASIDs, spans of one and four pages,
  a page of an unmapped segment; a program of branches of every kind, slots on the next
  page, handlers at both vectors, blocks of two and four instructions; words of four bits.
* `frontend`: two emulators and two images, the smallest host with a conflict and with a
  swap; three presses (two pages, a key of one of them, and the power key,
  which both may hold); two processes, two frames each; a queue of
  four and six packets; one stray token in the debugger's stream and two late answers.

**Deadlock** is checked except where the model may stop because its bound is used up
or its machine is gone: `NandBacking.cfg` (after unrealize), `NandDevice.cfg` (no
operations left), `TcuPrescaled.cfg` (no time left).

**Fairness**, and what justifies it.

* `NandBacking`: weak fairness of the clock, of the timer callback and of a
  completion with either outcome: the main loop runs expired timers and the block
  layer ends every request.  Strong fairness of a *successful* completion is an
  assumption on the host: it does not fail every flush for ever.
* `InterruptTree`: weak fairness of the vCPU thread as a whole.  Devices and guest
  code owe nothing.
* `Sadc`: the timer, and a driver that acknowledges a DTCH that is set and reads the
  FIFO.  The firmware does both; the order is free.
* `AicDma`: a callback runs to its end.
* `Board`: time goes on and the main loop runs the expired timers of the clock and of
  the display; that of the clock only while no shutdown was requested (`Served`), since
  the main loop may end before it gets there.  The guest owes nothing.
* `Host`: the thread inside a command gets on, because every wait in it has a timeout
  (shutdown request, `join`, QMP, process wait); snapshots are taken while a page is
  connected (it gets one every half second) and lease deadlines pass; the loop of a page
  serves it; the threads that read QEMU's output run.  Users, pages and the guest owe
  nothing.

## 5. The proofs

`tlapm M.tla` checks each proof module; `BoardProofs` and `CpuProofs` take about twenty
minutes each, `FrontendProofs` seven, `AicDmaProofs` one and a half, the others seconds.  The
lemmas about the DMA controller and the timer unit stand in `CpuProofs`, and `BoardProofs` uses
them.  Nothing is assumed beyond the named `ASSUME` of the component, which TLC evaluates on
every run: sizes are naturals, kinds of sources are disjoint, `None` is not an
emulator or an image.  `Board` names one assumption for each unit, of the kind "the guest
writes values that the register can have" (`DmaAssumption`, `TcuAssumption`), "a chain of
descriptors ends or goes on with one of its own" (`DisplayAssumption`), "an image is no
longer than the chip" (`BootAssumption`), "a ring has a header and a slot, and the
ring of the translator's probe lies above the others" (`DiagAssumption`; mips/tcg/op_helper.c:55).
`HostAssumption` says that the bounds of the sessions are naturals, that there is a process
and that a batch of sound has a packet; `DebuggerAssumption`, that the address of a called
function is none of the values read; `NandAssumption`, that the flush interval is not zero.
Two theorems of `AicDmaProofs` and one of `BoardProofs` have hypotheses of their own, named
in their rows.

| module | theorems | argument |
|---|---|---|
| `NandProofs`, the backing | `BackingTypes`, `Durability`, `NoRegression` | `DurableInv`: generations are ordered (`flushed <= flush <= dirty` while a flush is in flight), and every page of `file` not newer than `flush` is as it was when that flush was submitted (`seen`), so its completion covers it.  `FlushedIsDurable` alone is not inductive: it says nothing of the request in flight |
| | `Armed`, `Deadline`, `Quiet` | `ArmedInv`: timer and request exclude each other, dirty data has one of them, and the ticks waited plus the ticks left on the timer are the interval |
| `NandProofs`, the commands | `TypeCorrect`, `FailureIsHarmless`, `FaultHolds`, `EndsSignalled` | type invariant, in three parts; the ways out of a commit one by one |
| | `Refinement` | step by step: a committed program is `ProgramPage` of what the buffer clears, an erase is `EraseBlock`, all else stutters |
| | `Acknowledged` | `Tracking`: since 0x80 or a copy the buffer is what was asked, it is blank from `program_len` on, and `first` is `program_start`, so the range that will be committed begins at the first column and misses nothing that was cleared after it.  Holds for every length of the image |
| `InterruptTreeProofs` | `TypeCorrect`, `KnownSources`, `Wiring`, `Wakeup`, `Latch`, `Resampling` | every call ends in `DriveCpu` or `IntcUpdate`; lemmas say what each does to an arbitrary `wire`, the invariant `IInv` follows for every handler by composition.  For `Wakeup`, a call that leaves work also signals, and only the thread itself clears the signal, after it has looked |
| `AicDmaProofs` | `TypeCorrect`, `RequestsServed`, `BatchesEnd` | `AicInv`: of the activations at most two are on the stack, the second a kicked transfer (`Nested`); all transfers under way end at the same last sample (`Counted`), which bounds the registers; whoever leaves the stack has served the request or leaves that to one below it (`Served`).  `NoUnservedRequest` speaks of rest only, so that it says nothing of a call in progress |
| | `Refinement`, `InOrder` | `StreamInv`: the FIFO is in step with the source of the one transfer, and a unit that was begun has room.  For a guest that arms the channel while its request is low (`ArmMasked`; for any other, finding 3) and, when it does not wait for the request, moves single samples (`WholeUnits`): a unit that only fits in part is broken off with its source unchanged, so its first samples go in again (jz4740_dmac.c:577-675) |
| `FrontendProofs` | `TypeCorrect`, `LocksFollowLeases`, `LeaseTradedStopped` | `Base`, which every step keeps: locks are leases, a spare lease exists only in a switch, QEMU is up only in the phases before a command has stopped it |
| | `OneEmulatorPerImage`, `NoOverwriteUnderGuest` | `Service`, kept by every step but the stray ones: between commands lease, selected image and backend's image are one; a command in progress has its image's lease |
| | `SessionTypesHold`, `SessionsAgreeHold`, `SessionStepsHold` | one invariant for each session, because the properties say nothing of what is in a pipe or a queue.  `KeysInv`: active codes are those of leases, a process that is down holds nothing.  `FramesInv`: until a number stands for two pictures (`crossed`), the frames on the wire are this process's, in order and of the number they carry.  `AudioInv`: the queue and each batch are runs of consecutive packets.  `ProcessInv`: what a process said is true of it, and none speaks before it was started.  `DebuggerInv`: stub and client are in step until something has gone amiss (`Orderly`), and what is to be undone is still to do |
| | `HostKeepsImages` | the properties of the lifecycle, for the whole host |
| `SadcProofs` | `TypeCorrect`, `RequestsServed`, `HeldPenServed`, `UnreadSafe` | `Served`: whoever asks for a conversion finds the shared timer armed or arms it, and a pen that is held has a sample in one of the four places where it can be.  `OnlyClearStalls` alone does not say where, and is not inductive |
| `CpuProofs` | `CpuCorrect`, `ProgramKept` | `TlbInv`: no two entries, shadows included, cover the same page for the same ASID, and every page of QEMU's TLB has an entry it came from; then there is one match and it is the right one.  `CoreInv`: between blocks the pending branch is in the CPU's flags (`Between`), within one it is in the block (`Within`), and a block that begins in a slot knows its target unless its branch was edited (`Cached`).  `Cp0Inv`: every write that can make an interrupt deliverable ends its block, which is read off the tables |
| `DisplayProofs` | lemmas for both units of the display | `DisplayInv`: output, masks and types; a handler may only add events, and keeps the frame identifier while one is pending (`Goes`), however its calls are put together |
| `BoardProofs` | `DevicesCorrect`, `OutputsAgree` | `DevicesInv`, one invariant for each device: every handler ends in its `update_irq`, whatever it did before; for `Rtc` the latch can only be late by what the timer has promised; for `Input` the pieces of a line alternate |
| | `NothingIsStranded` | `DmaInv`: after every call each channel has been tried or can do nothing (`Settled`), and trying one spares the others (`Spares`), so that the loops over all of them, which are recursive functions, settle every one.  `TcuInv`: each deadline is the first match after the clock (`FirstMatch`, by the remainder of the count and the wrap) and nothing but the clock moves between calls; the host's timer is the earliest.  `BootInv`: a stage is as long as the set of pages that are marked.  `DiagInv`: two numbers that differ by less than the slots lie in different slots, and a ring apart from the others keeps every word |
| | `TypeCorrect` | from `DevicesInv` and `CpuInv`, for all sixteen units |
| | `OrderStays` | `UartOrder`, that what is in the FIFO is increasing, above what was read and not above what was sent; a counter is what its base and anchor say before and after every latch.  For every guest, but under `Icount`: without it a write may pass a deadline that is due, and `NoUndividedMatchLost` is false |
| | `OddStatesKnown` | for the DMA, what a handler may do to blocks and to the card (`Serves`), and that the output is true or a load left it behind (`Either`), are kept along the chain over the channels, and no bulk transfer is left after an offer to each (`DmaOdd`).  For the recorder, records only move forward, and a ring whose memory no other took is whole (`Grows`).  For the others, from the invariant of the device |

`TradesStopped` and its theorem speak of the time before a stray step, as `Service` does:
`Wake` may start QEMU in any phase.

Only model-checked, and why:

* `ComputesRight`: what the codes and the instructions compute is an induction over data,
  which these provers cannot do;
* all liveness (`EventuallyFlushed`, `KeyWakes`, `HeldPositionRead`, `CallbacksReturn`,
  `Progress`, `Delivered`): there are no rules for fairness and ENABLED.

## 6. Findings

1. **A stale `WAIT` test takes the wrong vector** (`interrupt_vector`,
   `GeneralVectorOnly`; mips/tcg/exception.c:81).  `helper_wait` reads the IP2 level
   without the lock and latches Cause from what it read.  If the main loop lowers the
   line in between, the next interrupt is entered with the level low, and the board's
   rule for its vector, which looks at the level, does not apply.
   mips/tcg/system/tlb_helper.c:1140 says the vector at 0x200 is not used.
   `OnlyWaitLeavesCause` shows (and `Latch` proves) that this is the only way.
2. **A prescaled match can be lost** (`tcu_prescaled`, `NoMatchLost`;
   hw/timer/jz4740_tcu.c:253).  Every register write computes every deadline again from a
   count rounded down, so it moves a deadline by up to a tick of its channel; between the
   match and the late deadline, another write computes the match after the next.
   docs/jz4740-qemu-remodel-plan.md:332 says the period follows from the registers.
   On the undivided clock nothing is lost (`NoUndividedMatchLost`).
3. **Arming a channel whose request is already high doubles samples**
   (`aic_dma_direct`, `RealSamples`; hw/dma/jz4740_dmac.c:838).  A DCS write enters the
   channel without the mark that a kick sets, so the first sample's own request runs
   the block again.  src/qemu/README.md:128 speaks of the real samples.  When the
   channel is armed first and the request rises later, the stream is exact.
4. **`run-start` ignores the lease** (`frontend_unleased`, `Exclusive`;
   src/emu/web/frontend_state.py:1016).  After `set-nand-image` with `reset=false` it
   starts the old backend on the old image, whose lock has been given away; a second
   emulator may hold it.  README.md:72 says two emulators cannot open one NAND.
5. **A key restarts QEMU while the image is rewritten** (`frontend_changed`,
   `StoppedWhileChanged`; src/emu/web/frontend_state.py:1016).  `_ensure_qemu_started_locked`
   runs under the state lock only; `key()` calls it, also after a file operation has
   stopped QEMU and while it replaces the image.  docs/architecture.md:98 says that one
   lifecycle lock serialises stopping, changing and starting, docs/images.md:126 that a
   change stops QEMU first.

Met while modelling and stated as the only step into an odd state, not as findings,
because no document promises otherwise: the doorbell that strands a card transfer and
the bulk callback that takes any block (`Dma`), the sleep that no alarm ends (`Rtc`),
the pin that two inputs share (`Input`), the overlapping rings (`Diag`), frame numbers
that start again (`WebFrames`), the copy-back that always fails, the bytes dropped below
the first column and above the page of an image without spare bytes (`NandDevice`), the
acknowledgement of nothing that counts (`Sadc`), a stop that closes the next process's
sockets (`QemuProcess`), late answers of the debugger (`GdbSession`).

## 7. What is left out

Within the modelled components: snapshots (`post_load`) where a module has no `Restore`
action; the watchdog registers of the TCU and byte accesses; the calibration of SADC values
and the length of its delays; recording, the codec and the host voice of the AIC; register
widths of the INTC; the random data output, the read cursor and the busy sample of the NAND;
memory maps and properties of the machine.  A program at a column past the end of an image that
ends inside that page wraps the subtraction of bbk9588_nand.c:546; in the model it changes
no cell.  Playback is mono: the second sample of a stereo frame (jz4740_aic.c:696-697) is
not taken apart.

In the CPU: the floating-point, DSP, MSA, Loongson, Release 6, nanoMIPS and 64-bit parts of
the upstream translator, which this board's core never runs; ERET in a slot, which the
architecture leaves undefined; the counter of guest instructions, which only the user sees
(translate.c:15300 adds to it at the end of blocks that run through, so blocks that end in a
branch or an exception are not counted).

In the front end: the pumps of the legacy pages (system.py:6590-7484) are never entered for
this board; the timeout path of a guest call; the debugger's heuristics over guest memory;
command lines, routing, JSON and rendering.  A process that dies takes its QEMU with it, as
the kill-on-close job of `src/emu/qemu/system.py` arranges on Windows, the platform the
releases are for.  A QEMU that `Wake` started and a reset then forgets is not followed.

Whole components: the NAND image tools (FTL, FAT, sources) are transformations of a file by
one thread, better served by their unit tests; tools, packaging and build are offline
scripts.
