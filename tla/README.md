# A TLA+ model of the dsPIC33CK UART HAL

This directory specifies, model-checks and proves properties of the UART
hardware abstraction layer in `src/src/`. It is written for a reader who has
the code next to it. In the comments, "uart.c" is
`nora_uart_dspic33ck.c`, "ring.c" and "ring.h" are
`nora_uart_dspic33ck_rx_isr_ring.c` and `.h`.

- `*.tla` without prefix: specifications. `MC*.tla`: constants of the small
  instances. `*Proofs.tla`: theorems. `*.cfg`: one TLC run each.
- `PROJECT.json`: the components, the runs, the line-by-line map from
  definitions to source, the mutants (a plausible bug for every property that
  holds), the findings, the hazards and the main theorems.

Run `tlc -config RxRing.cfg MCRxRing` (each cfg goes with the MC module whose
name begins like it), and `tlapm RxRingProofs.tla` for the proofs.

## 1. Inventory

Everything is kept per instance; instances share nothing but constant tables.
Contexts: the foreground task, the TX interrupt and the RX interrupt, the last
two with configured priorities. A user callback runs inside whichever context
reports the event, and may call the API again.

| Component | State | Operations | Talks to |
|---|---|---|---|
| **RX interrupt ring** (`_rx_isr_ring.c`) | `g_rx_ring`, read and write index, size, configured flag, nine counters | `_config`, `_enable`, `_disable`, `_ready`, `_read_byte`, `_service`, `_flush`, `_status_get`, `_status_clear`, `nora_uart_rx_irq_handler` | the FIFO and OERR/FERR/PERR; the RX flag and enable bit through the device layer; the RX engine's feed hook; `uart_notify` |
| **Polled receive path** (`uart.c` 370-640) | four counters in the context | `rx_ready`, `read_byte`, `read`, `rx_flush`, `rx_status_get`, `rx_status_clear` | the status registers; hands over to the ring if one is configured |
| **Asynchronous transmit** (`uart.c` 834-930, 1030-1065) | `tx_async_buf/_len/_count/_busy` | `tx_start`, `tx_abort`, `tx_irq_handler` | TX FIFO, TX flag and enable bit; `uart_notify` |
| **Asynchronous receive** (`uart.c` 932-1028, 1067-1100) | `rx_async_buf/_len/_count/_busy` | `rx_start`, `rx_start_clean`, `rx_abort`, the feed hook | is fed by the ring's drain |
| **Lifecycle** (`uart.c` 150-345, 650-830) | `initialized`, applied baud rate and TX priority, MODE bits | `init`, `deinit`, `tx_enable`, `rx_enable`, `set_baudrate`, `set_callback` | configures the ring, both interrupts and the transfers |
| **Event callback** | function and `user_data` | `set_callback`, `uart_notify` | called from the interrupt handlers and from `_service` |
| **Baud divisor** | none (pure) | `uart_calc_brg_raw` | `init`, `set_baudrate` |
| **Blocking transmit, timeouts** | none (locals, an external clock) | `write_byte`, `write`, `tx_ready`, `tx_done`, `uart_timeout_*` | TX FIFO; `get_ms` |
| **Device layer, register helpers, vectors, weak fallbacks, observers** | register table (constant) | bit reads and writes | all of the above |

What is hard, component by component, and what makes it correct:

- *Ring.* The handler and the reader both drain the same FIFO into the same
  ring, with nothing but a disabled interrupt between them. The receiver stops
  by itself when OERR latches, and the interrupt that would clear it never
  comes; the enable bit can be lost to a stale write-back. Correct: one drainer
  at a time; arrival order kept; every loss counted or asked for; a stopped
  receiver started again by a reader that keeps reading; counters copied
  without a tear.
- *Polled path.* Four status bits are read one after the other while bytes
  arrive. Every error exit must end the condition it reports, or reception is
  stuck. Correct: no byte unaccounted for, no errored byte handed out as good,
  no overrun left behind.
- *Transmit engine.* The TX interrupt means "there is room", which is already
  true when a transfer starts: the order clear, enable, raise is what makes it
  run. Start, abort and completion may interrupt each other. Correct: the bytes
  of a transfer in order, once; completion reported once and truthfully; every
  transfer ends.
- *Lifecycle.* Any order of calls, with interrupts finishing transfers in
  between. Correct: an active transfer can be served; an instance that is down
  is quiet; a failed `init` leaves nothing half done.
- *Receive engine.* The drain offers each byte to the transfer first, and the
  byte that completes it calls back in the middle of the drain, from the handler
  or from the reader's `_service`. Correct: no transfer gets more than it asked
  for; a clean start gets what arrives after it and nothing from before; every
  byte goes to one of transfer and stream, once, in order, and does not wait in
  the FIFO for ever.
- *Blocking transmit, rate and directions.* A wait is measured on a clock that
  wraps; `set_baudrate`, `tx_enable` and `rx_enable` test first and write two
  registers, or a register they have read, afterwards. Correct: a timeout is
  neither cut short nor drawn out; a write returns; the divisor in the hardware
  is the nearest to the rate reported.
- *Divisor.* Rounding, limits, and the widths of the intermediate values.

The full list of what is hard to test, each at its line and with the property
that covers it or the reason none does, is `hazards` in `PROJECT.json`.

## 2. The modules

| Module | What it is |
|---|---|
| `RxHardware` | FIFO and OERR/FERR/PERR: the environment of both receive paths |
| `RxChannel` | abstract: what a reader of the ring is promised |
| `RxRing` | the ring backend against handler, reader and line |
| `RxRouter` | abstract: how stream and transfers share the bytes |
| `RxAsync` | asynchronous reception and the callback, composed with `RxRing` |
| `RxPoll` | the polled receive path against the line |
| `TxTransfer` | abstract: what a caller of the transmit engine is promised |
| `TxAsync` | the transmit engine in three contexts |
| `Lifecycle` | every call that changes what an instance is, one step each |
| `Baud` | the divisor as pure operators |
| `TxBlocking` | blocking writes, the timeout, the transmit FIFO and the clock |
| `Reconfigure` | rate and directions changed in use: `TxBlocking` and `Baud` composed with transfers and a callback |
| `RxRingProofs`, `RxChannelProofs`, `RxAsyncProofs`, `RxRouterProofs`, `RxPollProofs`, `TxAsyncProofs`, `LifecycleProofs`, `ReconfigureProofs` | theorems |

`RxRing` and `RxPoll` extend `RxHardware`, so both drive the same hardware;
`RxAsync` extends `RxRing` and replaces only the steps that the transfer changes.
`RxRing` instantiates `RxChannel`, `RxAsync` instantiates `RxRouter`, and
`TxAsync` instantiates `TxTransfer`, each with a refinement mapping.

**Bytes are numbers of arrival.** Loss, order and duplication can then be told
apart, and a parity or framing error is a set of arrivals. The TX modules
identify a byte by its transfer and its position.

**Hardware.** The FIFO holds `FifoDepth` bytes. A byte that completes with no
room, or with OERR set, is lost and sets OERR. Reading RXREG pops. FERR and
PERR are those of the head. Whether clearing OERR empties the FIFO is a
constant: the code's comments leave both families open.

### RxRing

State: the ring array, the two indices and the nine counters of the source; the
flag and enable bit; for each context where it is (`pc`) and the byte it took
from RXREG and has not pushed (`held`); the locals `drain_count`, `ie`,
`read_idx`, `data`. `lastRead` is a history variable.

| Code | Actions |
|---|---|
| interrupt entry, `nora_uart_rx_irq_handler` | `IsrEnter`, `Take/Put/Drained("isr")`, `IsrAccount` |
| `uart_rx_drain_fifo`, `uart_rx_ring_push` | `Take`, `Put` (`RingPush`), `Drained` |
| `_service` | `ServiceTest`, `ServiceMask`, the drain of `"task"`, `ServiceAccount`, `ServiceRearm` |
| `_ready`, `_read_byte` | `CallReady`; `CallRead`, `ReadTest`, `ReadLoad`, `ReadStore` |
| `_flush` | `FlushMask`, `FlushRing`, `FlushFifo`, `FlushOerr`, `Restore` |
| `_status_get`, `_status_clear` | `GetMask`, `GetDone`, `ClearMask`, `ClearDone`, `Restore` |
| `_enable`, `_disable` | `CallEnable`, `CallDisable` |
| the lost write-back of ring.h | `LoseEnable` |

The handler can start between any two steps of the foreground; the foreground
steps only while the handler is not running; the line may do anything at any
time. Steps that are merged: the handler's accounting (only the line runs
against it, and it can only add to the FIFO or set OERR; reading OERR and
clearing it in one step hides no outcome, because an overrun one moment later is
the same as an overrun after the handler), `ServiceAccount` (masked, same
argument), `ServiceRearm` (clear the flag, set the enable bit, with the
interrupt still off), and the two copies of nine counters (masked; the property
`SnapshotAtomic` says that nothing writes a counter while they are open).

Not in `RxRing`: an active asynchronous transfer (the feed hook returns false)
and the callback. Both are in `RxAsync`.

### RxAsync

All of `RxRing` with the engine on top. `stored` is the part of the caller's
buffer that is filled (`rx_async_count` is its length), `boundary` is history.

| Code | Actions |
|---|---|
| `async_rx_feed`, inside the drain of either context | `FeedTest`, `FeedRing`, `FeedStore`, `FeedDone` |
| the handler around the drain, with the events | `HandlerEnter`, `HandlerAccount` |
| `rx_start` | `CallStart`, `StartArm` (`Arm`) |
| `rx_start_clean` | `CallStart`, `CleanMask`, `FlushMask` .. `Restore` of `RxRing` with `CleanFlush`, `CleanArm` |
| `rx_abort` | `CallAbort`, `CallbackAbort`, `TxCallbackAbort` |
| the user callback | `CallbackStart` (chains the next transfer), `CallbackAbort`, `CallbackReady`, `CallbackReturn` |

The test of busy, the store and the test of the length are three steps, and an
abort may come between any two. A byte is stored with its count: only another
start could tell them apart, and a start refuses while a transfer is active. (A
TX callback that aborts and restarts exactly there could; see section 7.) A call
made by the callback is one step, since the callback's own context is masked or
is the handler; only the line goes on meanwhile. `CallbackReady` is
`rx_ready()` with the whole `_service()` in it.

### RxPoll

One caller against the line. A status bit read is a step; the test of a bit and
the write or RXREG read that follows from it are one step, because the line can
change neither the outcome of a test already made nor the byte at the head.
`Callers` says how the API is used: `gated` asks `rx_ready()` first, `direct`
calls `read_byte()` at any time (as `nora_uart_read()` does), `flush` and
`clear` are the other two entry points. `accepted`, `dropped`, `lastRead` and
`asked` are history.

### TxAsync

Every write of a shared variable or interrupt bit that another context may
observe in between is a step of its own: in `tx_start` the busy test, the four
fields of the descriptor in their order (`PublishBuf`, `PublishLen`,
`PublishCount`, `PublishBusy`), clear flag, enable, raise flag; in `tx_abort`
disable, clear flag, busy; in the handler the busy test, each byte (`TxSubmit`)
and its count (`TxCount`), the completion test, disable, busy, and the
notification's read of the callback and its call. A context runs
only while every other one that has started has a lower priority. `level` is the
TX FIFO; the flag certainly latches when it runs empty and may at any other
level, so the result does not depend on the watermark. `arg` is the parameter of
a call that has published its buffer and not yet its length; `Sent` counts a byte
that is in TXREG and not yet in `tx_async_count`. What is still one step, the
tests of the loop with the write of the byte, the tests that end the loop, and
the increment, is so because only another context could tell: one that preempts
the handler, and starts a transfer there. No theorem and no run is about that
case (section 5).

### Lifecycle

A call is a step, with the refusals that depend on state. A configuration
record has one bit for the arguments that are wrong by themselves. `device` is
what the build and the part offer (the ring's object, the two priority fields),
chosen once and never changed. `TakeDown`
and `BringUp` are what `init` and `deinit` leave behind; `InitUndone` is the
failure of the TX priority or of the ring after the peripheral was set up.
`TxComplete` and `RxComplete` are the interrupts' effect on this state.

### TxBlocking and Reconfigure

`TxBlocking` has `write()` and `write_byte()` step by step: the start time
(`StartClock`), the test of UTXBF (`TestFull`, `WriteByte`), the look at the
clock (`CheckClock`). The clock counts modulo `ClockPeriod`, 2^32 in the code,
and advances between any two steps; `waited` and `unpolled` are history.
`Reconfigure` adds the task's `tx_enable` and `rx_enable` (`CallEnable`,
`ReadMode`, `WriteMode`: MODE is read, changed and written) and its
`set_baudrate` (`CallSetBaudrate`, `BaudFull`, `BaudBusy`, `BaudLow`,
`BaudHigh`, the order of the code's tests and writes). Transfers in the
background are what they do to busy and to the FIFO; the callback may start or
abort one, or call `tx_enable`/`rx_enable`, between any two steps of the task.
Since it returns before the task goes on, such a call is one step. A transmitter
that is switched off may or may not lose its FIFO: the code does not rely on
either.

Two preconditions are those of the API: `nora_uart.h` forbids to "mix a blocking
write with an active async TX transfer", so no transfer starts during a write;
and a waiting caller looks at the clock at least every `PollWithin`, with
timeout and interval together within one turn of the clock
(`PeriodAssumption`, 49 days for 32 bits of milliseconds).

### Baud

`Div`, `Divisible` and `Brg` are `uart_calc_brg_raw` on unbounded integers;
`NoOverflow` proves that 64 and 32 bits hold every value. `Nearest` is the
definition of a best divisor that they are compared with.

## 3. The runs that pass

Distinct states are rounded.

| Run | Instance | States | Shows |
|---|---|---|---|
| `rxring` | FIFO 2, ring 3, 3 arrivals, all eight entry points, enable bit may be lost | 107 k | `DrainExclusive`, `InOrder`, `OverrunVisible`, `SnapshotAtomic`, refinement of `RxChannel`, `ReceptionResumes`, `NoByteStranded` |
| `rxasync` | FIFO 2, ring 2, 3 arrivals, transfers of 2, a reader, the callback chains, aborts and polls from the handler, a TX callback aborts | 375 k | `DrainStaysExclusive`, `CleanCapture`, `OverrunEnds`, refinement of `RxRouter` and `OnceInOrder` that follows from it, `BytesRouted` |
| `rxpoll` | FIFO 1, 6 arrivals, framing error on 2, parity on 3, clearing OERR empties the FIFO, every caller | 30 k | `StatusAccountsForBytes`, `CleanWhenAsked`, `LossCounted`, `ReceptionResumes`, `ByteLeaves` |
| `txasync` | FIFO 2, transfers of 3, 1 and 2 bytes, TX priority above RX, task and completion callback start, all three contexts abort, callbacks registered meanwhile | 120 k | `Armed`, `WireOrder`, `ActiveNotReplaced`, `CompletionTrue`, refinement of `TxTransfer`, `TransferEnds` |
| `lifecycle` | two rates, every configuration, a complete build and three that lack the ring or a priority field | 4.4 k | `TxServed`, `RxServed`, `DownIsQuiet`, `RateStable`, `RefusedInit` |
| `reconfigure` | FIFO 2, clock of period 5, timeouts 0, 1 and 3, a look at the clock every 2, writes of 1 and 2 bytes, transfers of 3, three rates, a callback that calls anything | 300 k | `RateNearest`, `TimeoutPrompt`, `TimeoutHonest`, `WriteReturns` |

**Why the bounds are enough.** A ring of 3 holds 2 bytes, so with 3 arrivals it
wraps, is full, drops, and is read in between; a FIFO of 2 overruns while a byte
is in hand. A ring of 2 is the smallest one `_config` accepts, and in it every
push is to the last free slot; two transfers of 2 do not fit into 3 arrivals, so
the second one is left incomplete and is aborted, replaced or starved.
Six polled arrivals meet both errors, an overrun, and clean bytes after it.
The FIFO of 1 is there because only then can a single read leave OERR set with
the FIFO empty, the case `rx_ready()` recovers from: with a deeper FIFO the next
read meets OERR before the FIFO is empty. The accounting and the clean reads are
proved for every depth.
Transfers of 3, 1 and 2 bytes through a TX FIFO of 2 are one that needs a second
interrupt, one that ends in the first, and one that exactly fills the FIFO.
A clock of period 5 is the smallest in which timeout and interval fit, so that
most waits run over its end. The three rates are an ordinary one, one whose
divisor needs the upper register in high-speed mode, and one out of reach.
`MaxArrivals`, `Transfers` and the lengths are the only bounds of the project:
the counters need none, since each of them grows only with an arrival.
Deadlock is checked in every run: some call is always possible.

**What each property would catch** is shown by its mutant in `PROJECT.json`,
for example: masking left out of `_service` (`DrainExclusive`), an index that
wraps a slot late, the flag not raised by `tx_start` (`Armed`), a reader that
reports an empty ring without looking at the receiver (`ReceptionResumes`), a
timeout compared with a deadline that may have wrapped (`TimeoutHonest`), a
clean start that leaves the masking to the flush (`CleanCapture`).

## 4. The fairness, and why

- `RxRing`: weak fairness of the handler and of a call that has started
  (interrupts are served, code that runs goes on), strong fairness of calling
  `_read_byte()`: ring.h puts the recovery on "the READER, which is always
  running". Nothing is assumed of the line, of `_enable()` or of the other
  calls. Strong, because the call is possible only between two others, and the
  handler may be running at any moment.
- `RxAsync`: the same as `RxRing`, and a callback returns ("keep it short and
  non-blocking", `nora_uart.h`).
- `RxPoll`: weak fairness of a call that has started, strong fairness of
  `rx_ready()` being called, for the same reason.
- `TxAsync`: weak fairness of shifting (the line is never stopped: the HAL
  configures no flow control), and for each context strong fairness of going on
  with what it has started: the TX handler when it is due, a call, the return
  from a callback. Strong, because an interrupt of higher priority may cut in
  again and again; it says that interrupts, which come at most once a character
  time, do not keep the processor from anything for ever. Nothing forces a
  caller to start or abort anything.
- `Reconfigure`: weak fairness of the shifter, of the clock and of a write that
  has started. Nothing is assumed of the other calls or of the callback, which
  may switch the transmitter off for ever: `WriteReturns` says that a write with
  a timeout returns even then.

## 5. Where the code and its comments part

Each is a run that must fail, on one property that states the quoted words.

| Run | What the code does |
|---|---|
| `rxring_framing` | the handler looks at FERR after the drain, when the flag of the byte is gone |
| `rxpoll_errored` | `read_byte()` tests the flags, then takes a byte that arrived after the tests |
| `lifecycle_backend` | `deinit()` leaves the ring configured, so a later polling `init()` still runs on the ring |
| `reconfigure_loaded` | `set_baudrate()` asks whether the transmit FIFO is full, not whether it is empty, and writes some time after it asked |
| `reconfigure_stranded` | a transfer started by a callback between the busy test of `tx_enable(false)` and the write of MODE loses its transmitter |
| `rxasync_nested` | a callback run by the reader's drain that polls enables the interrupt in the middle of that drain |

Assumptions of the passing runs that come from such differences, and what
happens without them (each was checked with TLC by changing the constants of
`TxAsync.cfg`; the theorems of section 6 name the same conditions):

- Transfers are started by the task and from completions (`ChainOnly`). With an
  RX callback that starts one, at whatever priority, between the busy test
  (uart.c 851) and the writes of the descriptor (865-868) of a `tx_start` of the
  task, both calls return OK, although `nora_uart.h` 410 promises `_ERR_BUSY`, and
  `ActiveNotReplaced` fails. In the middle of the four writes the two transfers
  mix: `TypeOK` fails (the buffer of one with the length of the other, so that
  bytes beyond the end of the shorter one are sent), so does `WireOrder` (a count
  that belongs to the other), and so does `CompletionTrue` (busy is set for a
  descriptor whose transfer has been completed already, and it is reported with
  nothing sent).
- The RX interrupt is not above the TX interrupt. Above it, an RX callback that
  aborts between the handler's busy test (1042) and its report does not stop the
  report (`CompletionTrue` fails; `nora_uart.h` 423: "no SEND_COMPLETE event is
  reported"), and one that starts a transfer between that test and 1043 has its
  interrupt switched off by the handler that found none (`Armed` fails).
- The callback polls from the handler only, never from the drain of
  `_service` (`ReadyFrom`): `rxasync_nested` is what happens otherwise, and with
  `RxAsync.cfg` on transfers of one byte and four arrivals `OnceInOrder` fails
  as well: handler and task each hold a byte, and the later one is pushed first.

Smaller differences, which the models contain as the code has them and no run
is spent on:

- `rx_stall_recovery_count` also counts the normal moment between an arrival
  and the handler (ring.c 174); ring.h 61 calls a non-zero value "the
  evidence".
- `rx_ie_lost_count` also counts a reader that polls after
  `_rx_isr_disable()` (ring.c 175).
- Bytes recovered by `_service` never enter `rx_byte_count` (ring.c 169).
- `rx_ready()` clears OERR "only with the FIFO EMPTY" (uart.c 380), which it
  read some time before; a FIFO that fills in between is thrown away on a part
  that resets it. `LossCounted` shows that the loss is counted.
- `_rx_isr_config()` leaves the interrupt as it was (ring.c 80), not
  "DISABLED" (ring.h 78).
- `rx_start()` does not ask whether the RX interrupt is enabled (uart.c 946),
  as `rx_start_clean()` does. `BytesRouted` shows that a reader that polls
  gets the bytes moving all the same.
- `rx_start()` also captures bytes that were in the hardware FIFO before the
  call, and the handler may be due; `nora_uart.h` 446 says "only bytes that
  arrive AFTER this call". A transfer that is to begin clean has
  `rx_start_clean()`, and `CleanCapture` is about that one.
- `rx_abort()` says that "the RX feed hook re-checks it before each store"
  (uart.c 1006). The hook checks, then stores: an abort from a TX callback in
  between is followed by one more byte, and by RX_COMPLETE if it was the last.
- RX_COMPLETE of a transfer that `_service` completes is reported by the
  task, not "from interrupt context" (`nora_uart.h` 381), and bytes that
  `_service` moves to the ring are not reported as RX_READY, RX_OVERFLOW or
  RX_OVERRUN_ERROR at all.
- `set_callback()` writes the function and its `user_data` (uart.c 830, 831) and
  `uart_notify()` reads them (1284, 1287): a completion in between calls the new
  function with the old pointer.
- MODE is read, changed and written. reg.h 22 says that this "can only race that
  UART's own hardware-set status bits"; it also races a callback that calls
  `tx_enable` or `rx_enable`, whose change is lost.
- `set_baudrate()` tests for active transfers (uart.c 783) some time before it
  writes the divisor: a transfer that a callback starts in between changes its
  rate. `RateStable` is about whole calls.

## 6. What is proved

The theorems hold for every value of the constants that satisfies the named
assumptions: a FIFO of at least one byte, a ring of 2 to 65535 slots (what
`_config` accepts), any number of arrivals, any set of errored arrivals, any
set of entry points, any set of rates and builds, any priorities, any clock
period in which timeout and polling interval fit.

- **`RxRingProofs`**. `TypeInvariant`: types, indices inside the ring, FIFO
  within its depth; `NextIdxType` is where 16 bits are shown to be enough.
  `Exclusion` (`DrainExclusive`) is not inductive alone: `MaskedInv` adds that
  in every masked section the enable bit is off, since it is that bit which
  keeps the handler from starting. `ArrivalOrder` (`InOrder`): the invariant
  speaks of a concatenation of four sequences, which no step preserves in an
  obvious way, so the inductive form `OrderInv` says the same by index: a
  context holds a byte exactly while it is about to push it (`HeldInv`), what
  `_read_byte()` loaded is still the oldest slot (`ReadInv`), the ring is
  increasing and above what was handed out (`RingOrder`), a byte in hand lies
  between ring and FIFO (`HeldOrder`), and the FIFO is increasing and above both
  (`FifoOrder`). Exclusion is needed for it: with two bytes in hand neither
  could be pushed in order (`OneDrainer`). `OrderImplies` goes back to the
  concatenation. `Snapshot` (`SnapshotAtomic`) follows from exclusion;
  `OverrunSeen` (`OverrunVisible`) is inductive together with the types.
- **`RxChannelProofs`**. `RingIsChannel`: every step of the ring is a step of
  `RxChannel` or a stutter, for a part whose FIFO survives the clearing of OERR
  (`FifoSurvives`; on another part the clearing itself loses bytes, which the
  channel does not allow outside a flush). The lemmas say what a push, a read
  and a drop do to the sequence of buffered bytes.
- **`RxAsyncProofs`**. Under `ReadyInHandler` (section 5): `BufferHolds`
  (`AsyncTypeOK`: no transfer beyond its length), `OneDrain`
  (`DrainStaysExclusive`) and `CleanTransfer` (`CleanCapture`). The invariant
  of `RxRing` does not carry over, because a drain now contains a callback: it is
  stated again for the longer masked section. `OverrunNeverLeft`
  (`OverrunEnds`) needs no condition: with the types of the hardware and of the
  places it is inductive, since whoever takes the last byte is in a section that
  looks at OERR, and a callback that polls ends the overrun itself.
- **`RxRouterProofs`**. `AsyncImplementsRouter`: every step of `RxAsync` is a
  step of `RxRouter` or a stutter, under `ReadyInHandler` and `FifoSurvives`.
  What the mapping needs beyond the invariant of `RxAsyncProofs` is `RouteInv`:
  nothing is anywhere before it has arrived (`ArrivedSafe`, which makes an
  arrival an arrival of the router: newer than all it has), `_read_byte()` still
  holds the oldest slot when it stores the index (`ReadSafe`, `LoadedSafe`), a
  ring that was flushed stays empty until the flush is over (`FlushedRing`), and
  a transfer is armed only where none is active (`QuietSafe`, `CleanSafe`). There
  is one lemma for each action of the router, saying what makes a step that
  action, and one for each action of `RxAsync`, saying which it is; a push that
  finds the ring full and the recovery by a callback are both the router's
  `ToStream`.
  `StreamAndTransfer` (`OnceInOrder`) is what this comes to: stream and transfer
  are each in the order of arrival and have no byte in common. It is an
  invariant of the router, kept by each of its actions (`OneArrives`,
  `OneTaken`, `SomeBuffered`, `OneGivenOut`, ...), and it holds without
  `FifoSurvives`: on a part that loses its FIFO with OERR a step is a step of
  the router or the loss of the bytes that wait (`Wiped`).
- **`RxPollProofs`**. `Accounting` (`StatusAccountsForBytes`): bytes read,
  discarded for an error, flushed and still in the FIFO add up to those
  accepted. The invariant `IInv` keeps this balance also for the arrivals, which
  bounds the counters and so gives `TypeInvariant`. `AskFirst`: a read that
  `rx_ready()` preceded never hands out an errored byte (`CleanWhenAsked`); the
  strengthening says what each status read already knows of the head.
  `NoSilentLoss` (`LossCounted`): no loss without a counter.
- **`TxAsyncProofs`**. Under `ChainOnly`, for all priorities: `TypeInvariant`
  (`TypeOK`), `WireOrdered` (`WireOrder`) and `NotReplaced` (`ActiveNotReplaced`).
  The descriptor is written in four steps, and in between it is of no transfer.
  The invariant says who may see it then: `Tested`, while one context writes the
  descriptor nothing is active, no other writes, and the handler is not in its
  loop. From that, `Whole` (buffer and length belong together once both are
  written) and `Order`, which ties the last byte on the wire to the buffer and
  to `Sent` whenever the count is settled. `CompletionIsTrue` (`CompletionTrue`)
  and `Implements` (the refinement of `TxTransfer`) need that the RX interrupt is
  not above the TX interrupt as well (`NotAbove`). `TransferServed` (`Armed`) needs
  only that no context above the TX interrupt starts a transfer (`NoStartAbove`):
  it rests on the types (`Typed`), which hold whoever starts. Section 5 shows that
  each condition is needed.
- **`LifecycleProofs`**. `TransferServed`, `ReceptionServed`, `DownQuiet` and
  the types, from one conjunction, strengthened by `UpIsOn` (an initialised
  instance has its UART on), which a start of a transfer relies on;
  `RateIsStable` and `InitAllOrNothing` as action properties.
- **`ReconfigureProofs`**. Of the divisor alone: `DivIsNearest`,
  `NearestIsBest` (no other divisor comes closer), `RegistersHold` (the hardware
  divides by what was computed), `NoOverflow`. Of the system: `TypeInvariant`;
  `RateIsNearest` (`RateNearest`) from these; `Prompt` and `Honest`
  (`TimeoutPrompt`, `TimeoutHonest`) from `ElapsedInv`: modulo the clock's
  period, the difference of the two readings is the time really waited.

**Model-checked only:** liveness (`ReceptionResumes`, `NoByteStranded`,
`BytesRouted`, `ByteLeaves`, `TransferEnds`, `WriteReturns`), which is outside
the prover's reach. Every other property of a passing run is a
theorem; the three refinements are proved whole, since `RxChannel`, `RxRouter`
and `TxTransfer` state safety only.

## 7. Not modelled, and why

- A `_rx_isr_config()` that is interrupted on a running ring: between two of its
  writes the code pushes into one buffer at an index of another, or beyond its
  end, which has no meaning in a model of either ring. As a whole call it is in
  `Lifecycle`.
- `rx_start_clean()` from an RX callback that interrupts the task inside
  `_read_byte()`: its flush moves the read index under the task, which then
  stores one of before the flush, so that flushed bytes are delivered. In
  `RxAsync` the callback chains with `rx_start()`.
- A TX callback that aborts the reception and starts the next one exactly
  between the store of a byte and the increment of its count (uart.c 1076,
  1077). In `RxAsync` these are one step and the TX callback only aborts.
- A transfer started by an RX_READY callback while the task is inside `rx_start()`,
  between the busy test (uart.c 940) and the last write of `uart_async_rx_arm`
  (1279): as in `tx_start`, the two transfers mix. In `RxAsync` the callback starts
  a transfer only when one has just completed, and a task between those two lines
  has found none active.
- Accesses that a compiler may reorder: the buffers and lengths of both engines
  (`tx_async_buf`, `tx_async_len`, `rx_async_buf`, `rx_async_len`) are not
  volatile. The models have them in program order, read each time.
- Which event bits a callback gets, beyond whether it is called; the RX error
  flags in `rxasync` (no errored arrivals there: `rxring_framing` shows what
  the handler makes of them).
- The register table of the device layer, the vector wrappers and the weak
  fallbacks: data and forwarding chosen by build options.
- The observers (each reads one variable or register and changes nothing) and
  the prose documentation.
