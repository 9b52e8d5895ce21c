# ES-inverter: TLA+ models and proofs

The firmware of an ESP32-C3 module that sits between a photovoltaic inverter
(RS-232, 2400 baud), a server (TCP) and a phone (BLE).  It polls the inverter,
accounts energy, sends measurements to the server, takes commands from it and
updates itself over HTTP.  It is C on ESP-IDF and FreeRTOS: one core, tasks with
priorities, queues, mutexes, software timers and event loops.

The models here are translated from the C code.  TLC checks them on small
instances; TLAPS proves the theorems of the `*Proofs` modules for every value of
the constants.  `PROJECT.json` lists the components, the runs, the mutants (for
each property a plausible bug in the code that the run finds), the source lines
of every definition, the findings, the hazards and the theorems.

    tlc -workers 2 -config Scheduler.cfg Scheduler
    tlapm SchedulerProofs.tla

## 1. Inventory

Own code is `src/main` and `src/managed_components/em_*`;
`managed_components/espressif__*` is third-party; of it the button driver and the
decryption of images carry logic that the firmware relies on.

| Component (source) | State | Operations | Talks to |
|---|---|---|---|
| Scheduler (`em_scheduler`) | table of 12 slots, one FreeRTOS timer each, a mutex | set, cancel, timer expiry | timer daemon's command queue; ten user callbacks |
| Serial client (`em_serial_client`) | table of 5 requests, one timer, command queue of 2, ring buffer | send, send periodic, remove periodic; timer, data received | UART task, timer daemon, inverter's handlers |
| Ring buffer (`em_ringbuf`) | array, two indices, flag | write, read, clear, flush, lengths | serial client |
| RS232-2400 protocol (`rs232_2400_protocol`) | static decode buffers | serialize a request, parse a response, CRC | serial client (callbacks) |
| Inverter (`inverter`) | mode, status, energy counters | `inv_init`, status and mode handlers | serial client, storage, TCP protocol |
| TCP client (`em_tcp_client`) | connection state, three queues, Wi-Fi bit | connect, disconnect, send, receive, long delay | Wi-Fi, scheduler, event loop, TCP protocol |
| TCP protocol (`em_tcp_protocol`) | TX handler, handler table, tokens | build and send, parse and dispatch | TCP client, dispatcher |
| SLIP (`em_slip`) | decoder position, static decoder | encode, decode, decode stream | TCP protocol |
| Dispatcher (`main/modules/dispatcher`) | none of its own | client info, authentication, update and time messages, delayed reboot | TCP protocol, scheduler, storage, update |
| Storage (`main/modules/storage`) | data base, dump request bits, callbacks, mutex | getters, setters, debounced dump, factory reset, histories | NVS, scheduler |
| Update (`main/modules/update`) | phase, running firmware | start, apply, cancel, status | HTTP OTA, scheduler, TCP protocol |
| HTTP OTA (`em_http_ota`) | queue of 3, download handles | start, process, finish, abort | HTTP, flash partitions, event loop |
| Event handlers (`main/modules/evt`) | none | system, LED and button events | all modules |
| Boot and shutdown (`main.c`) | boot confirmation bits | initialisation order, confirm or roll back | all modules |
| Wi-Fi station (`em_wifi`) | event bits | connect, disconnect, reconnect, scan | event loop, TCP client |
| BLE provisioning (`em_ble_*`) | session, advertising, pending stop | start, stop, credentials | Wi-Fi, scheduler |
| LED scenes (`em_led_scene`) | current scene, step | set scene, change state | scheduler |
| Button (`em_button`, `espressif__button`) | driver's state, callback lists, press timestamps | register, press, release | event loop |
| Encrypted images (`esp_encrypted_img`) | header section, cache, held bytes | start, decrypt, end, abort | HTTP OTA |
| Core dump upload (`em_coredump`) | offset, size left, ready | start, send next block | TCP protocol, event loop |
| Data set (`em_dataset`) | samples | add, clear, sum, average | its callers |
| Buffer, SNTP, UART, utilities | small or none | containers, time, byte order | their callers |

What is hard here, and what makes each component correct:

- **Scheduler.**  Callers hold the mutex while they wait for room in the daemon's
  queue, and the daemon takes the same mutex when a timer expires: deadlock.  A
  timer that has expired before it was stopped reports a request that is gone.
  Correct: requests are neither lost nor served twice, the table and the timers
  agree, every request is served in the end, calls return.
- **Serial client.**  Four producers and a consumer that waits for its own queue;
  a timer that is created, deleted and created again in a static buffer while the
  daemon may be late; delays that are computed as differences.  Correct: payloads
  are owned by one request, polling never stops while there is a request,
  one-shots end, answers are matched to requests.
- **Ring buffer.**  Wrap-around, full against empty, overwriting.  Correct: it is
  a bounded queue that drops the oldest bytes.
- **TCP client.**  `cmd_q` is reset before every connect and disconnect, from
  three tasks, without a lock; a buffer and its command are in two queues; stale
  errors of an old connection.  Correct: the device gets back online, a dead
  connection is noticed, a buffer has one owner, the send queue drains.
- **Storage.**  `dump_check` gives the mutex and goes on reading and writing
  `dump_request`; setters hold the mutex while they call the scheduler; a restart
  may come at any step; offsets of 32 bits from a clock that is set.  Correct: every
  change is committed, histories read back as they were added.
- **Update and HTTP OTA.**  Phases in two modules connected by events; abort while
  a chunk is being written; handles left over after the end.  Correct: at most one
  update at a time, status messages in the order of the phases, a new update can
  start after any end.
- **Boot.**  A new firmware must authenticate within a minute or is rolled back.
- **SLIP, RS-232 frames, TCP frames.**  Escapes at the end of a chunk, lengths at
  the limit of the buffer, bytes of the check sum that look like delimiters.
  Correct: decoding what was encoded gives it back, however it is cut.
- **BLE provisioning, Wi-Fi, LED, core dump.**  State shared by tasks without a lock:
  delayed stops that race with new starts, a counter that is set while it is counted
  down, a disconnection on demand against one that happens.  Correct: the session
  ends, the station reconnects, the LED settles, the dump arrives in order.
- **Encrypted images.**  Pieces of any length against sections and cipher blocks.
- **Button.**  Meanings made of times; callback lists that change during a press.
- **Inverter, data set.**  Energies over a clock that jumps; sums that wrap around.

`PROJECT.json` has the hazards at their lines.

## 2. Plan

1. `DelayedCalls`, `Scheduler`, `SchedulerProofs`: everything else that waits
   uses the scheduler.  **Done.**
2. `SerialClient`, `SerialClientProofs`: the core of the polling.  **Done.**
3. `OverwritingFifo`, `RingBuf` (its theorems are in `PartsProofs`).  **Done.**
4. `TcpClient`, `TcpClientProofs`, with the parts of Wi-Fi, event handlers and TCP
   protocol that drive it.  **Done.**
5. `Storage` (its theorems are in `DeviceProofs`): the data base, the setters and the debounced dump
   over NVS, with restarts; `Meters`: the histories in RAM.  **Done.**
6. `OtaSession`, `HttpOta`, `Update`, `UpdateProofs`.  **Done.**  `Device`,
   `DeviceProofs`: dispatcher, boot confirmation and restarts on top of
   `Storage`.  **Done.**  `EncryptedImage`: the decryption of a download.  **Done.**
7. `Slip`, `Protocol` (TCP messages), `Rs232` (frames and forms of the
   inverter's answers).  **Done.**
8. `Provisioning` and `Gatt` (BLE), `Wifi`, `Leds`, `Button` and
   `ButtonCallbacks`, `Coredump`, `Dataset`, `Inverter`.  **Done.**  `Parts`
   puts those that share no state with others into one run; `PartsProofs` has
   their theorems, but for the two protocols' (`Rs232`, `Protocol`), which are in
   `ProtocolProofs`.  **Done.**  `BasicLemmas` has what both need of numbers, sets
   and sequences.

Every safety property that a run checks is now a theorem.

## 3. Modules

### Scheduler (`scheduler.c`) and `DelayedCalls`

`entry[i]` is `scheduler_entry[i].msg` while `.scheduled`, `owner` the holder of
`scheduler_mtx`, `cmdq` the timer command queue, `armed` the daemon's list of
active timers, `dpc`, `dslot` and `cb_data` the daemon in `callback_wrapper`.
`Cancel`, `Reschedule` and `Schedule` take the mutex and edit one slot; each timer
command is sent by a `SendCommand` of its own, since it blocks while the queue is
full; `EndCall` gives the mutex.  `Expire` and `ProcessCommand` are the FreeRTOS
daemon (external code), `StaleExpiry`, `PickMessage`, `CallUser` and `UserReturns`
the wrapper.  A user callback may call the scheduler: `Call(Daemon, c)`.

Time is abstract (an armed timer may expire whenever the daemon looks), and calls
with `SCH_NO_DELAY`, which leave the scheduler alone, are not actions.

`DelayedCalls` is what `em/scheduler.h` promises: at most one pending request per
callback, the last parameters count, requests are served one at a time, once.
`KeepsPromise` is the refinement.

### SerialClient (`task.c`, `tx.c`, `rx.c`, `serial_client.c`)

`rq` is the request table, `cmd_queue` the task's queue, `todo` the timer commands
that the step under way has yet to send, `timerq`, `armed` and `dpc` the daemon,
`ring` the ring buffer as a sequence of frames (`RingBuf` justifies the sequence),
`removing` a response handler that removes its own request from within the task.
Each command is one action up to where it can block.  `since` is signed and in
milliseconds, as `since_last_sent` is; the comparison of a negative delay as an
unsigned number is in `NextDelay`.  A timer that is created in the memory of one that
still runs ends the behaviour (`aborted` is `"timer_relinked"`).

A chunk of bytes is one frame, and the parser is the one of
`rs232_2400_protocol`.  What it reports for a valid response is the constant
`ValidStatus`: `"ok"` is what `rx.c` expects of a parser, `"unknown"` what this
one does (see the findings).  The runs use `"ok"`, as the parser is a parameter of the
client; `serial_unheard` uses `"unknown"`.  `inv_init` is called by nobody at this
commit, so the application of the model is any caller of the client's interface.
Failing allocations are left out.

### RingBuf (`ringbuf.c`) and `OverwritingFifo`

Indices, flag and storage as in the code, the write loop one step per iteration,
`Read(n)` defined by the loop's exit condition.  One task owns the buffer, so calls
do not interleave.  `OverwritingFifo` is a queue that pushes out its oldest byte;
`em_ringbuf_clear` returns the number asked for even if there were fewer bytes,
and so does the abstract `Clear`.

### TcpClient (`tcp_client.c`, `sender.c`, `sys_evt.c`, `wifi.c`)

`cmd_q`, `send_q` and `rx_q` are the queues, `tx` and `rx` where the two tasks are,
`submit` a connect or disconnect between the reset of `cmd_q` and its sending,
`sender` a sender between its two queues, `timer` the scheduled connection
attempt (by the promise of `DelayedCalls`), `wifi` the connected bit, `got_ip` the
second of the two handlers of `IP_EVENT_STA_GOT_IP`, `events` the ONLINE and
OFFLINE events, `registered` the protocol's TX handler.  `send_q` holds senders, or
`"freed"` for a buffer that `send_data` has freed while it was in the queue.

Left out: the handler of `WIFI_EVENT_AP_STADISCONNECTED` (raised by access points
only), `em_tcp_client_disconnect_panic` (a restart follows), and the parsing of
what is received.  Delays are abstract, so the TX task may be slow enough for
`cmd_q` to fill.

### HttpOta, Update (`http_ota.c`, `update.c`, `sys_evt.c`) and `OtaSession`

`HttpOta` is the download task: `ota_q` its queue, `action` the last message
(`ota_msg`), `polling` whether `ticks_to_wait` is 0, `ms` the static state of
`handle_ota_process`, `https` and `decrypt` the two handles, each null, live or
freed, `got` the progress.  A turn that takes a message is `TakeStart` or
`TakeAbort`; a turn that times out is one of the state machine's steps.  A step is
one action up to and with the event that it posts, since what it touches is the
task's own; `EM_HTPP_OTA_EVENT_FINISHED` has two halves, `Verify` and `Finish`, with an
event in between.  `abort_ota_handle` on a handle that is freed sets `aborted` to
`"double_free"`: the behaviour ends there, and the program no longer has one that
can be relied on.

`Update` is `update_state` and whoever writes it: the server's messages, in the TCP
client's RX task (`Start`, `Submit` and `StartReturns` are the three steps of
`update_start`), and the download's events, in the event loop.  The queue holds a
pointer to the URL in `update_state`, so `Begin(url)` reads the URL of the moment.
`http_ota_submit_abort` has no caller in the repository and is part of the
interface all the same.

The image is abstract: its version, and `Chunks` steps of progress, each of which
may or may not be one that is reported.  The first chunk holds the application's
description, as the size of the requests (16 KB) makes sure.  HTTP, decryption and
flash may fail at any step, and the server may serve the version that runs.  Left
out: what is sent to the server, the encoding of versions, images of unknown length.

`OtaSession` is what the listeners of `EM_HTTP_OTA_EVENT` may rely on: one download
after the other, its events in order, an abort at any time.  `KeepsOrder` is the
refinement, over the events as the event loop hands them on.

### Storage (`storage.c`) and Device (`main.c`, `dispatcher.c`, `sys_evt.c`)

`database` is the copy in RAM, `nvs` what `nvs_get` returns (committed and pending
writes), `flash` what is committed, `dump_request` the section's bit, `storage_mtx`
the mutex, `step[t]` where a thread is.  A setter is `StartSet`, `TakeStorage`, then for
each field `SaveEntry` (data base and NVS), `SectionDumpRequest`, `ScheduleDump` (which
waits for the scheduler's mutex) and `DumpScheduled` (the last of its commands is in the
timer queue).  An entry that NVS does not take is logged by the code and passed over, in
a setter without asking for a dump; `failed` is the history of it.  `Dump` is
`dump_check`, one step per access: the check sums under the mutex, which is given at
385, then its reading and clearing of `dump_request` and the commit.  `RunRestart`,
`MainRestarts` and `Saving` are the dump of the whole data base, for a factory reset or
before a restart; `Boot(kept)` is a restart that keeps any subset `kept` of the pending
writes, then `storage_init`.  Of the scheduler `Storage` has what can block:
`scheduler_mtx`, held by each call while it sends its `left` commands one by one
(`SendCommand`, `LastCommand`), and the timer task, which takes the same mutex and sends a
stop before it calls a callback (`Expire`, `ClearEntry`, `Callback`).  `OtherCall` is a
call from any other task.

`Device` extends `Storage`: `Rx`, the TCP receiver's task, runs the server's messages
(`ConnectionStatus`, `ClientInfoRejected`, `SetPosition`, `RestartMessage`, and their
calls of the scheduler in `RxCall`), the event task the button's factory reset
(`ButtonReset`), the timer task the authentication and the delayed restarts, `Main` the
confirmation of a new image (`ConfirmImage`, `ConfirmTimedOut`).  `Tick` is time while
`app_main` waits; it passes only when nothing is due.  `Panic` ends a run anywhere.
`status_at` and `since` are history.

`Meters` is the other half of `storage.c`: current values, the meter and energy
histories with their offsets of 32 bits, and the list of listeners.  Each call is one
step under the mutex.

### The parts

`Parts` composes fifteen modules that keep their state to themselves.  They share no
variable, and where one calls another the module called allows that call at any time,
so in a behaviour of all of them each shows a behaviour of its own, with stutters.
Hence one part is at work at a time (`part`), and the run has the sum of their states
instead of the product.

| Module | Code | State and actions |
|---|---|---|
| `RingBuf` | `ringbuf.c` | see above |
| `Slip` | `slip.c` | `inside` and `esc` of the static decoder; the network delivers frames whole, two at once, torn or cut off, and one call decodes a chunk, byte by byte |
| `Protocol` | `receiver.c`, `parser.c`, `serializer.c`, `sender.c`, `messages.h` | layouts as sequences of widths: a field comes through when the reader finds it at the writer's offset with the writer's width; one action receives a message, calls its handler (any result) and answers |
| `Coredump` | `coredump.c` | the structure two tasks share, written field by field; authentications start uploads, confirmations drive them |
| `EncryptedImage` | `esp_encrypted_img.c` | the handle (state, cache, sections), fed chunks of any length; bytes are positions in the image |
| `Button` | `iot_button.c`, `button.c` | the state machine of one period, then the handler with its two timestamps, kept as ages; the clock may wrap around |
| `ButtonCallbacks` | `iot_button.c` | callbacks with arguments: registering, taking back, a press that calls them |
| `Leds` | `scene.c` | both scenes; `change_led_state` in its parts, and any task's setting and clearing in between |
| `Wifi` | `wifi.c`, `wifi_scan.c` | the event bits, the driver, the event loop's queue; handlers in their steps, connects, factory reset and restart |
| `Provisioning` | `ble_prov_svc.c`, `ble_adv.c` | a session, its scheduled end, NimBLE's state; starts in the event task, stops in two others, callbacks in the host task |
| `Gatt` | `ble_gatt.c`, `ble_prov_svc.c` | the characteristics, one buffer for all accesses; the credentials as they lie in memory, with what a text that is too long runs into.  Behind them the model ends |
| `Rs232` | `rs232_2400_protocol.c`, `rx.c` | the line, the ring buffer's view, what the parser judges; a byte carries the answer it is of, so the CRC fits exactly a whole answer.  The forms come from the parsers' comments |
| `Dataset` | `dataset.c` | the samples; sums wrap around at `Modulus` |
| `Meters` | `storage.c`, `storage.h` | see above |
| `Inverter` | `inverter.c`, `msg_handlers.c` | energies, their history, the reported status; the clock may be set, and tick within a handler |

What the modules abstract is in the comment at the head of each.

## 4. Runs

| Run | Shows | Bounds |
|---|---|---|
| `scheduler` | the assertions of `schedule_entry` never fail; table and timers agree; the promise is kept; a wedge is final; calls return and requests are served unless the scheduler breaks | 2 callbacks, 2 parameters, 1 task and the daemon, 2 slots, queue of 3 |
| `scheduler_assert` | violation: the assertion of `callback_wrapper` fails after a cancel | the same, 1 parameter |
| `serial` | payloads have one owner; polling goes on unless the timer is created again over one whose deletion is queued | 2 ids, 2 slots, both queues of 2, 2 calls, 1 answer owed |
| `serial_live` | the task gets back to its queue and one-shots end unless the client breaks | the same with 1 id |
| `serial_stall` | violation: the retry 100 ms later is armed 2^32 ms later | two periodic requests, nothing answered |
| `serial_unheard` | violation: a valid response is not taken for one | the status of this repository's parser |
| `tcp` | a send command has its buffer; an attempt is pending while offline; a dead link is noticed; the send queue drains unless muted or aborted; the client recovers | 1 sender, queues of 2, 1 event |
| `tcp_dropped` | violation: a message whose send has failed is sent from freed memory | as `tcp` |
| `update` | a download never begins on top of another, leaves nothing open, is of the newest URL; its events are in order; every update ends | 3 versions, 3 starts or aborts, 2 chunks, queues of 2 and 3 |
| `update_freed` | violation: the resources of a download are freed twice | 2 versions, 2 starts or aborts, 1 chunk |
| `device` | nothing that was set is forgotten; a factory reset is complete before the restart; an image is given up only if the server is late; handlers return unless the timer queue wedges | 2 positions, 1 field that NVS may refuse, 2 settings, queue of 1, 2 ticks to confirm, 1 delayed restart at a time, 1 panic |
| `parts` | see below | see below |

`parts` asks one question of each part:

| Property | Shows | Bounds |
|---|---|---|
| `ImplementsQueue` | the ring buffer is an overwriting queue | size 3, calls of 1 to 4 bytes |
| `DecoderRecovers` | a whole frame in a chunk of its own is lost only after a chunk that ended in the middle of a packet, and then one; two in one chunk are excepted | messages of 1 and 2 bytes |
| `ParsedAsSent` | every message of the right length is accepted and all its fields come through, but for three messages, which are refused | 7 lengths, those around 48, 96 and 128 among them |
| `AnsweredOnce` | a request is answered once, and a failure is told from a success | the same |
| `UploadsInOrder` | the server can put the core dump together | 2 starts, blocks of 2 of 5 bytes |
| `DecryptsHoweverCut` | the binary comes out in order however it is cut | block of 3 bytes, binaries of 1 to 8 |
| `FactoryResetMeant` | the factory reset is asked for only by its sequence | 4 clicks, times of up to 13 periods |
| `CalledOnTime` | callbacks are called in time, once, whatever was registered | 3 callbacks, 2 times, 4 periods |
| `LedSettles` | the LED does not stop half-way | 2 tasks that set scenes, counters modulo 6 |
| `ReconnectComes` | a provisioned station has a link, an attempt or an event | 3 events in the queue |
| `SessionEnds` | a session with a delay has its end scheduled | 2 events in the queue |
| `ProvisionedAsWritten` | what the phone writes is what is used, where it fits | arrays of 2 and 2 bytes, texts of up to 7, 2 access points |
| `AnswersUnderstood` | an answer that fits the view is judged once, however it is cut and what came before; one that does not, never | 1 answer, view of 8 bytes, ring of 16 |
| `AverageOfMiddle` | the average is that of the middle samples | 4 samples, sums modulo 8 |
| `HistoryReadsBack` | times and values read back as they were added, the clock set or not, and callers are told to flush exactly when nothing more can be added | 2 and 3 entries, clock up to 3, offsets and energies modulo 3, an energy that fits and one that does not |
| `EnergyKept` | from one clearing of the history to the next no energy is lost or counted twice, modulo the width of a counter | clock up to 3, history of 2, counters modulo 8 |

Why the bounds are enough to see the interesting cases: two slots and two
callbacks give reuse of a slot, full tables and a callback that moves between
slots; the queue of 3 is as long as the longest burst of one call, so it fills
with commands of two calls.  One task and the daemon are two threads in all the
code that locks.  In the serial client two requests are one that is due and one
that is late, and the queue of 2 is the code's own.  Calls of length 4 on a ring
of size 3 overwrite, wrap and clear too much.  In the TCP client queues of 2 fill
with what one sender, two resets and a long delay put there; the code's are
longer, and every abort the bounds show earlier takes only more messages there.
In the update three messages fill the download's queue of two (the code has three)
while a third is refused, before, during and after a download; two chunks are one
that reports progress and one that may be left out; the event queue of three holds
the longest tail of a download (downloaded, verified, finished).
In the device a timer queue of one fills with a single command, so each call of two or
three waits in the middle; two ticks to confirm against one of delay give a status that
is in time, one that is late, and one that comes again before the first is answered; two
settings and a restart give one before, one during and one after a dump; with one of the
two coordinates refused by NVS, a setter has an entry that fails beside one that does not.  In the parts sizes are scaled down and keep the order of
the code's: a ring that calls overrun, a dump whose last block is short, image
sections shorter and longer than a block, moduli that sums, offsets and energies
exceed, a text array
that is filled, breaks and presses on both sides of each limit.

Deadlock checking is off everywhere: a failed assertion stops the program, and the
wedged states are the subject of properties of their own.  `MaxCalls`,
`MaxUnanswered`, `MaxLag` (serial), `MaxEvents` (TCP, provisioning), `MaxStarts` (update, core dump),
`MaxSets`, `MaxJobs`, `MaxBoots`, `Fragile` and `OtherCounts` (device), `MaxPending` (Wi-Fi), `MaxData` (SLIP), `MaxClicks` and `MaxHold` (button),
`MaxCallbacks` and `MaxTicks` (callbacks), `MaxAnswers` (RS-232), `MaxTime` (meters), `MaxClock` and
`MaxEnergy` (inverter: what is recorded stays that close to 0 or to a wrap) and `ApIds` (GATT) are bounds of the models and not of the code; posting an event waits for room in the model where the code
aborts when the event loop is full.

### Fairness

- `Scheduler`: weak for sending a command and ending a call; strong for taking the
  mutex, for expiries and for the daemon's own steps.  FreeRTOS runs on one core
  and hands the mutex to a waiter; callers are idle between events, so the daemon,
  which has the lowest priority, gets to run.
- `SerialClient`: weak for the task and the daemon, which block on queues only.
  Nothing is assumed of the application, the inverter or the line.
- `TcpClient`: weak for the tasks, the scheduled attempt and the event loop.  Nothing is
  assumed of the network; `Recovers` has as premise that trouble ends and
  that attempts (5 s after a disconnection) and messages (seconds apart) do not
  for ever overtake what the tasks (500 ms, 10 ms) are doing.
- `Update`: weak for the download task and for the event loop.  The HTTP client gives
  up a silent server after `CONFIG_EM_HTTP_OTA_SERVER_TIMEOUT_MS`, so each of the
  task's steps ends.  Nothing is assumed of the server.
- `Device`: weak for the timer and main tasks in `dump_check` and in saving the data
  base, and for the restart; strong for the receiver, for the scheduler's calls in
  other tasks and for the timer task, which wait for a mutex or for room in the timer
  queue: FreeRTOS wakes the waiting task of the highest priority, and the timer task
  empties its queue between two expiries.  No fairness helps where the queue's reader
  itself waits: that is `Wedged`.  Nothing is assumed of the server, the events or the
  panics.
- `Parts`: none; all its properties are about safety.

### Findings

Five disagreements between the code and what its comments, assertions or headers
say, each with a run that shows it: the assertion at `scheduler.c:131`, the unsigned
comparison at `task.c:165`, the status at `rs232_2400_protocol.c:712`, the dropped
message at `tcp_client.c:470`, and the handles that are freed twice after
`http_ota.c:290`.  `PROJECT.json` quotes the lines.

What follows is written into the properties as the exception it is, and a maintainer
should know of it:

- Scheduler, serial client and storage can block for good on a queue whose reader
  waits for them (`WedgedForever`, and the `Wedged` of `TaskReturns` and
  `HandlersReturn`): a full timer queue stops the handlers of the server's messages
  when the timer task waits for the scheduler's mutex, for room of its own, or in
  `dump_check` for the mutex of a setter that waits for either.
- The serial client creates its timer in a static buffer.  When its last request was
  removed and another is added before the timer task has carried out the stop and the
  deletion, the timer is created over one that is still linked in the timer list
  (`tx.c:179-183`): the list is corrupt, what follows is undefined, and polling may end
  for good.  The behaviour of the model ends there (`TimerRelinked` in `PollingGoesOn`,
  `Broken` in `TaskReturns` and `OneShotsEnd`).  Polling ends in no other way, and the
  timer is relinked in no other situation.
- Resets of `cmd_q` strand buffers in `send_q` until nothing can be sent (the `Muted` of
  `SendQueueDrains`).
- A setting that NVS refuses is not dumped, then or later, unless another one is
  (`storage.c:439`), and a factory reset restarts the device although entries were
  refused, so the old values come back (`storage.c:312`); `NothingForgotten` and
  `FactoryResetComplete` except the entries that failed.
- An expired timer whose wrapper waits for the mutex serves the request that a caller
  is rescheduling meanwhile, before that request's delay has begun (`scheduler.c:134`).
- Three messages of the protocol are refused by a length check that does not count
  their fields (`Garbled` in `Protocol`); some values asked for are never sent
  (`Silent`).  The wireless channel is sent as a message of the TX power, in a buffer that
  is a byte too short for it (`sender.c:153`, `154`): `AnsweredOnce` excepts its type and its
  length.
- Two frames that arrive in one chunk come out of the SLIP decoder as one message that is
  neither, although `slip.c:304` keeps "decoding until no more packets": the buffer is not
  emptied between them.  `DecoderRecovers` excepts them, and says that the frame
  after them is decoded again.
- An energy of 2^32 Ws or more is cut to 32 bits in its history (`storage.c:718`), and so is
  the time of an entry that is before the first or 2^32 s after it (`storage.c:673`);
  `HistoryReadsBack` excepts them.  A caller whose entry is too old is not told to flush,
  full or not.
- What a full history of the inverter's energies holds is dropped: the log says "Send and
  clear", and the call that sends it is commented out (`inverter.c:254`).  `EnergyKept` is
  about what happens from one clearing to the next.  Energies are unsigned: a clock that is
  set back makes those of PV and of the AC output wrap around, whereupon they are stored at
  once (`inverter.c:196`), and `EnergyKept` is modulo their width.
- A scene that is cleared between the test of its toggles and their decrement
  (`scene.c:58`, `68`) leaves 2^32 - 1 of them, and the LED blinks on.  The model has it;
  `LedSettles` speaks of an LED that nobody will change any more, and does not exclude it.
- The answer to `QPIGS`, the client's main poll, has 110 bytes with its frame and that to
  `QPIHF` about 137 (`rs232_2400_protocol.c:226`, `584`), and `process_data` looks at 64 at
  a time (`rx.c:22`; `sdkconfig:562` sets `CONFIG_EM_SERIAL_CLIENT_MAX_PACKET_LEN` to 64,
  its default is 160): they are never judged.  Their remains stay in the ring buffer, in
  front of the answers that follow.  `QGOV` and `QCHGS` are rejected in the form that
  their parsers' comments give (`AnswersUnderstood`).
- A network name or a password is copied without a check of its length (`ble_prov_svc.c:248`,
  `252`): one of up to 128 bytes, which the service accepts, runs over the password, the flags
  and other data.  `ProvisionedAsWritten` excepts a password that was overrun until it is
  written again and a name that reads back cut, and the model ends where other data is hit.
  Connecting with an array that is full restarts the device (`wifi.c:101`).
- A core dump's announcement may come after its first blocks, and an authentication
  during an upload mixes two (`UploadsInOrder`).
- If the clock wraps around during the last press, a long one is enough for a factory
  reset (`FactoryResetMeant`).

## 5. Proofs

**Scheduler** (`SchedulerProofs`), assuming only `SchedulerAssumption`: the table
has a slot for every callback (the application has ten, the table twelve), the
queue has a positive length, the daemon is not one of the tasks.  `TypeOK` and
`TimersFollowEntries` are not inductive as they stand.  `IndInv` adds `Control` (who
owns the mutex, which commands are left to send and where the daemon is fit
together: only the owner has commands to send, and the daemon holds the mutex only
while it is clearing or in a call) and `OneEntryPerCallback`.  The argument about the
timers is that `ArmedAfter`, which replays the queued commands, depends only on the
last command for a slot: moving a command from `todo` to `cmdq` (`SendKeepsOrder`)
and processing one (`ProcessKeepsOutcome`) change nothing, and the commands of a
call settle the slot it edits (`CallDecides`, `EditSlot`).  The step is proved
action by action.  From it: `TypeCorrect`, `CallersSafe` (with a counting argument: a
table in which all slots are taken by distinct callbacks holds every callback),
`TimersCorrect`, `WedgedIsFinal` and, action by action, `ImplementsDelayedCalls`.

**RingBuf** (in `PartsProofs`), assuming only `RingBufAssumption` (positive size and
lengths).  `IInv == TypeOK /\ (is_full => read = write)`; without the second part a
full buffer could have any length.  The lemmas `ModIs` to `ShiftedIndex` are the
modular arithmetic of indices that wrap around; then each call is shown to take
`Contents` to what the abstract queue makes of it (`WriteByteRefines`, `ReadRefines`,
`ClearRefines`), and `QueueImplemented` follows; `QueueAmongParts` is the same of `PartsSpec`.

**Update** (`UpdateProofs`), assuming only `HttpOtaAssumption` and `UpdateAssumption`
(the queues have positive lengths, the running version is one of the versions).
`IndInv` adds to the types `Control` (which handles are live or freed in each state
of the machine: `BeginsClean` is about one state and follows from all of them),
`Newest` (an open download of an older URL has a message behind it in the queue, even
while `update_start` is between its two writes), and for the order of events
`Reported` (the event posted last is the one that the machine's state calls for) and
`InOrder` (the events that wait follow one another as `OtaSession` allows).  `OneMore`
and `OneLess` are what posting and handling do to such a queue; then there is a lemma
for each action.  From it: `TypeCorrect`, `CleanBegins`, `NoLeftovers`, `NewestWins`
and the refinement `OrderKept`.  That handles may be freed twice is part of what is
proved about: a behaviour that gets there stops.

**Storage** (in `DeviceProofs`), assuming only `StorageAssumption`.  `NothingForgotten` is not
inductive: a commit writes what NVS was handed.  `SInv` adds to it and the types
`Locked` (who holds the mutex), `EntryLeft` (a setter has a field left), `NvsFollows`
(NVS has the fields of the data base, but for those it refused and while a factory reset
writes them) and `CrcFollows` (the check sum in RAM is the committed one, or none, but
while a dump is on its way with it).  Most steps move a thread between places where it
neither holds the mutex nor is about to commit (`CalmSteps`); the others have a lemma
each, and `StorageInvariance` follows: for any fields' values, tasks, number of settings,
queue length and entries that fail, with a crash after any step.

**Device** (`DeviceProofs`), assuming `DeviceAssumption` as well.  `UsesStorage`: every step
of the device is one of the storage or leaves it alone, so `StorageInvariance` holds of
the device (`NothingLost`).  `DInv` adds `Announced` (a connection status that `app_main`
waits on has an authentication due, not later than `MaxAuth` after it, and no time
passes beyond it unless the timer task is wedged, which `WedgedStays` shows final but
for a restart),
`Resetting` (what a factory reset under way has left in RAM and, where NVS took it, on
flash) and `Counted`
(whether there was a restart).  From it `ResetIsComplete` and, action by action,
`GivesUpWhenLate`.

**SerialClient** (`SerialClientProofs`), assuming only `SerialClientAssumption`: periods
of more than 1 ms (`tx.c:74` asserts it), retries of 8 bits, positive lengths, a view of
the ring that fits into it.  `SerialInv` is the types with `PayloadsOwned`,
`PollingGoesOn` and `Deleted` (what is left to do with a timer that was deleted ends with
its deletion, which places the one exception of `PollingGoesOn`): every command is shown to leave the table sound (`Sound`: the payload of
each active request is its own) and, if requests are left in it, the timer about to run
(`Starts_Run`), whatever is armed, queued or late in the daemon meanwhile.  `NextDelay` is
a minimum over the table, hence `LeastElement`: a finite set of integers has a least one.

**TcpClient** (`TcpClientProofs`), assuming only `TcpClientAssumption` (positive lengths;
`"freed"` is no sender).  `TcpInv` has the types, `SendsInv`, `ReconnectPending` and
`LinkInv`.  That each send command has its buffer is counted: `Places` are the positions
of a command in the queue, and `PlacesAppend` and `PlacesTail` are what sending and
taking do to their number.  `DeadLinkNoticed` is not inductive, because a link breaks at
any time; `LinkInv` says the same of every link from when it is opened (`RxWillLook`) and
what the TX task takes it for meanwhile (`StateOfTask`).

**The parts** (`PartsProofs`, `ProtocolProofs`).  All theorems are of `PartsSpec`; a step
of another part leaves a part's variables alone.  The assumptions are those of the modules
(`LedsAssumption`, `GattAssumption`, `MetersAssumption`, `ButtonAssumption`,
`CallbacksAssumption`, `CoredumpAssumption`, `SlipAssumption`, `InverterAssumption`,
`ImageAssumption`, `DatasetAssumption`, `Rs232Assumption`, `ProtocolAssumption`): that
numbers are natural, and those positive that the code divides by, counts down from or
waits for; that a cipher's block has two bytes at least, as the section that holds the
binary's size goes through a cache of one block; that the view of an answer is not larger
than the ring buffer behind it (`task.c:33` gives that twice the room); and that a message
may have no entries.  No order of the thresholds is assumed.

| Theorem | Strengthening |
|---|---|
| `LedNeverStuck` | `ChangerGoesOn`: where the timer task is in `change_led_state` and what it has taken along; before the last part either nothing is left to blink, or a call is pending, or a task that is setting a scene will see to it |
| `StationStaysAlive` | `StaysAlive`: the property with what each handler holds between its two steps |
| `SessionsEnd` | `EndComes` (a limited session at rest has its end scheduled), `SessionsShut` (one that was stopped does not advertise) |
| `CredentialsAsWritten` | `CredentialsMeant`: an array that is not overrun is the last text and zeros behind it, with `TextOf(Padded(n, text)) = text`; a network name that is too long leaves no zero in its array |
| `HistoryKept` | `EntriesRefer`, `IntervalRefers`: each offset is that from the first entry, modulo its width; `EnergiesCut`: each energy is the one produced, modulo its width; `FlushMeant`: a caller was told to flush if and only if the history is full |
| `ResetsAreMeant` | `HeldSince` (the timestamps agree with how long the button has been held), `MeantSoFar` (three clicks are remembered over short breaks only) |
| `CallbacksOnTime` | `CallbackLists` (in order, no doubles, no time before the press is long), `CountStarts`, `PressUnderWay`: in a steady press the callbacks called are the list up to the count, about in time, and the others are still to come |
| `DumpsInOrder` | `Starting`, `Described`, `Covered`, `AtBlock`: between any two of the writes to the structure, what was sent covers the dump from its first byte on, and what is left adds up to the image |
| `FramesComeBack` | `SlipInv`: after a whole frame was missed the decoder is outside; that decoding a frame from there gives what was encoded (`FrameAlone`), and that two in one chunk leave it outside as well (`FramesTogether`) |
| `EnergyIsKept` | `EnergiesAgree`: history and counters add up to the integrals since the last clearing, modulo the counters' width (`SumOfRemainders`), and what the AC output misses is that between its timestamp and PV's |
| `DecryptedHoweverCut` | `ImageInv` with `HandleAt`: the handle's state, counters, cache and kept sections follow from how much of the image has arrived and how much was put out; carried through the six sections of a call (`HeaderCall`) and the blocks of the binary (`CallDone`) |
| `MiddleIsAveraged` | none but the types: `SumWraps` and `SumOfAll` show that the sum modulo 2^64 without the extremes is the sum of the others, as long as that fits |
| `AnswersAreUnderstood` | `Rs232Inv`: until a clean answer has all come, nothing was judged, and what is kept and what is still to come are noise without a whole frame and then the answer (`NoiseAndAnswer`); of an answer that does not fit the view, a `(` and a `\r` behind it are never both in what is looked at (`FarApart`) |
| `RequestsAreAnsweredOnce` | none: a step answers at most one request, and what is to be shown is that each message fits its buffer (`RoomForAll`), for each sender and any count of entries |
| `MessagesAreParsedAsSent` | none: for each received type, that what the parser reads is `Alike` what the server writes (`AllThrough`), and that `SizeOf` of its structure is not above that of the largest |

Two of these taught something.  The first attempt at `SessionsEnd` failed at a step that
TLC had never taken: a guard of `ProvStop` was missing its parentheses, and the model is
now as the code.  And TLC refuted the first `CallbackInv`: the count stays where it is when
callbacks are taken back in a press, and may then point behind the end of the list.

Induction over data goes through sets and functions instead of the library's theorems,
whose operators the provers cannot instantiate: `LeastNumber` (a set of numbers that is
not empty has a least) is cited from the library's well-founded orders, `Induction` is
that a set which has 0 and with each number the next has all up to a bound, and
`Recursion` that a function defined by recursion exists and has its equations.  `Frame`,
`Decode` and `Total` are functions of that form.  For SLIP, induction on the message's
length gives that decoding the frame of what is left, after what was decoded so far,
appends it; for the energies, that a sum with one more entry is the sum and the entry; for
callbacks, that those with the same time are one stretch of an ordered list; for the
protocols, that `ByteCount` adds up over joined layouts and `SizeOf` exceeds it by no more
than the padding.

For this `ByteCount`, `SizeOf`, `Size232` and `DatasetSum` are recursive functions, and the
tables of the protocol are joined by `++`, a definition of its own that the provers can
expand.  What is proved about the tables is more than their one instance: TLC has 7 numbers
of entries, the theorems have all, and so all lengths of schedules, snapshots, histories,
URLs and dumps.

The types of `Scheduler`, `RingBuf`, `Update`, `Storage`, `Device`, `SerialClient` and
`TcpClient` are proved, and no run repeats them; those of the parts are conjuncts of the
invariants above.

Only model-checked (no safety property is left here):

- the liveness properties (`CallsReturn`, `RequestsServed`, `TaskReturns`,
  `OneShotsEnd`, `SendQueueDrains`, `Recovers`, `UpdatesEnd`, `HandlersReturn`): the
  prover does not treat fairness and `ENABLED`.

## 6. Not modelled

- mDNS: nothing in the firmware calls it.  The LED strip: a driver of one LED.
- `em_buffer`, `em_sntp`, `em_uart`, `em_utils`: thin wrappers over allocation and drivers.
- ESP-IDF, FreeRTOS, NimBLE, the TLS transport, flash and NVS, the server and the
  inverter: external, by what the code relies on.
- `iot_button.c` for ADC and matrix buttons and power saving; ECIES in
  `esp_encrypted_img.c` (not compiled).
- `inv_init`, which nothing calls at this commit, and the averages that `inverter.c`
  asks of functions that exist nowhere: the file does not compile.
- Of the modelled components: allocation failures (but in `EncryptedImage`), the values in
  messages, formatting and logging, the initialisation in `app_main` (it runs alone),
  and what happens after an abort (the device restarts; `Device` has that).
