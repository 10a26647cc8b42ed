# A verification project for the PixelKey firmware

PixelKey is a USB stick with NeoPixels: a host sends command lines over a virtual COM port, the
firmware (bare metal, one thread and interrupts, on a Renesas RA4M1) queues *keyframes* for each
NeoPixel, renders a frame at every tick of a timer and sends the colors as a timed bit stream by
DMA. This directory holds TLA+ modules of the firmware in `src/src/src`, the TLC runs that check
them and proofs that the TLA+ proof system checks. Paths below are relative to `src/src/src` of the repository
unless they start with `docs/`, `test/` or `README.md`.

## 1. The system

| component | state | operations | talks to |
|---|---|---|---|
| task manager `hal_tasks.c` | `queued_tasks` (shared with interrupts), `pending_tasks`, `current_task` | `tasks_queue`, `tasks_run` | calls every task and, when idle, `hal_usb_idle`; the frame timer interrupt queues FRAME_TX, which queues FRAME_RENDER |
| NeoPixel transfer `hal_npdata_transfer.c` | frame buffer, two symbol buffers, fill position, status; DMA and timer registers | `npdata_frame_send`, DMA interrupt, `npdata_status_get` | task FRAME_TX starts it, task FRAME_RENDER waits for it and overwrites the frame |
| keyframe processor `pixelkey/keyframe_processor.c` with the keyframes set, blink, fade | per channel: queue, current keyframe, frame count, color; the heap | push, render, frame-rate change | commands push; the render task plays; `config-set framerate` restarts |
| ring buffer `pixelkey/ring_buffer.c` | array, two indices | push, pop, peek, empty, full, count | keyframe queues, command queue |
| USB serial `hal_usb.c` (over the vendored USB driver) | `op_state`, transmit and receive buffer and lengths, line state | event loop `hal_usb_idle`, `read`, `write`, `flush` | polled by the idle function and by busy-waits in `write` and `flush`; queues CMD_RX and TERMINAL_CONNECTED |
| configuration `pixelkey/config.c`, `hal_flash.c` | data flash, cached CRC | read, write, validate and upgrade | `hal_entry`, `config-get`, `config-set`, every reader of a setting |
| command reception `tasks.c`, parser `pixelkey/command_parser.c`, processor `pixelkey/command_processor.c` | input buffer, command queue, pending modifiers | scan a line, parse it to a list, queue, execute | serial, keyframe processor, configuration, reboot |
| fade `pixelkey/keyframes/keyframe_fade.c` | per keyframe: color array, list length, pair index and period | parse, init, render | keyframe processor |
| color mathematics `pixelkey/color.c` | none | conversions, blending, parsing of colors | keyframes, frame |
| startup, RTC, logging, version, vendored FSP | | | see `PROJECT.json` |

What is hard here, and what makes each part correct:

- **Shared words without locks.** The timer interrupt queues tasks while the thread does; the
  thread copies, masks and re-queues bits. Correct: no accepted task is lost, none waits behind
  the idle function, priority order holds.
- **Hardware in parallel.** Timer, DMA channel, interrupt handler and thread each move at their own
  pace over two small buffers. Correct: each frame goes out whole, in order, once; no buffer is
  written while it is read; the busy-wait in the render task ends.
- **Ownership of heap objects.** A keyframe belongs to the queue, then to `current_keyframe`, then is
  freed, with repeats, pre-emption and frame-rate changes in between. Correct: nothing freed is
  used, and a repeat count means what it says.
- **Two state machines that mistake each other's events.** `op_state` is one variable for both
  directions and control requests, driven by completions that come late, twice or never. Correct:
  output is not lost, buffers in use are left alone, waits end.
- **Power loss and upgrade.** Erase, then program. Correct: a torn write is never taken for a
  configuration; what was saved is kept.
- **A line edited in place.** The scan removes escape sequences, backspaces and finished lines from the
  buffer that it is scanning, by three loops that move the rest by different distances; the packet, the line and the command
  queue each have their own limit, and the parser works in the same buffer. Correct: the parser gets the line as typed and edited, but
  for what a command before it is known to take; each accepted command
  runs once and in order; what a full queue refuses is freed once; input is read unless a read was cut short.
- **Integer periods.** A fade divides a time by a number of color pairs and advances on exact hits; its list is
  rewritten at every initialisation, so also at repeats and frame-rate changes. Correct: the colors change on
  time, the last one is shown last, no cell outside the array is touched.

## 2. Modules

| module | what it is |
|---|---|
| `PriorityScheduler` | abstract: a set of waiting tasks, the one of highest priority runs next |
| `TaskManager` | `hal_tasks.c`, instruction by instruction where the interrupt can fall between |
| `FirmwareTasks`, `MCTaskManager` | the seven tasks of `hal_tasks.h` and who queues whom |
| `TaskManagerProofs` | proofs for every task list |
| `FrameStream` | abstract: the symbols of one frame, in order, once |
| `NpDataTransfer`, `MCNpDataTransfer`, `NpDataTransferProofs` | timer, DMA channel, interrupt handler, the send and the render task |
| `BoundedFifo` | abstract: a FIFO queue of bounded length and the answer of the last call |
| `RingBuffer`, `MCRingBuffer`, `RingBufferProofs` | `ring_buffer.c` and its proofs for every length |
| `FadeKeyframe`, `MCFadeKeyframe`, `FadeKeyframeProofs` | `keyframe_fade.c` as one channel plays it: array cells, pair index, repeats, restarts |
| `KeyframeProc`, `MCKeyframeProc`, `KeyframeProcProofs` | keyframe processor, keyframe commands, set and blink, with the heap |
| `UsbSerial`, `MCUsbSerial`, `UsbSerialProofs` | `hal_usb.c`, the driver's side of each event, and the host |
| `ConfigStore`, `MCConfigStore`, `ConfigStoreProofs` | `config.c` and `hal_flash.c` with power loss and flash errors |
| `TerminalBytes` | the classes of input bytes, escape sequences, what the parser accepts |
| `CommandTerminal` | abstract: a line that is typed, edited and entered, the commands that run |
| `CommandProcessor` | the parser's lists, the command queue, the task that runs commands, the prompt, reboot |
| `CommandReception`, `MCCommandReception`, `CommandReceptionProofs` | the scan of `tasks.c` over the input buffer, on top of `CommandProcessor` |

`map` in `PROJECT.json` names the source lines of every definition. Definitions with a suffix
(`TxEnd_Always`) are deliberately wrong variants: each is put in place of the definition it is
named after to show that a property can fail.

### TaskManager

`queued`, `pending`, `running` and `i` are `queued_tasks`, `pending_tasks`, the task whose function
is on the stack and the loop counter; `pc` and `reg` are the thread's position and the register
of the load-OR-store in `tasks_queue`. `Poll` and `Take` are the copy under disabled interrupts, `Start`,
`Return`, `NextTask`, `Preempt`, `Requeue` the loop; `QueueLoad` and `QueueStore` are the two halves of
`tasks_queue` in the thread, `Interrupt` the whole of it in the timer interrupt; `Reset` is
`pixelkey_reboot`. A task body is "queue any task this task can queue, any number of times, and return".
`fresh` is a history of the tasks that the interrupt queued since the thread last looked at the words: the
only ones that `PriorityRespected` lets a task of lower priority overtake, once each. In `PriorityScheduler` the same is `Interrupt`
and `Look`.

### NpDataTransfer

`Overflow` and `DmaTransfer` are hardware; `Isr...` are the statements of `dmac0_repeat_isr` that matter
to the other actors, `Send...` those of `npdata_frame_send`, `RenderFrame`, `WaitDone`, `CopyPixel` the render
task. A buffer cell holds the identity of a symbol (frame version, pixel, bit), so a stale, skipped
or foreign symbol is visible. Not modelled: the output stage after `GTCCR[3]`; that the interrupt
handler is fast enough for the 1.25 µs of a symbol is not assumed, the channel waits
(in the hardware the waveform would repeat a symbol: a question of timing, not of order).
Disabling the DMA channel clears a request that an overflow latched.

### RingBuffer

One action per function; `answer` is what the last call returned. `BoundedFifo` has capacity
`Length - 1`: the code sacrifices one slot, so the queues of `hal_device.h:26,32` hold one element
fewer than their names say.

### KeyframeProc

`heap` maps objects to keyframes, `Free` or `Leaked`; `CloneAndPush`, `CloneFails`, `WrapperReturn` are the loop of
the wrapper handler over the channels, `RenderFrame` the whole of
`pixelkey_keyframeproc_render_frame` for all channels, `FramerateSet` the whole of
`pixelkey_keyframeproc_framerate_set`. Times are frames. Fades and keyframe groups
(excluded from the build) are not modelled; the startup fade is replaced by a blink that
repeats for ever; what a fade does inside its time is in `FadeKeyframe`.

### FadeKeyframe

One channel without its queue: `StartFade` is the render in which a keyframe is taken from the queue (any keyframe,
at any frame, so a queued one may replace one that runs), `NextFrame` every other render, `FramerateSet` the restart by
`config-set framerate`. `RenderInit` is `keyframe_fade_render_init`, `Indexed` and `Shown`
`keyframe_fade_render_frame`; `InitCells` and `FrameCells` are the cells of the color array that they touch, and a
touch of another cell sets `overrun`: from there on the program's state is undefined and the model stops. A color is what a command
gave, `Black` for a cell never written, or `Between` for whatever a blend shows between two colors; the
conversions to HSV and back, which round, are left out, and so is the shape of the curve. The time of a fade is given in
half seconds, the finest that still makes pairs of uneven length.

### UsbSerial

`UsbIdle` is one call of `hal_usb_idle`: one case of the switch, or with no event `TxStart` or
`RxStart`. The calls are `CallWrite`/`WriteWaits`/`WriteCopies`, `CallFlush`/`FlushWaits`/`FlushReturns` and
`CommandRx`; a wait is a loop of `UsbIdle`. The driver handles one bus interrupt and pops one event
each time it is polled, so what the host does is one step (`Host`), taken when the driver handles it. Data
is abstracted to lengths: bytes keep their order and a transfer carries the first ones, so `got` and
`cut` (how much of the buffer the host has received, how much a cut-off transfer carried) say what
became of each byte. The driver tells of the end of a connection once: a bus reset of a connected device raises the
detach event (`r_usb_psignal.c:105`, `r_usb_pdriver.c:2283`) and marks it disconnected, and from then until it is configured
again the completions of its transfers and a detach raise nothing (`Connected`, `BusReset`, `Detach`, `DetachReset`). Requests of the host other than SET_CONTROL_LINE_STATE and the line coding
ones, and a reset of a device that is not configured, change nothing here.

### ConfigStore

A configuration is a sequence of fields; `flash` holds CRC, length and as much of the body as was
programmed, so a torn write is a shorter body. A CRC *is* the data it was computed over: collisions
are disregarded. `Boot` starts the same firmware or one that appends fields; `Validate` is
`config_validate`; `BeginWrite`, `Erase`, `Program`, `WriteDone`, `WriteFails` are `flash_config_write`; `PowerLoss`
may come between any two. A start after which the configuration could not be written stops (`BKPT` in
`hal_entry`). A firmware with *fewer* fields than the stored structure is not modelled.

### CommandProcessor and CommandReception

A byte is one of eight classes: a letter (a whole command with its argument and semi-colon, which is also a final byte of escape
sequences), a name (a keyframe command without argument or semi-colon), a digit (no command begins with one, but it may be an
argument), escape, backspace, new-line, NUL, and a cut: a command in which the parser has put a NUL behind the name. `rx` is what has arrived and was not read,
`buf`, `idx`, `left`, `csi` are `input_buffer`, `input_buffer_idx`, the loop counter `i` and `csi_start`. `StartRead` is the read,
limited by the room; `StartReadOffline` the same task when the interface went offline after the event, which
ignores the error and scans as many old bytes as there was room. The `Scan...` actions are the branches of the loop, one turn each;
`Moved` is a move of bytes within the buffer, and a byte that the new-line loop reads behind the buffer is any byte.
The parser edits the buffer too: `Reached` are the commands of the line that it cut, `TakenAsArguments` those behind the line that a
keyframe without arguments (`LooksBehind`) took for its own, up to the next NUL (`Behind`). Such a keyframe is accepted only when it
`FindsArgument` there; what a line is to the parser after an earlier cut ends at that cut (`CString`). Not modelled: bytes behind
`input_buffer` that are cut, when the bytes behind the line run to its end.
`ParseFails` and `ParseAndPush` are the two ends of parsing a line (an allocation can always fail: the heap is shared);
`StartHandler`, `RunCommand`, `EndHandler` are `pixelkey_commandproc_task`, `SendPrompt` the prompt task, `RebootProcessor`
with `Reboot` the reboot. A packet can arrive between any two of them. `live` and `nodes` count the
command and list-node allocations; `nodes` only grows, because the nodes of pushed commands are never freed.

`CommandTerminal` is what the user gets: bytes applied in order to a visible line, and the commands of an entered line run once
and in order. `ImplementsTerminal` is its refinement mapping: the line is the part of the buffer in front of
the index or of an open escape sequence, the bytes that wait are the part behind. Four weaknesses are written into it, so that the run
shows what else could go wrong: a backspace on an empty line eats a byte behind it, an offline read delivers bytes
nobody sent, a line may be refused for memory, and a line that ends in a keyframe without arguments may cut commands that wait
behind it, and changes nothing else of them. `cut` remembers that a read met too little room or was offline; `InputRead`
shows that the device stops listening only after that, or in a flush that does not return: `InputRead` and `CommandsRun` assume that
the flushes of the echo and of the answers return, which `FlushReturnsInService` shows only for a link in service
(section 3, `hal_usb.c:118`).

## 3. Runs

| run | question | instance |
|---|---|---|
| `task_manager` | is anything but a tick lost, is priority kept, does the scheduler implement `PriorityScheduler`, does queued work get done | the firmware's own seven tasks |
| `npdata_transfer` | order, completeness, races, ends; refinement of `FrameStream` | the firmware's own sizes: 4 pixels of 24 bits, buffers of 8; 2 frame versions |
| `ring_buffer` | is it a FIFO queue across every wrap | array of 4, the keyframe queue's length |
| `keyframes_safety` | heap, times, repeats | 2 channels, queue array of 3, heap of 5, 2 keyframes, 2 repeat counts, 2 frame rates |
| `keyframes_liveness` | do finite keyframes end | 1 channel, heap of 4 |
| `fade_keyframe` | list, array, index and end of a fade over repeats and restarts | lists of 0 to 3 colors, array of 4, 4 periods, step and blended, with and without `&`, 3 repeat counts, 2 frame rates |
| `fade_ends_black` (violation) | a fade to one color ends on it | the same, one fade |
| `usb_serial` | output not lost, buffers left alone, waits end | buffer of 2 bytes, 2 line states, 3 waiting events |
| `config_store` | torn writes refused, settings kept | firmwares with 2 and 3 fields, 3 values |
| `config_lost_after_upgrade` (violation) | settings survive appended fields | the same |
| `command_reception` | the line as edited, commands once and in order, ownership, prompt, listening; refinement of `CommandTerminal` | 5 bytes of input in packets of up to 3, buffer of 4, queue of 2, 1 offline read |
| `commands_not_halted` (violation) | an error halts the commands behind it in its line | the same |

**Bounds.** Sizes that exist in the firmware are used as they are (tasks, pixels, buffers, queue
array). The others: two keyframe channels suffice because a channel touches another one only through
the heap and through the loops over channels; five heap objects fill one channel's queue and let an
allocation fail in the middle of the wrapper's loop. A USB buffer of two bytes distinguishes empty, partly full,
full and refused writes, and a transfer shorter than the buffer. `EventMax` = 3 is less than the
driver's 10: `Detach` with both pipes busy raises exactly three, and the host stops while the queue is full. The driver's ring
would silently overwrite events beyond its size; it takes one event in every poll that may add
one, and transfers start only when none waits, so it does not come near that. The proofs hold for any bound. The input buffer of four
bytes and the queue of two let a line overflow the queue, a packet overflow the queue with its lines, a line fill the buffer, and an
escape sequence, a backspace and a new-line meet in one read; five bytes let a second packet arrive behind an unfinished line. The fades
have lists of none, one, two and three colors in an array one longer than the longest list, as in the firmware, and periods
that divide evenly among their pairs and that do not, down to one shorter than the pairs. Three
values and two sizes let a save, an upgrade and a second save all differ. `CHECK_DEADLOCK FALSE` is
given where the model may really stop: a crashed firmware, a flush that nothing can end, a fade that has left its array, and input that has ended.

**Fairness.** The thread runs (`WF(Thread)`) and a task body returns; the timer is periodic and not
synchronised with the thread, hence strong fairness of its interrupt outside the few instructions
of `tasks_queue`. Timer, DMA and handlers are hardware or run to completion: weak fairness; a frame
tick is *not* assumed. The keyframe module uses what the task manager's run shows: a command handler runs to its end
(weak), the render task recurs (strong). The command tasks and the scan are weakly fair as one thread; that a packet arrives is not
assumed, but that the flushes inside the tasks return is. For the USB the loops inside a call go on (weak), an attached host polls the
IN endpoint and ends a control transfer that it began (weak); nothing is assumed about
writes, line-state changes, suspension, reset or configuration, which the host may or may not do.

### Where the code and its documents or comments differ

Shown by a run (`findings` in `PROJECT.json` quotes both sides):

1. `hal_flash.c:52`: the CRC covers the length of the *previous* structure; an upgraded configuration
   is refused, and replaced by the defaults, at the second start.
2. `keyframe_fade.c:115`: making room for the current color overwrites the last color of the list; a fade
   to one color ends black (`docs/keyframes.md:26,31`).
3. `command_processor.c:134`: a NAK does not halt the commands behind it (`README.md:18`).

In the models, and excepted by their properties, without a run of their own:

- `hal_tasks.c:65`: the timer interrupt between load and store of the thread's `tasks_queue` is lost (`Interrupt`, `QueueStore`).
- `keyframe_processor.c:170`: a frame-rate change uses the NULL keyframe of a channel that has played out (`FramerateSet` sets `crashed`).
- `hal_usb.c:230`: a read that completes during a write makes the same output go out twice
  (`command_processor.c:168` knows of this for the handshake).
- `hal_usb.c:118`: after SET_CONTROL_LINE_STATE nothing brings the interface back; a flush hangs the firmware.
- `hal_usb.c:156,174`: RESUME is ignored after SUSPEND took the interface offline.
- `hal_flash.c:72`: a write that fails while rewriting the very same data leaves `nv_crc` matching a torn structure;
  it is accepted until the restart, and saves on top of it are lost.
- `hal_usb.c:296`: a read of a part of a packet leaves the *first* bytes for the next read; `tasks.c:111`: what did not fit keeps `rx_length`
  above zero, no read is started again, and the device no longer listens (`cut`).
- `tasks.c:112`: the result of the read is not looked at; offline, old bytes are scanned as input.
- `tasks.c:146`: a backspace on an empty line swallows the rest of the read that follows; `tasks.c:136`: a lone escape swallows bytes up to
  the next letter.
- `tasks.c:178`: a line, or several lines of a packet, that overflow the command queue lose their last commands.
- `keyframe_processor.c:67`, `command_parser.c:191`, `tasks.c:195`: replaced or refused keyframes and list nodes are never freed.
- `keyframe_fade.c:115`: with `&` and no color the shift starts at 255 and moves 255 cells of a 16-cell array; `keyframe_fade.c:119`: with `&`
  the list grows at every initialisation; `keyframe_fade.c:65`: frames that do not divide evenly step past the list;
  `keyframe_fade.c:152`: a period shorter than the pairs shows only the first color.
- `keyframe_blink.c:84`: a blink without colors takes its own off color as on color when it repeats
  (`docs/keyframes.md:21`); `keyframe_blink.c:61`: the on time is one frame short (`docs/keyframes.md:23`).
- `keyframe_processor.c:92`: a repeat count of 0 plays once; `docs/keyframes.md:57` says that it repeats until the next
  keyframe. `RepeatAccounting` and `FiniteKeyframesEnd` say nothing of that count (`RepeatZero`).
- `command_parser.c:760`: a keyframe without arguments takes the bytes behind its line for them, which are the next
  lines of the packet, and puts NULs into them; the comment at `command_parser.c:666` says that it is refused
  (`TakenAsArguments`; `CommandTerminal` states it as a weakness).
- A queued keyframe pre-empts counted repeats (`docs/keyframes.md:14`).
- `ring_buffer.c:121`: the count is one too many after a wrap (theorem `CountOneTooMany`; no caller).
- `command_processor.c:550`: the repeat modifier survives a failed clone.

Met while reading code that is not modelled:

- `command_parser.c:732` and the handler at `command_processor.c:576` disagree on how a channel range is stored; channel numbers are cut to
  eight bits; a line with channels and no keyframe type takes the length of a NULL string (about `command_parser.c:750`); `trim` removes only a part of the white space.
- `repeat` without a count is refused (`docs/keyframes.md:54-60`).
- A color component of 100 % is refused: the bound is exclusive (`docs/keyframes.md:161-173`). `parse_next_f32` answers -1, not NaN, for a missing token.
- `cubic(...)` reads the first number four times; a downward fade of the value converts a negative number to an unsigned byte.
- `command_processor.c:389`, `hal_entry.c:78`: frame rate 0 divides by zero.

## 4. Proofs

All for every value of the constants, with no assumption but the ones named in the modules.

- **TaskManagerProofs**: `TypeCorrect`, `TasksNotLost`, `IdleOnlyWithoutWork`, `PriorityOrder`, and `ImplementsScheduler` (every step of `TaskManager` is
  a step or a stutter of `PriorityScheduler`, with the waiting set the union of the two words). The
  inductive invariant adds `ScanInv` (what the thread's position says about the words and the
  register) and `StalePendingQueued`: a copy of `queued_tasks` over `pending_tasks` keeps a task only
  if its stale bit is also queued.
- **RingBufferProofs**: `TypeCorrect`, `PeekNullMeansEmpty`, `RingIsFifo` (refinement of `BoundedFifo` of
  capacity `Length - 1`) and `CountOneTooMany`. The invariant adds that the slots between the indices were written;
  the lemmas renumber the elements when an index moves or wraps.
- **UsbSerialProofs**: `TypeCorrect` (no write leaves the buffer), `BuffersSafe`, `WriteStateHasEnd` and the action property
  `OutputNotLost`. The invariant adds `CompletionsInOrder`: a transfer is started only when no event waits, so the
  completion that waits is always the last transfer's, and in the WRITE state that transfer carries the
  whole buffer; hence the completion `tx_end` believes really is about all it drops. Lemmas `Raised` and
  `Taken` say what appending and taking events does to those that wait.

- **ConfigStoreProofs**: `TypeCorrect`, `UsableInSession` (`ConfigUsable`), `TornNeverAccepted`
  (`NothingTornAccepted`) and `SavedIsKept` (`SettingsKept`), for any list of firmware sizes and any values. The first three
  follow from `FlashInv`: a CRC over a structure knows how many of its fields it covers (`Covers`), so a structure whose CRC
  agrees with as many fields as its length says has all of them (`AcceptedIsComplete`), and within a session `nv_crc` is the CRC in
  flash until a write fails. `KeptInv` adds, for `SettingsKept`, which of the images in flash and in RAM has a CRC over the whole
  structure (`Good`). `ConfigConstants` says that a CRC over bytes on the stack behind a structure, or over blank flash, is not one
  over a structure: as with collisions, such an accident is disregarded.

- **NpDataTransferProofs**: `TypeCorrect`, `NoRace` (`NoBufferRace`), `NextReady` (`NextSymbolReady`) and `ImplementsStream` (every
  step is a step or a stutter of `FrameStream`), for every strip, color depth and buffer length that divides the frame into whole buffers.
  The invariant counts in blocks, one buffer each: `Done` blocks are sent, `Target` is the one being written. `StreamInv` places the symbols of
  block `Done` in the buffer that the channel reads and those of block `Target` in the other, and relates the channel's three counters to
  the number of symbols sent; `SendInv` says the same of the two buffers that are filled before the timer starts, `QuietInv` that
  the channel rests between transfers, `FrameInv` that the frame is copied only then. `Push` is the arithmetic of one symbol.
- **KeyframeProcProofs**: `TypeCorrect`, `NoFreedOrShared` (`HeapSafe`), `TimeBounded` (`TimeWithinKeyframe`) and `PlaysAsAsked`
  (`RepeatAccounting`), for any number of channels, heap and queue sizes, and keyframes. `OwnershipInv`: each object is held at most once, by one
  channel, as its current keyframe or in one place of its queue, and holds a keyframe. `RepeatInv`: the plays that history
  counted and the repeat count that is left add up to what was asked. A render treats all channels at once, so the lemmas
  `RenderOwns`, `RenderQueue`, `RenderPlays`, `RenderHeap` say what it does to one of them.
- **FadeKeyframeProofs**: `TypeCorrect`, `StaysInside` (`StaysInArray`), `ChangesOnTime` (the action property `StepsOnTime`) and `EndsOnLast`
  (`ExactFadesEnd`), for any fades of any times and any frame rates. `PlayInv`: the index is the time divided by the period of a pair (`OnTime`), because times go
  up by one from a start that resets the index, also when a frame rate change restarts the fade in the middle. A period that divides evenly
  finishes at `(len - 1)` pairs, so the index reaches the last color then and no later; `Bounded` fades stay in the array.
- **CommandReceptionProofs**: `TypeCorrect`, `StaysInBuffer` (`ScanInBounds`), `NoLostOrFreed` (`CommandsOwned`), `PromptLast`
  (`PromptAfterCommands`) and `ImplementsTheTerminal` (refinement of `CommandTerminal`), for any buffer, packet and queue lengths. `InputInv`: what is
  scanned and what is left fit in the buffer, and an open escape sequence begins in front of the index. `QueueInv`: the commands that wait
  differ, come from lines already typed, and are exactly those allocated. `TaskInv`: while commands wait, the handler runs or
  is queued; and while a reboot is queued nothing is left to scan and no command waits outside the handler. The last part is what the reboot,
  the first task in priority, needs in order to leave nothing allocated behind. For the refinement, `Parts` splits the buffer into the visible line
  and the bytes behind, and there is one lemma for each branch of the scan (`CsiEnds`, `BackspaceErases`, `NewlineEnters` ...); `WaitingCut` and `WaitingMoved` say what a new-line leaves of the bytes
  behind, with and without a keyframe that looked there.

**Assumptions.** They are the named `ASSUME`s of the modules, evaluated by every run. Those that are more than typing:
`TransferConstants` wants a frame of whole buffers, which `hal_npdata_transfer.c` needs too (it programs the channel with a number of whole buffers).
In `KeyframeConstants` a keyframe that is handed over has `finish` and `transition` zero, as the parser leaves them; the heap
holds at least the startup keyframe of every channel; and frame rate 0, which `config-set` accepts but which divides by zero (section 3), is left out. `StartupConstants` says that the startup keyframe goes on after its
first frame, as the fade of `hal_entry` does at any frame rate. `FadeConstants` has room for two colors or more: with one, a blended fade of one
color would leave the array; the firmware has room for many more. `ConfigConstants` is explained above. `BytesDiffer` says that the eight classes of bytes are different.

**Only model-checked**: the liveness properties `WorkConserving`, `IsrTasksServed`, `TransferEnds`, `FiniteKeyframesEnd`, `WriteReturns`,
`FlushReturnsInService`, `InputRead` and `CommandsRun`, since fairness and ENABLED are outside the proof system. Every invariant, action property
and refinement of the passing runs is also a theorem. Nothing is proved about recursive definitions: the modules have none.

## 5. Not modelled, and the plan

Not modelled: color mathematics. It is arithmetic on single-precision floats whose rounding decides which byte results; TLA+
has no floats, and with integers in their place the module would be another program than the code. The grammar of single commands and keyframes
(strings to values) is abstracted to its results. Not to be modelled: the serial registry (one pointer), the RTC (empty), logging,
version, tests, build files, keyframe groups (not in the build), and the vendored drivers beyond what `UsbSerial` and `NpDataTransfer` use.

1. `Firmware`: `TaskManager` composed with the wait of the render task and the busy-wait of a flush, to state that
   a flush that ends lets frames go on, and one that does not stops them.
2. Proofs: what follows from the refinements for a user, stated on the abstract specifications and carried over, such as that the
   commands of a line run in the order typed (`CommandTerminal`) and that no symbol of a frame is sent twice (`FrameStream`).
