# raptor-kernel in TLA+

A verification development for the raptor kernel, a 32-bit hobby kernel with a heap, an in-memory
filesystem, a keyboard/serial console and a shell. Modules are translated from the C source; the
line ranges each definition stands for are in `PROJECT.json` under `map`.

Contents: [inventory](#1-inventory), [plan](#2-plan), [modules](#3-modules-and-the-code),
[runs](#4-runs-and-what-they-show), [bounds](#5-bounds), [fairness](#6-fairness),
[proofs](#7-proofs), [findings](#8-where-code-and-documents-disagree),
[abstractions](#9-abstractions-and-what-is-left-out).

Commands, from this directory: `tlc -config Ramfs.cfg MCRamfs`, `tlapm KheapProofs.tla`.

## 1. Inventory

There is one thread, `kmain()` and then the shell. The only concurrency is with interrupt
handlers. They run with interrupts off, so a handler is atomic; the thread never disables
interrupts after `idt_init()`, so a handler can run between any two of its memory accesses. The
timer and the keyboard are the only devices that interrupt; the UART is polled.

| Component | State | Operations | Hard behaviour | What makes it correct |
|---|---|---|---|---|
| kernel heap `mm/kheap.c` | block list threaded through the region | `kheap_init`, `kmalloc`, `kzalloc`, `kfree`, `kheap_stats` | long mixes of splits and merges, exact-fit edges, exhaustion | blocks tile the region, neighbours are coalesced, clients' data survives, NULL only if nothing fits, the loop ends |
| keyboard `drivers/keyboard.c` | ring, `shift`, `caps`, `saw_e0` | `keyboard_irq`, `keyboard_read` | handler between two accesses of the reader, full ring, overlapping E0 sequences | keys once and in order, dropped only when full, characters as typed |
| console input `lib/console.c`, `drivers/serial.c` | UART FIFO, position in the loop | `console_getchar` | key between the test and the `hlt`, UART without interrupt, timeout inside an escape sequence | every key and byte is returned in the end; a byte stream is decoded as a stream |
| console output `lib/console.c`, `drivers/vga.c` | cells, cursor, capture buffer | `console_putc`, `vga_putc`, capture | scrolling, wrapping, full capture buffer | screen shows what was written, capture is exact up to its limit |
| ramfs `fs/ramfs.c` | node tree on the heap | `ramfs_create`, `_resolve`, `_write`, `_delete`, `_move`, `_path` | allocation failure half-way, pointers reused, moves above the working directory | one tree, one owner per buffer, writes exact or without effect |
| file commands `shell/commands.c` | `shell_cwd` | `cd cat mkdir touch rm cp mv` | sequences that leave `shell_cwd` behind | each changes one entry, a failure changes nothing |
| line editor `shell/shell.c` | line, history ring | `read_line`, `replace_line`, `history_add` | ring wraps, line at its limit, line wider than the screen | history holds the last lines, screen shows the line |
| command line `shell/shell.c` | line cut in place, capture in progress | `tokenize`, `execute`, `redirect_to_file` | words share one buffer, argv at its limit, target resolved after the command, error paths | words as typed, output where it belongs, buffer freed on every path |
| timer `drivers/timer.c` | 64-bit `ticks` | `timer_irq`, `timer_ticks`, `timer_sleep_ms` | 64-bit read in two halves, tick before the `hlt` | a sleep ends, after the ticks asked for |
| interrupts `kernel/idt.c`, `isr.S` | IDT, PIC masks, handler table | `irq_handler`, `irq_install`, `isr_handler` | interrupt before its handler exists | every IRQ is acknowledged, no line is stuck |
| clock `drivers/rtc.c` | CMOS registers | `rtc_read` | update between two registers, 12-hour mode | a consistent time |
| frames and paging `mm/pmm.c`, `mm/paging.c` | bitmap, counters, page tables | `pmm_init`, alloc, free | less RAM than is reserved, repeated frees, rounding | counter equals the bitmap, frames are exclusive, all RAM is mapped |
| panic, exceptions `kernel/panic.c`, `idt.c` | - | `panic`, `panic_with_regs`, `isr_handler` | death inside a capture | the message is seen |
| formatted output `lib/kprintf.c` | position in the format | `kvprintf` | width, padding and sign together | a column holds its argument |
| text commands `shell/commands.c` | - | `echo`, `wc`, `grep`, `head`, `hexdump` | last line without newline, full line buffer, short last row | the output is what the file holds |
| rest: `string.c`, `gdt.c`, most of `boot.S` | - | pure functions or straight-line set-up | - | - |

Interaction: the shell calls `console_getchar`, which reads the keyboard's ring (filled by IRQ1)
and the UART; it runs commands, which call ramfs; ramfs and the redirection call the heap; all
output goes through `console_putc` to the screen or to the capture buffer. Nothing else is shared:
no handler touches the heap, ramfs or the screen, so the heap can be modelled without
interleaving, and ramfs without interrupts.

The hazards, each at its line and with the properties that would catch it going wrong, are in
`PROJECT.json` under `hazards`.

## 2. Plan

Done, in this order:

1. `Kheap`: everything else lives in its memory. Abstract promise `HeapContract`, figures in
   `KheapStats`, proofs in `KheapProofs`.
2. `Keyboard` with the abstract `KeyQueue`, composed with the serial line and the timer in
   `ConsoleInput`, and with a modelled device and user in `Typist`; proofs of all three in
   `KeyboardProofs`.
3. `Ramfs`, the file commands and redirection, against the abstract `FileTree`; proofs in
   `RamfsProofs`.
4. `Vga` and, on top of it, `LineEditor`; proofs in `ShellProofs`.
5. `Interrupts`: the PICs, dispatch, boot order and the timer; proofs in `InterruptsProofs`.
6. `Rtc`: the double read against an update in progress, and the conversion; proofs in `RtcProofs`.
7. `Memory`: frames and page directory from the loader's figures on, proofs in `MemoryProofs`.
8. `CommandLine` on top of `TextTools` and `Kprintf`: a line from its characters to the screen or
   the file, with exceptions and `panic()` on the way; proofs in `ShellProofs`.

Next:

9. A heap client that frees twice (`Kheap` with a stale pointer).

## 3. Modules and the code

**Kheap.** `mem` is the region, one integer per 32-bit word, headers included, exactly as
`struct block` lays them out (five words). `split`, `merge_next` are functions from memory to
memory with the code's assignments in the code's order. `kmalloc` enters the loop, `Scan` is one
round of it (magic check, fit, `Take` = split, mark, `kzalloc`'s memset), `OutOfHeap` its end.
`kfree` is one action. `Store` is a client filling what it asked for. `blocks` (headers reachable
from the head) and `live` (who holds what) are auxiliary: no guard reads them except to restrict
clients to pointers they hold. Panics are states (`pc = "panic"`), not guards. A store outside the
region is not lost: it would add its address to the domain of `mem` (`Put`, `PutHeader`, `Fill`),
and `TypeOK` excludes that.

**HeapContract.** Extents that never overlap or move; a refusal only if no gap is large enough.

**KheapStats.** `kheap_stats()`, compared with what the contract says could still be granted.

**Keyboard.** `keyboard_irq(sc)` is the handler, one disjunct per path through it; `push` is the
ring. `keyboard_read()` is three steps (test, load, store of `tail`); `buf`, `head` and `tail` are
not volatile, so both orders of load and store that a compiler may emit are modelled
(`LoadChar; AdvanceTail` or `AdvanceFirst; LoadLate`).

**KeyQueue.** A queue that drops only when full.

**ConsoleInput.** `pc` walks `console_getchar()`'s loop. `Key` is IRQ1, `timer_irq` IRQ0, `Arrive`
a byte reaching the UART (the device is external). `GiveUp` is `serial_read_soon()` running out of
polls, possible whenever the FIFO is empty. `Halt` is separate from the last test, because the
interrupts are on between them.

**Typist.** A PS/2 keyboard (external, from what the handler's cases and its comment expect of
it): make, repeat and break codes, E0 prefixes, and the fake shifts a device puts around E0 keys
while Shift is held. `meant` is what the key caps say was typed.

**Ramfs.** `nodes` and `bufs` are the live heap objects; `children` is the list made by
`children` and `next`. A pointer comes from `kmalloc`, which may return NULL at any call and may
reuse what was freed. A typed path has components, the number of its characters, and may end in a
slash. `walk()` is a fold of `WalkStep` over the components; `split_parent()` refuses the final slash.
Names are spelled (`Spelled[n][k]` is the first `k` characters of `n`), because buffers cut them:
`strlcpy` cuts a name, `Extended` puts "/" and a name behind a path in `RAMFS_PATH_MAX` bytes.
`ramfs_path()` climbs to the root but keeps only `CHAIN_MAX` names, and folds `Extended` over them;
`cp` into a directory uses `Extended` too, with the effect that `cp f ""` writes to `/f`. Commands are
actions; `cp` and a redirection go on to `ramfs_write` as a second step, with nothing else enabled
in between. `execute` starts a redirection, the command runs with its output captured, and
`redirect_to_file` resolves the target afterwards, as the code does.

**FileTree.** Absolute paths to entries; a step creates, rewrites, removes or moves one entry.

**Shell.** The one constant that the line editor and the commands share, `SHELL_LINE_MAX`.

**Vga, LineEditor.** `vga_putc` from screen to screen with wrapping, tabs, backspace and
scrolling; `read_line()` with one action per kind of character.

**Interrupts.** The PICs (external: requests, lines in service, priorities, non-specific EOI,
spurious IRQ 7), `Enter` through an interrupt gate, `irq_handler()` as `CallHandler` and
`Acknowledge` with devices raising lines in between, and a stack of handlers, so that nesting is
possible in the model and excluded by the code. The thread is `kmain()` from `pic_remap()` to
`keyboard_init()`, then calls of `timer_sleep_ms()`, whose reads of the 64-bit `ticks` are two
loads in either order; `nap.torn` records that a carry into the high half fell between them. `Keyboard` and `ConsoleInput` take what is shown here, atomic handlers
and lines that are never cut off, as given.

**Rtc.** The chip (external) shows a time, stored in its registers as status register B says; it
announces an update with its flag, and while the update runs a register may be read before or after
its change. The thread waits for the flag (`WaitOver`), `read_raw` loads one register per step, and
`rtc_read()` starts over (`Again`) until two results agree, then converts BCD and 12-hour values
(`Normalised`). `shown` collects the times the clock showed meanwhile, the reference for the result.

**Memory.** `mbi` is what the boot loader reports. `kmain()`'s magic check, `kheap_init()`'s
address, `pmm_init()` with the loop that marks kernel and heap, and `paging_init()` are one action
each. Afterwards callers allocate frames and give them back, sometimes twice or frames that do not
exist. The bitmap is the set of its bits; `large` holds the 4 MiB pages of the directory, with
`identity` for the table `boot.S` leaves behind.

**Kprintf, TextTools.** Functions. `kvprintf` walks a format: `steps` are the rounds of its loop, each
at a character or a conversion and with the argument it takes; `WidthAt` and `LetterAt` find the
parts of a conversion, `Converted` and `emit` print it, `format_num` makes digits. `cmd_wc`, `cmd_grep`,
`cmd_head`, `cmd_hexdump` go through a file character by character as the code does. The reference
definitions they are checked against (`IsField`, `WordCount`, `Matching`, `UpToLine`, `ReadBack`) say what
is meant without the code's loops; a line is what lies between two newlines (`LineEnds`, `LineTo`).

**CommandLine.** `text` is the line with its NULs; `tokenize()` writes into it, `argv` and `target`
are positions in it. `NextWord` is one round of `tokenize()`, `Operator` the search for `>` and `>>`,
`Begin`, `Run`, `redirect_to_file` the rest of `execute()`. `con` is the console with its capture.
`Die` ends the command at any character of its output, by an exception (`isr_handler`) or by
`panic()`; both reach `console_capture_end()` and then the banner.

## 4. Runs and what they show

Passing runs:

| Run | Shows |
|---|---|
| `kheap` (MCKheap.cfg) | For every sequence of calls on a region of 30 words: `Tiling`, `Coalesced`, `Accounted`, `DataIntact`, `BoundedWaste`, `FirstFit`, `NoPanic`; the statistics agree with the contract (`StatsExact`); the heap implements `HeapContract`; `kmalloc` returns (`KmallocReturns`). |
| `console` | Five keys and serial bytes in any mix, against a ring of four slots, interrupting the reader anywhere; the bytes are text, CR, DEL and pieces of escape sequences. The ring implements `KeyQueue` (`KeysInOrder`), every accepted key is returned (`KeysDelivered`), including one that arrives just before the `hlt`; `SerialDecoded`; and `SerialDrained`, which holds only because the timer ends every `hlt`. |
| `typist` | `TypedAsMeant` with one Shift key, Caps Lock, repeats, arrows and another E0 key. |
| `ramfs` | With allocation failing anywhere, pointers reused, and relative, absolute and `..` paths: `TreeOK`, `Owned`, `WriteExact`, the refinement of `FileTree`, and `PathResolves`: the path shown leads back to its node exactly when all of it went into `ramfs_path()`'s chain and buffer. |
| `line_editor` | `HistoryExact`, and `ScreenShowsLine` while prompt and line fit one row. |
| `interrupts` | With timer, keyboard, undriven and spurious interrupts in any order: `ServiceEnds` (no nesting, nothing left in service), `SleepsEnough` (a sleep counts the ticks it should, unless a carry tore a reading), `SleepReturns`, and `KeysRead` for keys pressed once the driver is installed. |
| `rtc` | Updates falling anywhere into a read, in every combination of BCD or binary and 12 or 24 hours (12-hour clocks away from 12 o'clock, see section 8): `DateShown` (the date is one the clock showed during the call) and `ReadEnds`. |
| `memory` | For RAM sizes on either side of every limit, with a good and a bad boot loader: `CounterExact`, `FramesExclusive`, `AllMapped`, `FreeHonest`. |
| `command_line` | Lines made of commands, quoted words, operators and too many words, and all short lines of spaces, quotes, operators and a letter: `PointersOK` (pointers stay in the line, `argv` in its array), `WordsAsTyped`, `OutputPlaced`, `PanicSeen`; the tools against their references on every file of up to three characters and some longer ones (`ToolsExact`; `grep` as far as its buffer holds a line, `head` with any number); `kprintf` on formats with one and two conversions, in every combination of conversion, flag and width, between other characters (`FieldsExact`). |

Runs that refute what a document or comment says are listed in section 8. Every property of a
passing run is broken by the mutant that `PROJECT.json` lists for it; mutants are operators next
to the definition they change, with a comment that starts with "Mutant".

## 5. Bounds

- `kheap`: `HeapSize = 30` words hold up to four blocks with headers; requests of 0, 1 and 7
  words leave remainders just below and just above `Header + MinSplit`, round up, and exhaust the
  region. The code's sizes (5 and 4 words) are not scaled. The proofs cover every size.
- `console`: `BUF_SIZE = 4` (256 in the code) and `MaxInput = 5` keys and bytes together: the ring
  fills, drops, and wraps. `MaxBytes = 4` covers a complete escape sequence and a byte on either
  side of a broken one; `FIFO_SIZE = 2`.
- `typist`: `MaxStrokes = 5` presses, repeats and releases, at most `WIRE_MAX = 4` bytes under
  way: Shift pressed, an E0 key bracketed by fake shifts, and a letter afterwards all fit.
- `ramfs` and the runs on `MCRamfs`: five pointers shared by nodes and buffers (a file, its
  buffer, the buffer it grows into and a capture buffer fit beside the root), `FirstCapacity = 2` (64),
  `MaxAlloc = 4`, `CAPTURE_MAX = 3`: a text of two characters fills a buffer, an append doubles
  it, a further one fails. `PreDirs` stands for the directories `ramfs_init()` makes. Non-root
  pointers are symmetric: no definition tells them apart. `CHAIN_MAX = 2` (32), `RAMFS_PATH_MAX = 5`
  (256) and the names `a` and `ab`, one the beginning of the other: paths meet and pass both limits,
  and a cut name may be another one's.
- `line_editor`: `SHELL_HISTORY_MAX = 2` with `MaxLines = 4`, so the ring wraps twice;
  `SHELL_LINE_MAX = 3` is the length limit; two rows, so every `Enter` may scroll.
- `interrupts`: an undriven line on each PIC, `MaxNoise = 2` of their requests or spurious ones,
  `MaxKeys = 2` (one waits behind the other in the controller), `TIMER_HZ = 1` so that a sleep of
  1500 ms is rounded up to two ticks. The counter stops at `MaxTicks = 2` when nobody sleeps;
  `HALF = 2` (2^32), so that it carries into its high half during a sleep.
- `rtc`: `MaxUpdates = 3` updates: one in each of two reads, and one more before the third; the
  clock starts just before its seconds, minutes, hours, days and years change.
- `memory`: the sizes are the code's own (in KiB), for one image size; the loaders report memory
  just below, at and above the heap's end, a large page's end and the 1 GiB that the bitmap covers.
  Only `Word`, the range of `free`'s unsigned difference, is scaled from 2^32, because TLC's
  integers have 32 bits. `MaxHeld = 5` frames are held at a time. The proofs cover every size.
- `command_line`: `SHELL_LINE_MAX = 4` for `grep`'s buffer, `SHELL_ARGV_MAX = 5`, `CAPTURE_MAX = 6`
  and rows of two bytes in `hexdump`: each limit is met, passed, and not reached by some line.

## 6. Fairness

- `Kheap!FairSpec`: weak fairness of `Scan \/ OutOfHeap` only. One thread, handlers return, so a
  call that was entered goes on. Nobody has to allocate or free.
- `ConsoleInput!Spec`: weak fairness of `Thread` (the CPU runs unless it is in `hlt`) and of
  `timer_irq` (`timer_init()` programs the PIT once as a rate generator; the line is never
  masked). Nothing is assumed of the keyboard or the serial line. `SerialDrained` also uses that
  finitely many bytes arrive.
- `Interrupts!Spec`: weak fairness of the handlers, the PIT and the keyboard controller; strong
  fairness of the thread and of the delivery of each line, because both are disabled again and
  again by handlers. Handlers take microseconds and ticks are 10 ms apart, so neither is kept out.
- `Rtc!Spec`: weak fairness of a call's steps, and of the start and the completion of an update
  that was announced (about 2 ms). Nobody has to call `rtc_read()`. `ReadEnds` also uses
  that finitely many updates are modelled; a read takes microseconds, so a fourth does not fall
  into one call.
- The other specifications make no liveness claim and have no fairness.

## 7. Proofs

Each of the seven proof modules of a component states its inductive invariants and takes its
theorems from them; `RecursionProofs` holds the lemmas on recursion and sums that several need.

`KheapProofs.tla` proves, for every region larger than a header (`HeapAssumption`), every set of
requests no larger than `MaxRequest`, every stored word and every initial garbage
(`ClientAssumption`):

| Theorem | Statement |
|---|---|
| `TypeCorrect` | `Spec => []TypeOK`: `mem` keeps its domain, so nothing is stored outside the region |
| `TilingHolds` | `Spec => []Tiling` |
| `CoalescedHolds` | `Spec => []Coalesced` |
| `ClientsSafe` | `Spec => []DataIntact`: clients' words stay |
| `AccountsHold` | `Spec => []Accounted`: the used blocks are what clients hold |
| `WasteBounded` | `Spec => []BoundedWaste` |
| `FirstFitHolds` | `Spec => []FirstFit` |
| `NeverPanics` | `Spec => []NoPanic` |
| `HeapImplementsContract` | `Spec => HeapContractHolds`: the heap implements `HeapContract` |
| `StatsAreExact` | `Spec => []StatsExact` |

The first eight follow from one inductive invariant, `IInv`, their conjunction. None of the parts
is inductive alone. `Tiling` must say that list neighbours are neighbours in memory, or a merge
could swallow a block in use; its writes stay off clients' words only because blocks are disjoint
and used blocks are exactly the clients' (`Accounted`), so that `Store`, in turn, cannot reach a
header. `Coalesced` is what lets `kfree` stop after one merge on either side. `NoPanic` needs
intact headers (`Tiling`) and a used flag (`Accounted`). `FirstFit` carries the fact that `cur`
is on the list through the loop.

Layout of the proof: facts about blocks (`BlockFacts`) and pointwise frame lemmas; `split`,
`merge_next` and filling preserve `Tiles` (stated over memories, not over variables); what each
does to `live`'s ledger; then one step per action in `StepInv`, and the temporal theorems by PTL.

The refinement and the statistics need one more part: every address of the region lies in a block
(`Cover`). Then a gap between clients' extents lies in one free block, since two free blocks are
never neighbours (`NoGap`), so `kmalloc()`, which stops at the first fit, refuses only what the
contract lets it refuse, and `largest_free` is what could still be granted. That the figures add up
to the region is proved over the blocks below an address, by a least counterexample
(`RegionAddsUp`); that `kheap_stats()` may sum in any order is `SumsAgree` in `RecursionProofs`.

`MemoryProofs.tla` proves, for every image, heap and RAM size, every number of bits in the bitmap and
every window of large pages with `LoaderAssumption`: the image ends above 1 MiB, where it is linked,
the window maps all the RAM the bitmap covers, kernel and heap end below that, and the figures fit a
word (in the code: 1 GiB each, and 2^32). That kernel and heap end there is due to the image;
`pmm_init()` does not test it.

| Theorem | Statement |
|---|---|
| `TypeCorrect` | `Spec => []TypeOK`: bits set are below `MAX_FRAMES`, frames held are marked, large pages lie in the window |
| `CounterHolds` | `Spec => []CounterExact` |
| `FramesAreExclusive` | `Spec => []FramesExclusive` |
| `EverythingMapped` | `Spec => []AllMapped` |
| `FreeIsHonest` | `Spec => []FreeHonest` |

The invariant is `TypeOK /\ CounterExact /\ Booted`. `Booted` records what each stage of the boot has
left (where the heap begins, which bits are set, which pages are mapped): `FramesExclusive` and
`AllMapped` speak only of the running kernel and are not inductive across `paging_init()` without
it. That nobody frees a frame that somebody else holds is in `Next`, as the callers' duty; repeated
and stray frees are not excluded. The arithmetic of rounding is in the lemmas `UpTo`, `Layout`, `FramesFit`, `EntriesCover`.

`KeyboardProofs.tla` proves `RingIsQueue`, `Spec => KeysInOrder`: the ring implements `KeyQueue` for
every `BUF_SIZE` of at least two (`RingAssumption`) and every ASCII layout (`LayoutAssumption`). The
invariant `RingInv` adds to the ring's types that `keyboard_read()` is under way only where
`console_getchar()` called it, and that the slot it is about to give back still holds the key it saw.
The heart is `Pushed`: on a ring that is not full a push reaches neither an unread slot nor the slot
whose load is still to come; that slot is the one that `push()` keeps empty. `Masked` and `Indices`
turn the masks into linear arithmetic, `Window` is the ring's contents as a sequence.

It also proves `StreamIsDecoded`, `Spec => []SerialDecoded`, for every layout, FIFO size and bytes.
The property compares what was returned with `Decode` of what arrived, and is not inductive: an
escape sequence may be half read, and what the half means depends on the bytes to come. `StreamInv`
quantifies over them: for every continuation `z`, decoding `arrived \o z` gives what was returned
followed by the decoding of what is still `Ahead` of the loop, `z` included. `DecodeIs` shows that
`Decode`'s recursive definition has a solution and hence that its equations hold.

And it proves `TypingIsMeant`, `TypistSpec => []TypedAsMeant`, for every layout whose letters are in both
maps (`TypistAssumption`), every set of keys and any number of strokes, if there is one Shift key:
`keyboard_irq()` keeps one flag for both, and with two the property fails (section 8). While bytes are on the wire
the driver lags behind the typist; `TInv` says that it gets there: `Path` follows the handler from
where it is (`Now`) through the bytes under way to where the typist is (`Then`), with the prefix flag
cleared, shift and caps as the keys stand, and the characters meant. A stroke extends the path at its
end, an interrupt shortens it at its beginning.

`InterruptsProofs.tla` proves `ServiceAlwaysEnds`, `Spec => []ServiceEnds`, for every set of lines
(`InterruptAssumption`). The invariant says which line the PICs have in service while a handler
runs (`Serving`); `ServiceEnds` alone does not say that the EOI goes to that line. It also proves
`NeverWakesEarly`, `Spec => []SleepsEnough`, for all frequencies, sleeps and uptimes: a sleep counts
`Duration(ms)` ticks unless a carry fell between the two loads of one of its readings. `SInv`
keeps the counter as it was at the first load; `LoadedIs` shows that two halves with no carry
between them make a value the counter had since then. The theorem is about ticks: the one under way
at the call counts as a whole one, so the time is up to one tick short (section 8).

`ShellProofs.tla` proves, of the line editor, for every `SHELL_LINE_MAX`, `SHELL_HISTORY_MAX`
(`EditorAssumption`), every size of the screen and whatever is typed:

| Theorem | Statement |
|---|---|
| `HistoryIsExact` | `Spec => []HistoryExact` |
| `LinesAlwaysFit` | `Spec => []LinesFit` |
| `TypesHold` | `Spec => []TypeOK`: the cursor stays on the screen |
| `LineIsShown` | `Spec /\ []OneRow => []ScreenShowsLine`, if text is plain (`PlainText`) |

The invariant of the first two, `SlotsKept`, speaks of absolute line numbers: line `k` is in slot
`k % SHELL_HISTORY_MAX` until that many lines came after it (`SlotsDiffer`); `HistoryExact` counts
from the oldest entry, which changes with every line. `TypesHold` adds that `console_write()`, a fold
of `vga_putc()`, takes screens to screens, through tabs, wrapping, erasing and scrolling.

`LineIsShown` adds to that invariant `Tidy`: the cursor's row holds prompt and line, and every cell
from the cursor on, in the rows below too, is blank. The last part is what scrolling and erasing
depend on, and `ScreenShowsLine` does not say it. Its two hypotheses are needed: `OneRow`, prompt and line leave room
for the cursor in one row, because `vga_putc()` does not go back beyond the beginning of a row
(section 8); `PlainText`, prompt and typed characters are no control characters and what a
command prints ends with a newline, so that a prompt begins a row (`head` of a file without a final
newline ends without one, and the row then holds more than the property describes).

Of the command line it proves, for every line of words (`LineAssumption`, and `WordAssumption`: what
can be typed as a word, quoted or not), every file of bytes (`FileAssumption`, `SizeAssumption`: ASCII,
and a size of 32 bits) and every call of `kprintf` (`CallAssumption`: a format whose conversions all get
their argument):

| Theorem | Statement |
|---|---|
| `WordsAreTheTyped` | `CmdSpec => []WordsAsTyped` |
| `PointersHold` | `CmdSpec => []PointersOK` |
| `PanicIsSeen` | `CmdSpec => []PanicSeen` |
| `OutputIsPlaced` | `CmdSpec => []OutputPlaced`, where the first `SHELL_ARGV_MAX` words decide |
| `CountsAreExact` | `cmd_wc()` counts newlines and words as `Newlines` and `WordCount` define them |
| `HeadIsExact` | `cmd_head()` prints `UpToLine`, for any number of lines |
| `SearchIsExact` | `cmd_grep()` prints `Matching`: the lines that match as far as its buffer holds them (`Held`) |
| `DumpIsExact` | `ReadBack` of what `cmd_hexdump()` prints is the file, and its rows are aligned |
| `ToolsAreExact` | `CmdSpec => []ToolsExact` |
| `FieldIsExact` | `Converted` prints an `IsField`, for every conversion, flag, width and argument |
| `FieldsAreExact` | `CmdSpec => []FieldsExact` |

`WordsAsTyped` speaks of the finished `argv`. Its invariant `CInv` speaks of the loop (`Scanned`): there
are ends `e` of the typed words in the line as it was typed, the line from `p` on is still as typed,
and each word found so far begins where its pointer says and has its NUL where it was cut; a NUL is
written only behind a word, and `tokenize()` never goes back. `OutputPlaced` and `PanicSeen` need `KInv`,
which says that there is a target exactly if one of the kept words is an operator (`KeptOperators`),
and at each stage what the console holds: nothing before the command runs, and then exactly
`Captured`, the beginning of its output that fits the buffer. That needs every command to
print a text (`OutputIsText`, one lemma a command: `CountedIs`, `SearchedIs`, `RowIs`, ...), and a word to
look up (`Named`).

The theorems about the tools' loops unfold a fold into its steps (`FoldRuns`) and carry the reference
along: after `k` characters the loop has counted the newlines and words among them (`Counting`),
printed the longest prefix with fewer newlines than asked for (`Heading`), or printed the matching lines
that ended so far and holds what its buffer takes of the line since the last newline (`FoundTo`;
`HeldGrows` says how that changes with a character). `ToolsAreExact` adds what is around the loops. The
columns of `wc` are found again in its output (`CountsLie`, `CutApart`), though one may be wider than six.
The state of `head`'s options after each word is compared with where the words stand (`OptionsFound`).
A dump is laid out row by row (`FlattenLaid`, `IsDump`): two digits a byte (`HexTwo`), eight for the
offset, because the size has 32 bits (`EightDigits`), no newline but at a row's end, because a control
character is shown as a dot. So the newlines are the rows' ends (`DumpEnds`), each line is a row
(`DumpLine`), and reading goes through the offsets in order (`DumpRead`).

`FieldIsExact` rests on `FormatReads`: the digits that division leaves, lowest first, read as the number
and do not begin with 0; and on what padding does to a text (`Framed`). `FieldsAreExact` needs that a
format is taken apart where it was put together: in the format made of the pieces each piece stands at
its place (`Stands`), and flags, width and letter end where the code's loops stop (`PastAt`), since
a width does not begin with a 0 and no letter is a digit. The arguments that are still to come are
those of the pieces still to come (`Handed`), so the rounds of the loop are the pieces, one each
(`RoundsAre`). The loop is a recursion on position and argument; its rank is the rest of the
format (`RankedRecursion`). The invariant `CallShown` carries the result over to the screen.

`RamfsProofs.tla` proves, for every finite set of pointers, every set of paths, texts, names (long
ones that are truncated too) and every capacity (`RamfsAssumption`), every spelling of the names
(`SpellingAssumption`) and every size of the buffers for names and paths (`RoomAssumption`), with
allocation failing anywhere:

| Theorem | Statement |
|---|---|
| `TypesHold` | `Spec => []TypeOK`: also that size and capacity describe the buffer |
| `TreeHolds` | `Spec => []TreeOK` |
| `BuffersOwned` | `Spec => []Owned` |
| `NeverReadsGarbage` | `Spec => []NoGarbage`: contents are bytes that were written |
| `WritesExactly` | `Spec => WriteExact` |
| `NamesUnique` | `Spec => []UniqueNames`, if `PathsFit` |
| `PathsResolve` | `Spec => []PathResolves`, if `PathsFit` |
| `TreeRefined` | `Spec => FileTreeHolds`, if `PathsFit`: `Ramfs` implements `FileTree` |

The invariant `IInv` has the links (`Shape`), the buffers (`Store`) and the position in a
redirected command. `TreeOK` says with `Ancestors` that there is no cycle; the invariant says it as
`Rooted`: a non-empty set of nodes that holds every member's parent holds the root. A link added
or cut is then a matter of one such set. The case that is not obvious is `ramfs_move()`: `MoveShape`
meets a set of the new tree with the target's ancestors in the old one, among which the code's loop
found that the moved node is not. `AncestorsClosed` and `SubtreeClosed` show by counting nodes that
the recursions behind `TreeOK` and `free_tree()` reach everything above and below a node. `IInv` says of
`cwd` only that it is a pointer: section 8 shows that it may dangle, and then the model stops.

The last three need names: `PathsFit` says that no typed path ends in a name that a node cannot hold, as
`ramfs_move()` truncates after its look-up (section 8 has the counterexample). Then `Titled`, that
siblings have different names, is inductive with `IInv`. `StepEffect` reduces every action, with all its
error paths, to one of four effects on the nodes (`Effect`: nothing or one file's text, a leaf
made, a subtree removed, a subtree moved). `PathsOn` gives each node its path from its parent's; it
has one solution on a rooted tree (`ShiftedPaths` for a moved part of it), and `Titled` makes it injective,
so that `AsTree`, the map from paths to entries, is well defined and each effect is a step of
`FileTree`. `RamfsAssumption` asks that the directories of `ramfs_init()` have different names, which they have.

`PathsResolve` is an equivalence. `Filled` says what `ramfs_path()`'s buffer holds after `k` names (`Built`):
as many of them as went in, the last one possibly cut. If all of the path went in, `walk()`
follows it back to the node (`WholePathLeads`). For the other half (`CutPathStrays`), `WalkDepth`: a walk
goes down by at most one level for each component, and a walk that goes down with every component
follows the path of the node it ends at. A path that lost names has fewer components than the node
has levels, and one whose last name was cut names another node, if any.

`RtcProofs.tla` proves, for every clock (`ClockAssumption`: it shows dates that exist) and any number
of updates:

| Theorem | Statement |
|---|---|
| `NeverMixed` | `Spec => []Unmixed`: the result is made of the registers of one time shown |
| `DatesShown` | `Spec => [](WithinAMinute /\ HourTold => DateShown)` |

The invariant names the times shown since the call, `h[0]` to `h[k]`, and says which of them each
register of the two copies may have been read of: those of the earlier copy end where those of the
later begin. If the copies agree, every field has the same value at a time before and at a time
after that point, and `Between` shows that it had that value at the point itself, so all fields
belong to one time. That step needs `WithinAMinute`: seconds that came round again would agree too. TLC's
instance has three updates, where it holds by itself. `HourTold` leaves out 12 o'clock on a 12-hour
clock, where the code is half a day off (section 8).

`RecursionProofs.tla` has what these need of recursive functions, folds and sums: that a definition
by recursion on a rank has a solution (`RankedRecursion`), what `FoldLeft` computes step by step
(`FoldExists`, `FoldWithin`, `FoldRuns`), where the parts of a flattened sequence lie (`FlattenLaid`), and
that a sum over a finite set does not depend on the order (`SumsAgree`). The library's induction theorems take a predicate, which these provers cannot
instantiate; here a property is a set and a step a function, and the argument takes the least
counterexample (`LeastExists`).

Only model-checked:

- All liveness (`KmallocReturns`, `KeysDelivered`, `SerialDrained`, `SleepReturns`, `KeysRead`,
  `ReadEnds`): liveness under fairness is outside what TLAPS 1.4.5 proves.

## 8. Where code and documents disagree

Each is a run that TLC refutes, with the quotation in `PROJECT.json` under `findings`.

| Run | Behaviour |
|---|---|
| `rm_ancestor_of_cwd` | `rm -r ..` frees the working directory; the check compares with `shell_cwd` itself only. |
| `mv_long_name` | `mv` looks up the long name and stores the truncated one: two entries with one name. |
| `early_key` | A scancode between `sti` and `keyboard_init()` is acknowledged but never read; the keyboard stays dead. |

These have no run of their own; where a change of constants shows one, it is given:

- Releasing one of two held Shift keys ends the shift: `ShiftKeys = {42, 54}` in `Typist.cfg` refutes
  `TypedAsMeant`.
- Recalling history over a line that wrapped leaves its first row on the screen (shell.c:71):
  `VGA_COLS = 2`, `VGA_ROWS = 3`, `MaxLines = 2` in `LineEditor.cfg` refute `ScreenShowsLine`.
- In 12-hour mode 12 AM is shown as 12 and 12 PM as 0 (rtc.c:68; rtc.c:5-7 says of both formats "we
  normalize both"): `Settings <- MCNoon` in `Rtc.cfg` refutes `DateShown`.
- A redirection behind the sixteenth word is ignored without a message, though `docs/COMMANDS.md:5-8`
  has it apply to any command; and error messages of a redirected command go into the file,
  though `docs/COMMANDS.md:88` says they "go to the console". `OutputPlaced` states what the code does in
  both cases, and its comment that the document differs.
- `timer_sleep_ms()` adds no tick for the one under way (timer.c:51), so a sleep may be up to one tick,
  10 ms, shorter than asked; and its readings of `ticks` are two loads, which a carry between
  them tears (every 497 days): the sleep then ends early or late. `SleepsEnough` says which ticks are counted.
- `ramfs_path()` leaves out the topmost directories below 32 levels, and cuts a path of 256 characters
  or more (nine levels of 31 characters): `PathResolves` says exactly when a path does not lead back.
- `grep` misses a match behind the 255th character of a line and prints no more of the line than that
  (commands.c:433), though `docs/COMMANDS.md:47` says "print lines containing the (literal) pattern";
  `Held` in `Matching` says what it looks at.
- The line that describes a page fault is printed before the capture ends (idt.c:142), so inside a
  redirection only the banner is seen, though `docs/ARCHITECTURE.md:102-106` says that the address is
  reported; `PanicSeen` asks for the line only outside a redirection.
- With less RAM than kernel and heap, `free` shows a wrapped difference; `FreeHonest` says exactly when.

Smaller ones, visible in the models but without a run of their own: `.` and `..` resolve behind a
file (`cat f/.`), though `docs/COMMANDS.md:15` says they "work as usual"; a serial byte 0x80 is taken for an arrow key (`Normalise`); the CPU can halt with a key in
the ring until the next tick (`Halt`; `KeysDelivered` shows that the key is not lost).

## 9. Abstractions and what is left out

- *Heap*: requests near 4 GiB, where `ALIGN_UP` wraps, are excluded by `ClientAssumption`; no
  caller makes one. Clients free what they hold, once; a client that does not is left for later. The
  `free` byte is a word.
- *Keyboard and console*: `SerialDecoded` says nothing once `serial_read_soon()` has given up in
  the behaviour; what the code does then is modelled. Bytes lost in a full UART never reach the
  kernel and are not generated. Typematic repeat of Caps Lock is left out of `Typist`: each repeat
  toggles `caps` in the driver.
- *Ramfs*: doubled slashes are the same list of components. A typed path is shorter than the buffers
  that `cp` and `split_parent()` copy it to (`SHELL_LINE_MAX` and `RAMFS_PATH_MAX` are both 256), so only
  what is put behind it can be cut. A command with several arguments is a sequence of one-argument
  commands. `ramfs_init()`'s files are left out, its directories are `PreDirs`. Commands that only
  print are `cmd_echo`. Long names are used in `mv_long_name` only. Once `shell_cwd` dangles
  nothing is defined, and the model stops (`Undefined`).
- *Interrupts*: keys pressed before `pic_remap()` are left out (what the PIC then remembers
  depends on the chip). Exceptions appear in `CommandLine`, as the end of a command.
- *Screen*: colours and the hardware cursor registers are left out. `ScreenShowsLine` is checked
  and proved only where prompt and line fit one row; section 8 says why.
- *Clock*: `memcmp()` in `rtc_read()` also compares the padding byte of `struct rtc_time`; the model
  compares the fields, as the compilers named in the Makefile copy the whole structure.
- *Memory*: one large page or frame is a number; the flags of the entries and the flush of the TLB
  are left out. Nothing in the kernel calls `pmm_alloc_frame()` yet; `Next` is a caller.
- *Command line*: a path is a word that names the file or does not; which node it reaches is
  `Ramfs`'s subject. Messages are one token, `Complaint`; the banner and the fault line are one
  each.
- *Not modelled*: `gdt.c` and the rest of `boot.S` (constant tables, straight-line assembly); the
  serial transmitter (a busy wait); the loops of the string functions, which the models use by what
  they do; `lscpu` and `lspci` (hardware registers), `reboot`, `poweroff` and `halt` (the machine
  stops), and commands that only print what other parts hold (`ls`, `pwd`, `help`,
  `history`, `uptime`).
- *Stack depth* of `free_tree()`'s recursion is not modelled.
