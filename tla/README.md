# Bender in TLA+

Bender is a Multiboot1 kernel of some 2000 lines of C that runs between a boot
loader and the real kernel. It looks for a PCI serial controller, enters its
port into the BIOS data area so that the kernel finds it, moves the boot
modules to the top of memory, and starts the first module as a Multiboot2 or
Multiboot1 kernel. There is one processor and there are no interrupts: what
makes it hard is memory that is copied over itself, bounds and roundings,
tables written by somebody else (memory maps, configuration spaces, boot
information), hardware that works on its own or not at all, and that nothing
can be undone once the first byte is moved.

Paths without a directory are below `standalone/` of the repository.

## 1. Inventory

| component | state | operations | talks to | hard about it | correct if |
|---|---|---|---|---|---|
| memory search, `mbi.c` `mbi_find_memory` | loop cursor, best block | one pass over the map | called by relocation, twice | unordered, unaligned, overlapping entries; a limit inside an entry | the block is free, aligned, below the limit, highest; none only if there is none |
| module relocation, `mbi.c` `mbi_relocate_modules` | all of memory, the module list | size, search, check, copy, fall back | search; `start_module` builds in the space it returns | copies over memory in use; three exits | no module changes, nor a string outside the block; all move or none; the extra space is free |
| PCI enumeration, `pci.c`, `pci_db.c` | the iterator | next device, next matching, bars, class, quirks | configuration space | multifunction devices with gaps | every function seen once |
| serial discovery, `bender.c` `main` | options, last match, BIOS data area | parse, scan, patch, switch on | PCI, serial driver, `start_module` | last match counts; data read by the next kernel | the data area changes only for the last controller, and output follows it |
| serial driver, `serial.c` | port, enabled flag | init, send, disable | the uart, which runs on its own | polling with a limit; latch and data share a port | no overrun, no gaps, never hangs |
| console, `util.c` `out_char` | column, frame buffer | put a character | serial driver; everything prints | wrap and scroll | screen and line show what was printed |
| Multiboot2 information, `mbi2.c`, `mbi2.h` | a builder; bytes in the extra space | one append per kind of tag; walk | `start_module`, the kernel | sizes computed apart from contents; alignment; end of space | the reader finds what was told |
| starting a module, `elf.c` | module list, code at 0x7C00 | pop, convert, generate, jump | all of the above | generated code overwrites what it copies | every segment arrives, the kernel gets its information |
| delay and reboot, `util.c`, `reboot.c` | loop counters | `wait`, `__exit`, `kb_wait`, `reboot` | PIT, keyboard controller, which run on their own | one byte of a counter that wraps; a controller that is late or dead | no wait too short; always an end |
| RSDP search, `acpi.c` | cursor | scan two ranges | BIOS memory | bytes beyond the range | first valid one, or none |
| formatted output, `printf.c`, `qdivrem.c` | state and flags of the directive | `vprintf`, 64-bit division | `out_char` | words of an argument; carries, estimates off by one | every directive prints its argument; the division is exact |
| strings, `strtok.c`, `strncpy.c`, `strtoull.c`, ... | strtok's position | | `parse_cmdline` | blanks, ends, cutoff | options are whole words; the number or its limit |
| Amy, `amy.c` | the port at work | probe each port | PCI, serial driver | stuck and unused ports | every port gets its own announcement, output is off afterwards |
| basicperf, `basicperf.c` | results, retries | warm up, measure, retry, report | time stamp counter | attempts must not mix | figures are those of one attempt |
| `start.S`, linker script, build files | | | | | |

The components interact by calls; what is shared is memory. Relocation decides
where modules are and hands the extra space to the Multiboot2 builder; the
discovery writes the data area that the serial driver and the next kernel read.

## 2. Modules

| module | stands for | |
|---|---|---|
| `Pages` | the page roundings | operators |
| `FindMemory` | `mbi_find_memory`, one step per map entry | component |
| `Relocation` | `mbi_relocate_modules`, EXTENDS `FindMemory`: calls the search and goes on with its result | composition |
| `ModulePlacement` | what a relocation promises: modules move one at a time to places nothing else takes up, no image changes, all move or none | abstract specification |
| `Pci` | iterator, class match, quirk table, I/O bar | component |
| `SerialDiscovery` | `main` of Bender, EXTENDS `Pci` and `CommandLine` | composition |
| `Serial` | `serial.c` and the uart | component |
| `Console` | `out_char`, EXTENDS `Serial`; its callers are arbitrary | composition |
| `Mbi2Builder` | `mbi2.c` and the inline functions of `mbi2.h` on a builder, as operators | operators |
| `Mbi2Info` | the part of `start_module` that prepares a Multiboot2 kernel, and the kernel of the tests; EXTENDS `Rsdp` | composition |
| `Boot` | the rest of `start_module`: header search, ELF checks, the code it generates, and the processor that runs it | component |
| `StartModule` | all of `start_module` on one memory, EXTENDS `Relocation`, with `Boot` as an instance | composition |
| `CommandLine` | `parse_cmdline` with `strncpy`, `strtok_r`, `strcmp` | component |
| `Delay` | `wait`, `__exit`, `kb_wait`, `reboot`, the timer and the keyboard controller | component |
| `Rsdp` | `acpi_get_rsdp` | component |
| `Amy` | `amy.c`, EXTENDS `Pci` | composition |
| `Printf` | `vprintf` | component |
| `Division` | `qdivrem.c` | component |
| `Strtoull` | `strtoull.c` | component |
| `BasicPerf` | `basicperf.c` | component |
| `MC...` | values for the constants; `MCPci` has the buses for Bender and Amy | |
| `MCPrograms` | `SerialDiscovery`, `Amy`, `BasicPerf`: the loader starts one of them | composition |
| `MCUtil` | `Console`, `Delay`, `Printf`, `Division`, `Strtoull`: one function is at work at a time | composition |
| `RelocationProofs` | theorems about memory search, relocation and placement | theorems |
| `UtilProofs`, `DiscoveryProofs`, `Mbi2Proofs` | theorems about serial output, console, delay and formatted output; PCI, discovery, options, Amy and the measurement; RSDP and Multiboot2 information | theorems |
| `BootProofs`, `StartProofs` | theorems about the start of the kernel, and about `start_module` as a whole | theorems |
| `NumberProofs` | theorems about `strtoull` and the long division | theorems |
| `InductionProofs` | induction and recursion for the others | lemmas |

State and code correspond as follows.

*FindMemory.* `cursor` is the loop's `mmap` pointer as an index into the map;
`found`, `block`, `block_len` are the function's; `req` its arguments.
`PassEntry` is a round of the loop that ends in `continue` or finds the entry
unsuitable, `TakeEntry` one that takes it. The code reads the first entry before
it looks for the end, so maps are not empty.

*Relocation.* `mem` is memory: the byte at an address is named by the address it
was loaded to. `mods` is the module list, `loaded` its value on entry, `size`,
`i` and `block` are the locals; `pc` tells the loops apart. The three `Check...`
actions are the outcomes of one round of the overlap check. `"moved"`,
`"already"`, `"unmoved"` and `"halted"` are the ways the function ends: with the
modules copied, after "Modules seem to be relocated", after "Cannot relocate",
and in a failed assertion. `CopyModule` copies a module and its string and
updates its entry; `MemCpy` copies byte by byte upwards, as `memcpy.c` does, so
an overlapping copy would do here what it does there.

*Pci.* `iter` is `struct pci_iter`; `dev` is what the iterator returned last,
with the fields of the configuration space the code reads later. The history
`returned` is what `ScanIsExact` compares with the functions that are there.

*SerialDiscovery.* `pc` follows `main`; `ParseCmdline` is a step of `CommandLine`.
`com0` and `equipment` are the data area,
`bios` is how the BIOS left it. Ports and the equipment word have 16 bits.

*Serial, Console.* `at` is where the driver is; every port access is a step,
and the uart (external) may move a character from its register to the line
between any two. `screen` and `col` are the frame buffer, which starts with what the firmware has
left there, and `out_char`'s
static. `todo` holds the calls of `serial_send` that are left of an `out_char`.

*Mbi2Builder, Mbi2Info.* A builder is `struct mbi2_builder` with the blobs it
has written, by address, at their real sizes. A string is an identity and a
length. The reader follows sizes and addresses only; if it looks at an address
where no tag was written, it is `"astray"`. `PopModule` is `mbi_pop_module`
with the assignments after it.

*Boot.* `code` is the sequence of instructions the `gen_` functions have written,
`mem` the bytes they take among everything else in memory; `eip` counts
instructions. An `Exec...` action is the processor (external) executing one of
them, if its bytes are still those that were generated; if they are not, it goes
`"astray"`. An instruction that writes over itself may end either way. `header`
is `mbi2_header`; the Multiboot structures are known by their addresses.

*StartModule.* Relocation and Boot have one `mem`: the bytes keep the names
Relocation gives them, and the code and the information have names of their own.
`step` is Boot's `pc` after `"relocate"` and `"pop"`; `Start` is any step of Boot.
Boot alone takes any place for the module and any contents; here both are what
the relocation leaves. The information fills all of the extra space: what is in
it is `Mbi2Info`'s matter.

*CommandLine.* `buf` is `cmdline_buf`, pointers are indexes in it. A call of
`strtok_r` is one step, which writes the NUL behind the token. `parsing` tells the
steps apart.

*Delay.* `delay_pc` follows `__exit` and `reboot` from a failed assertion on; `ms`, `old` are those of `wait`; `counter` is the lower byte of the timer,
`latch` what a look at it has saved. `lag` bounds how far the timer gets between
two looks. `i` counts dots or resets, `polls` those of `kb_wait`. `spent`,
`asked` and `since` are histories.

*Rsdp.* Memory is a function from paragraphs; of each it says whether the
signature is at its start, what its bytes add up to, and what table it begins.
`SearchRsdp` of `Mbi2Info` is a step of the search, `ConvertRsdp` uses its result.

*Amy.* `com_port` is the data area's, `com` the index in it, `port` the one to set
up; `enabled` and `base` are `output_enabled` and `serial_base` of `serial.c`, which
Bender has under these names in the same run. A message is one step: whether its
characters get through is decided by whether the uart drains, which `Serial`
models poll by poll.

*Printf.* `fmt` and `ap` are what is left of the format and of the words on the
stack; `state`, `longness` and `fill` are the locals. A step consumes a character.
A call consists of items, a text or a directive with its argument each (`Item`),
from which the compiler makes the format and the words (`Directive`, `Words`).
What is to come out is said item by item (`Printed`), a number by its powers and not
by the loop of the code. `BufSize` is the size of `buf`, 64.

*Division.* `u`, `v`, `q` are `uspace`, the digits of the divisor and `qspace`; the
code moves its pointers over leading zeros, `At` is the index after that. An
action is a step of Knuth's algorithm, as the comments of the code count them.
`Subtract` and `AddBack` are the loops over the divisor's digits, `t[i]` what their
variable `t` holds in round i.

*Strtoull.* `acc`, `any`, `neg`, `s` are the locals, with `s` an index; `char` is `c`.

*BasicPerf.* `at` is the test, `w` and `j` the loop variables; `took` is a history.
How floats round depends on what the compiler keeps in the x87's registers, so the
model chooses: `Means` are the means that may be printed of a sum rounded to one part
in `Precision` (2^24), `Verdicts` what the comparison of `stddev` with `max_stddev` may
give. They are both possible only within `Margin` of the bound. Of the printed
deviation the model keeps whether it exceeds `max_stddev`.

## 3. Runs

Each run's cfg has the name of its question. Passing runs:

* **find_memory** (`MCFindMemory`): maps of up to three entries, unaligned,
  reserved or overlapping ones among them, requests of several lengths, limits
  inside and between entries. Pages have four bytes; the roundings care about
  multiples of the page size only, so every residue occurs. Shows the
  guarantees of the search, that `highest` picks the highest (for disjoint
  entries), that a miss means there is no such block.
* **relocation** (`MCRelocation`): a memory of 32 bytes in eight pages, limit at
  24, up to two modules with strings anywhere in available memory, without
  overlap, also above the limit; five maps that leave room for all, for the
  extra space alone or for nothing. All seven endings and checks occur. Two
  modules are enough for one copy to endanger the next.
* **serial_discovery** (`MCPrograms`): one of three programs, `running`.
  Bender: two devices of three functions, from 16 layouts each (gaps, functions
  that function 0 does not announce, missing or unassigned bars, the chip of the
  quirk, a 64-bit memory bar, a memory bar in front of an I/O bar), five command lines, four equipment words, all
  three kinds of loader; and on one bus every command line of up to seven
  characters, over two letters and the blank, with options that are part of each
  other.
  Amy: the same buses, five data areas with unused, misaligned, usable and
  repeated ports, one port with a stuck uart, also as the first of several.
  Basicperf: two tests of two tries with one retry. With words of six bits and a
  `Precision` of 32 the four durations (1, 2, 63, 65) scatter clearly, clearly not, or
  by so little that rounding decides; a sum is rounded, also up to more than a
  word's mean, and one duration does not fit a word.
* **console** (`MCUtil`): one of five parts of the common code, `running`.
  Output: two ports with or without a uart, four characters with and without
  newlines on a screen of two rows and two columns that shows text of the firmware
  (`Firmware`), two calls that set up or
  disable a port, one forgiven poll (`MaxTries`, 0x10000 in the code; the model
  only needs zero and more than zero). Bounds: `MaxLog`, `MaxCalls`.
  Exit: a timer of four values and three ticks to a millisecond, so that a wait
  takes several turns; two rounds of each loop; a controller that is full or
  empty, alive or dead, wired or not.
  Printf: calls of up to two directives of all kinds, among them `%zu`, whose `z`
  is ignored, with words of four bits: one directive can only harm the next.
  Division: digits of three bits, the fewest with which an estimate can be too
  large by two; 16 divisors of one to four digits with all 4096 dividends, and the
  corners of the signed range. Adding back, which takes one pair in tens of
  thousands with digits of 16 bits, is frequent here.
  Strtoull: numbers of six bits, seven bases, all strings of up to three
  characters of nine and of up to five characters of five.
* **mbi2_info** (`MCMbi2Info`): up to three modules, two map entries, strings of
  lengths around multiples of eight, 19 sizes of the space from too small for the
  header to enough for everything, also such that only the padding of a tag does
  not fit; two ranges for the RSDP with a paragraph between and one behind, with
  mixtures of paragraphs without the signature, with good and with bad sums, and
  tables of all revisions.
* **boot** (`MCBoot`): 104 bytes of memory with the code at 8 and the first module
  at 72, instructions at their real lengths, files with up to two program
  headers. Segments belong below, into, behind the code and over the module, up
  and down over their own bytes, have nothing in the file or nothing to fill;
  headers are misaligned, have a wrong sum, end with the module or pass its end;
  every check of the ELF header fails once. Two segments show what one does to
  the file and the code the next one needs.

* **start_module** (`MCStartModule`): 160 bytes of memory, pages of four, code at 4;
  one or two modules behind the code, where they would be moved to, or at the
  top; maps with room for all, for the extra space, or for what is in use;
  kernels with a header or without, and two of five segments each, which belong to
  places the modules left, to the place they are moved to, or to neither. All
  ways a relocation can end reach a kernel. Segments that overlap the code, the
  modules or the information after the move are excluded (`SegmentsApart`), and
  so is a Multiboot2 kernel whose modules were not moved, since then the extra
  space is not known to be free (`already_extra_space`, `unmoved_extra_space`).

Runs that show that the code does not do what it says:

* **already_extra_space**: if a module starts where the relocation would put
  the first one, `mbi_relocate_modules` returns the block unchanged, and its
  front is not free (`mbi.c:93`).
* **unmoved_extra_space**: if the modules cannot be moved, the extra space may lie
  over them (`mbi.c:128`).
* **accept_legacy**: the option tests bits 0 to 2 of the equipment word where the
  number of serial ports is in bits 9 to 11 (`bender.c:91`, `bda.h:38`).
* **pio_bar**: the upper half of a 64-bit memory bar with bit 0 set is taken for
  a PIO bar (`pci.c:101`).
* **header_limit**: `mbi2_header_find` accepts a header anywhere in the module;
  `include/mbi2.h:27` says that it must be in the first 32 KiB (`mbi2.c:12`). 16
  bytes stand for the limit.

`PROJECT.json` names for each property of a passing run a mutant, a plausible
bug in one definition (operators named `Mut...`), that makes the run fail.

## 4. Fairness

In a run of several parts only the one at work is fair: an idle one takes no step.

`CallsEnd` of the console rests on weak fairness of the program's own steps
(`ConsoleStep`): the processor goes on executing what it has begun, there
is nobody else to run. No fairness is given to the uart: `CallsEnd` has to hold
if it never drains. Nothing makes the program call `out_char` again; it may stop
at any time.

`ExitEnds` of `Delay` rests on the same fairness of the program and on weak fairness
of the timer, which counts on its own for as long as the machine has power. The
timer cannot turn all the way round between two looks (`MaxLag < Period`): two port
accesses take a few microseconds, a turn of 256 ticks 214. The keyboard
controller has no fairness: it may be late, or never answer.

`Relocation` and `SerialDiscovery` state the fairness of the program too. They and
the other modules have no liveness property: the loops count through a list or a
range, what can go wrong in them is where they arrive, and the checks for
deadlock show that they arrive somewhere.

## 5. Theorems

Proved with TLAPS for every value of the constants that the assumptions of the
modules admit, in particular for every page size, memory, map, module list, bus,
screen, timer, file and number of segments. What each module proves, and the
invariant it rests on:

* `RelocationProofs`, memory search: what the roundings return, from Euclidean
  division. `SearchInv` adds to the types that the candidate is the
  aligned end of an entry already passed, and that no entry already passed suits
  the request better. From it `BlockIsFree` (which includes that the block is
  page-aligned), `HighestBlock` and `MissMeansNoBlock`. Assumed: the page size is
  positive, maps are not empty, requests are natural numbers.
* `RelocationProofs`, relocation: `ModulesIntact` is not inductive. Its strengthening
  `RelocInv` says, besides the search's invariant, that `size` bounds what is left
  to copy, that in the copy loop all modules end below the address of the block
  still to be filled, and that memory below that address is untouched.
  `ModulesIntact`, `HaltsBeforeCopying`, `WritesStayInBlock`, `MovedLayout` and type
  correctness follow. `CmdlinesIntact` needs more: a string that the block has
  missed may lie above it, where `RelocInv` says nothing. `StringInv` adds that
  memory outside the block is as it was, and that the strings of the modules
  already moved have arrived. Finally the initial states map to initial states of
  `ModulePlacement` and every step to a `Move`, an `End` or a stutter, so
  `Spec => ImplementsPlacement`.
* `UtilProofs`: `SerialInv` knows at each place of `serial.c` how far the uart is set
  up, that a uart seen empty stays empty until it is written to, and that what is
  sent and what is put out differ by the character under way. From it `NoOverrun`,
  `SetUpBeforeData`, `OutputIsPrefix`; with `LineInv` (what was sent and what an
  `out_char` has still to send is the text since the set-up, each newline with its
  carriage return) `LineFollowsScreen`. For `ScreenShowsTail`, `ScreenInv` gives each
  character of the text its place on a screen without end, of which the frame
  buffer shows the last rows; a cell where nothing was printed shows what the firmware
  had left as many rows below, or is blank (`Behind`). For `WaitsAreKept`, `DelayInv` says that what `wait` has
  left to wait for goes with the last value of the timer it has seen, modulo the
  timer's period, and how long the loops around it have been at work. For
  `ItemsArePrinted`, `PrintfInv` places `fmt`, `ap` and `out` at one point of the call:
  either between two items or within a text (`Between`), or behind the `%` of a
  directive (`Inside`), where `longness` is the number of `l`s read and `fill` the last
  figure among them. Then the words taken are those of the argument, and
  `NumeralIsPadded` compares what the loop of the code makes of them with the figures
  that the powers of the base say. Assumed (`PrintfAssumption`): the format matches its
  arguments, and `buf` has space for the figures of two words.
* `DiscoveryProofs`: `ScanInv` says that the iterator has returned exactly the
  functions before the one it looks at, in order (`ScanIsExact`). `MainInv` adds
  that `serial_ctrl` is the last controller among them, and what `main` has done to
  the data area at each place: `PatchAfterScanBeforeOutput`, an action property,
  `PatchNamesLastController` and `OutputFindsItsPort` follow. The last one needs
  a bar of the last controller that is an assigned I/O bar and has none in front of it
  that the code would take (`Usable`): `pci_first_iobar_base` takes the first bar with
  bit 0 set, also when its address is 0 (`pci.c:97`), and then no port is entered
  though a second bar may have one. The layout `HalfAssigned` of the runs is such a
  device. An unassigned bar of the chip with the offset even becomes port 0xC0, and
  its bar at 0xFF40 none, since the port is compared with 0 behind the quirk
  (`bender.c:125-127`): `PatchNamesLastController` says so, as the code does.
  For `OptionsAreExact`, `ParserInv` says that what has not been read of the buffer is
  the command line as it was copied, that the options and `i` are what the words
  up to there ask for (`GivenUpTo`), and that the token under comparison is a whole
  word of the line, cut out of the buffer with its NUL. Assumed
  (`CommandLineAssumption`): the line fits the buffer with its NUL, and NUL and blank
  are no letters.
  For `EachPortIsAnnounced` of Amy, `ProbedInv` says that the ports set up, with the one
  under way, are those named by the entries and by the functions passed so far, in
  order; it shares `ScanInv`, and a function that comes later in the scan is last in
  the order (`InOrderAppend`). `ShownInv` says that output is enabled only on a port
  whose announcement is under way. For `FiguresAreMeasured`, `PerfInv` says how many
  calls have been made since the attempt began and that, after the warmup, what is in
  `results` comes from the calls behind it; that the sum has its bounds rests on
  `SumIsInteger`, that the mean is as close to it as the property says on `MeanIsClose`.
  Assumed (`BasicPerfAssumption`): `max_stddev * (tries + 4)` is less than `Precision`, so
  that the rounding of the squares and of their sum is within `Margin`.
* `Mbi2Proofs`: `RsdpInv` (what is behind the cursor holds no table) gives
  `RsdpIsFirst`. For the information, `Packed` says that blobs lie between the start
  and the builder's cursor and do not overlap (`BuiltInsideArea`); `Laid`, that every
  tag is aligned, its size covers exactly the blobs behind it and the next tag is
  where the size says; `Ending`, that the end tag is there, is the only one and
  `total_size` is right (`SizesAddUp`). A reader in such a structure is always at a tag
  and goes on to a tag until the end (`KernelStaysInside`). Each append is shown to
  keep `Laid` while the tag is being filled (`Filling`).
  For `KernelReadsWhatLoaderTold`, `Shows` says what a kernel prints of a tag, and each
  of the functions that add one is shown to add a tag of which it prints the item given
  (`CmdlineTells`, `MmapTells`, `ModuleTells`, `RsdpTells`). `Tells` gives each tag what
  is printed before it and what is printed of it, so that its neighbour goes on where
  it has ended and the place behind the last one has all of it; `ToldInv` says that
  this is what Bender has converted so far, and that what the kernel has printed is
  what belongs before its tag, with the entries it has passed inside a memory map.
  `HandedInv` ties what Bender converts to what the loader has left.
  For `HaltsOnlyIfTight`, `TightInv` says that the builder's cursor, aligned, is where
  the sizes of the tags so far put it (`Takes`), and each tag that is added goes on
  there or there is less space than it takes and eight bytes (`Adding`). Assumed
  (`Mbi2Assumption`): the space is 8-byte aligned, as the search returns pages.
* `BootProofs`: `Offset(phs)[n]` instructions come before those of program header
  n + 1, so each place in the code belongs to one header and one of its six
  instructions, or to the three at the end. `RunAt` says what the registers and the
  memory are there, `CodeInv` what the instructions are, `WrittenInv` that memory
  outside of the segments and the code is as it was. `BootInvHolds` is this
  invariant; `OnlySegmentsWritten`, `StaysOnCourse`, `SegmentsArrive` and
  `KernelGetsItsProtocol` follow. That code which has run may be overwritten is why
  `RunAt` speaks only of the instructions still to come. The invariant leaves open what
  memory held before (`BootInv(m)`).
  Assumed (`BootAssumption`): a kernel is not at address 0, its segments lie inside the
  file and end below the top of memory, and 24 bytes for each program header and
  12 more are free at 0x7C00, as the code takes for granted (`elf.c:123`).
* `StartProofs`: `HandoverIsIntact`, over the composition `StartModule`. Up to the end of
  the relocation its invariant `StartInv` is `RelocInv` and `StringInv`. What they leave is
  kept in two parts: `Settled`, where the entries now point, and a memory `m` in which each
  module and string can be read there (`Left(m)`), the extra space of a move being
  part of none. From then on memory is what `Boot` makes of `Told(m)`, `m` with the
  information: there is an `m` with `Left(m)` such that `BootInv(Told(m))` holds.
  `BootProofs` is used as an instance, on the variables of `StartModule`, and what it
  assumes is proved of them. That no segment belongs on anything in use makes any
  order of the segments a safe one. Assumed
  (`StartAssumption`, `FitsIn`): the code has its space, segments end below the top of
  memory, headers and segments lie inside the file's module, and the information
  is told from the loader's by its address.
* `NumberProofs`: `StrtoullIsExact`, `EstimateIsClose` and `DivisionIsExact`, for digits of
  any width. `StrtoullInv` says where reading begins (`Begins`) and that `acc` is the
  number read so far, or that it has been given up with a number that is too large
  (`HasRead`). `DivisionInv` keeps the dividend as it was shifted: beyond the window
  at work `u` still agrees with it, `q` has the digits so far, and what has been divided
  of it is the quotient so far times the divisor, plus the window, which is less
  than the divisor (`DividedBefore`). The estimate is never too small, as `TooBig` lowers
  it only if the first two digits of the divisor say so (`LargeEnough`); at the
  subtraction it is too large by at most one, as the loop ends only if they no
  longer do, and the shift has made the first digit at least `B \div 2`
  (`KeptIsClose`). Then a borrow is left exactly if it was too large, and `AddBack`
  makes the window the remainder again. The lemmas below are about the digits of a
  number: `ValueParts`, `ShlValue`, `ShrValue`, `SubtractDigits`, `AddDigits`. Assumed
  (`DivisionAssumption`, `StrtoullAssumption`): operands are quads, the largest number is
  positive, characters are not NUL, bases are natural numbers.
* `InductionProofs`: the provers have no induction, and the library's induction
  theorems have operators as parameters. What they have is that finite sets are
  well-founded under inclusion. From it least elements, induction for a set in
  the place of a predicate, and the equations of functions defined by recursion over
  `0 .. n` are derived. `CodeSize`, `Offset`, the walk of the text over the screen,
  the sequence of an `AddTag`, the sum of the tags, the number of a text and the rounds
  of the long division are such functions.

Type invariants are stated where a proof needs one: `SearchTypeOK`, and with it
`Relocation`'s `TypeOK`, which the relocation run checks as well.

Only model-checked is liveness (`CallsEnd`, `ExitEnds`), which is out of the provers'
reach: every other property of the passing runs is stated by a theorem.

## 6. Not modelled, and what is left of the model

The strings of the modules are copied from where the loader has put them, which may be
inside the block the modules move to: the overlap check does not look at strings, and
one that lies there is overwritten before it is read (`mbi.c:119`). `CmdlinesIntact` is
about the strings that the block has missed (`StringClear`).

Numbers are unbounded in `FindMemory` and `Relocation`: sums that pass 32 bits
need modules or maps no 32-bit loader can provide. `MBI_FLAG_MMAP`, the stack,
the binary layout of the module list and the memory it occupies are left out,
so is the wording of all output. In `Boot` addresses are those of
32-bit registers: a 64-bit file whose `p_paddr`, `p_memsz` or `e_entry` is not is cut
off by the code without a word. The space at 0x7C00 is assumed free, as the code
does.

`CommandLine` leaves out command lines of 256 characters and more, which are left
without a NUL: what the code reads then is whatever the compiler put behind the
buffer. `strtoull`, `strtok` and `strcpy` are called by no program of the repository;
of `Division`, the programs of the repository only need what `% 10` and `/ 10` of
`vprintf` need. `Amy` decides at once whether a stuck uart takes a message; in the
code its registers may take the first character, which the line never shows.
A bar the BIOS has not assigned makes
`probe_pci` set up port 0, though `probe_legacy` knows such ports to be unused
(`amy.c:66`, `amy.c:21`); `ControllerPorts` says 0 as the code does, and what answers
at the ports from 0 on is not in the model. `BasicPerf` leaves out the number that is
printed as the deviation. `Margin` is an estimate by hand of how far the floats of
`basicperf.c:86-91` may be off; it is part of the model, and not proved.

Start-up (`start.S`), the linker script, the version string, the build and the QEMU
tests have no state and no branch to model: `start.S` sets the stack pointer and
calls `main` with the place of `__exit` as its return address.

## 7. Plan

In this order:

1. done: search, relocation, placement, their proofs; PCI, discovery; serial,
   console; Multiboot2 information; `Boot`.
2. done: `StartModule`; `Delay`; `Amy`; `Rsdp`; the functions on strings and numbers;
   `BasicPerf`.
3. done: theorems about the relocation, the discovery, the options, Amy, the measurement, serial output, the screen and
   the delay, the RSDP, the Multiboot2 information and what a kernel reads of it, the start of the
   kernel, `start_module` as a whole, `strtoull`, the long division and `vprintf`.
