# CUSS in TLA+

CUSS (the Completely Useless System Simulator) interprets programs of a 32-bit
processor, CUP. It loads a memory image into a RAM of 1 MiB, runs the program in
one thread (the *executor*), and reads the user's commands in another (the
*monitor*): `step`, `reg`, `dis`, `quit` and so on. This directory holds TLA+
models of that program, what TLC checks of them on small instances, and what
TLAPS proves of them for every instance. File and line references are to the
repository; `cpu.c` and its neighbours are in `src/src/`.

## The system

| Component | State | Operations | Talks to |
| --- | --- | --- | --- |
| main thread (`cuss.c`) | options, two thread handles | parse the command line, load the image, initialise the CPU, spawn the monitor, spawn the executor, [SDL: run the event loop, tear down], join the executor, join the monitor | everything |
| executor (`CuRunExecution`, `cpu.c`) | `cup_state`, `cup_pc` | loop: break-point check, wait while stopped, one instruction, test for QUITTING | monitor, through `cup_state`, `cup_state_mut`, `cup_state_cv` |
| monitor (`monitor.c`) | `inp`, `prev_cmd`, `rep_cmd` | read a line and obey it; `step` calls `CuExecSingleStep`, `quit` and the end of the input call `CuSetCpuState(CU_CPU_QUITTING)` | executor, as above; input and output through two callbacks |
| break-point table (`cpu.c`) | 16 rows, `num_break_points` | add, remove with compaction, search | executor, monitor's step, main's start-up |
| memory (`memory.c`) | `cuss_mem` | load an image of sections; get and set a byte, half-word, word | instructions, fetch, `dis` |
| instructions (`ops.c`, accessors of `cpu.c`) | 32 registers, `ep`, `psr`, `pc` | some sixty opcodes in ten handlers | memory |
| threads and locks (`concur.c`) | wrappers of SDL threads, mutexes, condition variables | create, join, lock, unlock, wait, signal | SDL |
| SDL console (`sdlmonio.c`) | input line, ring of text rows, `mon_inp_active`, `mon_inp_eof` | hand a line from the event loop to the monitor; print; tear down with a time-out | monitor thread, main thread's event loop, a timer thread |
| SDL window (`sdlui.c`) | window, renderer, frame times | render a frame, poll events, quit | SDL console |
| disassembler (`opdec.c`) | none | decode a word into a text, apart from the handlers | monitor (`dis`, `step`) |
| text blitting (`sdltxt.c`), log and errors (`logger.c`, `errors.c`) | glyph table; none | output only | |

### What is hard

* **Two threads and no lock.** `cup_state` and `cup_pc` are read and written by
  executor and monitor without the mutex; the only thing under the mutex is the
  wait. Whether they run an instruction at the same time, whether a break-point
  holds, and whether a `quit` reaches the executor depend on the order of single
  loads and stores.
* **One wait, no re-test.** `CuRunExecution` tests, locks, waits, and goes on
  whatever woke it. `CuSetCpuState` signals first and stores afterwards.
* **Errors that end one thread.** A failing instruction or output ends the thread
  in which it happens; which of the two it is decides what happens to the process.
* **32-bit arithmetic.** Addresses wrap, the loader adds `base + nbytes` in 32
  bits, the access check looks at the first and the last byte only, products and
  dividends are held in a signed 64-bit integer.
* **Partial effects.** Handlers store results before `CuSetProgCtr` can fail; the
  loader copies sections before it finds the next one cut off.
* **The compact table.** `IsBreakPoint` relies on what add and remove keep true.
* **The SDL console.** A line is handed over with flags and a signal that nobody may
  be waiting for yet; both threads change the line and only one of the changes is
  under the mutex; the tear-down waits for a while and then destroys what the
  monitor may still use.
* **A ring of text rows.** Rows are used again without being cleared, their width is
  found by looking for a NUL, and the cursor is a character of the text.
* **Two sources of a line.** `fgets` splits a long line, the window cuts it off; `.`
  depends on what was left in `inp` and `prev_cmd`.
* **Two decoders.** The handlers of `ops.c` and the texts of `opdec.c` take the fields of
  a word apart separately.

`PROJECT.json` lists each hazard at its line with the properties that cover it.

### What makes each component correct

* run control: exit status and order of events as `main()` reports them; one thread
  at a time in `ExecOneInsn`; instructions in program order; break-points hold; a
  `quit` ends the process; a failed instruction ends it too.
* break-points: the table is an ordered list; the shortened search is exact.
* memory: success means the whole image is in RAM; nothing outside RAM is touched;
  a stored word is read back.
* instructions: every `pc` can be fetched; arithmetic is exact; a failure leaves
  nothing behind that it should not.
* monitor: the line obeyed is the line typed; `.` repeats the last command.
* SDL console: a line is delivered whole; a tear-down ends the monitor, and nothing is
  used after it is destroyed; text stays in its buffer; the window shows the line that
  RETURN enters.
* disassembler: what looks alike does alike.

## Modules

| Module | What it is |
| --- | --- |
| `Lifecycle` | abstract: what `main()` promises of threads and exit status, with either interface (`MayAbandon`: may the process end while its threads run?) |
| `RunControl` | main, executor and monitor with the command-line interface, one shared access per step; implements `Lifecycle` |
| `MCRunControl`, `RunControlProofs` | a four-word program for it; its invariants, the refinement, and the way to the end of the process |
| `SdlConsole` | main with the event loop and the tear-down, the monitor's `CuSdlMonIoGetInp`, and the executor's life, one shared access per step; implements `Lifecycle` |
| `SdlConsoleProofs` | its invariants, the refinement, and the way to the end of the process |
| `MonText`, `MonTextProofs` | the ring of text rows of `sdlmonio.c`: a record and the functions on it; lemmas about them |
| `Screen` | abstract: a text whose last rows are shown, to whose end characters are added and erased |
| `Repl` | abstract: a monitor that remembers its last command |
| `Terminal` | the user, the loop of `CuRunMon` and what lies between, stdin or the window; implements `Screen` and `Repl` |
| `MCTerminal`, `TerminalProofs` | a window of three rows of two characters; its invariants and the refinements of `Repl` and `Screen` |
| `BreakPointList` | abstract: a list of addresses with room for so many |
| `BreakPoints` | the table with its sentinel and its compaction; implements `BreakPointList` |
| `MCBreakPoints`, `BreakPointsProofs` | instance; proofs |
| `Bytes`, `BytesProofs` | addresses that wrap, the access check, bytes of a word (`memory.c`); lemmas about them |
| `Memory` | the loader, and stores afterwards |
| `MCMemory`, `MemoryProofs` | instance with eight images; proofs |
| `Cpu` | the registers and every handler of `ops.c` |
| `Disassembler` | the texts of `opdec.c` beside the handlers of `Cpu` |
| `CpuProofs` | proofs about both |
| `MCCpu` | instance of `Cpu` and `Disassembler` |

The operators whose comment begins with "Mutant:" are not part of the models: each is
a slip that one could make in the code, kept to see that a run would find it.

### How RunControl corresponds to the code

`cup_state`, `cup_pc`, `cup_break_points`, `cup_state_mut`, `cup_state_cv` are the
statics of `cpu.c`; the mutex is its holder and the condition variable the set of
threads blocked on it. `pc[t]` is the place of thread `t` in its own code, `insn`
and `at` are the word fetched and the second read of `cup_pc` in `ExecOneInsn`,
`seen` is the value of `cup_state` that the executor last read or stored, and
`status` the value a thread (or the process) returned.

Between two labels a thread makes one access to shared memory. Executor: `start`
(store RUNNING), `check` (read `cup_pc`), `set_bp`, `test` (the two comparisons of
`cpu.c:185`, which are one load in a `-O3` build, or none: gcc reuses the value that
the loop's test at `cpu.c:194` or the store before it left in a register, so the model
lets `test` take either `seen` or the state of now), `lock`, `wait`,
`waiting`, `unlock`, `fetch`, `operand`, `commit`, `loop`, and `error`. Monitor:
`prompt`, then `step` (the test of `cpu.c:199`), `fetch`, `operand`, `commit`,
`check`, `set_bp` or `set_paused`; or `quit` (the test of `cpu.c:73`), `signal`,
`set_quitting`. Commands that only print change nothing here; a printing error
ends the monitor (`OutputError`).

What an instruction computes is the constant `Outcome`: for an address and a
word, the set of next program counters or `Fails`. Module `Cpu` justifies two
things about it: a `pc` that is accepted can always be fetched from
(`FetchNeverFails`, so `Fetch` has no error branch), and a failing instruction
leaves `cup_pc` alone (`FailureIsContained`). The program is a constant too:
`RunControl` leaves out programs that rewrite themselves while two threads race.

Four switches say what the environment may do: commands before the executor
has started (`EagerUser`), spurious wake-ups (`Spurious`), failing output
(`OutputFails`), failing thread creation (`SpawnFails`). *Calm* means neither of
the first two.

The break-point table appears as the set of its addresses; that the set view is
right is `SearchIsExact` of `BreakPoints`. Of the calls, only the one of
`CpuSetUp` is made, so the set has at most one element.

### How the other modules correspond

`BreakPoints`: one action per call, with the first match, the first free row and
the end of the compaction written as quantifiers. Removing the sentinel itself is
not a call of the model (nobody calls `CuRemoveBreakPoint` yet; a caller
would pass an address it has added).

`Bytes` and `Memory`: widths are constants. A byte has `ByteRange` values, a word
`ByteRange^4`, and addresses are words that wrap. `Memory` reads one section per step
from a file that is a constant record of sections, the last of them possibly cut
off, and a `tail` of bytes of an incomplete header. `ReadBeyondRam` is the
undefined outcome of an `fread` that runs past the array. `Store` stands for
running instructions and comes after a load that succeeded.

`Cpu`: one disjunct per handler or per group of opcodes within `CuExecOp0x00`. An
instruction is a record of its fields. The bit positions of the fields are
abstracted: `Decode` gives the instructions that a word may stand for. The
pairs of opcodes that differ in setting the flags share a name and differ in the field `f`. `BitAnd`,
`BitOr`, `BitXor` are constant operators of which the module assumes only that they
yield words; the instance takes them from the Bitwise module. Signed 64-bit values
are numbers modulo the square of the word range, which is what the build makes of
the code's overflows; a division by zero gives the result "undefined".

### How SdlConsole corresponds

The variables of `sdlmonio.c` keep their names; `mon_inp_buf` is the line up to its
terminator. The mutex is its holder or "destroyed", `cv_alive` says whether the condition
variable exists, and `mon_out_buf` whether the text buffer does. As in `RunControl` a
thread makes one shared access between two labels. Main: `set_up`, the spawns, the event
loop (`loop`), `CuSdlMonProcEvt` for a text (`measure`, `lock`, `append`, `unlock`),
BACKSPACE (`measure`, `erase`), Control-D (`set_eof`, `signal`) and RETURN (`signal`), then
`CuSdlMonIoTearDown` (the labels `td_...` and `delay`) and the joins. Monitor: `print`,
`CuSdlMonIoGetInp` line by line (`clear` to `get_eof`), `obey`, and at the end of the
input `print_eof` and `set_quitting`. A use of a destroyed mutex or condition variable is
an error that SDL reports (the pointer is set to NULL first); a use of the freed text
buffer is undefined behaviour: it sets `undefined`, and nothing follows.

Of the executor only its life is modelled, with a program without break-points: its first
store of RUNNING (`ExecutorStarts`, from the label `start` to `running`), which wipes out
a `CU_CPU_QUITTING` that was stored before it, and then that it quits or fails. That a
running executor hears a quit is what `RunControl` shows for commands that come after
that store (`FreeRunQuits`).

Two variables are history and guard nothing. `entered` is the line at the moment of
RETURN. `mishaps` records what happened at an unfortunate moment: a key pressed while
the monitor was not waiting (`haste`), a text event of several bytes (`wide`), a wake-up
without a signal (`spurious`), a tear-down that found the monitor doing something else
than waiting for input (`busy`), delays that ended before the monitor had ended (`late`), a command obeyed before the executor had
stored RUNNING (`early`).
The properties say in terms of them what the code can promise.

### How Terminal, MonText, Screen and Repl correspond

`MonText` has the array of characters, its first and current row and its column as a
record, and `EmitMonTxt`, `UnemitMonTxt`, `NextMonRowData`, `NumMonRows` and what
`CuSdlMonIoRender` does to the text (the cursor takes the place of the last
character) as functions of it. Rows that come into use again keep their old characters,
as in the code. Two functions read rows from it. `RowsShown` is what the window draws: each
row up to its first NUL, as `CuSdlMonIoRender` searches for it. `RowsWritten` is what was
written: the same, but the current row goes no further than `mon_curr_col`.
`ImplementsScreen` compares what is written with the plain text of `Screen`, and
`DrawsText` what is drawn with what is written: they are the same whenever a message is
complete and while the user types, except after a RETURN that has taken the oldest row
(`reused`), and otherwise only the current row goes on too far.

`Terminal` has the user, the loop of `CuRunMon` with `inp`, `prev_cmd`, `rep_cmd` and `eof`,
and both ways to read a line: `CliGetInp` with what `fgets` has left of the line
(`stdin`), and `CuSdlMonIoGetInp` with the events. `todo` is the text that remains
to be printed, one character per step, so that a frame can be rendered and the cursor
can blink in between. Here the user of the window types only while the monitor waits;
`SdlConsole` has the rest. A command prints one constant text, of which `OutputAssumption`
says that it ends with a newline, as every output in `monitor.c` does: the prompt begins
a row. (`FitAssumption`, that prompt, line and cursor fit the window, is about the sizes in
the code: 7 + 256 characters in 30 rows of 80.)

### How Disassembler corresponds

`CuDecodeOp` gives a mnemonic and the operands in the order of the text. Two instructions
with the same text must be the same to `ExecOp` of `Cpu`. They need not be the same
word: the text omits fields that the handlers do not look at, and for a comparing branch it
shows the first register and 21 bits as one number, of which the second register is a
part.

## Runs

| Run | Question | Result |
| --- | --- | --- |
| `wild` | With early commands, spurious wake-ups and failing output and spawns: does the process keep the promise of `main()` (`KeepsPromise`), is an orderly exit always the user's (`QuitIsRequested`), does a failed instruction end the process even while the monitor waits for input (`FailureIsReported`), and is a quit heard that is stored while the executor is between its tests (`HeardQuit`)? | holds |
| `calm` | Otherwise: is one thread at most in `ExecOneInsn` (`OneRunner`), does the program run in order with no stale fetch (`InOrder`), do break-points hold until the user quits (`BreakPointHolds`), are they all that makes the executor wait, even after the monitor has failed or a waiting thread was woken by nobody (`OnlyBreakPointsStop`), and does every quit end a program without break-points (`FreeRunQuits`)? | holds |
| `quit` | `exit, quit: Exit CUSS.` | violated |
| `console` | With a window, keys at any time, spurious wake-ups and an SDL that fails: is the promise kept (`KeepsPromise`), is the line obeyed the one that `mon_inp_buf` held at RETURN (`LineIsWhole`), does it fit its buffer (`LineFitsBuffer`), is nothing used that the tear-down has destroyed (`CleanTearDown`), does a RETURN get the monitor out of its wait (`ReturnIsHeard`), does the tear-down end (`TearDownEnds`) and the process with it (`QuitEnds`)? | holds, with the conditions below |
| `terminal` | Lines on stdin or keys in a window: is the line obeyed the line typed (`LineIsRead`), does `.` repeat the last command (`ImplementsRepl`), is what is written to the ring of rows a plain text (`ImplementsScreen`) that ends with the prompt, the line and the cursor (`ScreenShowsLine`), and does the window draw that text and nothing older (`DrawsText`)? | holds, with the conditions below |
| `backspace` | "Remove the place-holder for the cursor as well." | violated |
| `breakpoints` | Is the search exact, and the table a list? | holds |
| `memory` | Does success mean a whole image, does nothing touch memory outside RAM, are words stored without loss? | holds |
| `cpu` | Can every next instruction be fetched, is arithmetic exact where it fits a signed doubleword (`ExactArithmetic`), what may a failing instruction leave, does the disassembler tell instructions apart that do differently (`TextTellsAction`)? | holds |
| `flags`, `ldui`, `div` | What the manual says of flags, `LDUI` and `DIVR` | violated |

Why the violated ones are violated:

* `quit`. At a break-point the executor stores `BREAK_POINT` after the monitor has
  seen `RUNNING`, skipped the signal and stored `QUITTING`; or the signal falls
  between the executor's test and its wait. Either way the executor waits for a
  signal that nobody will send. It needs a break-point: without one `FreeRunQuits`
  shows that every quit gets through. (TODO.md's "dangling CUSS on `quit`" is about
  the graphical interface, where the event loop goes on as well.)
* `backspace`. `UnemitMonTxt` gives up at column 0 of row 0, where the text begins
  at first. When the ring has wrapped around, the row before it is the last one, and
  a line that began there loses a character in `mon_inp_buf` that stays on the screen.
  `ScreenShowsLine` says that nothing else makes the two differ (`stuck`).
* `flags`. Flags are only ever added to `psr`.
* `ldui`. The handler replaces the whole register.
* `div`. The dividend is a signed integer; `ExactArithmetic` states what does hold. The
  product of `MULR` is one too: of 2^63 and more it overflows, which is undefined in C and
  wraps around in the build and in the model, so `ExactArithmetic` says nothing of such
  products. TODO.md lists "Fix unsigned multiply and divide instructions".

### What the console does not promise

The conditions in the properties of `console` and `terminal` are there because the code
does otherwise without them:

* A RETURN before the monitor waits signals nobody, and only the next one hands over a
  line, with what was typed in between (`haste`). A spurious wake-up takes a line before
  RETURN. `LineIsWhole` is about the line in `mon_inp_buf`, which the screen may differ from
  (`backspace` above).
* A command before the executor's first store. A `quit` is wiped out by that store: the
  executor runs on, and when the window is closed main joins it for ever. (An early
  `step` may leave it PAUSED instead.) `QuitEnds` asks that no command was `early`.
* A text event of several bytes near the limit puts the terminator one byte past
  `mon_inp_buf` (`wide`).
* Escape while a command prints: the tear-down finds input inactive, destroys mutex,
  condition variable and text buffer, and the monitor goes on to use them (`busy`). After
  a failed `SDL_AddTimer` input stays active though the monitor has ended, and the tear-down
  waits in vain and gives up.
* A monitor that needs more than the four delays to print its message about the end of
  the input finds the text buffer freed (`late`).
* `quit` ends the monitor and the executor, but the event loop goes on until the
  window is closed (TODO.md lists it); and when the monitor has failed, main joins an
  executor that nobody has told to quit. `QuitEnds` therefore starts from a closed window
  and a monitor that waits or has quit.
* A long line on stdin becomes several commands, the last of them perhaps empty; an
  empty line makes `.` forget. Both are what `LineIsRead` and `Repl` say.
* No row is cleared before it is used again. When all rows are in use, RETURN takes the
  oldest one for the next line, and until something is written to it the window draws its
  old text once more, at the bottom. After `quit` nothing is written any more, and it
  stays. While a message is being written, what the row held before may follow it. The
  condition of `DrawsText` names both.
* A frame rendered between the activation of input and the place-holder draws the
  cursor over the last character of the prompt (`Looks`).

### Bounds

* `MCRunControl`: four words of RAM with a straight run, a branch back and an
  instruction that fails, and every choice of break-point or none. That is enough for the
  races, which are about one instruction each: a loop that runs for ever, a way out of
  it into a failure, break-points inside and outside the loop. The user may type any
  number of commands. The state space is finite without any bound on steps.
* `MCBreakPoints`: four rows, three addresses in RAM, one outside, and the sentinel:
  a full table, duplicates, removals at either end and in the middle.
* `MCMemory`: one-bit bytes and four-bit words, so that all words and all addresses
  are tried, and a RAM of eight bytes, half of the address space. The images are
  empty, whole, overlapping, cut off in a header and in data, ending at the end of RAM
  (refused), beyond it, and around the end of the address space.
* `MCCpu`: four-bit words, a RAM of three words, registers r0, r1 and the link
  register r2, and programs of at most `MaxSteps` = 5 instructions, where any word
  may stand for any of some eighty instructions. Five instructions
  set up two operands, `ep` and a flag, and use them. The counter is in
  the MC module, not in `Cpu`.
* `console`: one key, a line buffer of three bytes and a monitor's buffer of two, texts
  of at most two bytes, two attempts of the tear-down. A line can be empty, cut off by
  either buffer, grow after RETURN, and meet the limit with a text too long for it; which
  keys it is made of makes no difference to the code. The user may type
  for ever.
* `terminal`: a ring of three rows of two characters, a prompt of two, the keys `.` and `q`,
  lines of up to three, buffers of four and three bytes, and both interfaces. A line with its
  prompt and cursor fills the ring, begins on any of its rows, is erased and typed again
  any number of times, and the ring wraps around for ever. The assumption that prompt,
  line and cursor fit the window (`FitAssumption`) is that of the real sizes.
* Deadlock checking is off where the system stops by design: main returns
  (`RunControl`, `SdlConsole`), the monitor ends (`Terminal`), the load is refused
  (`Memory`), an instruction fails (`Cpu`).

### Fairness

`FairSpec` assumes of the operating system that it schedules every thread that can
run: weak fairness of main's steps, of the executor's and of what the monitor does
once it has a command. Weak is enough, for a thread's step stays enabled until taken
(the mutex is taken by nobody else). There is no fairness on the user typing, on
spurious wake-ups, on failures, or on an instruction's outcome; a program that
loops for ever loops for ever.

In `SdlConsole` the same holds of main's work, of the monitor's, of an executor that starts, and of
one that is to quit, as long as no command was early: a step that came before the
executor's first store may have left it waiting, so nothing is assumed of it then
(`ExecutorHears`). Two of the monitor's steps need the mutex, to wait and to return from the wait,
and main takes and releases it for every text event. For these fairness is
strong: the event loop sleeps between frames, without the mutex, so a monitor that asks for
the mutex gets it in the end. Nothing makes the user type or close the window, and
nothing makes SDL fail or wake a thread without reason.

## Proofs

All proofs are checked by TLAPS with the SMT, Zenon and LS4 back-ends, from the
named assumptions on the constants and nothing else.

* `RunControlProofs`. `TypeOK` is inductive. `ThreadInv` adds what the threads'
  lives have in common: a thread has a status exactly when it has ended, main spawns
  before it joins, `CU_CPU_QUITTING` in `cup_state` means that the monitor has
  succeeded. `QuitIsRequested` alone is not inductive: it needs the last fact, since the
  executor only sees the state. With both, every step of `RunControl` is a step of
  `Lifecycle` or a stutter (`ImplementsLifecycle`). For a calm environment `CalmInv`
  ties labels to the state: while the monitor is not leaving, an executor in its
  loop means RUNNING, an executor on its way to the wait means PAUSED or BREAK_POINT,
  and a monitor acting on a stopped CPU means an executor that waits or is about
  to; then neither holds a stale instruction. `OneRunner`, `BreakPointHolds` and
  `InOrder` follow. `OnlyBreakPointsEverStop` is an invariant of its own: without
  break-points nobody stores a state that the executor waits in.

  *The way to the end.* A quit, and a failing instruction, end the process because of three
  facts that need no fairness. `Closing` names the states from which the executor, or main
  after it, can only go on to the end; `EveryStepNearsTheEnd` shows that no step of
  any thread leaves `Closing`, and that each step of the executor or of main lowers
  `StepsLeft`, which is 8 at most. `NobodyWaitsAtTheEnd` shows that one of them can always
  take its step. `FreeQuitIsNotLost` shows that a monitor that has quit finds the executor
  there, without break-points and early commands: `QuitStaysInv`, the executor
  does not store over `QUITTING`. What is missing for `HeardQuit`, `FreeRunQuits` and
  `FailureIsReported` is the step from "some thread can move and every move counts" to
  "it ends", which takes fairness.
* `SdlConsoleProofs`. `TypeOK` needs `MeasureInv`: the size that `CuSdlMonProcEvt`
  measured before it took the lock is still an upper bound when it appends, since meanwhile
  the monitor can only clear the line. Each step is then classified as one of a few
  changes of a thread's life (`LifeStep`), from which both `ThreadInv` and the refinement of
  `Lifecycle` follow without another look at the actions. `TearDownInv` says where the
  monitor can be at each label of an orderly tear-down, and gives `CleanTearDown`.
  `LineInv` says that from RETURN to obedience no event is being processed and the line
  stays as it was; it uses `TearDownInv` for the monitor that is waiting.

  `MutexInv` says who holds the mutex at which labels, as long as nothing destroyed was
  used. It gives `LineIsLocked`, and `TearDownIsNotLockedOut`: a thread that ends with
  the mutex in hand (a monitor whose wait finds no condition variable) does so only after the
  tear-down has had it for the last time. `EveryStepNearsTearDownsEnd` counts the steps of
  the tear-down (`TearDownLeft`): the attempts bound the delays, and no other thread
  adds any.

  The way to the end is as in `RunControlProofs`, with more threads on it. `Closing`: the
  tear-down has begun to look at `mon_inp_active`, the monitor is at a label from which
  the end of the input makes it quit, or has quit, if it still waits the signal is yet
  to come, and the executor has its first store behind it with no command before that. `QuitIsUnderWay` shows that this is so when the tear-down finds the monitor
  waiting and no command was early, `EveryStepNearsTheEnd` that every step but a spurious wake-up lowers `EndLeft`
  (the steps left to main, the monitor and the executor together, at most
  `2 * MaxAttempts + 20`), `NobodyWaitsAfterTheWindow` that somebody can always move. `EndInv`
  has what this needs besides: without early commands (`EarlyIsNoted`: only they come before
  the executor's first store) a quit stays stored, the end of the input too, the
  executor was spawned, and nobody waits on a condition variable that is gone.
* `TerminalProofs`. `TypeOK` with `StdinInv`, a newline only ends what is left on stdin.
  `LoopInv` ties `rep_cmd`, `prev_cmd` and `inp` to the place in the loop, and every
  step is then a step of `Repl` or a stutter. For `LineIsRead`, `PipeInv` says that what is
  left of a line is its end, without a whole number of pieces; the lemma `Pieces` is the
  arithmetic of one more piece.

  For the window the invariant is `WindowInv`. Every character before the column on the
  current row is written (`Filled`), so the next NUL of a row that is used again is found
  where the text ends once it is ended (`Ended`). While the prompt is printed the text
  `EndsWith` its beginning, and while the user types with prompt, line and cursor
  (`LineInv`), where the cursor may look like a space (`Looks`), for a frame may have been
  rendered in between. When an erasure has met the start of row 0 (`stuck`), all that
  can be said is that the line is no longer than what is on the rows from there on.
  `ScreenAlwaysShowsLine` follows from the invariant, and `WindowIsText` by one lemma per
  step: each is a step of `Screen` on the rows written. `WindowDrawsText` needs `DrawnInv`
  besides: the rows that are not in use are empty, for rows are only given back when
  an erasure has emptied them. A RETURN that takes such a row therefore leaves it ended,
  as every message does; one that takes the oldest row need not.
* `MonTextProofs`. What `EmitMonTxt`, `UnemitMonTxt`, a new row and the cursor do to the
  rows written, to the rows not in use and to the end of the text, for every size of the ring and wherever it
  begins. The width of a row is a search for a NUL; that it finds one, and which, is the
  least-number principle (`LeastNat`), which comes from the well-foundedness of `<` in the
  library and needs no induction of its own.
* `BreakPointsProofs`. The invariant is compactness: a row is free exactly from
  `num_break_points` on. The cases of add and remove are two lemmas, used for the
  invariant and again for the refinement of `BreakPointList`.
* `BytesProofs`. Division and modulus from the solver's linear arithmetic up: a word
  is its four digits, an access whose ends are valid is inside RAM. That last
  lemma needs three addresses beyond RAM (`SizeAssumption`); with a RAM of the whole
  address space it would be false.
* `MemoryProofs`. `LoadInv`: RAM holds exactly the sections read so far, later ones
  over earlier ones, and those were whole.
* `CpuProofs`. The invariant is `TypeOK` with `FetchNeverFails`, by one lemma per
  handler; `FailureIsContained` and `ExactArithmetic` follow from it case by case (`MULR` for
  products below half of the doubleword's range).
  `WidthAssumption` states of the powers of two what the shifts need (each is between 1 and the
  word range), because exponentiation is a recursive definition that the provers do not
  unfold.
  Of the disassembler: opcodes with the same mnemonic are the same opcode with the same
  `f`, and then operand by operand the fields that the handler reads are the same; for
  comparing branches 21 bits are taken apart again. The rest is that `ExecOp` depends on
  those fields only.

Every invariant and action property that a passing run checks is proved, and so are the
refinements. Only model-checked are the liveness properties (`FailureIsReported`,
`HeardQuit`, `FreeRunQuits`, `QuitEnds`, `TearDownEnds`, `ReturnIsHeard`): fairness speaks of
ENABLED, and counting down to an end is an induction, both beyond the prover. Of the first
five the part without fairness is proved, as said above; of `ReturnIsHeard` only what
`LineIsLocked` says of the mutex. The five violated properties are refuted.

## Not modelled, and why

* the text that commands print, logging, error messages: output only. Of the
  disassembler the operands are modelled, their formatting is not;
* the window, the renderer, its textures and frame times (`sdlui.c`), the glyphs and
  their blitting (`sdltxt.c`): I/O, and a table of pixels; no other part reads their state;
* the limit on the characters of one message (`MAX_CHARS_TO_EMIT`), which nothing
  printed reaches;
* text emitted by both threads at once: the place-holder and a key typed before the monitor waits
  race on the row and column counters; no document promises that they may;
* the command line: its syntax is string handling; the byte before the buffer that `CliGetInp`
  looks at when the input ends at once;
* failures of `SDL_LockMutex`, `SDL_CondWait` and the like while the objects exist,
  which need a broken platform;
* weak memory: apart from the register that `seen` stands for, a load sees the last
  store. `cup_state` and `cup_pc` are statics that an external call may change, so the
  compiler reads them again after every call; the hardware's reordering of plain
  accesses is left out.

## Plan

Done: run control, break-points, memory, instructions, the console, the terminal and the
disassembler, with the proofs of all that can be proved of them. What is left:

1. `StepSystem`: `Cpu` run by two threads, replacing the constant `Outcome` by the
   instructions themselves, with `RunControl` as an abstraction of it. Today the link
   is the two facts about `Cpu` named above.
2. The executor of `RunControl` and the console of `SdlConsole` in one model, so that a
   break-point and a tear-down can meet.
