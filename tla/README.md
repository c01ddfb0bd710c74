# DOSix in TLA+

DOSix (`src/`) gives DOS programs the DOS services and the DOS C library on top
of a Unix kernel: a program calls the C functions of `libc/` (`_dos_open`,
`_dos_findfirst`, `atexit` ...) or raises interrupts (`intdos`, `int86`), and the
library answers with system calls and with state of its own. This directory
models that state and those calls in TLA+, checks the models with TLC and proves
the main invariants with TLAPS.

    tlc -workers 2 -config MCDosFindTwo.cfg MCDosFind    # one run
    tlapm DosFindProofs.tla                              # one module's proofs

## 1. The system

| Component | Source | State it keeps | Operations | Status |
|---|---|---|---|---|
| Extended errors | `libc/dos.c` 283-1205 | `errorinfo`, `_doserrno`, the C library's `errno` | `_dosexterr`, `exterr_set`, INT 21h 59h, INT 2Fh 1222h | `DosExterr`, `DosInt` |
| DTAs and directory search | `libc/dos.c` 1208-1246, 1924-2112 | the static `dta`, `current_dta`, one `struct _find_t` per search | INT 21h 1Ah, 2Fh, 4Eh, 4Fh, `_dos_findfirst`, `_dos_findnext`, `_dos_findclose` | `DosFind` |
| Memory arena | `libc/dos.c` 1249-1447 | `allocmem_tree`, a search tree of blocks | `_dos_allocmem`, `_dos_setblock`, `_dos_freemem`, 48h-4Ah | `DosMem` |
| File handles, share modes | `libc/dos.c` 1450-1616 | none: descriptors and record locks of the kernel | `_dos_creat`, `_dos_creatnew`, `_dos_open`, `_dos_close`, 3Ch-3Eh, 5Bh | `DosShare` (partly) |
| File attributes | `libc/dos.c` 1619-1703 | none | `_dos_getfileattr`, `_dos_setfileattr`, 43h | inside `DosFind` (partly) |
| Time conversion, file times | `libc/dos.c` 1706-1921 | none | packed and unpacked DOS times, `_dos_getftime`, `_dos_setftime`, 57h | `DosTime` (partly) |
| System clock | `libc/dos.c` 2114-2246 | none: the kernel's clock | `_dos_getdate`, `_dos_setdate`, `_dos_gettime`, `_dos_settime`, 2Ah-2Dh | `DosTime` |
| Interrupts | `libc/dos.c` 2249-2687 | `int_vect` | `_dos_getvect`, `_dos_setvect`, `intr`, `int86`, `intdos`, `bdos`, the dispatch on AH and AL | `DosInt` |
| Heap | `libc/malloc.c`, `_strdup` | `heap_tree`, the header of every block | `malloc`, `realloc`, `free`, `_msize`, `_heapchk` | `Heap` (partly) |
| Exit cleanup | `libc/stdlib.c`, `_stdlib.h`, `process.c` | `_dosix__exit_cleanup_stack`, its top; the C library's `atexit` list | `atexit`, `_fatexit`, `_onexit`, `_fonexit`, `exit`, `_exit`, `_cexit` | `ExitStack` |
| Console | `libc/conio.c` | `ungetch_char`, `ungetch_full`, the terminal mode | `getch`, `getche`, `ungetch`, `putch`, `cputs`, `cprintf`, `cscanf` | `Console` (partly) |
| Streams | `libc/stdio.c` | `stream_tree`, `stream_close_count` | `fopen`, `fclose`, `_fcloseall`, ... | not modelled: as written it does not compile |
| attrib | `attrib/attrib.c` | the path, mask and flags of the walk | `do_path`, `do_mask` over directory search | not modelled |
| Wrappers | `libc/string.c`, `ctype.c`, `io.c`, `assert.c`, `time.c` | none | calls of the C library | not modelled |

How they interact. Every service reports a failure either with `_dosexterr`
(which translates the `errno` a system call left) or with `exterr_set` (which
installs a record and sets `errno`, to 0 nearly always), so `errno` and
`errorinfo` are state shared by all of them, and by the program. The C search
calls and the INT 21h search services share `current_dta`. Searching calls
`_dos_getfileattr`, which calls `stat` and `access`; it also converts times.
Interrupts reach all services through `int_vect`. `_cexit` and `exit` call
functions of the program, which call back into the library; so does an interrupt
on which the program put a function of its own. Attributes, files, the clock and
the mode of the terminal belong to the kernel, and other processes change them
between any two system calls of the library.

What is hard here. The library is single-threaded and persists nothing, so there
are no crash-recovery or thread hazards inside it. What is hard is: (a) system
calls of one operation interleaved with other processes (search against files
that change, open against lock, read-clock against set-clock, one terminal mode
against another); (b) long sequences of legal calls that leave a stale index, a
stale `errno`, a wrapped counter or a current DTA that is not the program's; (c)
call-backs from exit loops and interrupts that change what the caller works on;
(d) one call of several failing half way (open done and lock refused, `atexit`
failing after the check, a mapping without a tree node). `PROJECT.json` lists
each such place at its line.

What makes each component correct:
* *search*: a DTA hands out each matching entry once and in order, skips only
  what is not wanted or changed under it, never reads outside its vector, frees
  what it allocated once, and leaves other DTAs and the program's choice of DTA
  alone; every call returns; the error a service returns is the one reported.
* *handles*: a share mode that denies really excludes; no lock or descriptor
  outlives its handle; "create new" creates.
* *exit*: every registered function is called once, newest first, and the
  program ends, whatever the functions do.
* *memory*: a block's pages are its own and are all there until it is freed; a
  block is found under its own record; a failed call changes nothing; freeing one
  block does not touch another's record.
* *clock and file times*: setting the date keeps the time and conversely, up to
  what the clock does meanwhile; a file given a stamp shows that stamp.
* *interrupts*: a request reaches its service; the carry flag and AX tell the
  caller whether and how it failed; the last error is the one reported.
* *heap*: a chunk is in the tree or was given back; its header tells its address
  and size; a block is found, and moving one does not lose another.
* *console*: each byte goes to one reader in order, the byte pushed back first;
  the terminal is left in the mode it was found in.

## 2. Modules

| Module | Models | Extends / uses |
|---|---|---|
| `DosExterr` | the errno table (as compiled on GNU/Linux) and the error record, as operators on `[errno, info]` | `TLC` (for `@@`) |
| `DosFind` | DTAs and directory search | `DosExterr`; `INSTANCE FindSpec` |
| `FindSpec` | abstract: what a search promises | |
| `MCDosFind` | constants of the search runs | `DosFind` |
| `DosFindProofs` | theorems about `DosFind` | `DosFind`, `TLAPS`, `FiniteSetTheorems`, `SequenceTheorems` |
| `DosShare` | creat, open, close over POSIX record locks | |
| `MCDosShare` | constants of the share runs | `DosShare` |
| `DosShareProofs` | theorems about `DosShare` | `DosShare`, `TLAPS`, `FiniteSetTheorems`, `WellFoundedInduction` |
| `SearchTree` | `tsearch`, `tfind`, `tdelete` of the C library, for a comparison that need not be an order | |
| `MemSpec` | abstract: what the calls that give memory promise | |
| `DosMem` | the tree of memory blocks | `INSTANCE SearchTree`, `INSTANCE MemSpec` |
| `DosMemProofs` | theorems about `DosMem` | `DosMem`, `TLAPS` |
| `Heap` | the heap's chunks, headers and tree | `INSTANCE SearchTree`, `INSTANCE MemSpec` |
| `HeapProofs` | theorems about `Heap` | `Heap`, `TLAPS` |
| `DosInt` | vectors, interrupts in progress, dispatch, how services answer | `DosExterr` |
| `MCDosInt` | constants of the interrupt run | `DosInt` |
| `DosIntProofs` | theorems about `DosInt` | `DosInt`, `TLAPS`, `SequenceTheorems` |
| `DosTime` | the clock, file times and their packed form | |
| `MCDosTime` | the calendar of the time runs | `DosTime` |
| `DosTimeProofs` | theorems about `DosTime` | `DosTime`, `TLAPS`, `WellFoundedInduction` |
| `Console` | the console functions, one step per system call | `INSTANCE ConsoleSpec` |
| `ConsoleSpec` | abstract: what they promise the programs that share an input | |
| `MCConsole` | constants of the console run | `Console` |
| `ConsoleProofs` | theorems about `Console` | `Console`, `TLAPS` |
| `ExitStack` | registration and exit | |
| `ExitStackProofs` | theorems about `ExitStack` | `ExitStack`, `TLAPS`, `SequenceTheorems` |

### DosFind

One variable per piece of C state: `dta` is the set of `struct _find_t` buffers
(`pathv`, `pathc` the `glob_t`, `pathi` the `_gl_pathi`, `want` the `_attrib`),
`current_dta` the pointer, `err` the pair of `errno` and `errorinfo`, `call` the
C stack of the call in progress (program counter, which interface it came
through, the `prev_dta` of the wrapper, the `attrib` local of `findnext`).
`vectors` counts the allocations of `glob`. `fs` is the file system, changed by
`Change` between any two system calls. `outcome`, `ret`, `userDta`, `touched`
and `abandoned` observe the program and are read by properties only
(`abandoned` also carries the bound `MaxAbandoned`).

`FindFirst` is the wrapper or interrupt entry, `findfirst` and `glob` (one step:
the result of `glob` is any order of any set of existing paths);
`FindFirstFails` is every error return of `findfirst`. `findnext` is then one
step per system call: `GetFileAttr` (first `stat`), `Access`, `StatSkips`,
`StatFinds`, `StatBadTime` (second `stat`, the filter, `dostime_int`), and
`Exhausted` or `AssertFails` at the end of the loop. `Return` undoes the wrapper.

The program is any sequence of these calls, with one rule, which the tests keep:
`_dos_findnext` is called on a buffer that was given to `_dos_findfirst` before.
The program's own buffers start with any index (the tests use automatic
variables).

### DosShare

`fds`, `locks` and `file` are the kernel's state as the code relies on it: a
lock belongs to a process and a file, is replaced when the process sets another,
and is dropped when it closes *any* descriptor of the file. `Open` is the `open`
call, `Lock` / `LockRefused` the `fcntl` after it, with other programs in
between. `LockType` is the bit arithmetic of the `flock` initialiser:
`_SH_DENYRD` (0x30) has the bits of both other modes, so every deny mode asks for
a write lock and compatibility mode, which has none, for `F_RDLCK`. So
`_SH_DENYWR` and `_SH_DENYRD` exclude more than `share.h` says, readers and
writers alike, and are refused to a program that may only read. `LockRefused` is
a lock that another program's excludes or the descriptor is not open for,
`LocksExhausted` one the kernel has no room for (ENOLCK). `Restart` is a program
ending anywhere, as the kernel cleans up after it. `created` observes the last
`creatnew` of each program: through which interface, and what the file was.

### ExitStack

`stack` and `top` are the two globals, `list` the functions the C library's own
`atexit` holds, `frames` the nest of `exit` and `_cexit` in progress. Functions
called back are program code: they may register, return, call `_cexit`, `exit` or
`_exit`. `top` is a word: `Decremented` is modulo `Word`, so the decrement by
which the loop of `_cexit` ends takes 0 to `Word - 1`. A call through a slot
outside the array, or a push there, ends in `crashed`. The four registering
functions are one action. (`stdlib.h` maps `atexit` and `_onexit` to names with
the prefix `_dosix_` and declares `_dosix__fatexit` and `_dosix__fonexit`, while
`stdlib.c` defines `_fatexit`, `_onexit` and `_fonexit` without it; they are
modelled by their code, under whatever name a program reaches it.)

### DosMem

`tree` is `allocmem_tree` as its in-order sequence of records, `mapped` the
pages the kernel has mapped for blocks, `lost` those mapped for a block whose
tree node could not be had. Each outcome of a call is an action: `Alloc` (with
the tree's insertion, its failure, and an equal node found, where the assertion
of `dos.c:1323` fails), `AllocFails`, `SetBlock`, `SetBlockRefused`, `FreeMem`,
`FreeMemRefused`, `NotFound`, `WrongNode` (the assertions of 1371 and 1420),
`FreeNull` (that of 1404, on a null address, which ends in `null`) and `Nothing`
(a size of 0). Addresses are pages counted from the first that `mmap` gives, so
none of them is null. `Length` is the product by 16 in a `size_t`. `Cmp` is
the comparison of `allocmem_cmp`: a pointer difference, so exact, truncated to
`int`, so an order only among addresses closer than 2 GiB. `Places` is a search
with it (`SearchTree`): all places where it may end in a tree of any shape. A
search that ends between two nodes has met both of them, one being an ancestor
of the other, and it has met the root; that is all `Places` asks of it, so that
it needs no recursion over subtrees. For up to three nodes these are exactly the
outcomes of red-black trees, for more they are among those allowed. `FreeMem`
also has the end of the call, where the record's address is read from a tree node
that is gone (`crashed`), or that has become the next record's (`corrupted`);
where the word read still serves, the call returns. Which of these it may be
depends on the node's subtrees (`MayHaveBoth`, `MayLackOne`).

What a program may rely on all the same is `MemSpec`, which has only the blocks
the program has, each an address and units of memory: they are apart, and a call
gives, resizes or takes back one of them or none. `Promised` is the block as the
program asked for it; a size that overflows promises no memory.

The comparison being no order has consequences the run explores but no property
promises away: `BlocksFindable` speaks of programs whose addresses are all
within 2 GiB of each other (`far` is false). Three blocks 1.5 GiB apart are a
cycle, and once one is freed another need not be found.

### Heap

`chunks` are the chunks the C library has given, by address, with the header the
library wrote in each (`pentry`, `size`) and the chunk's true `length`; `tree` is
`heap_tree` as the in-order sequence of its keys. The comparison reads the
headers, so the key a search meets is the header's `pentry`. `Realloc` resizes
the chunk, in place or by moving it with its old header, then rewrites the key
in the node where it stands and the header in the chunk, as the code does; the
node stays where it was although the address changed (`disordered` observes when
that breaks the order). Sizes wrap with the header added (`Total`): `malloc` of
such a size gives a shorter block, `realloc` to a size that wraps to 0 ends in
`corrupted`. `Free` has the three ends of reading `*_entryinfo` after `tdelete`,
and `corrupted` when the node had two subtrees.

`Cmp` is the comparison as built for x86-64. Subtracting two pointers to 24-byte
records that are not a multiple of 24 bytes apart is undefined; the compilers
divide by 8 and multiply by the inverse of 3. Two addresses of chunks compare
one way round, but three whose addresses differ modulo 3 are a cycle.
`BlocksFindable` therefore speaks of trees that were never `disordered`; where
they were, `free` may call a good pointer invalid, which the run explores
(`FreeNotFound`). The heap implements `MemSpec` nevertheless, whose `Resize` may
move a block.

### DosInt

`frames` is the nest of interrupts in progress: the request, the handlers called
and not returned from (the program's hook may call the library's handler that
was there before it), AX (by what put its value there) and the carry flag. A
request is `<<AH, sub-function>>`; `Dispatch` is the switch that takes it to a
`cpu_` function, and each of those asserts the AH it was written for
(`AssertedAH`). The services answer by the few ways there are, which
`Flagged`, `Reporting`, `LeavingErrno` and `OwnErrors` list for all of them:
`Succeeds`, `FailsInLibc`, `FailsUnmapped`, `FailsItself`; the vectors, AH=59h and
INT 2Fh AX=1222h are actions of their own. A service that calls the C library
(`LeavingErrno`: every one but the vectors, the DTA address and the error
services) may succeed, or tell no failure, and leave any errno all the same:
`findnext` by `access`, `getch` on a pipe by `isatty`, `putch` and AH=09h by a
failed write. `OwnErrors` are the records services set themselves, with the errno
each leaves. `err` is the pair of `DosExterr`, `doserrno` whether `_doserrno`
holds an error code. `last` and `careless` observe the program: `last` is the code
of the last failure, wherever it was (`CodeOf` an errno left, the program's own
calls included), and "unknown" after an errno the table lacks and after `freemem`,
whose errno says something else than its record.

### Console and ConsoleSpec

`tty` is the mode of the terminal, shared by all programs; `full` and `char` are
`ungetch_full` and `ungetch_char`, `pc` and `local` a call in progress (`prev` and
`got`, the locals of `getch` that start uninitialised, are written before they are
read and start as `Anything` and `Ended`). A call of
`getch` is `Getch`, `GetAttr`, `SetAttr`, `Read`, `Restore`, each of which may fail
on its own as the code lets it (a failed `tcgetattr` leaves the record
uninitialised: any mode); `putch`, `cputs` and `cprintf` are one `Write` per byte.
`SetMode` is another program's `stty`, `Restart` a program killed anywhere.
`ConsoleSpec` knows nothing of modes: an input, at most one byte pushed back by
each program, calls and answers. A byte is `% Word`, a returned char is signed, so
the specification only promises an answer that agrees modulo `Word`, and lets
the byte of all ones pass for EOF.

### DosTime

The calendar is the table `DaysBefore` of the days before each month, of any
number of months of any length, and every year has the same. `now` is the
kernel's clock, in standard time; `localtime` shows it an hour later in summer
months. `call` is the one call in progress: `_dos_setdate` and
`_dos_settime` read the clock (`Reads`), and `SetClock` sets it with the half
replaced; `Tick` and `Step` (another program setting the clock) come in between.
`unixtime_struct` converts as if no summer time were in effect (`tm_isdst` 0),
`unixtime_int` with the time in effect (-1), where the missing hour has two
readings and the hour shown twice too. `dostime_int` packs: the year since 1980
shifted by nine bits in an `unsigned`, seconds halved. Nothing masks the year to
the seven bits `dos.h` gives it: `unixtime_int` reads all 23 upper bits, so
`YearWord` is 2^23 in the code, and a year before 1980, which wraps round, is read
as one near 8.39 million. `mtime` is one file's time, set by `Touch` (any program)
and `SetFtime` (`_dos_setftime`); `futimes` of a moment past `LastMtime`, the last
one the file system keeps, sets that one (`InFileSystem`). `late` and `jumped` observe
what happened since the call in progress read the clock.

## 3. Runs

| Run | Checks | Instance |
|---|---|---|
| `find_two` | `CurrentDtaIsUsers`, `VectorsAccounted`, `AbortsOnlyAfterFailedFindfirst`, `ImplementsFindSpec` | two DTAs, two paths present or absent, one search restarted early |
| `find_kinds` | `TypeOK`, `VectorInBounds`, `IntErrorReported`, `ImplementsFindSpec`, `CallReturns` | one DTA, two paths of four kinds, two attribute sets, an errno of each sort |
| `exit_stack` | `TypeOK`, `FailsOnlyAfterCexit`, `EachCalledOnce`, `NewestFirst`, `ExitEndsProgram` | stack of 3, word of 6, 6 registrations, nesting 2, two `_cexit` |
| `share` | `TypeOK`, `NoOrphanLock`, `DenyExcludesUnlessReopened`, `FdsAccounted` | two programs, two descriptors each, one file, four modes, symmetric programs |
| `creatnew` (violation) | `CreatnewIsNew` | one program, a file with data |
| `mem` | `TypeOK`, `PagesAccounted`, `BlocksFindable`, `FailureChangesNothing`, `ImplementsMemSpec` | 7 pages of 2 paragraphs, three blocks, sizes 1, 3 and 9 |
| `mem_free` (violation) | `FreeReturns` | 7 pages, three blocks |
| `time` | `TypeOK`, `SetDateKeepsTime`, `SetTimeKeepsDate`, `FtimeAsAsked`, `FtimeRestored` | two years of three months, the second of summer time, 4 seconds a day, 2 of them the hour; 1980 is the second year, years of stamps are counted modulo 4, the file system keeps moments up to 50 |
| `time_summer` (violation) | `TimeShown` | the same |
| `int` | `TypeOK`, `CarryTruthful`, `LastErrorReported`, `NoOtherStop` | two interrupts in progress, eight requests, two records, two errnos |
| `heap` | `TypeOK`, `ChunksAccounted`, `HeadersTrue`, `BlocksFindable`, `ImplementsMemSpec` | 9 units of 16 bytes, three blocks, sizes 0, 1 and 3 |
| `console` | `TypeOK`, `ModeAsPromised`, `ImplementsConsoleSpec` | two symmetric programs, two bytes, two modes, two texts |

Why the bounds are enough. *Two DTAs* give every interleaving of a search with
another one and with the interrupt services on a third party's choice; *two
paths* give a vector with a first and a last entry, in both orders, each of
which can change during the three system calls spent on it. In `find_kinds`
`rdonly` and `odd` are readable files for which `access` answers each way, so
`reg` adds no branch; the attribute sets select by attribute and by the "normal
file" rule. *One abandoned search* shows the leak the source warns of and that
nothing else leaks. The file system is unbounded in time: `Change` may happen
for ever. In `share` a second descriptor is what it takes to reopen a file and
lose its lock; more only repeat it. The four modes are one per lock type and per
answer of the kernel. In `exit_stack` the stack fills (3) with registrations
left to fail (6), functions called back register more, and two `_cexit` show
what the wrapped top does to the second one. In `mem` the sizes are less than a
page, more than one, and one that overflows (`Word` is 8 paragraphs); 7 pages
with `Half` 3 hold pairs of addresses that compare rightly, as equal (`WrongNode`),
and the wrong way round. Three blocks are the first number whose tree has a node
with two subtrees, and all three may lie near enough to compare rightly; the
proofs have no bound on them. In `time` every month begins and ends inside the
horizon, summer time begins and ends in both years, the first year is before 1980, and a date
past the end of its month is asked for; two ticks within a call take it across
midnight from either side. The clock ends below `LastMtime`, as
`FileSystemAssumption` asks, and a stamp of the first year, wrapped round by
`YearWord`, stands for a moment above it. In `heap` an `int` of 8 units with 3 the inverse of 3
orders pairs of chunks both ways, has triples that form a cycle, and two
addresses out of 9 that compare equal (`WrongNode`); a header is one unit, so
with `SizeWord` 4 the size 3 is the one that wraps, to exactly 0; 9 units hold
three blocks and a place to move one past another. In `int` the eight requests
are one for each way a service answers (flag or none, own error that keeps or
leaves an errno, errno left by a success or by a service that tells no failure,
vectors, error services, none at all),
and `DispatchAssumption`, which TLC evaluates, says that every other entry of
the switch reaches a service that asserts its AH; a second interrupt is raised
from the hook of the first. `ENOMEDIUM` is an errno the table lacks. In
`console` two programs overlap in every way, 7 is the byte of all ones, `2` ends
a line, and the two modes tell the mode restored from the one set. `MaxRegs`,
`MaxDepth`, `MaxCexits`, `MaxAbandoned`, `MaxFds`, `MaxBlocks`, `MaxLate`,
`MaxPending` and the years of the clock are the only bounds in guards (`MaxFds`
is a real limit, RLIMIT_NOFILE).

Deadlock is checked except where the program may stop: `exit` and `_exit` end it in
`ExitStack`, failed assertions and crashes in `DosMem`, `Heap` and `DosInt`.

Fairness. `DosFind`: weak fairness of the library's steps only, that is, a call
in progress reaches its next system call: the code loops without waiting on
anyone. Neither the program nor the environment is fair, and `CallReturns` holds
although files change for ever. `ExitStack`: weak fairness of the loops of
`exit` and `_cexit`, and of `HandlerReturns`, that a function called back comes
back at the end; that is the program's part, and without it `exit` cannot end.
No fairness forces a function to register or not: `ExitEndsProgram` holds
because the stack fills up.

### The violations

* `CreatnewIsNew`: INT 21h 5Bh calls the function of 3Ch, and a file with data is
  empty after it (`dos.c:1522`).
* `FreeReturns`: `_dos_freemem` reads the record's address from a tree node that
  `tdelete` has freed, and passes what it finds to `free` (`dos.c:1434`).
* `TimeShown`: in summer `_dos_settime` sets the clock an hour late, `mktime` being
  told that the time is standard time (`dos.c:1717`).

More disagreements of the source with its comments, headers and tests are in the
models; the properties of the passing runs except just these cases:

* after a failed `_dos_findfirst`, which does not touch `_gl_pathi` while `glob`
  resets the count, `_dos_findnext` on the same buffer fails the assertion at
  `dos.c:1964`; `test/dfind.c` makes these calls without looking at the first
  result (`AbortsOnlyAfterFailedFindfirst` says that this is the only way);
* the C wrappers of the search calls overwrite the `errno` that `exterr_set`
  cleared (`dos.c:1996`, 2103) so that `_dosexterr` would report the current
  error (`dos.c:1190`); it reports FILE_NOT_FOUND, whatever the error was
  (`IntErrorReported` is of INT 21h);
* after `_cexit` the top of the exit stack is SIZE_MAX (`process.c:54`), and the
  next registration fails the assertion of `register_cleanup` (`stdlib.c:50`;
  `FailsOnlyAfterCexit` says that this is the only way);
* `_SH_DENYWR` ("deny write mode", `share.h:28`) and `_SH_DENYRD` both ask for a
  write lock, which keeps out readers and writers alike, and which a program that
  opens the file for reading is refused (`dos.c:1552`);
* closing one handle of a file drops the lock of the program's other handles of
  it (`dos.c:1602`; `DenyExcludesUnlessReopened` excepts files opened twice);
* `freemem`, where `munmap` fails, leaves EINVAL in `errno` with a record that
  says MCB_DESTROYED (`dos.c:1428`), and AH=59h reports BAD_ARGUMENTS. `setdate`
  and `settime` leave EINVAL too, but their record says the same as it
  (`EinvalAssumption`);
* the stamp of a file of before 1980, given back, asks for a year near 8.39
  million, and the file gets the last time of its file system (`dos.c:1831`,
  1793); `test/dgftime.c:39` means to "Restore date and time" so (`FtimeAsAsked`
  and `FtimeRestored` are of stamps of 1980 or later);
* a date not in the calendar is set as the one it runs over to, where
  `dos.c:2176` says "invalid time, system time unchanged" (`SetDateKeepsTime` is
  of dates of the calendar);
* a service that succeeds, or tells no failure, may leave an errno, which the next
  AH=59h reports in place of the last error a service gave: `getfileattr` and the
  searches EACCES (`dos.c:1641`), `getch` on a pipe ENOTTY (`dos.c:2332`), the
  writing services that of the write (`LastErrorReported` says that nothing else
  replaces it);
* the descriptor of an `_dos_open` whose lock is refused stays open
  (`dos.c:1559`; `FdsAccounted` counts it);
* a `_dos_settime` in which midnight passes leaves the clock a day slow
  (`dos.c:2219`; `SetTimeKeepsDate` says so);
* a caller that passes a set or uninitialised carry flag to a service that
  writes none, as `_bdos` does, gets it back (`dos.c:2472`; `CarryTruthful`);
* INT FFh fails the assertion of `_dos_getvect`: the table has 255 entries
  (`dos.c:2255`; `NoOtherStop`);
* INT 2Fh AX=1222h compares the mark 0xff with signed chars, so that a class,
  action or locus so marked is stored instead of kept (`dos.c:1182`);
* three heap blocks may compare in a cycle (`malloc.c:61`), and a size that wraps
  with the header gets a block too short or frees it (`malloc.c:146`);
* the byte FFh is EOF to `getch`, and stops `cputs` and `cprintf` after it was
  written (`conio.c:89`); of two programs in `getch` on one terminal the one that
  returns last leaves it without canonical mode (`ModeAsPromised` excepts it);
* a size that overflows gets a block of what is left of it (`SizeHeld` of
  `DosMem` excepts it).

### Mistakes the properties catch

Each property of a passing run is violated when one definition is replaced by
the plausible mistake defined just before it:

| Property | Definition | Mistake |
|---|---|---|
| `CurrentDtaIsUsers` | `RestoredDta` | the wrapper does not put the DTA back |
| `VectorsAccounted` | `FreedVectors` | the vector is not freed at the end |
| `AbortsOnlyAfterFailedFindfirst` | `Globbed` | findfirst does not reset the index |
| `ImplementsFindSpec` (two) | `DtaAdvanced` | the index is not advanced |
| `TypeOK` (kinds) | `NoMoreFiles` | class and action swapped |
| `VectorInBounds` | `More` | `<=` for `<` |
| `IntErrorReported` | `WrapperErrno` | errno set for the interrupts too |
| `ImplementsFindSpec` (kinds) | `Selected` | only the attribute bits filter |
| `CallReturns` | `DtaAdvanced` | the index is not advanced |
| `TypeOK` (exit) | `Decremented` | the top is signed |
| `NewestFirst` | `Pushes` | pushed although `atexit` failed |
| `FailsOnlyAfterCexit`, `ExitEndsProgram` | `Full` | no check for a full stack |
| `EachCalledOnce` | `MoreEntries` | `--top > 0` for `top-- > 0` |
| `TypeOK` (share) | `Opened` | mode and share arguments swapped |
| `NoOrphanLock`, `FdsAccounted` | `AfterClose` | close does not close |
| `DenyExcludesUnlessReopened` | `LockType` | always a read lock |
| `TypeOK` (mem) | `Length` | the length does not wrap |
| `PagesAccounted` | `Removed` | `tdelete` forgotten |
| `ImplementsMemSpec` (mem) | `Resized` | the new length not stored in the record |
| `BlocksFindable` (mem) | `Cmp` | the difference truncated to half as many bits |
| `FailureChangesNothing` | `Refused` | the new length stored before `mremap` is known to fail |
| `TypeOK` (time) | `unixtime_int` | 1980 subtracted, not added |
| `SetDateKeepsTime` | `ClockSet` | the clock is not set |
| `SetTimeKeepsDate` | `unixtime_struct` | months not counted from 0 |
| `FtimeAsAsked` | `unixtime_int` | `tm_isdst` 0 as in `unixtime_struct` |
| `FtimeRestored` | `dostime_int` | the year not counted from 1980 |
| `TypeOK` (int) | `ExterrSet` of `DosExterr` | the don't-change mark stored as the code |
| `CarryTruthful` | `FlagsOf` | the flags computed from AX after the result is in it |
| `LastErrorReported` | `ExterrSet` of `DosExterr` | the pending errno not cleared |
| `NoOtherStop` | `Dispatch` | AH=4Fh sent to `findfirst` |
| `TypeOK` (heap) | `Total` | the size does not wrap |
| `ChunksAccounted` | `KeyRewritten` | `realloc` leaves the old address in the node |
| `HeadersTrue` | `Refused` | the new size stored before `realloc` is known to fail |
| `ImplementsMemSpec` (heap) | `Total` | no room for the header |
| `BlocksFindable` (heap) | `HeaderRewritten` | the moved chunk keeps its old header |
| `TypeOK` (console) | `Signed` | chars unsigned |
| `ModeAsPromised` | `Restored` | the mode not put back |
| `ImplementsConsoleSpec` | `HasPushed` | the byte pushed back ignored |

## 4. Proofs

Each module of theorems proves its component's properties for every value of the
constants, under the `ASSUME`s of the component's module, which TLC evaluates on
every run. The argument has one form: an invariant `IInv` that is inductive
(`InitIInv`, `NextIInv`, the latter with one step per action), of which the
properties are consequences. None of the properties is inductive alone.
`StackMirrorsLibc` and `SizeHeld`, of what the library keeps, are proved here and
are part of the invariants; the runs check what a program sees of them instead,
`NewestFirst` and `ImplementsMemSpec`.

| Module | Proves | For every |
|---|---|---|
| `DosFindProofs` | `TypeOK`, `VectorInBounds`, `AbortsOnlyAfterFailedFindfirst`, `CurrentDtaIsUsers`, `VectorsAccounted`, `IntErrorReported`, `ImplementsFindSpec` | DTAs, files, kinds, attribute sets, errnos, bound |
| `DosShareProofs` | `TypeOK`, `NoOrphanLock`, `FdsAccounted`, `DenyExcludesUnlessReopened` | programs, files, modes, descriptors |
| `DosMemProofs` | `TypeOK`, `PagesAccounted`, `SizeHeld`, `BlocksFindable`, `FailureChangesNothing`, `ImplementsMemSpec` | pages, page size, widths, sizes, number of blocks |
| `HeapProofs` | `TypeOK`, `ChunksAccounted`, `HeadersTrue`, `SizeHeld`, `BlocksFindable`, `ImplementsMemSpec` | units, widths, sizes, number of blocks |
| `DosTimeProofs` | `TypeOK`, `SetDateKeepsTime`, `SetTimeKeepsDate`, `FtimeAsAsked`, `FtimeRestored` | calendar, day, hour and months of summer time, years, width of a stamp's year, last file time, dates, bound |
| `ConsoleProofs` | `TypeOK`, `ModeAsPromised`, `ImplementsConsoleSpec` | programs, bytes, size of a byte, texts, bound |
| `DosIntProofs` | `TypeOK`, `LastErrorReported`, `CarryTruthful`, `NoOtherStop` | requests, records, errnos, depth |
| `ExitStackProofs` | `TypeOK`, `StackMirrorsLibc`, `FailsOnlyAfterCexit`, `EachCalledOnce`, `NewestFirst` | stack size, larger word, bounds |

*Directory search.* `IInv` says of every DTA that its count is the length of its
vector while it has one, and that without a vector the count is 0 or the index
has reached it (`Shape`); of the call in progress, that past the loop's test the
index is below the count (`EntryHeld`); and that a C call will put back the
program's DTA, while an interrupt uses it (`UserDtaKept`). `Books` adds how
outcomes and vectors go together (`OutcomeOfVector`), that what a call in
progress learnt of its entry by `stat` and `access` is still so unless the entry
was touched (`EntryKnown`), and the type of the error record. For the type the
errnos of `glob` must be rows of the table (`ErrnoAssumption`); any other stops
the program in `_dosexterr`, which `DosInt` has. From both follows the step
simulation of `FindSpec`, which has no invariant of its own: `EntryKnown` is what
makes passing over an entry, or handing it out with the attributes seen, a step
that the specification allows.

*Share modes.* A lock is the kernel's word on a file, a handle the program's.
`IInv` ties them: a handle, or the open in progress, has its descriptor
(`Owned`); locks of two programs are compatible (`LocksCompatible`); a program
that never had two handles of a file holds the lock its handle was opened for
(`LockOfHandle`). That a mode which denies asks for a lock no other mode is
compatible with then gives the exclusion.

*Trees.* What `Places` yields is reasoned about first, in `DosMemProofs` and
`HeapProofs` alike, for any comparison and any number of nodes: a search ends at
an equal node or between two (`SearchEnds`); where the comparison with the key
agrees with the order of the nodes, a failing search ends where the key belongs
(`SearchSeparates`), and an equal node is found whatever the shape
(`SearchFinds`).

*Memory arena.* Pages of records and lost pages are disjoint and all mapped
(`AllMapped`, `Disjoint`), no other page is until an assertion fails
(`NoOtherMapped`), and every block the program has is that of a record
(`Recorded`). These hold whatever the comparison makes of the tree. As long as no
address was too far from another, the tree is in the order of addresses
(`InOrder`), the comparison is the difference, and `SearchFinds` applies. That
the arena implements `MemSpec` needs no order: the pages of the program's blocks
are those of records (`HeldMapped`) or promised no more, `mmap` and `mremap` give
pages nobody has, so that each action maps to a step on the one block
(`BlockGiven`, `BlockReplaced`, `BlockTaken`, `OthersPromised`).

*Heap.* `ChunksAccounted`, `HeadersTrue` and `SizeHeld` are inductive only
together with one another and with `HeldInTree` (a block the program has is in
the tree, so that no leak is one). `InOrder` is that the tree is `Sorted` until
`malloc` or `realloc` brings a chunk the comparison does not order; the proof that
`realloc` keeps it compares the moved chunk with its neighbours, since the node
stays where it was. The refinement of `MemSpec` rests on `HeldInTree` and `SizeHeld`:
what the program has is in use (`HeldInUse`), so that what the C library gives is
apart from it (`NewApart`).

*Console.* `CallsConsistent` says what the variables of a call are where it is,
in particular how far a text is written and what `putch` returned last (`Along`).
`GetchAlone` says that as long as nothing gets in the way (`calm`) one program at
most is in `getch`, knows the mode to give back, and that the mode is the one
asked for from `tcsetattr` on. The step simulation of `ConsoleSpec` has one lemma
per action; its hard part is arithmetic, that a char and the byte it came from
agree modulo `Word`, and that only the byte of all ones is taken for EOF.

*Interrupts.* The invariant says of every frame in progress (`FrameInv`) that AX
is still the caller's and no code was given while the library runs in it, that
flag, AX and code agree for a caller with a clear flag, and that a set flag goes
with a code in AX as long as nobody passed a set one; and that `_doserrno` then
has a code. The error services are dealt with once, in lemmas: what
`_dosexterr` reports it reports again (`ReportTwice`), and what `exterr_set`
stores with no errno left is reported (`ExterrSetReports`), and so is an errno the
table has, left by any call (`LibcFailsReported`). `StopsExplained` rests
on `DispatchAssumption`, which has no parameter: TLC evaluates it entry by
entry, the provers not expanding the `@@` that builds the tables.

*Time.* Everything rests on `mktime` and `localtime` being inverse
(`ShowsItsDate`, `ShowsADate`), for any table of days: a day lies in one month only,
which `localtime` finds as the greatest that has begun (`MonthOfDay`, `DayHasMonth`),
and the remainders by the day and the year are taken apart by `Division` and
`DivisionUnique`. The invariant adds to the types that a call in progress keeps the
time, or the date, that the clock showed as many seconds ago as went by since it
was read (`CallKeeps`), until what the clock shows jumps; setting the clock then
gives what was asked for. Of file times, that a month is of summer time
in every year or in none (`SummerByDay`, `SummerYearly`) makes the stamp of a moment
of 1980 or later tell that moment, or one an hour off that shows the same
(`StampTells`, `StampShowing`): the year since 1980 is then below `YearWord`
(`YearKnown`), and the file system keeps that moment (`FileSystemKeeps`).

*Exit.* The invariant strengthens the properties with what each loop in progress
still has to call: inside the first `exit` the registrations not called yet are
exactly those in `list` (`ListPending`), inside the first `_cexit` exactly those on
the stack below the top (`StackPending`), each listed once (`Known`), and both
agree before either starts (`Mirrored`). Each of the two has the newer above the
older, so that the one called, the highest, is the newest (`NewestAbove`). Lemmas (`PendingPush`, `PendingPop`,
`ButLast`, ...) say what pushing and popping do to such a list.

Model-checked only:
* the liveness properties `CallReturns` and `ExitEndsProgram`, since the prover
  reaches neither fairness nor ENABLED; the four refinements proved (of `FindSpec`,
  of `ConsoleSpec`, and twice of `MemSpec`) are of specifications without fairness,
  so nothing of them is left to TLC;
* the properties of the violation runs, which are false.

## 5. Not modelled

Components: *streams*, because `stdio.c` as written has no behaviour: a comma is
missing at line 118, `VISIT` and `tsearch` are used without their header, and the
walk of `_fcloseall` dereferences a `const void` pointer and starts at the address
of the root pointer. For the same reason `_heapchk` and `_heapset`
(`malloc.c:313`) and `_cscanf` (`conio.c:187` uses a variable declared nowhere).
*attrib* is a sequential client of directory search whose walk is recursive
string handling; the searches it nests are `DosFind`'s interleavings of several
DTAs. The *wrappers* keep no state.

Parts of modelled components: the public fields of a find result beyond the
name; `_dos_setfileattr`; the marshalling of registers other than AX and the
carry flag; `_O_NOINHERIT`; the calling conventions of registered functions; a
program freeing or reusing a DTA during a search; signals; the paragraphs a
failed memory call reports as available; leap years, hundredths of a second and
file access times. GNU/Linux on x86-64 is assumed where the C library's or the
compiler's behaviour matters (the compiled rows of the errno table, `glob`
resetting its argument, signed `char`, the difference of misaligned pointers).

## 6. Plan

Every safety property, action property and refinement that a passing run checks
is proved. What is left is to model more:

1. `_dos_setfileattr`, whose `stat` and `chmod` race with other programs', and the
   walk of `attrib` as a client of `DosFind`.
2. Leap years in `DosTime`: a table of days per year, so that a year's length and
   the day a month begins on depend on it.
3. The streams of `stdio.c`, once `_fcloseall` and the tree it walks compile.
