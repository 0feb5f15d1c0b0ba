# Verification of *cracking-the-linux-prog-interface*

The repository holds one person's solutions to the exercises of *The Linux
Programming Interface*: one executable, `run CHAPTER QUESTION [ARGS]`, that
dispatches to a function per exercise. Most of them are short programs over
system calls. One is a system of its own: the heap allocator of chapter 7,
question 2 (`c/chpt7/q2.c`, 960 lines, a third of the code), whose `__malloc`
and `__free` keep two doubly linked structures over the same words of memory.
This project models the allocator down to every link it writes, checks it with
TLC, and proves with TLAPS that its algorithm keeps its promise and that the code
is that algorithm. The exercises around it are modelled as well, one module each,
and composed into `Program`, one execution of `run`: they are short, but most of
what can go wrong in them (a short write, a failed call, another process or thread
in between, a boundary of an integer) is beyond what their asserts try. Their
safety properties are proved, too, for files, buffers and numbers of any size.

All paths below are relative to the repository (`src/`).

## Inventory

| component | code | state | operations | what makes it correct |
|---|---|---|---|---|
| heap allocator | `c/chpt7/q2.c` 11-437 | `heap_start`, `program_break`, `free_block_list`, `last_alloc_block`, five words in each header | `__malloc`, `__free` | blocks tile the heap; links are exact; live regions are disjoint and untouched; calls return |
| allocator test | `c/chpt7/q2.c` 453-960 | `p`, `pp`, `ppp`, `pppp` | 36 calls, asserts after most | the asserts hold, it exits |
| tee | `c/chpt4/q1.c` | two descriptors, a buffer | read, write to both, fsync | both outputs get the input; it ends |
| sparse copy | `c/chpt4/q2.c` | offsets of two files, `data_begin`, `data_end`; `inside_hole`, `hole_begin` | `q2_std`, `q2_nulls_into_holes` | the copy equals the source, size included |
| write helpers | `c/shared/utils.c` 40-58 | bytes written so far | `deliver_write`, `safe_close` | all bytes are delivered, or the process ends |
| file offsets, appending | `c/chpt5/q1.c`, `q2.c`, `q3.c`, `q5.c`, `q6.c` | descriptor table, open file descriptions, file | open, dup, lseek, write | who shares an offset; what survives two appenders |
| `__dup`, `__dup2` | `c/chpt5/q4.c` | descriptor table | both | the descriptor returned is a duplicate of `old_fd` |
| `__readv`, `__writev` | `c/chpt5/q7.c` | a temporary buffer | both | equal to one read or write of the concatenation |
| longjmp | `c/chpt6/q2.c` | the stack | `longjmp` into a returned frame | none: it shows undefined behaviour |
| environment | `c/chpt6/q3.c` | `environ` | `__setenv`, `__unsetenv` | a map from names to values; the test passes |
| malloc/free loop | `c/chpt7/q1.c`, `chpt7.c` | `ptr[]`, five arguments | argument checks, two loops | every index is in range |
| password file | `c/chpt8/q1.c`, `q2.c` | the cursor of `getpwent`, `errno`, a static buffer | `__getpwnam`, two `getpwuid` | ENOENT if and only if there is no such user |
| dispatch | `c/run.c`, `c/chpt*/chpt*.c`, `c/shared/utils.c` 15-38 | none | `cmp_chpt`, `cmp_question` | each documented prefix is accepted |
| error reporting | `c/shared/errors.c` | the buffer of stdout, `errno` | `errMsg`, `errExit`, `err_exit`, `errExitEN`, `fatal`, `usageErr`, `cmdLineErr` | nothing printed is lost or overtaken; the message shows the `errno` of the call |

**How they interact.** `main` calls one `chptN_run`, which parses the arguments
and calls one exercise; exercises do not call each other. All of them share the
error functions, and chapters 4 and 5 share `deliver_write` and `safe_close`.
The allocator has one client, `chpt7_q2`, and one service below it, `sbrk`. The
exercises of chapters 4 and 5 interact with each other only through files, which
matters for chapter 5, question 3: it is meant to be run twice at the same time.

**Which behaviours are hard.** In the allocator, none of the difficulty is
concurrency: it is that each branch updates up to eight words of up to five
blocks and relies on all the branches taken before; that free and allocated
headers are cast into each other with words left in place; that "last block of
the heap" is inferred from a NULL link; and that `sbrk` can fail. In the rest of
the repository it is interleaving (q3 without `O_APPEND`, `__dup2` with threads),
short or failed reads and writes (tee, `deliver_write`), boundaries (trailing
holes, `SSIZE_MAX`, the overflow in the loop of chapter 7, question 1), and
static data that is overwritten (`errno` after `endpwent`, `getpwuid`).
`PROJECT.json` lists each hazard at its line.

## The modules: the allocator

```
AllocContract                 what a client is promised
     ^ implements (ContractSpec; TLC and TLAPS)
FirstFit  ---EXTENDS--->  Heap              the algorithm, one step per call
     ^ implements (FirstFitSpec;    ^
     |             TLC and TLAPS)   |
Malloc    ---EXTENDS----------------'       the code, word by word
     ^ EXTENDS
MallocTest                    chpt7_q2, the client in the repository

FirstFitProofs --EXTENDS--> FirstFit
MallocProofs --EXTENDS--> MallocLinks --EXTENDS--> Malloc;  the proofs
MCMalloc, MCMallocTest: the instances TLC checks
```

**Heap** is the part both descriptions share: the addresses of the headers as
the domain of the function `length`, the two ends of the heap, the pointers the
client holds (`held`, with the size each was asked for), `real_size` with its
wrap-around at `SIZE_MAX`, and the properties of a heap (`Tiling`,
`MinimumSize`, `Coalesced`, `HeldUsable`). A block is allocated when the client
holds the pointer to its body; the code has no other mark for it.

**AllocContract** has one variable, the regions the client holds. `Malloc` adds
any region disjoint from all of them, `Free` removes one.

**FirstFit** is the algorithm without pointers: the free block of lowest address
that fits, cut from its end if what remains is a block (`MallocSplit`) or taken
whole (`MallocWhole`); else the heap grows, from the last block if it is free
(`MallocGrowLast`) or by a new block (`MallocAppend`); `Free` merges with the
free blocks on both sides.

**Malloc** is `q2.c`. A header is five words, and since the structs lay
different fields over the same words, the model has one function per *word*:

| word | free block | allocated block |
|---|---|---|
| `length` | `length` | `length` |
| `back_free` | `prev_free_block` | `back_merge_on_free` |
| `fwd_free` | `nxt_free_block` | `fwd_merge_on_free` |
| `back_alloc` | `back_expansion_cand` | `prev_neigh_alloc_block` |
| `fwd_alloc` | `fwd_expansion_cand` | `nxt_neigh_alloc_block` |

The casts of the code are then the identity, and every "already filled due to
struct alignment" is a claim that the model checks instead of assumes. Actions
and code:

| action | `q2.c` |
|---|---|
| `MallocNoFree` | 130-146 |
| `MallocSearch`, `SearchStep` | 147-158, one step per iteration |
| `MallocGrowLast`, `MallocAppend` | 160-209 |
| `MallocSplit`, `MallocWhole` | 211-238, 239-276 |
| `FreeFirst`, `FreeDoubleMerge`, `FreeMergeBack`, `FreeMergeFwd` | 305-379, each with 288-303 |
| `FreeIsolated`, `WalkStep` | 380-411, one step per iteration, with 288-303 |
| `FreeInsertAfter`, `FreeInsertFirst` | 412-434 |
| `SegFault` | a store of 137-142, 196-202 or 223-228 beyond the break |

A call without a loop is one step: the program has one thread and no signal
handler, so nothing can come between its statements, and only the loops, whose
termination is in question, are taken apart. The words of a header that a merge
swallows are dropped; TLC would report an error if any action read them again.
`__free(NULL)` changes nothing and is a stuttering step.

**MallocTest** is `chpt7_q2`: a script of its 36 calls, in which each call that
the code follows by asserts carries the layout the asserts spell out, such as
`<< <<"p", 0>>, <<"free", M>> >>`. The comment at `q2.c` 653 speaks of
`__MINIMUM_BLOCK_SZ` where the code at 820 asks for 0 bytes; the script follows
the code.

## The modules: the other exercises

```
Program --INSTANCE--> Tee  SparseCopy  NullHoles  DeliverWrite  Offsets  Vectored
                      FreeRange  Passwd  Dispatch  ErrorFunctions  DupTest  EnvTest

FileCells <-- EXTENDS -- SparseCopy, NullHoles, Offsets, Vectored
DupContract <-- implements -- Dup <-- EXTENDS -- DupTest
EnvContract <-- implements -- Environment <-- EXTENDS -- EnvTest
ParallelAppend: several executions of run at once
DupProofs, EnvironmentProofs, ParallelAppendProofs, ProgramProofs: the proofs,
each EXTENDS the module in its name
ProgramProofs <-- EXTENDS -- OtherPartsProofs: the proofs about Program's other parts
MCProgram, MCDup, MCEnvironment, MCParallelAppend, MCTee, MCNullHoles, MCOffsets,
MCVectored: the instances TLC checks
```

**Program** is one execution of `run`. `main` picks one exercise and the process
does nothing else, so the program is the sum of its parts: `part` says which one
runs, each part is a module of its own with its own variables, and the variables
of the others are `Unused` as the locals of a function that is not called. The
command line itself (**Dispatch**) and the two helpers of `c/shared`
(**DeliverWrite**, **ErrorFunctions**) are parts too: they are checked for every
caller at once, with any buffer, any number of callers and any calls before,
instead of once for each exercise that calls them. `Init` and `Next` add to each
part what stays as it is (`AtRest`, `Others`); the properties are those of the
parts, each under the condition that its part runs.

What the kernel and the C library do is modelled from how the code uses it and is
external: **FileCells** has a file as a sequence of cells, each a written byte, a
written null or a hole that reads as a null; `PutAt` is a write, `PunchFrom`,
`DataFrom` and `HoleFrom` are what the sparse copy asks for. A system call is
one step wherever something else can happen between two of them.

- **DeliverWrite**: `deliver_write`, one write per step, by several processes on
  one sink. The kernel takes any part of what it is offered, fails, or (with
  `ZeroWrites`) answers 0. `total_written` is the local of that name.
- **Tee**: `chpt4_q1`, one system call per step. The input is 1, 2, 3, ..., so
  that a byte tells its place and a repeated buffer is seen. `Taken` is a write
  that may be short or fail, unnoticed by the code; `whole` remembers that none
  was. A read may fail at any time, and in runs with `broken` always fails.
- **SparseCopy**: `q2_std`, one system call on the source per step, with another
  process appending bytes or holes to the source. The hole at the end is made in
  the two calls of the code (`NoMoreData`, `PunchHole`).
- **NullHoles**: `q2_nulls_into_holes`, one read or one byte of the scan per
  step, with `nonhole_begin`, `inside_hole` and `hole_begin` as in the code.
- **Offsets**: questions 1, 2, 5 and 6 of chapter 5. A program is a script of
  calls, each with what the code does about its failure (`check`). Descriptors
  are numbers of open file descriptions, which hold offset and `O_APPEND`.
- **ParallelAppend**: question 3 of chapter 5 by several processes at once, each
  with or without `O_APPEND`, one system call per step. A byte is
  `<<p, k>>`, the k-th of process p.
- **Dup**: `__dup` and `__dup2`, one fcntl or close per step, while
  `OtherOpens` and `OtherCloses` use the same table. **DupContract** is the
  atomic call. The refinement mapping `atomicTable` hides the moment in which
  `new_fd` is closed: the abstract table still has there what it had before.
  `ContractSpec` holds for every step of `__dup`, and for every step of `__dup2`
  but those behind a step of another thread in the same call (`raced`), where the
  code itself says "this is not done atomically". **DupTest** is `chpt5_q4`,
  started with any set of inherited descriptors.
- **Vectored**: `__writev` and then, after the rewind, `__readv`, called with any
  buffers, one loop iteration per step. `size_t` and `ssize_t` have the width
  given by `SSIZE_MAX`; `strncpy` stops at a zero and pads.
- **Environment**: `__setenv` and `__unsetenv`, one call per step, on the list
  `environ`, whose inherited entries may repeat a name or lack the `=`.
  **EnvContract** is the map that `getenv` shows (`seen`); `ContractSpec` says that
  a list with one well-formed entry per name (`OncePerName`) behaves as that map
  and stays such a list. **EnvTest** is `chpt6_q3` in any environment. (Of the four
  calls with a bad name that the test makes twice, the script makes one each: they
  are one case of the code.)
- **FreeRange**: question 1 of chapter 7: `chpt7_run` reads and checks one
  argument per step, with the `long` of `strtol` cut to an `int`, and `chpt7_q1`
  allocates and frees, one iteration per step.
- **Passwd**: `__getpwnam`, one library call per step, starting with any `errno`
  and any position in the file; and `chpt8_q1`, whose two calls come in either
  order and answer in one static area. That `endpwent` leaves `errno` alone is
  true of glibc and assumed.
- **Dispatch**: `main`, `cmp_chpt`, `cmp_question` and the `chptN_run` functions.
  A word is a prefix and a number, an argument is of one of five kinds.
- **ErrorFunctions**: the functions of `errors.c`, called by a program that
  prints. Steps are: format, flush stdout, write the message, and return or end.
  Any library call may change `errno`; what is in the buffer of stdout is lost in
  `abort` and `_exit` and written in `exit`.

## The runs

| run | shows |
|---|---|
| `malloc` | the code keeps the heap tiled and coalesced, blocks long enough for a header and pointers usable; the links are exact (`NeighbourLinks`, `FreeListSorted`, `LastAllocExact`), the two loops keep their invariants, no step writes into a region in use, every call returns, and the code implements `FirstFit` (`FirstFitSpec`) and so the contract (`ContractSpec`); also when the kernel refuses to move the break: the allocator does not notice, and its own idea of the heap stays consistent until a store faults |
| `chpt7_q2` | the repository's own test reaches each layout it asserts, and its end |
| `parallel_append` | with `O_APPEND` no byte is lost (`NothingLost`); without, the survivors are in place and in order (`OldThenInOrder`), and at least one process's share is there (`AtLeastEachShare`); all processes end |
| `dup` | `__dup` is atomic whatever other threads do, `__dup2` if none interferes (`ContractSpec`); with interference it can answer a number that is not the duplicate's, but only if another thread took that number (`RacedOnly`); a call changes no open descriptor but `new_fd`, which it closes once (`OthersKept`): what another thread opens there after the close stays open, what it opened there just before is closed |
| `environment` | the list implements the map as long as no name is repeated or malformed (`ContractSpec`), and in any case loses or repeats no entry of another name and changes its length as the call should (`EntriesKept`) |
| `program` | one execution of any exercise, from any input and however the kernel answers: the table below |
| `malloc_mapped`, `malloc_overflow`, `tee_broken`, `offsets_size`, `vectored_overflow`, `null_holes_trailing` | the violations below |

| property of `program` | about | shows |
|---|---|---|
| `TeeOutputs` | chapter 4, q1 | bytes are lost only in short or failed writes, none is sent twice, the file is durable at the exit |
| `SparseCopied` | chapter 4, q2 | at every moment the copy equals the beginning of the source, holes included, also while the source grows; a copy that ends has all of it |
| `NullsAreHoles` | chapter 4, q2 | source and destination offsets stay together over buffer boundaries and short reads; nulls become holes and nothing else does |
| `DeliveredOnce` | `deliver_write` | every byte is delivered once and in order, with two callers on one sink |
| `FilesAsWritten` | chapter 5, q1, q2, q5, q6 | if no call fails, the files left behind are those that the calls give with the offsets as `q2.md` and `q6.md` say they are shared, 12 bytes for question 6 (`offsets_size` is about the 11 of `q6.md`); question 2 keeps what was there and the assert of question 5 holds, whatever fails |
| `GatheredAndScattered` | chapter 5, q7 | gathered and scattered bytes are in their places for every short read and write; a zero byte hides what is behind it in its buffer; with no length above `SSIZE_MAX`, too much is refused, and only that (`vectored_overflow` is about a longer one) |
| `RangeFreed` | chapter 7, q1 | accepted arguments free the range asked for, each block once; undefined behaviour comes only from the step |
| `UsersFound` | chapter 8 | NULL with `ENOENT` exactly if the search ended without the name, whatever `errno` was; the two names printed are always one |
| `DispatchedAsTyped` | `run`, `chptN_run` | an exercise runs only as typed; once `main` has found the chapter, a command line that fits the usage texts of chapters 4 and 5, the only ones about arguments, runs. It says nothing of the prefixes themselves |
| `MessagesInOrder` | `errors.c` | messages come out behind what was printed before, with the `errno` of the call, which `errMsg` restores; only `err_exit` loses output |
| `TestsPassAsStarted` | chapter 5, q4; chapter 6, q3 | the two tests pass exactly for the processes they presume (`StartedAsExpected` of `DupTest` and `EnvTest`): the descriptors a shell gives, an environment that holds no other `MY_SWEET` and neither name that is unset twice |
| `Ends` | all parts with a loop | tee ends if reads succeed now and then, `q2_std` if the source stops growing, `deliver_write` if no write of bytes answers 0, and always `q2_nulls_into_holes`, `__writev` and `__readv`, `chpt7_q1`, `__getpwnam`, the way through the arguments and the test of `__dup`. The other parts are scripts of calls without a loop |
| `TypeOK` | all | the types of the part that runs |

The refinement checked by `malloc` is the strongest statement: the *search* must
find the free block of lowest address, although the code only follows links; the
*grow* branch must be taken exactly if the last block of the heap is free, which
the code infers from one NULL; and `__free` must find the right merge although
it only reads two words of the block. Since the client's step happens at the
call or at the return (`held` changes when `__malloc` returns, and when `__free`
is called), the steps inside the loops stutter. `FirstFit` has no run of its own:
what is true of its heap and its contract is checked of the code that implements
it, and proved of both.

**The violations** are disagreements between the code and what the repository
says of it. Each run checks that one statement.

1. `malloc_mapped`: `__safe_sbrk` (`chpt7/q2.c` 14-18) compares the answer of
   `sbrk` with NULL, but `sbrk` answers `(void *) -1` on failure. The
   `return NULL` is dead, `program_break` advances anyway, and `__malloc` writes a
   header beyond the break, or (when the last block grows, or when the header
   itself still fits on a mapped page) returns a pointer whose bytes are not all
   mapped.
2. `malloc_overflow`: `real_size` (126) is computed in `size_t`: for a size within
   a header of `SIZE_MAX` it wraps, and the new block has no room for a header,
   against the note at 95. The other runs of the allocator ask for no such size,
   and the proofs have `NoOverflow` as a hypothesis.
3. `tee_broken`: `read` answering -1 does not end the loop (`chpt4/q1.c` 24), so
   the error check behind it is dead and a broken standard input spins forever.
4. `offsets_size`: question 6 of chapter 5 leaves 12 bytes, `q6.md` 6-9 say 11: the
   write of "world" (`chpt5/q6.c` 14) includes its terminating zero.
5. `vectored_overflow`: one `iov_len` beyond `SSIZE_MAX` makes the unsigned
   difference of `chpt5/q7.c` 84 wrap, so the branch commented "Sum of iov_len
   overflows ssize_t" (85) is not taken. `malloc` is asked for the negative sum and
   fails, and the process dies where `EINVAL` was meant.
6. `null_holes_trailing`: nulls at the end of the source are not in the copy,
   since the offset is moved only when a later byte is found (`chpt4/q2.c` 163).

Noted while modelling, read from the code and without a run of their own:

- A write that answers 0 ends `deliver_write` as if all had been delivered
  (`shared/utils.c` 44), against `utils.h` 17. The kernel answers so only for some
  special files; `ZeroWrites` turns it on.
- `__unsetenv` deletes the first of two entries of the name and leaves the second
  (`chpt6/q3.c` 120); `TestsPassAsStarted` shows the test fail for it.
- Chapter 7, question 1: a large step overflows the index (`q1.c` 31), the state
  `"undefined"` that `RangeFreed` allows for that step only; one block without
  further arguments is refused although the usage text allows it (`chpt7.c` 35); a
  number beyond `int` is accepted as what is left of it (`chpt7.c` 17).
- The prefix `chapter` is never tried (`run.c` 33).

### Bounds

The allocator:

- Headers are 2 bytes in `malloc` instead of 40, so that a block
  can be too long for a request by nothing, by less than a header, by exactly a
  header and by more: the four cases of the split decision. The sizes 0, 1 and 3
  give all of them. `chpt7_q2` uses the real 40.
- `MaxBreak` bounds the heap: `Requestable` admits only requests that are served
  by a free block or leave the break at or below it. With 15 bytes (13 in
  the violations) up to seven blocks exist at once, which is
  enough for two free blocks with walls of two allocated blocks between them, a
  free block at either end or both, and a double merge between two others. A
  request that is too large for every block is then one that the bound admits or
  not; requests that are huge without overflowing are outside the bound, and the
  code treats them as it treats any other that fits nowhere.
- `SbrkLimit` is where the kernel stops. `malloc` and `malloc_mapped` put it in the
  middle: `sbrk` fails from there on, and a store beyond it faults or succeeds. Since
  the code goes on in the same way after a failure, nothing is lost: each execution
  without a failure is in this run, with a smaller break in the kernel only.
- `SIZE_MAX` is 15 instead of 2^64 - 1: only its relation to the sizes matters.
- The heap starts at 1, since 0 is NULL. `chpt7_q2` is checked for three starts.

The other exercises:

- Buffers of 4096 bytes are 2 bytes long (3 in `null_holes_trailing`) and files up
  to 4: two full buffers, a short last one, and holes or runs of nulls that end
  before, at and behind a buffer's end. `Content` has two bytes besides the null,
  so that two neighbours can be told apart. `Growth` is one: an append matters at
  one point of the copy.
- `DeliverWrite`: two callers, up to 4 bytes, which a write may split in any way.
- `parallel_append`: three processes with two bytes each and one old byte. Two
  bytes make a process lose, overwrite and go on; the third process can append
  between the seek and the write of either of the others.
- `Offsets`: the text of question 2 is 3 bytes instead of 39, `random_offset` is 7
  instead of 758194654, the offset of question 1 up to 4. The file at the start
  is missing, empty, shorter than what is written, or longer with a hole in it.
- `dup`: descriptors 0 to 3, so that F_DUPFD can find `new_fd` taken with and
  without a free number above it; three files tell new_fd's old one, its new one
  and another thread's apart. Arguments reach from -1 to one beyond the limit.
  `DupTest` has ten descriptors, as the numbers in its asserts need.
- `Vectored`: three buffers of up to two bytes with `SSIZE_MAX` 3 and
  `UIO_MAXIOV` 2, so that both limits are met, passed and exceeded by one. Its
  `ConstantsOK` keeps out sums of lengths that wrap to a small buffer, whose
  overflow has no defined outcome; a length beyond `SSIZE_MAX` is in for a single
  buffer only, and `vectored_overflow` has one of up to five bytes.
- `environment`: up to three inherited entries, three names. An unset needs an
  entry before, at and behind the one that goes, and two of the same name.
  `EnvTest` has the five names of the test and two inherited entries.
- `FreeRange`: `INT_MAX` 7, `LONG_MAX` 31 and `Q1_MAX_NUM_ALLOCS` 4; `Typed` has
  the values around each limit and two whose value as `long` or `int` is
  another one (18 becomes 2).
- `Passwd`: three users at most, of three names, repeated names included.
- `Dispatch`: every chapter and question and neighbours of them; up to three
  arguments of five kinds. `ErrorFunctions`: two lines and two messages.
- No symmetry is used.

### Fairness and deadlock

`Malloc!Spec` assumes weak fairness of `Continue`: a call that has started keeps
running. The process is single-threaded and no statement of it blocks, so the
scheduler of any Linux runs it again; nothing is assumed about the client, which
need not ever call. `MallocTest!TestSpec` assumes it of the whole test, whose
client is straight-line code. `ParallelAppend` assumes weak fairness of each process's next step, and
`Program!Spec` of the next step of the part that runs (`Running`) and of each
caller of `deliver_write` (`Delivers`), for the same reason. A call may fail
at any time but need not: no fairness is assumed of failures alone, and a process
that dies of one has ended. The process that appends to a source is not fair, and bounded.

`Tee`, and `Program` for it (`TeeReads`), also assume strong fairness of a read
that succeeds. Weak fairness of the process alone would allow every read to fail;
strong fairness says that a standard input that is not broken sooner or later
answers. For a broken one those actions are never enabled, so nothing is assumed
of it, and `tee_broken` is a counterexample under this fairness.

Deadlock is not checked: all specifications describe programs that end, or, in
`malloc`, `dup` and `environment`, a process that one of the calls may end. That
none is stuck in the middle is what the liveness properties say.

## The proofs

Eight modules hold theorems and lemmas; one of them, `MallocLinks`, is the larger
half of the proof about the allocator's code, and holds lemmas only. What is proved
holds for every value of the constants that the named assumptions admit: the bounds
of TLC (`MaxBreak`, `MaxSize`, `MaxBytes`, `MaxPrints` and so on) are constants like
any other, and no proof uses that they are small.

The invariants that the proofs need were first checked by TLC on the instances of
the runs, and each proof has the same shape: the invariant holds at the start, one
lemma per action shows that the action preserves it, and what the run checks
follows from it. A name like `Invariance` is the theorem of that name in the
module under whose heading it stands.

**The allocator.** The chain is `Malloc` implements `FirstFit` implements
`AllocContract`.

`FirstFitProofs` is about the algorithm:

- `Invariance`: `IInv` is the conjunction of `TypeOK`, `Tiling`, `Coalesced` and
  `HeldUsable`. None of the four is inductive alone. `Free` merges the blocks
  from `s` to `e` into one: that the length stays the distance between two headers,
  and no block is swallowed unseen, is `Tiling`; that there is at most one free
  block on each side is `Tiling` again (two blocks with the same end are one,
  lemma `EndUnique`); that the merged block has no free neighbour left is
  `Coalesced`; and that a client's block is never the one swallowed is
  `HeldUsable`, which says that the pointer is still the body of a block.
- the parts as theorems of their own (`TypeCorrect`, `HeapTiled`,
  `AlwaysCoalesced`, `AlwaysUsable`) and `AlwaysMinimum`, that no block is
  shorter than a header. The latter is the property that `malloc_overflow`
  violates: together they say that the overflow is the only cause.
- `KeepsContract`: the refinement `Spec => ContractSpec`, by the invariant.

`MallocLinks` and `MallocProofs` are about the code of `q2.c`:

- `Invariance`: `IInv` has, besides the four above, the links (`Links`), the order
  of the free list (`Sorted`), `LastAllocExact`, what the two loops have passed
  (`SearchInv`, `WalkInv`) and that a loop that does not run keeps no pointer
  (`LocalsReset`). The parts need each other: a merge unlinks a block from the list
  through words that `Sorted` says are right, decides on it through words that
  `Links` says are right, and those are words of the same header, since the structs
  overlap. `Sorted` needs that the walk of `__free` has ended beside the block
  (`WalkInv`); that a block behind the last one in the list is the last of the heap
  needs `Links`; and that the heap may grow from its end needs `LastAllocExact`.
  `Links` and `Sorted` state `NeighbourLinks` and `FreeListSorted` link by link,
  which is how the actions change them; `LinksMeaning` and `SortedMeaning` say that
  it is the same.
- `LinksExact`, `ListSorted`, `LastAllocKnown`, `SearchMissesNothing`,
  `WalkMissesNothing`, `TypeCorrect`, `CodeTiled`, `CodeCoalesced`, `CodeUsable`,
  `CodeMinimumSize` and the action property
  `OnlyHeadersWritten` (no step writes into a region the client holds) follow.
- `ImplementsFirstFit`: every step is one of `FirstFit` or a stutter. The argument
  is in `SearchInv` (what the search has passed is too small, so the block it takes
  is the first that fits; what it has not found does not exist) and in `Links` (the
  words that `__free` reads name the free neighbours that `FirstFit!Free` sees). It
  holds also when `sbrk` fails, since the allocator does not notice that.
- `CodeKeepsContract`: by the refinement and `FirstFitProofs!KeepsContract`, a
  client of the code has its regions for itself.
- `MappedUnlessSbrkFails`: where the kernel lets the break go as far as requests
  push it, it stays where the allocator believes it to be, so every byte a client
  holds is mapped and no store faults. With `malloc_mapped` this says that a failing
  `sbrk` is the only cause.

The assumptions are those that `Heap` and `Malloc` name (`HeaderAssumption`,
`HeapStartsAssumption`, `SizesAssumption`, `MaxBreakAssumption`,
`SbrkLimitAssumption`) and that no request overflows: `NoOverflow` is a hypothesis
of each theorem about `FirstFit` and `Malloc`, and `malloc_overflow` is an instance
without it. The bound `Requestable` of TLC is used
in `MappedUnlessSbrkFails` only.

**`__dup` and `__dup2`** (`DupProofs`). `IInv` says where a call is (`Progress`),
that what it has checked is still so unless another thread acted (`Checked`), and
that a descriptor is missing only between the close of `new_fd` and its use
(`LostOnly`), which is what the refinement mapping `atomicTable` hides. From it
follow `AlwaysRacedOnly`, `AlwaysOthersKept` and the refinement `KeepsContract`,
for any number of descriptors and any files but the two values that the model uses
as marks (`FilesAssumption`).

**The append race** (`ParallelAppendProofs`). `IInv` relates each process's counter
to the places of its bytes in the file (`OffsetBounds`, `OwnBytes`, `InOrder`): a
process that seeks writes nowhere but into or at the end of the file, and its own
bytes lie before its offset. It gives `AppendLosesNothing`, `SurvivorsInOrder` and
`RaceLosesAtMost` for any number of processes and bytes, and a property that the run
does not check, `AppendersOverwriteNothing`: in a mixed run, a byte is overwritten
only by a process that seeks.

**The environment** (`EnvironmentProofs`). `TypeCorrect` is inductive;
`AlwaysEntriesKept` and the refinement `KeepsContract` are about single steps, and
rest on what moving the last entry into a gap does to a list (`WithoutFacts`).
`WellFormedNeverCrashes`: the crash of `__unsetenv` in an entry without `=` needs
an environment that was inherited so.

**Parts of `Program`** (`ProgramProofs`). `PartsInv` has an invariant for each of
seven parts, under the condition that the part runs; `StartsInPart` and `StaysInPart`
reduce the steps of `Program` to those of the part. The invariants add to what the
run checks what makes it inductive:

- `TeeInv`: how far each of the two outputs has got, byte for byte (`GotThrough`),
  at every point between the read and the second write.
- `SparseInv`: where the destination ends and what kind of region each offset is
  in, also between the two calls that make the hole at the end. The end of a
  region is a minimum over a set, so the lemmas on `SEEK_DATA` and `SEEK_HOLE` need
  a least element (`LeastNat`).
- `NullsInv`: between the end of the destination and its offset the source has
  nulls only, and from there to the byte that is scanned it has nulls only or none,
  as `inside_hole` says; across the border of a buffer, too.
- `UsersInv`: no user before the cursor has the name.
- `DeliverInv`: what has come from each process is the beginning of its buffer, and
  `total_written` is its length.
- `RangeInv`: the blocks that are left (`LeftBefore`), and that the index stays in
  step with the first block. It rests on elementary facts about `%`
  (`Remainder`, `NextMultiple`).
- `ErrorsInv`: the lines that are out and those in the buffer are together those
  that were printed, and the `errno` of the call is kept until it is shown and
  restored.

`TeeCopies`, `SparseCopyExact`, `NullsBecomeHoles`, `LookupsAnswer`,
`OnlyRangeFreed` and `OutputBeforeMessages` are the properties of the run.
`DeliveryComplete` is `DeliveredOnce` for `ZeroWrites` FALSE, and
`DeliveryInOrder` is the half of it that holds also if a write answers 0: what is
lost then is the end of the buffer, never its order. `PartsTyped` has the types of
these parts; they need the invariants (an offset stays in range because of what lies
before it) and, of `sparse_copy`, facts about the ends of regions.

**The other parts of `Program`** (`OtherPartsProofs`, in the same way):

- `DupInv`, the test of `__dup` and `__dup2`: which descriptors are open before each
  of its eleven calls (`TableBefore`), and what the asserts passed so far tell about
  the descriptors that the process inherited (`ShownBefore`). It gives both
  directions of `TestsPassAsStarted`: the test aborts only in a process that it does
  not presume, and comes to its end only in one that it does.
- `EnvInv`, the same for `__setenv` and `__unsetenv`: what is still as inherited
  before each of the ten calls (`KeptBefore`, `EnvShownBefore`), for any list
  `environ`. The last entry moves into every gap, so a name that no call is about
  may change its place, but not how often it occurs. Only an `ENOMEM` makes the
  test abort in a process that it presumes. Both are `TestsPassOnlyAsStarted`.
- `DispatchInv`: `filepath` is the first argument that is no option
  (`FirstOperand`) as far as the loop over the arguments has come, and the words
  that chose chapter and question are those typed. `ExercisesRunAsTyped`.
- `OffsetsInv`: the file, its open descriptions and their offsets before each call
  of the four scripts (`State1`, `State2`, `State5`, `State6`), for each outcome of
  the calls before; of question 6, for every one in which no call failed.
  `FilesLeftAsWritten`, and with it that the asserts of question 5 hold.
- `VectoredInv`: `moved` is the sum of the lengths of the buffers that are done
  (`Up`, `VectoredSum`), the temporary buffer holds those buffers end to end up to
  there (`VectoredGather`), the file holds a prefix of them (`VectoredFile`), and
  `__readv` has filled its buffers up to `moved` and nothing behind
  (`VectoredScatter`); a zero in the data may hide what follows it in its buffer,
  as `strncpy` does. `BytesKeepTheirPlaces` is `GatheredAndScattered`.

`OtherPartsInvariance` has the first four for `Program`. `TypesCorrect` collects the
types of all twelve parts: `Program!TypeOK`. It and `BytesKeepTheirPlaces` have the
hypothesis `MaxLen <= SSIZE_MAX`, and it cannot be dropped: `vectored_overflow` is
an instance without it, in which `RefusedExactly` is violated.

The assumption is `ConstantsAssumption`, which collects the `ConstantsOK` of the
parts. They ask for what the exercises presume: that the descriptors 0 to 8, which
the test of `__dup` asserts on, exist (`MaxFd >= 8`); that no file is one of the
marks for a closed descriptor; that the five names of the other test are five; that
no argument is `NoText`, the empty `filepath`; and that sums of lengths do not wrap
to a smaller buffer.

Where one would use induction, the proofs use that a nonempty set of numbers has a
least element (`LeastNat`), which follows from the library's statement that `<` is
well-founded and takes no operator: the least index at which a claim fails is
refuted. That is how what `FlattenSeq` puts end to end is known, and how the
partial sums of lengths are. `Dispatch` picks its operands by a set of indices
(`Operands`), as `DeliverWrite` and `ErrorFunctions` pick bytes and lines: the
prover has no definition of `SelectSeq`.

**Only model-checked:**

- Liveness (`CallsReturn`, `AllEnd`, `Exits`, `Ends`): TLAPS proves nothing about
  fairness or ENABLED.
- `AsAsserted` of `MallocTest`: one fixed script of 36 calls with the one size of a
  header that the build has, 40 bytes. There is nothing to generalise but the start
  of the heap, and TLC visits every execution for three of those; a proof would
  unroll the same script by hand. What the calls rest on is proved of `FirstFit`
  and `Malloc`.
- `ReadErrorEnds` and the other violated properties, whose counterexamples are
  the point.

## What is not modelled

- **Allocator**: the bytes of the bodies (the properties are about which bytes
  belong to whom), the printing in `debug1`, `debug2` and `debug5`, the statements
  of the test that write into bodies, and pages: whether a store just beyond the
  break faults is a choice between `SegFault` and the normal action. A double
  `__free`, or one of a pointer that did not come from `__malloc`, is not a legal
  call.
- **longjmp** (`c/chpt6/q2.c`): the program jumps into a frame that has returned.
  Its behaviour is undefined from there on, and the repository expects no more of
  it than that ("Should segfault!"), so there is nothing to check.
- **Build files** and the virtual machine; `c/chpt3/q1.md` is prose.
- Memory that is not freed on an error path (`chpt5/q7.c` 105 and 138), pointers
  that a client keeps over `__setenv` (`chpt6/q3.c` 94, where the code itself warns
  that they are outdated), a copy of a file onto itself (`chpt4/q2.c` 42), and the
  assert of question 5 that compares the flags of `fd` with themselves
  (`chpt5/q5.c` 27). Hazards without a property carry the reason in `PROJECT.json`.
- A file that two programs of different questions use at the same time, signals
  (no program installs a handler; an interrupted call is a failed one), and
  crashes of the machine: nothing in the code recovers from one, and the fsync of
  `tee` is checked as the point at which the file is durable.
- The texts that are printed, the table of error names in `errors.c` among them.

## Plan

1. *(done)* `AllocContract`, `Heap`, `FirstFit`, `Malloc`, `MallocTest` and
   `FirstFitProofs`.
2. *(done)* The exercises of chapters 4 to 8, the dispatch and the shared
   functions, with the contracts of `Dup` and `Environment`, composed in `Program`.
3. *(done)* Proofs of the allocator's code (`MallocProofs`), of `Dup`,
   `Environment` and `ParallelAppend`, and of seven parts of `Program`
   (`ProgramProofs`).
4. *(done)* Proofs of the parts that were left (`OtherPartsProofs`): `DupTest` and
   `EnvTest` pass exactly in the processes they presume, the scripts of `Offsets`
   leave the files that the answers explain, the dispatch, `Vectored`, and
   `Program!TypeOK`. The asserts of `MallocTest` stay with TLC, for the reason above.
