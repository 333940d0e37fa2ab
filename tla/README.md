# A TLA+ model of the xv6-riscv kernel

The modules in this directory model the kernel under `src/xv6-riscv/kernel/` and
the user programs that everything else stands on (`sh`, `init`, `malloc()`,
`grep`, the C library). TLC checks them on small instances. TLAPS proves, for
every value of the constants, the safety properties of the process table, the
buffer cache, the log and the pipe, that the log implements an atomic disk and the
pipe a bounded queue, and that the reference counts of inodes and files are exact.
`PROJECT.json` maps every definition to the lines it stands for. Paths below are
relative to `src/xv6-riscv/`.

The scheduler in this tree is the stock round robin of xv6: `scheduler()` in
`kernel/proc.c` has no other policy, and it is the one modelled.

## The system

| part | state | operations that change it | works with |
|---|---|---|---|
| processes (`proc.c`, `trap.c`) | `proc[NPROC]` (state, chan, killed, pid, parent, lock), `wait_lock`, `nextpid`, `c->proc` | `scheduler` `sched` `yield` `forkret` `fork` `exit` `reparent` `wait` `sleep` `wakeup` `kill` `setkilled` | everything that sleeps |
| spin locks (`spinlock.c`) | `locked`, `cpu`, `noff`, `intena` | `acquire` `release` `push_off` `pop_off` | everything |
| sleep locks (`sleeplock.c`) | `locked`, `pid` | `acquiresleep` `releasesleep` | buffers, inodes |
| buffer cache (`bio.c`) | `refcnt`, `valid`, LRU list | `bget` `bread` `bwrite` `brelse` `bpin` `bunpin` | log, disk driver |
| log (`log.c`) | `log.lh`, `outstanding`, `committing`; header and log blocks on disk | `begin_op` `log_write` `end_op` `commit` `recover_from_log` | buffer cache, every FS call |
| disk driver (`virtio_disk.c`) | descriptors, avail and used rings, `b->disk` | `virtio_disk_rw` `virtio_disk_intr` | buffer cache, device |
| inodes (`fs.c`) | `itable`, dinodes, bitmap | `ialloc` `iget` `ilock` `iput` `itrunc` `bmap` `balloc` `bfree` `readi` `writei` | log |
| directories (`fs.c`, `sysfile.c`) | entries, `nlink` | `dirlink` `namex` `create` `sys_link` `sys_unlink` | inodes, log |
| files (`file.c`, `sysfile.c`) | `ftable`, `ofile[]` | `filealloc` `filedup` `fileclose` `fdalloc` `sys_open` `sys_pipe` | pipes, inodes |
| pipes (`pipe.c`) | `data`, `nread`, `nwrite`, `readopen`, `writeopen` | `pipealloc` `pipewrite` `piperead` `pipeclose` | files, `sleep`/`wakeup` |
| console and UART (`console.c`, `uart.c`) | `cons.r/w/e`, `uart_tx_r/w` | `consoleread` `consoleintr` `uartputc` `uartstart` `uartintr` | interrupts |
| memory (`kalloc.c`, `vm.c`, `exec.c`) | free list, page tables | `kalloc` `kfree` `uvmalloc` `uvmcopy` `uvmunmap` `exec` | `fork`, `exec`, `sbrk` |
| clock (`trap.c`, `sysproc.c`) | `ticks` | `clockintr` `sys_sleep` | `sleep`/`wakeup` |
| shell, init (`user/sh.c`, `user/init.c`) | processes, descriptors | `parsecmd` `runcmd` `main` | `fork` `exec` `wait` `pipe` |
| user heap, `grep`, strings (`user/`, `string.c`) | free list; a line buffer; none | `malloc` `free` `morecore`; `match` `grep`; `memmove` `strncpy` ... | `sbrk`, `read` |

What is hard in it:

* **Hand-over of a lock across a context switch.** `yield()`, `sleep()` and
  `exit()` take `p->lock`, change `p->state` and switch away with the lock held;
  `scheduler()`, on the same CPU but another stack, releases it. In the window
  another CPU must not run, free or reuse the process.
* **Sleep and wakeup.** A `wakeup()` between the test of a condition and the
  `sleep()` must not be lost; `wait()` tests with `wait_lock`, not with its own
  `p->lock`.
* **The process tree changes under everybody.** Parents exit while children
  exit, and `fork()` publishes a child in three critical sections.
* **Crash at any block write** of commit and of recovery.
* **Bounded resources**: the log, the process table, pipes, buffers,
  descriptors; counters that wrap.
* **Interrupts**: a handler runs on top of a thread that may hold the lock the
  handler wants; a completion arrives before its thread sleeps, or while the
  handler is in its loop.
* **Names under concurrency**: `namex()` locks one directory at a time, so what
  was looked up may be unlinked, freed or reused before it is locked.
* **Failure in the middle**: `kalloc()`, `balloc()`, `filealloc()`, `copyin()`
  fail between two steps of a call, which then undoes the first ones.

## Modules

| module | models |
|---|---|
| `Proc` | process table, scheduler, `fork`/`exit`/`wait`/`kill`, `usertrap()` |
| `AtomicDisk` | what the log promises: a crash falls back to a moment with no operation under way |
| `Log` | `log.c` over a disk that can stop, or tear a block, at any step |
| `DiskService` | what `virtio_disk_rw()` promises its caller |
| `VirtioDisk` | `virtio_disk.c` and the device |
| `Bio` | `bio.c` and `sleeplock.c`, over a disk as `DiskService` describes it |
| `Fifo` | what a pipe promises |
| `Pipe` | `pipe.c` with several readers and writers, close and kill |
| `Console`, `Uart` | input through `console.c`, output through `uart.c` |
| `Clock` | `sys_sleep()`, `clockintr()` and `spinlock.c` under timer interrupts |
| `Fs` | inode table, directories, path names, open files: `fs.c`, `file.c`, `sysfile.c` |
| `FileData` | block allocator and content of files: `fs.c`, `fileread()`, `filewrite()` |
| `Memory` | `kalloc.c`, page tables of `vm.c`, `exec()`, memory in `fork()`, `sbrk()`, `wait()` |
| `Shell`, `Heap`, `Grep`, `Strings` | `sh.c` and `init.c`, `umalloc.c`, `grep.c`, `string.c` and `ulib.c` |
| `ProcSteps`, `ProcProofs` | the inductive invariant of `Proc` and that its steps keep it; the theorems |
| `LogSteps`, `LogProofs` | the same for `Log`, with the refinement of `AtomicDisk` |
| `FsSteps`, `FsProofs` | the same for the reference counts and locks of `Fs` |
| `BioProofs`, `PipeProofs` | inductive invariant, steps and theorems for `Bio` and for `Pipe`, with the refinement of `Fifo` |
| `MCProc`, `MCLog`, `MCFs` | model values, symmetry, the calls to make |
| `MCStorage`, `MCStreams`, `MCCalls` | several components in one run: `part` says which one is explored, the others stand still |

How they fit together. Each layer is modelled over what the layer below promises.
`VirtioDisk` implements `DiskService`; `Bio` uses the disk as `DiskService` has it;
`Log` uses buffers as `Bio` keeps them (`bread()` returns the last content, a pinned
buffer stays); `Fs` and `FileData` use transactions as `AtomicDisk` has them, without
crash. `Pipe`, `Console`, `Uart`, `Clock`, `VirtioDisk` and `Bio` take `sleep()` and
`wakeup()` on a condition that is guarded by one spin lock as one step each; that
the two locks of `sleep()` make this right is what `Proc` shows, for `wait()`.

### Proc

A step is one critical section, or one iteration of a loop over `proc[]`. A lock
held from one step to the next is a variable that names its CPU, as `lk->cpu`
does: `plock[p]` across `swtch()`, `wait_lock` in `exit()` and `wait()`. Locks
taken and released inside a step (`pid_lock`, `p->lock` of the scanned slot)
appear as a guard: the lock must be free.

| variable | code |
|---|---|
| `state` `chan` `killed` `pid` `parent` | the fields of `struct proc` |
| `cproc`, `cpc`, `ci` | `c->proc`; whether the CPU is in `scheduler()`, in a thread, or has just switched back; the scan position |
| `pc`, `back` | where the kernel thread stands; where it goes on after `sched()` |
| `i`, `j`, `kids`, `arg` | locals of the system calls |

| action | code |
|---|---|
| `Scheduler`, `SchedulerBack` | `scheduler()` before and after `swtch()` |
| `sched`, `Resume`, `forkret` | `sched()` with its panics; its return into `yield()`, `sleep()`, `exit()`; the first return of a child |
| `kerneltrap`, `Timer`, `UserRet` | `yield()` from a timer interrupt in kernel code, in user code; the end of `usertrap()` |
| `Syscall`, `Fault` | `usertrap()` on `ecall` and on anything unexpected |
| `ForkAlloc`, `ForkParent`, `ForkRun` | the three critical sections of `fork()`, with the failures of `allocproc()` and `uvmcopy()` |
| `WaitLock`, `WaitScan`, `WaitCheck`, `SleepLock`, `Sleep` | `wait()` and the `sleep()` it ends in |
| `Exit`, `Reparent`, `WakeupInit`, `WakeupParent`, `Zombie` | `exit()` with `reparent()` and both `wakeup()`s |
| `Kill` | one slot of `kill()` |

Abstractions. The user program is a choice among the system calls; those that
leave the process table alone are one step. `init` behaves as `user/init.c` does:
it calls `fork()` and `wait()` with a null address, and makes no `kill()`. Its
`exit(1)` after a failed `fork()` or `wait()` is in `Shell`, not here; it ends in the
panic "init exiting", which stops the machine and which `kill(1)` reaches anyway.
That panic has a label of its own, so that `NoPanic` excuses nobody. The
files that `exit()` closes before `acquire(&wait_lock)`, and sleeping inside
other system calls, do not touch the process table and are left out, so
`sleep()` is modelled with `wait_lock` only. A loop over the table skips no slot:
one that waits for a spin lock waits in that slot.

### Log and AtomicDisk

`home`, `logblock` and `head` are on disk, all else is memory. `cache` is what
`bread()` returns and `pins` the references of `bpin()`. Every block that
`commit()` or `recover_from_log()` writes is a step of its own (`write_log`,
`write_head`, `install_trans`, `clear_head`); `Crash` is enabled always and may
leave anything in the data block that was being written (`Torn`). The header is
written whole: its contents fit in one sector of the device. `log.lock` is held
only within steps. Modifying a buffer and `log_write()` is one step because the
buffer's sleep lock is held in between. An operation writes at most
`MAXOPBLOCKS` blocks, as its callers promise.

The refinement mapping takes `durable` to `Durable`, the disk as recovery would
make it now, and `view` to `cache`, or to `Durable` until recovery is through.

### Pipe and Fifo

One step is one turn of a loop, with `pi->lock` held from step to step.
`sleep(&pi->nread, &pi->lock)` gives up the lock and sleeps in one step, since
every `wakeup()` on the pipe is made with the lock held; `kill()` does not take
it, and may fall between the test of `killed` and the sleep. `copyin()` and
`copyout()` may fail. The abstract queue is read off the ring buffer:
`Queue[k] = data[(nread + k - 1) % PIPESIZE]` for `k` up to
`(nwrite - nread) % Uint`. `freed` says that `pipeclose()` has given the page back.
The model begins after a `pipealloc()` that has succeeded; its failure touches no
pipe and is left out.

### VirtioDisk and DiskService

Threads call `virtio_disk_rw()`; the device takes chains from the avail ring,
works on several at once, and completes them in any order (external: modelled
from how the driver uses it). `vdisk_lock` is free between steps except while
`virtio_disk_intr()` is in its loop, and there the device may add completions.
Descriptors are chosen by `alloc_desc()` lowest first, as the code does, and
given back one by one when the third is missing. `free_chain()` follows the NEXT
flags and stops at the panics of `free_desc()`. The ring indices wrap at `Uint16`.
The refinement mapping takes a request to "done" when the device has
transferred it.

### Bio

One step per critical section of `bcache.lock` or of a sleep lock's spin lock,
and one for the disk. `mru` is the list; `bget()` recycles from its end. Clients
hold a buffer, change and `bwrite()` it, pin it as `log_write()` does, and write
a pinned one back as `install_trans()` does. When all buffers are in use
`bget()` panics, and the model stops there.

### Console and Uart

Every kind of key reaches `consoleintr()`: text, both line ends, ^D, ^U,
backspace, ^P and NUL. `consoleread()` is one turn of its loop per step, with
`copyout()` failing and `kill()` at any time. In `Uart` the transmit register of the
device is `fifo`; it is sent off, becomes idle and interrupts. `uartstart()` tests
for idle in one step and writes in another, with `uart_tx_lock` held;
`uartputc_sync()`, which takes no lock, may write the kernel's own bytes between the
two, and its own test and write are two steps as well. `consolewrite()` stops early
when its `copyin()` fails.

### Clock

`acquire()`, `release()`, `push_off()` and `pop_off()` are sequences of single
steps, run by a thread or by a handler on top of it; the timer may interrupt
between any two while `sie` is set, also between the `intr_get()` of `push_off()`,
which is kept in `old`, and its `intr_off()`. `sys_sleep()` goes through `killed()`
and through the steps of `sleep()` with `p->lock`. A thread keeps its CPU here: what
`sched()`, and `yield()` after the interrupt, do is the subject of `Proc`. `ticks`
starts at its largest value; `elapsed` counts the ticks since a call began beyond
the wrap and is not in the code.

### Fs

A step ends where an inode's lock is waited for or where `itable.lock` is let go
with a changed count; `namex()` thus takes several steps per path element, and
`iput()` three when it frees. The calls are open, create, mkdir, mknod, link,
unlink, chdir, dup, close. `filealloc()`, `fdalloc()`, `ialloc()` and `dirlink()`
fail when the table or the disk is full; a `dirlink()` that finds its name taken
has an inode to `iput()` while `dp` is locked. `odd` records two things that the code
allows and that some properties therefore except: "stray", an entry made in a
directory that has been removed, and "reused", an `ialloc()` of an inode to
which an `iput()` still refers.

### FileData

A step is a critical section of `ip->lock`, in `filewrite()` one transaction of
its loop. `data` is the cache, `home` what has been logged: `writei()` that stops
in `either_copyin()` has changed the buffer and not logged it. The sum that `readi()`
and `writei()` test for overflow is taken modulo `Uint`. Each inode has one open
file, so two offsets into the same file are left out.

### Memory

A page table maps places of its three-level tree to physical pages. `kalloc()`
is a step, so calls of two processes interleave at each, and each may find the
list empty; what the call then undoes (`uvmdealloc()`, `uvmunmap()`,
`freewalk()`, `freeproc()`) follows the code, panics included. `kfree()` fills a
page with junk and `kalloc()` with other junk. `sys_exec()` takes a page per
argument and frees them all however it ends; it and `exec()` may fail for a bad
argument, a missing file, a bad header, or a segment that cannot be read. A segment
has bytes from the file up to one place and zeroes up to another.

### Shell, Heap, Grep, Strings

`Shell` parses sequences of tokens by the recursive descent of `sh.c` and runs
the command as the system calls of concurrent processes, with descriptors and
pipes; `fork()`, `exec()`, `open()` and `pipe()` may fail, and init exits, which stops
the machine, when its `fork()` or `wait()` does. Programs are `cat` as `user/cat.c` has
it, which copies its input until it ends or its output breaks, `cat` of a file, and
programs that do neither. `Heap` counts in units of `Header`; the program's own `sbrk()` may come
between two calls of `morecore()`. `Grep` and `Strings` are recursive operators,
compared with definitions that do not follow the code: sets of positions for
patterns and paths, the value of the digits for numbers. These two keep single
characters, since the places of the characters are what the loops compute.

## What TLC checks

| run | instance | shows |
|---|---|---|
| `proc_safety` (`MCProc.cfg`) | 3 slots, 2 CPUs, pids up to 4, `kill(1)` | `OneCpu` `NoPanic` `FreedOffStack` `ParentAlive` `NoLostWakeup` `LockOrder` `ReapedByParent` |
| `proc_progress` (`MCProcProgress.cfg`) | 3 slots, 1 CPU, `FairSpec` | `OrphanReaped`: a zombie of init's, orphans included, is freed; `RunnableRuns`: the scheduler gets to every runnable process |
| `proc_kill_race` | `kill(2)` | violated: `KilledAwake` |
| `proc_kill_free_slot` | `kill(0)` | violated: `FreshUnkilled` |
| `log_crash` (`MCLog.cfg`) | 3 threads, 3 blocks, 2 contents, operations of 2 blocks | `CacheClean` `QuiescentDurable` `SleeperHasWaker`, and `Atomic`: `Log` implements `AtomicDisk` |
| `log_limit` (`MCLogLimit.cfg`) | 3 threads, 2 blocks, 2 contents, operations of 1 block, log of 3 blocks with its header, `FairSpec` | `SpaceReserved`, `Atomic` with a full log, `SleeperWoken` |
| `log_full` | the same with 3 blocks, operations within their limit | violated: `AdmittedFits` |
| `storage` (`MCStorage.cfg`) | disk: 3 threads, 7 descriptors, indices modulo 7, failing requests; cache: 2 threads, 2 buffers, 3 blocks, 1 pin | `RequestServed`: `VirtioDisk` implements `DiskService`; `DescriptorsOwned` `CompletionNoticed` `BufferHeld` `CacheCoherent` |
| `streams` (`MCStreams.cfg`) | pipe: 2 writers and a reader or the other way round, `PIPESIZE` 2, counters modulo 4; console: 2 readers, buffer 2, indices modulo 4; UART: 2 writers, ring 2, indices modulo 4; clock: 2 CPUs, ticks modulo 3, `sleep(-1)`, `sleep(0)` and `sleep(1)` | `FifoOrder`: `Pipe` implements `Fifo`; `SleepersWait` `CommittedKept` `OutputInOrder` `TerminalMoves` `InterruptSafe` `SleepExact` |
| `calls` (`MCCalls.cfg`) | names: 2 processes, 3 inodes, 2 names, 1 file, 4 calls; data: 2 files, 4 blocks of 2 bytes, 1 direct and 2 indirect; memory: 3 processes, 20 pages, 3 calls; shell: 5 lines; heap: 11 units; grep: patterns up to 4, texts up to 3, files up to 5 characters; parser and strings: all inputs of up to 5 symbols | `LinksCounted` `RefsCounted` `Reclaimed` `NoPanic` `BlocksOwned` `FitsTransaction` `FileIsBytes` `PagesOwned` `UserMemory` `CommandsEnd` `HeapSound` `TextRight` |
| `fs_iput_race` | create and unlink | violated: `LastPutFrees` |
| `fs_dotdot` | mkdir, chdir and unlink, with ".." | violated: `NoPanic` |

Every property has a comment in its module that says what it means for the code.

Why the bounds are enough for the cases to happen.

* `Proc`: three slots and two or three forks (`MaxPid` stops new calls, not those
  under way) give a grandchild, an orphan, a slot that is reused under a new pid,
  and a parent and child that exit at the same time on two CPUs.
* `Log`: three threads fill the log, make one of them wait in `begin_op()`, and
  let an operation start while another one ends. Three blocks and operations of
  two make absorption, group commit and a recovery that stops in the middle.
* `VirtioDisk`: seven descriptors serve two requests and leave one, so that the
  third thread takes it, gives it back and sleeps; `Uint16` equal to `NUM` wraps
  the indices, as 2^16 is a multiple of `NUM` in the code. With the two equal an
  index is its own place in the ring, so a missing `% NUM` would not show.
* `Bio`: three blocks in two buffers recycle; with one of them pinned or held
  `bget()` comes down to the last buffer, and to its panic.
* `Pipe`, `Console`, `Uart`: the rings fill, drain and wrap within two calls; the
  range of the indices is a multiple of the ring's size, as in the code.
* `Clock`: `ticks` wraps at the first tick; -1 is the longest sleep.
* `Fs`: three inodes are used up by a directory and a file; four calls are enough
  for an unlink of what another call has looked up, and of a directory under a
  create. One file makes `filealloc()` fail, and two descriptors run out.
* `FileData`: writes of three bytes straddle blocks, reach the indirect block and
  run out of disk; truncation gives blocks to the other file.
* `Memory`: twenty pages are used up by the second process, so that every
  `kalloc()` of `fork()` and `exec()` fails in some behaviour; three entries per
  page-table page give a tree with more than one page per level.
* `Heap`: three blocks meet on both sides, and the program's own `sbrk()` makes
  the memory that `morecore()` gets not contiguous.

Symmetry is used for CPUs, threads, blocks, contents and the processes of `Fs`,
of the console, of the UART and of each end of a pipe: no definition tells them apart, and no
liveness property is checked with it. All runs check for deadlock. Where a model
comes to its end (all calls of the bound made, the pipe closed, a panic, all
processes of the shell at rest) a step that changes nothing says so; in `Fs`
that step has the end as its guard, so that processes which wait for one another
are still found, and in `Shell` `CommandsEnd` says what a state in which nobody
can go on looks like.

### Fairness

`Proc!Fairness`: a hart never halts, so it goes on in `scheduler()` and through
`swtch()`; the timer of `start.c` keeps interrupting user code; a thread that is
scheduled again and again gets on with its system call; init keeps calling
`wait()`. Fairness is strong for steps that take a spin lock: the lock is free
only now and then, and a CPU that spins on it in `acquire()` is taken to win it
some time. The code has no queue that would guarantee this; it is an assumption on
the memory system. `kerneltrap()` yields only between steps, so a thread that
is preempted for ever is one that strong fairness excludes. The two liveness
properties are checked with one CPU; with two, only safety is.

`Log!Fairness`: an operation that has begun comes to its `end_op()`, and the
disk answers the thread in `commit()`. A thread asleep in `begin_op()` needs
nothing else to be woken.

The other modules state no fairness. What they have to say about progress is a
safety property: nobody sleeps unless there is a reason to, and somebody who will
wake them (`SleepersWait`, `CompletionNoticed`, `TerminalMoves`, `CommandsEnd`).

### Findings

* `proc_kill_race`: `wait()` tests `killed(p)` (proc.c:427) and only then takes
  `p->lock` in `sleep()`. A `kill()` in between finds the process RUNNING, does
  not wake it, and it sleeps with `killed` set until a child exits.
* `proc_kill_free_slot`: `kill()` compares pids without looking at the state, and
  a free slot has pid 0. `kill(0)` sets `killed` in it; `allocproc()` does not
  clear the flag, and the next process made there is killed at birth.
* `log_full`: `begin_op()` hands out LOGSIZE blocks, but the on-disk log that
  mkfs makes has LOGSIZE blocks with its header, and `log_write()` panics at one
  less. Three operations that each keep to MAXOPBLOCKS can reach the panic.
* `fs_iput_race`: `iput()` frees the inode on disk, lets go of `ip->lock`, and
  takes `itable.lock` again for `ip->ref--` (fs.c:355). In between `ialloc()` can
  give the inode to somebody who finds the same table entry; if that one unlinks
  and drops it again, its `iput()` sees two references, and the first one lowers
  the count to 0 without looking: an inode without link or reference stays
  allocated.
* `fs_dotdot`: `sys_unlink()` of a directory takes the link of its ".." back, but
  the directory lives on, with "..", as long as a process has it as current
  directory. When the parent is removed too, `..` leads to a free inode, and
  `ilock()` panics.

Observations without a run. `pipewrite()` of a process that is killed between two
bytes returns before `wakeup(&pi->nread)` (pipe.c:84); `SleepersWait` states what
remains true, with the bytes put since the last wakeup as the exception
(`hushed`, a variable that the code does not have). `create()` and `sys_link()`
can make an entry in a directory that an `unlink()` has just removed;
`LinksCounted` is exact until then and a bound after it (`odd`). Bytes of a
`writei()` whose copy failed are in the buffer but not in the log; `FileIsBytes`
lets them stay or go. A thread in `sys_sleep()` that gets `tickslock` so late that
`ticks` has gone round once cannot know it, and sleeps on; `SleepExact` excepts it.
`FitsTransaction` is about the writes of `filewrite()`, whose comment does the sum.

## What TLAPS proves

Nothing is assumed about fairness. The assumptions on the constants are named
(`ProcAssumption`, `BioAssumption`, `LogAssumption`, `PipeAssumption`,
`FsAssumption`), and the runs evaluate them. The bounds of a model (`MaxPid`,
`MaxPins`, `MaxN`, `MaxCalls`) are constants like any other: what is proved holds
for each of their values.

Every proof has the same shape: an inductive invariant, one lemma per action that
says the step keeps it, with one step per conjunct, and theorems that follow from
the invariant. Where many actions treat a conjunct alike a lemma says what leaves
it alone, and the actions cite it.

### The process table

`ProcProofs` is about `Proc`, for every `NPROC` > 0, every set `CPUs` with `NoCpu`
outside of it, every `KillPids` within Nat and every `MaxPid` in Nat.

| theorem | says |
|---|---|
| `Invariance` | `Spec => []IInv` |
| `TypeCorrect` | `TypeOK` always |
| `OneCpuPerProcess` | `OneCpu`: no process is on two CPUs |
| `PanicFree` | `NoPanic`: the panics of `sched()`, and "zombie exit", cannot be reached |
| `FreedSlotsAreIdle` | `FreedOffStack`: what `wait()` frees is on no CPU |
| `TreeIsKept` | `ParentAlive`: every process has a parent that is alive |
| `WakeupNotLost` | `NoLostWakeup`: nobody sleeps in `wait()` beside a zombie child, unless the wakeup is on its way |
| `LocksInOrder` | `LockOrder`: nobody asks for `wait_lock` while holding a `p->lock` |
| `ZombiesReaped` | `ReapedByParent`, an action property: only the parent's `wait()`, with `wait_lock`, takes a zombie away |

No property is inductive by itself. `OneCpu`, for one, needs to know that a
process another CPU may pick has its `p->lock` free, hence who holds which lock,
hence where every thread stands. `IInv` is the conjunction of

* `TypeOK`;
* `SchedInv`: `OneCpu`; `CpuInv`, a CPU's place agrees with the lock and the state
  of its process; `LockInv`, a `p->lock` held across steps belongs to the CPU that
  `p` is on; `OffInv`, a process on no CPU is parked in the scheduling code;
  `ThreadInv`, `p->state` agrees with where `p`'s thread stands;
* `WaitInv`: `wait_lock` is held by the CPU whose thread is in one of its sections;
* `ScanInv`: loop positions, and that two `fork()`s have two slots;
* `TreeInv`: parents are alive, and how far `reparent()` has got through the table;
* `WakeInv`: who may sleep beside a zombie. While `wait()` scans, a zombie child
  lies ahead of it, since `exit()` needs `wait_lock` to make one; an exiting
  process has woken its parent before it becomes a zombie; and for orphans
  init sleeps only until `reparent()` comes to its `wakeup(initproc)`.

`ProcSteps` has the steps of the scheduling code, of `fork()`, `wait()` and
`sleep()`, and the lemmas on what leaves a conjunct alone; `ProcProofs` those of
`exit()`, with `reparent()` and the wakeups, and of `kill()`. `ReapedByParent`
follows from `IInv` step by step: `SchedInv` keeps every action but `WaitScan`
away from a zombie, `WaitInv` gives the lock.

### The buffer cache

`BioProofs` is about `Bio`, for every finite set of threads and all sets of buffers,
blocks and contents (`None` being in none of the first three), and every `MaxPins`.

| theorem | says |
|---|---|
| `CacheInvariance` | `Spec => []BioInv` |
| `BuffersAreHeld` | `BufferHeld`: one buffer for a block, one holder for a buffer, nobody asleep for a free lock, `refcnt` exact |
| `ContentsAreKept` | `CacheCoherent`, an action property: a block's content changes only by the thread that holds its buffer |

`BioInv` adds to `BufferHeld` which thread has which buffer (`UserInv`, `LockInv`)
and when a buffer equals the disk (`ContentInv`): if it is valid, not pinned, and
nobody is between changing and writing it. `ContentsAreKept` needs that for
`bget()`, which recycles a buffer with `refcnt` 0: by `RefInv` it has neither users
nor a pin, so what it held is on disk. The order of the list plays no part in it.

### The log

`LogProofs` is about `Log`, for every finite set of threads, all sets of blocks and
contents, and every `MAXOPBLOCKS` and `LogBlocks` above 0. A crash may come at any
step, as in the runs.

| theorem | says |
|---|---|
| `LogInvariance` | `Spec => []LogInv` |
| `LogIsAtomic` | `Atomic`: `Log` implements `AtomicDisk` |
| `CacheIsClean` | `CacheClean`: until a panic, a buffer that is not pinned equals its home block, in every phase of commit and recovery |
| `QuiescentIsDurable` | `QuiescentDurable`: with nothing under way, all is in its home location |
| `SpaceIsReserved` | `SpaceReserved`: what is logged and what the admitted operations may still log fits LOGSIZE |
| `AdmittedWritesFit` | `WritesFit`, an action property: if the log on disk has LOGSIZE blocks with its header, a `log_write()` of an operation that has two of its MAXOPBLOCKS left does not panic |
| `SleepersHaveWakers` | `SleeperHasWaker`: nobody sleeps in `begin_op()` with nobody to wake them |

`LogInv` is the conjunction of `TypeInv`, `SpaceReserved`, `SleeperHasWaker` and

* `OpInv`: `log.outstanding` is the number of threads in an operation, there is none
  while somebody commits, and one thread commits;
* `WroteInv`: what an operation has written is in `log.lh`;
* `HeadInv`: `log.lh`, the header on disk and the positions of the loops, phase by
  phase: the header is empty until `write_head()` and equal to `log.lh` from then
  until it is cleared;
* `PinInv`: a block is pinned exactly from `log_write()` to `install_trans()`;
* `ContentInv`: whether a block's content is to be found in the cache, in the log
  or in its home location.

`LogIsAtomic` rests on the lemma that `Durable` changes in one step only, the
`write_head()` of a commit: before it the header is empty and `install_trans()` has
not touched a home block; after it every block written home is one that recovery
would write again from the log. `AdmittedWritesFit` is the other half
of the finding `log_full`: the log that mkfs makes is one block short of what
`begin_op()` hands out, and this can hit an operation only in the last two blocks of
its MAXOPBLOCKS. Two, and not one, because the panic of `log_write()` comes before its
test for absorption: with a log that is exactly full, writing a block again panics
although it needs no space. The proof finds two unused log blocks in the reservation
of such an operation (`TwoUnused`), which `SpaceReserved` counts.

### The pipe

`PipeProofs` is about `Pipe`, for all disjoint sets of readers and writers, every
`PIPESIZE` above 0 and every `Uint` that is a larger multiple of it.

| theorem | says |
|---|---|
| `PipeInvariance` | `Spec => []PipeInv` |
| `SleepersHaveToWait` | `SleepersWait`: a writer sleeps only at a full pipe with readers, a reader only at an empty one with writers, but for `hushed` bytes; the page is freed with the last descriptor and nobody inside |
| `PageInvariance` | the invariant on the page that this needs: nobody without a descriptor is inside, and an end is open as long as somebody has it |
| `PipeIsFifo` | `FifoOrder`: `Pipe` implements `Fifo`, also when the counters wrap |

`PipeInv` says that the counters are at most `PIPESIZE` apart modulo `Uint`
(`SizeInv`), that the thread in a loop has the lock (`LockInv`), and where a writer
or reader may stand at a full or empty pipe (`WriterInv`, `ReaderInv`). The steps of
`PipeIsFifo` need that positions less than `PIPESIZE` apart have different
remainders, and that wrapping a counter at a multiple of `PIPESIZE` leaves its
remainder alone; the module proves both from the division theorem.

### Inodes and files

`FsProofs` is about `Fs`, for every finite set of processes, all sets of inodes and
names, every finite file table, every `NOFILE`, and any calls with any paths.
`FsSteps` says what a step does to one process; `FsProofs` has the counting.

| theorem | says |
|---|---|
| `FsInvariance` | `Spec => []FsInv` |
| `RefsAreCounted` | `RefsCounted`: `ip->ref` is the number of references that processes and files have, `f->ref` the number of descriptors |
| `IputNeverBlocks` | the comment in `iput()`: "ip->ref == 1 means no other process can have ip locked, so this acquiresleep() won't block (or deadlock)" |

`FsInv` adds to the counts what each call has in hand where (`CallInv`: which of
`namex()`'s `ip`, the call's `ip` and `dp`, and the inodes it is about to `iput()`
are set), that an open file has an inode (`FileInv`), and that whoever has locked an
inode has a reference to it (`LockInv`). A step of one process changes only its own
references, so that the proof of most steps is a balance: `Quiet(p)` says that the
counts move with what `p` has in hand. The counting lemmas of `FsProofs` turn this
into `RefsCounted`, which sums over all processes. `IputNeverBlocks` follows: with
one reference left, that of the `iput()` itself, nobody can hold the lock.

### Only model-checked

* Liveness (`OrphanReaped`, `RunnableRuns`, `SleeperWoken`): it rests on fairness
  and ENABLED.
* `FileData`, `Shell`, `Heap`, `Grep`, `Strings`, and so `BlocksOwned`,
  `FitsTransaction`, `FileIsBytes`, `CommandsEnd`, `HeapSound` and `TextRight`: these
  modules have recursive operators, and their results for all inputs would need
  induction over data.
* `LinksCounted`, `Reclaimed` and `NoPanic` of `Fs`: their invariant would have to
  say which of all the directories' entries are valid at each step of a call, on top
  of `FsInv`; with the exceptions of `odd` in it this has not been done.
* `VirtioDisk` (`RequestServed`, `DescriptorsOwned`, `CompletionNoticed`), `Console`,
  `Uart` and `Clock` (`CommittedKept`, `OutputInOrder`, `TerminalMoves`,
  `InterruptSafe`, `SleepExact`) and `Memory` (`PagesOwned`, `UserMemory`).

## Not modelled

* **System call dispatch** (`syscall.c`): argument fetching and a table lookup.
* **Boot, traps, hardware** (`start.c`, `entry.S`, `trampoline.S`, `swtch.S`,
  `plic.c`, `kernelvec.S`): registers and assembly. `swtch()` is a change of control
  in `Proc`; interrupts are actions where they matter.
* **`mkfs`**: an offline tool. `Log` has the size of the log it makes as a constant,
  and `Fs` starts with an empty root directory.
* **Other user programs and `usertests`**: clients of calls that are modelled.
* In modelled parts. `Proc`: `procdump()`; sleeping in calls other than `wait()`.
  `VirtioDisk`: the register handshake of `virtio_disk_init()`. `Bio`: whether NBUF
  buffers suffice for a full log beside what operations hold; the panic of
  `bget()` ends the model. `Fs`: `fstat()`, `sys_pipe()`, files shared by `fork()`,
  "iget: no inodes" (the table has an entry for every inode), and crashes: an
  unlinked file that is open when the machine stops is never freed, and nothing
  in the code looks for it. `Memory`: the bits of Sv39, `copyin()`, the kernel's
  page table. `Console`: echoing. `Pipe`: a failing `pipealloc()`. `Shell`: the
  cutting of lines into tokens, and where "cd" leads. `Heap`: requests whose bytes do not fit `sbrk()`'s
  `int`. `printf()`: format strings and its lock.
