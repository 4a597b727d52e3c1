# TLA+ models of the MariobrOS kernel core

This directory holds TLA+ models of the kernel in `src/`, the TLC configurations that
check them, and `PROJECT.json`. `PROJECT.json` lists the components, the runs, the
mutants, the source lines each definition models, the findings and the hazards.

## 1. Inventory

The kernel runs on a single CPU. Interrupts are off in kernel code. A system call or an
IRQ handler runs to completion, and a timer tick can only arrive while user code runs.
So the concurrency is the interleaving of *whole* system calls of different processes
with scheduler ticks. Threads inside the kernel never interleave.

| Component | Source | State it keeps | Operations that change state | Interacts with |
|---|---|---|---|---|
| Process system calls | `src/src/syscall.c` | none of its own; writes the scheduler state | `syscall_fork`, `syscall_exit`, `syscall_wait`, `resolve_exit_wait` | scheduler state (shared), saved register frames (the ABI) |
| Scheduler | `src/src/scheduler.h` (the `.c` is not in `src/`) | `curr_pid`; `processes[NUM_PROCESSES]` (state, parent_id, prio, context); `runqueues[0..MAX_PRIORITY]` | `scheduler_install`, `select_new_process` on each tick, `switch_to_process` | the system calls above; paging (CR3 on switch) |
| Process creation | `src/src/process.c` | builds one record | `new_process` | paging (`new_page_dir`), kernel heap |
| User stubs | `src/progs/src/lib.c` | user registers | put the call number in EAX and arguments in EBX..EDI, then `int 0x80` | the dispatcher |
| `syscall_printf` | `src/src/syscall.c` | current page directory, colours | switch to the caller's directory, read varargs from the user stack, switch back | paging, printer |
| Paging | `src/src/paging.c` | frame bitset, kernel/current directory, page tables, `paging_enabled` | `map_page_to_frame`, `map_page`, `free_page`, `make_page_table`, `get_page`, `request_virtual_space`, `free_virtual_space`, `switch_page_directory`, `page_fault_handler`, `paging_install`, `new_page_dir` | kernel heap (`mem_alloc_aligned`, high-water mark), ISR 14 |
| ext2 allocation | `src/src/filesystem.c` | on-disk inode/block bitmaps, superblock counters and `first_free_inode`, group descriptor counters, scratch buffer `std_buf` | `allocate_inode`, `unallocate_inode`, `allocate_block`, `unallocate_block`, `update_or_bitmap` | ATA PIO reads and writes |
| ext2 data | `src/src/filesystem.c` | disk blocks, scratch `std_buf` and `std_inode` | `read_inode_data`, `write_inode_data`, `update_block`, `find_inode` | ATA PIO |
| ext2 names | `src/src/filesystem.c` | none of its own | `open_file`, `ls_dir`, `filesystem_install` | ext2 data |
| Output, IRQ/ISR/GDT, ATA | `printer.c`, `irq.c`, `isr.h`, `gdt.c`, `ata_pio.h`, `error.h` | framebuffer, hardware tables | initialisation and output | everything, as collaborators |

What makes each part hard, and what must hold for it to be correct:

* **Process system calls and scheduler.** Fork, exit, wait and ticks of several
  processes interleave. Slots are reused after a reap, and a reused slot keeps whatever
  its last occupant left in it. Children are handed to pid 1 when their parent exits.
  For correctness: every live process has a live parent; every Runnable process is
  queued, and queued once; wait
  returns at once when the caller has no child; a process that is ready eventually
  runs; the spec's run-queue invariant (spec §3, §8).
* **Paging.** The identity-map loop in `paging_install` reads the heap end while the
  loop grows the heap. Frames are never freed. After paging is on, page tables are
  placed through the directory being built. For correctness: every heap page is
  identity-mapped; no frame backs two pages unless meant to; a user stack fault is
  mapped on demand (spec §4.B).
* **ext2 allocation.** There are two copies of the same fact: the bitmaps, and the
  superblock and group counters. The code runs several scans with bit and word index
  arithmetic, and retries from block 0. For correctness: the counters match the
  bitmaps; nothing is allocated twice; a double free is refused and changes nothing;
  allocate then free gives the same object back.
* **ext2 data and names.** Index arithmetic through direct, single, double and triple
  indirect blocks. Scratch buffers are shared between nested calls. For correctness:
  write then read gives the data back (spec §8), and a missing path component gives 0.

## 2. Plan

The modules, in the order they are built. The process lifecycle comes first because
every other component is reached through it.

1. **`Processes`** (this sitting). The process table, run-queues, fork/exit/wait/resolve
   and the tick. Checked by `MCProcesses` (4 slots).
2. **`ProcessLifecycle`** (this sitting). An abstract specification of what the process calls promise:
   the per-pid life cycle Free → Runnable ⇄ Waiting → Zombie → Free, reaping only by
   the parent, and exit status delivery. `Processes` will be shown to implement it with
   `INSTANCE ProcessLifecycle WITH ...`, stated as a PROPERTY.
3. **`Ext2Bitmap`, `InodeAlloc`, `BlockAlloc`** (this sitting). `allocate_inode`/`unallocate_inode`/`allocate_block`/`unallocate_block`
   over a scaled-down bitmap: sectors of a few words, words of 4 bits, and the
   `0xff`-vs-word-width test kept as "low half of the word". The superblock and group
   counters are in the model. The inode and block allocators share no state, so each
   has its own module, and the geometry and scans they share are in `Ext2Bitmap`.
4. **`BlockMap`** (second sitting). `read_inode_data`, `write_inode_data` and
   `update_block` on one inode whose blocks follow the ext2 layout, with the code's
   block-index arithmetic and the write width it passes to `update_block`. Checked
   against the spec §8 round trip.
5. **`Paging`** (this sitting). The frame bitset (`first_false_bit`), `map_page`,
   `request_virtual_space`/`free_virtual_space`, `get_page`/`make_page_table` with the
   heap high-water mark, and the identity-map loop of `paging_install` as a loop of
   steps. Also `page_fault_handler`'s policy and `new_page_dir`.
6. **`OpenFile`** (third sitting). `open_file` and `ls_dir` over every small directory
   tree the spec §3 record format allows, with the record walk and the `endpos` test.
   Checked against a reference lookup written from spec §3/§4.
7. **`Printf`** (third sitting). `new_process` with the `new_page_dir` it calls, and
   `syscall_printf`/`syscall_invalid`: the switch to the caller's directory, the
   format loop, the argument pops and the switch back. The composition with
   `Processes` (the CR3 of the running process at each tick) is not built: all that
   `Printf` needs from the scheduler is which slot makes the call, and `\E p` gives that.

## 3. Modules, state and actions

### `Processes` (src/src/syscall.c; scheduler from spec §4.G)

| Variable | Code |
|---|---|
| `curr` | `state->curr_pid` |
| `pstate[p]`, `parent[p]`, `prio[p]` | `state->processes[p].state / parent_id / prio` |
| `regs[p]` | `eax, ebx, ecx` of `state->processes[p].context.regs` |
| `runqueues[q]` | `state->runqueues[q]` (FIFO) |

| Action | Code |
|---|---|
| `SyscallFork(cp)`: `ForkRefused` or `ForkAccepted` | `syscall_fork`; `cp` is the EBX the user stub loaded |
| `SyscallExit(v)`: one disjunct reaps at once, the other leaves a Zombie | `syscall_exit` (the reparenting loop is `Reparented`) |
| `SyscallWait`: reap the first Zombie child, return 0 when there are no children, or block | `syscall_wait` |
| `ResolveExitWait` (used by exit and wait) | `resolve_exit_wait` (the filter loop is `RemovePid`) |
| `SelectNewProcess` | `select_new_process` + `switch_to_process` (spec §4.G) |

Each system call is one step of the current process (`CanTrap`). The step includes the
user stub's register writes (`Trap`). The handler itself is atomic because interrupts
are off in the kernel. `Init` is `scheduler_install`: a zero-filled table, the idle
process 0, and the shell as pid 1, queued at `ShellPriority`.

Choices made where the code is not in `src/`:

* `select_new_process` scans priorities from the highest number down. `syscall_fork`
  forbids a child a priority number above its parent's ("higher priority than its
  own"), so a higher number is a higher priority.
* Following spec §4.G to the letter, the first queue *whose head is Runnable* is
  rotated, and its head runs. Otherwise the idle process runs.

### `ProcessLifecycle` (abstract; spec §3 "Lifecycle", §4.H)

The per-pid life cycle, without the scheduler, the run-queues or the registers.
`pstate` and `parent` are its only variables. `Spawn(p, c)` is a fork by a running
process. `Block(p)` is a wait that blocks. `Die(c)` leaves a Zombie, and
`DieReaped(c)` frees the process at once because its parent is already waiting.
`Reap(p, c)` is a wait that frees a Zombie child. The children of a dying process go to
pid 1. `Processes` maps onto it with `pstate <- pstate` and
`parent <- LiveParent`. `LiveParent` shows Kernel as the parent of every Free slot,
because the code leaves a stale `parent_id` in a freed slot. Ticks, refused forks and a
wait with no child are stuttering steps of the abstract specification.

### `Ext2Bitmap`, `InodeAlloc`, `BlockAlloc` (src/src/filesystem.c 48-192)

A bitmap block is the set of its bit positions that are 1. `Pos(s, w, j)` is bit `j`
of word `w` of sector `s`. The code's geometry is kept as constants and scaled down
together:

| Code | Model | Scaled value in the MC modules |
|---|---|---|
| 16-bit words | `WordBits` | 4 |
| 128 words per 2048-bit unit (`x >> 11`) | `WordsPerUnit`, `UnitBits` | 4, 16 |
| 256 words per sector | `SectorWords` = 2 · `WordsPerUnit` | 8 |
| `(k%2)<<8` and the range of a `u_int8` (both 256) | `OddUnitOffset`, `U8Range` = 2 · `WordsPerUnit` | 8 |
| `std_buf[i] != 0xff` | `NotByteFull`: the word is not exactly "low half set" | bits 0-1 set, 2-3 clear |

| Variable | Code |
|---|---|
| `ibm`, `bbm` | the inode and block bitmap blocks on disk |
| `sbFreeInodes`, `firstFreeInode`, `sbFreeBlocks` | `spb->unalloc_inode_num`, `spb->first_free_inode`, `spb->unalloc_block_num` |
| `gdFreeInodes`, `gdFreeBlocks` | `bgpt[0].unalloc_inode`, `bgpt[0].unalloc_block` |
| `panicked` | `throw` was called, so the kernel has stopped |
| `heldInodes`, `heldBlocks` | history: how many times a number was returned and not freed since |

| Action or operator | Code |
|---|---|
| `AllocateInodeNone`, `AllocateInodeTaken` | `allocate_inode`: the early `return 0`, and the rest |
| `UnallocateInode(n)` | `unallocate_inode` (both returns) |
| `AllocBlock` (RECURSIVE, for the restart) and `AllocateBlock(prec)` | `allocate_block`, including the throw |
| `UnallocateBlock(b)`, `UnallocateBlockRefused(b)` | `unallocate_block` |
| `ScanCarry` | the inlined first loops (`j` not reset between words) |
| `ScanReset` | the loops over later units |
| `UpdateOrBitmap`, `CastU8`, `StartWord`, `StartBit`, `FreeBit` | `update_or_bitmap` and the index arithmetic |

Each call is one step: the kernel runs it with interrupts off, and nothing else
touches the bitmaps or `std_buf`. `Init` is the layout mkfs leaves on a freshly made
disk. The inodes below `FirstIno` and the blocks in `UsedBlocks` are in
use, and the bits past the last inode or block are set. The inputs are any hint for
`allocate_block`, any inode from `FirstIno` up for `unallocate_inode`, and any block
mkfs did not use for `unallocate_block`. There is one block group. The group index
arithmetic `(k<<11)/inode_per_group` is therefore always 0 and is not modelled.

### `Paging` (src/src/paging.c; kernel heap and `first_false_bit` from spec §4.A, §4.C)

Addresses are counted in units, with `PageSize` units to a page, so that an unaligned
heap end can be represented. `TableSpan` pages make a table and `NumTables` tables make
the directory. The heap `mem_alloc_aligned` is a bump allocator: it aligns the
high-water mark up to a page and moves it past the block. It maps nothing. With
paging on, a write to a page whose entry is not present faults, and
`page_fault_handler` throws, so the kernel halts (`panicked`).

| Variable | Code |
|---|---|
| `pc`, `loopFrame` | where `paging_install` is (before the loop, in the loop, done) and its loop variable `frame` |
| `heapEnd` | `unallocated_mem`, the heap high-water mark |
| `frames` | the `frames` bitset, as the set of its 1 bits |
| `tables`, `pde` | `kernel_directory->tables` (address of each table, 0 if none) and `->entries` (present bit, frame) |
| `pte` | the entries of all page tables, by virtual page |
| `pagingEnabled`, `panicked` | `paging_enabled` (with CR0.PG); `throw` was called |

| Action or operator | Code |
|---|---|
| `PagingInstallBegin`, `IdentityMapStep`, `PagingSwitch` | `paging_install`: bitset and directory, one loop turn (the bound is re-read every turn), `switch_page_directory` and `paging_enabled = TRUE` |
| `RequestVirtualSpace(va)` | `request_virtual_space` with `get_page` and `map_page` (`MapPage`). There are three outcomes: a fault in `make_page_table`, already present, or `map_page`, which gives either no free frame or a mapping. |
| `FreeVirtualSpace(va)` | `free_virtual_space` (`get_page`, then `free_page(page, FALSE)`) |
| `NewPageDir` | `new_page_dir`: allocate and clear a directory |
| `PageFaultHandler(va)` | `page_fault_handler`, which throws before its policy |
| `GetPage`, `MakePageTable`, `MapPageToFrame`, `FreePage`, `PhysicalAddress` | the helpers of the same names |

Each call is one step, because interrupts are off in the kernel. The callers of
`request_virtual_space` and `free_virtual_space` (malloc, the program loader) are not
in `src/`, so any call on the addresses of `CallPages` is allowed. The `rw` and `user`
flags of the entries are left out, because no property reads them.

### `BlockMap` (src/src/filesystem.c 38-45, 197-293)

One inode of `NDirect = 12` direct pointers and the singly, doubly and triply indirect
trees, with blocks of `BlockWords` 16-bit words, so `P = BlockWords/2` u_int32
pointers per block. The pointer blocks hold what ext2 (mkfs or any conforming driver)
put there: `RefPtr` names them by their place in the tree (`<<"S">>`, `<<"D", i>>`,
`<<"T", i, j>>`, ...) and data block `<<"B", n>>` is where logical block n lives.
`write_inode_data` never changes a pointer, so the pointer blocks are constants.

| Variable | Code |
|---|---|
| `disk` | the words of each data block, and of the two junk blocks below |
| `beyond` | the heap memory after `std_buf`, seen as its u_int32 slots `P .. BlockWords-1`: initially slot `s` names the block `HeapBlock(s)`: `filesystem_install` allocates the group descriptor table right after `std_buf` (`filesystem.c:367-378`), and its words name distinct blocks (the bitmaps, the inode table), and after an overflowing `update_block` it holds file data (`Scribbled`) |
| `file` | history variable: the value last written to each tracked word of the file |

| Action or operator | Code |
|---|---|
| `Slot(bv, b, i)` | `((u_int32*) std_buf)[i]` after `readPIO` of block `b` |
| `CodeBlock(bv, n)` | the direct/single/double/triple branches of `read_inode_data` and `write_inode_data`, with the indices `to_read/block_size` and `to_read%block_size` |
| `Width` | `width`, clipped to the end of the block |
| `ReadInodeData(off, len)` | `read_inode_data`: the words copied to `buf` |
| `UpdateBlock` | `update_block`: read the block, set positions `ofs .. ofs+length-1`, write it back; positions past the block land in `beyond` |
| `WriteInodeData(off, len, v)` | `write_inode_data` with a buffer of value `v`: it passes `len`, not `width`, to `update_block` |

The code indexes a pointer block with values up to `block_size - 1`, but a block holds
`block_size/2` pointers, so half of the indices read the memory after `std_buf`.
That read is modelled as what the build does: it yields whatever that memory holds.
`find_inode` (which fills `std_inode`) is left out: the inode is fixed.

### `OpenFile` (src/src/filesystem.c 295-349)

Every directory inode's first block is a sequence of records `[inode, size, name]`.
Positions and sizes are counted in record units, and `EndPos` units make a block (the
code's `endpos = std_buf + (block_size<<1)` bytes). `Init` chooses the disk among the
blocks the spec §3 format allows: at least one live record, distinct names, and
either the last live record reaches the end of the block or an inode-0 record after
the live ones does. The path is the list `str_split(str_path, '/', TRUE)->tail`
(`str_split` is not in `src/`), with `Empty` for the empty component of a trailing
`/` or of `/` itself.

| Variable | Code |
|---|---|
| `disk` | the first block of each directory, as `read_inode_data(inode, std_buf, 0, block_size)` leaves it in `std_buf`; never written |
| `path`, `ret` | the argument and result of the last `open_file` call |
| `listing` | the (name, inode) pairs the last `ls_dir` printed |

| Action or operator | Code |
|---|---|
| `Match(a, nm)` | the byte loop and the test `a[i] == b[i] \|\| (a[i] == '\0' && i == name_length)` |
| `Walk` | the inner `while(entry->inode && entry < endpos)` loop, with the `break` on a match |
| `Resolve` | the outer loop: its condition, `entry == endpos` → 0, the return at the last component, `pop` |
| `OpenFile(p)`, `LsDir(i)` | `open_file` and `ls_dir` (`LsFrom` is its `while(entry->size && entry < endpos)` loop) |
| `Live`, `Lookup` | the reference: live records are those before the first inode-0 record; an absent component gives 0 |

Names are model values, so `Match` is name equality. On disk a name is not
NUL-terminated, and a component longer than the name would also match if the bytes
after the name spelt its rest; ext2 pads names with zero bytes, which rules that out.
The `std_buf`/`std_inode` scratch writes are left out, because nothing reads them
after the call.

### `Printf` (`src/src/process.c`, `src/src/syscall.c` 134-206, `new_page_dir`)

| Variable | Code |
|---|---|
| `pageDir[p]` | `processes[p].context.page_dir` (`"none"` until `new_process` builds slot `p`) |
| `allocated` | the directories `mem_alloc_aligned` handed out: `kernel_directory` and those of `new_page_dir` |
| `cr3` | `current_directory` (CR3) |
| `fg`, `bg` | `foreground`, `background` |
| `out` | what the last `printf` wrote, as tokens (directive, argument) or (0, byte) |
| `caller`, `readDir` | history: the last caller and the directory in CR3 while its memory was read |
| `halted` | `throw` was called |

| Action or operator | Code |
|---|---|
| `NewProcess(p, create)` | `new_process(.., .., create_page_dir)`: `page_dir` from `new_page_dir` (`NewPageDir`: a directory is allocated, `NULL` is returned) or `NULL` |
| `SyscallPrintf(p, s)` | the whole handler: `switch_page_directory(ctx.page_dir)`, `Format`, `switch_page_directory(kernel_directory)` |
| `Loop` | the `while(c != '\0')` loop: each directive with its `POP`, `%%`, the `default` throw, the `0xc2`/`0xc3` branches that skip a byte, the plain `write_char` |
| `IsByte(c, v)` | `c == 0xc2` with `c` a `char`: false for every byte when `char` is signed (`CharSigned`, the i386 ABI) |
| `Reads(dir, s)` | the bytes the MMU returns through CR3: the string and what follows it (`After`) through a directory the kernel made, anything (`Garbage`) through one it never made |
| `SyscallInvalid` | `throw("Invalid syscall!")` |

A read through a directory the kernel did not make has two possible outcomes. It
faults, and the kernel halts in `page_fault_handler`; or it returns bytes that are not
the user's. Which one happens depends on physical page 0, so the model takes both.

## 4. Runs

| Run | Config | Expect | What it shows |
|---|---|---|---|
| `processes_refinement` | `MCProcessesRefine.cfg` | pass | `TypeOK`; `NoDanglingParent` (no live process has a Free parent); `RunnableIsQueued` (every Runnable process is in a run-queue). `ImplementsLifecycle`: `Processes` implements the abstract `ProcessLifecycle` (`INSTANCE ... WITH parent <- LiveParent`, which shows Kernel as the parent of every Free slot). The check shows that slots are taken only by fork of a running process, that only wait blocks, that a process is freed only by exit into a waiting parent or by its running parent's wait on a Zombie, and that parents change only at fork or at the hand-over to pid 1. 0.6 M states, ~45 s, with one exit code, which is distinct from every pid. |
| `inode_alloc_bounds` | `MCInodeAlloc.cfg` | pass | `TypeOK`: the free counts and `first_free_inode` stay within the inode count (the mutant without the "not allocated" return pushes them past it). Because of the inverted test at `:73`, only the first `allocate_inode` succeeds; the run then explores every sequence of frees. 33 k states. |
| `block_alloc_bounds` | `MCBlockAlloc.cfg` | pass | `TypeOK`: the free counts stay within the block count (the mutant without the "not allocated" return grows the group's past it). 2.7 k states. `CHECK_DEADLOCK FALSE`: after `throw` the kernel has stopped. |
| `block_double_allocation` | `MCBlockAlloc_NoDoubleBlockAllocation.cfg` | violation | `unallocate_block(16)` clears block 0's bit. Two `allocate_block` calls then both return 16. |
| `block_throw_with_free_blocks` | `MCBlockAlloc_ThrowOnlyWhenFull.cfg` | violation | with unit 0 full and blocks 16, 17, 30 and 31 free, the first `allocate_block(0)` throws. |
| `paging_install_and_requests` | `MCPaging.cfg` | pass | `TypeOK`. `PagingInstallTerminates` (liveness): the identity-map loop reaches its bound and switches to paging, even though the bound moves as the loop makes tables. `IdentityMapAtSwitch` (action property): at the switch, every page up to the heap end of that moment is identity-mapped, including the directory and the two tables the loop allocated while running, which moved the loop bound twice. `FramesNotShared`: every present page's frame is marked in the bitset, and no two present pages share one, through any sequence of requests and frees. 86 k states, 3 s. `CHECK_DEADLOCK FALSE`: after `throw` the kernel has stopped. |
| `request_halts_on_new_table` | `MCPaging_RequestReturns.cfg` | violation | `RequestReturns` (spec §4.B: `request_virtual_space` returns success or failure). After install, `request_virtual_space` for page 8, whose table does not exist yet, makes the table at heap page 6. The identity map stops before page 6 and nothing maps it, so `mem_set` faults and the kernel halts. The same happens in `free_virtual_space` and `new_page_dir`. Scenario 4 (on-demand stack growth) goes through this path. |
| `indirect_round_trip` | `MCBlockMap_RoundTrip.cfg` | violation | `RoundTrip` (spec §8: a read after writes returns what was last written). With 4-word blocks, one `write_inode_data` of `a` at word 64 (logical block 16, doubly indirect, index 2 ≥ P) writes into `HeapBlock(2)`, the block named by heap slot 2 after `std_buf`. A read of word 80 (logical block 20, triply indirect, whose last index 2 is also past P) goes through the same slot and returns `a`. Logical block 17 uses slot 3, a different block. |
| `open_file_absent_component` | `MCOpenFile_ResolvesLikeLookup.cfg` | violation | `ResolvesLikeLookup` (spec §4: an absent component gives 0). The root holds `n1` → 12, and directory 12 holds one live record followed by an inode-0 record. `open_file("/n1/n2")` stops the walk at the inode-0 record, not at `endpos`, and returns 12, the directory. For an absent inner component the code goes on resolving the next component in the same directory. |
| `wait_after_reap` | `MCProcesses_NoChildlessWait.cfg` | violation | TLC's trace: fork (child at priority 0), wait (blocks), the child exits and is reaped at once into the Waiting parent, wait again. The caller blocks for good, because the Free slot still names it as parent. The order fork, exit, wait (reaps), wait again is an equally short variant. |
| `lone_process_starves` | `MCProcessesLone_LoneRunnableRuns.cfg` | violation | `LoneRunnableRuns` (liveness, under the fair tick: a process that is the only Runnable one besides idle eventually runs). The shell forks a child at priority 0 and calls wait. `syscall_wait` leaves the Waiting shell at the head of queue 0, and spec §4.G's select skips a queue whose head is not Runnable. So the child, the only Runnable process, never runs, nothing can wake the shell, and the CPU idles forever. Spec §8 requires every queued pid to be Runnable, and scenario 2 cannot complete when the parent waits before the child exits. |
| `printf_page_directory` | `MCPrintf_PrintfReadsCallerDirectory.cfg` | violation | `PrintfReadsCallerDirectory` (spec §4.F, §4.H: printf reads through the caller's fresh directory, or the kernel's for a process made without one). `new_process(p1, .., FALSE)` stores `NULL`. `printf` loads `NULL` into CR3, and the read faults. With `create_page_dir` the same happens, because `new_page_dir` also returns `NULL`. |

The run `stale_priority_queue` of the earlier sittings was retired for
`lone_process_starves`, which shows the graver consequence of stale queue entries.
Its trace was fork at priority 1, exit, wait, fork again. Fork never writes the
child's prio, which stays 0, so the reap filters queue 0. Pid 2 stays in queue 1 and
is queued there a second time. The hazard (`syscall.c:42`) stays listed.

The run `orphan_zombie_wakeup` of the earlier sittings was also retired. It showed that exit
wakes only its own parent, so a Zombie handed to a pid 1 that is already Waiting does
not wake it. Spec §9 leaves open whether wait may return on a reparented child, so
there is no requirement for that run to violate. The hazard stays listed.

The inverted test in `allocate_inode` (`filesystem.c:73`: the rest of the unit is
scanned only when the group has no free inode left) is shown by a one-call trace:
after one `allocate_inode` with 12 inodes free, `first_free_inode` is 0, so later
calls return 0. It is listed as a hazard and not kept as a run of its own. So is spec
§8's popcount invariant for inodes (`filesystem.c:69`): one `allocate_inode` with
`first_free_inode` in the odd unit sets bit `first_free_inode` (not `-1`), which the
`u_int8` word index turns into an already-set bit of the even unit, while both free
counts drop. With at most two
2048-inode units, as `InodeAlloc` assumes, `first_free_inode` is 0 after the first
call, and the early lowering in `unallocate_inode` (`filesystem.c:111`) cannot hand
out an inode twice. With three or more units the loop at `:92` can set
`first_free_inode` again, and the lowering then bites. That needs the bitmap past one
block, which the model does not hold, so the hazard stays listed without a property.
The superblock's free-block count drifts from the bitmap (`filesystem.c:144`:
decremented per attempt and again on the restart, never incremented by
`unallocate_block`). Spec §8's count-equals-bitmap agreement therefore fails for
blocks too. That is listed as a hazard, not kept as a run.

Each property of the passing run has a mutant in `PROJECT.json`. Each mutant is a
plausible slip in the mapped code that TLC catches:

* fork without the full-table test;
* the reparent loop stopping one slot short;
* the drained queue stored back instead of `temp`;
* wait counting every child rather than the Zombies (breaks the refinement);
* the group's `unalloc_inode--` dropped;
* `unallocate_inode`/`unallocate_block` without the "not allocated" early return;
* `map_page_to_frame` without `set_bit`;
* `first_false_bit` searching one bit past the bitset;
* the identity-map loop stopping one page early;
* the identity-map loop losing its `frame += 0x1000`.

**Bounds.**

* `MCProcesses`: 4 slots (idle, shell, two more). This is enough for a full table,
  slot reuse after a reap, and a grandchild. There are 2 priorities, with the shell at
  the higher one, so a fork can pick either priority or be refused. Fork arguments
  include one value above `MAX_PRIORITY`. Exit codes are 7 and 8, distinct from every
  pid.
* `MaxQueueLen = 4` is the model's bound on a queue's length. The code's queues are
  unbounded, and because of the stale-priority bug they do grow without bound. Fork
  refuses a step that would go past the bound.
* `MCProcessesLone`: the `MCProcesses` table with the shell at priority 0. Every
  child is then queued at 0, the prio field fork leaves in a slot. So the
  stale-priority defect cannot occur, and the starvation trace is caused only by the
  entries exit and wait leave in a queue. One exit code suffices.
* `MCPrintf`: two processes, each built with or without a directory. The user stack
  at `useresp` is the frame of the user stub `syscall_printf(s, ...)`: its return
  address, the pointer `s`, then one argument. There are seven format strings: plain text, `%d`, `%f%b`, `%%`,
  an unknown directive, a trailing `%`, and `0xc2 0xa9` (a UTF-8 sequence).

* `MCInodeAlloc`/`MCBlockAlloc`: two units of 16 bits, so both halves of a sector and
  the loops over later units are reached. The bitmap block is 64 bits.
  - Inodes 1..19 are in use, so `first_free_inode` (20) lies in the odd unit. With
    inodes 1..11 in use instead, only the off-by-one would show.
  - Unit 0 is full and blocks 16, 17, 30 and 31 are free. Freeing 16 or 17 clears a
    bit in a word of unit 0 that the first loop can reach.
  - The `u_int8` cast of a bit index keeps its effect: hints with
    `x % UnitBits >= U8Range` start at the wrong word, as `x % 2048 >= 256` does in the
    code.
  - The first-word scan, the later-unit scan, the restart from 0 and the throw all
    occur in the passing runs.

* `MCPaging`: 4 tables of 4 pages and 12 frames. The heap ends mid-page 1 when
  `paging_install` starts. The directory takes pages 2-3 and the loop makes tables at
  pages 4 and 5, so the loop bound moves twice. Six frames remain, so requests also
  reach "no free frame". The call pages are:
  - 6 and 7, the heap's next pages, where later tables land;
  - 8, in no table yet;
  - 13, in the last table.

  Requesting 6 before 8 puts table 2 in a mapped page, and the other order faults.
  Both orders are reached.

* `MCBlockMap`: 4-word blocks (2 pointers per block), so all four branches are
  reached with few blocks: the offsets 2, 48, 56, 64, 68, 72 and 80 cover a direct
  block, the singly indirect tree, both in-range and past-the-end indices of the
  doubly indirect tree, and the triply indirect tree; lengths 1 and 4 cover a write
  inside a block and one that overflows it.

* `MCOpenFile`: two names, three directory inodes (root 2, 12, 13), blocks of three
  units with one or two live records, with or without a trailing inode-0 record
  (49 blocks per directory, 117 649 disks), and every path of one or two components,
  with or without a trailing `/`. This reaches: a walk that ends at `endpos`, one
  that stops at an inode-0 record, a match at either position, a descent into a
  directory that is an ancestor (cycles through `..`-like records), and `/` itself.

**Fairness.** `Processes` has weak fairness on `SelectNewProcess` only. The timer
fires at `SWITCH_FREQ` whatever the processes do. User code has no obligation to make
any call. `LoneRunnableRuns` relies on this fairness: the trace it finds is one
where the tick keeps firing and still never runs the ready process. `Paging` has weak
fairness on the steps of `paging_install`. It is straight-line boot code, so nothing
else runs until it returns. `PagingInstallTerminates` relies on this fairness.

## 5. Not modelled, and why

* `printer.c`: its state is the VGA text buffer and the hardware cursor register.
  The spec names the printer only as a collaborator of printf and states nothing of
  it that a run could check. Two defects were found by reading, and both are listed
  as hazards:
  - a backspace at position 0 puts the cursor register at 0xFFFF, off the screen;
  - delete copies the bytes past the screen into its last cell.
* `irq.c`, `isr.h`, `gdt.c`, `ata_pio.h`: hardware setup. The only behaviour they give
  the core is that ticks fall between system calls, and that is the interleaving of
  `Processes`. `irq_handler` sends the EOI only after the handler returns. Whether
  that matters depends on the tick handler in `scheduler.c`, which is not under
  `src/`, so it is not listed as a hazard.
* Register frames are modelled as values. Fork's write through the frame pointer of a
  never-used slot (NULL in a zeroed table) is therefore not expressible.
* `run_program`, `scheduler.c` and `queue.c` are not in `src/`. The tick is modelled
  from spec §4.G.
* Page tables of a process's own directory. `new_page_dir` returns NULL, so no
  process ever has one (run `printf_page_directory`). The throw in
  `map_page_to_frame` for frames ≥ 2²⁰ and the one in `make_page_table` for an
  existing table are unreachable, because every frame is below `UpperFrames` and
  `get_page` checks first. Both are left out.
* Number and string formatting (`int_to_string`, `write_string`), the CP437 glyph
  tables and the printer are output only, so they are abstracted to tokens. A build
  with unsigned `char` (`CharSigned = FALSE`) is not run. `filesystem_install` (mount) is not modelled: it reads the superblock and
  group table and throws on a bad signature or group count, and the allocator modules'
  `Init` is the layout mkfs leaves on the disk, which no code of this repository writes. `open_file` treats every inode it reaches
  as a directory (it does not look at the record's file type); `OpenFile` gives every
  inode a directory block, so a path through a regular file is not modelled. Only
  directory blocks the spec §3 format allows are chosen: a record that crosses the
  block end, which the code would also compare and then step past `endpos`, is not.
  `find_inode` only fills `std_inode`; `BlockMap` fixes one
  inode. The "Invalid offset" throws of `read_inode_data`/`write_inode_data` are not
  reached, because the offsets are inside the triply indirect range.
* The allocators on more than one block group, because the group index arithmetic is
  not modelled. Bits are kept as positions, so a word's value matters only through
  the `0xff` test.
