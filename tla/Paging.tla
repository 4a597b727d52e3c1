-------------------------------- MODULE Paging --------------------------------
(***************************************************************************)
(* The paging subsystem of src/src/paging.c on the kernel directory:       *)
(* paging_install (frame bitset, directory allocation, the identity-map    *)
(* loop one iteration per step, the switch that enables paging), then      *)
(* request_virtual_space, free_virtual_space, new_page_dir and the page    *)
(* fault handler.  Addresses are counted in units, PageSize units to a     *)
(* page (0x1000 bytes), so an unaligned heap end is representable.        *)
(* mem_alloc_aligned (the kernel heap, not in src/) is the bump allocator  *)
(* of spec 4.C: it aligns the high-water mark up and moves it past the     *)
(* block; it maps nothing.  With paging on, a write to a page with no      *)
(* present entry raises a page fault, whose handler throws: the kernel     *)
(* halts (panicked).                                                        *)
(***************************************************************************)
EXTENDS Integers

CONSTANTS
  PageSize,     \* 0x1000, in address units
  TableSpan,    \* 1024 pages per page table
  NumTables,    \* 1024 entries per page directory
  UpperMemory,  \* UPPER_MEMORY, in address units
  HeapStart,    \* unallocated_mem when paging_install runs
  DirPages,     \* sizeof(page_directory_t), in pages
  TablePages,   \* sizeof(page_table_t), in pages
  CallPages     \* pages whose addresses the callers pass

UpperFrames == UpperMemory \div PageSize   \* floor_ratio(UPPER_MEMORY, 0x1000)
Frames == 0..(UpperFrames - 1)
TableIdx == 0..(NumTables - 1)
VPages == 0..(NumTables * TableSpan - 1)
VAs == {p * PageSize : p \in CallPages}
NoFrame == -1                              \* (u_int32)(-1) of first_false_bit

ASSUME /\ HeapStart \in 1..(UpperMemory - 1)
       /\ CallPages \subseteq 0..(NumTables * TableSpan - 1)
       /\ {PageSize, TableSpan, NumTables, DirPages, TablePages} \subseteq Nat \ {0}

PageOf(a) == a \div PageSize
TableOf(a) == PageOf(a) \div TableSpan
AlignUp(a) == ((a + PageSize - 1) \div PageSize) * PageSize
Absent == [present |-> FALSE, frame |-> 0]

VARIABLES
  pc,            \* "boot", "loop" (identity-map loop), "running"
  loopFrame,     \* the loop variable frame of paging_install
  heapEnd,       \* unallocated_mem, the heap high-water mark
  frames,        \* the frames bitset, as the set of its 1 bits
  tables,        \* kernel_directory->tables: address of each table, 0 if none
  pde,           \* kernel_directory->entries: present bit and frame
  pte,           \* the entries of the page tables, indexed by virtual page
  pagingEnabled, \* paging_enabled (and CR0.PG)
  panicked       \* throw() was called

vars == <<pc, loopFrame, heapEnd, frames, tables, pde, pte, pagingEnabled, panicked>>

(* The state a call works on, and writing it back.                        *)
St == [heapEnd |-> heapEnd, frames |-> frames, tables |-> tables, pde |-> pde,
       pte |-> pte, panic |-> FALSE]

Commit(r) ==
  /\ heapEnd' = r.heapEnd /\ frames' = r.frames /\ tables' = r.tables
  /\ pde' = r.pde /\ pte' = r.pte /\ panicked' = r.panic
  /\ UNCHANGED <<pc, pagingEnabled>>

(* get_physical_address(dir, a): 0 (NULL) when the table or the page is   *)
(* missing.                                                               *)
PhysicalAddress(s, a) ==
  IF s.tables[TableOf(a)] # 0 /\ s.pte[PageOf(a)].present
  THEN s.pte[PageOf(a)].frame * PageSize + (a % PageSize)
  ELSE 0

(* Whether the kernel can write the page holding address a.               *)
Writable(s, a) == ~pagingEnabled \/ (s.tables[TableOf(a)] # 0 /\ s.pte[PageOf(a)].present)

(* Mutant: the search runs one bit past the bitset's length.              *)
FirstFalseBitPastEnd(fs) ==
  CHOOSE f \in (0..UpperFrames) \ fs : \A g \in (0..UpperFrames) \ fs : f <= g

(* first_false_bit(frames): the lowest clear bit (spec 4.A).              *)
FirstFalseBit(fs) ==
  IF Frames \subseteq fs THEN NoFrame
  ELSE CHOOSE f \in Frames \ fs : \A g \in Frames \ fs : f <= g

(* mem_alloc_aligned(pages * 0x1000, 0x1000) of spec 4.C.                 *)
MemAllocAligned(s, pages) ==
  [s EXCEPT !.heapEnd = AlignUp(s.heapEnd) + pages * PageSize]

(* mem_set of the pages [a, a + pages): faults on a page not present.     *)
MemSet(s, a, pages) ==
  IF \A q \in 0..(pages - 1) : Writable(s, a + q * PageSize) THEN s
  ELSE [s EXCEPT !.panic = TRUE]

(* Mutant: the frame is not marked in the bitset.                         *)
MapPageToFrameNoMark(s, p, f) ==
  [s EXCEPT !.pte[p] = [present |-> TRUE, frame |-> f]]

(* map_page_to_frame(&page p, f): mark frame f used, point the entry at  *)
(* it.  (The throw for f >= 0x100000 cannot fire: f < UpperFrames.)       *)
MapPageToFrame(s, p, f) ==
  [s EXCEPT !.pte[p] = [present |-> TRUE, frame |-> f], !.frames = @ \cup {f}]

(* map_page(&page p): the lowest free frame, if there is one; FALSE and  *)
(* nothing changed when the bitset is full.                                *)
MapPage(s, p) ==
  LET f == FirstFalseBit(s.frames)
  IN IF f = NoFrame THEN s ELSE MapPageToFrame(s, p, f)

(* make_page_table(dir, ti): the table goes at the heap's next aligned   *)
(* page; with paging on its physical address is looked up through the    *)
(* directory, and clearing it faults if that page is not mapped.         *)
MakePageTable(s, ti) ==
  LET addr == AlignUp(s.heapEnd)
      phys == IF pagingEnabled THEN PhysicalAddress(s, addr) ELSE addr
      z == MemSet(MemAllocAligned(s, TablePages), addr, TablePages)
  IN IF z.panic THEN z
     ELSE [z EXCEPT !.tables[ti] = addr,
                    !.pde[ti] = [present |-> TRUE, frame |-> phys \div PageSize],
                    !.pte = [p \in VPages |-> IF p \div TableSpan = ti THEN Absent
                                               ELSE s.pte[p]]]

(* get_page(dir, a): makes the table of a if it has none.                 *)
GetPage(s, a) ==
  IF s.tables[TableOf(a)] = 0 THEN MakePageTable(s, TableOf(a)) ELSE s

(* free_page(&page p, FALSE): the frame stays marked.                     *)
FreePage(s, p) == [s EXCEPT !.pte[p].present = FALSE]

-----------------------------------------------------------------------------
Init ==
  /\ pc = "boot"
  /\ loopFrame = 0
  /\ heapEnd = HeapStart
  /\ frames = {}
  /\ tables = [t \in TableIdx |-> 0]
  /\ pde = [t \in TableIdx |-> Absent]
  /\ pte = [p \in VPages |-> Absent]
  /\ pagingEnabled = FALSE
  /\ panicked = FALSE

(* paging_install up to the loop: empty frame bitset, kernel_directory   *)
(* allocated and cleared (no table, no entry).                            *)
PagingInstallBegin ==
  /\ pc = "boot"
  /\ pc' = "loop"
  /\ heapEnd' = MemAllocAligned(St, DirPages).heapEnd
  /\ frames' = {}
  /\ tables' = [t \in TableIdx |-> 0]
  /\ pde' = [t \in TableIdx |-> Absent]
  /\ loopFrame' = 0
  /\ UNCHANGED <<pte, pagingEnabled, panicked>>

(* Mutant: the for loop's frame += 0x1000 is lost.                         *)
IdentityMapStepNoAdvance ==
  /\ pc = "loop"
  /\ loopFrame < heapEnd
  /\ LET r == GetPage(St, loopFrame)
     IN Commit(MapPageToFrame(r, PageOf(loopFrame), loopFrame \div PageSize))
  /\ loopFrame' = loopFrame

(* One turn of the identity-map loop: the bound unallocated_mem is read   *)
(* again at every turn, and get_page may move it by making a table.       *)
IdentityMapStep ==
  /\ pc = "loop"
  /\ loopFrame < heapEnd
  /\ LET r == GetPage(St, loopFrame)
     IN Commit(MapPageToFrame(r, PageOf(loopFrame), loopFrame \div PageSize))
  /\ loopFrame' = loopFrame + PageSize

(* Mutant: the loop stops one page early.                                 *)
PagingSwitchEarly ==
  /\ pc = "loop"
  /\ loopFrame + PageSize >= heapEnd
  /\ pc' = "running"
  /\ pagingEnabled' = TRUE
  /\ UNCHANGED <<loopFrame, heapEnd, frames, tables, pde, pte, panicked>>

(* The loop exits; switch_page_directory(kernel_directory) sets CR3 and  *)
(* CR0.PG, then paging_enabled = TRUE.                                    *)
PagingSwitch ==
  /\ pc = "loop"
  /\ loopFrame >= heapEnd
  /\ pc' = "running"
  /\ pagingEnabled' = TRUE
  /\ UNCHANGED <<loopFrame, heapEnd, frames, tables, pde, pte, panicked>>

(* request_virtual_space(va): the range test of line 191 never refuses a *)
(* page-aligned va; get_page (possibly faulting in make_page_table);     *)
(* refused if present; else map_page.                                     *)
RequestVirtualSpace(va) ==
  LET r == GetPage(St, va)
      p == PageOf(va)
  IN /\ pc = "running"
     /\ UNCHANGED loopFrame
     /\ (va % PageSize) + PageSize <= UpperMemory
     /\ \/ r.panic /\ Commit(r)
        \/ ~r.panic /\ r.pte[p].present /\ Commit(r)
        \/ ~r.panic /\ ~r.pte[p].present /\ Commit(MapPage(r, p))

(* free_virtual_space(va): get_page, then free_page(page, FALSE).         *)
FreeVirtualSpace(va) ==
  LET r == GetPage(St, va)
  IN /\ pc = "running"
     /\ UNCHANGED loopFrame
     /\ Commit(IF r.panic THEN r ELSE FreePage(r, PageOf(va)))

(* new_page_dir: allocates and clears a directory, returns NULL.          *)
NewPageDir ==
  LET addr == AlignUp(heapEnd)
  IN /\ pc = "running"
     /\ UNCHANGED loopFrame
     /\ Commit(MemSet(MemAllocAligned(St, DirPages), addr, DirPages))

(* A fault on a page with no present entry: page_fault_handler throws    *)
(* before looking at the error code.                                      *)
PageFaultHandler(va) ==
  /\ pc = "running"
  /\ ~(tables[TableOf(va)] # 0 /\ pte[PageOf(va)].present)
  /\ panicked' = TRUE
  /\ UNCHANGED <<pc, loopFrame, heapEnd, frames, tables, pde, pte, pagingEnabled>>

Next ==
  /\ ~panicked
  /\ \/ PagingInstallBegin
     \/ IdentityMapStep
     \/ PagingSwitch
     \/ NewPageDir
     \/ \E va \in VAs : \/ RequestVirtualSpace(va)
                        \/ FreeVirtualSpace(va)
                        \/ PageFaultHandler(va)

(* paging_install is straight-line boot code: nothing else runs until   *)
(* it returns, so each of its steps is taken while it is enabled.          *)
InstallSteps == PagingInstallBegin \/ IdentityMapStep \/ PagingSwitch

Spec == Init /\ [][Next]_vars /\ WF_vars(~panicked /\ InstallSteps)

-----------------------------------------------------------------------------
TypeOK ==
  /\ pc \in {"boot", "loop", "running"}
  /\ frames \subseteq Frames
  /\ tables \in [TableIdx -> Nat]
  /\ pde \in [TableIdx -> [present : BOOLEAN, frame : Nat]]
  /\ pte \in [VPages -> [present : BOOLEAN, frame : Nat]]
  /\ {pagingEnabled, panicked} \subseteq BOOLEAN

(* Spec 4.B: when paging_install switches to the kernel directory, every *)
(* page from 0 up to the heap high-water mark of that moment, including  *)
(* the pages of the tables the loop itself allocated, is identity-mapped. *)
IdentityMapAtSwitch ==
  [][pc = "loop" /\ pc' = "running" =>
       \A p \in 0..(PageOf(AlignUp(heapEnd)) - 1) :
          tables[TableOf(p * PageSize)] # 0 /\ pte[p] = [present |-> TRUE, frame |-> p]]_vars

(* Every present page's frame is marked in the frame bitset, and no two  *)
(* present pages share a frame: neither the identity map nor any later   *)
(* request_virtual_space hands out a frame that backs another page.      *)
FramesNotShared ==
  \A p \in VPages : pte[p].present =>
     /\ pte[p].frame \in frames
     /\ \A q \in VPages \ {p} : pte[q].present => pte[q].frame # pte[p].frame

(* Spec 4.B: request_virtual_space returns success or failure; it never  *)
(* halts the kernel.                                                      *)
RequestReturns ==
  [][\A va \in VAs : RequestVirtualSpace(va) => ~panicked']_vars

(* paging_install terminates: the identity-map loop, whose bound grows as *)
(* get_page makes tables in the heap, reaches the bound and switches to   *)
(* paging, unless a throw halts the kernel first.                          *)
PagingInstallTerminates == <>(pc = "running" \/ panicked)

=============================================================================
