------------------------------- MODULE MCPaging -------------------------------
(* Four tables of four pages, 12 frames of memory, a heap that ends in the *)
(* middle of page 1 when paging_install starts.  The loop then allocates   *)
(* the directory (pages 2-3) and two tables (pages 4 and 5), which moves   *)
(* the loop bound twice; six frames remain for requests.                   *)
EXTENDS Paging
MCPageSize == 2
MCTableSpan == 4
MCNumTables == 4
MCUpperMemory == 24
MCHeapStart == 3
MCDirPages == 2
MCTablePages == 1
\* page 6 and 7: the heap's next pages after install (tables 1 and 2 land
\* there); 8: in no table yet; 13: in the last table.
MCCallPages == {6, 7, 8, 13}
=============================================================================
