------------------------------- MODULE Loader -------------------------------
(***************************************************************************)
(* How an ELF image comes into memory: the boot loaders of both kernels,   *)
(* which read a disk by sectors, and the loaders of programs, which copy   *)
(* from an image in memory.  The byte at offset o of the image is o; the   *)
(* image starts at a sector of the disk, which goes on behind it.          *)
(*                                                                         *)
(* All four round the address of a segment down, to a sector or to a page. *)
(* The boot loaders round the offset down, too; the others copy from the   *)
(* unrounded offset to the rounded address.                                *)
(***************************************************************************)
EXTENDS Integers, Sequences, FiniteSets

CONSTANTS SECTORSIZE, PAGESIZE,
          MemorySize,           \* bound: the bytes of memory
          Segments              \* [p_offset, p_va, p_filesz, p_memsz, load]

VARIABLES loader,       \* "bootmain", "boot", "program_loader", "program_load"
          magic,        \* the image starts with ELF_MAGIC
          ph,           \* the program headers
          n,            \* the next one
          memory,
          owned,        \* the pages physical_page_alloc has given (MemOS)
          result        \* "loading", "entered", "refused" or "failed"

vars == <<loader, magic, ph, n, memory, owned, result>>

Bytes == 0..MemorySize - 1
Unset == -1
Down(a, size) == a - (a % size)
Boots == loader \in {"bootmain", "boot"}

Init ==
  /\ loader \in {"bootmain", "boot", "program_loader", "program_load"}
  /\ magic \in BOOLEAN
  /\ ph \in [1..2 -> Segments]
  /\ n = 1 /\ memory = [a \in Bytes |-> Unset] /\ owned = {} /\ result = "loading"

-----------------------------------------------------------------------------
\* Memory with count bytes from offset on copied to a, and zeros in from..to-1.
Copied(m, a, offset, count) ==
  [b \in Bytes |-> IF a <= b /\ b < a + count THEN offset + b - a ELSE m[b]]
Zeroed(m, from, to) == [b \in Bytes |-> IF from <= b /\ b < to THEN 0 ELSE m[b]]

readsect(m, a, sect) == Copied(m, a, sect * SECTORSIZE, SECTORSIZE)

RECURSIVE Sectors(_, _, _, _)
Sectors(m, va, end_va, sect) ==
  IF va < end_va
  THEN Sectors(readsect(m, va, sect), va + SECTORSIZE, end_va, sect + 1)
  ELSE m

\* Mutant: the bss is cleared before the sectors are read.
readsegClearedFirst(m, p) ==
  LET end_va == p.p_va + p.p_filesz IN
  Sectors(Zeroed(m, end_va, p.p_va + p.p_memsz),
          Down(p.p_va, SECTORSIZE), end_va, p.p_offset \div SECTORSIZE)

\* Whole sectors are read, and what follows the file's part is cleared.
readseg(m, p) ==
  LET end_va == p.p_va + p.p_filesz IN
  Zeroed(Sectors(m, Down(p.p_va, SECTORSIZE), end_va, p.p_offset \div SECTORSIZE),
         end_va, p.p_va + p.p_memsz)

\* The same in MemOS.
boot_readseg(m, p) == readseg(m, p)

\* The count makes up for the rounding, the source does not.
copyseg(m, p) ==
  LET va == Down(p.p_va, PAGESIZE)
      end_va == p.p_va + p.p_filesz
  IN Zeroed(Copied(m, va, p.p_offset, end_va - va), end_va, p.p_va + p.p_memsz)

-----------------------------------------------------------------------------
Unchecked == UNCHANGED <<loader, magic, ph>>

\* Without ELF_MAGIC the boot loaders return, and the others stop the kernel.
Refuse == /\ result = "loading" /\ n = 1 /\ ~magic /\ result' = "refused"
          /\ Unchecked /\ UNCHANGED <<n, memory, owned>>

bootmain == /\ loader = "bootmain" /\ memory' = readseg(memory, ph[n])
            /\ UNCHANGED <<owned, result>>

boot == /\ loader = "boot" /\ memory' = boot_readseg(memory, ph[n])
        /\ UNCHANGED <<owned, result>>

program_loader ==
  /\ loader = "program_loader"
  /\ memory' = IF ph[n].load THEN copyseg(memory, ph[n]) ELSE memory
  /\ UNCHANGED <<owned, result>>

\* MemOS takes the pages of a segment one by one; one that is taken already is
\* refused, and those taken before it stay with the process.
PagesOf(p) == {Down(a, PAGESIZE) : a \in {b \in Bytes : Down(p.p_va, PAGESIZE) <= b
                                                      /\ b < p.p_va + p.p_memsz}}

\* physical_page_alloc gives the page.
Available(a) == a % PAGESIZE = 0 /\ a < MemorySize /\ a \notin owned

program_load ==
  /\ loader = "program_load"
  /\ IF ~ph[n].load THEN UNCHANGED <<memory, owned, result>>
     ELSE LET pages == PagesOf(ph[n])
              before == {a \in pages : \A b \in pages : b <= a => Available(b)}
          IN /\ owned' = owned \cup before
             /\ IF before = pages
                THEN memory' = copyseg(memory, ph[n]) /\ UNCHANGED result
                ELSE result' = "failed" /\ UNCHANGED memory

Load == /\ result = "loading" /\ magic /\ n <= Len(ph)
        /\ bootmain \/ boot \/ program_loader \/ program_load
        /\ n' = n + 1 /\ Unchecked

Enter == /\ result = "loading" /\ magic /\ n > Len(ph) /\ result' = "entered"
         /\ Unchecked /\ UNCHANGED <<n, memory, owned>>

Next == Refuse \/ Load \/ Enter

-----------------------------------------------------------------------------
(* Properties *)

\* A segment is in its place: its bytes of the image, and zeros behind them.
InPlace(p) ==
  /\ \A j \in 0..p.p_filesz - 1 : memory[p.p_va + j] = p.p_offset + j
  /\ \A j \in p.p_filesz..p.p_memsz - 1 : memory[p.p_va + j] = 0

IsLoaded(p) == Boots \/ p.load

Aligned(p) == IF Boots THEN p.p_va % SECTORSIZE = p.p_offset % SECTORSIZE
              ELSE p.p_va % PAGESIZE = 0

\* The addresses a segment is written to, rounding included.
Written(p) ==
  LET size == IF Boots THEN SECTORSIZE ELSE PAGESIZE
      end == p.p_va + p.p_filesz
      last == IF Boots /\ end % SECTORSIZE # 0 THEN Down(end, SECTORSIZE) + SECTORSIZE ELSE end
  IN {a \in Bytes : Down(p.p_va, size) <= a /\ (a < last \/ a < p.p_va + p.p_memsz)}
Own(p) == {a \in Bytes : p.p_va <= a /\ a < p.p_va + p.p_memsz}

\* A segment comes to its place exactly when its address is aligned as the loader
\* expects: like its offset in a sector for the boot loaders, to a page for the
\* loaders of programs, whose comments promise any address.
PlacedIfAligned ==
  n > 1 /\ result # "failed" /\ IsLoaded(ph[n - 1]) /\ ph[n - 1].p_filesz > 0 =>
    (InPlace(ph[n - 1]) <=> Aligned(ph[n - 1]))

\* When the kernel or the program is entered every segment is in its place, if all
\* are aligned and none is written over by the rounding of one loaded after it.
AllPlacedOnEntry ==
  /\ result = "entered"
  /\ \A j \in 1..2 : IsLoaded(ph[j]) => Aligned(ph[j])
  /\ IsLoaded(ph[1]) /\ IsLoaded(ph[2]) => Written(ph[2]) \cap Own(ph[1]) = {}
  => \A j \in 1..2 : IsLoaded(ph[j]) => InPlace(ph[j])

\* MemOS loads a program exactly when no two of its segments share a page, and
\* what it then owns is their pages.
PagesAreOwn ==
  loader = "program_load" /\ n > 2 =>
    LET page(a) == Down(a, PAGESIZE)
        of(j) == IF ph[j].load
                 THEN {page(a) : a \in Own(ph[j])} \cup (IF ph[j].p_memsz > 0 THEN {page(ph[j].p_va)} ELSE {})
                 ELSE {}
    IN /\ result = "failed" <=> of(1) \cap of(2) # {}
       /\ result # "failed" => owned = of(1) \cup of(2)
=============================================================================
