-------------------------- MODULE MCPhysicalMemory ---------------------------
(***************************************************************************)
(* Instances of PhysicalMemory for TLC.  Pages of 2 bytes, bitmap words of *)
(* 4 bits in 1 byte; 12 pages, so three words and a bitmap of two pages.   *)
(***************************************************************************)
EXTENDS PhysicalMemory

At(kind, base, length) == [kind |-> kind, base |-> base, length |-> length]

\* The kernel and a module inside usable memory, neither page-aligned, and
\* usable regions that meet in the middle of a page.
Crowded == <<At("Usable", 0, 9), At("Usable", 9, 15),
             At("KernelImage", 4, 3), At("BootModule", 7, 2)>>

\* A hole after a usable region that does not end on a page, as the first 640
\* KiB of a PC; the bitmap has to move past the kernel.
Ragged == <<At("Usable", 0, 9), At("Reserved", 9, 5),
            At("Usable", 14, 10), At("KernelImage", 14, 3)>>

BothMaps == {Crowded, Ragged}
=============================================================================
