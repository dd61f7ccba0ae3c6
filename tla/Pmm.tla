-------------------------------- MODULE Pmm --------------------------------
(***************************************************************************)
(* pmm.c: the physical page bitmap.  pmm_init runs one loop per step       *)
(* (one memory-map entry, then the kernel image, the low pages and the     *)
(* frame buffer); afterwards the kernel allocates and frees runs of pages. *)
(* The bitmap is the set of the pages whose bit is 1 (in use).             *)
(***************************************************************************)
EXTENDS Integers, Sequences, FiniteSets

CONSTANTS
    PageSize,             \* PAGE_SIZE, in address units
    Map,                  \* the AVAILABLE entries [base, length] of the memory map
    MaxAddr,              \* the highest end of those entries
    KernelStart,          \* _kernel_start
    KernelEnd,            \* _kernel_end; the bitmap follows it
    LowPages,             \* pages below 1 MiB
    FbBase, FbSize,       \* frame buffer; FbSize = 0 when there is none
    RunSizes              \* the n the kernel asks pmm_alloc_contiguous_pages for

VARIABLES
    phase,     \* the loop of pmm_init that runs next, then "run"
    done,      \* memory-map entries already cleared
    bitmap,    \* pages marked used
    used,      \* used_pages
    live       \* runs handed out and not freed (what the callers hold)

pmmVars == <<phase, done, bitmap, used, live>>

StartPage(i) == Map[i].base \div PageSize
EndPage(i) == (Map[i].base + Map[i].length) \div PageSize
EntryPages(i) == StartPage(i) .. (EndPage(i) - 1)
Entries == 1 .. Len(Map)

IsMaxAddr(m) ==
    /\ \A i \in Entries : Map[i].base + Map[i].length <= m
    /\ m = 0 \/ \E i \in Entries : m = Map[i].base + Map[i].length

TotalPages == IF MaxAddr \div PageSize = 0 THEN 1 ELSE MaxAddr \div PageSize
BitmapSize == TotalPages \div 8 + (IF TotalPages % 8 # 0 THEN 1 ELSE 0)
KernelEndPage == (KernelEnd + BitmapSize) \div PageSize + 1
KernelPages == (KernelStart \div PageSize) .. (KernelEndPage - 1)
LowRange == 0 .. (LowPages - 1)
FbPages ==
    IF FbSize = 0 THEN {}
    ELSE (FbBase \div PageSize) .. ((FbBase + FbSize - 1) \div PageSize)
Pages == 0 .. (TotalPages - 1)

Ram == UNION {EntryPages(i) : i \in Entries}
Reserved == KernelPages \cup LowRange \cup FbPages

ASSUME SizesAssumption ==
    /\ PageSize \in Nat \ {0}
    /\ Map \in Seq([base : Nat, length : Nat])
    /\ MaxAddr \in Nat /\ KernelStart \in Nat /\ KernelEnd \in Nat
    /\ LowPages \in Nat \ {0} /\ FbBase \in Nat /\ FbSize \in Nat
    /\ RunSizes \subseteq Nat
ASSUME MaxAddrAssumption == IsMaxAddr(MaxAddr)
\* Boot loaders report a map whose entries do not overlap.
ASSUME DisjointAssumption ==
    \A i, j \in Entries : i # j => EntryPages(i) \cap EntryPages(j) = {}
\* The kernel runs from, and the low pages lie in, the memory the map spans.
ASSUME KernelFitsAssumption == KernelEndPage <= TotalPages /\ LowPages <= TotalPages

(***************************************************************************)
(* pmm_init                                                                *)
(***************************************************************************)
PmmInit ==
    /\ phase = "map"
    /\ done = 0
    /\ bitmap = Pages
    /\ used = TotalPages
    /\ live = {}

ClearEntry ==
    /\ phase = "map" /\ done < Len(Map)
    /\ done' = done + 1
    /\ bitmap' = bitmap \ EntryPages(done + 1)
    /\ used' = used - (EndPage(done + 1) - StartPage(done + 1))
    /\ UNCHANGED <<phase, live>>

\* Mark the pages of S that are still clear.
MarkUsed(S) ==
    /\ bitmap' = bitmap \cup S
    /\ used' = used + Cardinality(S \ bitmap)

MarkKernel_ImageOnly ==
    /\ phase = "map" /\ done = Len(Map)
    /\ phase' = "low"
    /\ MarkUsed((KernelStart \div PageSize) .. (KernelEnd \div PageSize))
    /\ UNCHANGED <<done, live>>
MarkKernel ==
    /\ phase = "map" /\ done = Len(Map)
    /\ phase' = "low"
    /\ MarkUsed(KernelPages)
    /\ UNCHANGED <<done, live>>

MarkLow ==
    /\ phase = "low"
    /\ phase' = "fb"
    /\ MarkUsed(LowRange)
    /\ UNCHANGED <<done, live>>

MarkFb ==
    /\ phase = "fb"
    /\ phase' = "run"
    /\ MarkUsed(FbPages \cap Pages)
    /\ UNCHANGED <<done, live>>

(***************************************************************************)
(* Allocation and release                                                  *)
(***************************************************************************)
Run(b) == b.start .. (b.start + b.n - 1)
LivePages == UNION {Run(b) : b \in live}

Fits_OffByOne(start, n) ==
    start + n <= TotalPages /\ (start .. (start + n - 2)) \cap bitmap = {}
Fits(start, n) ==
    start + n <= TotalPages /\ (start .. (start + n - 1)) \cap bitmap = {}

IsFirstFit(start, n) ==
    /\ Fits(start, n)
    /\ \A s \in Pages : Fits(s, n) => start <= s

pmm_alloc_contiguous_pages(n) ==
    /\ n # 0
    /\ \E start \in Pages :
          /\ IsFirstFit(start, n)
          /\ bitmap' = bitmap \cup (start .. (start + n - 1))
          /\ used' = used + n
          /\ live' = live \cup {[start |-> start, n |-> n]}
    /\ UNCHANGED <<phase, done>>

pmm_alloc_page ==
    /\ \E i \in Pages \ bitmap :
          /\ \A j \in Pages \ bitmap : i <= j
          /\ bitmap' = bitmap \cup {i}
          /\ used' = used + 1
          /\ live' = live \cup {[start |-> i, n |-> 1]}
    /\ UNCHANGED <<phase, done>>

\* The pages pmm_free_contiguous(ptr, n) clears: set ones below total_pages.
Freed(b) == {p \in Run(b) : p < TotalPages} \cap bitmap

pmm_free_contiguous_KeepLast(b) ==
    /\ bitmap' = bitmap \ (Freed(b) \ {b.start + b.n - 1})
    /\ used' = used - Cardinality(Freed(b) \ {b.start + b.n - 1})
    /\ live' = live \ {b}
    /\ UNCHANGED <<phase, done>>
pmm_free_contiguous(b) ==
    /\ bitmap' = bitmap \ Freed(b)
    /\ used' = used - Cardinality(Freed(b))
    /\ live' = live \ {b}
    /\ UNCHANGED <<phase, done>>

pmm_free_page_NoCount(b) ==
    /\ bitmap' = bitmap \ {b.start}
    /\ UNCHANGED used
    /\ live' = live \ {b}
    /\ UNCHANGED <<phase, done>>
pmm_free_page(b) ==
    /\ IF b.start < TotalPages /\ b.start \in bitmap
         THEN bitmap' = bitmap \ {b.start} /\ used' = used - 1
         ELSE UNCHANGED <<bitmap, used>>
    /\ live' = live \ {b}
    /\ UNCHANGED <<phase, done>>

Boot == ClearEntry \/ MarkKernel \/ MarkLow \/ MarkFb

AllocPage == phase = "run" /\ pmm_alloc_page
AllocRun == phase = "run" /\ \E n \in RunSizes : pmm_alloc_contiguous_pages(n)
FreePage == phase = "run" /\ \E b \in live : b.n = 1 /\ pmm_free_page(b)
FreeRun == phase = "run" /\ \E b \in live : pmm_free_contiguous(b)

PmmNext == Boot \/ AllocPage \/ AllocRun \/ FreePage \/ FreeRun

PmmSpec == PmmInit /\ [][PmmNext]_pmmVars

(***************************************************************************)
(* Properties                                                              *)
(***************************************************************************)
\* Every variable of pmm.c has its type.
PmmTypeOK ==
    /\ phase \in {"map", "low", "fb", "run"}
    /\ done \in 0 .. Len(Map)
    /\ bitmap \subseteq Pages
    /\ used \in Int
    /\ live \subseteq [start : Pages, n : Nat \ {0}]

\* used_pages, kept by hand next to every bit that changes, is the number of
\* set bits: what pmm_get_used_memory and pmm_get_free_memory report is true.
UsedCountsBits == used = Cardinality(bitmap)

\* Once pmm_init is done the set bits are exactly the pages outside the map,
\* the reserved pages and the pages of live runs: nothing leaks, nothing held
\* is free.
BooksBalance ==
    phase = "run" =>
        bitmap = (Pages \ Ram) \cup (Reserved \cap Pages) \cup LivePages

\* No page is held twice: two live runs never overlap.
NoPageHeldTwice ==
    \A b, c \in live : b # c => Run(b) \cap Run(c) = {}

\* Pages handed out are RAM of the map, and neither kernel, low memory nor
\* frame buffer (the screen corruption the comment in pmm_init describes).
HandedOutIsUsable == LivePages \subseteq Ram \ Reserved

\* pmm.c implements the abstract allocator over the usable pages.
Allocator == INSTANCE PageAllocator WITH
    Usable <- Ram \ Reserved, Lengths <- (RunSizes \cup {1}) \ {0},
    ready <- phase = "run", held <- live
ImplementsAllocator == Allocator!AbsSpec

\* The inductive invariant: what the bitmap is in every phase.
PmmInv ==
    /\ PmmTypeOK
    /\ UsedCountsBits
    /\ NoPageHeldTwice
    /\ HandedOutIsUsable
    /\ phase # "run" => live = {}
    /\ phase # "map" => done = Len(Map)
    /\ phase = "map" => bitmap = Pages \ UNION {EntryPages(i) : i \in 1 .. done}
    /\ phase = "low" => bitmap = (Pages \ Ram) \cup KernelPages
    /\ phase = "fb" => bitmap = (Pages \ Ram) \cup KernelPages \cup LowRange
    /\ BooksBalance
=============================================================================
