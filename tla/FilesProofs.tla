---------------------------- MODULE FilesProofs -----------------------------
(***************************************************************************)
(* The page bitmap keeps its books for every memory map, every kernel      *)
(* image and every sequence of allocations and releases; volumes, current  *)
(* directories and descriptors, for any drives, any sizes of disks and any *)
(* number of descriptors.                                                  *)
(***************************************************************************)
EXTENDS Files, WellFoundedInduction, NaturalsInduction, FiniteSetTheorems, SequenceTheorems, TLAPS

(***************************************************************************)
(* Pmm                                                                     *)
(***************************************************************************)
USE SizesAssumption

\* Scaling by a page size keeps the order of page numbers.
LEMMA MulMono ==
    ASSUME NEW d \in Nat, NEW p \in Int, NEW q \in Int, p + 1 <= q
    PROVE  d * p + d <= d * q
<1>1. PICK k \in Nat : q = p + 1 + k
  <2>1. q - p - 1 \in Nat /\ q = p + 1 + (q - p - 1)
    OBVIOUS
  <2>2. QED
    BY <2>1
<1>2. d * (p + 1 + k) = d * p + d + d * k
  OBVIOUS
<1>3. d * k \in Nat /\ d * p \in Int
  OBVIOUS
<1>4. QED
  BY <1>1, <1>2, <1>3

\* The division that turns an address into a page number is monotone.
LEMMA DivMono ==
    ASSUME NEW a \in Nat, NEW b \in Nat, NEW d \in Nat \ {0}, a <= b
    PROVE  a \div d \in Nat /\ a \div d <= b \div d
<1> DEFINE p == a \div d
           q == b \div d
<1>1. p \in Nat /\ q \in Nat /\ d * p <= a /\ b < d * q + d
  OBVIOUS
<1>2. SUFFICES ASSUME q + 1 <= p PROVE FALSE
  BY <1>1
<1>3. d * q + d <= d * p
  BY <1>1, <1>2, MulMono
<1>4. d * q \in Int /\ d * p \in Int
  BY <1>1
<1> HIDE DEF p, q
<1>5. QED
  BY <1>1, <1>3, <1>4

\* The page numbers derived from the constants are naturals, and total_pages
\* covers every page pmm_init touches.
LEMMA PageNumbers ==
    /\ TotalPages \in Nat \ {0}
    /\ \A i \in Entries : /\ StartPage(i) \in Nat /\ EndPage(i) \in Nat
                          /\ StartPage(i) <= EndPage(i)
                          /\ EntryPages(i) \subseteq Pages
    /\ KernelPages \subseteq Pages
    /\ LowRange \subseteq Pages
    /\ IsFiniteSet(Pages) /\ Cardinality(Pages) = TotalPages
<1>1. TotalPages \in Nat \ {0}
  BY DEF TotalPages
<1>2. ASSUME NEW i \in Entries
      PROVE  /\ StartPage(i) \in Nat /\ EndPage(i) \in Nat
             /\ StartPage(i) <= EndPage(i)
             /\ EntryPages(i) \subseteq Pages
  <2>0. Map[i] \in [base : Nat, length : Nat]
    BY <1>2, ElementOfSeq DEF Entries
  <2>1. /\ Map[i].base \in Nat /\ Map[i].length \in Nat
        /\ Map[i].base + Map[i].length <= MaxAddr
    BY <1>2, <2>0, MaxAddrAssumption DEF IsMaxAddr
  <2>2. /\ StartPage(i) \in Nat /\ EndPage(i) \in Nat
        /\ StartPage(i) <= EndPage(i) /\ EndPage(i) <= MaxAddr \div PageSize
    <3> DEFINE lo == Map[i].base
               hi == Map[i].base + Map[i].length
    <3>0. \A x, y \in Nat : x + y \in Nat /\ x <= x + y
      OBVIOUS
    <3>1. lo \in Nat /\ hi \in Nat /\ lo <= hi /\ hi <= MaxAddr
      BY <2>1, <3>0, Zenon
    <3> HIDE DEF lo, hi
    <3>2. lo \div PageSize \in Nat /\ lo \div PageSize <= hi \div PageSize
      BY <3>1, DivMono
    <3>3. hi \div PageSize \in Nat /\ hi \div PageSize <= MaxAddr \div PageSize
      BY <3>1, DivMono
    <3>4. QED
      BY <3>2, <3>3 DEF StartPage, EndPage, lo, hi
  <2>3. EndPage(i) <= TotalPages
    BY <2>2 DEF TotalPages
  <2>4. QED
    BY <2>2, <2>3, <1>1 DEF EntryPages, Pages
<1>3. KernelPages \subseteq Pages
  <2>1. KernelStart \div PageSize \in Nat
    OBVIOUS
  <2>2. BitmapSize \in Nat
    BY <1>1 DEF BitmapSize
  <2>3. KernelEndPage \in Nat
    BY <2>2 DEF KernelEndPage
  <2>4. QED
    BY <1>1, <2>1, <2>3, KernelFitsAssumption DEF KernelPages, Pages
<1>4. LowRange \subseteq Pages
  BY <1>1, KernelFitsAssumption DEF LowRange, Pages
<1>5. IsFiniteSet(Pages) /\ Cardinality(Pages) = TotalPages
  BY <1>1, FS_Interval DEF Pages
<1>6. QED
  BY <1>1, <1>2, <1>3, <1>4, <1>5

\* Marking a set of pages adds exactly the bits it sets to used_pages.
LEMMA MarkKeepsCount ==
    ASSUME PmmTypeOK, UsedCountsBits, NEW S, S \subseteq Pages, MarkUsed(S)
    PROVE  bitmap' \subseteq Pages /\ used' \in Int /\ UsedCountsBits'
<1>1. IsFiniteSet(bitmap) /\ IsFiniteSet(S)
  BY PageNumbers, FS_Subset DEF PmmTypeOK
<1>2. IsFiniteSet(S \ bitmap) /\ (S \ bitmap) \cap bitmap = {}
  BY <1>1, FS_Difference
<1>3. bitmap \cup S = bitmap \cup (S \ bitmap) /\ bitmap \cap (S \ bitmap) = {}
  OBVIOUS
<1>4. Cardinality(bitmap \cup (S \ bitmap))
        = Cardinality(bitmap) + Cardinality(S \ bitmap) - Cardinality({})
  BY <1>1, <1>2, <1>3, FS_Union
<1>5. /\ Cardinality(bitmap) \in Nat /\ Cardinality(S \ bitmap) \in Nat
      /\ Cardinality({}) = 0
  BY <1>1, <1>2, FS_CardinalityType, FS_EmptySet
<1>6. bitmap' = bitmap \cup (S \ bitmap) /\ used' = used + Cardinality(S \ bitmap)
  BY <1>3 DEF MarkUsed
<1>7. used' \in Int /\ UsedCountsBits'
  BY <1>4, <1>5, <1>6 DEF UsedCountsBits
<1>8. QED
  BY <1>6, <1>7 DEF PmmTypeOK

\* Clearing a set of pages takes exactly the bits it clears from used_pages.
LEMMA ClearKeepsCount ==
    ASSUME PmmTypeOK, UsedCountsBits, NEW S, S \subseteq bitmap,
           bitmap' = bitmap \ S, used' = used - Cardinality(S)
    PROVE  bitmap' \subseteq Pages /\ used' \in Int /\ UsedCountsBits'
<1>1. IsFiniteSet(bitmap)
  BY PageNumbers, FS_Subset DEF PmmTypeOK
<1>2. IsFiniteSet(S) /\ bitmap \cap S = S
  BY <1>1, FS_Subset
<1>3. Cardinality(bitmap \ S) = Cardinality(bitmap) - Cardinality(S)
  BY <1>1, <1>2, FS_Difference
<1>4. Cardinality(bitmap) \in Nat /\ Cardinality(S) \in Nat
  BY <1>1, <1>2, FS_CardinalityType
<1>5. QED
  BY <1>3, <1>4 DEF UsedCountsBits, PmmTypeOK

\* pmm_init starts from a bitmap that is all ones.
LEMMA PmmInitInv == PmmInit => PmmInv
<1> SUFFICES ASSUME PmmInit PROVE PmmInv
  OBVIOUS
<1>1. PmmTypeOK /\ UsedCountsBits
  BY PageNumbers DEF PmmInit, PmmTypeOK, UsedCountsBits
<1>2. UNION {EntryPages(i) : i \in 1 .. done} = {}
  BY DEF PmmInit
<1>3. QED
  BY <1>1, <1>2
  DEF PmmInit, PmmInv, NoPageHeldTwice, HandedOutIsUsable, LivePages, BooksBalance

\* Every loop of pmm_init leaves the bitmap its phase requires.
LEMMA BootKeepsPmmInv == PmmInv /\ Boot => PmmInv'
<1> SUFFICES ASSUME PmmInv, Boot PROVE PmmInv'
  OBVIOUS
<1> USE DEF PmmInv
<1>0. live' = live /\ phase # "run" /\ live = {}
  BY DEF Boot, ClearEntry, MarkKernel, MarkLow, MarkFb, PmmTypeOK
<1>1. NoPageHeldTwice' /\ HandedOutIsUsable'
  BY <1>0 DEF NoPageHeldTwice, HandedOutIsUsable, LivePages
<1>2. CASE ClearEntry
  <2> DEFINE e == done + 1
  <2>1. e \in Entries /\ done \in Nat /\ Len(Map) \in Nat
    <3>1. PmmTypeOK
      OBVIOUS
    <3> HIDE DEF PmmInv
    <3>2. done \in 0 .. Len(Map) /\ done < Len(Map)
      BY <1>2, <3>1 DEF ClearEntry, PmmTypeOK
    <3>3. QED
      BY <3>2, SizesAssumption DEF Entries
  <2>2. EntryPages(e) \subseteq bitmap
    <3>1. \A i \in 1 .. done : i \in Entries /\ i # e
      <4> HIDE DEF PmmInv
      <4>1. done < Len(Map)
        BY <1>2 DEF ClearEntry
      <4>2. QED
        BY <2>1, <4>1 DEF Entries
    <3>2. \A i \in 1 .. done : EntryPages(i) \cap EntryPages(e) = {}
      BY <2>1, <3>1, DisjointAssumption
    <3>3. QED
      BY <1>2, <2>1, <3>2, PageNumbers DEF ClearEntry
  <2>3. Cardinality(EntryPages(e)) = EndPage(e) - StartPage(e)
    <3>1. /\ StartPage(e) \in Nat /\ EndPage(e) \in Nat
          /\ StartPage(e) <= EndPage(e)
      BY <2>1, PageNumbers
    <3> DEFINE a == StartPage(e)
               b == EndPage(e) - 1
    <3>2. a \in Int /\ b \in Int /\ a <= b + 1
      BY <3>1
    <3> HIDE DEF a, b
    <3>3. Cardinality(a .. b) = b - a + 1
      BY <3>2, FS_Interval
    <3>4. QED
      BY <3>1, <3>3 DEF EntryPages, a, b
  <2>4. bitmap' \subseteq Pages /\ used' \in Int /\ UsedCountsBits'
    <3>1. bitmap' = bitmap \ EntryPages(e)
          /\ used' = used - Cardinality(EntryPages(e))
      BY <1>2, <2>3 DEF ClearEntry
    <3>2. QED
      BY <3>1, <2>2, ClearKeepsCount
  <2>5. PmmTypeOK'
    <3>1. done' = done + 1 /\ done < Len(Map) /\ phase' = phase
      BY <1>2 DEF ClearEntry
    <3>2. done' \in 0 .. Len(Map)
      BY <3>1, <2>1
    <3>3. phase \in {"map", "low", "fb", "run"}
          /\ live \subseteq [start : Pages, n : Nat \ {0}]
      BY DEF PmmTypeOK
    <3> HIDE DEF PmmInv
    <3>4. phase' \in {"map", "low", "fb", "run"}
          /\ live' \subseteq [start : Pages, n : Nat \ {0}]'
      BY <1>0, <3>1, <3>3 DEF Pages, TotalPages
    <3>5. QED
      BY <2>4, <3>2, <3>4, Zenon DEF PmmTypeOK
  <2>6. bitmap' = Pages \ UNION {EntryPages(i) : i \in 1 .. done'}
    <3>1. 1 .. done' = (1 .. done) \cup {e}
      <4> HIDE DEF PmmInv
      <4>1. done' = done + 1 /\ done \in Nat
        BY <1>2, <2>1 DEF ClearEntry
      <4>2. QED
        BY <4>1
    <3>2. QED
      BY <1>2, <3>1 DEF ClearEntry
  <2>7. QED
    BY <1>0, <1>1, <1>2, <2>4, <2>5, <2>6 DEF ClearEntry, BooksBalance
<1>3. CASE MarkKernel
  <2>1. bitmap' \subseteq Pages /\ used' \in Int /\ UsedCountsBits'
    BY <1>3, PageNumbers, MarkKeepsCount DEF MarkKernel
  <2>2. PmmTypeOK'
    BY <1>3, <2>1 DEF MarkKernel, PmmTypeOK
  <2>3. bitmap = Pages \ Ram
    BY <1>3 DEF MarkKernel, Ram, Entries
  <2>4. QED
    BY <1>0, <1>1, <1>3, <2>1, <2>2, <2>3 DEF MarkKernel, MarkUsed, BooksBalance
<1>4. CASE MarkLow
  <2>1. bitmap' \subseteq Pages /\ used' \in Int /\ UsedCountsBits'
    BY <1>4, PageNumbers, MarkKeepsCount DEF MarkLow
  <2>2. PmmTypeOK'
    BY <1>4, <2>1 DEF MarkLow, PmmTypeOK
  <2>3. QED
    BY <1>0, <1>1, <1>4, <2>1, <2>2 DEF MarkLow, MarkUsed, BooksBalance
<1>5. CASE MarkFb
  <2>1. bitmap' \subseteq Pages /\ used' \in Int /\ UsedCountsBits'
    BY <1>5, MarkKeepsCount DEF MarkFb
  <2>2. PmmTypeOK'
    BY <1>5, <2>1 DEF MarkFb, PmmTypeOK
  <2>3. bitmap' = (Pages \ Ram) \cup (Reserved \cap Pages)
    BY <1>5, PageNumbers DEF MarkFb, MarkUsed, Reserved
  <2>4. LivePages' = {}
    BY <1>0 DEF LivePages
  <2>5. QED
    BY <1>0, <1>1, <1>5, <2>1, <2>2, <2>3, <2>4 DEF MarkFb, BooksBalance
<1>6. QED
  BY <1>2, <1>3, <1>4, <1>5 DEF Boot

\* A run that fits lies in clear pages of the map, so it can be granted: it
\* is usable and meets no live run.
LEMMA ClearIsUsable ==
    ASSUME PmmInv, phase = "run", NEW S, S \subseteq Pages, S \cap bitmap = {}
    PROVE  S \subseteq Ram \ Reserved /\ S \cap LivePages = {}
<1>1. bitmap = (Pages \ Ram) \cup (Reserved \cap Pages) \cup LivePages
  BY DEF PmmInv, BooksBalance
<1>2. QED
  BY <1>1

\* One more run adds its pages.
LEMMA OneMoreRun ==
    ASSUME NEW L, NEW b
    PROVE  UNION {Run(c) : c \in L \cup {b}} = (UNION {Run(c) : c \in L}) \cup Run(b)
OBVIOUS

\* Granting a clear run keeps the books.
LEMMA GrantKeepsPmmInv ==
    ASSUME PmmInv, phase = "run",
           NEW start \in Pages, NEW n \in Nat \ {0}, Fits(start, n),
           bitmap' = bitmap \cup (start .. (start + n - 1)), used' = used + n,
           live' = live \cup {[start |-> start, n |-> n]},
           UNCHANGED <<phase, done>>
    PROVE  PmmInv'
<1> DEFINE b == [start |-> start, n |-> n]
           S == start .. (start + n - 1)
<1>1. start \in Nat /\ start + n <= TotalPages /\ TotalPages \in Nat
  BY PageNumbers DEF Fits, Pages
<1>2. S \subseteq Pages /\ S \cap bitmap = {} /\ Run(b) = S
  BY <1>1 DEF Fits, Pages, Run
<1>3. Cardinality(S) = n
  <2>1. start \in Int /\ start + n - 1 \in Int /\ start <= start + n - 1
    BY <1>1
  <2>2. Cardinality(S) = (start + n - 1) - start + 1
    BY <2>1, FS_Interval
  <2>3. QED
    BY <1>1, <2>2
<1> HIDE DEF S, b
<1>4. bitmap' = bitmap \cup S /\ live' = live \cup {b}
  BY DEF S, b
<1>5. MarkUsed(S)
  <2>1. S \ bitmap = S
    BY <1>2
  <2>2. QED
    BY <1>3, <1>4, <2>1 DEF MarkUsed
<1>6. PmmTypeOK /\ UsedCountsBits
  BY DEF PmmInv
<1>7. bitmap' \subseteq Pages /\ used' \in Int /\ UsedCountsBits'
  BY <1>2, <1>5, <1>6, MarkKeepsCount
<1>8. PmmTypeOK'
  <2>1. b \in [start : Pages, n : Nat \ {0}]
    BY DEF b
  <2>2. QED
    BY <1>4, <1>6, <1>7, <2>1 DEF PmmTypeOK
<1>9. S \subseteq Ram \ Reserved /\ S \cap LivePages = {}
  BY <1>2, ClearIsUsable
<1>10. LivePages' = LivePages \cup S
  <2>1. LivePages' = UNION {Run(c) : c \in live \cup {b}}
    BY <1>4 DEF LivePages
  <2>2. QED
    BY <1>2, <2>1, OneMoreRun DEF LivePages
<1>11. NoPageHeldTwice'
  <2>1. \A c \in live : Run(c) \subseteq LivePages
    BY DEF LivePages
  <2>2. \A c \in live : Run(c) \cap Run(b) = {} /\ Run(b) \cap Run(c) = {}
    BY <1>2, <1>9, <2>1
  <2>3. \A c, d \in live \cup {b} : c # d => Run(c) \cap Run(d) = {}
    BY <2>2 DEF PmmInv, NoPageHeldTwice
  <2>4. QED
    BY <1>4, <2>3 DEF NoPageHeldTwice, Run
<1>12. HandedOutIsUsable'
  BY <1>9, <1>10 DEF PmmInv, HandedOutIsUsable
<1>13. BooksBalance'
  BY <1>4, <1>10 DEF PmmInv, BooksBalance
<1>14. QED
  BY <1>7, <1>8, <1>11, <1>12, <1>13 DEF PmmInv

\* Taking a live run back keeps the books.
LEMMA ReturnKeepsPmmInv ==
    ASSUME PmmInv, phase = "run", NEW b \in live,
           bitmap' = bitmap \ Run(b), used' = used - Cardinality(Run(b)),
           live' = live \ {b}, UNCHANGED <<phase, done>>
    PROVE  PmmInv'
<1>1. Run(b) \subseteq bitmap
  BY DEF PmmInv, BooksBalance, LivePages
<1>2. PmmTypeOK /\ UsedCountsBits
  BY DEF PmmInv
<1>3. bitmap' \subseteq Pages /\ used' \in Int /\ UsedCountsBits'
  BY <1>1, <1>2, ClearKeepsCount
<1>4. PmmTypeOK'
  BY <1>2, <1>3 DEF PmmTypeOK
<1>5. LivePages' = LivePages \ Run(b)
  BY DEF PmmInv, NoPageHeldTwice, LivePages, Run
<1>6. Run(b) \subseteq Ram \ Reserved
  BY DEF PmmInv, HandedOutIsUsable, LivePages
<1>7. NoPageHeldTwice'
  BY DEF PmmInv, NoPageHeldTwice, Run
<1>8. HandedOutIsUsable'
  BY <1>5 DEF PmmInv, HandedOutIsUsable
<1>9. BooksBalance'
  BY <1>5, <1>6 DEF PmmInv, BooksBalance
<1>10. QED
  BY <1>3, <1>4, <1>7, <1>8, <1>9 DEF PmmInv

\* Every step of the allocator keeps the inductive invariant.
LEMMA PmmNextKeepsInv == PmmInv /\ [PmmNext]_pmmVars => PmmInv'
<1> SUFFICES ASSUME PmmInv, [PmmNext]_pmmVars PROVE PmmInv'
  OBVIOUS
<1>1. CASE Boot
  BY <1>1, BootKeepsPmmInv
<1>2. CASE AllocPage
  <2>1. PICK i \in Pages \ bitmap :
           /\ bitmap' = bitmap \cup {i} /\ used' = used + 1
           /\ live' = live \cup {[start |-> i, n |-> 1]}
    BY <1>2 DEF AllocPage, pmm_alloc_page
  <2>2. i \in Nat /\ i + 1 <= TotalPages /\ i .. (i + 1 - 1) = {i}
    BY PageNumbers DEF Pages
  <2>3. Fits(i, 1)
    BY <2>2 DEF Fits
  <2>4. bitmap' = bitmap \cup (i .. (i + 1 - 1))
    BY <2>1, <2>2
  <2>5. phase = "run" /\ UNCHANGED <<phase, done>>
    BY <1>2 DEF AllocPage, pmm_alloc_page
  <2>6. QED
    BY <2>1, <2>3, <2>4, <2>5, GrantKeepsPmmInv
<1>3. CASE AllocRun
  <2>1. PICK n \in RunSizes : pmm_alloc_contiguous_pages(n)
    BY <1>3 DEF AllocRun
  <2>2. PICK start \in Pages :
           /\ Fits(start, n)
           /\ bitmap' = bitmap \cup (start .. (start + n - 1)) /\ used' = used + n
           /\ live' = live \cup {[start |-> start, n |-> n]}
    BY <2>1 DEF pmm_alloc_contiguous_pages, IsFirstFit
  <2>3. n \in Nat \ {0} /\ phase = "run" /\ UNCHANGED <<phase, done>>
    BY <1>3, <2>1 DEF AllocRun, pmm_alloc_contiguous_pages
  <2>4. QED
    BY <2>2, <2>3, GrantKeepsPmmInv
<1>4. CASE FreePage
  <2>1. PICK b \in live : b.n = 1 /\ pmm_free_page(b)
    BY <1>4 DEF FreePage
  <2>2. b.start \in Nat /\ phase = "run"
    BY <1>4, PageNumbers DEF FreePage, PmmInv, PmmTypeOK, Pages
  <2>3. Run(b) = {b.start}
    BY <2>1, <2>2 DEF Run
  <2>4. b.start \in bitmap
    BY <2>2, <2>3 DEF PmmInv, BooksBalance, LivePages
  <2>5. b.start < TotalPages
    BY <2>4, PageNumbers DEF PmmInv, PmmTypeOK, Pages
  <2>6. bitmap' = bitmap \ Run(b) /\ used' = used - Cardinality(Run(b))
    BY <2>1, <2>3, <2>4, <2>5, FS_Singleton DEF pmm_free_page
  <2>7. live' = live \ {b} /\ UNCHANGED <<phase, done>>
    BY <2>1 DEF pmm_free_page
  <2>8. QED
    BY <2>2, <2>6, <2>7, ReturnKeepsPmmInv
<1>5. CASE FreeRun
  <2>1. PICK b \in live : pmm_free_contiguous(b)
    BY <1>5 DEF FreeRun
  <2>2. phase = "run"
    BY <1>5 DEF FreeRun
  <2>3. Run(b) \subseteq bitmap /\ bitmap \subseteq Pages
    BY <2>2 DEF PmmInv, BooksBalance, LivePages, PmmTypeOK
  <2>4. Freed(b) = Run(b)
    <3>1. \A p \in Pages : p < TotalPages
      BY PageNumbers DEF Pages
    <3>2. \A p \in Run(b) : p < TotalPages /\ p \in bitmap
      BY <2>3, <3>1
    <3>3. QED
      BY <3>2 DEF Freed
  <2>5. QED
    BY <2>1, <2>2, <2>4, ReturnKeepsPmmInv DEF pmm_free_contiguous
<1>6. CASE UNCHANGED pmmVars
  BY <1>6 DEF pmmVars, PmmInv, PmmTypeOK, UsedCountsBits, NoPageHeldTwice,
              HandedOutIsUsable, LivePages, BooksBalance, Run
<1>7. QED
  BY <1>1, <1>2, <1>3, <1>4, <1>5, <1>6 DEF PmmNext

\* The inductive invariant of pmm.c holds in every reachable state.
THEOREM PmmInvariant == PmmSpec => []PmmInv
<1>1. QED
  BY PmmInitInv, PmmNextKeepsInv, PTL DEF PmmSpec

\* The bitmap and the runs in use stay inside memory.
THEOREM PmmTypes == PmmSpec => []PmmTypeOK
<1>1. PmmInv => PmmTypeOK
  BY DEF PmmInv
<1>2. QED
  BY <1>1, PmmInvariant, PTL

\* used_pages is the number of set bits, for every memory map.
THEOREM UsedIsExact == PmmSpec => []UsedCountsBits
<1>1. PmmInv => UsedCountsBits
  BY DEF PmmInv
<1>2. QED
  BY <1>1, PmmInvariant, PTL

\* No page leaks and no held page is free: the bitmap is exactly the holes of
\* the map, the reserved pages and the live runs.
THEOREM NothingLeaks == PmmSpec => []BooksBalance
<1>1. PmmInv => BooksBalance
  BY DEF PmmInv
<1>2. QED
  BY <1>1, PmmInvariant, PTL

\* No two callers of pmm_alloc_* ever hold the same page.
THEOREM PagesHeldOnce == PmmSpec => []NoPageHeldTwice
<1>1. PmmInv => NoPageHeldTwice
  BY DEF PmmInv
<1>2. QED
  BY <1>1, PmmInvariant, PTL

\* The kernel image, low memory and the frame buffer are never handed out.
THEOREM ReservedStaysReserved == PmmSpec => []HandedOutIsUsable
<1>1. PmmInv => HandedOutIsUsable
  BY DEF PmmInv
<1>2. QED
  BY <1>1, PmmInvariant, PTL

\* The bitmap implements the abstract allocator: pmm_init is invisible until
\* it ends, an allocation grants a run nobody holds, a release returns one.
THEOREM BitmapImplementsAllocator == PmmSpec => ImplementsAllocator
<1>1. PmmInit => Allocator!AbsInit
  BY DEF PmmInit, Allocator!AbsInit
<1>2. PmmInv /\ [PmmNext]_pmmVars => [Allocator!AbsNext]_(Allocator!absVars)
  <2> SUFFICES ASSUME PmmInv, [PmmNext]_pmmVars
               PROVE  [Allocator!AbsNext]_(Allocator!absVars)
    OBVIOUS
  <2> USE DEF Allocator!absVars
  <2>1. CASE Boot
    <3>1. phase # "run" /\ live' = live
      BY <2>1 DEF Boot, ClearEntry, MarkKernel, MarkLow, MarkFb
    <3>2. CASE phase' = "run"
      BY <3>1, <3>2 DEF Allocator!AbsNext, Allocator!BecomeReady
    <3>3. CASE phase' # "run"
      BY <3>1, <3>3
    <3>4. QED
      BY <3>2, <3>3
  <2>2. ASSUME NEW start \in Pages, NEW n \in (RunSizes \cup {1}) \ {0}, Fits(start, n),
               live' = live \cup {[start |-> start, n |-> n]},
               phase = "run", phase' = phase
        PROVE  Allocator!Grant
    <3> DEFINE b == [start |-> start, n |-> n]
    <3>1. start \in Nat /\ n \in Nat \ {0} /\ start + n <= TotalPages
      BY <2>2 DEF Fits, Pages
    <3>2. /\ Run(b) \subseteq Pages /\ Run(b) \cap bitmap = {}
          /\ start \in Run(b)
      BY <2>2, <3>1, PageNumbers DEF Fits, Pages, Run
    <3>3. Run(b) \subseteq Ram \ Reserved /\ Run(b) \cap LivePages = {}
      BY <2>2, <3>2, ClearIsUsable
    <3>4. b \in [start : Ram \ Reserved, n : (RunSizes \cup {1}) \ {0}]
      BY <2>2, <3>2, <3>3
    <3>5. /\ Allocator!Run(b) = Run(b) /\ Allocator!Held = LivePages
      BY DEF Allocator!Run, Allocator!Held, Run, LivePages
    <3>6. QED
      BY <2>2, <3>3, <3>4, <3>5 DEF Allocator!Grant
  <2>3. CASE AllocPage
    <3>1. PICK i \in Pages \ bitmap : live' = live \cup {[start |-> i, n |-> 1]}
      BY <2>3 DEF AllocPage, pmm_alloc_page
    <3>2. Fits(i, 1)
      BY PageNumbers DEF Fits, Pages
    <3>3. QED
      BY <2>2, <2>3, <3>1, <3>2
      DEF AllocPage, pmm_alloc_page, Allocator!AbsNext
  <2>4. CASE AllocRun
    <3>1. PICK n \in RunSizes : pmm_alloc_contiguous_pages(n)
      BY <2>4 DEF AllocRun
    <3>2. PICK start \in Pages :
             Fits(start, n) /\ live' = live \cup {[start |-> start, n |-> n]}
      BY <3>1 DEF pmm_alloc_contiguous_pages, IsFirstFit
    <3>3. n # 0 /\ phase = "run" /\ phase' = phase
      BY <2>4, <3>1 DEF AllocRun, pmm_alloc_contiguous_pages
    <3>4. QED
      BY <2>2, <3>2, <3>3 DEF Allocator!AbsNext
  <2>5. CASE FreePage \/ FreeRun
    BY <2>5 DEF FreePage, FreeRun, pmm_free_page, pmm_free_contiguous,
                Allocator!AbsNext, Allocator!Return
  <2>6. CASE UNCHANGED pmmVars
    BY <2>6 DEF pmmVars
  <2>7. QED
    BY <2>1, <2>3, <2>4, <2>5, <2>6 DEF PmmNext
<1>3. QED
  BY <1>1, <1>2, PmmInvariant, PTL DEF PmmSpec, ImplementsAllocator, Allocator!AbsSpec

(***************************************************************************)
(* Storage and Files                                                       *)
(***************************************************************************)
Media == Drives \cup {"ram"}

(* The volume is one of the machine's, the root is mounted on it, and both *)
(* current directories are the same directory of it.                       *)
VolumeOK ==
    /\ vol.type \in {"none", "ram", "disk"}
    /\ vol.type = "disk" => vol.drive \in Drives
    /\ media \in [Media -> MediumStates]
    /\ MountedHasVolume /\ CwdOnVolume /\ CwdCopiesAgree

LEMMA VolumeStart == FilesInit => VolumeOK
  BY DEF FilesInit, StorageInit, VolumeOK, NoVol, Media, MediumStates, MountedHasVolume, CwdOnVolume,
         CwdCopiesAgree

LEMMA MediumIsOne == ASSUME VolumeOK PROVE Medium \in Media
  BY DEF VolumeOK, Medium, Media

(* A medium is formatted, gets a directory, or fails half way.             *)
LEMMA MediumKept ==
    ASSUME VolumeOK, UNCHANGED <<vol, mounted, cwd, usercwd>>,
           NEW m \in {"ext2d", "torn"}, media' = [media EXCEPT ![Medium] = m]
    PROVE  VolumeOK'
<1>1. Medium \in Media /\ Medium' = Medium
  BY MediumIsOne DEF Medium
<1>2. media' \in [Media -> MediumStates] /\ media'[Medium] = m
  BY <1>1 DEF VolumeOK, MediumStates
<1> QED
  BY <1>1, <1>2 DEF VolumeOK, MountedHasVolume, CwdOnVolume, CwdCopiesAgree

(* A command that resets both directories has nothing else to keep.        *)
LEMMA ResetKept ==
    ASSUME VolumeOK, cwd' = "/", usercwd' = "/", mounted' => vol'.type # "none",
           vol'.type \in {"none", "ram", "disk"}, vol'.type = "disk" => vol'.drive \in Drives,
           media' \in [Media -> MediumStates]
    PROVE  VolumeOK'
  BY DEF VolumeOK, MountedHasVolume, CwdOnVolume, CwdCopiesAgree

LEMMA VolumeKept == VolumeOK /\ [FilesNext]_filesVars => VolumeOK'
<1> SUFFICES ASSUME VolumeOK, [FilesNext]_filesVars PROVE VolumeOK'
  OBVIOUS
<1>1. CASE UNCHANGED <<vol, mounted, media, cwd, usercwd>>
  BY <1>1 DEF VolumeOK, MountedHasVolume, CwdOnVolume, CwdCopiesAgree, Medium
<1>2. ASSUME NEW size \in DiskSizes, mkdisk(size) PROVE VolumeOK'
  <2>1. PICK start \in Pages, r \in MediumStates :
          /\ vol' = [type |-> "ram", base |-> start * PageSize, size |-> size, drive |-> "none"]
          /\ media' = [media EXCEPT !["ram"] = r]
    BY <1>2, Zenon DEF mkdisk
  <2>2. media' \in [Media -> MediumStates]
    BY <2>1 DEF VolumeOK
  <2>3. vol'.type = "ram" /\ cwd' = "/" /\ usercwd' = "/"
    BY <1>2, <2>1 DEF mkdisk, shell_cwd_reset
  <2> QED
    BY <2>2, <2>3, ResetKept
<1>3. ASSUME NEW d \in Drives, attach(d) PROVE VolumeOK'
  BY <1>3, ResetKept DEF attach, shell_cwd_reset, VolumeOK
<1>4. CASE mount
  BY <1>4 DEF mount, vfs_mount_root, VolumeOK, MountedHasVolume, CwdOnVolume, CwdCopiesAgree, Medium
<1>5. CASE umount \/ detach \/ initdisk_NoVolume
  BY <1>5, ResetKept DEF umount, detach, initdisk_NoVolume, shell_cwd_reset, VolumeOK, NoVol
<1>6. ASSUME NEW ok \in BOOLEAN, Formatted(ok)
      PROVE  /\ media' \in [Media -> MediumStates] /\ vol.type # "none"
             /\ ~ok => media' = [media EXCEPT ![Medium] = "torn"]
  BY <1>6, MediumIsOne DEF Formatted, VolumeOK, MediumStates
<1>7. ASSUME NEW ok \in BOOLEAN, format(ok) PROVE VolumeOK'
  <2>1. CASE ok
    BY <1>6, <1>7, <2>1, ResetKept DEF format, shell_cwd_reset, VolumeOK, MountedHasVolume
  <2>2. CASE ~ok
    BY <1>6, <1>7, <2>2, MediumKept DEF format
  <2> QED
    BY <2>1, <2>2
<1>8. ASSUME NEW ok \in BOOLEAN, initdisk(ok) PROVE VolumeOK'
  BY <1>6, <1>8, ResetKept DEF initdisk, shell_cwd_reset, VolumeOK
<1>9. ASSUME NEW ok \in BOOLEAN, mkdir(ok) PROVE VolumeOK'
  <2>1. \E m \in {"ext2d", "torn"} : media' = [media EXCEPT ![Medium] = m]
    BY <1>9 DEF mkdir
  <2> QED
    BY <1>9, <2>1, MediumKept DEF mkdir
<1>10. ASSUME NEW dir \in Dirs, cd(dir) PROVE VolumeOK'
  BY <1>10 DEF cd, vfs_is_directory, Dirs, VolumeOK, MountedHasVolume, CwdOnVolume, CwdCopiesAgree, Medium
<1>11. CASE user_bind
  BY <1>11 DEF user_bind, VolumeOK, MountedHasVolume, CwdOnVolume, CwdCopiesAgree, Medium
<1>12. ASSUME NEW c \in Contents, NEW ok \in BOOLEAN, write(c, ok) PROVE VolumeOK'
  <2>1. CASE media' = media
    BY <1>1, <1>12, <2>1 DEF write
  <2>2. CASE media' = [media EXCEPT ![Medium] = "torn"]
    BY <1>12, <2>2, MediumKept DEF write
  <2> QED
    BY <1>12, <2>1, <2>2 DEF write
<1>13. CASE VolumeCommand
  <2>1. CASE (\E size \in DiskSizes : mkdisk_refused(size)) \/ TakeFixed
    BY <1>1, <2>1 DEF mkdisk_refused, TakeFixed, stVars
  <2> QED
    BY <1>2, <1>3, <1>4, <1>5, <1>7, <1>8, <1>9, <1>10, <1>13, <2>1 DEF VolumeCommand
<1>14. CASE Startup \/ Syscall \/ UNCHANGED filesVars
  BY <1>1, <1>14 DEF Startup, Syscall, open, close, read, Leave, filesVars, storageVars, stVars
<1> QED
  BY <1>11, <1>12, <1>13, <1>14 DEF FilesNext, ShellCommand, Launch

(* The VFS root is never mounted without a volume.                         *)
THEOREM RootHasVolume == FilesSpec => []MountedHasVolume
<1>1. VolumeOK => MountedHasVolume
  BY DEF VolumeOK
<1> QED
  BY <1>1, VolumeStart, VolumeKept, PTL DEF FilesSpec

(* A current directory other than / is one of the volume mounted now,      *)
(* unless a format of that volume failed half way.                         *)
THEOREM CwdStaysOnVolume == FilesSpec => []CwdOnVolume
<1>1. VolumeOK => CwdOnVolume
  BY DEF VolumeOK
<1> QED
  BY <1>1, VolumeStart, VolumeKept, PTL DEF FilesSpec

(* The shell's directory and the one programs start in never part.         *)
THEOREM CwdsStayTogether == FilesSpec => []CwdCopiesAgree
<1>1. VolumeOK => CwdCopiesAgree
  BY DEF VolumeOK
<1> QED
  BY <1>1, VolumeStart, VolumeKept, PTL DEF FilesSpec

(***************************************************************************)
(* The RAM disk                                                            *)
(***************************************************************************)
(* Rounding up to pages leaves no block out.                               *)
LEMMA PagesCover ==
    ASSUME NEW size \in Nat \ {0}
    PROVE  RamPages(size) \in Nat \ {0} /\ size <= RamPages(size) * PageSize /\ PagesFor(size) = RamPages(size)
<1>1. PageSize \in Nat \ {0}
  BY SizesAssumption
<1>2. PICK a \in Nat : a = size + PageSize - 1
  BY <1>1
<1>3. PICK q \in Nat, r \in Nat : q = a \div PageSize /\ a = PageSize * q + r /\ r < PageSize
  <2>1. a \div PageSize \in Nat /\ a % PageSize \in Nat /\ a % PageSize < PageSize
        /\ a = PageSize * (a \div PageSize) + (a % PageSize)
    BY <1>1, Z3
  <2> QED
    BY <2>1
<1>4. RamPages(size) = q /\ PagesFor(size) = q
  BY <1>2, <1>3 DEF RamPages, PagesFor
<1>5. PICK m \in Nat : m = PageSize * q /\ m = q * PageSize
  BY <1>1, <1>3
<1>6. size <= m
  BY <1>1, <1>2, <1>3, <1>5
<1>7. q # 0
  <2>1. SUFFICES ASSUME q = 0 PROVE FALSE
    OBVIOUS
  <2>2. m = 0
    BY <1>1, <1>5, <2>1
  <2> QED
    BY <1>6, <2>2
<1> QED
  BY <1>3, <1>4, <1>5, <1>6, <1>7

(* Every block of an attached RAM disk lies in pages that the disk owns:   *)
(* the two copies of the rounding formula agree, and no command gives the  *)
(* pages back while the volume is attached.                                *)
THEOREM RamDiskOwnsPages == FilesSpec => []RamDiskBacked
<1>1. FilesInit => RamDiskBacked
  BY DEF FilesInit, StorageInit, RamDiskBacked, NoVol, NoRun
<1>2. RamDiskBacked /\ [FilesNext]_filesVars => RamDiskBacked'
  <2> SUFFICES ASSUME RamDiskBacked, [FilesNext]_filesVars PROVE RamDiskBacked'
    OBVIOUS
  <2>1. CASE UNCHANGED <<vol, ram>> /\ live \subseteq live'
    BY <2>1 DEF RamDiskBacked, NoRun
  <2>2. ASSUME NEW size \in DiskSizes, mkdisk(size) PROVE RamDiskBacked'
    <3>1. size \in Nat \ {0}
      BY <2>2, StorageAssumption DEF mkdisk
    <3>2. PICK start \in Pages :
            /\ DetachAll({[start |-> start, n |-> PagesFor(size)]})
            /\ ram' = [start |-> start, n |-> RamPages(size)]
            /\ vol' = [type |-> "ram", base |-> start * PageSize, size |-> size, drive |-> "none"]
      BY <2>2, Zenon DEF mkdisk
    <3>3. RamPages(size) \in Nat \ {0} /\ size <= RamPages(size) * PageSize /\ PagesFor(size) = RamPages(size)
      BY <3>1, PagesCover
    <3>4. ram' \in live'
      BY <3>2, <3>3, Zenon DEF DetachAll
    <3>5. ram' # NoRun /\ ram'.start = start /\ ram'.n = RamPages(size)
      BY <3>2, <3>3 DEF NoRun
    <3>6. vol'.type = "ram" /\ vol'.base = start * PageSize /\ vol'.size = size
      BY <3>2
    <3> QED
      BY <3>3, <3>4, <3>5, <3>6 DEF RamDiskBacked, NoRun
  <2>3. ASSUME NEW d \in Drives, attach(d) PROVE RamDiskBacked'
    BY <2>3 DEF attach, RamDiskBacked, NoRun
  <2>4. CASE detach
    BY <2>4 DEF detach, RamDiskBacked, NoRun, NoVol
  <2>5. CASE TakeFixed
    <3>1. live \subseteq live'
      BY <2>5 DEF TakeFixed, pmm_alloc_page
    <3> QED
      BY <2>1, <2>5, <3>1 DEF TakeFixed
  <2>6. CASE VolumeCommand
    BY <2>1, <2>2, <2>3, <2>4, <2>5, <2>6
       DEF VolumeCommand, mkdisk_refused, mount, umount, format, initdisk, initdisk_NoVolume, mkdir, cd,
           stVars, pmmVars
  <2>7. CASE Launch \/ Syscall \/ UNCHANGED filesVars \/ \E c \in Contents, ok \in BOOLEAN : write(c, ok)
    BY <2>1, <2>7 DEF Launch, user_bind, write, Syscall, open, close, read, Leave, filesVars, storageVars,
                      stVars, pmmVars
  <2>8. CASE Startup
    BY <2>1, <2>8 DEF Startup, Boot, ClearEntry, MarkKernel, MarkLow, MarkFb, stVars
  <2> QED
    BY <2>6, <2>7, <2>8 DEF FilesNext, ShellCommand
<1> QED
  BY <1>1, <1>2, PTL DEF FilesSpec

(***************************************************************************)
(* Descriptors                                                             *)
(***************************************************************************)
FdsOK ==
    /\ fds = [i \in Slots |-> fds[i]]
    /\ FdsAreCurrent

(* While the volume and the file stay, a descriptor stays current if its   *)
(* path and size do.                                                       *)
LEMMA CurrentKept ==
    ASSUME FdsOK, UNCHANGED <<vol, mounted, media, file, running>>, NEW j \in Slots,
           fds'[j].valid => fds[j].valid, fds'[j].path = fds[j].path, fds'[j].size = fds[j].size
    PROVE  (running /\ fds[j].valid => vfs_is_mounted /\ fds[j].size \in vfs_stat(fds[j].path))'
<1>1. vfs_is_mounted' = vfs_is_mounted
  BY DEF vfs_is_mounted
<1>2. vfs_stat(fds[j].path)' = vfs_stat(fds[j].path)
  BY DEF vfs_stat, OnVolume, Medium
<1> QED
  BY <1>1, <1>2 DEF FdsOK, FdsAreCurrent

(* No program has a descriptor when the machine starts.                   *)
LEMMA FdsStart == FilesInit => FdsOK
  BY DEF FilesInit, FdsOK, FdsAreCurrent, FreeSlot

(* No step leaves a program a descriptor that is out of date: the commands *)
(* that change volumes or files run only when no program does, and every   *)
(* launch starts with an empty table.                                      *)
LEMMA FdsKept == FdsOK /\ [FilesNext]_filesVars => FdsOK'
<1> SUFFICES ASSUME FdsOK, [FilesNext]_filesVars PROVE FdsOK'
  OBVIOUS
<1>1. CASE user_fd_reset
  BY <1>1 DEF user_fd_reset, FdsOK, FdsAreCurrent, FreeSlot
<1>2. CASE fds' = fds /\ ~running'
  BY <1>2 DEF FdsOK, FdsAreCurrent
<1>3. CASE UNCHANGED <<fds, running, vol, mounted, media, file>>
  BY <1>3 DEF FdsOK, FdsAreCurrent, vfs_is_mounted, vfs_stat, OnVolume, Medium
<1>4. ASSUME UNCHANGED <<vol, mounted, media, file, running>>, NEW i \in Slots, NEW f,
             fds' = [fds EXCEPT ![i] = f],
             (running /\ f.valid => vfs_is_mounted /\ f.size \in vfs_stat(f.path))
      PROVE  FdsOK'
  <2>1. fds' = [j \in Slots |-> fds'[j]] /\ \A j \in Slots : fds'[j] = IF j = i THEN f ELSE fds[j]
    BY <1>4 DEF FdsOK
  <2>2. ASSUME NEW j \in Slots
        PROVE  (running /\ fds[j].valid => vfs_is_mounted /\ fds[j].size \in vfs_stat(fds[j].path))'
    <3>1. CASE j # i
      BY <1>4, <2>1, <3>1, CurrentKept
    <3>2. CASE j = i
      <4>1. fds'[j] = f
        BY <2>1, <3>2
      <4>2. vfs_is_mounted' = vfs_is_mounted /\ vfs_stat(fds[j].path)' = vfs_stat(f.path)
        BY <1>4, <4>1 DEF vfs_is_mounted, vfs_stat, OnVolume, Medium
      <4> QED
        BY <1>4, <4>1, <4>2
    <3> QED
      BY <3>1, <3>2
  <2> QED
    BY <2>1, <2>2 DEF FdsOK, FdsAreCurrent
<1>5. ASSUME NEW p \in Paths, open(p) PROVE FdsOK'
  <2>1. PICK size \in vfs_stat(p), i \in Slots :
          fds' = [fds EXCEPT ![i] = [valid |-> TRUE, path |-> p, off |-> 0, size |-> size, seen |-> <<>>]]
    BY <1>5, Zenon DEF open
  <2>2. UNCHANGED <<vol, mounted, media, file, running>> /\ vfs_is_mounted
    BY <1>5 DEF open, storageVars, stVars
  <2> DEFINE f == [valid |-> TRUE, path |-> p, off |-> 0, size |-> size, seen |-> <<>>]
  <2>3. f.size \in vfs_stat(f.path)
    OBVIOUS
  <2> HIDE DEF f
  <2>4. fds' = [fds EXCEPT ![i] = f]
    BY <2>1 DEF f
  <2> QED
    BY <1>4, <2>2, <2>3, <2>4
<1>6. ASSUME NEW i \in Slots, close(i) PROVE FdsOK'
  <2>1. ~FreeSlot.valid
    BY DEF FreeSlot
  <2>2. fds' = [fds EXCEPT ![i] = FreeSlot] /\ UNCHANGED <<vol, mounted, media, file, running>>
    BY <1>6 DEF close, storageVars, stVars
  <2> QED
    BY <1>4, <2>1, <2>2
<1>7. ASSUME NEW i \in Slots, NEW len \in 0 .. (MaxIo + 1), read(i, len) PROVE FdsOK'
  <2>1. PICK o, s : fds' = [fds EXCEPT ![i] = [valid |-> TRUE, path |-> fds[i].path, off |-> o,
                                               size |-> fds[i].size, seen |-> s]]
    BY <1>7, Zenon DEF read
  <2>2. UNCHANGED <<vol, mounted, media, file, running>> /\ running /\ fds[i].valid
    BY <1>7 DEF read, storageVars, stVars
  <2> DEFINE f == [valid |-> TRUE, path |-> fds[i].path, off |-> o, size |-> fds[i].size, seen |-> s]
  <2>3. fds' = [fds EXCEPT ![i] = f]
    BY <2>1
  <2>4. f.path = fds[i].path /\ f.size = fds[i].size
    OBVIOUS
  <2> HIDE DEF f
  <2>5. vfs_is_mounted /\ f.size \in vfs_stat(f.path)
    BY <2>2, <2>4 DEF FdsOK, FdsAreCurrent
  <2> QED
    BY <1>4, <2>2, <2>3, <2>5
<1>8. CASE Startup /\ UNCHANGED fdVars
  BY <1>3, <1>8 DEF Startup, stVars, fdVars
<1>9. CASE UNCHANGED filesVars
  BY <1>3, <1>9 DEF filesVars, storageVars, stVars, fdVars
<1>10. CASE Leave
  BY <1>2, <1>10 DEF Leave
<1>11. CASE ShellCommand
  <2>1. CASE Launch
    BY <1>1, <2>1 DEF Launch
  <2>2. CASE VolumeCommand /\ UNCHANGED running
    <3>1. fds' = fds \/ user_fd_reset
      BY <2>2, Zenon DEF VolumeCommand
    <3> QED
      BY <1>1, <1>2, <1>11, <2>2, <3>1 DEF ShellCommand
  <2>3. CASE \E c \in Contents, ok \in BOOLEAN : write(c, ok)
    BY <1>2, <1>11, <2>3 DEF write, ShellCommand
  <2> QED
    BY <1>11, <2>1, <2>2, <2>3 DEF ShellCommand
<1> QED
  BY <1>5, <1>6, <1>7, <1>8, <1>9, <1>10, <1>11 DEF FilesNext, Syscall

(* A program only has descriptors of files on the volume mounted now, with *)
(* the size that they have now: no command of the shell that changes       *)
(* volumes or files leaves a descriptor to a program.                      *)
THEOREM DescriptorsAreCurrent == FilesSpec => []FdsAreCurrent
<1>1. FdsOK => FdsAreCurrent
  BY DEF FdsOK
<1> QED
  BY <1>1, FdsStart, FdsKept, PTL DEF FilesSpec

(***************************************************************************)
(* Pages                                                                   *)
(***************************************************************************)
(* The callers that hold pages are the kernel, for good, and the RAM disk. *)
HoldersOK ==
    /\ PmmInv
    /\ live = fixed \cup ({ram} \ {NoRun}) /\ ram \notin fixed

\* What the holders have adds up to the bitmap.
LEMMA HoldersHold == ASSUME HoldersOK PROVE NoRunLeaks
<1>1. Run(NoRun) = {}
  BY DEF Run, NoRun
<1>2. LivePages = (UNION {Run(b) : b \in fixed}) \cup Run(ram)
  <2>1. CASE ram = NoRun
    BY <1>1, <2>1 DEF HoldersOK, LivePages
  <2>2. CASE ram # NoRun
    <3>1. live = fixed \cup {ram}
      BY <2>2 DEF HoldersOK
    <3>2. UNION {Run(b) : b \in fixed \cup {ram}} = (UNION {Run(b) : b \in fixed}) \cup Run(ram)
      BY OneMoreRun, Zenon
    <3> QED
      BY <3>1, <3>2 DEF LivePages
  <2> QED
    BY <2>1, <2>2
<1>3. BooksBalance /\ UsedCountsBits
  BY DEF HoldersOK, PmmInv
<1> QED
  BY <1>2, <1>3 DEF NoRunLeaks, BooksBalance, UsedCountsBits

\* A run that fits has its length of clear pages, and is none of the live ones.
LEMMA FitsIs ==
    ASSUME PmmInv, phase = "run", NEW start \in Pages, NEW n \in Nat \ {0}, Fits(start, n),
           NEW b, b = [start |-> start, n |-> n]
    PROVE  /\ Run(b) = start .. (start + n - 1) /\ Run(b) \subseteq Pages /\ Run(b) \cap bitmap = {}
           /\ IsFiniteSet(Run(b)) /\ Cardinality(Run(b)) = n /\ b \notin live /\ b # NoRun
           /\ {p \in Run(b) : p < TotalPages} = Run(b)
<1>1. start \in Nat /\ start + n <= TotalPages /\ TotalPages \in Nat
  BY PageNumbers DEF Fits, Pages
<1>2. Run(b) = start .. (start + n - 1) /\ start \in Run(b) /\ b # NoRun
  BY <1>1 DEF Run, NoRun
<1>3. Run(b) \subseteq Pages /\ Run(b) \cap bitmap = {} /\ {p \in Run(b) : p < TotalPages} = Run(b)
  <2>1. \A p \in Run(b) : p \in Pages /\ p < TotalPages
    BY <1>1, <1>2 DEF Pages
  <2>2. Run(b) \cap bitmap = {}
    BY <1>2 DEF Fits
  <2> QED
    BY <2>1, <2>2
<1>4. IsFiniteSet(Run(b)) /\ Cardinality(Run(b)) = n
  <2>1. start \in Int /\ start + n - 1 \in Int /\ start <= start + n - 1
    BY <1>1
  <2>2. IsFiniteSet(start .. (start + n - 1)) /\ Cardinality(start .. (start + n - 1)) = (start + n - 1) - start + 1
    BY <2>1, FS_Interval
  <2> QED
    BY <1>1, <1>2, <2>2
<1>5. b \notin live
  <2>1. start \notin bitmap /\ LivePages \subseteq bitmap
    BY <1>2, <1>3 DEF PmmInv, BooksBalance
  <2> QED
    BY <1>2, <2>1 DEF LivePages
<1> QED
  BY <1>2, <1>3, <1>4, <1>5

\* mkdisk over an older RAM disk: the new pages are taken before the old ones
\* are given back, so the two never meet.
LEMMA ExchangeKeepsPmmInv ==
    ASSUME PmmInv, phase = "run", NEW b \in live, NEW start \in Pages, NEW n \in Nat \ {0},
           Fits(start, n), NEW c, c = [start |-> start, n |-> n],
           bitmap' = (bitmap \cup Run(c)) \ Run(b),
           used' = used + Cardinality(Run(c)) - Cardinality(Run(b)),
           live' = (live \ {b}) \cup {c}, UNCHANGED <<phase, done>>
    PROVE  PmmInv'
<1>1. /\ Run(c) \subseteq Pages /\ Run(c) \cap bitmap = {} /\ c \notin live
      /\ IsFiniteSet(Run(c)) /\ Cardinality(Run(c)) = n
  BY FitsIs
<1>2. PmmTypeOK /\ UsedCountsBits /\ NoPageHeldTwice /\ HandedOutIsUsable /\ BooksBalance
  BY DEF PmmInv
<1>3. Run(b) \subseteq LivePages /\ LivePages \subseteq bitmap /\ bitmap \subseteq Pages
  BY <1>2 DEF LivePages, BooksBalance, PmmTypeOK
<1>4. used' \in Int /\ UsedCountsBits'
  <2>1. IsFiniteSet(bitmap) /\ IsFiniteSet(Run(b))
    BY <1>3, PageNumbers, FS_Subset
  <2>2. bitmap \cap Run(c) = {} /\ IsFiniteSet(bitmap \cup Run(c))
    BY <1>1, <2>1, FS_Union, Zenon
  <2>3. Cardinality(bitmap \cup Run(c)) = Cardinality(bitmap) + Cardinality(Run(c)) - Cardinality({})
    BY <1>1, <2>1, <2>2, FS_Union
  <2>4. (bitmap \cup Run(c)) \cap Run(b) = Run(b)
    BY <1>3
  <2>5. Cardinality((bitmap \cup Run(c)) \ Run(b)) = Cardinality(bitmap \cup Run(c)) - Cardinality(Run(b))
    BY <2>2, <2>4, FS_Difference, Zenon
  <2>6. Cardinality(bitmap) \in Nat /\ Cardinality(Run(b)) \in Nat /\ Cardinality({}) = 0
    BY <2>1, FS_CardinalityType, FS_EmptySet
  <2> QED
    BY <1>1, <1>2, <2>3, <2>5, <2>6 DEF UsedCountsBits
<1>5. PmmTypeOK'
  <2>1. c \in [start : Pages, n : Nat \ {0}] /\ bitmap' \subseteq Pages
    BY <1>1, <1>3
  <2>2. live' \subseteq [start : Pages, n : Nat \ {0}]
    BY <1>2, <2>1 DEF PmmTypeOK
  <2> QED
    BY <1>2, <1>4, <2>1, <2>2 DEF PmmTypeOK
<1>6. \A d \in live : Run(d) \subseteq LivePages /\ Run(d) \cap Run(c) = {} /\ Run(c) \cap Run(d) = {}
  BY <1>1, <1>3 DEF LivePages
<1>7. NoPageHeldTwice'
  <2>1. \A d, e \in (live \ {b}) \cup {c} : d # e => Run(d) \cap Run(e) = {}
    BY <1>2, <1>6 DEF NoPageHeldTwice
  <2> QED
    BY <2>1 DEF NoPageHeldTwice, Run
<1>8. LivePages' = (LivePages \ Run(b)) \cup Run(c)
  <2>1. UNION {Run(d) : d \in live \ {b}} = LivePages \ Run(b)
    BY <1>2 DEF NoPageHeldTwice, LivePages
  <2>2. LivePages' = UNION {Run(d) : d \in (live \ {b}) \cup {c}}
    BY DEF LivePages, Run
  <2> QED
    BY <2>1, <2>2, OneMoreRun, Zenon
<1>9. Run(c) \subseteq Ram \ Reserved
  BY <1>1, ClearIsUsable
<1>10. HandedOutIsUsable'
  BY <1>2, <1>8, <1>9 DEF HandedOutIsUsable
<1>11. BooksBalance'
  BY <1>2, <1>3, <1>6, <1>8 DEF BooksBalance, HandedOutIsUsable
<1> QED
  BY <1>4, <1>5, <1>7, <1>10, <1>11 DEF PmmInv

\* The page that the kernel takes for good is a run of one page that fits.
LEMMA FixedKeepsHolders ==
    ASSUME HoldersOK, phase = "run", TakeFixed
    PROVE  HoldersOK'
<1>1. PICK i \in Pages \ bitmap :
         /\ bitmap' = bitmap \cup {i} /\ used' = used + 1
         /\ live' = live \cup {[start |-> i, n |-> 1]}
  BY DEF TakeFixed, pmm_alloc_page
<1>2. ram' = ram /\ fixed' = fixed \cup (live' \ live) /\ UNCHANGED <<phase, done>> /\ PmmInv
  BY DEF TakeFixed, pmm_alloc_page, HoldersOK
<1> DEFINE b == [start |-> i, n |-> 1]
<1>3. i \in Nat /\ i + 1 <= TotalPages /\ i .. (i + 1 - 1) = {i}
  BY PageNumbers DEF Pages
<1>4. Fits(i, 1)
  BY <1>3 DEF Fits
<1>5. b \notin live /\ b # NoRun
  BY <1>2, <1>4, FitsIs
<1>6. PmmInv'
  <2>1. bitmap' = bitmap \cup (i .. (i + 1 - 1))
    BY <1>1, <1>3
  <2> QED
    BY <1>1, <1>2, <1>4, <2>1, GrantKeepsPmmInv
<1> HIDE DEF b
<1>7. live' = live \cup {b}
  BY <1>1 DEF b
<1>8. fixed' = fixed \cup {b}
  BY <1>2, <1>5, <1>7
<1> QED
  BY <1>2, <1>5, <1>6, <1>7, <1>8 DEF HoldersOK, NoRun

\* chaseros_vol_detach_all gives back the pages of the RAM disk, if there is
\* one, and nothing else.
LEMMA DetachKeepsHolders ==
    ASSUME HoldersOK, phase = "run", DetachAll({}), ram' = NoRun, fixed' = fixed
    PROVE  HoldersOK'
<1>1. PmmInv /\ live' = live \ {ram} /\ UNCHANGED <<phase, done>> /\ NoRun' = NoRun
  BY DEF HoldersOK, DetachAll, NoRun
<1> DEFINE freed == {p \in Run(ram) : p < TotalPages} \cap bitmap
<1>2. bitmap' = bitmap \ freed /\ used' = used - Cardinality(freed)
  <2>1. UNION {Run(b) : b \in {}} = {} /\ Cardinality({}) = 0
    BY FS_EmptySet
  <2>2. used \in Int /\ bitmap \cup {} = bitmap
    BY <1>1 DEF PmmInv, PmmTypeOK
  <2>3. PICK new : /\ new = UNION {Run(b) : b \in {}}
                   /\ bitmap' = (bitmap \cup new) \ ({p \in Run(ram) : p < TotalPages} \cap (bitmap \cup new))
                   /\ used' = used + Cardinality(new)
                                - Cardinality({p \in Run(ram) : p < TotalPages} \cap (bitmap \cup new))
    BY Zenon DEF DetachAll
  <2>4. bitmap \cup new = bitmap /\ Cardinality(new) = 0
    BY <2>1, <2>2, <2>3, Zenon
  <2>5. IsFiniteSet(freed)
    BY <1>1, PageNumbers, FS_Subset DEF PmmInv, PmmTypeOK
  <2>6. Cardinality(freed) \in Nat
    BY <2>5, FS_CardinalityType
  <2> HIDE DEF freed
  <2>7. bitmap' = bitmap \ freed /\ used' = used + 0 - Cardinality(freed)
    BY <2>3, <2>4, Zenon DEF freed
  <2> QED
    BY <2>2, <2>6, <2>7
<1>3. CASE ram = NoRun
  <2>1. freed = {} /\ Cardinality({}) = 0 /\ used \in Int
    BY <1>1, <1>3, FS_EmptySet DEF Run, NoRun, PmmInv, PmmTypeOK
  <2>2. ram \notin live
    BY <1>3 DEF HoldersOK
  <2>3. bitmap' = bitmap /\ used' = used - 0 /\ live' = live
    BY <1>1, <1>2, <2>1, <2>2, Zenon
  <2>4. UNCHANGED pmmVars
    BY <1>1, <2>1, <2>3 DEF pmmVars
  <2>5. PmmInv'
    BY <1>1, <2>4, PmmNextKeepsInv
  <2> QED
    BY <1>1, <1>3, <2>4, <2>5 DEF HoldersOK, pmmVars
<1>4. CASE ram # NoRun
  <2>1. ram \in live /\ Run(ram) \subseteq bitmap /\ bitmap \subseteq Pages
    BY <1>1, <1>4 DEF HoldersOK, PmmInv, BooksBalance, LivePages, PmmTypeOK
  <2>2. \A p \in Pages : p < TotalPages
    BY PageNumbers DEF Pages
  <2>3. freed = Run(ram)
    BY <2>1, <2>2
  <2>4. PmmInv'
    BY <1>1, <1>2, <2>1, <2>3, ReturnKeepsPmmInv
  <2>5. live' = fixed
    BY <1>1, <1>4 DEF HoldersOK
  <2>6. NoRun \notin fixed
    BY <1>1 DEF HoldersOK, PmmInv, PmmTypeOK, NoRun
  <2> QED
    BY <1>1, <2>4, <2>5, <2>6 DEF HoldersOK
<1> QED
  BY <1>3, <1>4

\* mkdisk takes the new pages, gives back those of the disk there was, and
\* the disk holds what was taken.
LEMMA MkdiskKeepsHolders ==
    ASSUME HoldersOK, phase = "run", NEW size \in DiskSizes, mkdisk(size)
    PROVE  HoldersOK'
<1>1. size \in Nat \ {0} /\ PmmInv
  BY StorageAssumption DEF mkdisk, HoldersOK
<1>2. PICK start \in Pages, n \in Nat \ {0} :
        /\ Fits(start, n) /\ DetachAll({[start |-> start, n |-> n]})
        /\ ram' = [start |-> start, n |-> n] /\ fixed' = fixed
  <2>1. RamPages(size) \in Nat \ {0} /\ PagesFor(size) = RamPages(size)
    BY <1>1, PagesCover
  <2>2. PICK start \in Pages :
          /\ IsFirstFit(start, PagesFor(size)) /\ DetachAll({[start |-> start, n |-> PagesFor(size)]})
          /\ ram' = [start |-> start, n |-> RamPages(size)] /\ fixed' = fixed
    BY Zenon DEF mkdisk
  <2> QED
    BY <2>1, <2>2, Zenon DEF IsFirstFit
<1>3. PICK c : c = [start |-> start, n |-> n]
  BY Zenon
<1>4. /\ Run(c) = start .. (start + n - 1) /\ Run(c) \subseteq Pages /\ Run(c) \cap bitmap = {}
      /\ Cardinality(Run(c)) = n /\ c \notin live /\ c # NoRun
  BY <1>1, <1>2, <1>3, FitsIs
<1>5. /\ live' = (live \ {ram}) \cup {c} /\ UNCHANGED <<phase, done>> /\ NoRun' = NoRun
      /\ ram' = c /\ fixed' = fixed
  BY <1>2, <1>3 DEF DetachAll, NoRun
<1>6. PICK freed : /\ freed = {p \in Run(ram) : p < TotalPages} \cap (bitmap \cup Run(c))
                   /\ bitmap' = (bitmap \cup Run(c)) \ freed
                   /\ used' = used + Cardinality(Run(c)) - Cardinality(freed)
  <2>1. UNION {Run(b) : b \in {c}} = Run(c)
    OBVIOUS
  <2>2. DetachAll({c})
    BY <1>2, <1>3
  <2> QED
    BY <2>1, <2>2, Zenon DEF DetachAll
<1>7. CASE ram = NoRun
  <2>1. freed = {} /\ Cardinality({}) = 0 /\ ram \notin live
    BY <1>1, <1>6, <1>7, FS_EmptySet DEF Run, NoRun, HoldersOK
  <2>2. bitmap' = bitmap \cup (start .. (start + n - 1)) /\ used' = used + n - 0
    BY <1>4, <1>6, <2>1, Zenon
  <2>3. used' = used + n
    BY <2>2
  <2>4. live' = live \cup {c}
    BY <1>5, <2>1
  <2>5. PmmInv'
    BY <1>1, <1>2, <1>3, <1>5, <2>2, <2>3, <2>4, GrantKeepsPmmInv
  <2>6. live' = fixed \cup {c} /\ c \notin fixed
    BY <1>4, <1>7, <2>4 DEF HoldersOK
  <2> QED
    BY <1>4, <1>5, <2>5, <2>6 DEF HoldersOK
<1>8. CASE ram # NoRun
  <2>1. ram \in live /\ Run(ram) \subseteq bitmap /\ bitmap \subseteq Pages
    BY <1>1, <1>8 DEF HoldersOK, PmmInv, BooksBalance, LivePages, PmmTypeOK
  <2>2. \A p \in Pages : p < TotalPages
    BY PageNumbers DEF Pages
  <2>3. freed = Run(ram)
    BY <1>6, <2>1, <2>2
  <2>4. PmmInv'
    BY <1>1, <1>2, <1>3, <1>5, <1>6, <2>1, <2>3, ExchangeKeepsPmmInv
  <2>5. live' = fixed \cup {c} /\ c \notin fixed
    BY <1>4, <1>5, <1>8 DEF HoldersOK
  <2> QED
    BY <1>4, <1>5, <2>4, <2>5 DEF HoldersOK
<1> QED
  BY <1>7, <1>8

\* A disk above the limit: what mkdisk took it gives back, to the page.
LEMMA RefusedKeepsHolders ==
    ASSUME HoldersOK, phase = "run", NEW size \in DiskSizes, mkdisk_refused(size)
    PROVE  UNCHANGED <<pmmVars, ram, fixed>>
<1>1. size \in Nat \ {0} /\ PmmInv /\ UNCHANGED <<phase, done, live, ram, fixed>>
  BY StorageAssumption DEF mkdisk_refused, HoldersOK, stVars
<1>2. PICK n \in Nat \ {0} : n = PagesFor(size)
  BY <1>1, PagesCover
<1>3. PICK start \in Pages :
        /\ Fits(start, n)
        /\ \E c, freed :
             /\ c = [start |-> start, n |-> n]
             /\ freed = {p \in Run(c) : p < TotalPages} \cap (bitmap \cup Run(c))
             /\ bitmap' = (bitmap \cup Run(c)) \ freed
             /\ used' = used + n - Cardinality(freed)
  BY <1>2, Zenon DEF mkdisk_refused, IsFirstFit
<1>4. PICK c, freed :
        /\ c = [start |-> start, n |-> n]
        /\ freed = {p \in Run(c) : p < TotalPages} \cap (bitmap \cup Run(c))
        /\ bitmap' = (bitmap \cup Run(c)) \ freed
        /\ used' = used + n - Cardinality(freed)
  BY <1>3, Zenon
<1>5. /\ Run(c) \cap bitmap = {} /\ Cardinality(Run(c)) = n
      /\ {p \in Run(c) : p < TotalPages} = Run(c)
  BY <1>1, <1>3, <1>4, FitsIs
<1>6. freed = Run(c)
  BY <1>4, <1>5
<1>7. bitmap' = bitmap /\ used' = used + n - n
  BY <1>4, <1>5, <1>6, Zenon
<1>8. used \in Int
  BY <1>1 DEF PmmInv, PmmTypeOK
<1> QED
  BY <1>1, <1>7, <1>8 DEF pmmVars

(* However the commands switch between RAM disks and drives, the bitmap    *)
(* holds just the pages that were never free, those the kernel keeps, and  *)
(* those of the attached RAM disk: detach_all and a refused mkdisk give    *)
(* all pages back.                                                         *)
THEOREM VolumesLeakNothing == FilesSpec => []NoRunLeaks
<1>1. FilesInit => HoldersOK
  BY PmmInitInv DEF FilesInit, StorageInit, HoldersOK, PmmInit, NoRun
<1>2. HoldersOK /\ [FilesNext]_filesVars => HoldersOK'
  <2> SUFFICES ASSUME HoldersOK, [FilesNext]_filesVars PROVE HoldersOK'
    OBVIOUS
  <2>1. ASSUME UNCHANGED <<pmmVars, ram, fixed>> PROVE HoldersOK'
    <3>1. PmmInv'
      BY <2>1, PmmNextKeepsInv DEF HoldersOK
    <3> QED
      BY <2>1, <3>1 DEF HoldersOK, pmmVars, NoRun
  <2>2. CASE phase = "run" /\ VolumeCommand
    <3>1. ASSUME NEW size \in DiskSizes, mkdisk(size) \/ mkdisk_refused(size) PROVE HoldersOK'
      BY <2>1, <2>2, <3>1, MkdiskKeepsHolders, RefusedKeepsHolders
    <3>2. CASE detach \/ \E d \in Drives : attach(d)
      BY <2>2, <3>2, DetachKeepsHolders DEF detach, attach
    <3>3. CASE TakeFixed
      BY <2>2, <3>3, FixedKeepsHolders
    <3>4. CASE \/ mount \/ umount \/ initdisk_NoVolume \/ \E dir \in Dirs : cd(dir)
               \/ \E ok \in BOOLEAN : format(ok) \/ initdisk(ok) \/ mkdir(ok)
      BY <2>1, <3>4 DEF mount, umount, format, initdisk, initdisk_NoVolume, mkdir, cd
    <3> QED
      BY <2>2, <3>1, <3>2, <3>3, <3>4, Zenon DEF VolumeCommand
  <2>3. CASE Launch \/ Syscall \/ UNCHANGED filesVars \/ \E c \in Contents, ok \in BOOLEAN : write(c, ok)
    BY <2>1, <2>3, Zenon DEF Launch, user_bind, write, Syscall, open, close, read, Leave, filesVars, storageVars,
                      stVars
  <2>4. CASE Startup
    <3>1. PmmInv' /\ live = {} /\ live' = live /\ ram' = ram /\ fixed' = fixed
      BY <2>4, BootKeepsPmmInv DEF Startup, HoldersOK, PmmInv, Boot, ClearEntry, MarkKernel, MarkLow, MarkFb, stVars
    <3> QED
      BY <3>1 DEF HoldersOK, NoRun
  <2> QED
    BY <2>2, <2>3, <2>4, Zenon DEF FilesNext, ShellCommand
<1> QED
  BY <1>1, <1>2, HoldersHold, PTL DEF FilesSpec


(***************************************************************************)
(* Reads                                                                   *)
(***************************************************************************)
\* What files are made of, with the mark of a missing one.
Bytes == {"0", "a", "b", "c", "none"}

\* Of the natural numbers in a set one is the least.
LEMMA LeastNatural ==
    ASSUME NEW T, T \subseteq Nat, T # {}
    PROVE  \E m \in T : \A k \in T : m <= k
<1> DEFINE R == OpToRel(<, Nat)
<1>1. IsWellFoundedOn(R, Nat)
  BY NatLessThanWellFounded
<1>2. \A x, y \in Nat : y < x => <<y, x>> \in R
  BY DEF OpToRel
<1> HIDE DEF R
<1>3. PICK m \in T : \A y \in T : ~ (<<y, m>> \in R)
  BY <1>1, WFMin
<1>4. \A k \in T : ~ (k < m)
  BY <1>2, <1>3
<1> QED
  BY <1>3, <1>4

\* One chunk of a file, when the file is long enough.
LEMMA ChunkIs ==
    ASSUME NEW c \in Seq(Bytes), file[Medium] = c, NEW a \in Nat, NEW k \in Nat \ {0}, a + k <= Len(c)
    PROVE  /\ vfs_read_file_range("f", a, k) = SubSeq(c, a + 1, a + k)
           /\ SubSeq(c, a + 1, a + k) \in Seq(Bytes) /\ Len(SubSeq(c, a + 1, a + k)) = k
<1>1. Len(c) \in Nat /\ ~ (a >= Len(c))
  OBVIOUS
<1>2. (IF a + k < Len(c) THEN a + k ELSE Len(c)) = a + k
  BY <1>1
<1>3. vfs_read_file_range("f", a, k) = SubSeq(c, a + 1, a + k)
  BY <1>1, <1>2 DEF vfs_read_file_range
<1>4. a + 1 \in Int /\ a + k \in Int /\ \A i \in (a + 1) .. (a + k) : c[i] \in Bytes
  BY <1>1
<1>5. SubSeq(c, a + 1, a + k) \in Seq(Bytes)
      /\ Len(SubSeq(c, a + 1, a + k)) = IF a + 1 <= a + k THEN (a + k) - (a + 1) + 1 ELSE 0
  BY <1>4, SubSeqProperties
<1> QED
  BY <1>3, <1>5

\* The loop of read, chunk after chunk, delivers just the bytes asked for.
LEMMA ReadLoopIs ==
    ASSUME NEW c \in Seq(Bytes), file[Medium] = c,
           NEW off \in Nat, NEW len \in Nat, off + len <= Len(c)
    PROVE  ReadLoop("f", off, len) = SubSeq(c, off + 1, off + len)
<1> DEFINE chunk(t) == IF len - t > Chunk THEN Chunk ELSE len - t
           got(t) == vfs_read_file_range("f", off + t, chunk(t))
           Body(f) == [t \in 0 .. len |->
                         IF t = len \/ got(t) = <<>> THEN <<>>
                         ELSE IF Len(got(t)) < chunk(t) THEN got(t)
                         ELSE got(t) \o f[t + Len(got(t))]]
           Rest(t) == SubSeq(c, off + t + 1, off + len)
           G == [t \in 0 .. len |-> Rest(t)]
<1>1. ReadLoop("f", off, len) = (CHOOSE f : f = Body(f))[0]
  BY Zenon DEF ReadLoop
<1>2. Chunk \in Nat \ {0} /\ Len(c) \in Nat
  BY FilesAssumption
<1>3. ASSUME NEW t \in 0 .. len, t # len
      PROVE  /\ chunk(t) \in Nat \ {0} /\ t + chunk(t) \in 0 .. len /\ t < t + chunk(t)
             /\ Len(got(t)) = chunk(t) /\ got(t) # <<>>
             /\ got(t) \o Rest(t + chunk(t)) = Rest(t)
  <2>1. len - t \in Nat \ {0} /\ len \in Nat /\ t \in Nat
    BY <1>3
  <2>2. chunk(t) \in Nat \ {0} /\ t + chunk(t) <= len
    <3>1. CASE len - t > Chunk
      BY <1>2, <2>1, <3>1
    <3>2. CASE ~ (len - t > Chunk)
      BY <1>2, <2>1, <3>2
    <3> QED
      BY <3>1, <3>2
  <2> HIDE DEF chunk, got, Rest
  <2>3. PICK k \in Nat \ {0}, a \in Nat : k = chunk(t) /\ a = off + t
    BY <2>1, <2>2
  <2>4. t + k <= len /\ a + k <= off + len /\ a + k <= Len(c)
    BY <1>2, <2>1, <2>2, <2>3
  <2>5. got(t) = vfs_read_file_range("f", a, k)
    BY <2>3, Zenon DEF got
  <2>6. got(t) = SubSeq(c, a + 1, a + k) /\ got(t) \in Seq(Bytes) /\ Len(got(t)) = k
    <3>1. /\ vfs_read_file_range("f", a, k) = SubSeq(c, a + 1, a + k)
          /\ SubSeq(c, a + 1, a + k) \in Seq(Bytes) /\ Len(SubSeq(c, a + 1, a + k)) = k
      BY <2>4, ChunkIs
    <3> QED
      BY <2>5, <3>1, Zenon
  <2>7. SubSeq(c, a + 1, a + k) \o SubSeq(c, a + k + 1, off + len) = SubSeq(c, a + 1, off + len)
    <3>1. /\ a + 1 \in 1 .. (Len(c) + 1) /\ a + k \in (a + 1 - 1) .. Len(c)
          /\ off + len \in (a + k) .. Len(c)
      BY <1>2, <2>4
    <3> QED
      BY <3>1, ConcatAdjacentSubSeq
  <2>8. Rest(t + k) = SubSeq(c, a + k + 1, off + len) /\ Rest(t) = SubSeq(c, a + 1, off + len)
    <3>1. off + (t + k) + 1 = a + k + 1 /\ off + t + 1 = a + 1
      BY <2>1, <2>3
    <3> QED
      BY <3>1 DEF Rest
  <2>9. got(t) # <<>>
    BY <2>6
  <2>10. got(t) \o Rest(t + k) = Rest(t)
    BY <2>6, <2>7, <2>8, Zenon
  <2>11. k \in Nat \ {0} /\ t + k \in 0 .. len /\ t < t + k /\ Len(got(t)) = k
    BY <2>1, <2>4, <2>6
  <2> QED
    BY <2>3, <2>9, <2>10, <2>11
<1> HIDE DEF chunk, got, Rest
<1>4. Rest(len) = <<>>
  <2>1. off + len + 1 \in Int /\ off + len \in Int /\ off + len < off + len + 1
    OBVIOUS
  <2> QED
    BY <2>1, SubSeqEmpty DEF Rest
<1>5. ASSUME NEW f, NEW t \in 0 .. len
      PROVE  Body(f)[t] = IF t = len THEN <<>> ELSE got(t) \o f[t + chunk(t)]
  <2>1. CASE t = len
    BY <2>1
  <2>2. CASE t # len
    <3>1. chunk(t) \in Nat /\ Len(got(t)) = chunk(t) /\ got(t) # <<>> /\ ~ (chunk(t) < chunk(t))
      BY <1>3, <2>2
    <3> QED
      BY <2>2, <3>1
  <2> QED
    BY <2>1, <2>2
<1>6. G = Body(G)
  <2>1. ASSUME NEW t \in 0 .. len PROVE Rest(t) = Body(G)[t]
    <3>1. CASE t = len
      BY <1>4, <1>5, <3>1
    <3>2. CASE t # len
      <4>1. t + chunk(t) \in 0 .. len /\ got(t) \o Rest(t + chunk(t)) = Rest(t)
        BY <1>3, <3>2
      <4>2. G[t + chunk(t)] = Rest(t + chunk(t))
        BY <4>1
      <4>3. Body(G)[t] = got(t) \o G[t + chunk(t)]
        BY <1>5, <3>2
      <4> QED
        BY <4>1, <4>2, <4>3
    <3> QED
      BY <3>1, <3>2
  <2> QED
    BY <2>1
<1> HIDE DEF Body
<1>7. PICK f : f = (CHOOSE g : g = Body(g)) /\ f = Body(f)
  BY <1>6, Zenon
<1>8. \A t \in 0 .. len : f[t] = IF t = len THEN <<>> ELSE got(t) \o f[t + chunk(t)]
  <2>1. \A t \in 0 .. len : Body(f)[t] = IF t = len THEN <<>> ELSE got(t) \o f[t + chunk(t)]
    BY <1>5
  <2> QED
    BY <1>7, <2>1, Zenon
<1>9. \A t \in 0 .. len : f[t] = Rest(t)
  <2> DEFINE T == {len - t : t \in {t \in 0 .. len : f[t] # Rest(t)}}
  <2>1. SUFFICES ASSUME NEW t0 \in 0 .. len, f[t0] # Rest(t0) PROVE FALSE
    OBVIOUS
  <2>2. T \subseteq Nat /\ len - t0 \in T
    BY <2>1
  <2>3. PICK m \in T : \A k \in T : m <= k
    BY <2>2, LeastNatural
  <2>4. PICK t \in 0 .. len : f[t] # Rest(t) /\ m = len - t
    BY <2>3
  <2>5. t # len
    BY <1>4, <1>8, <2>4
  <2>6. chunk(t) \in Nat \ {0} /\ t + chunk(t) \in 0 .. len /\ got(t) \o Rest(t + chunk(t)) = Rest(t)
    BY <1>3, <2>5
  <2>7. ~ (len - (t + chunk(t)) \in T)
    <3>1. PICK k \in Nat \ {0} : k = chunk(t)
      BY <2>6
    <3>2. ~ (m <= len - (t + k))
      BY <2>4, <3>1
    <3> QED
      BY <2>3, <3>1, <3>2
  <2>8. f[t + chunk(t)] = Rest(t + chunk(t))
    BY <2>6, <2>7
  <2> QED
    BY <1>8, <2>4, <2>5, <2>6, <2>8
<1>10. f[0] = Rest(0) /\ off + 0 + 1 = off + 1
  BY <1>9
<1> QED
  BY <1>1, <1>7, <1>10 DEF Rest


\* What has been read through a descriptor of a file with contents c.
ReadSoFar(f, c) ==
    f.valid /\ f.path = "f" => f.off \in 0 .. Len(c) /\ f.seen = SubSeq(c, 1, f.off)

ReadsOK ==
    /\ VolumeOK /\ FdsOK
    /\ file \in [Media -> Seq(Bytes)]
    /\ running => \A i \in Slots : ReadSoFar(fds[i], file[Medium])

\* What write can put into a file is a sequence of bytes.
LEMMA FilesAreBytes == NoFile \in Seq(Bytes) /\ Contents \subseteq Seq(Bytes)
<1>1. ASSUME NEW S, NEW x \in S PROVE <<x>> \in Seq(S)
  OBVIOUS
<1>2. ASSUME NEW S, NEW T, S \subseteq T, NEW q \in Seq(S) PROVE q \in Seq(T)
  <2>1. Len(q) \in Nat /\ q \in [1 .. Len(q) -> S]
    BY LenProperties
  <2>2. q \in [1 .. Len(q) -> T]
    BY <1>2, <2>1
  <2> QED
    <3>1. q \in UNION {[1 .. n -> T] : n \in Nat}
      BY <2>1, <2>2
    <3> QED
      BY <3>1, SeqDef, Zenon
<1>3. {"0", "a", "b", "c"} \subseteq Bytes /\ "none" \in Bytes
  BY DEF Bytes
<1>4. NoFile \in Seq(Bytes)
  BY <1>1, <1>3, Zenon DEF NoFile
<1>5. \A c \in Contents : c \in Seq(Bytes)
  BY <1>2, <1>3, FilesAssumption, Zenon
<1> QED
  BY <1>4, <1>5, Zenon

\* Every command leaves a sequence of bytes, or the mark of a missing file,
\* on every medium.
LEMMA FileKept ==
    ASSUME VolumeOK, file \in [Media -> Seq(Bytes)], [FilesNext]_filesVars
    PROVE  file' \in [Media -> Seq(Bytes)]
<1>1. NoFile \in Seq(Bytes) /\ Contents \subseteq Seq(Bytes)
  BY FilesAreBytes
<1>2. Medium \in Media /\ "ram" \in Media
  BY MediumIsOne DEF Media
<1>3. ASSUME NEW m \in Media, NEW x \in Seq(Bytes), file' = [file EXCEPT ![m] = x]
      PROVE  file' \in [Media -> Seq(Bytes)]
  BY <1>3
<1>4. CASE file' = file
  BY <1>4
<1>5. CASE FoundOnRam
  <2>1. PICK x \in FileStates(media'["ram"]) : file' = [file EXCEPT !["ram"] = x]
    BY <1>5, Zenon DEF FoundOnRam
  <2>2. x \in Seq(Bytes)
    BY <1>1, <2>1 DEF FileStates
  <2> QED
    BY <1>2, <1>3, <2>1, <2>2, Zenon
<1>6. CASE Rewritten(Medium)
  <2>1. PICK x \in {NoFile, file[Medium]} : file' = [file EXCEPT ![Medium] = x]
    BY <1>6 DEF Rewritten
  <2>2. x \in Seq(Bytes)
    BY <1>1, <1>2, <2>1
  <2> QED
    BY <1>2, <1>3, <2>1, <2>2, Zenon
<1>7. ASSUME NEW c \in Contents, NEW ok \in BOOLEAN, write(c, ok)
      PROVE  file' \in [Media -> Seq(Bytes)]
  <2>1. PICK x \in {c, NoFile, file[Medium]} : file' = [file EXCEPT ![Medium] = x]
    BY <1>7 DEF write
  <2>2. x \in Seq(Bytes)
    BY <1>1, <1>2, <2>1
  <2> QED
    BY <1>2, <1>3, <2>1, <2>2, Zenon
<1>8. CASE VolumeCommand
  BY <1>4, <1>5, <1>6, <1>8, Zenon DEF VolumeCommand
<1>9. CASE ShellCommand
  BY <1>4, <1>7, <1>8, <1>9, Zenon DEF ShellCommand, Launch
<1>10. CASE Syscall
  BY <1>4, <1>10 DEF Syscall, open, close, read, Leave
<1> QED
  BY <1>4, <1>9, <1>10 DEF FilesNext, filesVars, fdVars

\* A call that changes one descriptor leaves what was read through the others.
LEMMA OneSlotRead ==
    ASSUME FdsOK, UNCHANGED <<vol, file>>, NEW i \in Slots, NEW f, fds' = [fds EXCEPT ![i] = f],
           \A j \in Slots : ReadSoFar(fds[j], file[Medium]), ReadSoFar(f, file[Medium])
    PROVE  \A j \in Slots : ReadSoFar(fds'[j], file'[Medium'])
<1>1. \A j \in Slots : fds'[j] = IF j = i THEN f ELSE fds[j]
  BY DEF FdsOK
<1>2. file'[Medium'] = file[Medium]
  BY DEF Medium
<1> QED
  BY <1>1, <1>2, Zenon

\* A read goes on where the reads before it ended, and ends at the size that
\* the file had when it was opened, which is the size it has now.
LEMMA ReadGoesOn ==
    ASSUME ReadsOK, NEW i \in Slots, NEW len \in 0 .. (MaxIo + 1), read(i, len)
    PROVE  \A j \in Slots : ReadSoFar(fds'[j], file'[Medium'])
<1> DEFINE s == fds[i]
           n == IF len > s.size - s.off THEN s.size - s.off ELSE len
           data == ReadLoop(s.path, s.off, n)
           f == [valid |-> TRUE, path |-> s.path, off |-> s.off + Len(data), size |-> s.size,
                 seen |-> s.seen \o data]
<1>1. /\ running /\ s.valid /\ 0 < len /\ s.off < s.size /\ UNCHANGED <<vol, file>>
      /\ fds' = [fds EXCEPT ![i] = f]
  BY Zenon DEF read, storageVars, stVars
<1>2. /\ f.valid /\ f.path = s.path /\ f.off = s.off + Len(data) /\ f.seen = s.seen \o data
  OBVIOUS
<1>3. SUFFICES ASSUME s.path = "f" PROVE ReadSoFar(f, file[Medium])
  <2>1. s.path # "f" => ReadSoFar(f, file[Medium])
    BY <1>2, Zenon DEF ReadSoFar
  <2> HIDE DEF f
  <2> QED
    BY <1>1, <1>3, <2>1, OneSlotRead DEF ReadsOK
<1> HIDE DEF f
<1>4. PICK c \in Seq(Bytes) : c = file[Medium]
  BY MediumIsOne DEF ReadsOK
<1>5. s.off \in 0 .. Len(c) /\ s.seen = SubSeq(c, 1, s.off)
  BY <1>1, <1>3, <1>4 DEF ReadsOK, ReadSoFar
<1>6. s.size = Len(c)
  BY <1>1, <1>3, <1>4 DEF ReadsOK, FdsOK, FdsAreCurrent, vfs_stat
<1>7. PICK o \in Nat, m \in Nat : o = s.off /\ m = n /\ Len(c) \in Nat /\ o + m <= Len(c)
  <2>1. s.off \in Nat /\ Len(c) \in Nat /\ len \in Nat /\ s.off < Len(c)
    BY <1>1, <1>5, <1>6
  <2>2. PICK o \in Nat, z \in Nat, l \in Nat : o = s.off /\ z = Len(c) /\ l = len /\ o < z
    BY <2>1, Zenon
  <2>3. n = IF l > z - o THEN z - o ELSE l
    BY <1>6, <2>2, Zenon
  <2>4. PICK m \in Nat : o + m <= z /\ m = IF l > z - o THEN z - o ELSE l
    BY <2>2
  <2> QED
    BY <2>2, <2>3, <2>4, Zenon
<1> HIDE DEF s, n
<1>8. data = SubSeq(c, o + 1, o + m)
  <2>1. data = ReadLoop("f", o, m)
    BY <1>3, <1>7, Zenon
  <2>2. ReadLoop("f", o, m) = SubSeq(c, o + 1, o + m)
    BY <1>4, <1>7, ReadLoopIs, Zenon
  <2> QED
    BY <2>1, <2>2, Zenon
<1> HIDE DEF data
<1>9. Len(data) = m
  <2>1. o + 1 \in Int /\ o + m \in Int /\ \A k \in (o + 1) .. (o + m) : c[k] \in Bytes
    BY <1>7
  <2>2. Len(SubSeq(c, o + 1, o + m)) = IF o + 1 <= o + m THEN (o + m) - (o + 1) + 1 ELSE 0
    BY <2>1, SubSeqProperties
  <2>3. \A x : x = (IF o + 1 <= o + m THEN (o + m) - (o + 1) + 1 ELSE 0) => x = m
    BY <1>7
  <2> QED
    BY <1>8, <2>2, <2>3, Zenon
<1>10. SubSeq(c, 1, o) \o SubSeq(c, o + 1, o + m) = SubSeq(c, 1, o + m)
  <2>1. 1 \in 1 .. (Len(c) + 1) /\ o \in (1 - 1) .. Len(c) /\ o + m \in o .. Len(c)
    BY <1>7
  <2> QED
    BY <2>1, ConcatAdjacentSubSeq, Zenon
<1>11. f.off = o + m /\ f.seen = SubSeq(c, 1, o + m)
  BY <1>2, <1>5, <1>7, <1>8, <1>9, <1>10, Zenon
<1>12. o + m \in 0 .. Len(c)
  BY <1>7
<1> QED
  BY <1>4, <1>11, <1>12, Zenon DEF ReadSoFar

\* What programs read is in order: an open starts at the beginning, a read
\* goes on, and only the shell, when no program runs, changes the file.
LEMMA ReadsKept == ReadsOK /\ [FilesNext]_filesVars => ReadsOK'
<1> SUFFICES ASSUME ReadsOK, [FilesNext]_filesVars PROVE ReadsOK'
  OBVIOUS
<1>1. VolumeOK' /\ FdsOK' /\ file' \in [Media -> Seq(Bytes)]
  BY VolumeKept, FdsKept, FileKept DEF ReadsOK
<1>2. SUFFICES ASSUME running' PROVE \A j \in Slots : ReadSoFar(fds'[j], file'[Medium'])
  BY <1>1 DEF ReadsOK, Media
<1>3. CASE UNCHANGED <<fds, running, vol, file>>
  BY <1>2, <1>3 DEF ReadsOK, Medium
<1>4. ~FreeSlot.valid
  BY DEF FreeSlot
<1>5. CASE Launch
  BY <1>4, <1>5 DEF Launch, user_fd_reset, ReadSoFar
<1>6. ASSUME NEW p \in Paths, open(p) PROVE \A j \in Slots : ReadSoFar(fds'[j], file'[Medium'])
  <2>1. PICK size \in vfs_stat(p), i \in Slots : fds' = [fds EXCEPT ![i] =
          [valid |-> TRUE, path |-> p, off |-> 0, size |-> size, seen |-> <<>>]]
    BY <1>6, Zenon DEF open
  <2>2. UNCHANGED <<vol, file>> /\ running
    BY <1>6 DEF open, storageVars, stVars
  <2> DEFINE f == [valid |-> TRUE, path |-> p, off |-> 0, size |-> size, seen |-> <<>>]
  <2>3. f.off = 0 /\ f.seen = <<>> /\ fds' = [fds EXCEPT ![i] = f]
    BY <2>1
  <2> HIDE DEF f
  <2>4. PICK c \in Seq(Bytes) : c = file[Medium]
    BY MediumIsOne DEF ReadsOK
  <2>5. SubSeq(c, 1, 0) = <<>> /\ 0 \in 0 .. Len(c)
    BY SubSeqEmpty
  <2>6. ReadSoFar(f, file[Medium])
    BY <2>3, <2>4, <2>5, Zenon DEF ReadSoFar
  <2> QED
    BY <2>2, <2>3, <2>6, OneSlotRead DEF ReadsOK
<1>7. ASSUME NEW i \in Slots, close(i) PROVE \A j \in Slots : ReadSoFar(fds'[j], file'[Medium'])
  <2>1. fds' = [fds EXCEPT ![i] = FreeSlot] /\ UNCHANGED <<vol, file>> /\ running
    BY <1>7 DEF close, storageVars, stVars
  <2>2. ReadSoFar(FreeSlot, file[Medium])
    BY <1>4, Zenon DEF ReadSoFar
  <2> QED
    BY <2>1, <2>2, OneSlotRead DEF ReadsOK
<1>8. CASE Syscall
  BY <1>2, <1>6, <1>7, <1>8, ReadGoesOn, Zenon DEF Syscall, Leave
<1>9. CASE ShellCommand
  BY <1>2, <1>5, <1>9, Zenon DEF ShellCommand, write
<1>10. CASE Startup /\ UNCHANGED fdVars
  BY <1>3, <1>10 DEF Startup, stVars, fdVars
<1>11. CASE UNCHANGED filesVars
  BY <1>3, <1>11 DEF filesVars, storageVars, stVars, fdVars
<1> QED
  BY <1>8, <1>9, <1>10, <1>11, Zenon DEF FilesNext

\* What a program has read through a descriptor, over all calls and however
\* they are cut into chunks, is the file from its start up to the offset.
THEOREM ReadsInOrder == FilesSpec => []ReadsAreSequential
<1>1. FilesInit => ReadsOK
  <2> SUFFICES ASSUME FilesInit PROVE ReadsOK
    OBVIOUS
  <2>1. file \in [Media -> Seq(Bytes)]
    BY FilesAreBytes DEF FilesInit, Media
  <2>2. ~running
    BY DEF FilesInit
  <2> QED
    BY <2>1, <2>2, VolumeStart, FdsStart, Zenon DEF ReadsOK
<1>2. ReadsOK => ReadsAreSequential
  BY Zenon DEF ReadsOK, ReadSoFar, ReadsAreSequential
<1> QED
  BY <1>1, <1>2, ReadsKept, PTL DEF FilesSpec
=============================================================================
