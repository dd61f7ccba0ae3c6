--------------------------- MODULE ProgramsProofs ---------------------------
(***************************************************************************)
(* The range checks of vmm.c are exact, for every page size and every      *)
(* number of mapped pages; and what the loader keeps true, for every set of*)
(* packages, every window and every number of library slots.               *)
(***************************************************************************)
EXTENDS Programs, TLAPS

(***************************************************************************)
(* Vmm                                                                     *)
(***************************************************************************)
(* Division of naturals, as the indices of a page walk use it.             *)
LEMMA DivMod ==
    ASSUME NEW a \in Nat, NEW d \in Nat \ {0}
    PROVE  /\ a \div d \in Nat /\ a % d \in Nat /\ a % d < d
           /\ a = d * (a \div d) + (a % d)
  BY Z3

LEMMA MulMonotone ==
    ASSUME NEW d \in Nat, NEW p \in Nat, NEW q \in Nat, p <= q
    PROVE  d * p <= d * q
  BY Z3

(* A quotient grows with the dividend.                                     *)
LEMMA DivMonotone ==
    ASSUME NEW a \in Nat, NEW b \in Nat, a <= b, NEW d \in Nat \ {0}
    PROVE  a \div d <= b \div d
<1> DEFINE p == a \div d  q == b \div d
<1>1. p \in Nat /\ q \in Nat /\ d * p <= a /\ b < d * q + d
  BY DivMod
<1>2. SUFFICES ASSUME q + 1 <= p PROVE FALSE
  BY <1>1
<1>3. d * (q + 1) <= d * p
  BY <1>1, <1>2
<1>4. d * (q + 1) = d * q + d
  BY <1>1
<1> QED
  BY <1>1, <1>3, <1>4

(* Quotient and remainder of the numbers the checks meet.                  *)
LEMMA DivExact ==
    ASSUME NEW n \in Nat, NEW d \in Nat \ {0}
    PROVE  (n * d) \div d = n
<1> DEFINE q == (n * d) \div d
<1>1. q \in Nat /\ d * q <= n * d /\ n * d < d * q + d /\ n * d \in Nat
  <2>1. n * d \in Nat
    OBVIOUS
  <2> QED
    BY <2>1, DivMod
<1>2. ASSUME q + 1 <= n PROVE FALSE
  <2>1. d * (q + 1) <= d * n
    BY <1>1, <1>2
  <2>2. d * (q + 1) = d * q + d /\ d * n = n * d
    BY <1>1
  <2> QED
    BY <1>1, <2>1, <2>2
<1>3. ASSUME n + 1 <= q PROVE FALSE
  <2>1. d * (n + 1) <= d * q
    BY <1>1, <1>3
  <2>2. d * (n + 1) = d * n + d /\ d * n = n * d
    OBVIOUS
  <2> QED
    BY <1>1, <2>1, <2>2
<1> QED
  BY <1>1, <1>2, <1>3

LEMMA ModSmall ==
    ASSUME NEW x \in Nat, NEW d \in Nat \ {0}, x < d
    PROVE  x % d = x
  BY Z3

LEMMA ModWrap ==
    ASSUME NEW x \in Nat, NEW d \in Nat \ {0}, d <= x, x < 2 * d
    PROVE  x % d = x - d
<1> DEFINE q == x \div d
<1>1. q \in Nat /\ x % d \in Nat /\ x % d < d /\ x = d * q + (x % d)
  BY DivMod
<1>2. q = 1
  <2>1. ASSUME q = 0 PROVE FALSE
    <3>1. d * q = 0
      BY <2>1
    <3> QED
      BY <1>1, <3>1
  <2>2. ASSUME q >= 2 PROVE FALSE
    <3>1. d * q >= d * 2
      BY <1>1, <2>2
    <3> QED
      BY <1>1, <3>1
  <2> QED
    BY <1>1, <2>1, <2>2
<1>3. d * q = d
  BY <1>2
<1> QED
  BY <1>1, <1>3

(* Pages beyond the mapped ones have no entry.                             *)
LEMMA BeyondMapped ==
    ASSUME NEW n \in Nat, n >= NEntries * PagesPerLarge
    PROVE  Entry(n) \notin Entries
<1>1. NEntries * PagesPerLarge \in Nat
  BY VmmAssumption
<1>2. (NEntries * PagesPerLarge) \div PagesPerLarge = NEntries
  BY DivExact, VmmAssumption
<1>3. NEntries <= n \div PagesPerLarge
  BY <1>1, <1>2, DivMonotone, VmmAssumption
<1>4. n \div PagesPerLarge \in Nat
  BY DivMod, VmmAssumption
<1> QED
  BY <1>3, <1>4, VmmAssumption DEF Entry, Entries

(* Addresses of 48 bits have pages that a walk tells apart.                *)
LEMMA PageInWalk ==
    ASSUME NEW a \in 0 .. (WalkPages * PageSize - 1)
    PROVE  Page(a) \in Nat /\ Page(a) < WalkPages
<1>1. WalkPages * PageSize \in Nat /\ a \in Nat /\ a < PageSize * WalkPages
  BY VmmAssumption
<1>2. Page(a) \in Nat /\ PageSize * Page(a) <= a
  BY <1>1, DivMod, VmmAssumption DEF Page
<1>3. ASSUME WalkPages <= Page(a) PROVE FALSE
  <2>1. PageSize * WalkPages <= PageSize * Page(a)
    BY <1>2, <1>3, VmmAssumption
  <2> QED
    BY <1>1, <1>2, <2>1, VmmAssumption
<1> QED
  BY <1>2, <1>3, VmmAssumption

(* The last page that a walk can tell apart is not mapped, nor is the last *)
(* byte of the address space.                                              *)
LEMMA GapBeforeEnd ==
    /\ WalkPages - 1 \in Nat /\ Entry(WalkPages - 1) \notin Entries
    /\ AddrSpace - 1 \in Nat /\ Entry(Page(AddrSpace - 1)) \notin Entries
<1>1. NEntries * PagesPerLarge \in Nat
  BY VmmAssumption
<1>2. WalkPages - 1 \in Nat /\ WalkPages - 1 >= NEntries * PagesPerLarge
  BY <1>1, VmmAssumption
<1>3. Entry(WalkPages - 1) \notin Entries
  BY <1>2, BeyondMapped
<1>4. (WalkPages - 1) * PageSize \in Nat /\ (WalkPages - 1) * PageSize = WalkPages * PageSize - PageSize
  BY <1>2, VmmAssumption
<1>5. AddrSpace - 1 \in Nat /\ (WalkPages - 1) * PageSize <= AddrSpace - 1
  BY <1>4, VmmAssumption
<1>6. ((WalkPages - 1) * PageSize) \div PageSize = WalkPages - 1
  BY <1>2, DivExact, VmmAssumption
<1>7. WalkPages - 1 <= Page(AddrSpace - 1) /\ Page(AddrSpace - 1) \in Nat
  BY <1>4, <1>5, <1>6, DivMonotone, DivMod, VmmAssumption DEF Page
<1>8. Page(AddrSpace - 1) >= NEntries * PagesPerLarge
  BY <1>1, <1>2, <1>7
<1>9. Entry(Page(AddrSpace - 1)) \notin Entries
  BY <1>7, <1>8, BeyondMapped
<1> QED
  BY <1>2, <1>3, <1>5, <1>9

(* Within the walk, a page passes just when the processor allows its bytes.*)
LEMMA PageAgrees ==
    ASSUME NEW t, UpperLevelsOpen(t), NEW b \in Nat, NEW write \in BOOLEAN,
           Page(b) \in Nat, Page(b) < WalkPages
    PROVE  vmm_page_has_flags(t, Page(b), write) <=> MmuAllows(t, b, write)
<1>1. Page(b) % WalkPages = Page(b)
  BY ModSmall, VmmAssumption
<1> QED
  BY <1>1 DEF vmm_page_has_flags, MmuAllows, UpperLevelsOpen

(* Every page from that of a to that of l has a byte in a .. l.            *)
LEMMA PageHasByte ==
    ASSUME NEW a \in Nat, NEW l \in Nat, a <= l, NEW n \in Page(a) .. Page(l)
    PROVE  \E b \in a .. l : Page(b) = n
<1>1. /\ Page(a) \in Nat /\ a < PageSize * Page(a) + PageSize
      /\ Page(l) \in Nat /\ PageSize * Page(l) <= l
  BY DivMod, VmmAssumption DEF Page
<1>2. n \in Nat
  BY <1>1
<1>3. CASE n = Page(a)
  BY <1>3
<1>4. CASE n # Page(a)
  <2>1. PageSize * (Page(a) + 1) <= PageSize * n /\ PageSize * n <= PageSize * Page(l)
    <3>1. Page(a) + 1 <= n /\ n <= Page(l) /\ Page(a) + 1 \in Nat
      BY <1>1, <1>2, <1>4
    <3> QED
      BY <1>1, <1>2, <3>1, MulMonotone, VmmAssumption
  <2>2. PageSize * (Page(a) + 1) = PageSize * Page(a) + PageSize /\ PageSize * n = n * PageSize
    BY <1>1, <1>2, VmmAssumption
  <2>3. n * PageSize \in a .. l
    BY <1>1, <1>2, <2>1, <2>2, VmmAssumption
  <2>4. Page(n * PageSize) = n
    BY <1>2, DivExact, VmmAssumption DEF Page
  <2> QED
    BY <2>3, <2>4
<1> QED
  BY <1>3, <1>4

(* A buffer passes vmm_user_range_readable or vmm_user_range_writable just *)
(* when the program could use all of it, whatever its length: neither the  *)
(* end of the address space nor a buffer that ends in an unmapped page is  *)
(* missed.                                                                 *)
THEOREM RangeCheckExact ==
    ASSUME NEW t, UpperLevelsOpen(t)
    PROVE  RangeChecksAgree(t)
<1> SUFFICES ASSUME NEW a \in 0 .. (WalkPages * PageSize - 1), NEW len \in 1 .. (AddrSpace - 1),
                    NEW write \in BOOLEAN
             PROVE  vmm_user_range_ok(t, a, len, write) <=>
                        \A b \in a .. (a + len - 1) : MmuAllows(t, b, write)
  BY DEF RangeChecksAgree
<1>1. /\ a \in Nat /\ len \in Nat /\ len >= 1 /\ a + len \in Nat /\ a < AddrSpace /\ len < AddrSpace
      /\ a + len - 1 \in Nat /\ AddrSpace \in Nat \ {0} /\ WalkPages * PageSize \in Nat
  BY VmmAssumption
<1>2. CASE a + len >= AddrSpace
  <2>1. (a + len) % AddrSpace = a + len - AddrSpace
    <3>1. PICK x \in Nat : x = a + len
      BY <1>1
    <3>2. x < 2 * AddrSpace /\ AddrSpace <= x
      BY <1>1, <1>2, <3>1
    <3>3. x % AddrSpace = x - AddrSpace
      BY <1>1, <3>2, ModWrap
    <3> QED
      BY <1>1, <3>1, <3>3
  <2>2. ~vmm_user_range_ok(t, a, len, write)
    BY <1>1, <1>2, <2>1 DEF vmm_user_range_ok
  <2>3. AddrSpace - 1 \in a .. (a + len - 1)
    BY <1>1, <1>2
  <2>4. ~MmuAllows(t, AddrSpace - 1, write)
    BY GapBeforeEnd DEF MmuAllows
  <2> QED
    BY <2>2, <2>3, <2>4
<1>3. CASE a + len < AddrSpace
  <2> DEFINE l == a + len - 1
  <2>1. l \in Nat /\ a <= l /\ Page(a) \in Nat /\ Page(l) \in Nat /\ Page(a) < WalkPages
    BY <1>1, PageInWalk, DivMod, VmmAssumption DEF Page
  <2>2. /\ (a + len) % AddrSpace = a + len
        /\ (a + len - 1) % AddrSpace = l
    <3>1. a + len - 1 < AddrSpace
      BY <1>1, <1>3
    <3> QED
      BY <1>1, <1>3, <3>1, ModSmall, Zenon
  <2>3. vmm_user_range_ok(t, a, len, write) <=>
            \A n \in Page(a) .. Page(l) : vmm_page_has_flags(t, n, write)
    <3>1. len # 0 /\ a + len >= a
      BY <1>1
    <3> QED
      BY <3>1, <2>2, Zenon DEF vmm_user_range_ok
  <2> HIDE DEF l
  <2>4. ASSUME \A n \in Page(a) .. Page(l) : vmm_page_has_flags(t, n, write),
               NEW b \in a .. l
        PROVE  MmuAllows(t, b, write)
    <3>1. Page(l) < WalkPages
      <4>1. SUFFICES ASSUME Page(l) >= WalkPages PROVE FALSE
        BY <2>1, VmmAssumption
      <4>2. WalkPages - 1 \in Page(a) .. Page(l)
        BY <2>1, <4>1, GapBeforeEnd, VmmAssumption
      <4>3. (WalkPages - 1) % WalkPages = WalkPages - 1
        BY GapBeforeEnd, ModSmall, VmmAssumption
      <4>4. vmm_page_has_flags(t, WalkPages - 1, write)
        BY <2>4, <4>2
      <4> QED
        BY <4>3, <4>4, GapBeforeEnd DEF vmm_page_has_flags
    <3>2. b \in Nat /\ a <= b /\ b <= l
      BY <1>1, <2>1
    <3>3. Page(b) \in Nat /\ Page(a) <= Page(b) /\ Page(b) <= Page(l)
      BY <1>1, <2>1, <3>2, DivMonotone, DivMod, VmmAssumption DEF Page
    <3>4. Page(b) \in Page(a) .. Page(l) /\ Page(b) < WalkPages
      BY <2>1, <3>1, <3>3, VmmAssumption
    <3> QED
      BY <2>4, <3>2, <3>3, <3>4, PageAgrees
  <2>5. ASSUME \A b \in a .. l : MmuAllows(t, b, write),
               NEW n \in Page(a) .. Page(l)
        PROVE  vmm_page_has_flags(t, n, write)
    <3>1. PICK b \in a .. l : Page(b) = n
      BY <1>1, <2>1, PageHasByte
    <3>2. MmuAllows(t, b, write) /\ b \in Nat /\ n \in Nat
      BY <1>1, <2>1, <2>5
    <3>3. Entry(n) \in Entries
      BY <3>1, <3>2 DEF MmuAllows
    <3>4. n < WalkPages
      <4>1. NEntries * PagesPerLarge \in Nat
        BY VmmAssumption
      <4>2. ~(n >= NEntries * PagesPerLarge)
        BY <3>2, <3>3, BeyondMapped
      <4> QED
        BY <3>2, <4>1, <4>2, VmmAssumption
    <3> QED
      BY <3>1, <3>2, <3>4, PageAgrees
  <2>6. l = a + len - 1
    BY DEF l
  <2> QED
    BY <2>3, <2>4, <2>5, <2>6
<1> QED
  BY <1>1, <1>2, <1>3

(* What a grant leaves alone: tables with open upper levels keep them.     *)
LEMMA GrantOpensUpperLevels ==
    ASSUME NEW t \in Tables, UpperLevelsOpen(t), NEW a, Entry(Page(a)) \in Entries,
           NEW writable \in BOOLEAN
    PROVE  /\ vmm_grant_user_2mb_region(t, a, writable) \in Tables
           /\ UpperLevelsOpen(vmm_grant_user_2mb_region(t, a, writable))
<1> DEFINE e == Entry(Page(a))  u == vmm_grant_user_2mb_region(t, a, writable)
<1>1. e \in Entries /\ HugeOf(e) \in Huges
  BY DEF Huges
<1>2. u = [pml4 |-> TRUE, pdpt |-> [t.pdpt EXCEPT ![HugeOf(e)] = TRUE],
           user |-> [t.user EXCEPT ![e] = TRUE], write |-> [t.write EXCEPT ![e] = writable]]
  BY DEF vmm_grant_user_2mb_region, Tables
<1>3. u \in Tables
  BY <1>1, <1>2 DEF Tables
<1>4. ASSUME NEW f \in Entries, u.user[f] PROVE u.pml4 /\ u.pdpt[HugeOf(f)]
  <2>1. HugeOf(f) \in Huges
    BY DEF Huges
  <2>2. CASE f = e
    BY <1>1, <1>2, <2>1, <2>2 DEF Tables
  <2>3. CASE f # e
    <3>1. t.user[f]
      BY <1>1, <1>2, <1>4, <2>3 DEF Tables
    <3>2. t.pdpt[HugeOf(f)]
      BY <3>1 DEF UpperLevelsOpen
    <3> QED
      BY <1>1, <1>2, <2>1, <3>2 DEF Tables
  <2> QED
    BY <2>2, <2>3
<1> QED
  BY <1>3, <1>4 DEF UpperLevelsOpen

LEMMA BootTablesClosed == BootTables \in Tables /\ UpperLevelsOpen(BootTables)
  BY DEF BootTables, Tables, UpperLevelsOpen

(***************************************************************************)
(* Programs                                                                *)
(***************************************************************************)
Steps == {"none", "prefix", "header", "locate", "manifest", "layout", "segments", "image"}

Loads == [by : {"none", "launch", "spawn", "exec"}, pkg : Names \cup {"none"},
          step : Steps, seg : Nat, at : Nat]

(* A load under way has a package, and counts only inside an image.        *)
LoadOK ==
    /\ load \in Loads
    /\ load.step = "none" => load = NoLoad
    /\ load.step # "none" => load.pkg \in Names
    /\ load.step # "image" => load.at = 0
    /\ load.step = "image" => load.seg >= 1

TablesOK == tab \in Tables /\ UpperLevelsOpen(tab)

PagesOK == pages # 0 => load.step \in {"locate", "manifest"}

(* Names are unique, so a name stands for one package.                     *)
LEMMA PkgOfName ==
    ASSUME NEW n \in Names
    PROVE  Pkg[n] \in Packages /\ Pkg[n] \in Package /\ Pkg[n].name = n
  BY ProgramsAssumption DEF Names, Pkg

LEMMA PackageFields ==
    ASSUME NEW p \in Package
    PROVE  /\ p.size \in Nat /\ p.hdr \in Nat /\ p.table \in Nat
           /\ p.secs \in Seq(Section) /\ p.segs \in Seq(SegmentEntry)
           /\ Len(p.secs) \in Nat /\ Len(p.segs) \in Nat
           /\ \A i \in 1 .. Len(p.secs) : p.secs[i].off \in Nat /\ p.secs[i].size \in Nat
           /\ \A i \in 1 .. Len(p.segs) :
                /\ p.segs[i].off \in Nat /\ p.segs[i].len \in Nat
                /\ p.segs[i].dst \in Nat /\ p.segs[i].mem \in Nat
<1>1. p.secs \in Seq(Section) /\ p.segs \in Seq(SegmentEntry) /\ p.size \in Nat /\ p.hdr \in Nat /\ p.table \in Nat
  BY DEF Package
<1>2. \A i \in 1 .. Len(p.secs) : p.secs[i] \in Section
  BY <1>1
<1>3. \A i \in 1 .. Len(p.segs) : p.segs[i] \in SegmentEntry
  BY <1>1
<1>4. \A i \in 1 .. Len(p.secs) : p.secs[i].off \in Nat /\ p.secs[i].size \in Nat
  BY <1>2 DEF Section
<1>5. \A i \in 1 .. Len(p.segs) : /\ p.segs[i].off \in Nat /\ p.segs[i].len \in Nat
                                  /\ p.segs[i].dst \in Nat /\ p.segs[i].mem \in Nat
  BY <1>3 DEF SegmentEntry
<1>6. Len(p.secs) \in Nat /\ Len(p.segs) \in Nat
  BY <1>1
<1> QED
  BY <1>1, <1>4, <1>5, <1>6, Zenon

(***************************************************************************)
(* The load under way                                                      *)
(***************************************************************************)
(* What a step does to the record of the load.                             *)
LEMMA LoadMoves ==
    ASSUME [ProgramsNext]_progVars
    PROVE  \/ load' = load
           \/ load' = NoLoad
           \/ /\ load = NoLoad
              /\ \E n \in Names, by \in {"launch", "spawn", "exec"} :
                    load' = [by |-> by, pkg |-> n, step |-> "prefix", seg |-> 0, at |-> 0]
           \/ /\ load.step \in {"prefix", "header"}
              /\ \E s \in {"header", "locate"} : load' = [load EXCEPT !.step = s]
           \/ /\ load.step = "locate"
              /\ cnpkg_locate_section("image") # 0 /\ cnpkg_locate_section("manifest") # 0
              /\ load' = [load EXCEPT !.step = "manifest"]
           \/ /\ load.step \in {"manifest", "layout"}
              /\ \E s \in {"layout", "segments"} : load' = [load EXCEPT !.step = s]
           \/ load.step = "segments" /\ load' = [load EXCEPT !.step = "image", !.seg = 1]
           \/ /\ InSegment /\ SegmentFits /\ load.at < Seg.len
              /\ load' = [load EXCEPT !.at = @ + 1]
           \/ load.step = "image" /\ load' = [load EXCEPT !.seg = @ + 1, !.at = 0]
<1>1. CASE cnrun \/ ShellSpawn \/ user_sys_spawn \/ user_sys_exec
  BY <1>1, Zenon DEF cnrun, ShellSpawn, user_sys_spawn, user_sys_exec, Begin
<1>2. CASE load_prefix
  BY <1>2, Zenon DEF load_prefix, Fail, Finish, Goto
<1>3. CASE read_header_full
  BY <1>3, Zenon DEF read_header_full, Fail, Finish, Goto
<1>4. CASE LocateSections
  BY <1>4, Zenon DEF LocateSections, Fail, Finish, Goto
<1>5. CASE resolve_requires
  BY <1>5, Zenon DEF resolve_requires, Fail, Finish, Goto
<1>6. CASE Granted
  BY <1>6, Zenon DEF Granted
<1>7. CASE SegmentTable
  BY <1>7, Zenon DEF SegmentTable, Fail, Finish
<1>8. CASE BadSegment \/ CopyChunk \/ ZeroFill \/ EndOfImage
  BY <1>8, Zenon DEF BadSegment, CopyChunk, ZeroFill, EndOfImage, InSegment, Fail, Finish
<1>9. CASE \/ UNCHANGED progVars \/ Resolve \/ Resolved \/ RunEmbedded \/ user_on_syscall_exit
           \/ (\E p \in DOMAIN SonameOf : cndyn_dlopen(p)) \/ (\E h \in 1 .. NLibs : cndyn_dlclose(h))
  BY <1>9, Zenon DEF progVars, Resolve, Resolved, Placed, RunEmbedded, user_on_syscall_exit, cndyn_dlopen, cndyn_dlclose
<1> QED
  BY <1>1, <1>2, <1>3, <1>4, <1>5, <1>6, <1>7, <1>8, <1>9, Zenon DEF ProgramsNext, LoadStep

LEMMA LoadStart == ProgramsInit => LoadOK
  BY DEF ProgramsInit, LoadOK, Loads, NoLoad, Steps

LEMMA LoadKept == LoadOK /\ [ProgramsNext]_progVars => LoadOK'
<1> SUFFICES ASSUME LoadOK, [ProgramsNext]_progVars PROVE LoadOK'
  OBVIOUS
<1>1. LoadOK' <=> /\ load' \in Loads
                  /\ load'.step = "none" => load' = NoLoad
                  /\ load'.step # "none" => load'.pkg \in Names
                  /\ load'.step # "image" => load'.at = 0
                  /\ load'.step = "image" => load'.seg >= 1
  BY DEF LoadOK, Loads, Names, NoLoad
<1>2. CASE load' = load
  BY <1>2, <1>1 DEF LoadOK
<1>3. CASE load' = NoLoad
  BY <1>3, <1>1 DEF Loads, NoLoad, Steps
<1>4. ASSUME NEW n \in Names, NEW by \in {"launch", "spawn", "exec"},
             load' = [by |-> by, pkg |-> n, step |-> "prefix", seg |-> 0, at |-> 0]
      PROVE  LoadOK'
  BY <1>4, <1>1 DEF Loads, Steps
<1>5. ASSUME load.step \in {"prefix", "header", "locate", "manifest", "layout"},
             NEW s \in {"header", "locate", "manifest", "layout", "segments"},
             load' = [load EXCEPT !.step = s]
      PROVE  LoadOK'
  BY <1>5, <1>1 DEF LoadOK, Loads, Steps
<1>6. CASE load.step = "segments" /\ load' = [load EXCEPT !.step = "image", !.seg = 1]
  <2>1. load' \in Loads /\ load'.step = "image" /\ load'.pkg = load.pkg /\ load'.seg = 1
    BY <1>6 DEF LoadOK, Loads, Steps
  <2> QED
    BY <1>6, <1>1, <2>1 DEF LoadOK
<1>7. CASE InSegment /\ load' = [load EXCEPT !.at = @ + 1]
  BY <1>7, <1>1 DEF LoadOK, Loads, InSegment
<1>8. CASE load.step = "image" /\ load' = [load EXCEPT !.seg = @ + 1, !.at = 0]
  <2>1. load.seg + 1 \in Nat /\ load.seg + 1 >= 1
    BY DEF LoadOK, Loads
  <2>2. load' \in Loads /\ load'.step = load.step /\ load'.pkg = load.pkg /\ load'.seg = load.seg + 1
    BY <1>8, <2>1 DEF LoadOK, Loads
  <2> QED
    BY <1>8, <1>1, <2>1, <2>2 DEF LoadOK
<1> QED
  BY LoadMoves, <1>2, <1>3, <1>4, <1>5, <1>6, <1>7, <1>8, Zenon

(***************************************************************************)
(* What has been read                                                      *)
(***************************************************************************)
(* Beyond the look at its header, both sections of a package are known to  *)
(* be in the file; within a segment, the segment is known to be inside the *)
(* image.                                                                  *)
ReadOK ==
    /\ load.step \in {"manifest", "layout", "segments", "image"} =>
          cnpkg_locate_section("image") # 0 /\ cnpkg_locate_section("manifest") # 0
    /\ InSegment /\ load.at > 0 => SegmentFits /\ load.at <= Seg.len

(* A section that is found is inside the file, and so is the header.       *)
LEMMA LocatedIsInside ==
    ASSUME NEW type, load.pkg \in Names, cnpkg_locate_section(type) # 0
    PROVE  /\ cnpkg_locate_section(type) \in 1 .. Len(The.secs)
           /\ The.hdr <= The.size
           /\ LET s == The.secs[cnpkg_locate_section(type)]
              IN  s.off \in Nat /\ s.size \in Nat /\ s.off + s.size <= The.size
<1> DEFINE hits == {i \in 1 .. Len(The.secs) :
                    /\ The.secs[i].type = type /\ \A j \in 1 .. (i - 1) : The.secs[j].type # type
                    /\ 1 + i <= The.hdr
                    /\ The.secs[i].off + The.secs[i].size <= The.size}
<1>1. /\ hits # {} /\ The.hdr <= The.size
      /\ cnpkg_locate_section(type) = CHOOSE i \in hits : TRUE
  BY DEF cnpkg_locate_section
<1>2. cnpkg_locate_section(type) \in hits
  BY <1>1
<1>3. The \in Package
  BY PkgOfName DEF The
<1>4. \A i \in hits : /\ i \in 1 .. Len(The.secs) /\ The.secs[i].off \in Nat /\ The.secs[i].size \in Nat
                      /\ The.secs[i].off + The.secs[i].size <= The.size
  BY <1>3, PackageFields
<1> QED
  BY <1>1, <1>2, <1>4

(* What depends on the package alone stays while the package does.         *)
LEMMA SamePackage ==
    ASSUME load'.pkg = load.pkg
    PROVE  /\ The' = The
           /\ cnpkg_locate_section("image")' = cnpkg_locate_section("image")
           /\ cnpkg_locate_section("manifest")' = cnpkg_locate_section("manifest")
           /\ Image' = Image
<1>1. The' = The
  BY DEF The, Pkg, Names
<1>2. /\ cnpkg_locate_section("image")' = cnpkg_locate_section("image")
      /\ cnpkg_locate_section("manifest")' = cnpkg_locate_section("manifest")
  BY <1>1 DEF cnpkg_locate_section, cnpkg_probe_header, cnpkg_parse_header_prefix
<1> QED
  BY <1>1, <1>2 DEF Image

LEMMA SegmentNumbers ==
    ASSUME LoadOK, load.step # "none"
    PROVE  /\ The \in Package /\ Len(The.segs) \in Nat
           /\ load.seg \in Nat /\ load.at \in Nat
           /\ InSegment =>
                 /\ load.seg \in 1 .. Len(The.segs)
                 /\ Seg.off \in Nat /\ Seg.len \in Nat /\ Seg.dst \in Nat /\ Seg.mem \in Nat
<1>1. The \in Package
  BY PkgOfName DEF The, LoadOK
<1>2. load.seg \in Nat /\ load.at \in Nat
  BY DEF LoadOK, Loads
<1>3. Len(The.segs) \in Nat
  BY <1>1, PackageFields
<1>4. InSegment => load.seg \in 1 .. Len(The.segs)
  BY <1>2, <1>3 DEF InSegment, LoadOK
<1> QED
  BY <1>1, <1>2, <1>3, <1>4, PackageFields DEF Seg

LEMMA ReadKept == LoadOK /\ ReadOK /\ [ProgramsNext]_progVars => ReadOK'
<1> SUFFICES ASSUME LoadOK, ReadOK, [ProgramsNext]_progVars PROVE ReadOK'
  OBVIOUS
<1>1. CASE load' = load
  <2>1. The' = The /\ Image' = Image
    BY <1>1, SamePackage
  <2> QED
    BY <1>1, <2>1, SamePackage DEF ReadOK, InSegment, SegmentFits, Seg
<1>2. CASE load' = NoLoad
  BY <1>2 DEF ReadOK, NoLoad, InSegment
<1>3. ASSUME NEW n \in Names, NEW by \in {"launch", "spawn", "exec"},
             load' = [by |-> by, pkg |-> n, step |-> "prefix", seg |-> 0, at |-> 0]
      PROVE  ReadOK'
  BY <1>3 DEF ReadOK, InSegment
<1>4. ASSUME NEW s \in {"header", "locate"}, load' = [load EXCEPT !.step = s]
      PROVE  ReadOK'
  BY <1>4 DEF ReadOK, InSegment, LoadOK, Loads
<1>5. CASE /\ cnpkg_locate_section("image") # 0 /\ cnpkg_locate_section("manifest") # 0
           /\ load' = [load EXCEPT !.step = "manifest"]
  <2>1. load'.pkg = load.pkg /\ load'.step = "manifest"
    BY <1>5 DEF LoadOK, Loads
  <2> QED
    BY <1>5, <2>1, SamePackage DEF ReadOK, InSegment
<1>6. ASSUME load.step \in {"manifest", "layout"},
             NEW s \in {"layout", "segments"}, load' = [load EXCEPT !.step = s]
      PROVE  ReadOK'
  <2>1. load'.pkg = load.pkg /\ load'.step = s
    BY <1>6 DEF LoadOK, Loads
  <2> QED
    BY <1>6, <2>1, SamePackage DEF ReadOK, InSegment
<1>7. CASE load.step = "segments" /\ load' = [load EXCEPT !.step = "image", !.seg = 1]
  <2>1. load'.pkg = load.pkg /\ load'.at = 0
    BY <1>7 DEF LoadOK, Loads
  <2> QED
    BY <1>7, <2>1, SamePackage DEF ReadOK
<1>8. CASE InSegment /\ SegmentFits /\ load.at < Seg.len /\ load' = [load EXCEPT !.at = @ + 1]
  <2>1. load'.pkg = load.pkg /\ load'.at = load.at + 1 /\ load'.seg = load.seg /\ load.at \in Nat
    BY <1>8 DEF LoadOK, Loads
  <2>2. /\ cnpkg_locate_section("image") # 0 /\ cnpkg_locate_section("manifest") # 0
    BY <1>8 DEF ReadOK, InSegment
  <2>3. Seg' = Seg /\ SegmentFits'
    BY <1>8, <2>1, SamePackage DEF Seg, SegmentFits
  <2>4. Seg.len \in Nat
    BY <1>8, SegmentNumbers DEF InSegment
  <2> QED
    BY <1>8, <2>1, <2>2, <2>3, <2>4, SamePackage DEF ReadOK
<1>9. CASE load.step = "image" /\ load' = [load EXCEPT !.seg = @ + 1, !.at = 0]
  <2>1. load'.pkg = load.pkg /\ load'.at = 0
    BY <1>9 DEF LoadOK, Loads
  <2> QED
    BY <1>9, <2>1, SamePackage DEF ReadOK
<1> QED
  BY LoadMoves, <1>1, <1>2, <1>3, <1>4, <1>5, <1>6, <1>7, <1>8, <1>9, Zenon

(* The loader goes by what it has read, and what it reads is in the file.  *)
THEOREM LoaderStaysInFile == ProgramsSpec => []LoaderActsOnBytesRead
<1>1. ProgramsInit => ReadOK
  BY DEF ProgramsInit, ReadOK, NoLoad, InSegment
<1>2. LoadOK /\ ReadOK => LoaderActsOnBytesRead
  <2> SUFFICES ASSUME LoadOK, ReadOK,
                      load.step \in {"manifest", "layout", "segments", "image"}
               PROVE  /\ The.hdr <= The.size
                      /\ Image.off + Image.size <= The.size
                      /\ Manifest.off + Manifest.size <= The.size
                      /\ (InSegment /\ load.at > 0) => Image.off + Seg.off + load.at <= The.size
    BY Zenon DEF LoaderActsOnBytesRead
  <2>1. cnpkg_locate_section("image") # 0 /\ cnpkg_locate_section("manifest") # 0 /\ load.pkg \in Names
    BY DEF LoadOK, ReadOK
  <2>2. /\ The.hdr <= The.size
        /\ Image.off + Image.size <= The.size /\ Image.off \in Nat /\ Image.size \in Nat
        /\ Manifest.off + Manifest.size <= The.size
    BY <2>1, LocatedIsInside DEF Image, Manifest
  <2>3. ASSUME InSegment, load.at > 0 PROVE Image.off + Seg.off + load.at <= The.size
    <3>1. /\ Seg.off + Seg.len <= Image.size /\ load.at <= Seg.len
          /\ Seg.off \in Nat /\ Seg.len \in Nat /\ load.at \in Nat /\ The.size \in Nat
      BY <2>3, SegmentNumbers, PackageFields DEF ReadOK, SegmentFits
    <3> QED
      BY <2>2, <3>1
  <2> QED
    BY <2>2, <2>3
<1> QED
  BY <1>1, <1>2, LoadStart, LoadKept, ReadKept, PTL DEF ProgramsSpec

(***************************************************************************)
(* Page tables                                                             *)
(***************************************************************************)
LEMMA GrantedOK ==
    ASSUME TablesOK, grant_user_regions
    PROVE  TablesOK'
<1> DEFINE t == vmm_grant_user_2mb_region(tab, TextBase, FALSE)
<1>1. t \in Tables /\ UpperLevelsOpen(t)
  BY GrantOpensUpperLevels, ProgramsAssumption DEF TablesOK
<1> HIDE DEF t
<1>2. LET v == vmm_grant_user_2mb_region(t, StackBase, TRUE) IN v \in Tables /\ UpperLevelsOpen(v)
  BY <1>1, GrantOpensUpperLevels, ProgramsAssumption
<1>3. tab' = vmm_grant_user_2mb_region(t, StackBase, TRUE)
  BY DEF grant_user_regions, t
<1> QED
  BY <1>2, <1>3 DEF TablesOK

LEMMA TablesStep == TablesOK /\ [ProgramsNext]_progVars => TablesOK'
<1> SUFFICES ASSUME TablesOK, [ProgramsNext]_progVars PROVE TablesOK'
  OBVIOUS
<1>1. CASE grant_user_regions
  BY <1>1, GrantedOK
<1>2. CASE tab' = tab
  BY <1>2 DEF TablesOK
<1>3. grant_user_regions \/ tab' = tab
  BY DEF ProgramsNext, progVars, Resolve, Resolved, cnrun, ShellSpawn, user_sys_spawn, user_sys_exec, Begin,
         LoadStep, load_prefix, read_header_full, LocateSections, resolve_requires, Granted, SegmentTable,
         BadSegment, CopyChunk, ZeroFill, EndOfImage, Fail, Finish, Goto, Placed, RunEmbedded, user_on_syscall_exit,
         cndyn_dlopen, cndyn_dlclose
<1> QED
  BY <1>1, <1>2, <1>3

(* A buffer passes the range checks of the system calls just when the      *)
(* program itself could use it, whatever has been loaded and run before.   *)
THEOREM RangeChecksAreExact == ProgramsSpec => []BuffersAreChecked
<1>1. ProgramsInit => TablesOK
  BY BootTablesClosed DEF ProgramsInit, TablesOK
<1>2. TablesOK => BuffersAreChecked
  BY RangeCheckExact DEF TablesOK, BuffersAreChecked
<1> QED
  BY <1>1, <1>2, TablesStep, PTL DEF ProgramsSpec

(***************************************************************************)
(* Pages of the header                                                     *)
(***************************************************************************)
(* However a load ends, the pages that held the header of its package have *)
(* been given back.                                                        *)
THEOREM PagesAreReturned == ProgramsSpec => []HeaderPagesReturned
<1>1. ProgramsInit => PagesOK
  BY DEF ProgramsInit, PagesOK
<1>2. LoadOK /\ PagesOK /\ [ProgramsNext]_progVars => PagesOK'
  <2> SUFFICES ASSUME LoadOK, PagesOK, [ProgramsNext]_progVars PROVE PagesOK'
    OBVIOUS
  <2>1. CASE load_prefix \/ read_header_full
    BY <2>1 DEF LoadOK, Loads, PagesOK, load_prefix, read_header_full, Fail, Finish, Goto
  <2>2. CASE LocateSections \/ resolve_requires
    BY <2>2 DEF LoadOK, Loads, PagesOK, LocateSections, resolve_requires, Fail, Finish, Goto
  <2>3. CASE Granted \/ SegmentTable \/ BadSegment \/ CopyChunk \/ ZeroFill \/ EndOfImage
    BY <2>3, Zenon DEF PagesOK, Granted, SegmentTable, InSegment, BadSegment, CopyChunk, ZeroFill, EndOfImage
  <2>4. CASE cnrun \/ ShellSpawn \/ user_sys_spawn \/ user_sys_exec
    BY <2>4 DEF PagesOK, cnrun, ShellSpawn, user_sys_spawn, user_sys_exec, Begin, NoLoad
  <2>5. CASE \/ UNCHANGED progVars \/ Resolve \/ Resolved \/ RunEmbedded \/ user_on_syscall_exit
             \/ (\E p \in DOMAIN SonameOf : cndyn_dlopen(p)) \/ (\E h \in 1 .. NLibs : cndyn_dlclose(h))
    BY <2>5 DEF PagesOK, progVars, Resolve, Resolved, Placed, RunEmbedded, user_on_syscall_exit, cndyn_dlopen, cndyn_dlclose
  <2> QED
    BY <2>1, <2>2, <2>3, <2>4, <2>5, Zenon DEF ProgramsNext, LoadStep
<1>3. PagesOK => HeaderPagesReturned
  BY DEF PagesOK, HeaderPagesReturned, NoLoad
<1> QED
  BY <1>1, <1>2, <1>3, LoadStart, LoadKept, PTL DEF ProgramsSpec

(***************************************************************************)
(* The table of libraries                                                  *)
(***************************************************************************)
LibsOK ==
    /\ libs \in [1 .. NLibs -> {"free"} \cup {SonameOf[p] : p \in DOMAIN SonameOf}]
    /\ LibrariesEnteredOnce

(* A library is entered once, so that its handle is found again, unless    *)
(* its name is one that a longer path is cut to.                           *)
THEOREM LibrariesAreFound == ProgramsSpec => []LibrariesEnteredOnce
<1>1. ProgramsInit => LibsOK
  BY ProgramsAssumption DEF ProgramsInit, LibsOK, LibrariesEnteredOnce
<1>2. LibsOK /\ [ProgramsNext]_progVars => LibsOK'
  <2> SUFFICES ASSUME LibsOK, [ProgramsNext]_progVars PROVE LibsOK'
    OBVIOUS
  <2>1. ASSUME NEW path \in DOMAIN SonameOf, cndyn_dlopen(path) PROVE LibsOK'
    <3>1. PICK i \in 1 .. NLibs : libs[i] = "free" /\ libs' = [libs EXCEPT ![i] = SonameOf[path]]
      BY <2>1 DEF cndyn_dlopen
    <3>2. libs' \in [1 .. NLibs -> {"free"} \cup {SonameOf[p] : p \in DOMAIN SonameOf}]
      BY <3>1 DEF LibsOK
    <3>3. ASSUME NEW j \in 1 .. NLibs, NEW k \in 1 .. NLibs, libs'[j] = libs'[k], libs'[j] \in DOMAIN SonameOf,
                 \A p \in DOMAIN SonameOf : SonameOf[p] = libs'[j] => p = libs'[j]
          PROVE  j = k
      <4>1. \A m \in 1 .. NLibs : libs[m] # path
        BY <2>1 DEF cndyn_dlopen
      <4>2. \A m \in 1 .. NLibs : libs'[m] = IF m = i THEN SonameOf[path] ELSE libs[m]
        BY <3>1 DEF LibsOK
      <4>3. CASE j = i \/ k = i
        <5>1. path = libs'[j]
          BY <3>3, <4>2, <4>3
        <5> QED
          BY <3>3, <4>1, <4>2, <4>3, <5>1
      <4>4. CASE j # i /\ k # i
        BY <3>3, <4>2, <4>4 DEF LibsOK, LibrariesEnteredOnce
      <4> QED
        BY <4>3, <4>4
    <3> QED
      BY <3>2, <3>3 DEF LibsOK, LibrariesEnteredOnce
  <2>2. ASSUME NEW h \in 1 .. NLibs, cndyn_dlclose(h) PROVE LibsOK'
    <3>1. libs' = [libs EXCEPT ![h] = "free"]
      BY <2>2 DEF cndyn_dlclose
    <3>2. libs' \in [1 .. NLibs -> {"free"} \cup {SonameOf[p] : p \in DOMAIN SonameOf}]
      BY <3>1 DEF LibsOK
    <3>3. \A m \in 1 .. NLibs : libs'[m] = IF m = h THEN "free" ELSE libs[m]
      BY <3>1 DEF LibsOK
    <3> QED
      BY <3>2, <3>3, ProgramsAssumption DEF LibsOK, LibrariesEnteredOnce
  <2>3. CASE libs' = libs
    BY <2>3 DEF LibsOK, LibrariesEnteredOnce
  <2>4. \/ libs' = libs
        \/ \E p \in DOMAIN SonameOf : cndyn_dlopen(p)
        \/ \E h \in 1 .. NLibs : cndyn_dlclose(h)
    BY DEF ProgramsNext, progVars, Resolve, Resolved, cnrun, ShellSpawn, user_sys_spawn, user_sys_exec, Begin,
           LoadStep, load_prefix, read_header_full, LocateSections, resolve_requires, Granted, SegmentTable,
           BadSegment, CopyChunk, ZeroFill, EndOfImage, Fail, Finish, Goto, Placed, RunEmbedded, user_on_syscall_exit
  <2> QED
    BY <2>1, <2>2, <2>3, <2>4
<1>3. LibsOK => LibrariesEnteredOnce
  BY DEF LibsOK
<1> QED
  BY <1>1, <1>2, <1>3, PTL DEF ProgramsSpec

(***************************************************************************)
(* The image in the window                                                 *)
(***************************************************************************)
Agrees(image) == \A u \in Window : image[u] \in {"any", text[u]}

(* The segments before the present one are in place; of the present one,   *)
(* the units copied so far.                                                *)
PlacedOK ==
    /\ text \in [Window -> Names \cup {"none", "zero"}]
    /\ prog \in Names \cup {"none"}
    /\ prog # "none" /\ ~mixed => Agrees(ImageOf(prog))
    /\ load.step = "image" =>
          /\ load.seg <= Len(The.segs) + 1
          /\ load.seg > Len(The.segs) => load.at = 0
          /\ \A u \in Window :
                IF load.at > 0 /\ u - Seg.dst \in 0 .. (load.at - 1) THEN text[u] = load.pkg
                ELSE ImageUpTo(load.pkg, load.seg - 1)[u] \in {"any", text[u]}

(* One more segment covers what it covers, and nothing else.               *)
LEMMA OneMoreSegment ==
    ASSUME NEW name \in Names, NEW k \in Nat, k + 1 <= Len(Pkg[name].segs), NEW u \in Window
    PROVE  LET s == Pkg[name].segs[k + 1]
           IN  ImageUpTo(name, k + 1)[u] =
                 IF u - s.dst \in 0 .. (s.mem - 1) THEN IF u - s.dst < s.len THEN name ELSE "zero"
                 ELSE ImageUpTo(name, k)[u]
<1> DEFINE segs == Pkg[name].segs
           In(i) == u - segs[i].dst \in 0 .. (segs[i].mem - 1)
           over(n) == {i \in 1 .. n : In(i)}
           top(n) == CHOOSE i \in over(n) : \A j \in over(n) : j <= i
           At(n) == IF over(n) = {} THEN "any"
                    ELSE IF u - segs[top(n)].dst < segs[top(n)].len THEN name ELSE "zero"
<1>1. ImageUpTo(name, k)[u] = At(k) /\ ImageUpTo(name, k + 1)[u] = At(k + 1)
  BY DEF ImageUpTo
<1>2. CASE In(k + 1)
  <2>1. k + 1 \in over(k + 1) /\ \A j \in over(k + 1) : j <= k + 1
    BY <1>2
  <2>2. \A i \in over(k + 1) : (\A j \in over(k + 1) : j <= i) => i = k + 1
    BY SMTT(30), <2>1
  <2>3. top(k + 1) = k + 1
    BY <2>1, <2>2
  <2> QED
    BY <1>1, <1>2, <2>1, <2>3
<1>3. CASE ~In(k + 1)
  <2>1. over(k + 1) = over(k)
    <3>1. \A i \in 1 .. (k + 1) : i = k + 1 \/ i \in 1 .. k
      OBVIOUS
    <3>2. \A i \in 1 .. k : i \in 1 .. (k + 1)
      OBVIOUS
    <3> QED
      BY <1>3, <3>1, <3>2
  <2>2. At(k + 1) = At(k)
    BY <2>1
  <2> QED
    BY <1>1, <1>3, <2>2
<1> QED
  BY <1>2, <1>3

(* Most steps touch neither the window nor the program, and are not in an  *)
(* image.                                                                  *)
LEMMA QuietSteps ==
    ASSUME LoadOK, [ProgramsNext]_progVars
    PROVE  \/ SegmentTable \/ CopyChunk \/ ZeroFill \/ EndOfImage \/ RunEmbedded \/ user_on_syscall_exit
           \/ UNCHANGED <<text, prog, mixed>> /\ (load' = load \/ load'.step # "image")
<1>1. CASE cnrun \/ ShellSpawn \/ user_sys_spawn \/ user_sys_exec
  BY <1>1 DEF cnrun, ShellSpawn, user_sys_spawn, user_sys_exec, Begin
<1>2. CASE Fail
  BY <1>2 DEF Fail, Finish, NoLoad
<1>3. ASSUME NEW s \in {"header", "locate", "manifest", "layout"}, Goto(s)
      PROVE  UNCHANGED <<text, prog, mixed>> /\ load'.step # "image"
  BY <1>3 DEF Goto, LoadOK, Loads
<1>4. CASE load_prefix \/ read_header_full \/ LocateSections \/ resolve_requires \/ BadSegment
  BY <1>2, <1>3, <1>4, Zenon DEF load_prefix, read_header_full, LocateSections, resolve_requires, BadSegment
<1>5. CASE Granted
  BY <1>5 DEF Granted, LoadOK, Loads
<1>6. CASE \/ UNCHANGED progVars \/ Resolve \/ Resolved
           \/ (\E p \in DOMAIN SonameOf : cndyn_dlopen(p)) \/ (\E h \in 1 .. NLibs : cndyn_dlclose(h))
  BY <1>6, Zenon DEF progVars, Resolve, Resolved, cndyn_dlopen, cndyn_dlclose
<1> QED
  BY <1>1, <1>4, <1>5, <1>6, Zenon DEF ProgramsNext, LoadStep

(* A chunk that is copied is the next one of its segment.                  *)
LEMMA ChunkKept ==
    ASSUME LoadOK, ReadOK, PlacedOK, CopyChunk
    PROVE  PlacedOK'
<1>1. /\ InSegment /\ load.step = "image" /\ load.seg \in 1 .. Len(The.segs) /\ load.pkg \in Names
      /\ load.at \in Nat /\ Seg.dst \in Nat /\ Len(The.segs) \in Nat
  BY SegmentNumbers DEF CopyChunk, InSegment, LoadOK
<1>2. PICK what \in {text[Seg.dst + load.at], load.pkg} :
        /\ text' = [text EXCEPT ![Seg.dst + load.at] = what]
        /\ \/ what = load.pkg /\ load' = [load EXCEPT !.at = @ + 1]
           \/ load' = NoLoad
  BY Zenon DEF CopyChunk
<1>3. prog' = prog /\ (mixed' <=> prog # "none")
  BY DEF CopyChunk
<1>4. text' \in [Window -> Names \cup {"none", "zero"}]
  BY <1>1, <1>2 DEF PlacedOK
<1>5. /\ prog' \in Names \cup {"none"}
      /\ (prog # "none" /\ ~mixed => Agrees(ImageOf(prog)))'
  BY <1>3 DEF PlacedOK
<1>6. CASE load' = NoLoad
  BY <1>4, <1>5, <1>6 DEF PlacedOK, NoLoad
<1>7. CASE what = load.pkg /\ load' = [load EXCEPT !.at = @ + 1]
  <2>1. /\ load'.at = load.at + 1 /\ load'.seg = load.seg /\ load'.pkg = load.pkg /\ load'.step = load.step
    BY <1>7 DEF LoadOK, Loads
  <2>2. The' = The /\ Seg' = Seg
    BY <2>1, SamePackage DEF Seg
  <2>3. ASSUME NEW u \in Window
        PROVE  IF load'.at > 0 /\ u - Seg.dst \in 0 .. (load'.at - 1) THEN text'[u] = load.pkg
               ELSE ImageUpTo(load.pkg, load.seg - 1)[u] \in {"any", text'[u]}
    <3>1. u \in Nat /\ text'[u] = IF u = Seg.dst + load.at THEN load.pkg ELSE text[u]
      BY <1>1, <1>2, <1>7, ProgramsAssumption DEF PlacedOK
    <3>2. IF load.at > 0 /\ u - Seg.dst \in 0 .. (load.at - 1) THEN text[u] = load.pkg
          ELSE ImageUpTo(load.pkg, load.seg - 1)[u] \in {"any", text[u]}
      BY <1>1 DEF PlacedOK
    <3>3. CASE u - Seg.dst \in 0 .. load.at
      <4>1. text'[u] = load.pkg
        BY <1>1, <3>1, <3>2, <3>3
      <4> QED
        BY <1>1, <2>1, <3>1, <3>3, <4>1
    <3>4. CASE u - Seg.dst \notin 0 .. load.at
      <4>1. u # Seg.dst + load.at /\ u - Seg.dst \notin 0 .. (load.at - 1)
        BY <1>1, <3>1, <3>4
      <4>2. ImageUpTo(load.pkg, load.seg - 1)[u] \in {"any", text'[u]}
        BY <3>1, <3>2, <4>1
      <4> QED
        BY <1>1, <2>1, <3>4, <4>2
    <3> QED
      BY <3>3, <3>4
  <2>4. load.seg <= Len(The.segs)
    BY <1>1
  <2>5. ImageUpTo(load.pkg, load.seg - 1)' = ImageUpTo(load.pkg, load.seg - 1)
    BY <2>1 DEF ImageUpTo, Pkg, Names
  <2>6. /\ load'.seg <= Len(The'.segs) + 1
        /\ ~(load'.seg > Len(The'.segs))
    BY <1>1, <2>1, <2>2
  <2> QED
    BY <1>4, <1>5, <2>1, <2>2, <2>3, <2>5, <2>6 DEF PlacedOK
<1> QED
  BY <1>2, <1>6, <1>7

(* When the rest of a segment has been cleared, the segment is in place.   *)
LEMMA FillKept ==
    ASSUME LoadOK, ReadOK, PlacedOK, ZeroFill
    PROVE  PlacedOK'
<1>1. /\ InSegment /\ load.step = "image" /\ load.seg \in 1 .. Len(The.segs) /\ load.pkg \in Names
      /\ load.at = Seg.len /\ Seg.len \in Nat /\ Seg.mem \in Nat /\ Seg.dst \in Nat /\ Seg.len <= Seg.mem
      /\ Len(The.segs) \in Nat /\ The = Pkg[load.pkg]
  BY SegmentNumbers DEF ZeroFill, InSegment, LoadOK, SegmentFits, The
<1>2. /\ load'.at = 0 /\ load'.seg = load.seg + 1 /\ load'.pkg = load.pkg /\ load'.step = "image"
  BY <1>1 DEF ZeroFill, LoadOK, Loads
<1>3. The' = The
  BY <1>2, SamePackage
<1>4. text' = [u \in Window |-> IF u - Seg.dst \in Seg.len .. (Seg.mem - 1) THEN "zero" ELSE text[u]]
  BY DEF ZeroFill
<1>5. text' \in [Window -> Names \cup {"none", "zero"}]
  BY <1>4 DEF PlacedOK
<1>6. /\ prog' \in Names \cup {"none"}
      /\ (prog # "none" /\ ~mixed => Agrees(ImageOf(prog)))'
  BY DEF PlacedOK, ZeroFill
<1>7. ASSUME NEW u \in Window
      PROVE  ImageUpTo(load.pkg, load.seg)[u] \in {"any", text'[u]}
  <2>1. PICK k \in Nat : k + 1 = load.seg /\ k = load.seg - 1
    BY <1>1
  <2>2. k + 1 <= Len(Pkg[load.pkg].segs) /\ Seg = Pkg[load.pkg].segs[k + 1] /\ u \in Nat
    BY SMTT(30), <1>1, <2>1, ProgramsAssumption DEF Seg
  <2>3. ImageUpTo(load.pkg, k + 1)[u] =
          IF u - Seg.dst \in 0 .. (Seg.mem - 1) THEN IF u - Seg.dst < Seg.len THEN load.pkg ELSE "zero"
          ELSE ImageUpTo(load.pkg, k)[u]
    BY <1>1, <2>2, OneMoreSegment
  <2>4. IF load.at > 0 /\ u - Seg.dst \in 0 .. (load.at - 1) THEN text[u] = load.pkg
        ELSE ImageUpTo(load.pkg, k)[u] \in {"any", text[u]}
    BY <1>1, <2>1 DEF PlacedOK
  <2>5. PICK x \in Int : x = u - Seg.dst
    BY SMTT(30), <1>1, <2>2
  <2>6. ImageUpTo(load.pkg, load.seg)[u] =
          IF x \in 0 .. (Seg.mem - 1) THEN IF x < Seg.len THEN load.pkg ELSE "zero"
          ELSE ImageUpTo(load.pkg, k)[u]
    BY <2>1, <2>3, <2>5
  <2>7. text'[u] = IF x \in Seg.len .. (Seg.mem - 1) THEN "zero" ELSE text[u]
    BY <1>4, <2>5
  <2>8. IF x \in 0 .. (Seg.len - 1) THEN text[u] = load.pkg
        ELSE ImageUpTo(load.pkg, k)[u] \in {"any", text[u]}
    BY <1>1, <2>4, <2>5
  <2>9. PICK l \in Nat, m \in Nat : l = Seg.len /\ m = Seg.mem /\ l <= m
    BY <1>1
  <2>10. \/ x \in 0 .. (l - 1) /\ x \in 0 .. (m - 1) /\ x < l /\ x \notin l .. (m - 1)
         \/ x \in l .. (m - 1) /\ x \in 0 .. (m - 1) /\ ~(x < l)
         \/ x \notin 0 .. (l - 1) /\ x \notin 0 .. (m - 1) /\ x \notin l .. (m - 1)
    BY <2>9
  <2> QED
    BY <2>6, <2>7, <2>8, <2>9, <2>10
<1>8. ImageUpTo(load.pkg, load.seg - 1)' = ImageUpTo(load.pkg, load.seg)
  <2>1. (load.seg + 1) - 1 = load.seg
    BY <1>1
  <2> QED
    BY <1>2, <2>1
<1>9. load'.seg <= Len(The'.segs) + 1
  BY <1>1, <1>2, <1>3
<1> QED
  BY <1>2, <1>5, <1>6, <1>7, <1>8, <1>9 DEF PlacedOK

LEMMA PlacedKept == LoadOK /\ ReadOK /\ PlacedOK /\ [ProgramsNext]_progVars => PlacedOK'
<1> SUFFICES ASSUME LoadOK, ReadOK, PlacedOK, [ProgramsNext]_progVars PROVE PlacedOK'
  OBVIOUS
<1>1. CASE UNCHANGED <<text, prog, mixed>> /\ (load' = load \/ load'.step # "image")
  <2>1. /\ text' \in [Window -> Names \cup {"none", "zero"}] /\ prog' \in Names \cup {"none"}
        /\ (prog # "none" /\ ~mixed => Agrees(ImageOf(prog)))'
    BY <1>1 DEF PlacedOK, Agrees
  <2>2. CASE load'.step # "image"
    BY <2>1, <2>2 DEF PlacedOK
  <2>3. CASE load' = load
    <3>1. The' = The /\ Seg' = Seg /\ ImageUpTo(load.pkg, load.seg - 1)' = ImageUpTo(load.pkg, load.seg - 1)
      BY SMTT(30), <2>3 DEF The, Seg, ImageUpTo, Pkg, Names
    <3> QED
      BY <1>1, <2>1, <2>3, <3>1 DEF PlacedOK
  <2> QED
    BY <1>1, <2>2, <2>3
<1>2. CASE SegmentTable
  <2>1. CASE Fail
    BY <1>1, <2>1 DEF Fail, Finish, NoLoad
  <2>2. CASE ~Fail
    <3>1. /\ load' = [load EXCEPT !.step = "image", !.seg = 1] /\ UNCHANGED <<text, prog, mixed>>
          /\ load.step = "segments"
      BY <1>2, <2>2 DEF SegmentTable
    <3>2. /\ load'.at = 0 /\ load'.seg = 1 /\ load'.pkg = load.pkg /\ load'.step = "image"
      BY <3>1 DEF LoadOK, Loads
    <3>3. /\ text' \in [Window -> Names \cup {"none", "zero"}] /\ prog' \in Names \cup {"none"}
          /\ (prog # "none" /\ ~mixed => Agrees(ImageOf(prog)))'
      BY <3>1 DEF PlacedOK, Agrees
    <3>4. The' = The /\ Len(The.segs) \in Nat
      BY <3>1, <3>2, SamePackage, SegmentNumbers
    <3>5. \A u \in Window : ImageUpTo(load.pkg, load.seg - 1)'[u] = "any"
      <4>1. {i \in 1 .. (1 - 1) : TRUE} = {}
        OBVIOUS
      <4> QED
        BY <3>2, <4>1 DEF ImageUpTo
    <3> QED
      BY SMTT(30), <3>2, <3>3, <3>4, <3>5 DEF PlacedOK
  <2> QED
    BY <2>1, <2>2
<1>3. CASE CopyChunk
  BY <1>3, ChunkKept
<1>4. CASE ZeroFill
  BY <1>4, FillKept
<1>5. CASE EndOfImage
  <2>1. load' = NoLoad /\ text' = text /\ load.step = "image" /\ load.pkg \in Names
    BY <1>5 DEF EndOfImage, Finish, LoadOK
  <2>2. CASE UNCHANGED <<prog, mixed>>
    BY <1>1, <2>1, <2>2 DEF NoLoad
  <2>3. CASE prog' = load.pkg /\ mixed' = FALSE
    <3>1. load.at = 0 /\ load.seg - 1 = Len(The.segs)
      BY <1>5, <2>1, SegmentNumbers DEF PlacedOK, EndOfImage
    <3>2. \A u \in Window : ImageUpTo(load.pkg, load.seg - 1)[u] \in {"any", text[u]}
      BY <2>1, <3>1 DEF PlacedOK
    <3>3. \A u \in Window : ImageOf(load.pkg)[u] \in {"any", text[u]}
      BY <3>1, <3>2 DEF ImageOf, The
    <3>4. Agrees(ImageOf(prog))'
      BY <2>1, <2>3, <3>3 DEF Agrees
    <3> QED
      BY <2>1, <2>3, <3>4 DEF PlacedOK, NoLoad
  <2> QED
    BY <1>5, <2>2, <2>3, Zenon DEF EndOfImage, Finish
<1>6. CASE RunEmbedded
  <2>1. PICK n \in Names :
          /\ text' = [u \in Window |-> IF ImageOf(n)[u] = "any" THEN text[u] ELSE ImageOf(n)[u]]
          /\ prog' = n
    BY <1>6 DEF Placed, RunEmbedded
  <2>2. \A u \in Window : ImageOf(n)[u] \in {"any", "zero", n}
    BY DEF ImageOf, ImageUpTo
  <2>3. text' \in [Window -> Names \cup {"none", "zero"}]
    BY <2>1, <2>2 DEF PlacedOK
  <2>4. \A u \in Window : ImageOf(n)[u] \in {"any", text'[u]}
    BY <2>1
  <2>5. Agrees(ImageOf(prog))'
    BY <2>1, <2>4 DEF Agrees
  <2>6. load'.step # "image"
    BY <1>6 DEF Placed, RunEmbedded, NoLoad
  <2> QED
    BY <2>1, <2>3, <2>5, <2>6 DEF PlacedOK
<1>7. CASE user_on_syscall_exit
  BY <1>7 DEF user_on_syscall_exit, PlacedOK, NoLoad
<1> QED
  BY QuietSteps, <1>1, <1>2, <1>3, <1>4, <1>5, <1>6, <1>7, Zenon

(* A program that runs has its whole image in the window, zeros included,  *)
(* however its segments overlap and whichever loads failed before it.      *)
THEOREM ImagesAreWhole == ProgramsSpec => []RunsWholeImage
<1>1. ProgramsInit => ReadOK
  BY DEF ProgramsInit, ReadOK, NoLoad, InSegment
<1>2. ProgramsInit => PlacedOK
  BY DEF ProgramsInit, PlacedOK, NoLoad
<1>3. PlacedOK => RunsWholeImage
  BY DEF PlacedOK, RunsWholeImage, Agrees
<1> QED
  BY <1>1, <1>2, <1>3, LoadStart, LoadKept, ReadKept, PlacedKept, PTL DEF ProgramsSpec

(***************************************************************************)
(* Types and the size of a header                                          *)
(***************************************************************************)
MostPages == (MaxHeader + UnitsPerPage - 1) \div UnitsPerPage

LEMMA HeaderPages ==
    ASSUME NEW h \in Nat, h <= MaxHeader
    PROVE  (h + UnitsPerPage - 1) \div UnitsPerPage \in 0 .. MostPages /\ MostPages \in Nat
<1>1. /\ h + UnitsPerPage - 1 \in Nat /\ MaxHeader + UnitsPerPage - 1 \in Nat /\ UnitsPerPage \in Nat \ {0}
      /\ h + UnitsPerPage - 1 <= MaxHeader + UnitsPerPage - 1
  <2>1. UnitsPerPage \in Nat \ {0} /\ MaxHeader \in Nat
    BY Zenon, ProgramsAssumption
  <2> QED
    BY <2>1
<1>2. (h + UnitsPerPage - 1) \div UnitsPerPage <= MostPages
  <2>1. PICK a \in Nat, b \in Nat : a = h + UnitsPerPage - 1 /\ b = MaxHeader + UnitsPerPage - 1
    BY <1>1
  <2>2. a \div UnitsPerPage <= b \div UnitsPerPage
    BY <1>1, <2>1, DivMonotone
  <2> QED
    BY <2>1, <2>2 DEF MostPages
<1>3. (h + UnitsPerPage - 1) \div UnitsPerPage \in Nat /\ MostPages \in Nat
  BY <1>1, DivMod DEF MostPages
<1> QED
  BY <1>2, <1>3

(* No package, however its header is filled in, takes more pages than the  *)
(* limit on headers allows; every variable has its type.                   *)
THEOREM TypesHold == ProgramsSpec => []ProgramsTypeOK
<1> DEFINE SmallOK == pages \in 0 .. MostPages /\ mixed \in BOOLEAN
<1>1. ProgramsInit => ReadOK /\ PlacedOK /\ TablesOK
  BY BootTablesClosed DEF ProgramsInit, ReadOK, PlacedOK, TablesOK, NoLoad, InSegment
<1>2. ProgramsInit => SmallOK
  <2>1. 0 \in 0 .. MostPages
    BY HeaderPages, ProgramsAssumption
  <2> QED
    BY <2>1 DEF ProgramsInit
<1>3. LoadOK /\ SmallOK /\ [ProgramsNext]_progVars => SmallOK'
  <2> SUFFICES ASSUME LoadOK, SmallOK, [ProgramsNext]_progVars PROVE SmallOK'
    OBVIOUS
  <2>1. mixed' \in BOOLEAN
    BY Zenon DEF ProgramsNext, progVars, Resolve, Resolved, cnrun, ShellSpawn, user_sys_spawn, user_sys_exec, Begin,
           LoadStep, load_prefix, read_header_full, LocateSections, resolve_requires, Granted, SegmentTable,
           BadSegment, CopyChunk, ZeroFill, EndOfImage, Fail, Finish, Goto, Placed, RunEmbedded, user_on_syscall_exit,
           cndyn_dlopen, cndyn_dlclose
  <2>2. CASE pages' \in {0, pages}
    <3>1. 0 \in 0 .. MostPages
      BY HeaderPages, ProgramsAssumption
    <3> QED
      BY <2>1, <2>2, <3>1
  <2>3. CASE /\ load.step = "header" /\ The.hdr <= MaxHeader
             /\ pages' = (The.hdr + UnitsPerPage - 1) \div UnitsPerPage
    <3>1. The.hdr \in Nat
      BY <2>3, SegmentNumbers, PackageFields
    <3> QED
      BY <2>1, <2>3, <3>1, HeaderPages
  <2>4. \/ pages' \in {0, pages}
        \/ /\ load.step = "header" /\ The.hdr <= MaxHeader
           /\ pages' = (The.hdr + UnitsPerPage - 1) \div UnitsPerPage
    BY Zenon DEF ProgramsNext, progVars, Resolve, Resolved, cnrun, ShellSpawn, user_sys_spawn, user_sys_exec, Begin,
           LoadStep, load_prefix, read_header_full, LocateSections, resolve_requires, Granted, SegmentTable,
           BadSegment, CopyChunk, ZeroFill, EndOfImage, Placed, RunEmbedded, user_on_syscall_exit,
           cndyn_dlopen, cndyn_dlclose
  <2> QED
    BY <2>2, <2>3, <2>4
<1>4. LoadOK /\ PlacedOK /\ TablesOK /\ SmallOK => ProgramsTypeOK
  BY DEF LoadOK, Loads, PlacedOK, TablesOK, ProgramsTypeOK, MostPages
<1> QED
  BY <1>1, <1>2, <1>3, <1>4, LoadStart, LoadKept, ReadKept, PlacedKept, TablesStep, PTL DEF ProgramsSpec
=============================================================================
