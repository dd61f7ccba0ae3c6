--------------------------------- MODULE Vmm ---------------------------------
(***************************************************************************)
(* vmm.c: the user bits of the page tables and the range checks that the   *)
(* system calls make before they touch a buffer.  The boot tables map the  *)
(* first 4 GiB with large pages below one entry of the PML4, and nothing   *)
(* else; vmm_map and vmm_unmap have no callers.                            *)
(***************************************************************************)
EXTENDS Integers

CONSTANTS
    AddrSpace,      \* 2^64
    PageSize,       \* 4096, the step of the range checks
    PagesPerLarge,  \* 512: a large page has 2 MiB
    LargePerHuge,   \* 512: an entry of the PDPT covers 1 GiB
    NEntries,       \* 2048 large pages are mapped
    WalkPages       \* 2^36: the indices of a walk use 48 bits of an address

ASSUME VmmAssumption ==
    /\ PageSize \in Nat \ {0} /\ PagesPerLarge \in Nat \ {0} /\ LargePerHuge \in Nat \ {0}
    /\ AddrSpace \in Nat /\ NEntries \in Nat /\ WalkPages \in Nat
    /\ NEntries * PagesPerLarge < WalkPages /\ WalkPages * PageSize <= AddrSpace

Page(a) == a \div PageSize
Entry(n) == n \div PagesPerLarge
HugeOf(e) == e \div LargePerHuge
Entries == 0 .. (NEntries - 1)
Huges == {HugeOf(e) : e \in Entries}

\* The user bits of the PML4 entry, the PDPT and the page directories, and the
\* write bits of the latter.
Tables == [pml4 : BOOLEAN, pdpt : [Huges -> BOOLEAN],
           user : [Entries -> BOOLEAN], write : [Entries -> BOOLEAN]]

\* What entry.asm builds: everything writable, and for the kernel only.
BootTables == [pml4 |-> FALSE, pdpt |-> [h \in Huges |-> FALSE],
               user |-> [e \in Entries |-> FALSE], write |-> [e \in Entries |-> TRUE]]

\* Of the upper levels only the present bits are looked at.
vmm_page_has_flags(t, n, write) ==
    LET e == Entry(n % WalkPages)
    IN  e \in Entries /\ t.user[e] /\ (write => t.write[e])

\* vmm_user_range_readable and vmm_user_range_writable.
vmm_user_range_ok(t, a, len, write) ==
    \/ len = 0
    \/ /\ (a + len) % AddrSpace >= a
       /\ \A n \in Page(a) .. Page((a + len - 1) % AddrSpace) : vmm_page_has_flags(t, n, write)

vmm_grant_user_2mb_region_LeafOnly(t, a, writable) ==
    LET e == Entry(Page(a))
    IN  [t EXCEPT !.user[e] = TRUE, !.write[e] = writable]
vmm_grant_user_2mb_region(t, a, writable) ==
    LET e == Entry(Page(a))
    IN  [pml4  |-> TRUE,
         pdpt  |-> [t.pdpt EXCEPT ![HugeOf(e)] = TRUE],
         user  |-> [t.user EXCEPT ![e] = TRUE],
         write |-> [t.write EXCEPT ![e] = writable]]

\* The processor lets ring 3 use a byte when the user bit is set on every
\* level, and write to it when it is writable as well.
MmuAllows(t, a, write) ==
    LET e == Entry(Page(a))
    IN  /\ e \in Entries
        /\ t.pml4 /\ t.pdpt[HugeOf(e)] /\ t.user[e] /\ (write => t.write[e])

\* Where a large page is open to ring 3, the levels above it are.
UpperLevelsOpen(t) ==
    \A e \in Entries : t.user[e] => t.pml4 /\ t.pdpt[HugeOf(e)]

\* A range passes the check just when the program itself could use every byte
\* of it.  It begins at an address of 48 bits: of a larger one the walk would
\* ignore the upper bits, which the processor does not.
RangeChecksAgree(t) ==
    \A a \in 0 .. (WalkPages * PageSize - 1), len \in 1 .. (AddrSpace - 1), write \in BOOLEAN :
        vmm_user_range_ok(t, a, len, write) <=>
            \A b \in a .. (a + len - 1) : MmuAllows(t, b, write)
=============================================================================
