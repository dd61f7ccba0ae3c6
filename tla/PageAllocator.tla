--------------------------- MODULE PageAllocator ---------------------------
(***************************************************************************)
(* What a page allocator promises, without a bitmap: once it is ready it   *)
(* hands out runs of usable pages that nobody holds, and takes them back.  *)
(***************************************************************************)
EXTENDS Naturals

CONSTANTS
    Usable,        \* the pages that may ever be handed out
    Lengths        \* the run lengths that may be asked for

VARIABLES
    ready,         \* the allocator is initialised
    held           \* the runs [start, n] handed out and not yet returned

absVars == <<ready, held>>

Run(b) == b.start .. (b.start + b.n - 1)
Held == UNION {Run(b) : b \in held}

AbsInit == ready = FALSE /\ held = {}

BecomeReady == ~ready /\ ready' = TRUE /\ UNCHANGED held

Grant ==
    /\ ready
    /\ \E b \in [start : Usable, n : Lengths] :
          /\ Run(b) \subseteq Usable
          /\ Run(b) \cap Held = {}
          /\ held' = held \cup {b}
    /\ UNCHANGED ready

Return ==
    /\ ready
    /\ \E b \in held : held' = held \ {b}
    /\ UNCHANGED ready

AbsNext == BecomeReady \/ Grant \/ Return

AbsSpec == AbsInit /\ [][AbsNext]_absVars
=============================================================================
