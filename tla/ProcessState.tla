---------------------------- MODULE ProcessState -----------------------------
(***************************************************************************)
(* The process-wide slots -- default executor, cache, backend, aggregator  *)
(* and budget tracker -- and the blocks of testing.py that replace and     *)
(* restore them.  Blocks of several threads may overlap.  What a block     *)
(* creates is named after the block; Process is what was there before.     *)
(* Entering a block is one step, and so is leaving it.                     *)
(***************************************************************************)
EXTENDS Naturals, Sequences, FiniteSetsExt

CONSTANTS
    Isolates,       \* isolate_execution blocks
    Captures,       \* capture_metrics blocks
    WithCache,      \* the isolates that are given a cache
    Process,        \* the owner of the objects installed first
    None

Blocks == Isolates \union Captures
Owners == Blocks \union {Process}

ASSUME ProcessAssumption ==
    /\ Isolates \intersect Captures = {}
    /\ WithCache \subseteq Isolates
    /\ Process \notin Blocks
    /\ None \notin Owners

VARIABLES
    slots,      \* what each accessor returns
    pinned,     \* executor -> its _cache
    saved,      \* block -> the slots it has saved, Original when it is not open
    phase,      \* block -> "new" | "open" | "closed"
    nest,       \* History: the open blocks, the last entered last, until ...
    overlapped  \* ... a block is left that was not the last entered

slotVars == <<slots, pinned, saved, phase, nest, overlapped>>

Slots ==
    [executor : Owners, cache : Owners, backend : Owners \union {None},
     aggregator : Owners \union {None}, tracker : {Process, None}]

Original ==
    [executor |-> Process, cache |-> Process, backend |-> None,
     aggregator |-> Process, tracker |-> Process]

SlotsInit ==
    /\ slots      = Original
    /\ pinned     = [e \in Owners |-> None]
    /\ saved      = [b \in Blocks |-> Original]
    /\ phase      = [b \in Blocks |-> "new"]
    /\ nest       = << >>
    /\ overlapped = FALSE

-----------------------------------------------------------------------------
\* Blocks.

Enter(b) ==
    /\ phase[b] = "new"
    /\ phase' = [phase EXCEPT ![b] = "open"]
    /\ saved' = [saved EXCEPT ![b] = slots]
    /\ nest' = IF overlapped THEN nest ELSE Append(nest, b)
    /\ UNCHANGED overlapped

\* The budget_tracker argument is never installed, the executor is replaced
\* only together with the cache.
EnterIsolate(b) ==
    /\ b \in Isolates
    /\ Enter(b)
    /\ slots' = [executor   |-> IF b \in WithCache THEN b ELSE slots.executor,
                 cache      |-> IF b \in WithCache THEN b ELSE slots.cache,
                 backend    |-> b,
                 aggregator |-> b,
                 tracker    |-> None]
    /\ pinned' = IF b \in WithCache THEN [pinned EXCEPT ![b] = b] ELSE pinned

\* A fresh Executor, which has no cache of its own yet.
EnterCapture(b) ==
    /\ b \in Captures
    /\ Enter(b)
    /\ slots' = [slots EXCEPT !.executor = b, !.aggregator = b]
    /\ UNCHANGED pinned

Leave(b) ==
    /\ phase[b] = "open"
    /\ phase' = [phase EXCEPT ![b] = "closed"]
    /\ overlapped' = (overlapped \/ nest[Len(nest)] # b)
    /\ nest' = IF overlapped' THEN << >> ELSE SubSeq(nest, 1, Len(nest) - 1)
    /\ saved' = [saved EXCEPT ![b] = Original]
    /\ UNCHANGED pinned

\* Mutant: the budget tracker stays uninstalled.
LeaveIsolateUntracked(b) ==
    /\ b \in Isolates
    /\ Leave(b)
    /\ slots' = [slots EXCEPT !.executor   = saved[b].executor,
                              !.cache      = saved[b].cache,
                              !.aggregator = saved[b].aggregator]

\* Mutant: the block's cache stays installed.
LeaveIsolateCacheKept(b) ==
    /\ b \in Isolates
    /\ Leave(b)
    /\ slots' = [slots EXCEPT !.executor   = saved[b].executor,
                              !.aggregator = saved[b].aggregator,
                              !.tracker    = saved[b].tracker]

\* The default backend is not restored.
LeaveIsolate(b) ==
    /\ b \in Isolates
    /\ Leave(b)
    /\ slots' = [slots EXCEPT !.executor   = saved[b].executor,
                              !.cache      = saved[b].cache,
                              !.aggregator = saved[b].aggregator,
                              !.tracker    = saved[b].tracker]

LeaveCapture(b) ==
    /\ b \in Captures
    /\ Leave(b)
    /\ slots' = [slots EXCEPT !.aggregator = saved[b].aggregator,
                              !.executor   = saved[b].executor]

-----------------------------------------------------------------------------
\* Setters.

\* mock_llm_table without a backend installs one; unmock installs None.
SetDefaultBackend(backend) ==
    /\ slots' = [slots EXCEPT !.backend = backend]
    /\ UNCHANGED <<pinned, saved, phase, nest, overlapped>>

\* Executor.cache: the active cache, from the first use on for ever.
CacheOf(e) == IF pinned[e] = None THEN slots.cache ELSE pinned[e]

Pin(e) ==
    /\ pinned' = [pinned EXCEPT ![e] = CacheOf(e)]
    /\ UNCHANGED <<slots, saved, phase, nest, overlapped>>

-----------------------------------------------------------------------------
\* What is installed while blocks nest.

\* The last open block of a set, or Process.
Innermost(set) ==
    LET open == {i \in DOMAIN nest : nest[i] \in set} IN
    IF open = {} THEN Process ELSE nest[Max(open)]
=============================================================================
