-------------------------- MODULE CycleCollector ---------------------------
(***************************************************************************)
(* Reference counting and the Bacon-Rajan cycle collector:                  *)
(* engine/core/cell.hpp, cell_memory.cpp, cycle_collector.{hpp,cpp}, and    *)
(* the teardown of an Isolate's heap (engine/vm/isolate.cpp).               *)
(*                                                                          *)
(* One thread owns the heap.  Between two steps of its collector it is the  *)
(* mutator: it holds counted handles on cells (registers, globals, host     *)
(* variables), stores them in cells it can reach, drops them, and lets the  *)
(* collector run at a safepoint.  The recursive functions (the four phases  *)
(* and the finalizers that release children) run on an explicit stack, one  *)
(* step per child visited, so that every read of a cell's header happens in *)
(* the order of the code.                                                   *)
(*                                                                          *)
(* A header read from a cell that was freed is undefined behaviour, and so  *)
(* is a slot left pointing at one: the model stops there with ub set.       *)
(***************************************************************************)
EXTENDS Counting, SequencesExt, FiniteSetsExt

CONSTANTS
    Cells,        \* addresses
    Acyclic,      \* those whose class is acyclic: strings, arrays, files
    RCMax,        \* Cell::RC_MAX, where a count saturates
    MaxEdges,     \* bound on the references stored in cells
    MaxHandles,   \* bound on the handles
    StablePasses, \* the passes collect_until_stable may make
    HostRuns      \* whether host code may run with no collector installed

ASSUME HeapAssumption ==
    /\ IsFiniteSet(Cells) /\ Acyclic \subseteq Cells
    /\ RCMax \in Nat \ {0} /\ MaxEdges \in Nat /\ MaxHandles \in Nat
    /\ StablePasses \in Nat /\ HostRuns \in BOOLEAN

VARIABLES
    live,      \* the allocated cells
    hdr,       \* rc_bits: refcount, color and BUFFERED flag of each cell
    kids,      \* the references a cell stores, in the order it is traced
    handles,   \* how many handles are held on each cell
    cand,      \* m_candidates
    attached,  \* whether g_collector is this heap's collector
    phase, work, kept, deferred,   \* collect(): its phase, the roots left, its two lists
    stack,     \* the calls in progress, innermost first
    isolate, passes, before,          \* the Isolate, and collect_until_stable's locals
    ub,        \* a freed cell's header was read, or a slot of one kept
    lost       \* cells whose decrement no collector recorded

heap    == <<live, kids>>
pass    == <<phase, work, kept, deferred>>
ending  == <<isolate, passes, before>>
heapVars == <<heap, hdr, handles, cand, attached, pass, stack, ending, ub, lost>>

Blank   == [rc |-> 0, color |-> "black", buffered |-> FALSE]

\* cell_alloc: one reference, green for ever or assumed live.
Newborn(c) == [rc |-> 1, color |-> IF c \in Acyclic THEN "green" ELSE "black", buffered |-> FALSE]

HeapInit ==
    /\ live = {} /\ kids = [c \in Cells |-> <<>>]
    /\ hdr = [c \in Cells |-> Blank]
    /\ handles = [c \in Cells |-> 0]
    /\ cand = <<>> /\ attached = TRUE
    /\ phase = "idle" /\ work = <<>> /\ kept = <<>> /\ deferred = <<>>
    /\ stack = <<>>
    /\ isolate = "open" /\ passes = 0 /\ before = 0
    /\ ub = FALSE /\ lost = {}

-----------------------------------------------------------------------------
(* The functions that read and write headers.  They map a machine -- the    *)
(* headers, the candidates, the calls in progress -- to the next one.       *)

Machine == [hdr |-> hdr, cand |-> cand, stack |-> stack, lost |-> lost]

Become(m) == hdr' = m.hdr /\ cand' = m.cand /\ stack' = m.stack /\ lost' = m.lost

Color(m, c)        == m.hdr[c].color
Paint(m, c, color) == [m EXCEPT !.hdr[c].color = color]
Add(m, c, n)       == [m EXCEPT !.hdr[c].rc = (@ + n) % (RCMax + 1)]

Call(m, op, c) == [m EXCEPT !.stack = <<[op |-> op, cell |-> c, next |-> 1]>> \o @]

\* retain: a saturated count stays.
Retain(m, c) == IF m.hdr[c].rc = RCMax THEN m ELSE Add(m, c, 1)

\* CycleCollector::possible_root.
PossibleRoot(m, c) ==
    IF Color(m, c) = "purple" THEN m
    ELSE IF m.hdr[c].buffered THEN Paint(m, c, "purple")
    ELSE [m EXCEPT !.hdr[c].color = "purple", !.hdr[c].buffered = TRUE,
                   !.cand = Append(@, c), !.lost = @ \ {c}]

\* cc_possible_root: with no collector the decrement goes unrecorded.
Enroll(m, c) == IF attached THEN PossibleRoot(m, c) ELSE [m EXCEPT !.lost = @ \cup {c}]


\* cc_collect_deferred: park the cell for the next pass.
Park(m, c) == [m EXCEPT !.hdr[c].rc = 0, !.hdr[c].color = "black"]

\* Mutant: a buffered cell is disposed of like any other.
DisposeNow(m, c) == Call(m, "dispose", c)

\* What release does with the last reference.
LastReference(m, c) == IF m.hdr[c].buffered THEN Park(m, c) ELSE Call(m, "dispose", c)

\* Mutant: a decremented cell is not a candidate.
ForgetRoot(m, c) == Add(m, c, -1)

Decrement(m, c) ==
    IF c \in Acyclic \/ m.hdr[c].buffered THEN Add(m, c, -1) ELSE Enroll(Add(m, c, -1), c)

Release(m, c) ==
    IF m.hdr[c].rc = RCMax THEN m
    ELSE IF m.hdr[c].rc = 1 THEN LastReference(m, c)
    ELSE Decrement(m, c)

\* Mutants: scanning treats every gray cell as garbage; the repair forgets
\* the edge to a black cell.
ScanAllWhite(m, c)  == IF Color(m, c) # "gray" THEN m ELSE Call(Paint(m, c, "white"), "scan", c)
RepairNew(m, c)     == IF Color(m, c) = "black" THEN m ELSE Call(Paint(Add(m, c, 1), c, "black"), "black", c)

MarkGray(m, c) == IF Color(m, c) = "gray" THEN m ELSE Call(Paint(m, c, "gray"), "gray", c)

ScanBlack(m, c) == Call(Paint(m, c, "black"), "black", c)

Scan(m, c) ==
    IF Color(m, c) # "gray" THEN m
    ELSE IF m.hdr[c].rc > 0 THEN ScanBlack(m, c)
    ELSE Call(Paint(m, c, "white"), "scan", c)

CollectWhite(m, c) ==
    IF Color(m, c) # "white" \/ m.hdr[c].buffered THEN m
    ELSE Call(Paint(m, c, "black"), "white", c)

\* scan_black's callback.
Repair(m, c) ==
    LET n == Add(m, c, 1) IN IF Color(n, c) # "black" THEN ScanBlack(n, c) ELSE n

\* collect_white's callback on an acyclic child.
DropLeaf(m, c) == Release(m, c)

\* What each phase, and a finalizer, does to a child.
Visit(m, op, c) ==
    CASE op \in {"gray", "black"} /\ c \in Acyclic -> m
      [] op = "gray" /\ c \notin Acyclic  -> MarkGray(Add(m, c, -1), c)
      [] op = "black" /\ c \notin Acyclic -> Repair(m, c)
      [] op = "scan"                      -> Scan(m, c)
      [] op = "white" /\ c \in Acyclic    -> DropLeaf(m, c)
      [] op = "white" /\ c \notin Acyclic -> CollectWhite(m, c)
      [] op = "dispose"                   -> Release(m, c)

-----------------------------------------------------------------------------
(* The calls in progress.                                                   *)

Top   == Head(stack)
Child == kids[Top.cell][Top.next]

InCall   == stack # <<>> /\ ~ub
HasChild == InCall /\ Top.next <= Len(kids[Top.cell])

\* trace (or the finalizer) comes to the next child.
VisitChild ==
    /\ HasChild /\ Child \in live
    /\ Become(Visit([Machine EXCEPT !.stack[1].next = @ + 1], Top.op, Child))
    /\ UNCHANGED <<heap, handles, attached, pass, ending, ub>>

\* The child was freed: reading its header is undefined.
VisitFreed ==
    /\ HasChild /\ Child \notin live
    /\ ub' = TRUE
    /\ UNCHANGED <<heap, hdr, handles, cand, attached, pass, stack, ending, lost>>

Return ==
    /\ InCall /\ ~HasChild /\ Top.op \in {"gray", "black", "scan"}
    /\ stack' = Tail(stack)
    /\ UNCHANGED <<heap, hdr, handles, cand, attached, pass, ending, ub, lost>>

\* collect_white and cell_dispose end by freeing the cell.
Free ==
    /\ InCall /\ ~HasChild /\ Top.op \in {"white", "dispose"}
    /\ live' = live \ {Top.cell}
    /\ kids' = [kids EXCEPT ![Top.cell] = <<>>]
    /\ hdr' = [hdr EXCEPT ![Top.cell] = Blank]
    /\ stack' = Tail(stack) /\ lost' = lost \ {Top.cell}
    /\ UNCHANGED <<handles, cand, attached, pass, ending, ub>>

CallStep == VisitChild \/ VisitFreed \/ Return \/ Free

-----------------------------------------------------------------------------
(* CycleCollector::collect.                                                 *)

BeginPass ==
    /\ phase' = "mark" /\ work' = cand /\ cand' = <<>>
    /\ kept' = <<>> /\ deferred' = <<>>

\* One candidate of MarkRoots: no longer buffered; a purple one that is
\* referenced is kept, a parked one deferred, any other dropped.
IsRoot(h)   == h.color = "purple" /\ h.rc > 0
IsParked(h) == h.color = "black" /\ h.rc = 0

MarkRoot(s) ==
    LET m == [Machine EXCEPT !.hdr[s].buffered = FALSE]
    IN  /\ Become(IF IsRoot(hdr[s]) THEN MarkGray(m, s) ELSE m)
        /\ kept' = IF IsRoot(hdr[s]) THEN Append(kept, s) ELSE kept
        /\ deferred' = IF IsParked(hdr[s]) THEN Append(deferred, s) ELSE deferred

\* The loop of the current phase takes its next cell.
ProcessRoot ==
    /\ phase # "idle" /\ stack = <<>> /\ ~ub /\ work # <<>>
    /\ \/ phase = "mark" /\ MarkRoot(Head(work))
       \/ /\ phase # "mark"
          /\ Become(CASE phase = "scan"    -> Scan(Machine, Head(work))
                      [] phase = "white"   -> CollectWhite(Machine, Head(work))
                      [] phase = "dispose" -> Call(Machine, "dispose", Head(work)))
          /\ UNCHANGED <<kept, deferred>>
    /\ work' = Tail(work)
    /\ UNCHANGED <<heap, handles, attached, phase, ending, ub>>

Following(p) == CASE p = "mark" -> "scan" [] p = "scan" -> "white" [] p = "white" -> "dispose"

NextPhase ==
    /\ phase \in {"mark", "scan", "white"} /\ stack = <<>> /\ ~ub /\ work = <<>>
    /\ phase' = Following(phase)
    /\ work' = IF phase = "white" THEN deferred ELSE kept
    /\ UNCHANGED <<heap, hdr, handles, cand, attached, kept, deferred, stack, ending, ub, lost>>

EndPass ==
    /\ phase = "dispose" /\ stack = <<>> /\ ~ub /\ work = <<>>
    /\ phase' = "idle" /\ kept' = <<>> /\ deferred' = <<>>
    /\ UNCHANGED <<heap, hdr, handles, cand, attached, work, stack, ending, ub, lost>>

CollectorStep == CallStep \/ ProcessRoot \/ NextPhase \/ EndPass

-----------------------------------------------------------------------------
(* The mutator.  It reaches a cell through its handles only.                *)

Quiet   == phase = "idle" /\ stack = <<>> /\ ~ub
Running == Quiet /\ isolate = "open"

Successors(S) == UNION {Range(kids[c]) : c \in S}

\* What can be reached from S: the least set that holds S and the successors
\* of its members.
Closed(Z)        == Successors(Z) \subseteq Z
ReachableFrom(S) == {c \in Cells : \A Z \in SUBSET Cells : S \subseteq Z /\ Closed(Z) => c \in Z}

Reachable == ReachableFrom({c \in Cells : handles[c] > 0})

Held(c) == handles[c] > 0

\* The places of the references stored in cells.
Slots == UNION {{p} \X DOMAIN kids[p] : p \in Cells}
Edges == Cardinality(Slots)

New(c) ==
    /\ Running /\ c \notin live /\ SumOf(handles) < MaxHandles
    /\ live' = live \cup {c} /\ hdr' = [hdr EXCEPT ![c] = Newborn(c)]
    /\ handles' = [handles EXCEPT ![c] = 1]
    /\ UNCHANGED <<kids, cand, attached, pass, stack, ending, ub, lost>>

\* Copy a reference into a handle, or out of a cell that can be reached.
Hold(c) ==
    /\ Running /\ c \in Reachable /\ SumOf(handles) < MaxHandles
    /\ Become(Retain(Machine, c))
    /\ handles' = [handles EXCEPT ![c] = @ + 1]
    /\ UNCHANGED <<heap, attached, pass, ending, ub>>

Store(p, c) ==
    /\ Running /\ Held(p) /\ Held(c) /\ p \notin Acyclic /\ Edges < MaxEdges
    /\ Become(Retain(Machine, c))
    /\ kids' = [kids EXCEPT ![p] = Append(@, c)]
    /\ UNCHANGED <<live, handles, attached, pass, ending, ub>>

Erase(p, i) ==
    /\ Running /\ Held(p)
    /\ Become(Release(Machine, kids[p][i]))
    /\ kids' = [kids EXCEPT ![p] = RemoveAt(@, i)]
    /\ UNCHANGED <<live, handles, attached, pass, ending, ub>>

\* A handle is dropped: by the program, or by ~Isolate.
Drop(c) ==
    /\ Quiet /\ isolate \in {"open", "closing"} /\ Held(c)
    /\ Become(Release(Machine, c))
    /\ handles' = [handles EXCEPT ![c] = @ - 1]
    /\ UNCHANGED <<heap, attached, pass, ending, ub>>

\* cell_moved: repoint the last slot that holds the cell.
Repointed(q, c, d) ==
    LET slots == {i \in DOMAIN q : q[i] = c}
    IN  IF slots = {} THEN q ELSE [q EXCEPT ![Max(slots)] = d]

\* cell_realloc of a cell that is uniquely owned: the owner's reference and
\* the candidate's slot follow it to its new address.
Grow(c, d) ==
    /\ Running /\ c \in Reachable /\ hdr[c].rc = 1 /\ d \notin live
    /\ c \in Acyclic <=> d \in Acyclic
    /\ hdr[c].buffered => attached
    /\ LET Moved(x) == IF x = c THEN d ELSE x
       IN  /\ live' = (live \ {c}) \cup {d}
           /\ kids' = [x \in Cells |-> CASE x = c -> <<>>
                                         [] x = d -> [i \in DOMAIN kids[c] |-> Moved(kids[c][i])]
                                         [] OTHER -> [i \in DOMAIN kids[x] |-> Moved(kids[x][i])]]
           /\ hdr' = [hdr EXCEPT ![d] = hdr[c], ![c] = Blank]
           /\ handles' = [handles EXCEPT ![d] = handles[c], ![c] = 0]
           /\ cand' = IF hdr[c].buffered THEN Repointed(cand, c, d) ELSE cand
           /\ lost' = {Moved(x) : x \in lost}
    /\ UNCHANGED <<attached, pass, stack, ending, ub>>

\* With no collector installed nobody repoints the slot: it dangles, and the
\* next collection or ~CycleCollector would use it.  The model stops there.
GrowUnseen(c) ==
    /\ Running /\ ~attached /\ c \in Reachable /\ hdr[c].rc = 1 /\ hdr[c].buffered
    /\ \E d \in Cells \ live : c \in Acyclic <=> d \in Acyclic
    /\ ub' = TRUE
    /\ UNCHANGED <<heap, hdr, handles, cand, attached, pass, stack, ending, lost>>

\* A safepoint past the threshold, or collect_garbage.
Collect ==
    /\ Running /\ BeginPass
    /\ UNCHANGED <<heap, hdr, handles, attached, stack, ending, ub, lost>>

\* A run of a script begins or ends: it installs the collector and restores
\* what was there before.
Attach ==
    /\ Running /\ HostRuns
    /\ attached' = ~attached
    /\ UNCHANGED <<heap, hdr, handles, cand, pass, stack, ending, ub, lost>>

-----------------------------------------------------------------------------
(* ~Isolate, collect_until_stable and ~CycleCollector.                      *)

Close ==
    /\ Running
    /\ isolate' = "closing" /\ attached' = TRUE
    /\ UNCHANGED <<heap, hdr, handles, cand, pass, stack, passes, before, ub, lost>>

RootsDropped == Quiet /\ isolate = "closing" /\ \A c \in Cells : handles[c] = 0

\* The loop of collect_until_stable goes on while there are candidates and
\* the last pass made progress.
GoesOn == passes < StablePasses /\ cand # <<>> /\ (passes > 0 => Len(cand) < before)

StablePass ==
    /\ RootsDropped /\ GoesOn
    /\ before' = Len(cand) /\ passes' = passes + 1
    /\ BeginPass
    /\ UNCHANGED <<heap, hdr, handles, attached, stack, isolate, ub, lost>>

Destroy ==
    /\ RootsDropped /\ ~GoesOn
    /\ hdr' = [c \in Cells |-> [hdr[c] EXCEPT !.buffered = @ /\ c \notin Range(cand)]]
    /\ cand' = <<>>
    /\ isolate' = "gone" /\ attached' = FALSE
    /\ UNCHANGED <<heap, handles, pass, stack, passes, before, ub, lost>>

Mutator ==
    \/ \E c \in Cells : New(c) \/ Hold(c) \/ Drop(c) \/ GrowUnseen(c)
    \/ \E p, c \in Cells : Store(p, c) \/ Grow(p, c)
    \/ \E p \in Cells : \E i \in DOMAIN kids[p] : Erase(p, i)
    \/ Collect \/ Attach

HeapNext == CollectorStep \/ Mutator \/ Close \/ StablePass \/ Destroy

HeapSpec == HeapInit /\ [][HeapNext]_heapVars

-----------------------------------------------------------------------------
Colors == {"green", "black", "gray", "white", "purple"}

HeapTypeOK ==
    /\ live \subseteq Cells
    /\ kids \in [Cells -> Seq(Cells)]
    /\ hdr \in [Cells -> [rc : 0..RCMax, color : Colors, buffered : BOOLEAN]]
    /\ handles \in [Cells -> Nat]
    /\ cand \in Seq(Cells) /\ work \in Seq(Cells) /\ kept \in Seq(Cells) /\ deferred \in Seq(Cells)
    /\ attached \in BOOLEAN /\ ub \in BOOLEAN /\ lost \subseteq Cells
    /\ phase \in {"idle", "mark", "scan", "white", "dispose"}
    /\ stack \in Seq([op : {"gray", "black", "scan", "white", "dispose"}, cell : Cells, next : Nat \ {0}])
    /\ isolate \in {"open", "closing", "gone"} /\ passes \in 0..StablePasses /\ before \in Nat

\* A cell the program can reach is never freed, at any step of a collection
\* or of a cascade of finalizers.
ReachableAlive == ~ub => Reachable \subseteq live

\* The references to a cell: in live cells, and in handles.
References(c) ==
    handles[c] + Cardinality({e \in Slots : kids[e[1]][e[2]] = c})

\* Between two operations every count is exact again: trial deletion restored
\* what it subtracted, and every reference of a freed cell was given back.
CountsExact == Quiet => \A c \in live : hdr[c].rc \in {References(c), RCMax}

\* A cell is buffered exactly when it has a slot, and has one slot only; no
\* slot outlives its cell, nor does a root the collector still has to visit.
\* A purple cell and one without references have a slot: a stale
\* purple would hide a cell from possible_root, and no collection leaves its
\* working colors behind (cycle_collector.cpp:120-139, 171-183, cell.hpp:290).
CandidatesExact ==
    /\ stack = <<>> /\ ~ub => Range(work) \subseteq live
    /\ Quiet => /\ Range(cand) = {c \in live : hdr[c].buffered}
                /\ Cardinality(Range(cand)) = Len(cand)
    /\ Quiet /\ isolate # "gone" =>
           \A c \in live : /\ hdr[c].color \in {"green", "black", "purple"}
                           /\ hdr[c].color = "purple" => hdr[c].buffered /\ hdr[c].rc > 0
                           /\ hdr[c].rc = 0 => hdr[c].buffered

\* No garbage is forgotten: between two operations, every cell that cannot be
\* reached hangs off a candidate, unless no collector was installed when it
\* was last dropped.
GarbageEnrolled ==
    Quiet /\ isolate # "gone" => live \subseteq Reachable \cup ReachableFrom(Range(cand) \cup lost)

\* cycle_collector.cpp:94-109: collect_white frees each cell once it is done
\* with it, so no freed cell is looked at.
NoUseAfterFree == ~ub
=============================================================================
