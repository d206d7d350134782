-------------------------- MODULE CollectorInvariant -------------------------
(***************************************************************************)
(* The inductive invariant of CycleCollector.                               *)
(*                                                                          *)
(* A refcount is not, in the middle of a collection, the number of          *)
(* references: mark_gray subtracts the edges out of gray cells one by one,  *)
(* scan_black gives them back, collect_white and the finalizers consume     *)
(* them.  Out says for each reference, from the color of the cell that      *)
(* stores it and from how far the calls in progress have got through its    *)
(* children, whether it is subtracted; Counts, that a refcount is the       *)
(* handles and the references that are not.  The rest says what the phases  *)
(* may rely on: gray and white cells hang off the roots and the children    *)
(* still ahead (Covered), a root is not reached from those before it that   *)
(* the phase has entered (OrderedRoots), every live cell hangs off a        *)
(* handle, a candidate, a parked cell or a cell being freed (Enrolled).     *)
(***************************************************************************)
EXTENDS CycleCollector

(* The counts are wide enough for the references there can be.              *)
NoSaturation == MaxEdges + MaxHandles < RCMax

Nodes  == Cells \ Acyclic
Ops    == {"gray", "black", "scan", "white", "dispose"}
Frames == [op : Ops, cell : Cells, next : Nat \ {0}]

\* How far the call of op on p has got: the number of the next child, or 0.
Calls(s, op, p) == {j \in DOMAIN s : s[j].op = op /\ s[j].cell = p}
At(s, op, p)    == IF Calls(s, op, p) = {} THEN 0 ELSE s[CHOOSE j \in Calls(s, op, p) : TRUE].next

Visited(s, op, p, i) == At(s, op, p) > i
Ahead(s, op, p, i)   == 0 < At(s, op, p) /\ At(s, op, p) <= i

\* The collector has taken the reference out of the count of its target.
Out(k, h, s, p, i) ==
    IF k[p][i] \in Acyclic
    THEN Visited(s, "white", p, i) \/ Visited(s, "dispose", p, i)
    ELSE \/ h[p].color \in {"gray", "white"} /\ ~Ahead(s, "gray", p, i)
         \/ Ahead(s, "black", p, i)
         \/ At(s, "white", p) > 0
         \/ Visited(s, "dispose", p, i)

SlotsIn(k)           == UNION {{p} \X DOMAIN k[p] : p \in Cells}
Counted(k, h, s, c)  == {e \in SlotsIn(k) : k[e[1]][e[2]] = c /\ ~Out(k, h, s, e[1], e[2])}
Refs(k, h, s, c)     == Cardinality(Counted(k, h, s, c))
Count(g, k, h, s, c) == g[c] + Refs(k, h, s, c)

\* From S one can reach every cell of Z through cells of Z.
Covered(k, Z, S) ==
    \A X \in SUBSET Z : X # {} => X \cap S # {} \/ \E p \in Z \ X : \E i \in DOMAIN k[p] : k[p][i] \in X
Todo(k, s, op) == {c \in Cells : \E p \in Cells : \E i \in DOMAIN k[p] : k[p][i] = c /\ Ahead(s, op, p, i)}
ClosedIn(k, Z) == \A p \in Z : \A i \in DOMAIN k[p] : k[p][i] \in Z
OrderedRoots(k, q, Y) ==
    \A j \in DOMAIN q : \E Z \in SUBSET Cells :
        ClosedIn(k, Z) /\ Y \subseteq Z /\ q[j] \notin Z /\ \A i \in 1..(j - 1) : q[i] \in Z

Untouched(k, g, s, c) ==
    /\ g[c] = 0 /\ \A op \in Ops : At(s, op, c) = 0
    /\ \A p \in Cells : \A i \in DOMAIN k[p] : k[p][i] # c

Gray     == {c \in live : hdr[c].color = "gray"}
White    == {c \in live : hdr[c].color = "white"}
Buffered == {c \in live : hdr[c].buffered}

Bounded == SumOf(handles) <= MaxHandles /\ Cardinality(SlotsIn(kids)) <= MaxEdges

\* The calls in progress, by phase.
OpsOf(ph) == CASE ph = "mark" -> {"gray"} [] ph = "scan" -> {"scan", "black"}
               [] ph = "white" -> {"white", "dispose"} [] OTHER -> {"dispose"}
Stacked(s, ph, L) ==
    /\ \A j, k \in DOMAIN s : s[j].op = s[k].op /\ s[j].cell = s[k].cell => j = k
    /\ \A j, k \in DOMAIN s : j < k /\ s[k].op = "black" => s[j].op = "black"
    /\ \A j \in DOMAIN s : /\ s[j].op \in OpsOf(ph) /\ s[j].cell \in L
                           /\ s[j].op # "dispose" => s[j].cell \notin Acyclic
                           /\ ph = "white" /\ s[j].op = "dispose" => s[j].cell \in Acyclic

DeadBlank == \A c \in Cells \ live : kids[c] = <<>> /\ handles[c] = 0 /\ hdr[c] = Blank
Leaves ==
    /\ \A c \in Acyclic : kids[c] = <<>> /\ ~hdr[c].buffered /\ (c \in live => hdr[c].color = "green")
    /\ lost \subseteq live \ Acyclic

WorkColors == CASE phase = "mark" -> {"black", "purple", "gray"} [] phase = "scan" -> {"black", "gray", "white"}
                [] phase = "white" -> {"black", "white"} [] OTHER -> {"black", "purple"}
Colored ==
    /\ \A c \in live \ Acyclic : hdr[c].color \in WorkColors
    /\ \A c \in Cells : /\ At(stack, "gray", c) > 0 => hdr[c].color = "gray"
                        /\ At(stack, "black", c) > 0 => hdr[c].color = "black"
                        /\ At(stack, "white", c) > 0 => hdr[c].color = "black"
                        /\ At(stack, "scan", c) > 0 => hdr[c].color \in {"white", "black"}

Slotted == IF phase = "mark" THEN work ELSE cand
Enlisted ==
    /\ Range(Slotted) = Buffered /\ IsInjective(Slotted)
    /\ phase \in {"mark", "scan", "white"} => cand = <<>>
    /\ phase \in {"scan", "white"} => Buffered = {}
    /\ phase = "idle" => work = <<>>
    /\ \A c \in live : hdr[c].buffered => At(stack, "dispose", c) = 0 /\ At(stack, "white", c) = 0

Parked == IF phase = "dispose" THEN work ELSE IF phase = "idle" THEN <<>> ELSE deferred
Purples ==
    /\ \A c \in live \ Acyclic :
          /\ hdr[c].color = "purple" => hdr[c].buffered /\ hdr[c].rc > 0
          /\ hdr[c].buffered => \/ hdr[c].color = "purple"
                                \/ hdr[c].color = "black" /\ hdr[c].rc = 0
                                \/ phase = "mark" /\ hdr[c].color = "gray"
    /\ \A c \in live : hdr[c].rc = 0 =>
          \/ hdr[c].buffered \/ c \in Range(Parked) \/ hdr[c].color \in {"gray", "white"}
          \/ At(stack, "white", c) > 0 \/ At(stack, "dispose", c) > 0
ParkedAlone ==
    /\ IsInjective(Parked)
    /\ \A c \in Range(Parked) : /\ c \in live \ Acyclic /\ hdr[c].color = "black" /\ ~hdr[c].buffered
                                /\ hdr[c].rc = 0 /\ Untouched(kids, handles, stack, c)
    /\ phase = "mark" => \A c \in Range(work) : hdr[c].color = "black" => Untouched(kids, handles, stack, c)

Counts == \A c \in Cells :
    IF c \notin live \/ At(stack, "dispose", c) > 0 THEN Count(handles, kids, hdr, stack, c) = 0
    ELSE hdr[c].rc = Count(handles, kids, hdr, stack, c)

Whole == phase \in {"mark", "scan"} => \A p \in Cells : \A i \in DOMAIN kids[p] : kids[p][i] \in live
Uncounted ==
    /\ \A c \in White : hdr[c].rc = 0
    /\ \A c \in Cells : At(stack, "white", c) > 0 => hdr[c].rc = 0

Marking == phase = "mark" =>
    /\ \A p \in Gray : \A i \in DOMAIN kids[p] :
          kids[p][i] \notin Acyclic /\ ~Ahead(stack, "gray", p, i) => kids[p][i] \in Gray
    /\ Range(kept) \subseteq Gray
    /\ Covered(kids, Gray, Range(kept))
    /\ OrderedRoots(kids, kept, {})
Scanning == phase = "scan" =>
    /\ Range(kept) \subseteq live \ Acyclic /\ Range(work) \subseteq Range(kept)
    /\ Covered(kids, Gray, Range(work) \cup Todo(kids, stack, "scan") \cup Todo(kids, stack, "black"))
    /\ Covered(kids, White, Range(kept) \cup Todo(kids, stack, "black"))
    /\ \A p \in Cells : At(stack, "scan", p) > 0 /\ hdr[p].color = "black" =>
          \A i \in DOMAIN kids[p] :
             kids[p][i] \notin Acyclic /\ hdr[kids[p][i]].color # "black" => Ahead(stack, "black", p, i)
    /\ OrderedRoots(kids, kept, {})
Collecting == phase = "white" =>
    /\ Range(work) \subseteq live \ Acyclic
    /\ Covered(kids, White, Range(work) \cup Todo(kids, stack, "white"))
    /\ OrderedRoots(kids, work, {c \in Cells : At(stack, "white", c) > 0})

Settled == {c \in live \ Acyclic : /\ At(stack, "dispose", c) = 0 /\ At(stack, "white", c) = 0
                                   /\ phase \in {"scan", "white"} => hdr[c].color \notin {"gray", "white"}}
Sources == {c \in Cells : handles[c] > 0} \cup lost \cup Range(cand) \cup Todo(kids, stack, "dispose") \cup Range(Parked)
          \cup (IF phase = "mark" THEN Range(work) \cup Gray ELSE {})
Enrolled == Covered(kids, Settled, Sources)

Gone == isolate = "gone" => phase = "idle" /\ stack = <<>>

\* What holds of the heap and its calls whatever the Isolate does.
HeapInv ==
    /\ HeapTypeOK /\ Bounded /\ Stacked(stack, phase, live) /\ DeadBlank /\ Leaves /\ Colored /\ Enlisted
    /\ ParkedAlone /\ Counts /\ Whole /\ Uncounted /\ Marking /\ Scanning /\ Collecting

\* Until it is gone, its candidates stand for all its garbage.
RootsInv == isolate # "gone" => Purples /\ Enrolled

CollectorInv == HeapInv /\ RootsInv /\ Gone
=============================================================================
