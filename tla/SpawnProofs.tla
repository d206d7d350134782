----------------------------- MODULE SpawnProofs ----------------------------
(***************************************************************************)
(* Proofs about Spawn, for any number of workers, functions and constants,  *)
(* any arguments and scripts of any length: nothing that was spawned        *)
(* outlives its spawner, two threads only ever meet at the count of a       *)
(* function that both spawn, and of every other cell no count is lost and   *)
(* it is not freed while a thread can still reach it.                       *)
(*                                                                          *)
(* The first part follows control: where an isolate is says what it has     *)
(* begun and which handles it owns.  The second part counts: a cell's       *)
(* count, or the word about to be stored over it, is the number of its      *)
(* references, unless two threads met there.                                *)
(***************************************************************************)
EXTENDS Spawn, DataLemmas

-----------------------------------------------------------------------------
(* Control.                                                                 *)

\* The label an isolate is at, or will be at once its store is done.
At(i) == IF pc[i] = "store" THEN op[i].next ELSE pc[i]

Drafting == {"transfer", "undo", "launch"}
Ending   == {"journal", "slots", "gone"}

Ops    == [cell : Cells \cup {None}, n : Int, next : Labels]
Drafts == [f : Funcs \cup {None}, w : Workers \cup {None}, want : Seq(Kinds), built : Seq(Kinds)]

Types ==
    /\ rc \in [Cells -> Int] /\ frozen \subseteq Consts /\ live \subseteq Cells /\ raced \subseteq Cells
    /\ pc \in [Isolates -> Labels] /\ op \in [Isolates -> Ops]
    /\ holds \in [Isolates -> SUBSET Consts] /\ draft \in [Isolates -> Drafts]
    /\ kids \in [Isolates -> Seq(Workers)]
    /\ callee \in [Workers -> Funcs \cup {None}] /\ args \in [Workers -> Seq(Kinds)]
    /\ parent \in [Workers -> Isolates \cup {None}]
    /\ errored \subseteq Workers /\ reported \subseteq errored
    /\ journal \subseteq Funcs /\ ops \in [Isolates -> 0..MaxOps]

\* What a store is for.
OpOK(i) ==
    IF pc[i] = "store"
    THEN \/ op[i].cell \in Consts /\ op[i].next \in {"run", "transfer", "undo", "unwind", "args", "slots"}
         \/ op[i].cell = draft[i].f /\ op[i].next = "launch"
         \/ op[i].cell \in Spawnable[i] /\ op[i].next = "join"
         \/ op[i].cell \in Funcs /\ op[i].next = "journal"
    ELSE op[i] = NoOp

\* An isolate that is launching a worker has its draft, and the worker to itself.
Drafted(i) ==
    IF At(i) \in Drafting THEN draft[i].f \in Spawnable[i] /\ draft[i].w \in Workers
                          ELSE draft[i] = NoDraft
Reserved(i) ==
    draft[i].w # None => pc[draft[i].w] = "off" /\ \A j \in Isolates : j # i => draft[j].w # draft[i].w

\* One that was not started, or that has joined, owns no handle.
PlaceOK(i) ==
    /\ At(i) \in Ending \cup {"off"} => kids[i] = <<>>
    /\ At(i) = "journal" => i = Main
    /\ pc[i] = "off" => i # Main /\ holds[i] = {}

ControlOK == \A i \in Isolates : OpOK(i) /\ Drafted(i) /\ Reserved(i) /\ PlaceOK(i)

\* The handles an isolate owns are of workers it spawned and has not joined.
KidsOK(i) ==
    /\ \A m, n \in DOMAIN kids[i] : kids[i][m] = kids[i][n] => m = n
    /\ \A n \in DOMAIN kids[i] : parent[kids[i][n]] = i /\ callee[kids[i][n]] \in Spawnable[i]

\* A worker that was started is one of those, or has ended and been joined.
WorkerOK(w) ==
    /\ IF pc[w] = "off" THEN parent[w] = None /\ callee[w] = None /\ args[w] = <<>>
                        ELSE parent[w] # None
    /\ parent[w] # None =>
           /\ pc[parent[w]] # "off"
           /\ \/ \E n \in DOMAIN kids[parent[w]] : kids[parent[w]][n] = w
              \/ pc[w] = "gone" /\ callee[w] = None /\ (w \in errored => w \in reported)

TreeOK == (\A i \in Isolates : KidsOK(i)) /\ (\A w \in Workers : WorkerOK(w))

\* Who spawned whom has no cycle.
Ranked == \E rank \in [Isolates -> Nat] :
              \A w \in Workers : parent[w] # None => rank[parent[w]] < rank[w]

\* The constants are plain cells as long as the program is alone.
FrozenOK ==
    \/ frozen = {} /\ (\A w \in Workers : pc[w] = "off") /\ (\A i \in Isolates : draft[i] = NoDraft)
    \/ frozen = Consts /\ \A i \in Isolates : op[i].cell \notin Consts

Control == Types /\ ControlOK /\ TreeOK /\ Ranked /\ FrozenOK

-----------------------------------------------------------------------------
(* One isolate moves.                                                       *)

\* Nothing changes of the others.
Only(i) == \A j \in Isolates : j # i => /\ pc'[j] = pc[j] /\ op'[j] = op[j] /\ draft'[j] = draft[j]
                                        /\ kids'[j] = kids[j] /\ holds'[j] = holds[j]

\* The constants, apart from each other.
LEMMA Constants ==
  /\ Main \in Isolates /\ Main \notin Workers /\ Workers \subseteq Isolates
  /\ None \notin Isolates /\ None \notin Cells /\ Funcs \subseteq Cells /\ Consts \subseteq Cells
  /\ Funcs \cap Consts = {} /\ Spawnable \in [Isolates -> SUBSET Funcs]
  /\ Arguments \subseteq Seq(Kinds) /\ MaxOps \in Nat /\ Consts \subseteq Kinds
  /\ "copy" \in Kinds /\ "copy" \notin Consts
  /\ IsFiniteSet(Workers) /\ IsFiniteSet(Cells) /\ IsFiniteSet(Isolates)
<1>1. IsFiniteSet({Main} \cup Workers)
  BY SpawnAssumption, FS_AddElement
<1> QED
  BY <1>1, SpawnAssumption DEF Isolates, Cells, Kinds

\* What is typed is typed after the step of an isolate that keeps to its fields.
LEMMA ControlStep ==
  ASSUME Types, ControlOK, NEW i \in Isolates, Only(i), pc[i] # "off", pc'[i] # "off",
         OpOK(i)', Drafted(i)', PlaceOK(i)',
         draft'[i].w # None => /\ pc[draft'[i].w] = "off"
                               /\ \A j \in Isolates : j # i => draft[j].w # draft'[i].w
  PROVE  ControlOK'
<1>1. ASSUME NEW j \in Isolates, j # i PROVE (OpOK(j) /\ Drafted(j) /\ PlaceOK(j))'
  <2>1. OpOK(j) /\ Drafted(j) /\ PlaceOK(j)
    BY DEF ControlOK
  <2>2. pc'[j] = pc[j] /\ op'[j] = op[j] /\ draft'[j] = draft[j] /\ kids'[j] = kids[j] /\ holds'[j] = holds[j]
    BY <1>1 DEF Only
  <2> QED
    BY <2>1, <2>2 DEF OpOK, Drafted, PlaceOK, At
<1>2. ASSUME NEW j \in Isolates PROVE Reserved(j)'
  <2>1. SUFFICES ASSUME draft'[j].w # None
                 PROVE  pc'[draft'[j].w] = "off" /\ \A k \in Isolates : k # j => draft'[k].w # draft'[j].w
    BY DEF Reserved
  <2>2. CASE j = i
    <3>1. pc[draft'[i].w] = "off" /\ \A k \in Isolates : k # i => draft[k].w # draft'[i].w
      BY <2>1, <2>2
    <3>2. draft'[i].w \in Workers
      BY <2>1, <2>2 DEF Drafted, NoDraft
    <3>3. draft'[i].w \in Isolates /\ draft'[i].w # i
      BY <3>1, <3>2, Constants
    <3> QED
      BY <2>2, <3>1, <3>3 DEF Only
  <2>3. CASE j # i
    <3>1. draft'[j] = draft[j]
      BY <2>3 DEF Only
    <3>2. pc[draft[j].w] = "off" /\ \A k \in Isolates : k # j => draft[k].w # draft[j].w
      BY <2>1, <3>1 DEF ControlOK, Reserved
    <3>3. draft[j].w \in Isolates /\ draft[j].w # i
      BY <2>1, <3>1, <3>2, Constants DEF Types, Drafts
    <3>4. pc'[draft[j].w] = "off"
      BY <3>2, <3>3 DEF Only
    <3>5. ASSUME NEW k \in Isolates, k # j PROVE draft'[k].w # draft[j].w
      <4>1. CASE k = i
        BY <4>1, <2>1, <2>3, <3>1
      <4>2. CASE k # i
        BY <4>2, <3>2, <3>5 DEF Only
      <4> QED
        BY <4>1, <4>2
    <3> QED
      BY <3>1, <3>4, <3>5
  <2> QED
    BY <2>2, <2>3
<1> QED
  BY <1>1, <1>2 DEF ControlOK

\* The tree of the workers is as before.
LEMMA TreeStep ==
  ASSUME Types, TreeOK, UNCHANGED <<kids, callee, parent>>, reported \subseteq reported',
         \A j \in Isolates : pc[j] # "off" => pc'[j] # "off",
         \A w \in Workers : /\ pc[w] = "off" => pc'[w] = "off" /\ args'[w] = <<>>
                            /\ pc[w] = "gone" => pc'[w] = "gone" /\ (w \in errored' => w \in errored)
  PROVE  TreeOK'
<1>1. ASSUME NEW i \in Isolates PROVE KidsOK(i)'
  BY DEF TreeOK, KidsOK
<1>2. ASSUME NEW w \in Workers PROVE WorkerOK(w)'
  <2>1. WorkerOK(w) /\ w \in Isolates
    BY Constants DEF TreeOK
  <2>2. CASE pc[w] = "off"
    BY <2>1, <2>2 DEF WorkerOK
  <2>3. CASE pc[w] # "off"
    <3>1. /\ parent[w] # None /\ parent[w] \in Isolates /\ pc[parent[w]] # "off"
          /\ \/ \E n \in DOMAIN kids[parent[w]] : kids[parent[w]][n] = w
             \/ pc[w] = "gone" /\ callee[w] = None /\ (w \in errored => w \in reported)
      BY <2>1, <2>3 DEF WorkerOK, Types
    <3>2. pc'[w] # "off" /\ pc'[parent[w]] # "off"
      BY <2>1, <2>3, <3>1
    <3>3. \/ \E n \in DOMAIN kids'[parent'[w]] : kids'[parent'[w]][n] = w
          \/ pc'[w] = "gone" /\ callee'[w] = None /\ (w \in errored' => w \in reported')
      BY <3>1
    <3> QED
      BY <3>1, <3>2, <3>3 DEF WorkerOK
  <2> QED
    BY <2>2, <2>3
<1> QED
  BY <1>1, <1>2 DEF TreeOK

\* The constants stay as they are.
LEMMA FrozenStep ==
  ASSUME Types, FrozenOK, NEW i \in Isolates, Only(i), pc[i] # "off", frozen' = frozen,
         draft'[i] # NoDraft => draft[i] # NoDraft, op'[i].cell \in Consts => op'[i].cell \notin frozen
  PROVE  FrozenOK'
<1>1. CASE frozen = {} /\ (\A w \in Workers : pc[w] = "off") /\ (\A j \in Isolates : draft[j] = NoDraft)
  <2>1. i \notin Workers
    BY <1>1
  <2>2. \A w \in Workers : pc'[w] = "off"
    BY <1>1, <2>1, Constants DEF Only
  <2>3. \A j \in Isolates : draft'[j] = NoDraft
    BY <1>1 DEF Only
  <2> QED
    BY <1>1, <2>2, <2>3 DEF FrozenOK
<1>2. CASE frozen = Consts /\ \A j \in Isolates : op[j].cell \notin Consts
  BY <1>2 DEF Only, FrozenOK
<1> QED
  BY <1>1, <1>2 DEF FrozenOK

\* What a retain or a release does to where the isolate is.
LEMMA RefMoves ==
  ASSUME Types, NEW i \in Isolates, NEW c \in Cells, NEW d \in {1, -1}, NEW l \in Labels, l # "store",
         op[i] = NoOp, Ref(i, c, d, l)
  PROVE  /\ rc' \in [Cells -> Int] /\ frozen' = frozen /\ live' \subseteq Cells /\ raced' \subseteq Cells
         /\ pc' \in [Isolates -> Labels] /\ op' \in [Isolates -> Ops]
         /\ \A j \in Isolates : j # i => pc'[j] = pc[j] /\ op'[j] = op[j]
         /\ At(i)' = l
         /\ \/ pc'[i] = l /\ op'[i] = NoOp
            \/ pc'[i] = "store" /\ op'[i].cell = c /\ op'[i].next = l /\ c \notin frozen
<1>1. /\ rc \in [Cells -> Int] /\ live \subseteq Cells /\ frozen \subseteq Consts /\ raced' \subseteq Cells
      /\ pc \in [Isolates -> Labels] /\ op \in [Isolates -> Ops] /\ "store" \in Labels
  BY DEF Types, Labels, Ref
<1>2. CASE c \in frozen
  BY <1>1, <1>2 DEF Ref, Goto, At
<1>3. CASE c \notin frozen
  <2>1. [cell |-> c, n |-> rc[c] + d, next |-> l] \in Ops
    BY <1>1 DEF Ops
  <2>2. op' = [op EXCEPT ![i] = [cell |-> c, n |-> rc[c] + d, next |-> l]] /\ pc' = [pc EXCEPT ![i] = "store"]
        /\ UNCHANGED <<rc, frozen, live>>
    BY <1>3 DEF Ref, Goto
  <2> QED
    BY <1>1, <1>3, <2>1, <2>2 DEF At
<1> QED
  BY <1>2, <1>3

\* A step of an isolate that starts no worker and joins none.
LEMMA QuietStep ==
  ASSUME Control, NEW i \in Isolates, Only(i), Types', pc[i] \notin {"off", "gone"}, pc'[i] # "off",
         OpOK(i)', Drafted(i)', PlaceOK(i)',
         draft'[i].w \in {None, draft[i].w}, draft'[i] # NoDraft => draft[i] # NoDraft,
         UNCHANGED <<kids, callee, parent, frozen>>, reported \subseteq reported',
         \A w \in Workers : w # i => args'[w] = args[w] /\ (w \in errored' => w \in errored),
         op'[i].cell \in Consts => op'[i].cell \notin frozen
  PROVE  Control'
<1>1. Types /\ ControlOK /\ TreeOK /\ Ranked /\ FrozenOK
  BY DEF Control
<1>2. draft'[i].w # None => pc[draft'[i].w] = "off" /\ \A j \in Isolates : j # i => draft[j].w # draft'[i].w
  BY <1>1 DEF ControlOK, Reserved
<1>3. ControlOK'
  BY <1>1, <1>2, ControlStep
<1>4. ASSUME NEW w \in Workers
      PROVE  /\ pc[w] = "off" => pc'[w] = "off" /\ args'[w] = <<>>
             /\ pc[w] = "gone" => pc'[w] = "gone" /\ (w \in errored' => w \in errored)
  <2>1. w \in Isolates /\ (pc[w] = "off" => args[w] = <<>>)
    BY <1>1, Constants DEF TreeOK, WorkerOK
  <2>2. w = i \/ pc'[w] = pc[w]
    BY <2>1 DEF Only
  <2> QED
    BY <2>1, <2>2
<1>5. \A j \in Isolates : pc[j] # "off" => pc'[j] # "off"
  BY DEF Only
<1>6. TreeOK'
  BY <1>1, <1>4, <1>5, TreeStep
<1>7. FrozenOK'
  BY <1>1, FrozenStep
<1>8. Ranked'
  BY <1>1 DEF Ranked
<1> QED
  BY <1>3, <1>6, <1>7, <1>8 DEF Control

\* No operation and no draft.
LEMMA Emptiness == NoOp \in Ops /\ NoDraft \in Drafts /\ NoDraft.w = None /\ NoDraft.f = None /\ NoOp.cell = None
  BY DEF NoOp, NoDraft, Ops, Drafts, Labels

\* Initially.
LEMMA InitControl == Init => Control
<1> SUFFICES ASSUME Init PROVE Control
  OBVIOUS
<1>1. /\ rc = [c \in Cells |-> 1] /\ frozen = {} /\ live = Cells /\ raced = {}
      /\ pc = [i \in Isolates |-> IF i = Main THEN "run" ELSE "off"]
      /\ op = [i \in Isolates |-> NoOp] /\ holds = [i \in Isolates |-> {}]
      /\ draft = [i \in Isolates |-> NoDraft] /\ kids = [i \in Isolates |-> <<>>]
      /\ callee = [w \in Workers |-> None] /\ args = [w \in Workers |-> <<>>] /\ parent = [w \in Workers |-> None]
      /\ errored = {} /\ reported = {} /\ journal = Funcs /\ ops = [i \in Isolates |-> 0]
  BY DEF Init
<1>2. Types
  <2>1. 0 \in 0..MaxOps /\ 1 \in Int /\ "run" \in Labels /\ "off" \in Labels
    BY Constants DEF Labels
  <2>2. <<>> \in Seq(Workers) /\ <<>> \in Seq(Kinds)
    OBVIOUS
  <2> QED
    BY <1>1, <2>1, <2>2, Emptiness DEF Types
<1>3. ControlOK
  <2>1. ASSUME NEW i \in Isolates
        PROVE  /\ pc[i] = (IF i = Main THEN "run" ELSE "off") /\ op[i] = NoOp /\ draft[i] = NoDraft
               /\ kids[i] = <<>> /\ holds[i] = {}
    BY <1>1
  <2> QED
    BY <2>1, Emptiness DEF ControlOK, OpOK, Drafted, Reserved, PlaceOK, At, Drafting, Ending
<1>4. TreeOK
  BY <1>1, Constants DEF TreeOK, KidsOK, WorkerOK
<1>5. Ranked
  <2>1. [i \in Isolates |-> 0] \in [Isolates -> Nat] /\ \A w \in Workers : parent[w] = None
    BY <1>1
  <2> QED
    BY <2>1 DEF Ranked
<1>6. FrozenOK
  BY <1>1, Constants DEF FrozenOK
<1> QED
  BY <1>2, <1>3, <1>4, <1>5, <1>6 DEF Control

\* What is known of an isolate that is not in the middle of a store.
LEMMA Here ==
  ASSUME Control, NEW i \in Isolates, pc[i] # "store"
  PROVE  /\ op[i] = NoOp /\ At(i) = pc[i] /\ Drafted(i) /\ PlaceOK(i) /\ Types
         /\ pc[i] \notin Drafting => draft[i] = NoDraft
  BY DEF Control, ControlOK, OpOK, Drafted, At

\* A script takes or drops a constant, or the end of an isolate releases one.
LEMMA HoldsStep ==
  ASSUME Control, NEW i \in Isolates, pc[i] \in {"run", "unwind", "slots"},
         NEW k \in Consts, NEW d \in {1, -1}, NEW h \in SUBSET Consts, Ref(i, k, d, pc[i]),
         holds' = [holds EXCEPT ![i] = h], ops' \in [Isolates -> 0..MaxOps],
         UNCHANGED <<draft, threads, journal>>
  PROVE  Control'
<1>1. op[i] = NoOp /\ At(i) = pc[i] /\ draft[i] = NoDraft /\ PlaceOK(i) /\ Types
  BY Here DEF Drafting
<1>2. k \in Cells /\ pc[i] \in Labels /\ pc[i] # "store"
  BY Constants DEF Labels
<1>3. /\ rc' \in [Cells -> Int] /\ frozen' = frozen /\ live' \subseteq Cells /\ raced' \subseteq Cells
      /\ pc' \in [Isolates -> Labels] /\ op' \in [Isolates -> Ops]
      /\ \A j \in Isolates : j # i => pc'[j] = pc[j] /\ op'[j] = op[j]
      /\ At(i)' = pc[i]
      /\ \/ pc'[i] = pc[i] /\ op'[i] = NoOp
         \/ pc'[i] = "store" /\ op'[i].cell = k /\ op'[i].next = pc[i] /\ k \notin frozen
  BY <1>1, <1>2, RefMoves
<1>4. UNCHANGED <<kids, callee, args, parent, errored, reported>>
  BY DEF threads
<1>5. Types'
  BY <1>1, <1>3, <1>4 DEF Types
<1>6. Only(i)
  BY <1>1, <1>3, <1>4 DEF Only, Types
<1>7. OpOK(i)' /\ Drafted(i)'
  BY <1>1, <1>3 DEF OpOK, Drafted, Drafting
<1>8. PlaceOK(i)'
  BY <1>1, <1>3, <1>4 DEF PlaceOK, Ending
<1>9. op'[i].cell \in Consts => op'[i].cell \notin frozen
  BY <1>3, Constants, Emptiness
<1> QED
  BY <1>1, <1>3, <1>4, <1>5, <1>6, <1>7, <1>8, <1>9, Emptiness, QuietStep

\* A step to another label, nothing else.
LEMMA GotoStep ==
  ASSUME Control, NEW i \in Isolates, pc[i] \notin {"store", "off", "gone"},
         NEW l \in Labels \ {"off", "store"}, Goto(i, l), UNCHANGED <<cells, op, holds, draft, kids, callee, args, parent>>,
         l \in Drafting <=> pc[i] \in Drafting, l \in Ending => kids[i] = <<>>, l = "journal" => i = Main,
         UNCHANGED <<reported, journal, ops>>, errored' \in {errored, errored \cup ({i} \cap Workers)}
  PROVE  Control'
<1>1. op[i] = NoOp /\ At(i) = pc[i] /\ Drafted(i) /\ PlaceOK(i) /\ Types
  BY Here
<1>2. pc' = [pc EXCEPT ![i] = l] /\ pc \in [Isolates -> Labels]
  BY <1>1 DEF Goto, Types
<1>3. UNCHANGED <<rc, frozen, live, raced>>
  BY DEF cells
<1>4. Types'
  BY <1>1, <1>2, <1>3 DEF Types
<1>5. Only(i)
  BY <1>2 DEF Only
<1>6. OpOK(i)' /\ Drafted(i)' /\ PlaceOK(i)'
  BY <1>1, <1>2 DEF OpOK, Drafted, PlaceOK, At
<1>7. op'[i].cell \notin Consts
  BY <1>1, Constants, Emptiness
<1> QED
  BY <1>2, <1>3, <1>4, <1>5, <1>6, <1>7, QuietStep

\* The pending store is done.
LEMMA StoreStep ==
  ASSUME Control, NEW i \in Isolates, StoreWord(i)
  PROVE  /\ Control' /\ op[i].cell \in Cells /\ op[i].next \in Labels \ {"store", "off"}
         /\ frozen' = frozen /\ At(i)' = At(i)
<1>1. /\ pc[i] = "store" /\ rc' = [rc EXCEPT ![op[i].cell] = op[i].n]
      /\ frozen' = frozen \ {op[i].cell} /\ live' \subseteq live
      /\ op' = [op EXCEPT ![i] = NoOp] /\ pc' = [pc EXCEPT ![i] = op[i].next]
      /\ UNCHANGED <<raced, holds, draft, kids, callee, args, parent, errored, reported, journal, ops>>
  BY DEF StoreWord, Goto, threads
<1>2. Types /\ OpOK(i) /\ Drafted(i) /\ PlaceOK(i) /\ FrozenOK
  BY DEF Control, ControlOK
<1>3. /\ op[i] \in Ops /\ At(i) = op[i].next /\ op[i].next \in Labels \ {"store", "off"}
      /\ pc \in [Isolates -> Labels] /\ op \in [Isolates -> Ops]
  BY <1>1, <1>2 DEF OpOK, At, Types, Labels
<1>4. op[i].cell \in Funcs \cup Consts
  BY <1>1, <1>2, <1>3, Constants DEF OpOK, Drafted, Drafting
<1>5. op[i].cell \notin frozen
  BY <1>2, <1>4, Constants DEF FrozenOK, Types
<1>6. frozen' = frozen
  BY <1>1, <1>5
<1>7. pc'[i] = op[i].next /\ op'[i] = NoOp /\ At(i)' = op[i].next
  BY <1>1, <1>3 DEF At
<1>8. Types'
  BY <1>1, <1>2, <1>3, <1>6, Emptiness DEF Types, Ops
<1>9. Only(i)
  BY <1>1, <1>3 DEF Only
<1>10. OpOK(i)' /\ Drafted(i)' /\ PlaceOK(i)'
  BY <1>1, <1>2, <1>3, <1>7 DEF OpOK, Drafted, PlaceOK
<1>11. op'[i].cell \notin Consts
  BY <1>7, Constants, Emptiness
<1>12. Control'
  BY <1>1, <1>3, <1>6, <1>7, <1>8, <1>9, <1>10, <1>11, QuietStep
<1> QED
  BY <1>3, <1>4, <1>6, <1>7, <1>12, Constants DEF Cells

\* A reference is taken or given back, with what it is for; the isolate stays
\* in the same part of its work.
LEMMA RefStep ==
  ASSUME Control, NEW i \in Isolates, pc[i] \notin {"store", "off", "gone"},
         NEW c \in Cells, NEW d \in {1, -1}, NEW l \in Labels \ {"off", "store"}, Ref(i, c, d, l),
         \/ c \in Consts /\ l \in {"transfer", "undo", "args"}
         \/ c = draft'[i].f /\ l = "launch"
         \/ c \in Funcs /\ l = "journal",
         l \in Drafting <=> pc[i] \in Drafting, l \in Ending <=> pc[i] \in Ending, l = "journal" => i = Main,
         NEW D \in Drafts, draft' = [draft EXCEPT ![i] = D], D.f = draft[i].f, D.w = draft[i].w,
         l \notin Drafting => D = draft[i],
         UNCHANGED <<holds, kids, callee, parent, errored, reported, ops>>,
         args' \in [Workers -> Seq(Kinds)], \A w \in Workers : w # i => args'[w] = args[w],
         journal' \subseteq journal
  PROVE  Control'
<1>1. op[i] = NoOp /\ At(i) = pc[i] /\ Drafted(i) /\ PlaceOK(i) /\ Types
  BY Here
<1>2. /\ rc' \in [Cells -> Int] /\ frozen' = frozen /\ live' \subseteq Cells /\ raced' \subseteq Cells
      /\ pc' \in [Isolates -> Labels] /\ op' \in [Isolates -> Ops]
      /\ \A j \in Isolates : j # i => pc'[j] = pc[j] /\ op'[j] = op[j]
      /\ At(i)' = l
      /\ \/ pc'[i] = l /\ op'[i] = NoOp
         \/ pc'[i] = "store" /\ op'[i].cell = c /\ op'[i].next = l /\ c \notin frozen
  BY <1>1, RefMoves
<1>3. draft'[i] = D /\ draft \in [Isolates -> Drafts] /\ draft' \in [Isolates -> Drafts]
  BY <1>1 DEF Types
<1>4. Types'
  BY <1>1, <1>2, <1>3 DEF Types
<1>5. Only(i)
  BY <1>2, <1>3 DEF Only
<1>6. OpOK(i)'
  BY <1>2, <1>3 DEF OpOK
<1>7. Drafted(i)'
  BY <1>1, <1>2, <1>3 DEF Drafted
<1>8. PlaceOK(i)'
  BY <1>1, <1>2 DEF PlaceOK
<1>9. op'[i].cell \in Consts => op'[i].cell \notin frozen
  BY <1>2, Constants, Emptiness
<1>10. D # NoDraft => draft[i] # NoDraft
  <2>1. CASE l \in Drafting
    BY <2>1, <1>1, Constants, Emptiness DEF Drafted
  <2>2. CASE l \notin Drafting
    BY <2>2
  <2> QED
    BY <2>1, <2>2
<1> QED
  BY <1>2, <1>3, <1>4, <1>5, <1>6, <1>7, <1>8, <1>9, <1>10, QuietStep

\* A field of the draft changes, or the draft is given up, nothing else.
LEMMA DraftStep ==
  ASSUME Control, NEW i \in Isolates, pc[i] \in {"transfer", "undo"}, UNCHANGED <<cells, op, holds, threads, journal, ops>>,
         NEW D \in Drafts, draft' = [draft EXCEPT ![i] = D],
         NEW l \in {"transfer", "undo", "run"}, pc' = [pc EXCEPT ![i] = l],
         IF l = "run" THEN D = NoDraft ELSE D.f = draft[i].f /\ D.w = draft[i].w
  PROVE  Control'
<1>1. op[i] = NoOp /\ At(i) = pc[i] /\ Drafted(i) /\ PlaceOK(i) /\ Types
  BY Here
<1>2. UNCHANGED <<rc, frozen, live, raced, kids, callee, args, parent, errored, reported>>
  BY DEF cells, threads
<1>3. l \in Labels /\ pc \in [Isolates -> Labels] /\ draft \in [Isolates -> Drafts]
  BY <1>1 DEF Labels, Types
<1>4. pc'[i] = l /\ draft'[i] = D
  BY <1>3
<1>5. Types'
  BY <1>1, <1>2, <1>3 DEF Types
<1>6. Only(i)
  BY <1>2, <1>3 DEF Only
<1>7. OpOK(i)' /\ Drafted(i)' /\ PlaceOK(i)'
  BY <1>1, <1>2, <1>4 DEF OpOK, Drafted, PlaceOK, At, Drafting, Ending
<1>8. op'[i].cell \notin Consts
  BY <1>1, Constants, Emptiness
<1>9. D.w \in {None, draft[i].w} /\ (D # NoDraft => draft[i] # NoDraft)
  BY <1>1, Constants, Emptiness DEF Drafted, Drafting
<1> QED
  BY <1>2, <1>4, <1>5, <1>6, <1>7, <1>8, <1>9, QuietStep

\* spawn begins: the constants are frozen, and nobody had a store of one pending.
LEMMA BeginStep ==
  ASSUME Control, NEW i \in Isolates, NEW f \in Funcs, NEW as \in Arguments, NEW w \in Workers,
         SpawnBegin(i, f, as, w)
  PROVE  /\ Control' /\ frozen' = Consts /\ \A j \in Isolates : op[j].cell \notin Consts
         /\ raced' = raced /\ At(i) = "run" /\ At(i)' = "transfer" /\ draft[i] = NoDraft
<1> DEFINE D == [f |-> f, w |-> w, want |-> as, built |-> <<>>]
<1>1. /\ pc[i] = "run" /\ ops[i] < MaxOps /\ ops' = [ops EXCEPT ![i] = @ + 1] /\ f \in Spawnable[i]
      /\ pc[w] = "off" /\ \A j \in Isolates : draft[j].w # w
      /\ frozen' = frozen \cup Consts /\ raced' = raced \cup (Consts \cap Pending) /\ draft' = [draft EXCEPT ![i] = D] /\ pc' = [pc EXCEPT ![i] = "transfer"]
      /\ UNCHANGED <<rc, live, op, holds, kids, callee, args, parent, errored, reported, journal>>
  BY DEF SpawnBegin, Op, Goto, Freeze, threads
<1>2. op[i] = NoOp /\ At(i) = "run" /\ draft[i] = NoDraft /\ PlaceOK(i) /\ Types
  BY <1>1, Here DEF Drafting
<1>3. TreeOK /\ Ranked /\ FrozenOK /\ ControlOK
  BY DEF Control
<1>4. frozen' = Consts
  BY <1>1, <1>2 DEF Types
<1>5. ASSUME NEW j \in Isolates PROVE op[j].cell \notin Consts
  <2>1. CASE \A x \in Workers : pc[x] = "off"
    <3>1. pc[j] # "store"
      BY <1>1, <2>1, Constants DEF Isolates
    <3> QED
      BY <3>1, Here, Constants, Emptiness
  <2>2. CASE \A k \in Isolates : op[k].cell \notin Consts
    BY <2>2
  <2> QED
    BY <1>3, <2>1, <2>2 DEF FrozenOK
<1>15. raced' = raced
  BY <1>1, <1>5 DEF Pending
<1>6. /\ pc \in [Isolates -> Labels] /\ draft \in [Isolates -> Drafts] /\ "transfer" \in Labels /\ D \in Drafts
      /\ ops' \in [Isolates -> 0..MaxOps]
  <2>1. as \in Seq(Kinds) /\ f \in Funcs
    BY Constants
  <2>2. ops[i] + 1 \in 0..MaxOps
    BY <1>1, <1>2, Constants DEF Types
  <2>3. D \in Drafts
    <3>1. <<>> \in Seq(Kinds)
      OBVIOUS
    <3> QED
      BY <2>1, <3>1 DEF Drafts
  <2> QED
    BY <1>1, <1>2, <2>2, <2>3 DEF Types, Labels
<1>7. pc'[i] = "transfer" /\ draft'[i] = D /\ D.w = w /\ D.f = f /\ At(i)' = "transfer"
  BY <1>6, <1>1 DEF At
<1> HIDE DEF D
<1>8. Types'
  BY <1>1, <1>2, <1>4, <1>6, <1>15 DEF Types
<1>9. Only(i)
  BY <1>1, <1>6 DEF Only
<1>10. OpOK(i)' /\ Drafted(i)' /\ PlaceOK(i)'
  BY <1>1, <1>2, <1>7, Constants DEF OpOK, Drafted, PlaceOK, Drafting, Ending
<1>11. ControlOK'
  BY <1>1, <1>2, <1>3, <1>7, <1>9, <1>10, ControlStep
<1>12. TreeOK'
  <2>1. ASSUME NEW x \in Workers
        PROVE  /\ pc[x] = "off" => pc'[x] = "off" /\ args'[x] = <<>>
               /\ pc[x] = "gone" => pc'[x] = "gone" /\ (x \in errored' => x \in errored)
    <3>1. x \in Isolates /\ (pc[x] = "off" => args[x] = <<>>)
      BY <1>3, Constants DEF TreeOK, WorkerOK
    <3> QED
      BY <1>1, <1>9, <3>1 DEF Only
  <2>2. \A j \in Isolates : pc[j] # "off" => pc'[j] # "off"
    BY <1>7, <1>9 DEF Only
  <2> QED
    BY <1>1, <1>2, <1>3, <2>1, <2>2, TreeStep
<1>13. Ranked'
  BY <1>1, <1>3 DEF Ranked
<1>14. FrozenOK'
  BY <1>1, <1>4, <1>5 DEF FrozenOK
<1> QED
  BY <1>2, <1>4, <1>5, <1>7, <1>8, <1>11, <1>12, <1>13, <1>14, <1>15 DEF Control

\* The worker starts: it is new to the tree, and below its spawner.
LEMMA LaunchStep ==
  ASSUME Control, NEW i \in Isolates, Launch(i)
  PROVE  Control'
<1> DEFINE w == draft[i].w
<1>1. op[i] = NoOp /\ pc[i] = "launch" /\ draft[i].f \in Spawnable[i] /\ w \in Workers /\ PlaceOK(i) /\ Types
  BY Here DEF Launch, Drafted, Drafting
<1> DEFINE F == draft[i].f
<1>2. /\ callee' = [callee EXCEPT ![w] = F] /\ args' = [args EXCEPT ![w] = draft[i].built]
      /\ parent' = [parent EXCEPT ![w] = i] /\ kids' = [kids EXCEPT ![i] = Append(@, w)]
      /\ pc' = [pc EXCEPT ![i] = "run", ![w] = "run"] /\ draft' = [draft EXCEPT ![i] = NoDraft]
      /\ UNCHANGED <<rc, frozen, live, raced, op, holds, errored, reported, journal, ops>>
  BY DEF Launch, cells
<1>3. /\ ControlOK /\ TreeOK /\ Ranked /\ FrozenOK
  BY DEF Control
<1>4. pc[w] = "off" /\ (\A j \in Isolates : j # i => draft[j].w # w) /\ w \in Isolates /\ w # i
  BY <1>1, <1>3, Constants DEF ControlOK, Reserved
<1>5. /\ op[w] = NoOp /\ draft[w] = NoDraft /\ kids[w] = <<>>
      /\ parent[w] = None /\ callee[w] = None /\ args[w] = <<>>
  <2>1. op[w] = NoOp /\ draft[w] = NoDraft /\ kids[w] = <<>>
    BY <1>4, Here DEF Drafting, PlaceOK, Ending
  <2>2. parent[w] = None /\ callee[w] = None /\ args[w] = <<>>
    BY <1>1, <1>3, <1>4 DEF TreeOK, WorkerOK
  <2> QED
    BY <2>1, <2>2
<1>6. F \in Funcs /\ draft[i].built \in Seq(Kinds) /\ "run" \in Labels /\ w \in Workers /\ None \notin Isolates
  BY <1>1, Constants DEF Types, Drafts, Labels
<1>7. /\ pc \in [Isolates -> Labels] /\ draft \in [Isolates -> Drafts] /\ kids \in [Isolates -> Seq(Workers)]
      /\ callee \in [Workers -> Funcs \cup {None}] /\ args \in [Workers -> Seq(Kinds)]
      /\ parent \in [Workers -> Isolates \cup {None}] /\ op \in [Isolates -> Ops]
  BY <1>1 DEF Types
<1> HIDE DEF w, F
<1>8. Types'
  <2>1. Append(kids[i], w) \in Seq(Workers)
    BY <1>6, <1>7
  <2> QED
    BY <1>1, <1>2, <1>4, <1>6, <1>7, <2>1, Emptiness DEF Types
<1>9. ASSUME NEW j \in Isolates
      PROVE  /\ pc'[j] = (IF j = i \/ j = w THEN "run" ELSE pc[j]) /\ op'[j] = op[j]
             /\ draft'[j] = (IF j = i THEN NoDraft ELSE draft[j])
             /\ kids'[j] = (IF j = i THEN Append(kids[i], w) ELSE kids[j]) /\ holds'[j] = holds[j]
  BY <1>2, <1>4, <1>7
<1>10. ControlOK'
  <2>1. ASSUME NEW j \in Isolates PROVE (OpOK(j) /\ Drafted(j) /\ PlaceOK(j))'
    <3>1. OpOK(j) /\ Drafted(j) /\ PlaceOK(j)
      BY <1>3 DEF ControlOK
    <3>2. CASE j \in {i, w}
      BY <1>1, <1>5, <1>9, <3>2 DEF OpOK, Drafted, PlaceOK, At, Drafting, Ending
    <3>3. CASE j \notin {i, w}
      BY <1>9, <3>1, <3>3 DEF OpOK, Drafted, PlaceOK, At
    <3> QED
      BY <3>2, <3>3
  <2>2. ASSUME NEW j \in Isolates, draft'[j].w # None
        PROVE  pc'[draft'[j].w] = "off" /\ \A k \in Isolates : k # j => draft'[k].w # draft'[j].w
    <3>1. j # i /\ draft'[j] = draft[j]
      BY <1>9, <2>2, Emptiness
    <3>2. draft[j].w # w
      BY <1>4, <3>1
    <3>3. pc[draft[j].w] = "off" /\ \A k \in Isolates : k # j => draft[k].w # draft[j].w
      BY <1>3, <2>2, <3>1 DEF ControlOK, Reserved
    <3>4. draft[j].w \in Workers /\ draft[j].w \in Isolates /\ draft[j].w # i
      BY <1>1, <1>7, <2>2, <3>1, <3>3, Constants DEF Drafts
    <3> QED
      BY <1>9, <2>2, <3>1, <3>2, <3>3, <3>4, Emptiness
  <2> QED
    BY <2>1, <2>2 DEF ControlOK, Reserved
<1>11. ASSUME NEW x \in Workers
       PROVE  /\ parent'[x] = (IF x = w THEN i ELSE parent[x])
              /\ callee'[x] = (IF x = w THEN F ELSE callee[x])
              /\ args'[x] = (IF x = w THEN draft[i].built ELSE args[x])
  BY <1>2, <1>7
<1>12. TreeOK'
  <2>1. ASSUME NEW j \in Isolates PROVE KidsOK(j)'
    <3>1. KidsOK(j) /\ \A n \in DOMAIN kids[j] : kids[j][n] \in Workers
      BY <1>3, <1>7, ElementOfSeq, LenProperties DEF TreeOK
    <3>2. \A n \in DOMAIN kids[j] : kids[j][n] # w
      BY <1>5, <3>1, Constants DEF KidsOK
    <3>3. CASE j # i
      BY <1>9, <1>11, <3>1, <3>2, <3>3 DEF KidsOK
    <3>4. CASE j = i
      <4>1. kids'[i] = Append(kids[i], w) /\ kids[i] \in Seq(Workers)
        BY <1>7, <1>9
      <4>2. /\ DOMAIN kids'[i] = 1..(Len(kids[i]) + 1) /\ DOMAIN kids[i] = 1..Len(kids[i]) /\ Len(kids[i]) \in Nat
            /\ kids'[i][Len(kids[i]) + 1] = w
            /\ \A n \in 1..Len(kids[i]) : kids'[i][n] = kids[i][n]
        BY <4>1, <1>6, AppendProperties, LenProperties
      <4>3. ASSUME NEW n \in DOMAIN kids'[i]
            PROVE  parent'[kids'[i][n]] = i /\ callee'[kids'[i][n]] \in Spawnable[i]
        <5>1. CASE n = Len(kids[i]) + 1
          BY <1>1, <1>6, <1>11, <4>2, <5>1 DEF F
        <5>2. CASE n # Len(kids[i]) + 1
          <6>1. n \in DOMAIN kids[i]
            BY <4>2, <5>2
          <6> QED
            BY <1>11, <3>1, <3>2, <3>4, <4>2, <6>1 DEF KidsOK
        <5> QED
          BY <5>1, <5>2
      <4>4. ASSUME NEW m \in DOMAIN kids'[i], NEW n \in DOMAIN kids'[i], kids'[i][m] = kids'[i][n]
            PROVE  m = n
        <5>1. \A a, b \in 1..Len(kids[i]) : kids[i][a] = kids[i][b] => a = b
          BY <3>1, <3>4, <4>2 DEF KidsOK
        <5>2. \A a \in 1..Len(kids[i]) : kids[i][a] # w
          BY <3>2, <3>4, <4>2
        <5> QED
          BY <4>2, <4>4, <5>1, <5>2
      <4> QED
        BY <3>4, <4>3, <4>4 DEF KidsOK
    <3> QED
      BY <3>3, <3>4
  <2>2. ASSUME NEW x \in Workers PROVE WorkerOK(x)'
    <3>1. WorkerOK(x) /\ x \in Isolates
      BY <1>3, Constants DEF TreeOK
    <3>2. /\ kids[i] \in Seq(Workers) /\ DOMAIN kids'[i] = 1..(Len(kids[i]) + 1) /\ DOMAIN kids[i] = 1..Len(kids[i])
          /\ Len(kids[i]) \in Nat /\ kids'[i][Len(kids[i]) + 1] = w
          /\ \A n \in 1..Len(kids[i]) : kids'[i][n] = kids[i][n]
      <4>1. kids'[i] = Append(kids[i], w) /\ kids[i] \in Seq(Workers)
        BY <1>7, <1>9
      <4> QED
        BY <4>1, <1>6, AppendProperties, LenProperties
    <3>3. CASE x = w
      <4>1. pc'[x] = "run" /\ parent'[x] = i /\ i # None /\ pc'[i] = "run"
        BY <1>6, <1>9, <1>11, <3>1, <3>3
      <4>2. \E n \in DOMAIN kids'[i] : kids'[i][n] = w
        BY <3>2
      <4> QED
        BY <3>3, <4>1, <4>2 DEF WorkerOK
    <3>4. CASE x # w
      <4>1. /\ parent'[x] = parent[x] /\ callee'[x] = callee[x] /\ args'[x] = args[x]
            /\ pc'[x] = "off" <=> pc[x] = "off"
            /\ pc[x] = "gone" => pc'[x] = "gone"
        BY <1>1, <1>9, <1>11, <3>1, <3>4
      <4>2. CASE parent[x] = None
        BY <3>1, <4>1, <4>2 DEF WorkerOK
      <4>3. CASE parent[x] # None
        <5>1. parent[x] \in Isolates /\ pc[parent[x]] # "off"
          BY <1>7, <3>1, <4>3 DEF WorkerOK
        <5>2. pc'[parent[x]] # "off"
          BY <1>9, <5>1
        <5>3. ASSUME NEW n \in DOMAIN kids[parent[x]], kids[parent[x]][n] = x
              PROVE  \E m \in DOMAIN kids'[parent[x]] : kids'[parent[x]][m] = x
          <6>1. CASE parent[x] = i
            BY <3>2, <5>3, <6>1
          <6>2. CASE parent[x] # i
            BY <1>9, <5>1, <5>3, <6>2
          <6> QED
            BY <6>1, <6>2
        <5>4. errored' = errored /\ reported' = reported
          BY <1>2
        <5> QED
          BY <3>1, <4>1, <4>3, <5>2, <5>3, <5>4 DEF WorkerOK
      <4> QED
        BY <4>2, <4>3
    <3> QED
      BY <3>3, <3>4
  <2> QED
    BY <2>1, <2>2 DEF TreeOK
<1>13. Ranked'
  <2>1. PICK rank \in [Isolates -> Nat] : \A x \in Workers : parent[x] # None => rank[parent[x]] < rank[x]
    BY <1>3 DEF Ranked
  <2> DEFINE new == [rank EXCEPT ![w] = rank[i] + 1]
  <2>2. new \in [Isolates -> Nat] /\ new[w] = rank[i] + 1 /\ \A j \in Isolates : j # w => new[j] = rank[j]
    BY <1>4, <2>1
  <2>3. ASSUME NEW x \in Workers, parent'[x] # None PROVE new[parent'[x]] < new[x]
    <3>1. CASE x = w
      <4>1. parent'[x] = i /\ new[i] = rank[i] /\ new[x] = rank[i] + 1 /\ rank[i] \in Nat
        BY <1>4, <1>11, <2>1, <2>2, <3>1
      <4> QED
        BY <4>1
    <3>2. CASE x # w
      <4>1. parent'[x] = parent[x] /\ parent[x] \in Isolates /\ pc[parent[x]] # "off"
        BY <1>3, <1>7, <1>11, <2>3, <3>2 DEF TreeOK, WorkerOK
      <4>2. parent[x] # w /\ x \in Isolates
        BY <1>4, <4>1, Constants
      <4> QED
        BY <2>1, <2>2, <2>3, <3>2, <4>1, <4>2
    <3> QED
      BY <3>1, <3>2
  <2> QED
    BY <2>2, <2>3 DEF Ranked
<1>14. FrozenOK'
  <2>1. draft[i] # NoDraft
    BY <1>1, Constants, Emptiness
  <2>2. frozen = Consts /\ \A j \in Isolates : op[j].cell \notin Consts
    BY <1>3, <2>1 DEF FrozenOK
  <2> QED
    BY <1>2, <2>2 DEF FrozenOK
<1> QED
  BY <1>8, <1>10, <1>12, <1>13, <1>14 DEF Control

\* The oldest handle is finalized: its worker is joined and its closure let go.
LEMMA JoinStep ==
  ASSUME Control, NEW i \in Isolates, Join(i)
  PROVE  Control'
<1> DEFINE w == kids[i][1]
<1>1. /\ pc[i] = "join" /\ op[i] = NoOp /\ draft[i] = NoDraft /\ PlaceOK(i) /\ Types
  BY Here DEF Join, Drafting
<1>2. TreeOK /\ Ranked /\ FrozenOK /\ ControlOK
  BY DEF Control
<1>3. /\ kids[i] \in Seq(Workers) /\ kids[i] # <<>> /\ w \in Workers /\ Head(kids[i]) = w /\ Tail(kids[i]) \in Seq(Workers)
      /\ Len(kids[i]) \in Nat \ {0} /\ DOMAIN kids[i] = 1..Len(kids[i]) /\ DOMAIN Tail(kids[i]) = 1..(Len(kids[i]) - 1)
      /\ \A n \in 1..(Len(kids[i]) - 1) : Tail(kids[i])[n] = kids[i][n + 1]
  <2>1. kids[i] \in Seq(Workers) /\ kids[i] # <<>>
    BY <1>1 DEF Join, Types
  <2>2. Len(kids[i]) \in Nat \ {0} /\ DOMAIN kids[i] = 1..Len(kids[i])
    BY <2>1
  <2>3. w \in Workers /\ Head(kids[i]) = w
    BY <2>1, <2>2
  <2>4. Tail(kids[i]) \in Seq(Workers) /\ Len(Tail(kids[i])) = Len(kids[i]) - 1
    BY <2>1
  <2>5. DOMAIN Tail(kids[i]) = 1..(Len(kids[i]) - 1)
    BY <2>4, LenProperties
  <2>6. \A n \in 1..(Len(kids[i]) - 1) : Tail(kids[i])[n] = kids[i][n + 1]
    BY <2>1, <2>4
  <2> QED
    BY <2>1, <2>2, <2>3, <2>4, <2>5, <2>6
<1>4. /\ pc[w] = "gone" /\ reported' = (IF w \in errored THEN reported \cup {w} ELSE reported)
      /\ callee' = [callee EXCEPT ![w] = None] /\ Ref(i, callee[w], -1, "join") /\ kids' = [kids EXCEPT ![i] = Tail(@)]
      /\ UNCHANGED <<holds, draft, args, parent, errored, journal, ops>>
  BY <1>3 DEF Join, Joined
<1>5. parent[w] = i /\ callee[w] \in Spawnable[i] /\ w # i /\ w \in Isolates
  BY <1>1, <1>2, <1>3, <1>4, Constants DEF TreeOK, KidsOK
<1> HIDE DEF w
<1>6. callee[w] \in Funcs /\ callee[w] \in Cells /\ "join" \in Labels
  BY <1>5, Constants DEF Labels
<1>7. /\ rc' \in [Cells -> Int] /\ frozen' = frozen /\ live' \subseteq Cells /\ raced' \subseteq Cells
      /\ pc' \in [Isolates -> Labels] /\ op' \in [Isolates -> Ops]
      /\ \A j \in Isolates : j # i => pc'[j] = pc[j] /\ op'[j] = op[j]
      /\ At(i)' = "join"
      /\ \/ pc'[i] = "join" /\ op'[i] = NoOp
         \/ pc'[i] = "store" /\ op'[i].cell = callee[w] /\ op'[i].next = "join" /\ callee[w] \notin frozen
  BY <1>1, <1>4, <1>6, RefMoves
<1>8. /\ kids \in [Isolates -> Seq(Workers)] /\ callee \in [Workers -> Funcs \cup {None}]
      /\ kids'[i] = Tail(kids[i]) /\ \A j \in Isolates : j # i => kids'[j] = kids[j]
  BY <1>1, <1>4 DEF Types
<1>9. \A x \in Workers : callee'[x] = IF x = w THEN None ELSE callee[x]
  BY <1>4, <1>8
<1>10. Types'
  <2>1. reported' \subseteq errored'
    BY <1>1, <1>4 DEF Types
  <2>2. callee' \in [Workers -> Funcs \cup {None}] /\ kids' \in [Isolates -> Seq(Workers)]
    BY <1>3, <1>4, <1>8
  <2> QED
    BY <1>1, <1>4, <1>7, <2>1, <2>2 DEF Types
<1>11. Only(i)
  BY <1>4, <1>7, <1>8 DEF Only
<1>12. OpOK(i)'
  BY <1>5, <1>7 DEF OpOK
<1>13. Drafted(i)' /\ PlaceOK(i)'
  BY <1>1, <1>4, <1>7 DEF Drafted, PlaceOK, Drafting, Ending
<1>14. ControlOK'
  BY <1>1, <1>2, <1>4, <1>7, <1>11, <1>12, <1>13, Emptiness, ControlStep
<1>15. FrozenOK'
  BY <1>1, <1>2, <1>4, <1>6, <1>7, <1>11, Constants, Emptiness, FrozenStep
<1>16. Ranked'
  BY <1>2, <1>4 DEF Ranked
<1>17. TreeOK'
  <2>1. ASSUME NEW j \in Isolates PROVE KidsOK(j)'
    <3>1. KidsOK(j) /\ KidsOK(i) /\ \A n \in DOMAIN kids[j] : kids[j][n] \in Workers
      BY <1>2, <1>8, ElementOfSeq, LenProperties DEF TreeOK
    <3>2. parent' = parent
      BY <1>4
    <3>3. CASE j # i
      <4>1. \A n \in DOMAIN kids[j] : kids[j][n] # w
        BY <1>5, <3>1, <3>3 DEF KidsOK
      <4> QED
        BY <1>8, <1>9, <3>1, <3>2, <3>3, <4>1 DEF KidsOK
    <3>4. CASE j = i
      <4>1. ASSUME NEW n \in DOMAIN kids'[i]
            PROVE  n + 1 \in DOMAIN kids[i] /\ kids'[i][n] = kids[i][n + 1] /\ kids[i][n + 1] # w /\ n \in Nat
        <5>1. n \in 1..(Len(kids[i]) - 1) /\ kids'[i][n] = kids[i][n + 1] /\ n + 1 \in DOMAIN kids[i] /\ n + 1 # 1
          BY <1>3, <1>8, <4>1
        <5>2. 1 \in DOMAIN kids[i] /\ kids[i][1] = w
          BY <1>3 DEF w
        <5> QED
          BY <3>1, <5>1, <5>2 DEF KidsOK
      <4>2. ASSUME NEW n \in DOMAIN kids'[i]
            PROVE  parent'[kids'[i][n]] = i /\ callee'[kids'[i][n]] \in Spawnable[i]
        <5>1. parent[kids[i][n + 1]] = i /\ callee[kids[i][n + 1]] \in Spawnable[i] /\ kids[i][n + 1] \in Workers
          BY <3>1, <3>4, <4>1 DEF KidsOK
        <5> QED
          BY <1>9, <3>2, <4>1, <5>1
      <4>3. ASSUME NEW m \in DOMAIN kids'[i], NEW n \in DOMAIN kids'[i], kids'[i][m] = kids'[i][n]
            PROVE  m = n
        <5>1. m + 1 = n + 1 /\ m \in Nat /\ n \in Nat
          BY <3>1, <4>1, <4>3 DEF KidsOK
        <5> QED
          BY <5>1
      <4> QED
        BY <3>4, <4>2, <4>3 DEF KidsOK
    <3> QED
      BY <3>3, <3>4
  <2>2. ASSUME NEW x \in Workers PROVE WorkerOK(x)'
    <3>1. WorkerOK(x) /\ x \in Isolates
      BY <1>2, Constants DEF TreeOK
    <3>2. parent' = parent /\ args' = args /\ errored' = errored /\ reported \subseteq reported'
      BY <1>4
    <3>3. \A j \in Isolates : pc'[j] = "off" <=> pc[j] = "off"
      BY <1>1, <1>7
    <3>4. pc[x] = "gone" => pc'[x] = "gone"
      BY <1>1, <1>7, <3>1
    <3>5. CASE x = w
      <4>1. callee'[x] = None /\ (x \in errored' => x \in reported') /\ pc'[x] = "gone"
        BY <1>4, <1>9, <3>4, <3>5
      <4>2. parent[x] \in Isolates /\ pc[parent[x]] # "off" /\ pc[x] # "off" /\ parent[x] # None
        BY <1>1, <1>4, <1>5, <3>5, Constants
      <4>3. pc'[parent[x]] # "off" /\ pc'[x] # "off"
        BY <3>1, <3>3, <4>2
      <4> QED
        BY <3>2, <4>1, <4>2, <4>3 DEF WorkerOK
    <3>6. CASE x # w
      <4>1. callee'[x] = callee[x]
        BY <1>9, <3>6
      <4>2. CASE parent[x] = None
        BY <3>1, <3>2, <3>3, <4>1, <4>2 DEF WorkerOK
      <4>3. CASE parent[x] # None
        <5>1. parent[x] \in Isolates /\ pc[parent[x]] # "off" /\ pc[x] # "off"
          BY <1>1, <3>1, <4>3 DEF WorkerOK, Types
        <5>2. ASSUME NEW n \in DOMAIN kids[parent[x]], kids[parent[x]][n] = x
              PROVE  \E m \in DOMAIN kids'[parent[x]] : kids'[parent[x]][m] = x
          <6>1. CASE parent[x] = i
            <7>1. n # 1 /\ n \in 1..Len(kids[i])
              BY <1>3, <3>6, <5>2, <6>1 DEF w
            <7>2. n - 1 \in 1..(Len(kids[i]) - 1) /\ (n - 1) + 1 = n
              BY <1>3, <7>1
            <7>3. n - 1 \in DOMAIN kids'[i] /\ kids'[i][n - 1] = x
              BY <1>3, <1>8, <5>2, <6>1, <7>2
            <7> QED
              BY <6>1, <7>3
          <6>2. CASE parent[x] # i
            BY <1>8, <5>1, <5>2, <6>2
          <6> QED
            BY <6>1, <6>2
        <5>3. pc'[x] # "off" /\ pc'[parent[x]] # "off"
          BY <3>1, <3>3, <5>1
        <5> QED
          BY <3>1, <3>2, <3>4, <4>1, <4>3, <5>2, <5>3 DEF WorkerOK
      <4> QED
        BY <4>2, <4>3
    <3> QED
      BY <3>5, <3>6
  <2> QED
    BY <2>1, <2>2 DEF TreeOK
<1> QED
  BY <1>10, <1>14, <1>15, <1>16, <1>17 DEF Control

-----------------------------------------------------------------------------
(* Every step keeps control.                                                *)

\* The steps of an isolate on its own, one by one.
LEMMA ProceedControl ==
  ASSUME Control, NEW i \in Isolates, Proceed(i)
  PROVE  Control'
<1>1. Types /\ (pc[i] # "store" => op[i] = NoOp /\ At(i) = pc[i] /\ Drafted(i) /\ PlaceOK(i))
  BY Here DEF Control
<1>2. draft \in [Isolates -> Drafts] /\ draft[i] \in Drafts /\ args \in [Workers -> Seq(Kinds)]
  BY <1>1 DEF Types
<1>3. CASE StoreWord(i)
  BY <1>3, StoreStep
<1>4. CASE Transfer(i)
  <2> DEFINE a == Head(draft[i].want)
             b == IF a \in frozen THEN a ELSE "copy"
             D == [draft[i] EXCEPT !.want = Tail(draft[i].want), !.built = Append(draft[i].built, b)]
  <2>1. /\ pc[i] = "transfer" /\ draft[i].want # <<>> /\ draft' = [draft EXCEPT ![i] = D]
        /\ IF a \in frozen THEN Ref(i, a, 1, "transfer") ELSE UNCHANGED <<cells, pc, op>>
        /\ UNCHANGED <<holds, threads, journal, ops>>
    BY <1>2, <1>4 DEF Transfer
  <2>2. D \in Drafts /\ D.f = draft[i].f /\ D.w = draft[i].w
    <3>1. draft[i].want \in Seq(Kinds) /\ draft[i].built \in Seq(Kinds)
      BY <1>2 DEF Drafts
    <3>2. a \in Kinds /\ Tail(draft[i].want) \in Seq(Kinds)
      BY <2>1, <3>1, HeadTailProperties
    <3>3. Append(draft[i].built, b) \in Seq(Kinds)
      BY <3>1, <3>2, Constants
    <3> QED
      BY <1>2, <3>2, <3>3 DEF Drafts
  <2>3. "transfer" \in Labels \ {"off", "store"}
    BY DEF Labels
  <2>4. CASE a \in frozen
    <3>1. a \in Consts /\ a \in Cells
      BY <1>1, <2>4, Constants DEF Types
    <3>2. UNCHANGED <<kids, callee, args, parent, errored, reported>>
      BY <2>1 DEF threads
    <3> HIDE DEF D, a
    <3> QED
      BY <1>2, <2>1, <2>2, <2>3, <2>4, <3>1, <3>2, RefStep DEF Drafting, Ending
  <2>5. CASE a \notin frozen
    <3>1. pc \in [Isolates -> Labels] /\ UNCHANGED <<cells, pc, op>>
      BY <1>1, <2>1, <2>5 DEF Types
    <3>2. pc' = [pc EXCEPT ![i] = "transfer"]
      BY <2>1, <3>1
    <3> HIDE DEF D, a
    <3> QED
      BY <2>1, <2>2, <3>1, <3>2, DraftStep
  <2> QED
    BY <2>4, <2>5
<1>5. CASE Reject(i)
  BY <1>5, GotoStep DEF Reject, Labels, Drafting, Ending, threads
<1>6. CASE Undo(i)
  <2>1. pc[i] = "undo" /\ UNCHANGED <<holds, threads, journal, ops>>
    BY <1>6 DEF Undo
  <2>2. CASE draft[i].built = <<>>
    <3>1. draft' = [draft EXCEPT ![i] = NoDraft] /\ pc' = [pc EXCEPT ![i] = "run"] /\ UNCHANGED <<cells, op>>
      BY <1>6, <2>2 DEF Undo, Goto
    <3> QED
      BY <2>1, <3>1, Emptiness, DraftStep
  <2>3. CASE draft[i].built # <<>>
    <3> DEFINE D == [draft[i] EXCEPT !.built = Tail(@)]
               a == Head(draft[i].built)
    <3>1. /\ draft' = [draft EXCEPT ![i] = D]
          /\ IF a \in Consts THEN Ref(i, a, -1, "undo") ELSE UNCHANGED <<cells, pc, op>>
      BY <1>2, <1>6, <2>3 DEF Undo
    <3>2. D \in Drafts /\ D.f = draft[i].f /\ D.w = draft[i].w
      BY <1>2, <2>3, HeadTailProperties DEF Drafts
    <3>3. "undo" \in Labels \ {"off", "store"}
      BY DEF Labels
    <3>4. CASE a \in Consts
      <4>1. a \in Cells
        BY <3>4, Constants
      <4>2. UNCHANGED <<kids, callee, args, parent, errored, reported>>
        BY <2>1 DEF threads
      <4> HIDE DEF D, a
      <4> QED
        BY <1>2, <2>1, <3>1, <3>2, <3>3, <3>4, <4>1, <4>2, RefStep DEF Drafting, Ending
    <3>5. CASE a \notin Consts
      <4>1. pc \in [Isolates -> Labels] /\ UNCHANGED <<cells, pc, op>>
        BY <1>1, <3>1, <3>5 DEF Types
      <4>2. pc' = [pc EXCEPT ![i] = "undo"]
        BY <2>1, <4>1
      <4> HIDE DEF D, a
      <4> QED
        BY <2>1, <3>1, <3>2, <4>1, <4>2, DraftStep
    <3> QED
      BY <3>4, <3>5
  <2> QED
    BY <2>2, <2>3
<1>7. CASE RetainCallee(i)
  <2>1. /\ pc[i] = "transfer" /\ Ref(i, draft[i].f, 1, "launch")
        /\ UNCHANGED <<holds, draft, kids, callee, args, parent, errored, reported, journal, ops>>
    BY <1>7 DEF RetainCallee, KeepCallee, threads
  <2>2. draft[i].f \in Cells /\ "launch" \in Labels \ {"off", "store"}
    BY <1>1, <2>1, Constants DEF Drafted, Drafting, Labels
  <2>3. draft' = [draft EXCEPT ![i] = draft[i]] /\ draft'[i].f = draft[i].f
    BY <1>2, <2>1
  <2> QED
    BY <1>2, <2>1, <2>2, <2>3, RefStep DEF Drafting, Ending
<1>8. CASE Launch(i)
  BY <1>8, LaunchStep
<1>9. ASSUME NEW from \in {"unwind", "slots"}, NEW l, <<from, l>> \in {<<"unwind", "args">>, <<"slots", "gone">>},
             ReleaseHolds(i, from, l)
      PROVE  Control'
  <2>1. pc[i] = from /\ UNCHANGED <<draft, threads, journal, ops>>
    BY <1>9 DEF ReleaseHolds
  <2>2. CASE holds[i] = {}
    <3>1. Goto(i, l) /\ UNCHANGED <<cells, op, holds>>
      BY <1>9, <2>2 DEF ReleaseHolds
    <3>2. l \in Labels \ {"off", "store"} /\ l # "journal" /\ l \notin Drafting /\ (l \in Ending => from \in Ending)
      BY <1>9 DEF Labels, Drafting, Ending
    <3>3. pc[i] \notin Drafting /\ (l \in Ending => kids[i] = <<>>)
      BY <1>1, <2>1, <3>2 DEF PlaceOK, Drafting
    <3> QED
      BY <2>1, <3>1, <3>2, <3>3, GotoStep DEF threads
  <2>3. CASE holds[i] # {}
    <3>1. PICK k \in holds[i] : holds' = [holds EXCEPT ![i] = @ \ {k}] /\ Ref(i, k, -1, from)
      BY <1>9, <2>3 DEF ReleaseHolds
    <3>2. holds[i] \in SUBSET Consts /\ holds[i] \ {k} \in SUBSET Consts /\ k \in Consts /\ ops' \in [Isolates -> 0..MaxOps]
      BY <1>1, <2>1, <3>1 DEF Types
    <3> QED
      BY <2>1, <3>1, <3>2, HoldsStep
  <2> QED
    BY <2>2, <2>3
<1>10. CASE i \in Workers /\ Return(i)
  BY <1>10, GotoStep DEF Return, Labels, Drafting, Ending, threads
<1>11. CASE i \in Workers /\ ReleaseArgs(i)
  <2>1. pc[i] = "args" /\ i \in Workers /\ UNCHANGED <<holds, draft, kids, callee, parent, errored, reported, journal, ops>>
    BY <1>11 DEF ReleaseArgs
  <2>2. CASE args[i] = <<>>
    BY <1>11, <2>1, <2>2, GotoStep DEF ReleaseArgs, Labels, Drafting, Ending
  <2>3. CASE args[i] # <<>>
    <3> DEFINE a == Head(args[i])
    <3>1. /\ args' = [args EXCEPT ![i] = Tail(@)]
          /\ IF a \in Consts THEN Ref(i, a, -1, "args") ELSE UNCHANGED <<cells, pc, op>>
      BY <1>11, <2>3 DEF ReleaseArgs
    <3>2. args' \in [Workers -> Seq(Kinds)] /\ \A w \in Workers : w # i => args'[w] = args[w]
      BY <1>2, <2>1, <2>3, <3>1, HeadTailProperties
    <3>3. "args" \in Labels \ {"off", "store"} /\ draft' = [draft EXCEPT ![i] = draft[i]]
      BY <1>2, <2>1 DEF Labels
    <3>4. CASE a \in Consts
      <4>1. a \in Cells
        BY <3>4, Constants
      <4> HIDE DEF a
      <4> QED
        BY <1>2, <2>1, <3>1, <3>2, <3>3, <3>4, <4>1, RefStep DEF Drafting, Ending
    <3>5. CASE a \notin Consts
      <4>1. UNCHANGED <<rc, frozen, live, raced, pc, op>>
        BY <3>1, <3>5 DEF cells
      <4>2. OpOK(i)' /\ Drafted(i)' /\ PlaceOK(i)' /\ op[i] = NoOp
        BY <1>1, <2>1, <4>1 DEF OpOK, Drafted, PlaceOK, At
      <4>3. Types'
        BY <1>1, <2>1, <3>2, <4>1 DEF Types
      <4>4. Only(i)
        BY <2>1, <4>1 DEF Only
      <4>5. op'[i].cell \notin Consts
        BY <4>1, <4>2, Constants, Emptiness
      <4> QED
        BY <2>1, <3>2, <4>1, <4>2, <4>3, <4>4, <4>5, QuietStep
    <3> QED
      BY <3>4, <3>5
  <2> QED
    BY <2>2, <2>3
<1>12. CASE Join(i)
  BY <1>12, JoinStep
<1>13. CASE AllJoined(i)
  <2>1. CASE i = Main
    BY <1>13, <2>1, GotoStep DEF AllJoined, Labels, Drafting, Ending, threads
  <2>2. CASE i # Main
    BY <1>13, <2>2, GotoStep DEF AllJoined, Labels, Drafting, Ending, threads
  <2> QED
    BY <2>1, <2>2
<1>14. CASE i = Main /\ Retract
  <2>1. pc[i] = "journal" /\ UNCHANGED <<holds, draft, threads, ops>>
    BY <1>14 DEF Retract
  <2>2. CASE journal = {}
    <3>1. Goto(i, "slots") /\ UNCHANGED <<cells, op, journal>>
      BY <1>14, <2>2 DEF Retract
    <3>2. kids[i] = <<>>
      BY <1>1, <2>1 DEF PlaceOK, Ending
    <3> QED
      BY <2>1, <3>1, <3>2, GotoStep DEF Labels, Drafting, Ending, threads
  <2>3. CASE journal # {}
    <3>1. PICK f \in journal : journal' = journal \ {f} /\ Ref(i, f, -1, "journal")
      BY <1>14, <2>3 DEF Retract
    <3>2. f \in Funcs /\ f \in Cells /\ "journal" \in Labels \ {"off", "store"}
      BY <1>1, <3>1, Constants DEF Types, Labels
    <3>3. draft' = [draft EXCEPT ![i] = draft[i]]
      BY <1>2, <2>1
    <3>4. UNCHANGED <<kids, callee, args, parent, errored, reported>>
      BY <2>1 DEF threads
    <3> QED
      BY <1>2, <1>14, <2>1, <3>1, <3>2, <3>3, <3>4, RefStep DEF Drafting, Ending
  <2> QED
    BY <2>2, <2>3
<1> QED
  BY <1>3, <1>4, <1>5, <1>6, <1>7, <1>8, <1>9, <1>10, <1>11, <1>12, <1>13, <1>14 DEF Proceed

\* The steps the script of an isolate asks for.
LEMMA ScriptControl ==
  ASSUME Control, NEW i \in Isolates, Script(i)
  PROVE  Control'
<1>1. Types
  BY DEF Control
<1>2. ASSUME NEW k \in Consts, LoadConst(i, k) PROVE Control'
  <2>1. /\ pc[i] = "run" /\ Ref(i, k, 1, pc[i]) /\ holds' = [holds EXCEPT ![i] = holds[i] \cup {k}]
        /\ ops[i] < MaxOps /\ ops' = [ops EXCEPT ![i] = @ + 1] /\ UNCHANGED <<draft, threads, journal>>
    BY <1>2 DEF LoadConst, Op
  <2>2. holds[i] \cup {k} \in SUBSET Consts /\ ops' \in [Isolates -> 0..MaxOps]
    <3>1. ops[i] + 1 \in 0..MaxOps
      BY <1>1, <2>1, Constants DEF Types
    <3> QED
      BY <1>1, <2>1, <3>1 DEF Types
  <2>3. UNCHANGED <<draft, threads, journal>> /\ Ref(i, k, 1, pc[i]) /\ pc[i] \in {"run", "unwind", "slots"}
    BY <2>1
  <2> QED
    BY <2>1, <2>2, <2>3, HoldsStep
<1>3. ASSUME NEW k \in Consts, DropConst(i, k) PROVE Control'
  <2>1. /\ pc[i] = "run" /\ Ref(i, k, -1, "run") /\ holds' = [holds EXCEPT ![i] = @ \ {k}]
        /\ UNCHANGED <<draft, threads, journal, ops>>
    BY <1>3 DEF DropConst
  <2>2. holds[i] \ {k} \in SUBSET Consts /\ ops' \in [Isolates -> 0..MaxOps]
    BY <1>1, <2>1 DEF Types
  <2> QED
    BY <2>1, <2>2, HoldsStep
<1>4. ASSUME NEW l \in {"unwind", "args"}, i \in Workers, Die(i, l) PROVE Control'
  BY <1>4, GotoStep DEF Die, Labels, Drafting, Ending
<1> QED
  BY <1>2, <1>3, <1>4, BeginStep DEF Script

\* Every step keeps Control.
LEMMA NextControl == Control /\ [Next]_vars => Control'
<1> SUFFICES ASSUME Control, [Next]_vars PROVE Control'
  OBVIOUS
<1>1. CASE Close
  BY <1>1, Constants, GotoStep DEF Close, Labels, Drafting, Ending, threads
<1>2. CASE UNCHANGED vars
  <2>1. UNCHANGED <<rc, frozen, live, raced, pc, op, holds, draft, kids, callee, args, parent, errored, reported, journal, ops>>
    BY <1>2 DEF vars, cells, threads
  <2>2. Types' /\ Ranked' /\ FrozenOK'
    BY <2>1 DEF Control, Types, Ranked, FrozenOK
  <2>3. ControlOK'
    BY <2>1 DEF Control, ControlOK, OpOK, Drafted, Reserved, PlaceOK, At
  <2>4. TreeOK'
    BY <2>1 DEF Control, TreeOK, KidsOK, WorkerOK
  <2> QED
    BY <2>2, <2>3, <2>4 DEF Control
<1> QED
  BY <1>1, <1>2, ProceedControl, ScriptControl DEF Next

\* Nothing an isolate spawned outlives it, and no error that killed a worker
\* passes in silence (spawn.hpp:6-9).
THEOREM StructuredHolds == Spec => []Structured
<1>1. Control => Structured
  <2> SUFFICES ASSUME Control, NEW w \in Workers, parent[w] # None, pc[parent[w]] \in {"journal", "slots", "gone"}
               PROVE  pc[w] = "gone" /\ (w \in errored => w \in reported)
    BY DEF Structured
  <2>1. WorkerOK(w) /\ parent[w] \in Isolates
    BY DEF Control, TreeOK, Types
  <2>2. kids[parent[w]] = <<>>
    BY <2>1, Here DEF PlaceOK, Ending
  <2> QED
    BY <2>1, <2>2 DEF WorkerOK
<1> QED
  BY <1>1, InitControl, NextControl, PTL DEF Spec

-----------------------------------------------------------------------------
(* References.                                                              *)

Called(f)    == {w \in Workers : callee[w] = f}
Launching(f) == {i \in Isolates : draft[i].f = f /\ At(i) = "launch"}
Holding(k)   == {i \in Isolates : k \in holds[i]}
InBuilt(k)   == [i \in Isolates |-> Occurrences(draft[i].built, k)]
InArgs(k)    == [w \in Workers |-> Occurrences(args[w], k)]

\* The references to a cell, a launch that has its closure still to store
\* included.
Total(c) ==
    IF c \in Funcs
    THEN Cardinality(Called(c)) + Cardinality(Launching(c)) + (IF c \in journal THEN 1 ELSE 0)
    ELSE 1 + Cardinality(Holding(c)) + (SumOf(InBuilt(c)) + SumOf(InArgs(c)))

CountRight(c) ==
    /\ rc[c] \in Nat
    /\ Settled(c) => rc[c] = Total(c)
    /\ \A i \in Isolates : op[i].cell = c => op[i].n = Total(c)
    /\ \A i, j \in Isolates : op[i].cell = c /\ op[j].cell = c => i = j
    /\ Total(c) > 0 => c \in live

CountOK == \A c \in Cells \ raced : CountRight(c)

\* Two threads meet at a function that both spawn.
RaceOK == \A f \in raced : f \in Funcs /\ \E i, j \in Isolates : i # j /\ f \in Spawnable[i] \cap Spawnable[j]

\* The definitions of the program are given up last.
JournalOK == At(Main) \notin Ending => journal = Funcs

Counts == CountOK /\ RaceOK /\ JournalOK

\* The parts of a total are natural numbers,
LEMMA TotalParts ==
  ASSUME Types, NEW c
  PROVE  /\ IsFiniteSet(Called(c)) /\ Cardinality(Called(c)) \in Nat
         /\ IsFiniteSet(Launching(c)) /\ Cardinality(Launching(c)) \in Nat
         /\ IsFiniteSet(Holding(c)) /\ Cardinality(Holding(c)) \in Nat
         /\ InBuilt(c) \in [Isolates -> Nat] /\ SumOf(InBuilt(c)) \in Nat
         /\ InArgs(c) \in [Workers -> Nat] /\ SumOf(InArgs(c)) \in Nat
<1>1. Called(c) \subseteq Workers /\ Launching(c) \subseteq Isolates /\ Holding(c) \subseteq Isolates
  BY DEF Called, Launching, Holding
<1>2. InBuilt(c) \in [Isolates -> Nat]
  <2>1. \A i \in Isolates : Occurrences(draft[i].built, c) \in Nat
    BY OccurrencesType DEF Types, Drafts
  <2> QED
    BY <2>1 DEF InBuilt
<1>3. InArgs(c) \in [Workers -> Nat]
  <2>1. \A w \in Workers : Occurrences(args[w], c) \in Nat
    BY OccurrencesType DEF Types
  <2> QED
    BY <2>1 DEF InArgs
<1>4. /\ IsFiniteSet(Called(c)) /\ Cardinality(Called(c)) \in Nat
      /\ IsFiniteSet(Launching(c)) /\ Cardinality(Launching(c)) \in Nat
      /\ IsFiniteSet(Holding(c)) /\ Cardinality(Holding(c)) \in Nat
  BY <1>1, Constants, FS_Subset, CountSubset
<1>5. SumOf(InBuilt(c)) \in Nat
  BY <1>2, Constants, SumType
<1>6. SumOf(InArgs(c)) \in Nat
  BY <1>3, Constants, SumType
<1> QED
  BY <1>2, <1>3, <1>4, <1>5, <1>6

\* ... and so is the total, which is positive where something holds the cell.
LEMMA TotalType ==
  ASSUME Types, NEW c
  PROVE  /\ Total(c) \in Nat /\ (c \notin Funcs => Total(c) > 0)
         /\ c \in Funcs /\ (c \in journal \/ Called(c) # {}) => Total(c) > 0
<1> DEFINE a == Cardinality(Called(c))
           b == Cardinality(Launching(c))
           h == Cardinality(Holding(c))
           s == SumOf(InBuilt(c))
           u == SumOf(InArgs(c))
<1>1. a \in Nat /\ b \in Nat /\ h \in Nat /\ s \in Nat /\ u \in Nat
  BY TotalParts
<1>2. Called(c) # {} => a # 0
  BY TotalParts, FS_EmptySet
<1>3. Total(c) = IF c \in Funcs THEN a + b + (IF c \in journal THEN 1 ELSE 0) ELSE 1 + h + (s + u)
  BY DEF Total
<1> HIDE DEF a, b, h, s, u
<1> QED
  BY <1>1, <1>2, <1>3

TotalsNat == \A c \in Cells : Total(c) \in Nat

\* The same after a step.
LEMMA TotalNext == Types' => TotalsNat'
<1>1. Types => TotalsNat
  BY TotalType DEF TotalsNat
<1> QED
  BY <1>1, PTL

\* A function that nobody starts to launch, calls or drops keeps its references ...
LEMMA FuncsKept ==
  ASSUME UNCHANGED <<callee, journal>>,
         \A j \in Isolates : /\ At(j)' = "launch" <=> At(j) = "launch"
                             /\ At(j) = "launch" => draft'[j].f = draft[j].f
  PROVE  \A f \in Funcs : Total(f)' = Total(f)
<1>1. ASSUME NEW f \in Funcs PROVE Called(f)' = Called(f) /\ Launching(f)' = Launching(f)
  BY DEF Called, Launching
<1> QED
  BY <1>1 DEF Total

\* ... and so does a constant in the same registers and arguments.
LEMMA ConstsKept ==
  ASSUME UNCHANGED holds,
         \A k \in Consts : /\ \A j \in Isolates : Occurrences(draft'[j].built, k) = Occurrences(draft[j].built, k)
                           /\ \A w \in Workers : Occurrences(args'[w], k) = Occurrences(args[w], k)
  PROVE  \A k \in Consts : Total(k)' = Total(k)
<1>1. ASSUME NEW k \in Consts PROVE Holding(k)' = Holding(k) /\ InBuilt(k)' = InBuilt(k) /\ InArgs(k)' = InArgs(k)
  BY DEF Holding, InBuilt, InArgs
<1>2. \A k \in Consts : k \notin Funcs
  BY Constants
<1> QED
  BY <1>1, <1>2 DEF Total

\* A constant enters a register, or leaves one.
LEMMA HoldingChange ==
  ASSUME Types, NEW i \in Isolates, NEW k \in Consts, NEW d \in {1, -1}, NEW h,
         holds' = [holds EXCEPT ![i] = h],
         \/ d = 1 /\ k \notin holds[i] /\ h = holds[i] \cup {k}
         \/ d = -1 /\ k \in holds[i] /\ h = holds[i] \ {k},
         UNCHANGED <<args, draft>>
  PROVE  Total(k)' = Total(k) + d /\ \A x \in Consts : x # k => Total(x)' = Total(x)
<1>1. \A j \in Isolates : holds'[j] = IF j = i THEN h ELSE holds[j]
  BY DEF Types
<1>2. ASSUME NEW x \in Consts PROVE InBuilt(x)' = InBuilt(x) /\ InArgs(x)' = InArgs(x) /\ x \notin Funcs
  BY Constants DEF InBuilt, InArgs
<1>3. ASSUME NEW x \in Consts, x # k PROVE Total(x)' = Total(x)
  <2>1. Holding(x)' = Holding(x)
    BY <1>1, <1>3 DEF Holding
  <2> QED
    BY <1>2, <2>1 DEF Total
<1>4. Cardinality(Holding(k))' = Cardinality(Holding(k)) + d
  <2>1. CASE d = 1
    <3>1. i \notin Holding(k) /\ Holding(k)' = Holding(k) \cup {i}
      BY <1>1, <2>1 DEF Holding
    <3> QED
      BY <2>1, <3>1, TotalParts, FS_AddElement
  <2>2. CASE d = -1
    <3>1. i \in Holding(k) /\ Holding(k)' = Holding(k) \ {i}
      BY <1>1, <2>2 DEF Holding
    <3>2. Cardinality(Holding(k) \ {i}) = Cardinality(Holding(k)) - 1
      BY <3>1, TotalParts, FS_RemoveElement
    <3> QED
      BY <2>2, <3>1, <3>2, TotalParts
  <2> QED
    BY <2>1, <2>2
<1>5. Total(k)' = Total(k) + d
  <2> DEFINE h0 == Cardinality(Holding(k))
             s == SumOf(InBuilt(k))
             u == SumOf(InArgs(k))
  <2>1. Total(k) = 1 + h0 + (s + u) /\ Total(k)' = 1 + h0' + (s + u)
    BY <1>2 DEF Total
  <2>2. h0 \in Nat /\ s \in Nat /\ u \in Nat /\ h0' = h0 + d
    BY <1>4, TotalParts
  <2> HIDE DEF h0, s, u
  <2> QED
    BY <2>1, <2>2
<1> QED
  BY <1>3, <1>5

\* One occurrence more or less in the draft of an isolate ...
LEMMA BuiltChange ==
  ASSUME Types, Types', NEW i \in Isolates, NEW k \in Consts, NEW d \in {1, -1},
         \A j \in Isolates : j # i => draft'[j] = draft[j],
         \A x \in Consts : Occurrences(draft'[i].built, x) = Occurrences(draft[i].built, x) + IF x = k THEN d ELSE 0,
         UNCHANGED <<holds, args>>
  PROVE  Total(k)' = Total(k) + d /\ \A x \in Consts : x # k => Total(x)' = Total(x)
<1>1. ASSUME NEW x \in Consts PROVE Total(x)' = Total(x) + IF x = k THEN d ELSE 0
  <2> DEFINE h == Cardinality(Holding(x))
             B == InBuilt(x)
             C == InBuilt(x)'
             u == SumOf(InArgs(x))
  <2>1. Holding(x)' = Holding(x) /\ InArgs(x)' = InArgs(x) /\ x \notin Funcs
    BY Constants DEF Holding, InArgs
  <2>2. B \in [Isolates -> Nat] /\ h \in Nat /\ u \in Nat /\ SumOf(B) \in Nat
    BY TotalParts
  <2>3. C \in [Isolates -> Nat]
    <3>1. \A j \in Isolates : Occurrences(draft'[j].built, x) \in Nat
      BY OccurrencesType DEF Types, Drafts
    <3> QED
      BY <3>1 DEF InBuilt
  <2>4. (\A j \in Isolates : j # i => C[j] = B[j]) /\ C[i] = B[i] + IF x = k THEN d ELSE 0
    BY DEF InBuilt
  <2>5. Total(x) = 1 + h + (SumOf(B) + u) /\ Total(x)' = 1 + h + (SumOf(C) + u)
    BY <2>1 DEF Total
  <2> HIDE DEF h, B, C, u
  <2>6. SumOf(C) = SumOf(B) - B[i] + C[i] /\ SumOf(C) \in Nat
    <3>1. i \in Isolates /\ IsFiniteSet(Isolates) /\ B \in [Isolates -> Nat] /\ C \in [Isolates -> Nat]
      BY <2>2, <2>3, Constants
    <3>2. \A j \in Isolates : j # i => C[j] = B[j]
      BY <2>4
    <3> QED
      BY ONLY <3>1, <3>2, SumChange
  <2>7. B[i] \in Nat
    BY <2>2
  <2> QED
    BY <2>2, <2>4, <2>5, <2>6, <2>7
<1>2. Total(k)' = Total(k) + d
  BY <1>1
<1>3. ASSUME NEW x \in Consts, x # k PROVE Total(x)' = Total(x)
  BY <1>1, <1>3, TotalType
<1> QED
  BY <1>2, <1>3

\* ... and in the arguments of a worker.
LEMMA ArgsChange ==
  ASSUME Types, Types', NEW i \in Workers, NEW k \in Consts, NEW d \in {1, -1},
         \A j \in Workers : j # i => args'[j] = args[j],
         \A x \in Consts : Occurrences(args'[i], x) = Occurrences(args[i], x) + IF x = k THEN d ELSE 0,
         UNCHANGED <<holds, draft>>
  PROVE  Total(k)' = Total(k) + d /\ \A x \in Consts : x # k => Total(x)' = Total(x)
<1>1. ASSUME NEW x \in Consts PROVE Total(x)' = Total(x) + IF x = k THEN d ELSE 0
  <2> DEFINE h == Cardinality(Holding(x))
             B == InArgs(x)
             C == InArgs(x)'
             u == SumOf(InBuilt(x))
  <2>1. Holding(x)' = Holding(x) /\ InBuilt(x)' = InBuilt(x) /\ x \notin Funcs
    BY Constants DEF Holding, InBuilt
  <2>2. B \in [Workers -> Nat] /\ h \in Nat /\ u \in Nat /\ SumOf(B) \in Nat
    BY TotalParts
  <2>3. C \in [Workers -> Nat]
    <3>1. \A j \in Workers : Occurrences(args'[j], x) \in Nat
      BY OccurrencesType DEF Types
    <3> QED
      BY <3>1 DEF InArgs
  <2>4. (\A j \in Workers : j # i => C[j] = B[j]) /\ C[i] = B[i] + IF x = k THEN d ELSE 0
    BY DEF InArgs
  <2>5. Total(x) = 1 + h + (u + SumOf(B)) /\ Total(x)' = 1 + h + (u + SumOf(C))
    BY <2>1 DEF Total
  <2> HIDE DEF h, B, C, u
  <2>6. SumOf(C) = SumOf(B) - B[i] + C[i] /\ SumOf(C) \in Nat
    <3>1. i \in Workers /\ IsFiniteSet(Workers) /\ B \in [Workers -> Nat] /\ C \in [Workers -> Nat]
      BY <2>2, <2>3, Constants
    <3>2. \A j \in Workers : j # i => C[j] = B[j]
      BY <2>4
    <3> QED
      BY ONLY <3>1, <3>2, SumChange
  <2>7. B[i] \in Nat
    BY <2>2
  <2> QED
    BY <2>2, <2>4, <2>5, <2>6, <2>7
<1>2. Total(k)' = Total(k) + d
  BY <1>1
<1>3. ASSUME NEW x \in Consts, x # k PROVE Total(x)' = Total(x)
  BY <1>1, <1>3, TotalType
<1> QED
  BY <1>2, <1>3

-----------------------------------------------------------------------------
(* Who else counts the cell.                                                *)

\* Once the program has joined its threads no worker runs: the one highest in
\* the tree would have a spawner that still waits for it.
LEMMA AloneAtEnd ==
  ASSUME Control, At(Main) \in Ending, NEW w \in Workers
  PROVE  pc[w] \in {"off", "gone"}
<1> DEFINE S == {x \in Workers : pc[x] \notin {"off", "gone"}}
<1>1. Types /\ TreeOK /\ ControlOK
  BY DEF Control
<1>2. PICK rank \in [Isolates -> Nat] : \A x \in Workers : parent[x] # None => rank[parent[x]] < rank[x]
  BY DEF Control, Ranked
<1>3. ASSUME NEW x \in S PROVE parent[x] \in S /\ rank[parent[x]] < rank[x]
  <2>1. x \in Workers /\ pc[x] \notin {"off", "gone"} /\ WorkerOK(x)
    BY <1>1 DEF TreeOK
  <2>2. parent[x] # None /\ parent[x] \in Isolates /\ kids[parent[x]] # <<>>
    BY <1>1, <2>1 DEF WorkerOK, Types
  <2>3. At(parent[x]) \notin Ending \cup {"off"}
    BY <1>1, <2>2 DEF ControlOK, PlaceOK
  <2>4. parent[x] \in Workers
    BY <2>2, <2>3 DEF Isolates
  <2>5. pc[parent[x]] \notin {"off", "gone"}
    BY <2>3 DEF At, Ending
  <2> QED
    BY <1>2, <2>1, <2>2, <2>4, <2>5
<1>4. S = {}
  <2> SUFFICES ASSUME S # {} PROVE FALSE
    OBVIOUS
  <2> DEFINE R == {rank[x] : x \in S}
  <2>1. R \in SUBSET Nat /\ R # {}
    BY <1>2, Constants
  <2>2. Min(R) \in R /\ \A y \in R : Min(R) <= y
    BY <2>1, MinLeast
  <2>3. PICK x \in S : Min(R) = rank[x]
    BY <2>2
  <2>4. rank[parent[x]] \in R /\ rank[parent[x]] < rank[x]
    BY <1>3
  <2>5. rank[x] <= rank[parent[x]] /\ rank[x] \in Nat /\ rank[parent[x]] \in Nat
    BY <2>1, <2>2, <2>3, <2>4
  <2> QED
    BY <2>4, <2>5
<1> QED
  BY <1>4

\* Who may retain or release a cell: any thread that runs a constant, the
\* spawners of a function, and the program when all threads have ended.
May(i, c) ==
    \/ c \in Consts
    \/ c \in Spawnable[i] /\ At(i) \notin Ending
    \/ c \in Funcs /\ i = Main /\ At(i) = "journal"

\* A pending store is to a cell its isolate may write.
LEMMA PendingMay ==
  ASSUME Control, NEW j \in Isolates, op[j].cell # None
  PROVE  pc[j] = "store" /\ May(j, op[j].cell) /\ op[j].cell \in Cells /\ op[j].cell \notin frozen
<1>1. pc[j] = "store"
  BY Here, Emptiness
<1>2. OpOK(j) /\ Drafted(j) /\ PlaceOK(j) /\ FrozenOK /\ Types
  BY DEF Control, ControlOK
<1>3. At(j) = op[j].next
  BY <1>1 DEF At
<1>4. May(j, op[j].cell)
  BY <1>1, <1>2, <1>3 DEF OpOK, Drafted, PlaceOK, Drafting, Ending, May
<1>5. op[j].cell \in Cells
  BY <1>4, Constants DEF May
<1>6. op[j].cell \notin frozen
  BY <1>2, <1>4, Constants DEF FrozenOK, May, Types
<1> QED
  BY <1>1, <1>4, <1>5, <1>6

\* While one thread is at a cell, another only has a store of it pending if the
\* cell is a function that both spawn.
LEMMA NobodyElse ==
  ASSUME Control, NEW i \in Isolates, pc[i] # "off", pc[i] # "gone",
         NEW c \in Cells, May(i, c), NEW j \in Isolates, j # i, op[j].cell = c
  PROVE  c \in Funcs /\ c \in Spawnable[i] \cap Spawnable[j]
<1>1. pc[j] = "store" /\ May(j, c) /\ c \notin frozen
  BY PendingMay, Constants
<1>2. FrozenOK
  BY DEF Control
<1>3. CASE c \in Consts
  <2>1. \A w \in Workers : pc[w] = "off"
    BY <1>1, <1>2, <1>3 DEF FrozenOK
  <2> QED
    BY <1>1, <2>1 DEF Isolates
<1>4. CASE c \notin Consts
  <2>1. CASE At(Main) \notin Ending
    BY <1>1, <1>4, <2>1 DEF May, Ending, Cells
  <2>2. CASE At(Main) \in Ending
    <3>1. \A w \in Workers : pc[w] \in {"off", "gone"}
      BY <2>2, AloneAtEnd
    <3> QED
      BY <1>1, <3>1 DEF Isolates
  <2> QED
    BY <2>1, <2>2
<1> QED
  BY <1>3, <1>4

-----------------------------------------------------------------------------
(* A step and the counts.                                                   *)

\* A retain or a release that goes with one reference more or less.
LEMMA RefCounts ==
  ASSUME Control, Control', Counts, NEW i \in Isolates, pc[i] \notin {"store", "off", "gone"},
         NEW c \in Cells, NEW d \in {1, -1}, NEW l \in Labels, l # "store", Ref(i, c, d, l),
         May(i, c), d = 1 => c \in Consts \/ pc[i] \notin Ending,
         Total(c)' = Total(c) + d, \A x \in Cells : x # c => Total(x)' = Total(x),
         journal' = journal \/ (i = Main /\ l \in Ending), pc[i] \in Ending => l \in Ending
  PROVE  Counts'
<1>1. Types /\ Types' /\ op[i] = NoOp /\ At(i) = pc[i]
  BY Here DEF Control
<1>2. /\ frozen' = frozen
      /\ \A j \in Isolates : j # i => pc'[j] = pc[j] /\ op'[j] = op[j]
      /\ At(i)' = l
      /\ \/ pc'[i] = l /\ op'[i] = NoOp
         \/ pc'[i] = "store" /\ op'[i].cell = c /\ op'[i].next = l /\ c \notin frozen
  BY <1>1, RefMoves
<1>3. op[i].cell \notin Cells /\ raced' = raced \cup ({c} \cap Pending)
  BY <1>1, Constants, Emptiness DEF Ref
<1>4. RaceOK'
  <2>1. ASSUME c \in Pending
        PROVE  c \in Funcs /\ \E a, b \in Isolates : a # b /\ c \in Spawnable[a] \cap Spawnable[b]
    <3>1. PICK j \in Isolates : op[j].cell = c
      BY <2>1 DEF Pending
    <3>2. j # i
      BY <1>3, <3>1
    <3>3. c \in Funcs /\ c \in Spawnable[i] \cap Spawnable[j]
      BY <3>1, <3>2, NobodyElse
    <3> QED
      BY <3>2, <3>3
  <2> QED
    BY <1>3, <2>1 DEF Counts, RaceOK
<1>5. JournalOK'
  <2>1. At(Main) \in Ending => At(Main)' \in Ending
    BY <1>1, <1>2, Constants DEF At
  <2> QED
    BY <1>2, <2>1 DEF Counts, JournalOK
<1>6. ASSUME NEW x \in Cells \ raced', x # c PROVE CountRight(x)'
  <2>1. CountRight(x) /\ Total(x)' = Total(x)
    BY <1>3, <1>6 DEF Counts, CountOK
  <2>2. rc'[x] = rc[x] /\ (x \in live => x \in live')
    BY <1>1, <1>6 DEF Ref, Types
  <2>3. op[i].cell # x /\ op'[i].cell # x
    BY <1>2, <1>3, <1>6, Constants, Emptiness
  <2>4. Settled(x)' => Settled(x)
    BY <1>2, <2>3 DEF Settled
  <2> QED
    BY <1>2, <2>1, <2>2, <2>3, <2>4 DEF CountRight
<1>7. ASSUME c \notin raced' PROVE CountRight(c)'
  <2>1. \A j \in Isolates : op[j].cell # c
    BY <1>3, <1>7 DEF Pending
  <2>2. CountRight(c) /\ rc[c] = Total(c)
    BY <1>3, <1>7, <2>1 DEF Counts, CountOK, CountRight, Settled
  <2>3. Total(c)' \in Nat /\ Total(c) \in Nat
    BY <1>1, TotalType, TotalNext DEF TotalsNat
  <2>4. Total(c) > 0
    <3>1. CASE d = -1
      BY <2>3, <3>1
    <3>2. CASE c \in Consts
      BY <1>1, <3>2, Constants, TotalType
    <3>3. CASE c \notin Consts /\ pc[i] \notin Ending
      <4>1. At(Main) \notin Ending
        BY <1>1, <3>3, AloneAtEnd DEF Isolates
      <4>2. c \in Funcs /\ c \in journal
        BY <3>3, <4>1 DEF Counts, JournalOK, Cells
      <4> QED
        BY <1>1, <4>2, TotalType
    <3> QED
      BY <3>1, <3>2, <3>3
  <2>5. c \in live
    BY <2>2, <2>4 DEF CountRight
  <2>6. CASE c \in frozen
    <3>1. /\ rc' = [rc EXCEPT ![c] = @ + d] /\ live' = (IF rc[c] + d = 0 THEN live \ {c} ELSE live)
          /\ op' = op
      BY <2>6 DEF Ref
    <3>2. rc'[c] = Total(c)'
      BY <1>1, <2>2, <3>1 DEF Types
    <3>3. Total(c)' > 0 => c \in live'
      BY <2>2, <2>3, <2>5, <3>1
    <3> QED
      BY <2>1, <2>3, <3>1, <3>2, <3>3 DEF CountRight
  <2>7. CASE c \notin frozen
    <3>1. rc' = rc /\ live' = live /\ op' = [op EXCEPT ![i] = [cell |-> c, n |-> rc[c] + d, next |-> l]]
      BY <2>7 DEF Ref
    <3>2. op'[i].cell = c /\ op'[i].n = Total(c)' /\ \A j \in Isolates : j # i => op'[j].cell # c
      BY <1>1, <2>1, <2>2, <3>1 DEF Types
    <3>3. ~Settled(c)' /\ rc'[c] \in Nat
      BY <2>2, <3>1, <3>2 DEF Settled, CountRight
    <3> QED
      BY <2>5, <3>1, <3>2, <3>3 DEF CountRight
  <2> QED
    BY <2>6, <2>7
<1>8. CountOK'
  BY <1>6, <1>7 DEF CountOK
<1> QED
  BY <1>4, <1>5, <1>8 DEF Counts

\* A step that takes no reference and moves none from one cell to another.
LEMMA QuietCounts ==
  ASSUME Counts, UNCHANGED <<rc, live, raced, op, journal>>, \A x \in Cells : Total(x)' = Total(x),
         At(Main) \in Ending => At(Main)' \in Ending
  PROVE  Counts'
<1>1. CountOK'
  BY DEF Counts, CountOK, CountRight, Settled
<1>2. RaceOK'
  BY DEF Counts, RaceOK
<1>3. JournalOK'
  BY DEF Counts, JournalOK
<1> QED
  BY <1>1, <1>2, <1>3 DEF Counts

\* The functions are untouched by an isolate that neither comes to a launch nor
\* leaves one.
LEMMA MovesKeep ==
  ASSUME NEW i \in Isolates, \A j \in Isolates : j # i => pc'[j] = pc[j] /\ op'[j] = op[j] /\ draft'[j] = draft[j],
         At(i) # "launch", At(i)' # "launch", UNCHANGED <<callee, journal>>
  PROVE  \A f \in Funcs : Total(f)' = Total(f)
<1>1. ASSUME NEW j \in Isolates
      PROVE  (At(j)' = "launch" <=> At(j) = "launch") /\ (At(j) = "launch" => draft'[j].f = draft[j].f)
  <2>1. CASE j = i
    BY <2>1
  <2>2. CASE j # i
    BY <2>2 DEF At
  <2> QED
    BY <2>1, <2>2
<1> QED
  BY <1>1, FuncsKept

\* The pending store gives the cell the count it has.
LEMMA StoreCounts ==
  ASSUME Control, Counts, NEW i \in Isolates, StoreWord(i)
  PROVE  Counts'
<1> DEFINE c == op[i].cell
<1>1. c \in Cells /\ At(i)' = At(i) /\ Types
  BY StoreStep DEF Control
<1>2. /\ pc[i] = "store" /\ rc' = [rc EXCEPT ![c] = op[i].n]
      /\ live' = (IF op[i].n = 0 THEN live \ {c} ELSE live)
      /\ op' = [op EXCEPT ![i] = NoOp] /\ pc' = [pc EXCEPT ![i] = op[i].next]
      /\ UNCHANGED <<raced, holds, draft, callee, args, journal>>
  BY DEF StoreWord, Goto, threads
<1>3. \A j \in Isolates : j # i => pc'[j] = pc[j] /\ op'[j] = op[j]
  BY <1>1, <1>2 DEF Types
<1>4. op'[i].cell = None
  BY <1>1, <1>2, Emptiness DEF Types
<1>5. ASSUME NEW j \in Isolates PROVE At(j)' = At(j)
  BY <1>1, <1>3 DEF At
<1>6. \A f \in Funcs : Total(f)' = Total(f)
  BY <1>2, <1>5, FuncsKept
<1>7. \A k \in Consts : Total(k)' = Total(k)
  BY <1>2, ConstsKept
<1>8. \A x \in Cells : Total(x)' = Total(x)
  BY <1>6, <1>7 DEF Cells
<1> HIDE DEF c
<1>9. ASSUME NEW x \in Cells \ raced PROVE CountRight(x)'
  <2>1. CountRight(x) /\ Total(x) \in Nat
    BY <1>1, TotalType DEF Counts, CountOK
  <2>2. CASE x = c
    <3>1. op[i].n = Total(x) /\ \A j \in Isolates : j # i => op[j].cell # x
      BY <2>1, <2>2 DEF CountRight, c
    <3>2. \A j \in Isolates : op'[j].cell # x
      BY <1>3, <1>4, <3>1, Constants
    <3>3. rc'[x] = Total(x)'
      BY <1>1, <1>2, <1>8, <2>2, <3>1 DEF Types
    <3>4. Total(x)' > 0 => x \in live'
      BY <1>2, <1>8, <2>1, <3>1 DEF CountRight
    <3> QED
      BY <1>8, <2>1, <3>2, <3>3, <3>4 DEF CountRight
  <2>3. CASE x # c
    <3>1. rc'[x] = rc[x] /\ (x \in live => x \in live')
      BY <1>1, <1>2, <2>3 DEF Types
    <3>2. Settled(x)' => Settled(x)
      BY <1>3, <2>3 DEF Settled, c
    <3> QED
      BY <1>3, <1>4, <1>8, <2>1, <3>1, <3>2, Constants DEF CountRight
  <2> QED
    BY <2>2, <2>3
<1>10. CountOK'
  BY <1>2, <1>9 DEF CountOK
<1>11. RaceOK'
  BY <1>2 DEF Counts, RaceOK
<1>12. JournalOK'
  BY <1>2, <1>5, Constants DEF Counts, JournalOK
<1> QED
  BY <1>10, <1>11, <1>12 DEF Counts

\* A retain or a release of a constant.
LEMMA ConstCounts ==
  ASSUME Control, Control', Counts, NEW i \in Isolates, pc[i] \notin {"store", "off", "gone", "launch"},
         NEW k \in Consts, NEW d \in {1, -1}, NEW l \in Labels, l \notin {"store", "launch"}, Ref(i, k, d, l),
         UNCHANGED <<callee, journal>>, \A j \in Isolates : j # i => draft'[j] = draft[j],
         Total(k)' = Total(k) + d, \A x \in Consts : x # k => Total(x)' = Total(x),
         pc[i] \in Ending => l \in Ending
  PROVE  Counts'
<1>1. k \in Cells /\ Types /\ op[i] = NoOp /\ At(i) = pc[i]
  BY Constants, Here
<1>2. (\A j \in Isolates : j # i => pc'[j] = pc[j] /\ op'[j] = op[j]) /\ At(i)' = l
  BY <1>1, RefMoves
<1>3. \A f \in Funcs : Total(f)' = Total(f)
  BY <1>1, <1>2, MovesKeep
<1>4. \A x \in Cells : x # k => Total(x)' = Total(x)
  BY <1>3 DEF Cells
<1>5. May(i, k)
  BY DEF May
<1> QED
  BY <1>1, <1>4, <1>5, RefCounts

\* A step that takes and gives back nothing, of an isolate that does not launch.
LEMMA PlainCounts ==
  ASSUME Control, Counts, NEW i \in Isolates, pc[i] \notin {"store", "launch"},
         NEW l \in Labels, l \notin {"store", "launch"}, pc' = [pc EXCEPT ![i] = l],
         UNCHANGED <<rc, live, raced, op, holds, callee, journal>>,
         \A j \in Isolates : j # i => draft'[j] = draft[j],
         \A x \in Consts : /\ Occurrences(draft'[i].built, x) = Occurrences(draft[i].built, x)
                           /\ \A w \in Workers : Occurrences(args'[w], x) = Occurrences(args[w], x),
         pc[i] \in Ending => l \in Ending
  PROVE  Counts'
<1>1. At(i) = pc[i] /\ Types
  BY Here
<1>2. pc'[i] = l /\ \A j \in Isolates : j # i => pc'[j] = pc[j]
  BY <1>1 DEF Types
<1>3. At(i)' = l
  BY <1>2 DEF At
<1>4. \A f \in Funcs : Total(f)' = Total(f)
  BY <1>1, <1>2, <1>3, MovesKeep
<1>5. \A x \in Consts : Total(x)' = Total(x)
  <2>1. \A x \in Consts : \A j \in Isolates : Occurrences(draft'[j].built, x) = Occurrences(draft[j].built, x)
    OBVIOUS
  <2> QED
    BY <2>1, ConstsKept
<1>6. \A x \in Cells : Total(x)' = Total(x)
  BY <1>4, <1>5 DEF Cells
<1>7. At(Main) \in Ending => At(Main)' \in Ending
  <2>1. CASE i = Main
    BY <1>1, <1>3, <2>1
  <2>2. CASE i # Main
    BY <1>2, <2>2, Constants DEF At
  <2> QED
    BY <2>1, <2>2
<1> QED
  BY <1>6, <1>7, QuietCounts

\* A script takes or drops a constant, or the end of an isolate releases one.
LEMMA HoldsCounts ==
  ASSUME Control, Control', Counts, NEW i \in Isolates, pc[i] \in {"run", "unwind", "slots"},
         NEW k \in Consts, NEW d \in {1, -1}, NEW h, Ref(i, k, d, pc[i]), holds' = [holds EXCEPT ![i] = h],
         \/ d = 1 /\ k \notin holds[i] /\ h = holds[i] \cup {k}
         \/ d = -1 /\ k \in holds[i] /\ h = holds[i] \ {k},
         UNCHANGED <<draft, threads, journal>>
  PROVE  Counts'
<1>1. Types /\ UNCHANGED <<args, callee>>
  BY DEF Control, threads
<1>2. Total(k)' = Total(k) + d /\ \A x \in Consts : x # k => Total(x)' = Total(x)
  BY <1>1, HoldingChange
<1>3. pc[i] \in Labels
  BY DEF Labels
<1> QED
  BY <1>1, <1>2, <1>3, ConstCounts

\* spawn begins, with nothing built.
LEMMA BeginCounts ==
  ASSUME Control, Counts, NEW i \in Isolates, NEW f \in Funcs, NEW as \in Arguments, NEW w \in Workers,
         SpawnBegin(i, f, as, w)
  PROVE  Counts'
<1>1. /\ pc[i] = "run" /\ draft' = [draft EXCEPT ![i] = [f |-> f, w |-> w, want |-> as, built |-> <<>>]]
      /\ pc' = [pc EXCEPT ![i] = "transfer"] /\ UNCHANGED <<rc, live, op, holds, callee, args, journal>>
  BY DEF SpawnBegin, Op, Goto, threads
<1>2. draft[i] = NoDraft /\ raced' = raced /\ Types
  BY BeginStep DEF Control
<1>3. draft'[i].built = <<>> /\ draft[i].built = <<>> /\ \A j \in Isolates : j # i => draft'[j] = draft[j]
  BY <1>1, <1>2 DEF Types, NoDraft
<1>4. "transfer" \in Labels
  BY DEF Labels
<1> QED
  BY <1>1, <1>2, <1>3, <1>4, PlainCounts DEF Ending

\* An argument more is transferred.
LEMMA TransferCounts ==
  ASSUME Control, Control', Counts, NEW i \in Isolates, Transfer(i)
  PROVE  Counts'
<1> DEFINE a == Head(draft[i].want)
           e == IF a \in frozen THEN a ELSE "copy"
<1>1. /\ pc[i] = "transfer" /\ draft[i].want # <<>>
      /\ draft' = [draft EXCEPT ![i] = [draft[i] EXCEPT !.want = Tail(draft[i].want), !.built = Append(draft[i].built, e)]]
      /\ IF a \in frozen THEN Ref(i, a, 1, "transfer") ELSE UNCHANGED <<cells, pc, op>>
      /\ UNCHANGED <<holds, kids, callee, args, parent, errored, reported, journal, ops>>
  <2>1. draft \in [Isolates -> Drafts] /\ draft[i] \in Drafts
    BY DEF Control, Types
  <2> QED
    BY <2>1 DEF Transfer, threads
<1>2. Types /\ Types' /\ draft[i] \in Drafts
  BY DEF Control, Types
<1>3. (\A j \in Isolates : j # i => draft'[j] = draft[j]) /\ draft'[i].built = Append(draft[i].built, e)
  BY <1>1, <1>2 DEF Types, Drafts
<1>4. draft[i].built \in Seq(Kinds) /\ a \in Kinds /\ e \in Kinds
  <2>1. draft[i].want \in Seq(Kinds) /\ draft[i].built \in Seq(Kinds)
    BY <1>2 DEF Drafts
  <2>2. a \in Kinds
    BY <1>1, <2>1, HeadTailProperties
  <2> QED
    BY <2>1, <2>2, Constants
<1>5. "transfer" \in Labels
  BY DEF Labels
<1> HIDE DEF a, e
<1>6. ASSUME NEW x \in Consts
      PROVE  /\ Occurrences(draft'[i].built, x) = Occurrences(draft[i].built, x) + IF e = x THEN 1 ELSE 0
             /\ Occurrences(draft[i].built, x) \in Nat
  <2>1. Occurrences(Append(draft[i].built, e), x) = Occurrences(draft[i].built, x) + IF e = x THEN 1 ELSE 0
    BY <1>4, OccurrencesAppend
  <2>2. Occurrences(draft[i].built, x) \in Nat
    BY <1>4, OccurrencesType
  <2> QED
    BY <1>3, <2>1, <2>2
<1>7. CASE a \in frozen
  <2>1. a \in Consts /\ e = a
    BY <1>2, <1>7 DEF Types, e
  <2>2. \A x \in Consts : Occurrences(draft'[i].built, x) = Occurrences(draft[i].built, x) + IF x = a THEN 1 ELSE 0
    BY <1>6, <2>1
  <2>3. UNCHANGED <<holds, args>> /\ UNCHANGED <<callee, journal>> /\ Ref(i, a, 1, "transfer")
    BY <1>1, <1>7
  <2> HIDE DEF e
  <2> QED
    <3>1. PICK k \in Consts : k = a
      BY <2>1
    <3>2. Total(k)' = Total(k) + 1 /\ \A x \in Consts : x # k => Total(x)' = Total(x)
      BY <1>2, <1>3, <2>2, <2>3, <3>1, BuiltChange
    <3> QED
      BY <1>1, <1>3, <1>5, <2>3, <3>1, <3>2, ConstCounts DEF Ending
<1>8. CASE a \notin frozen
  <2>1. e \notin Consts
    BY <1>8, Constants DEF e
  <2>2. \A x \in Consts : Occurrences(draft'[i].built, x) = Occurrences(draft[i].built, x)
    BY <1>6, <2>1
  <2>3. UNCHANGED <<rc, live, raced, op>> /\ pc' = [pc EXCEPT ![i] = "transfer"]
    BY <1>1, <1>2, <1>8 DEF cells, Types
  <2> QED
    BY <1>1, <1>3, <1>5, <2>2, <2>3, PlainCounts DEF Ending
<1> QED
  BY <1>7, <1>8

\* What was built is released, one argument after another.
LEMMA UndoCounts ==
  ASSUME Control, Control', Counts, NEW i \in Isolates, Undo(i)
  PROVE  Counts'
<1> DEFINE a == Head(draft[i].built)
<1>1. pc[i] = "undo" /\ UNCHANGED <<holds, callee, args, journal>>
  BY DEF Undo, threads
<1>2. Types /\ Types' /\ draft \in [Isolates -> Drafts] /\ draft[i] \in Drafts /\ "undo" \in Labels /\ "run" \in Labels
  BY DEF Control, Types, Labels
<1>3. CASE draft[i].built = <<>>
  <2>1. draft' = [draft EXCEPT ![i] = NoDraft] /\ pc' = [pc EXCEPT ![i] = "run"] /\ UNCHANGED <<rc, live, raced, op>>
    BY <1>3 DEF Undo, Goto, cells
  <2>2. draft'[i].built = draft[i].built /\ \A j \in Isolates : j # i => draft'[j] = draft[j]
    BY <1>2, <1>3, <2>1 DEF NoDraft
  <2> QED
    BY <1>1, <1>2, <2>1, <2>2, PlainCounts DEF Ending
<1>4. CASE draft[i].built # <<>>
  <2>1. /\ draft' = [draft EXCEPT ![i] = [draft[i] EXCEPT !.built = Tail(@)]]
        /\ IF a \in Consts THEN Ref(i, a, -1, "undo") ELSE UNCHANGED <<cells, pc, op>>
    BY <1>2, <1>4 DEF Undo
  <2>2. draft'[i].built = Tail(draft[i].built) /\ \A j \in Isolates : j # i => draft'[j] = draft[j]
    BY <1>2, <2>1 DEF Drafts
  <2>3. draft[i].built \in Seq(Kinds) /\ Tail(draft[i].built) \in Seq(Kinds)
    <3>1. draft[i].built \in Seq(Kinds)
      BY <1>2 DEF Drafts
    <3> QED
      BY <1>4, <3>1, HeadTailProperties
  <2> HIDE DEF a
  <2>4. \A x \in Consts :
            /\ Occurrences(draft[i].built, x) = (IF a = x THEN 1 ELSE 0) + Occurrences(draft'[i].built, x)
            /\ Occurrences(draft'[i].built, x) \in Nat
    BY <1>4, <2>2, <2>3, OccurrencesTail, OccurrencesType DEF a
  <2>5. CASE a \in Consts
    <3>1. \A x \in Consts : Occurrences(draft'[i].built, x) = Occurrences(draft[i].built, x) + IF x = a THEN -1 ELSE 0
      BY <2>4
    <3>2. PICK k \in Consts : k = a
      BY <2>5
    <3>3. UNCHANGED <<holds, args>> /\ UNCHANGED <<callee, journal>> /\ Ref(i, k, -1, "undo")
      BY <1>1, <2>1, <2>5, <3>2
    <3>4. Total(k)' = Total(k) + -1 /\ \A x \in Consts : x # k => Total(x)' = Total(x)
      BY <1>2, <2>2, <3>1, <3>2, <3>3, BuiltChange
    <3> QED
      BY <1>1, <1>2, <2>2, <3>3, <3>4, ConstCounts DEF Ending
  <2>6. CASE a \notin Consts
    <3>1. \A x \in Consts : Occurrences(draft'[i].built, x) = Occurrences(draft[i].built, x)
      BY <2>4, <2>6
    <3>2. UNCHANGED <<rc, live, raced, op>> /\ pc' = [pc EXCEPT ![i] = "undo"]
      BY <1>1, <1>2, <2>1, <2>6 DEF cells, Types
    <3> QED
      BY <1>1, <1>2, <2>2, <3>1, <3>2, PlainCounts DEF Ending
  <2> QED
    BY <2>5, <2>6
<1> QED
  BY <1>3, <1>4

\* The closure is kept for the worker.
LEMMA RetainCounts ==
  ASSUME Control, Control', Counts, NEW i \in Isolates, RetainCallee(i), NEW f, f = draft[i].f
  PROVE  Counts'
<1>1. /\ pc[i] = "transfer" /\ Ref(i, f, 1, "launch")
      /\ UNCHANGED <<holds, draft, callee, args, journal>>
  BY DEF RetainCallee, KeepCallee, threads
<1>2. Types /\ op[i] = NoOp /\ At(i) = "transfer" /\ f \in Spawnable[i] /\ f \in Funcs /\ f \in Cells /\ "launch" \in Labels
  BY <1>1, Here, Constants DEF Drafted, Drafting, Labels
<1>3. (\A j \in Isolates : j # i => pc'[j] = pc[j] /\ op'[j] = op[j]) /\ At(i)' = "launch"
  BY <1>1, <1>2, RefMoves
<1>4. \A j \in Isolates : j # i => At(j)' = At(j)
  BY <1>3 DEF At
<1>5. ASSUME NEW g \in Funcs
      PROVE  Called(g)' = Called(g) /\ Launching(g)' = (IF g = f THEN Launching(g) \cup {i} ELSE Launching(g))
  BY <1>1, <1>3, <1>4 DEF Called, Launching
<1>6. i \notin Launching(f)
  BY <1>2 DEF Launching
<1>7. Total(f)' = Total(f) + 1
  <2> DEFINE m == Cardinality(Called(f))
             n == Cardinality(Launching(f))
             z == IF f \in journal THEN 1 ELSE 0
  <2>1. m \in Nat /\ n \in Nat /\ m' = m /\ n' = n + 1 /\ z' = z
    <3>1. IsFiniteSet(Launching(f)) /\ n \in Nat /\ m \in Nat
      BY <1>2, TotalParts
    <3>2. Cardinality(Launching(f) \cup {i}) = n + 1
      BY <1>6, <3>1, FS_AddElement
    <3> QED
      BY <1>1, <1>2, <1>5, <3>1, <3>2
  <2>2. Total(f) = m + n + z /\ Total(f)' = m' + n' + z'
    BY <1>2 DEF Total
  <2> HIDE DEF m, n
  <2> QED
    BY <2>1, <2>2
<1>8. \A k \in Consts : Total(k)' = Total(k)
  BY <1>1, ConstsKept
<1>9. \A x \in Cells : x # f => Total(x)' = Total(x)
  <2>1. ASSUME NEW g \in Funcs, g # f PROVE Total(g)' = Total(g)
    BY <1>1, <1>5, <2>1 DEF Total
  <2> QED
    BY <1>8, <2>1 DEF Cells
<1>10. May(i, f)
  BY <1>2 DEF May, Ending
<1> QED
  BY <1>1, <1>2, <1>7, <1>9, <1>10, RefCounts DEF Ending

\* The worker starts: the references of its draft become its own.
LEMMA LaunchCounts ==
  ASSUME Control, Control', Counts, NEW i \in Isolates, Launch(i), NEW w, w = draft[i].w, NEW f, f = draft[i].f
  PROVE  Counts'
<1>1. Types /\ Types' /\ op[i] = NoOp /\ pc[i] = "launch" /\ At(i) = "launch" /\ f \in Funcs /\ w \in Workers
  BY Here, Constants DEF Launch, Drafted, Drafting, Control
<1>2. /\ callee' = [callee EXCEPT ![w] = f] /\ args' = [args EXCEPT ![w] = draft[i].built]
      /\ pc' = [pc EXCEPT ![i] = "run", ![w] = "run"] /\ draft' = [draft EXCEPT ![i] = NoDraft]
      /\ UNCHANGED <<rc, live, raced, op, holds, journal>>
  BY DEF Launch, cells
<1>3. pc[w] = "off" /\ w \in Isolates /\ w # i /\ callee[w] = None /\ args[w] = <<>>
  <2>1. pc[w] = "off" /\ w \in Isolates
    BY <1>1, Constants DEF Control, ControlOK, Reserved
  <2> QED
    BY <1>1, <2>1 DEF Control, TreeOK, WorkerOK
<1>4. ASSUME NEW j \in Isolates
      PROVE  /\ pc'[j] = (IF j \in {i, w} THEN "run" ELSE pc[j]) /\ op'[j] = op[j]
             /\ draft'[j] = (IF j = i THEN NoDraft ELSE draft[j])
  BY <1>1, <1>2 DEF Types
<1>5. ASSUME NEW x \in Workers
      PROVE  callee'[x] = (IF x = w THEN f ELSE callee[x]) /\ args'[x] = (IF x = w THEN draft[i].built ELSE args[x])
  BY <1>1, <1>2 DEF Types
<1>6. At(i)' = "run" /\ At(w)' = "run" /\ At(w) = "off" /\ \A j \in Isolates \ {i, w} : At(j)' = At(j)
  BY <1>1, <1>3, <1>4 DEF At
<1>7. ASSUME NEW g \in Funcs
      PROVE  /\ Called(g)' = (IF g = f THEN Called(g) \cup {w} ELSE Called(g))
             /\ Launching(g)' = (IF g = f THEN Launching(g) \ {i} ELSE Launching(g))
  <2>1. g # None /\ NoDraft.f = None
    BY Constants, Emptiness
  <2>2. Called(g)' = IF g = f THEN Called(g) \cup {w} ELSE Called(g)
    BY <1>1, <1>3, <1>5, <2>1 DEF Called
  <2>3. Launching(g)' = IF g = f THEN Launching(g) \ {i} ELSE Launching(g)
    BY <1>1, <1>3, <1>4, <1>6, <2>1 DEF Launching
  <2> QED
    BY <2>2, <2>3
<1>8. w \notin Called(f) /\ i \in Launching(f)
  BY <1>1, <1>3, Constants DEF Called, Launching
<1>9. ASSUME NEW g \in Funcs PROVE Total(g)' = Total(g)
  <2>1. CASE g = f
    <3> DEFINE m == Cardinality(Called(f))
               n == Cardinality(Launching(f))
               z == IF f \in journal THEN 1 ELSE 0
    <3>1. IsFiniteSet(Called(f)) /\ IsFiniteSet(Launching(f)) /\ m \in Nat /\ n \in Nat /\ z \in Nat
      BY <1>1, TotalParts
    <3>2. Cardinality(Called(f) \cup {w}) = m + 1
      BY <1>8, <3>1, FS_AddElement
    <3>3. Cardinality(Launching(f) \ {i}) = n - 1
      BY <1>8, <3>1, FS_RemoveElement
    <3>4. m' = m + 1 /\ n' = n - 1 /\ z' = z
      BY <1>1, <1>2, <1>7, <3>2, <3>3
    <3>5. Total(f) = m + n + z /\ Total(f)' = m' + n' + z'
      BY <1>1 DEF Total
    <3> HIDE DEF m, n, z
    <3> QED
      BY <2>1, <3>1, <3>4, <3>5
  <2>2. CASE g # f
    BY <1>2, <1>7, <2>2 DEF Total
  <2> QED
    BY <2>1, <2>2
<1>10. ASSUME NEW k \in Consts PROVE Total(k)' = Total(k)
  <2> DEFINE h == Cardinality(Holding(k))
             A == InArgs(k)
             C == InArgs(k)'
             B == InBuilt(k)
             D == InBuilt(k)'
  <2>1. Holding(k)' = Holding(k) /\ k \notin Funcs
    BY <1>2, Constants DEF Holding
  <2>2. A \in [Workers -> Nat] /\ B \in [Isolates -> Nat] /\ h \in Nat
    BY <1>1, TotalParts
  <2>3. C \in [Workers -> Nat]
    <3>1. \A x \in Workers : Occurrences(args'[x], k) \in Nat
      BY <1>1, OccurrencesType DEF Types
    <3> QED
      BY <3>1 DEF InArgs
  <2>4. D \in [Isolates -> Nat]
    <3>1. \A j \in Isolates : Occurrences(draft'[j].built, k) \in Nat
      BY <1>1, OccurrencesType DEF Types, Drafts
    <3> QED
      BY <3>1 DEF InBuilt
  <2>5. A[w] = 0 /\ C[w] = B[i] /\ \A x \in Workers : x # w => C[x] = A[x]
    <3>1. A[w] = 0 /\ C[w] = B[i]
      BY <1>1, <1>3, <1>5, OccurrencesNone DEF InArgs, InBuilt
    <3>2. \A x \in Workers : x # w => C[x] = A[x]
      BY <1>5 DEF InArgs
    <3> QED
      BY <3>1, <3>2
  <2>6. D[i] = 0 /\ \A j \in Isolates : j # i => D[j] = B[j]
    <3>1. NoDraft.built = <<>>
      BY DEF NoDraft
    <3>2. D[i] = 0
      BY <1>4, <3>1, OccurrencesNone DEF InBuilt
    <3>3. \A j \in Isolates : j # i => D[j] = B[j]
      BY <1>4 DEF InBuilt
    <3> QED
      BY <3>2, <3>3
  <2>7. Total(k) = 1 + h + (SumOf(B) + SumOf(A)) /\ Total(k)' = 1 + h + (SumOf(D) + SumOf(C))
    BY <2>1 DEF Total
  <2> HIDE DEF h, A, B, C, D
  <2>8. SumOf(C) = SumOf(A) - A[w] + C[w] /\ SumOf(A) \in Nat /\ SumOf(C) \in Nat
    <3>1. w \in Workers /\ IsFiniteSet(Workers) /\ A \in [Workers -> Nat] /\ C \in [Workers -> Nat]
      BY <1>1, <2>2, <2>3, Constants
    <3>2. \A x \in Workers : x # w => C[x] = A[x]
      BY <2>5
    <3> QED
      BY ONLY <3>1, <3>2, SumChange
  <2>9. SumOf(D) = SumOf(B) - B[i] + D[i] /\ SumOf(B) \in Nat /\ SumOf(D) \in Nat
    <3>1. i \in Isolates /\ IsFiniteSet(Isolates) /\ B \in [Isolates -> Nat] /\ D \in [Isolates -> Nat]
      BY <2>2, <2>4, Constants
    <3>2. \A j \in Isolates : j # i => D[j] = B[j]
      BY <2>6
    <3> QED
      BY ONLY <3>1, <3>2, SumChange
  <2>10. B[i] \in Nat
    BY <2>2
  <2> QED
    BY <2>2, <2>5, <2>6, <2>7, <2>8, <2>9, <2>10
<1>11. \A x \in Cells : Total(x)' = Total(x)
  BY <1>9, <1>10 DEF Cells
<1>12. At(Main) \in Ending => At(Main)' \in Ending
  BY <1>1, <1>6, Constants DEF Ending
<1> QED
  BY <1>2, <1>11, <1>12, QuietCounts

\* The arguments of a worker are released, one after another.
LEMMA ArgsCounts ==
  ASSUME Control, Control', Counts, NEW i \in Workers, ReleaseArgs(i)
  PROVE  Counts'
<1> DEFINE a == Head(args[i])
<1>1. pc[i] = "args" /\ UNCHANGED <<holds, draft, callee, journal>> /\ i \in Isolates
  BY Constants DEF ReleaseArgs
<1>2. Types /\ Types' /\ args[i] \in Seq(Kinds) /\ "args" \in Labels /\ "join" \in Labels
  BY DEF Control, Types, Labels
<1>3. CASE args[i] = <<>>
  <2>1. pc' = [pc EXCEPT ![i] = "join"] /\ UNCHANGED <<rc, live, raced, op, args>>
    BY <1>3 DEF ReleaseArgs, Goto, cells
  <2> QED
    BY <1>1, <1>2, <2>1, PlainCounts DEF Ending
<1>4. CASE args[i] # <<>>
  <2>1. /\ args' = [args EXCEPT ![i] = Tail(@)]
        /\ IF a \in Consts THEN Ref(i, a, -1, "args") ELSE UNCHANGED <<cells, pc, op>>
    BY <1>4 DEF ReleaseArgs
  <2>2. args'[i] = Tail(args[i]) /\ \A w \in Workers : w # i => args'[w] = args[w]
    BY <1>2, <2>1 DEF Types
  <2> HIDE DEF a
  <2>3. ASSUME NEW x \in Consts
        PROVE  /\ Occurrences(args[i], x) = (IF a = x THEN 1 ELSE 0) + Occurrences(args'[i], x)
               /\ Occurrences(args'[i], x) \in Nat
    <3>1. Tail(args[i]) \in Seq(Kinds)
      BY <1>2, <1>4, HeadTailProperties
    <3> QED
      BY <1>2, <1>4, <2>2, <3>1, OccurrencesTail, OccurrencesType DEF a
  <2>4. CASE a \in Consts
    <3>1. \A x \in Consts : Occurrences(args'[i], x) = Occurrences(args[i], x) + IF x = a THEN -1 ELSE 0
      BY <2>3
    <3>2. PICK k \in Consts : k = a
      BY <2>4
    <3>3. UNCHANGED <<holds, draft>> /\ UNCHANGED <<callee, journal>> /\ Ref(i, k, -1, "args")
      BY <1>1, <2>1, <2>4, <3>2
    <3>4. Total(k)' = Total(k) + -1 /\ \A x \in Consts : x # k => Total(x)' = Total(x)
      BY <1>2, <2>2, <3>1, <3>2, <3>3, ArgsChange
    <3> QED
      BY <1>1, <1>2, <3>3, <3>4, ConstCounts DEF Ending
  <2>5. CASE a \notin Consts
    <3>1. \A x \in Consts : \A w \in Workers : Occurrences(args'[w], x) = Occurrences(args[w], x)
      BY <2>2, <2>3, <2>5
    <3>2. UNCHANGED <<rc, live, raced, op>> /\ pc' = [pc EXCEPT ![i] = "args"]
      BY <1>1, <1>2, <2>1, <2>5 DEF cells, Types
    <3> QED
      BY <1>1, <1>2, <3>1, <3>2, PlainCounts DEF Ending
  <2> QED
    BY <2>4, <2>5
<1> QED
  BY <1>3, <1>4

\* The closure of a joined worker is let go.
LEMMA JoinCounts ==
  ASSUME Control, Control', Counts, NEW i \in Isolates, Join(i),
         NEW w, w = Head(kids[i]), NEW f, f = callee[w]
  PROVE  Counts'
<1>1. /\ pc[i] = "join" /\ kids[i] # <<>> /\ callee' = [callee EXCEPT ![w] = None] /\ Ref(i, f, -1, "join")
      /\ UNCHANGED <<holds, draft, args, journal>>
  BY DEF Join
<1>2. Types /\ op[i] = NoOp /\ At(i) = "join" /\ "join" \in Labels
  BY <1>1, Here DEF Labels
<1>3. w \in Workers /\ f \in Spawnable[i]
  <2>1. kids[i] \in Seq(Workers) /\ kids[i] # <<>>
    BY <1>1, <1>2 DEF Types
  <2>2. 1 \in DOMAIN kids[i] /\ w = kids[i][1] /\ w \in Workers
    BY <2>1, HeadTailProperties
  <2>3. KidsOK(i)
    BY DEF Control, TreeOK
  <2> QED
    BY <2>2, <2>3 DEF KidsOK
<1>4. f \in Funcs /\ f \in Cells
  BY <1>3, Constants
<1>5. (\A j \in Isolates : j # i => pc'[j] = pc[j] /\ op'[j] = op[j]) /\ At(i)' = "join"
  BY <1>1, <1>2, <1>4, RefMoves
<1>6. \A j \in Isolates : At(j)' = At(j)
  BY <1>2, <1>5 DEF At
<1>7. ASSUME NEW g \in Funcs
      PROVE  Launching(g)' = Launching(g) /\ Called(g)' = (IF g = f THEN Called(g) \ {w} ELSE Called(g))
  <2>1. \A x \in Workers : callee'[x] = IF x = w THEN None ELSE callee[x]
    BY <1>1, <1>2 DEF Types
  <2>2. Called(g)' = IF g = f THEN Called(g) \ {w} ELSE Called(g)
    BY <1>3, <2>1, Constants DEF Called
  <2>3. Launching(g)' = Launching(g)
    BY <1>1, <1>6 DEF Launching
  <2> QED
    BY <2>2, <2>3
<1>8. w \in Called(f)
  BY <1>3 DEF Called
<1>9. Total(f)' = Total(f) + -1
  <2> DEFINE m == Cardinality(Called(f))
             n == Cardinality(Launching(f))
             z == IF f \in journal THEN 1 ELSE 0
  <2>1. IsFiniteSet(Called(f)) /\ m \in Nat /\ n \in Nat /\ z \in Nat
    BY <1>2, TotalParts
  <2>2. Cardinality(Called(f) \ {w}) = m - 1
    BY <1>8, <2>1, FS_RemoveElement
  <2>3. m' = m - 1 /\ n' = n /\ z' = z
    BY <1>1, <1>4, <1>7, <2>2
  <2>4. Total(f) = m + n + z /\ Total(f)' = m' + n' + z'
    BY <1>4 DEF Total
  <2> HIDE DEF m, n, z
  <2> QED
    BY <2>1, <2>3, <2>4
<1>10. \A k \in Consts : Total(k)' = Total(k)
  BY <1>1, ConstsKept
<1>11. \A x \in Cells : x # f => Total(x)' = Total(x)
  <2>1. ASSUME NEW g \in Funcs, g # f PROVE Total(g)' = Total(g)
    BY <1>1, <1>7, <2>1 DEF Total
  <2> QED
    BY <1>10, <2>1 DEF Cells
<1>12. May(i, f)
  BY <1>2, <1>3 DEF May, Ending
<1> QED
  BY <1>1, <1>2, <1>4, <1>9, <1>11, <1>12, RefCounts DEF Ending

\* The program gives up a definition.
LEMMA RetractCounts ==
  ASSUME Control, Control', Counts, Retract
  PROVE  Counts'
<1>1. pc[Main] = "journal" /\ UNCHANGED <<holds, draft, callee, args>> /\ Main \in Isolates
  BY Constants DEF Retract, threads
<1>2. Types /\ op[Main] = NoOp /\ At(Main) = "journal" /\ "journal" \in Labels /\ "slots" \in Labels
  BY <1>1, Here DEF Labels
<1>3. CASE journal = {}
  BY <1>1, <1>2, <1>3, PlainCounts DEF Retract, Goto, cells, Ending
<1>4. CASE journal # {}
  <2>1. PICK f \in journal : journal' = journal \ {f} /\ Ref(Main, f, -1, "journal")
    BY <1>4 DEF Retract
  <2>2. f \in Funcs /\ f \in Cells
    BY <1>2, <2>1, Constants DEF Types
  <2>3. (\A j \in Isolates : j # Main => pc'[j] = pc[j] /\ op'[j] = op[j]) /\ At(Main)' = "journal"
    BY <1>1, <1>2, <2>1, <2>2, RefMoves
  <2>4. \A j \in Isolates : At(j)' = At(j)
    BY <1>2, <2>3 DEF At
  <2>5. ASSUME NEW g \in Funcs PROVE Launching(g)' = Launching(g) /\ Called(g)' = Called(g)
    BY <1>1, <2>4 DEF Launching, Called
  <2>6. Total(f)' = Total(f) + -1
    <3> DEFINE m == Cardinality(Called(f))
               n == Cardinality(Launching(f))
    <3>1. m \in Nat /\ n \in Nat /\ m' = m /\ n' = n
      BY <1>2, <2>2, <2>5, TotalParts
    <3>2. Total(f) = m + n + 1 /\ Total(f)' = m' + n' + 0
      BY <2>1, <2>2 DEF Total
    <3> HIDE DEF m, n
    <3> QED
      BY <3>1, <3>2
  <2>7. \A k \in Consts : Total(k)' = Total(k)
    BY <1>1, ConstsKept
  <2>8. \A x \in Cells : x # f => Total(x)' = Total(x)
    <3>1. ASSUME NEW g \in Funcs, g # f PROVE Total(g)' = Total(g)
      BY <2>1, <2>5, <3>1 DEF Total
    <3> QED
      BY <2>7, <3>1 DEF Cells
  <2>9. May(Main, f)
    BY <1>2, <2>2 DEF May
  <2> QED
    BY <1>1, <1>2, <2>1, <2>2, <2>6, <2>8, <2>9, RefCounts DEF Ending
<1> QED
  BY <1>3, <1>4

-----------------------------------------------------------------------------
(* Every step keeps the counts.                                             *)

\* Initially.
LEMMA InitCounts == Init => Counts
<1> SUFFICES ASSUME Init PROVE Counts
  OBVIOUS
<1>1. /\ rc = [c \in Cells |-> 1] /\ live = Cells /\ raced = {} /\ op = [i \in Isolates |-> NoOp]
      /\ pc = [i \in Isolates |-> IF i = Main THEN "run" ELSE "off"]
      /\ holds = [i \in Isolates |-> {}] /\ draft = [i \in Isolates |-> NoDraft]
      /\ callee = [w \in Workers |-> None] /\ args = [w \in Workers |-> <<>>] /\ journal = Funcs
  BY DEF Init
<1>2. Types
  BY InitControl DEF Control
<1>3. ASSUME NEW f \in Funcs PROVE Total(f) = 1
  <2>1. Called(f) = {} /\ Launching(f) = {}
    BY <1>1, Constants, Emptiness DEF Called, Launching
  <2>2. Cardinality(Called(f)) = 0 /\ Cardinality(Launching(f)) = 0
    BY <2>1, FS_EmptySet
  <2> QED
    BY <1>1, <2>2 DEF Total
<1>4. ASSUME NEW k \in Consts PROVE Total(k) = 1
  <2> DEFINE B == InBuilt(k)
             A == InArgs(k)
  <2>1. Cardinality(Holding(k)) = 0 /\ k \notin Funcs
    <3>1. Holding(k) = {}
      BY <1>1 DEF Holding
    <3> QED
      BY <3>1, FS_EmptySet, Constants
  <2>2. B \in [Isolates -> Nat] /\ \A i \in Isolates : B[i] = 0
    <3>1. NoDraft.built = <<>>
      BY DEF NoDraft
    <3> QED
      BY <1>1, <3>1, OccurrencesNone DEF InBuilt
  <2>3. A \in [Workers -> Nat] /\ \A w \in Workers : A[w] = 0
    BY <1>1, OccurrencesNone DEF InArgs
  <2>4. Total(k) = 1 + Cardinality(Holding(k)) + (SumOf(B) + SumOf(A))
    BY <2>1 DEF Total
  <2> HIDE DEF A, B
  <2>5. SumOf(B) = 0
    <3>1. SumOf(B) = Cardinality({i \in Isolates : B[i] = 1}) /\ {i \in Isolates : B[i] = 1} = {}
      BY <2>2, Constants, SumOfOnes
    <3> QED
      BY <3>1, FS_EmptySet
  <2>6. SumOf(A) = 0
    <3>1. SumOf(A) = Cardinality({w \in Workers : A[w] = 1}) /\ {w \in Workers : A[w] = 1} = {}
      BY <2>3, Constants, SumOfOnes
    <3> QED
      BY <3>1, FS_EmptySet
  <2> QED
    BY <2>1, <2>4, <2>5, <2>6
<1>5. CountOK
  BY <1>1, <1>3, <1>4, Constants, Emptiness DEF CountOK, CountRight, Cells
<1>6. RaceOK /\ JournalOK
  BY <1>1 DEF RaceOK, JournalOK
<1> QED
  BY <1>5, <1>6 DEF Counts

\* A step to another label, nothing else.
LEMMA GotoCounts ==
  ASSUME Control, Counts, NEW i \in Isolates, pc[i] \notin {"store", "launch"},
         NEW l \in Labels, l \notin {"store", "launch"}, Goto(i, l),
         UNCHANGED <<cells, op, holds, draft, callee, args, journal>>, pc[i] \in Ending => l \in Ending
  PROVE  Counts'
  BY PlainCounts DEF Goto, cells

\* An isolate proceeds.
LEMMA ProceedCounts ==
  ASSUME Control, Control', Counts, NEW i \in Isolates, Proceed(i)
  PROVE  Counts'
<1>1. Types
  BY DEF Control
<1>2. CASE StoreWord(i)
  BY <1>2, StoreCounts
<1>3. CASE Transfer(i)
  BY <1>3, TransferCounts
<1>4. CASE Reject(i)
  BY <1>4, GotoCounts DEF Reject, threads, Labels, Ending
<1>5. CASE Undo(i)
  BY <1>5, UndoCounts
<1>6. CASE RetainCallee(i)
  BY <1>6, RetainCounts
<1>7. CASE Launch(i)
  BY <1>7, LaunchCounts
<1>8. ASSUME NEW from \in {"unwind", "slots"}, NEW l, <<from, l>> \in {<<"unwind", "args">>, <<"slots", "gone">>},
             ReleaseHolds(i, from, l)
      PROVE  Counts'
  <2>1. pc[i] = from /\ UNCHANGED <<draft, threads, journal>>
    BY <1>8 DEF ReleaseHolds
  <2>2. CASE holds[i] = {}
    BY <1>8, <2>1, <2>2, GotoCounts DEF ReleaseHolds, threads, Labels, Ending
  <2>3. CASE holds[i] # {}
    <3>1. PICK k \in holds[i] : holds' = [holds EXCEPT ![i] = @ \ {k}] /\ Ref(i, k, -1, from)
      BY <1>8, <2>3 DEF ReleaseHolds
    <3>2. k \in Consts
      BY <1>1 DEF Types
    <3> QED
      BY <2>1, <3>1, <3>2, HoldsCounts
  <2> QED
    BY <2>2, <2>3
<1>9. CASE i \in Workers /\ Return(i)
  BY <1>9, GotoCounts DEF Return, threads, Labels, Ending
<1>10. CASE i \in Workers /\ ReleaseArgs(i)
  BY <1>10, ArgsCounts
<1>11. CASE Join(i)
  BY <1>11, JoinCounts
<1>12. CASE AllJoined(i)
  BY <1>12, GotoCounts DEF AllJoined, threads, Labels, Ending
<1>13. CASE i = Main /\ Retract
  BY <1>13, RetractCounts
<1> QED
  BY <1>2, <1>3, <1>4, <1>5, <1>6, <1>7, <1>8, <1>9, <1>10, <1>11, <1>12, <1>13 DEF Proceed

\* A line of a script.
LEMMA ScriptCounts ==
  ASSUME Control, Control', Counts, NEW i \in Isolates, Script(i)
  PROVE  Counts'
<1>1. ASSUME NEW k \in Consts, LoadConst(i, k) PROVE Counts'
  <2>1. /\ pc[i] = "run" /\ k \notin holds[i] /\ Ref(i, k, 1, "run")
        /\ holds' = [holds EXCEPT ![i] = holds[i] \cup {k}] /\ UNCHANGED <<draft, threads, journal>>
    BY <1>1 DEF LoadConst, Op
  <2> QED
    BY <2>1, HoldsCounts
<1>2. ASSUME NEW k \in Consts, DropConst(i, k) PROVE Counts'
  <2>1. /\ pc[i] = "run" /\ k \in holds[i] /\ Ref(i, k, -1, "run")
        /\ holds' = [holds EXCEPT ![i] = holds[i] \ {k}] /\ UNCHANGED <<draft, threads, journal>>
    BY <1>2 DEF DropConst
  <2> QED
    BY <2>1, HoldsCounts
<1>3. ASSUME NEW l \in {"unwind", "args"}, i \in Workers, Die(i, l) PROVE Counts'
  BY <1>3, GotoCounts DEF Die, Labels, Ending
<1> QED
  BY <1>1, <1>2, <1>3, BeginCounts DEF Script

\* Every step keeps Counts.
LEMMA NextCounts == Control /\ Control' /\ Counts /\ [Next]_vars => Counts'
<1> SUFFICES ASSUME Control, Control', Counts, [Next]_vars PROVE Counts'
  OBVIOUS
<1>1. CASE Close
  BY <1>1, Constants, GotoCounts DEF Close, threads, Labels, Ending
<1>2. CASE UNCHANGED vars
  <2>1. UNCHANGED <<rc, live, raced, pc, op, holds, draft, callee, args, journal>>
    BY <1>2 DEF vars, cells, threads
  <2>2. \A j \in Isolates : At(j)' = At(j)
    BY <2>1 DEF At
  <2>3. \A x \in Cells : Total(x)' = Total(x)
    BY <2>1, <2>2, FuncsKept, ConstsKept DEF Cells
  <2> QED
    BY <2>1, <2>2, <2>3, Constants, QuietCounts
<1> QED
  BY <1>1, <1>2, ProceedCounts, ScriptCounts DEF Next

-----------------------------------------------------------------------------
(* What the counts are worth.                                               *)

\* Every state of every run has its control and its counts right.
LEMMA Invariant == Spec => [](Control /\ Counts)
<1>1. Init => Control /\ Counts
  BY InitControl, InitCounts
<1>2. Control /\ Counts /\ [Next]_vars => (Control /\ Counts)'
  BY NextControl, NextCounts
<1> QED
  BY <1>1, <1>2, PTL DEF Spec

\* No count of a constant is lost or invented, whichever threads retain and
\* release at the same time, and none of a closure unless two isolates that
\* spawn it update it at the same time (cell.hpp:218-308, spawn.cpp:165-191).
THEOREM CountsExactHolds == Spec => []CountsExact
<1>1. Control /\ Counts => CountsExact
  <2> SUFFICES ASSUME Control, Counts PROVE CountsExact
    OBVIOUS
  <2>1. ASSUME NEW f \in Funcs \ raced, Settled(f)
        PROVE  rc[f] = Keepers(f) + (IF f \in journal THEN 1 ELSE 0)
    <3>1. Launching(f) = {i \in Isolates : draft[i].f = f /\ pc[i] = "launch"}
      <4>1. ASSUME NEW i \in Isolates, draft[i].f = f, At(i) = "launch", pc[i] = "store" PROVE FALSE
        <5>1. OpOK(i) /\ op[i].next = "launch"
          BY <4>1 DEF Control, ControlOK, At
        <5> QED
          BY <2>1, <4>1, <5>1 DEF OpOK, Settled
      <4> QED
        BY <4>1 DEF Launching, At
    <3>2. rc[f] = Total(f)
      BY <2>1, Constants DEF Counts, CountOK, CountRight
    <3> QED
      BY <3>1, <3>2 DEF Total, Called, Keepers
  <2>2. ASSUME NEW k \in Consts, Settled(k) PROVE rc[k] = 1 + Holders(k) + Sent(k)
    <3>1. k \in Cells \ raced /\ k \notin Funcs
      BY Constants DEF Counts, RaceOK
    <3>2. rc[k] = Total(k)
      BY <2>2, <3>1 DEF Counts, CountOK, CountRight
    <3> QED
      BY <3>1, <3>2 DEF Total, Holding, InBuilt, InArgs, Holders, Sent
  <2>3. RacesAreSpawners
    BY DEF Counts, RaceOK, RacesAreSpawners
  <2> QED
    BY <2>1, <2>2, <2>3 DEF CountsExact, CalleesCounted, ConstsCounted
<1> QED
  BY <1>1, Invariant, PTL

\* No thread reaches a freed cell: the closure of a worker lives as long as the
\* worker, if its count was not lost to a race, and a constant as long as the
\* program (spawn.cpp:57-74, isolate.cpp:88-104).
THEOREM CellsAliveHolds == Spec => []CellsAlive
<1>1. Control /\ Counts => CellsAlive
  <2> SUFFICES ASSUME Control, Counts PROVE CellsAlive
    OBVIOUS
  <2>1. Types
    BY DEF Control
  <2>2. ASSUME NEW k \in Consts PROVE k \in live
    <3>1. k \in Cells \ raced /\ Total(k) > 0
      BY <2>1, Constants, TotalType DEF Counts, RaceOK
    <3> QED
      BY <3>1 DEF Counts, CountOK, CountRight
  <2>3. ASSUME NEW w \in Workers, pc[w] \notin {"off", "gone"} PROVE callee[w] \in live \cup raced
    <3>1. WorkerOK(w) /\ parent[w] \in Isolates /\ parent[w] # None
      BY <2>1, <2>3, Constants DEF Control, TreeOK, WorkerOK, Types
    <3>2. PICK n \in DOMAIN kids[parent[w]] : kids[parent[w]][n] = w
      BY <2>3, <3>1 DEF WorkerOK
    <3>3. callee[w] \in Spawnable[parent[w]]
      BY <3>1, <3>2 DEF Control, TreeOK, KidsOK
    <3>4. callee[w] \in Funcs /\ callee[w] \in Cells /\ Called(callee[w]) # {}
      BY <3>1, <3>3, Constants DEF Called
    <3>5. Total(callee[w]) > 0
      BY <2>1, <3>4, TotalType
    <3> QED
      BY <3>4, <3>5 DEF Counts, CountOK, CountRight
  <2> QED
    BY <2>2, <2>3 DEF CellsAlive
<1> QED
  BY <1>1, Invariant, PTL

\* The state keeps its types; no count, and no word about to be stored, is
\* below zero, but of a cell two spawners updated at the same time.
THEOREM TypeCorrect == Spec => []TypeOK
<1>1. Control /\ Counts => TypeOK
  <2> SUFFICES ASSUME Control, Counts PROVE TypeOK
    OBVIOUS
  <2>1. Types
    BY DEF Control
  <2>2. (\A c \in Cells \ raced : rc[c] >= 0) /\ raced \subseteq Funcs
    BY DEF Counts, CountOK, CountRight, RaceOK
  <2>3. ASSUME NEW i \in Isolates
        PROVE  /\ op[i].cell \in Cells \cup {None} /\ op[i].n \in Int
               /\ op[i].cell \notin raced => op[i].n >= 0
    <3>1. CASE op[i].cell = None
      <4>1. op[i] = NoOp
        BY <3>1, Constants, Here, PendingMay DEF Control, ControlOK, OpOK, Drafted, Drafting, At
      <4> QED
        BY <4>1 DEF NoOp
    <3>2. CASE op[i].cell # None
      <4>1. op[i].cell \in Cells /\ op[i].n \in Int
        BY <2>1, <3>2, PendingMay DEF Types, Ops
      <4>2. ASSUME op[i].cell \notin raced PROVE op[i].n >= 0
        BY <2>1, <4>1, <4>2, TotalType DEF Counts, CountOK, CountRight
      <4> QED
        BY <4>1, <4>2
    <3> QED
      BY <3>1, <3>2
  <2>4. \A i \in Isolates : draft[i].f \in Funcs \cup {None} /\ draft[i].w \in Workers \cup {None}
    BY <2>1 DEF Types, Drafts
  <2> QED
    BY <2>1, <2>2, <2>3, <2>4 DEF Types, TypeOK
<1> QED
  BY <1>1, Invariant, PTL
=============================================================================
