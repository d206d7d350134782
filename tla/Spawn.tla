------------------------------- MODULE Spawn -------------------------------
(***************************************************************************)
(* spawn: a function run on a fresh Isolate and a thread of its own         *)
(* (concurrency/spawn.cpp, the SPAWN instruction, vm/isolate.cpp), and the   *)
(* two kinds of cells that several threads reach: the closures of the main   *)
(* Isolate, which workers run, and the constants of their code, which every  *)
(* thread that runs it retains and releases.                                *)
(*                                                                          *)
(* retain and release of an ordinary cell are a load and a later store of    *)
(* its header word; of a frozen cell they are atomic (core/cell.hpp).        *)
(* Nothing keeps two isolates from spawning the same function, so two        *)
(* threads may update one plain count at the same time and lose an update:   *)
(* "raced" remembers the cells this happened to.  The model goes on with the *)
(* count that was stored, as if a cell freed too early kept its memory, and  *)
(* nothing is claimed of a raced cell but which cells those can be.          *)
(*                                                                          *)
(* The cycle collectors are left out: these cells are in no cycle.           *)
(***************************************************************************)
EXTENDS Integers, Sequences, FiniteSets, Functions, Counting

CONSTANTS
    Main, Workers,   \* the Isolate of the program, and those of the threads
    Funcs,           \* the functions the program defines, each a closure
    Consts,          \* the constants of their code
    Spawnable,       \* which functions the script of each isolate spawns
    Arguments,       \* the argument lists it passes; see Kinds
    MaxOps,          \* bound on what a script does before it ends
    None             \* no isolate, no function

Isolates == {Main} \cup Workers
Cells    == Funcs \cup Consts

\* An argument is a constant (a string literal, say), a value that is copied,
\* or one of a reference type, which cannot be sent.
Kinds == Consts \cup {"copy", "ref"}

ASSUME SpawnAssumption ==
    /\ Main \notin Workers /\ None \notin Isolates \cup Cells
    /\ IsFiniteSet(Workers) /\ IsFiniteSet(Cells)
    /\ Funcs \cap Consts = {} /\ Consts \cap {"copy", "ref"} = {}
    /\ Spawnable \in [Isolates -> SUBSET Funcs]
    /\ Arguments \subseteq Seq(Kinds) /\ MaxOps \in Nat

VARIABLES
    rc, frozen, live,     \* the cells: counts, the frozen ones, those not freed
    raced,                \* history: those whose count two threads updated at once
    pc, op,               \* each isolate: where it is, and the store it has pending
    holds,                \* the constants in its registers
    draft,                \* the worker it is about to launch
    kids,                 \* m_threads: the handles it owns, oldest first
    callee, args, parent, \* of each worker: ThreadState, the arguments it owns, who spawned it
    errored, reported,    \* the workers that died of an error; those whose error was printed
    journal, ops

cells   == <<rc, frozen, live, raced>>
threads == <<kids, callee, args, parent, errored, reported>>
vars    == <<cells, pc, op, holds, draft, threads, journal, ops>>

NoOp    == [cell |-> None, n |-> 0, next |-> "off"]
NoDraft == [f |-> None, w |-> None, want |-> <<>>, built |-> <<>>]

Init ==
    /\ rc = [c \in Cells |-> 1] /\ frozen = {} /\ live = Cells /\ raced = {}
    /\ pc = [i \in Isolates |-> IF i = Main THEN "run" ELSE "off"]
    /\ op = [i \in Isolates |-> NoOp]
    /\ holds = [i \in Isolates |-> {}]
    /\ draft = [i \in Isolates |-> NoDraft]
    /\ kids = [i \in Isolates |-> <<>>]
    /\ callee = [w \in Workers |-> None] /\ args = [w \in Workers |-> <<>>] /\ parent = [w \in Workers |-> None]
    /\ errored = {} /\ reported = {}
    /\ journal = Funcs
    /\ ops = [i \in Isolates |-> 0]

Goto(i, l) == pc' = [pc EXCEPT ![i] = l]

-----------------------------------------------------------------------------
(* retain (d = 1) and release (d = -1), then on to l.                       *)

\* The cells an isolate is about to store a header word to.
Pending == {op[j].cell : j \in Isolates}

Ref(i, c, d, l) ==
    /\ raced' = raced \cup ({c} \cap Pending)
    /\ IF c \in frozen
       THEN /\ rc' = [rc EXCEPT ![c] = @ + d]
            /\ live' = IF rc[c] + d = 0 THEN live \ {c} ELSE live
            /\ Goto(i, l)
            /\ UNCHANGED <<frozen, op>>
       ELSE /\ op' = [op EXCEPT ![i] = [cell |-> c, n |-> rc[c] + d, next |-> l]]
            /\ Goto(i, "store")
            /\ UNCHANGED <<rc, frozen, live>>

\* The store writes the whole word that was loaded, the frozen bit included;
\* a release that saw the last reference frees the cell instead.
StoreWord(i) ==
    /\ pc[i] = "store"
    /\ rc' = [rc EXCEPT ![op[i].cell] = op[i].n]
    /\ frozen' = frozen \ {op[i].cell}
    /\ live' = IF op[i].n = 0 THEN live \ {op[i].cell} ELSE live
    /\ op' = [op EXCEPT ![i] = NoOp]
    /\ Goto(i, op[i].next)
    /\ UNCHANGED <<raced, holds, draft, threads, journal, ops>>

-----------------------------------------------------------------------------
(* The script of an isolate.                                                *)

Op(i) == /\ pc[i] = "run" /\ ops[i] < MaxOps
         /\ ops' = [ops EXCEPT ![i] = @ + 1]

\* LOADK into a register, and the register overwritten.
LoadConst(i, k) ==
    /\ Op(i) /\ k \notin holds[i]
    /\ holds' = [holds EXCEPT ![i] = @ \cup {k}]
    /\ Ref(i, k, 1, "run")
    /\ UNCHANGED <<draft, threads, journal>>

DropConst(i, k) ==
    /\ pc[i] = "run" /\ k \in holds[i]
    /\ holds' = [holds EXCEPT ![i] = @ \ {k}]
    /\ Ref(i, k, -1, "run")
    /\ UNCHANGED <<draft, threads, journal, ops>>

\* Mutant: the constants are left as they are.
NotFrozen == UNCHANGED frozen

\* freeze_reachable_constants
Freeze == frozen' = frozen \cup Consts

SpawnBegin(i, f, as, w) ==
    /\ Op(i) /\ f \in Spawnable[i]
    /\ pc[w] = "off" /\ \A j \in Isolates : draft[j].w # w
    /\ Range(as) \cap Consts \subseteq holds[i]
    /\ Freeze /\ raced' = raced \cup (Consts \cap Pending)
    /\ draft' = [draft EXCEPT ![i] = [f |-> f, w |-> w, want |-> as, built |-> <<>>]]
    /\ Goto(i, "transfer")
    /\ UNCHANGED <<rc, live, op, holds, threads, journal>>

\* transfer_across_threads: a frozen string is shared, anything else copied.
Transfer(i) ==
    /\ pc[i] = "transfer" /\ draft[i].want # <<>> /\ Head(draft[i].want) # "ref"
    /\ LET d == draft[i]
           a == Head(d.want)
           shared == a \in frozen
           b == IF shared THEN a ELSE "copy"
       IN  /\ draft' = [draft EXCEPT ![i] = [d EXCEPT !.want = Tail(d.want), !.built = Append(d.built, b)]]
           /\ IF shared THEN Ref(i, a, 1, "transfer")
              ELSE UNCHANGED <<cells, pc, op>>
    /\ UNCHANGED <<holds, threads, journal, ops>>

\* A reference type raises, once what was built is released.
Reject(i) ==
    /\ pc[i] = "transfer" /\ draft[i].want # <<>> /\ Head(draft[i].want) = "ref"
    /\ Goto(i, "undo")
    /\ UNCHANGED <<cells, op, holds, draft, threads, journal, ops>>

Undo(i) ==
    /\ pc[i] = "undo"
    /\ IF draft[i].built = <<>>
       THEN /\ Goto(i, "run")
            /\ draft' = [draft EXCEPT ![i] = NoDraft]
            /\ UNCHANGED <<cells, op>>
       ELSE /\ draft' = [draft EXCEPT ![i].built = Tail(@)]
            /\ IF Head(draft[i].built) \in Consts THEN Ref(i, Head(draft[i].built), -1, "undo")
               ELSE UNCHANGED <<cells, pc, op>>
    /\ UNCHANGED <<holds, threads, journal, ops>>

\* Mutant: the worker runs a closure nobody keeps for it.
Borrow(i) == Goto(i, "launch") /\ UNCHANGED <<cells, op>>

KeepCallee(i) == Ref(i, draft[i].f, 1, "launch")

RetainCallee(i) ==
    /\ pc[i] = "transfer" /\ draft[i].want = <<>>
    /\ KeepCallee(i)
    /\ UNCHANGED <<holds, draft, threads, journal, ops>>

\* The thread starts, and the spawner owns its handle.
Launch(i) ==
    /\ pc[i] = "launch"
    /\ LET w == draft[i].w
       IN  /\ callee' = [callee EXCEPT ![w] = draft[i].f]
           /\ args' = [args EXCEPT ![w] = draft[i].built]
           /\ parent' = [parent EXCEPT ![w] = i]
           /\ kids' = [kids EXCEPT ![i] = Append(@, w)]
           /\ pc' = [pc EXCEPT ![i] = "run", ![w] = "run"]
    /\ draft' = [draft EXCEPT ![i] = NoDraft]
    /\ UNCHANGED <<cells, op, holds, errored, reported, journal, ops>>

-----------------------------------------------------------------------------
(* The end of a worker (worker_main) and of an Isolate (~Isolate).          *)

\* The script returns, or dies of a script error: its registers are released.
\* After any other exception they are left to ~Isolate.
Return(w) ==
    /\ pc[w] = "run"
    /\ Goto(w, "unwind")
    /\ UNCHANGED <<cells, op, holds, draft, threads, journal, ops>>

Die(w, l) ==
    /\ pc[w] = "run"
    /\ errored' = errored \cup {w}
    /\ Goto(w, l)
    /\ UNCHANGED <<cells, op, holds, draft, kids, callee, args, parent, reported, journal, ops>>

\* One register after another, then on to l.
ReleaseHolds(i, from, l) ==
    /\ pc[i] = from
    /\ IF holds[i] = {}
       THEN Goto(i, l) /\ UNCHANGED <<cells, op, holds>>
       ELSE \E k \in holds[i] :
                holds' = [holds EXCEPT ![i] = @ \ {k}] /\ Ref(i, k, -1, from)
    /\ UNCHANGED <<draft, threads, journal, ops>>

ReleaseArgs(w) ==
    /\ pc[w] = "args"
    /\ IF args[w] = <<>>
       THEN Goto(w, "join") /\ UNCHANGED <<cells, op, args>>
       ELSE /\ args' = [args EXCEPT ![w] = Tail(@)]
            /\ IF Head(args[w]) \in Consts THEN Ref(w, Head(args[w]), -1, "args")
               ELSE UNCHANGED <<cells, pc, op>>
    /\ UNCHANGED <<holds, draft, kids, callee, parent, errored, reported, journal, ops>>

\* The program's Isolate is destroyed.
Close ==
    /\ pc[Main] = "run"
    /\ Goto(Main, "join")
    /\ UNCHANGED <<cells, op, holds, draft, threads, journal, ops>>

\* Mutants: a handle is dropped without a join; a failed worker is not joined.
NoJoin(w)     == TRUE
NeverAfter(w) == pc[w] = "gone" /\ w \notin errored

Joined(w) == pc[w] = "gone"

\* thread_finalize of the oldest handle.
Join(i) ==
    /\ pc[i] = "join" /\ kids[i] # <<>> /\ Joined(Head(kids[i]))
    /\ LET w == Head(kids[i])
       IN  /\ reported' = IF w \in errored THEN reported \cup {w} ELSE reported
           /\ callee' = [callee EXCEPT ![w] = None]
           /\ Ref(i, callee[w], -1, "join")
    /\ kids' = [kids EXCEPT ![i] = Tail(@)]
    /\ UNCHANGED <<holds, draft, args, parent, errored, journal, ops>>

AllJoined(i) ==
    /\ pc[i] = "join" /\ kids[i] = <<>>
    /\ Goto(i, IF i = Main THEN "journal" ELSE "slots")
    /\ UNCHANGED <<cells, op, holds, draft, threads, journal, ops>>

\* retract_journal: the closures the program defined.
Retract ==
    /\ pc[Main] = "journal"
    /\ IF journal = {}
       THEN Goto(Main, "slots") /\ UNCHANGED <<cells, op, journal>>
       ELSE \E f \in journal : journal' = journal \ {f} /\ Ref(Main, f, -1, "journal")
    /\ UNCHANGED <<holds, draft, threads, ops>>

-----------------------------------------------------------------------------
\* What an isolate does once its script has asked for it or ended.
Proceed(i) ==
    \/ StoreWord(i) \/ Transfer(i) \/ Reject(i) \/ Undo(i) \/ RetainCallee(i) \/ Launch(i)
    \/ ReleaseHolds(i, "unwind", "args") \/ ReleaseHolds(i, "slots", "gone")
    \/ i \in Workers /\ (Return(i) \/ ReleaseArgs(i))
    \/ Join(i) \/ AllJoined(i)
    \/ i = Main /\ Retract

Script(i) ==
    \/ \E k \in Consts : LoadConst(i, k) \/ DropConst(i, k)
    \/ \E f \in Funcs, as \in Arguments, w \in Workers : SpawnBegin(i, f, as, w)
    \/ i \in Workers /\ (Die(i, "unwind") \/ Die(i, "args"))

Next == Close \/ \E i \in Isolates : Proceed(i) \/ Script(i)

Spec == Init /\ [][Next]_vars

\* Every thread is scheduled; what a script does is bounded, so it ends.
LiveSpec == Spec /\ \A i \in Isolates : WF_vars(Proceed(i))

-----------------------------------------------------------------------------
Labels == {"off", "run", "store", "transfer", "undo", "launch", "unwind", "args", "join", "journal", "slots", "gone"}

\* No count below zero, and no such word about to be stored, but of a raced cell.
TypeOK ==
    /\ rc \in [Cells -> Int] /\ \A c \in Cells \ raced : rc[c] >= 0
    /\ frozen \subseteq Consts /\ live \subseteq Cells /\ raced \subseteq Funcs
    /\ pc \in [Isolates -> Labels]
    /\ \A i \in Isolates : /\ op[i].cell \in Cells \cup {None} /\ op[i].n \in Int
                           /\ op[i].cell \notin raced => op[i].n >= 0
    /\ holds \in [Isolates -> SUBSET Consts]
    /\ \A i \in Isolates : draft[i].f \in Funcs \cup {None} /\ draft[i].w \in Workers \cup {None}
    /\ kids \in [Isolates -> Seq(Workers)]
    /\ callee \in [Workers -> Funcs \cup {None}] /\ args \in [Workers -> Seq(Kinds)]
    /\ parent \in [Workers -> Isolates \cup {None}]
    /\ errored \subseteq Workers /\ reported \subseteq errored
    /\ journal \subseteq Funcs /\ ops \in [Isolates -> 0..MaxOps]

\* The references to a constant in registers and in arguments, and those to a
\* closure in thread handles, finished or not.
Holders(k)  == Cardinality({i \in Isolates : k \in holds[i]})
Sent(k)     == SumOf([i \in Isolates |-> Occurrences(draft[i].built, k)])
               + SumOf([w \in Workers |-> Occurrences(args[w], k)])
Keepers(f)  == Cardinality({w \in Workers : callee[w] = f})
               + Cardinality({i \in Isolates : draft[i].f = f /\ pc[i] = "launch"})

Settled(c)  == \A i \in Isolates : op[i].cell # c

\* "Keep the callee alive for the worker without cross-thread refcounting: a
\* +1 taken here (spawner) and released at finalize (spawner)"
\* (spawn.cpp:188-189): the count of a closure is its references, unless two
\* spawners updated it at the same time.
CalleesCounted ==
    \A f \in Funcs \ raced : Settled(f) => rc[f] = Keepers(f) + (IF f \in journal THEN 1 ELSE 0)

\* The count of a constant is its references, whichever threads retain and
\* release it at the same time.
ConstsCounted == \A k \in Consts : Settled(k) => rc[k] = 1 + Holders(k) + Sent(k)

\* Two threads only ever meet at the count of a function that both spawn: never
\* at a constant, and never when the program's own references to its functions
\* are given up.
RacesAreSpawners == \A f \in raced : \E i, j \in Isolates : i # j /\ f \in Spawnable[i] \cap Spawnable[j]

\* No count of a constant is lost or invented, whichever threads retain and
\* release at the same time, and none of a closure unless two isolates that
\* spawn it update it at the same time (cell.hpp:218-308, spawn.cpp:165-191).
CountsExact == CalleesCounted /\ ConstsCounted /\ RacesAreSpawners

\* No thread reaches a freed cell: a worker's closure outlives the worker and
\* the threads it waits for, if its count was not lost to a race, and a constant
\* is never freed while its code may run (spawn.cpp:57-74, isolate.cpp:88-104).
CellsAlive ==
    /\ Consts \subseteq live
    /\ \A w \in Workers : pc[w] \notin {"off", "gone"} => callee[w] \in live \cup raced

\* Structured concurrency (spawn.hpp:6-9): nothing an isolate spawned outlives
\* it, and no error that killed a worker passes in silence.
Structured ==
    \A w \in Workers : parent[w] # None /\ pc[parent[w]] \in {"journal", "slots", "gone"} =>
        pc[w] = "gone" /\ (w \in errored => w \in reported)

\* The destruction of the program's Isolate ends, with every closure freed whose
\* count was not lost to a race.
TeardownEnds == (pc[Main] = "join") ~> (pc[Main] = "gone" /\ Funcs \cap live \subseteq raced)
=============================================================================
