---------------------------- MODULE ParallelMap -----------------------------
(***************************************************************************)
(* parallel_map(list, f) (engine/concurrency/parallel.cpp): the inputs are  *)
(* copied, one thread per chunk of the list runs f on its elements in an    *)
(* Isolate of its own, and the results, copied again, become the list that  *)
(* is returned; an error in f becomes the error of the call.                *)
(*                                                                          *)
(* A value is a number (never counted), a cell that one thread may use at a *)
(* time, a frozen cell (counted atomically), or a cell of a reference type, *)
(* which cannot be sent.  Counts change in one step: Confined says that the *)
(* plain ones are never changed by two threads at a time.                   *)
(***************************************************************************)
EXTENDS Integers, Sequences, FiniteSets

CONSTANTS
    Lists,        \* the lists the script may pass
    MaxThreads,
    Hardware,     \* what worker_count() of the fork-join pool may be
    Plain,        \* cells of the caller: lists, tables, strings
    Shared,       \* frozen strings and channels of the caller
    Handle,       \* a cell of the caller of a reference type
    Const,        \* a string constant in the code of f
    Null

\* What the elements of a list may be, and what a call may make of them.
Elements == Plain \cup Shared \cup {Handle, <<"number", 0>>}
Made == {"number", "copy", "made", "result", "handle"} \X Nat

ASSUME MapAssumption ==
    /\ MaxThreads \in Nat /\ Hardware \subseteq 0..(MaxThreads - 1)
    /\ Lists \subseteq Seq(Elements)
    /\ Plain \cap Shared = {} /\ Handle \notin Plain \cup Shared
    /\ Const \notin Plain \cup Shared \cup {Handle}
    /\ \A c \in Plain \cup Shared \cup {Handle, Const} : c \notin Made
    /\ Null \notin Plain \cup Shared \cup {Handle, Const} \cup Made

VARIABLES
    list, spawnable, hw,          \* the call: its list, whether f captures nothing, the pool
    phase,                        \* of the caller: "call", "transfer", "run", "joined", "done"
    inputs, results, built,
    pc, at, value, errored,       \* MapWorker: where it is, its element, what f returned
    rc, frozen,                   \* cells: their counts, and those counted atomically
    answer,
    does,                         \* ghost: what f did on each element
    leaked                        \* ghost: values f returned that nobody releases

main    == <<phase, inputs, built, answer, frozen>>
workers == <<pc, at, value, errored, results, does, leaked>>
vars    == <<list, spawnable, hw, main, workers, rc>>

-----------------------------------------------------------------------------
(* Cells.                                                                   *)

N == Len(list)

Cells == Plain \cup Shared \cup {Handle, Const}
         \cup ({"copy", "made", "result", "handle"} \X (1..N))

\* Types that have an identity cannot be reconstructed by a copy.
Sendable(v) == v # Handle /\ v \notin {"handle"} \X (1..N)

Plus(counts, v)  == IF v \in Cells THEN [counts EXCEPT ![v] = @ + 1] ELSE counts
Minus(counts, v) == IF v \in Cells THEN [counts EXCEPT ![v] = @ - 1] ELSE counts

\* Every reference of array a at an index of S is released.
Released(counts, a, S) == [c \in Cells |-> counts[c] - Cardinality({i \in S : a[i] = c})]

\* transfer_across_threads: a frozen cell is shared, any other becomes `new`.
Sent(v, new) == IF v \in Cells \ frozen THEN new ELSE v

\* Mutant: one SeenMap for the whole list.
CopyOfFirst(i) == <<"copy", CHOOSE j \in 1..N : list[j] = list[i] /\ \A m \in 1..(j - 1) : list[m] # list[i]>>

\* Each input has a SeenMap of its own, so no two share a copy.
CopyOf(i) == <<"copy", i>>

-----------------------------------------------------------------------------
(* Chunks: the first N % P have one element more.                           *)

P  == IF hw + 1 < N THEN hw + 1 ELSE N
Lo(j) == (j - 1) * (N \div P) + (IF j - 1 < N % P THEN j - 1 ELSE N % P)
Chunk(j) == (Lo(j) + 1)..Lo(j + 1)

Init ==
    /\ list \in Lists /\ spawnable \in BOOLEAN /\ hw \in Hardware
    /\ phase = "call" /\ built = 0
    /\ inputs = [i \in 1..N |-> Null] /\ results = [i \in 1..N |-> Null]
    /\ pc = [j \in 1..P |-> "unborn"] /\ at = [j \in 1..P |-> 0]
    /\ value = [j \in 1..P |-> Null] /\ errored = [j \in 1..P |-> FALSE]
    /\ frozen = Shared
    /\ rc = [c \in Cells |-> Cardinality({i \in 1..N : list[i] = c}) + (IF c = Const THEN 1 ELSE 0)]
    /\ answer = Null /\ does = [i \in 1..N |-> "nothing"] /\ leaked = {}

-----------------------------------------------------------------------------
(* The caller.                                                              *)

Error(i) == [error |-> i, values |-> <<>>]

Refuse ==
    /\ phase = "call" /\ ~spawnable
    /\ phase' = "done" /\ answer' = Error(0)
    /\ UNCHANGED <<list, spawnable, hw, inputs, built, frozen, workers, rc>>

NothingToDo ==
    /\ phase = "call" /\ spawnable /\ N = 0
    /\ phase' = "done" /\ answer' = [error |-> 0, values |-> <<>>]
    /\ UNCHANGED <<list, spawnable, hw, inputs, built, frozen, workers, rc>>

\* freeze_reachable_constants
Freeze ==
    /\ phase = "call" /\ spawnable /\ N > 0
    /\ phase' = "transfer" /\ frozen' = frozen \cup {Const}
    /\ UNCHANGED <<list, spawnable, hw, inputs, built, answer, workers, rc>>

TransferInput ==
    /\ phase = "transfer" /\ built < N
    /\ LET i == built + 1
           v == Sent(list[i], CopyOf(i))
       IN  /\ Sendable(list[i])
           /\ inputs' = [inputs EXCEPT ![i] = v]
           /\ rc' = Plus(rc, v)
           /\ built' = i
    /\ phase' = IF built' = N THEN "run" ELSE phase
    /\ UNCHANGED <<list, spawnable, hw, answer, frozen, workers>>

\* An input cannot be sent: the copies already made are released.
RejectInput ==
    /\ phase = "transfer" /\ ~Sendable(list[built + 1])
    /\ rc' = Released(rc, inputs, 1..built)
    /\ phase' = "done" /\ answer' = Error(0)
    /\ UNCHANGED <<list, spawnable, hw, inputs, built, frozen, workers>>

Launch(j) ==
    /\ phase = "run" /\ pc[j] = "unborn"
    /\ \A i \in 1..(j - 1) : pc[i] # "unborn"
    /\ pc' = [pc EXCEPT ![j] = "next"]
    /\ at' = [at EXCEPT ![j] = Lo(j) + 1]
    /\ UNCHANGED <<list, spawnable, hw, main, value, errored, results, does, leaked, rc>>

\* Every thread is joined; the inputs have been released by the workers.
Join ==
    /\ phase = "run" /\ \A j \in 1..P : pc[j] = "gone"
    /\ phase' = "joined"
    /\ UNCHANGED <<list, spawnable, hw, inputs, built, answer, frozen, workers, rc>>

\* Mutant: the error of the last chunk that failed.
LastErrored(e) == CHOOSE j \in DOMAIN e : e[j] /\ \A i \in DOMAIN e : i > j => ~e[i]

FirstErrored(e) == CHOOSE j \in DOMAIN e : e[j] /\ \A i \in DOMAIN e : i < j => ~e[i]

Raise ==
    /\ phase = "joined" /\ \E j \in 1..P : errored[j]
    /\ answer' = Error(at[FirstErrored(errored)])
    /\ rc' = Released(rc, results, 1..N)
    /\ phase' = "done"
    /\ UNCHANGED <<list, spawnable, hw, inputs, built, frozen, workers>>

\* The references of the results move into the list.
Stitch ==
    /\ phase = "joined" /\ \A j \in 1..P : ~errored[j]
    /\ answer' = [error |-> 0, values |-> results]
    /\ phase' = "done"
    /\ UNCHANGED <<list, spawnable, hw, inputs, built, frozen, workers, rc>>

-----------------------------------------------------------------------------
(* A worker (map_worker_main).                                              *)

\* run_callable keeps the argument in a register; f loads its constant.
Call(j) ==
    /\ pc[j] = "next" /\ at[j] \in Chunk(j)
    /\ rc' = Plus(Plus(rc, inputs[at[j]]), Const)
    /\ pc' = [pc EXCEPT ![j] = "in"]
    /\ UNCHANGED <<list, spawnable, hw, main, at, value, errored, results, does, leaked>>

Outcomes == {"number", "argument", "constant", "made", "handle", "raise"}

ValueOf(o, i) ==
    CASE o = "argument" -> inputs[i]
      [] o = "constant" -> Const
      [] OTHER          -> <<o, i>>

\* Mutant: a worker goes on with the element that failed.
TryAgain(j) == "next"

AfterError(j) == "drop"

\* f returns, or raises: either way its registers are released.
Return(j, o) ==
    LET i == at[j]
        registers == Minus(Minus(rc, inputs[i]), Const)
    IN  /\ pc[j] = "in"
        /\ does' = [does EXCEPT ![i] = o]
        /\ IF o = "raise"
           THEN /\ errored' = [errored EXCEPT ![j] = TRUE]
                /\ pc' = [pc EXCEPT ![j] = AfterError(j)]
                /\ rc' = registers
                /\ UNCHANGED value
           ELSE /\ value' = [value EXCEPT ![j] = ValueOf(o, i)]
                /\ pc' = [pc EXCEPT ![j] = "send"]
                /\ rc' = Plus(registers, ValueOf(o, i))
                /\ UNCHANGED errored
        /\ UNCHANGED <<list, spawnable, hw, main, at, results, leaked>>

SendResult(j) ==
    LET i   == at[j]
        out == Sent(value[j], <<"result", i>>)
    IN  /\ pc[j] = "send" /\ Sendable(value[j])
        /\ results' = [results EXCEPT ![i] = out]
        /\ rc' = Minus(Plus(rc, out), value[j])
        /\ value' = [value EXCEPT ![j] = Null]
        /\ at' = [at EXCEPT ![j] = i + 1]
        /\ pc' = [pc EXCEPT ![j] = "next"]
        /\ UNCHANGED <<list, spawnable, hw, main, errored, does, leaked>>

\* transfer_across_threads raises; what f returned is not released.
RejectResult(j) ==
    /\ pc[j] = "send" /\ ~Sendable(value[j])
    /\ errored' = [errored EXCEPT ![j] = TRUE]
    /\ leaked' = leaked \cup {value[j]}
    /\ value' = [value EXCEPT ![j] = Null]
    /\ pc' = [pc EXCEPT ![j] = AfterError(j)]
    /\ UNCHANGED <<list, spawnable, hw, main, at, results, does, rc>>

\* Mutant: a worker that failed releases the inputs it has used.
UsedInputs(j) == {i \in (Lo(j) + 1)..Lo(j + 1) : i <= at[j]}

OwnInputs(j) == Chunk(j)

Leave(j) ==
    /\ pc[j] = "drop" \/ (pc[j] = "next" /\ at[j] \notin Chunk(j))
    /\ rc' = Released(rc, inputs, OwnInputs(j))
    /\ pc' = [pc EXCEPT ![j] = "gone"]
    /\ UNCHANGED <<list, spawnable, hw, main, at, value, errored, results, does, leaked>>

Work(j) ==
    \/ Call(j)
    \/ \E o \in Outcomes : Return(j, o)
    \/ SendResult(j)
    \/ RejectResult(j)
    \/ Leave(j)

Proceed ==
    \/ Refuse \/ NothingToDo \/ Freeze \/ TransferInput \/ RejectInput
    \/ \E j \in 1..P : Launch(j)
    \/ Join \/ Raise \/ Stitch

Next == Proceed \/ \E j \in 1..P : Work(j)

Spec == Init /\ [][Next]_vars

FairSpec ==
    /\ Spec /\ WF_vars(Proceed)
    /\ \A j \in 1..MaxThreads : WF_vars(j \in 1..P /\ Work(j))

-----------------------------------------------------------------------------
(* Properties.                                                              *)

Fails(i) == does[i] \in {"raise", "handle"}

\* What a sequential loop would put in the list, a copy for a cell that is not frozen.
Mapped(i) ==
    CASE does[i] = "number"   -> <<"number", i>>
      [] does[i] = "constant" -> Const
      [] does[i] = "argument" /\ list[i] \notin Plain -> list[i]
      [] OTHER                -> <<"result", i>>

\* The call ends as a sequential loop would, whatever the chunks and the
\* schedule: the results in the order of the list, or the error of the first
\* element that fails, after all those before it have succeeded; and f is not
\* called at all when an argument of the call is refused (parallel.cpp:156-260).
Sequential ==
    phase = "done" =>
        \/ /\ answer.error = 0 /\ answer.values = [i \in 1..N |-> Mapped(i)]
           /\ spawnable /\ \A i \in 1..N : does[i] # "nothing" /\ ~Fails(i)
        \/ /\ answer.error \in 1..N /\ Fails(answer.error)
           /\ \A i \in 1..(answer.error - 1) : does[i] # "nothing" /\ ~Fails(i)
        \/ /\ answer = Error(0) /\ (~spawnable \/ \E i \in 1..N : ~Sendable(list[i]))
           /\ \A i \in 1..N : does[i] = "nothing"

Running(j) == pc[j] \in {"next", "in", "send", "drop"}
Owner(i) == CHOOSE j \in 1..P : i \in Chunk(j)

\* Which references there are, and the thread that owns each: 0 is the caller.
References ==
    LET src  == {<<"list", i, list[i], 0>> : i \in 1..N} \cup {<<"code", 0, Const, 0>>}
        ins  == {<<"input", i, inputs[i],
                   IF pc[Owner(i)] = "unborn" THEN 0 ELSE Owner(i)>> :
                     i \in {i \in 1..N : phase \in {"transfer", "run"} /\ pc[Owner(i)] # "gone"}}
        outs == {<<"result", i, results[i], IF Running(Owner(i)) THEN Owner(i) ELSE 0>> :
                     i \in {i \in 1..N : phase # "done"}}
        args == {<<"argument", j, inputs[at[j]], j>> : j \in {j \in 1..P : pc[j] = "in"}}
        cons == {<<"constant", j, Const, j>> : j \in {j \in 1..P : pc[j] = "in"}}
        vals == {<<"value", j, value[j], j>> : j \in 1..P}
        lost == {<<"leaked", 0, v, 0>> : v \in leaked}
        held == IF phase = "done" THEN {<<"answer", i, answer.values[i], 0>> : i \in DOMAIN answer.values} ELSE {}
    IN  src \cup ins \cup outs \cup args \cup cons \cup vals \cup lost \cup held

\* The count of a cell is the number of its references, in every state: the
\* inputs and the results are released exactly once on every path, after an
\* error in any chunk too.  Only a result that cannot be sent stays behind
\* (parallel.cpp:115-136, 198-206, 239-251).
CountsExact ==
    \A c \in Cells : rc[c] = Cardinality({ref \in References : ref[3] = c})

\* A cell that is not counted atomically is in the hands of one thread at a time
\* ("a relaxed load+store (thread-confined by design)", parallel.cpp:29-33).
Confined ==
    \A c \in Cells \ frozen :
        Cardinality({ref[4] : ref \in {ref \in References : ref[3] = c}}) <= 1

\* The call returns when f does, also when chunks fail: no thread is left to join.
CallReturns == <>(phase = "done")
=============================================================================
