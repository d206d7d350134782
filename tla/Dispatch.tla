------------------------------ MODULE Dispatch ------------------------------
(***************************************************************************)
(* One generic function and the calls made to it: object/generic.{hpp,cpp}, *)
(* the CALLG and DEFMETHOD instructions of vm/interpreter.cpp and the       *)
(* registration journal of vm/isolate.cpp.                                  *)
(*                                                                          *)
(* A generic belongs to the process.  Isolates of the main thread (Mains)   *)
(* define methods on it, journal what they defined and retract it when they *)
(* end; Workers are isolates of spawned threads and only call.  A call goes *)
(* through the inline cache of its site, then the memo of the generic, then *)
(* full resolution.  Each isolate has one call site.                        *)
(*                                                                          *)
(* A method is its signature, whether its last class is that of a vararg,   *)
(* and its code: a native (0) or the number of a closure.  The class of an  *)
(* argument stands for the argument; keys of the caches, which pack one or  *)
(* two class ids without loss, are the tuples themselves.  Classes do not   *)
(* change, so the type epoch is left out.                                   *)
(***************************************************************************)
EXTENDS Integers, Sequences, FiniteSets, SequencesExt, FiniteSetsExt

CONSTANTS
    Classes, Supers,   \* the classes, and each one's chain of ancestors, itself included
    Signatures,        \* [sig, va] pairs scripts define
    Masks,             \* the ref masks they declare
    Natives,           \* the methods registered by the runtime, in order
    ArgTuples,         \* argument classes of the calls the properties speak of
    CallArgs,          \* those the call sites make
    Mains, Workers,
    MaxDefs            \* bound on the closures defined

ASSUME ClassAssumption ==
    /\ Supers \in [Classes -> SUBSET Classes]
    /\ \A c \in Classes : c \in Supers[c]
    /\ \A c \in Classes : \A s \in Supers[c] : Supers[s] \subseteq Supers[c]
    /\ \A c \in Classes : \A s, t \in Supers[c] : s \in Supers[t] \/ t \in Supers[s]
    /\ \A c, d \in Classes : c \in Supers[d] /\ d \in Supers[c] => c = d

\* A variadic signature names the class of its vararg; the runtime registers
\* a signature once.
ASSUME MethodAssumption ==
    /\ \A s \in Signatures : s \in [sig : Seq(Classes), va : BOOLEAN]
    /\ Natives \in Seq([sig : Seq(Classes), va : BOOLEAN, code : {0}])
    /\ \A s \in Signatures \cup Range(Natives) : s.va => s.sig # <<>>
    /\ \A i, j \in DOMAIN Natives :
           Natives[i].sig = Natives[j].sig /\ Natives[i].va = Natives[j].va => i = j

ASSUME CallAssumption ==
    /\ \A a \in ArgTuples \cup CallArgs : a \in Seq(Classes)
    /\ IsFiniteSet(Mains) /\ IsFiniteSet(Workers) /\ Mains \cap Workers = {}
    /\ 0 \in Masks /\ MaxDefs \in Nat

Isolates == Mains \cup Workers

VARIABLES
    methods, mask,           \* methods, ref_mask
    minArity, maxArity, hasVararg,
    epoch,                   \* generic_epoch
    memo, memoEpoch,         \* memo: 0 is "no method", Unset a tuple not in it
    workerThreads,           \* g_worker_threads
    life,                    \* each isolate: "off", "live" or "ended"
    journal,                 \* what each main isolate registered, oldest first
    ic,                      \* the inline cache of each isolate's call site
    pc, call,                \* where each isolate is in a call, and its call
    defs                     \* how many closures were defined

generic == <<methods, mask, minArity, maxArity, hasVararg, epoch>>
table   == <<memo, memoEpoch>>
calls   == <<ic, pc, call>>
vars    == <<generic, table, workerThreads, life, journal, calls, defs>>

-----------------------------------------------------------------------------
(* Signatures: specificity and applicability.                               *)

IsA(c, d)        == d \in Supers[c]
Comparable(c, d) == IsA(c, d) \/ IsA(d, c)
Meet(c, d)       == IF IsA(c, d) THEN c ELSE d

Fixed(m)  == IF m.va THEN Len(m.sig) - 1 ELSE Len(m.sig)
Eff(m, i) == IF i <= Fixed(m) THEN m.sig[i] ELSE Last(m.sig)

PointwiseLe(m, n, k) == \A i \in 1..k : IsA(Eff(m, i), Eff(n, i))

AritiesOverlap(m, n) ==
    CASE m.va /\ n.va  -> TRUE
      [] m.va /\ ~n.va -> Fixed(n) >= Fixed(m)
      [] n.va /\ ~m.va -> Fixed(m) >= Fixed(n)
      [] OTHER         -> Fixed(m) = Fixed(n)

CompareArity(m, n) == Max({Fixed(m), Fixed(n)}) + (IF m.va /\ n.va THEN 1 ELSE 0)

AppliesAt(m, argc) == IF m.va THEN argc >= Fixed(m) ELSE argc = Fixed(m)

Applicable(m, args) ==
    AppliesAt(m, Len(args)) /\ \A i \in 1..Len(args) : IsA(args[i], Eff(m, i))

\* Types first; between methods of the same types a fixed one beats a
\* variadic one, then the one with more fixed parameters wins.
MoreSpecific(m, n, argc) ==
    LET mn == PointwiseLe(m, n, argc)  nm == PointwiseLe(n, m, argc)
    IN  \/ mn /\ ~nm
        \/ mn /\ nm /\ (IF m.va # n.va THEN ~m.va ELSE Fixed(m) > Fixed(n))

\* The best of the methods seen so far, 0 while none applies, and method i.
Better(ms, args, best, i) ==
    IF Applicable(ms[i], args) /\ (best = 0 \/ MoreSpecific(ms[i], ms[best], Len(args)))
    THEN i ELSE best

\* full_resolve: one pass that keeps the best so far.
FullResolve(ms, args) ==
    LET Best[k \in 0..Len(ms)] == IF k = 0 THEN 0 ELSE Better(ms, args, Best[k - 1], k)
    IN  Best[Len(ms)]

Same(m, n) == m.sig = n.sig /\ m.va = n.va

\* Two methods that could both apply, neither more specific.
Conflict(m, n) ==
    /\ AritiesOverlap(m, n)
    /\ LET k == CompareArity(m, n)
       IN  /\ ~PointwiseLe(m, n, k) /\ ~PointwiseLe(n, m, k)
           /\ \A j \in 1..k : Comparable(Eff(m, j), Eff(n, j))

Disambiguates(d, m, n) ==
    LET k == CompareArity(m, n)
    IN  AppliesAt(d, k) /\ \A j \in 1..k : Eff(d, j) = Meet(Eff(m, j), Eff(n, j))

\* Mutant: no definition is ever ambiguous.
AlwaysUnambiguous(ms, new) == TRUE

Unambiguous(ms, new) ==
    \A i \in 1..Len(ms) : Conflict(new, ms[i]) =>
        \E d \in {new} \cup Range(ms) : Disambiguates(d, new, ms[i])

-----------------------------------------------------------------------------
(* The generic: add_method, remove_method, resolve.                         *)

Keys      == {a \in ArgTuples \cup CallArgs : Len(a) \in 1..2}
Unset     == -1
EmptyMemo == [a \in Keys |-> Unset]

MethodSetChanged == epoch' = epoch + 1 /\ memo' = EmptyMemo /\ UNCHANGED memoEpoch

\* remove_method swaps with the last and pops.
EraseAt(ms, i) == [k \in 1..(Len(ms) - 1) |-> IF k = i THEN Last(ms) ELSE ms[k]]

RemoveFrom(ms, r) ==
    IF \E i \in 1..Len(ms) : Same(ms[i], r)
    THEN EraseAt(ms, Min({i \in 1..Len(ms) : Same(ms[i], r)})) ELSE ms

\* What remove_method recomputes, and add_method keeps up to date.
Bounds(ms) ==
    LET fx == {Fixed(ms[k]) : k \in 1..Len(ms)}
    IN  [lo |-> Min(fx \cup {255}), hi |-> Max(fx \cup {0}), va |-> \E k \in 1..Len(ms) : ms[k].va]

SetBounds(b) == minArity' = b.lo /\ maxArity' = b.hi /\ hasVararg' = b.va

\* resolve's test of the arity before anything else.
Pruned(argc) == argc < minArity \/ (~hasVararg /\ argc > maxArity)

\* Mutant: the memo is used whatever threads are live.
AnyThread(argc) == argc \in 1..2

MemoOK(argc) == argc \in 1..2 /\ workerThreads = 0

-----------------------------------------------------------------------------
Cold == [key |-> <<>>, code |-> 0, epoch |-> 0]

Init ==
    /\ methods = Natives /\ mask = 0
    /\ minArity = Bounds(Natives).lo /\ maxArity = Bounds(Natives).hi
    /\ hasVararg = Bounds(Natives).va
    /\ epoch = Len(Natives) /\ memo = EmptyMemo /\ memoEpoch = 0
    /\ workerThreads = 0
    /\ life = [i \in Isolates |-> "off"]
    /\ journal = [m \in Mains |-> <<>>]
    /\ ic = [i \in Isolates |-> Cold]
    /\ pc = [i \in Isolates |-> "idle"] /\ call = [i \in Isolates |-> [args |-> <<>>, site |-> FALSE]]
    /\ defs = 0

MainIdle == \A m \in Mains : pc[m] = "idle"

\* The method set is stable while a worker may read it: full_resolve relies
\* on it, and scripts are trusted with it.
Stable == \A w \in Workers : life[w] # "live"

\* An Isolate is created with cold caches; a worker counts itself before its
\* first call.
Start(i) ==
    /\ life[i] = "off"
    /\ i \in Workers => \E m \in Mains : life[m] = "live"
    /\ life' = [life EXCEPT ![i] = "live"]
    /\ workerThreads' = workerThreads + (IF i \in Workers THEN 1 ELSE 0)
    /\ UNCHANGED <<generic, table, journal, calls, defs>>

WorkerEnds(w) ==
    /\ life[w] = "live" /\ pc[w] = "idle"
    /\ life' = [life EXCEPT ![w] = "ended"] /\ ic' = [ic EXCEPT ![w] = Cold]
    /\ workerThreads' = workerThreads - 1
    /\ UNCHANGED <<generic, table, journal, pc, call, defs>>

\* DEFMETHOD of an identical signature overwrites the code in place.
Redefine(m, s, rm) ==
    /\ life[m] = "live" /\ MainIdle /\ Stable /\ defs < MaxDefs
    /\ rm = mask
    /\ LET new == [sig |-> s.sig, va |-> s.va, code |-> defs + 1]
       IN  \E i \in 1..Len(methods) :
               /\ Same(methods[i], new)
               /\ methods' = [methods EXCEPT ![i].code = new.code]
               /\ journal' = [journal EXCEPT ![m] = Append(@, new)]
    /\ defs' = defs + 1
    /\ UNCHANGED <<mask, minArity, maxArity, hasVararg, epoch, table, workerThreads, life, calls>>

\* DEFMETHOD of a new signature.  One with another ref mask, or that would
\* be ambiguous, is refused: its closure is dropped and nothing changes.
Define(m, s, rm) ==
    /\ life[m] = "live" /\ MainIdle /\ Stable /\ defs < MaxDefs
    /\ methods = <<>> \/ rm = mask
    /\ LET new == [sig |-> s.sig, va |-> s.va, code |-> defs + 1]
       IN  /\ \A i \in 1..Len(methods) : ~Same(methods[i], new)
           /\ Unambiguous(methods, new)
           /\ methods' = Append(methods, new) /\ mask' = rm
           /\ SetBounds(Bounds(methods'))
           /\ MethodSetChanged
           /\ journal' = [journal EXCEPT ![m] = Append(@, new)]
    /\ defs' = defs + 1
    /\ UNCHANGED <<workerThreads, life, calls>>

\* Mutant: the closures are released and the methods stay.
KeepMethods(m) == methods

\* The methods left when isolate m's registrations are removed, last first.
Retracted(m) ==
    LET n == Len(journal[m])
        Left[k \in 0..n] == IF k = 0 THEN methods ELSE RemoveFrom(Left[k - 1], journal[m][n + 1 - k])
    IN  Left[n]

\* ~Isolate: the workers are joined, the journal retracted.
MainEnds(m) ==
    /\ life[m] = "live" /\ MainIdle /\ Stable
    /\ methods' = Retracted(m)
    /\ IF methods' = methods
       THEN UNCHANGED <<epoch, minArity, maxArity, hasVararg, table>>
       ELSE SetBounds(Bounds(methods')) /\ MethodSetChanged
    /\ journal' = [journal EXCEPT ![m] = <<>>]
    /\ life' = [life EXCEPT ![m] = "ended"] /\ ic' = [ic EXCEPT ![m] = Cold]
    /\ UNCHANGED <<mask, workerThreads, pc, call, defs>>

\* CALLG: a hit of the inline cache changes nothing; `site` is false for a
\* call that does not use it (a splat call, an argument by reference, three
\* arguments or none).
Hit(i, args) == ic[i].key = args /\ ic[i].epoch = epoch

Begin(i, args, site) ==
    /\ life[i] = "live" /\ pc[i] = "idle" /\ (i \in Mains => MainIdle)
    /\ (site => Len(args) \in 1..2) /\ ~(site /\ Hit(i, args)) /\ ~Pruned(Len(args))
    /\ call' = [call EXCEPT ![i] = [args |-> args, site |-> site]]
    /\ pc' = [pc EXCEPT ![i] = IF MemoOK(Len(args)) THEN "memo" ELSE "full"]
    /\ UNCHANGED <<generic, table, workerThreads, life, journal, ic, defs>>

\* A resolved call fills the inline cache of its site; an unresolved one raises.
Finish(i, found) ==
    /\ ic' = IF call[i].site /\ found > 0
             THEN [ic EXCEPT ![i] = [key |-> call[i].args, code |-> methods[found].code, epoch |-> epoch]]
             ELSE ic
    /\ pc' = [pc EXCEPT ![i] = "idle"]
    /\ call' = [call EXCEPT ![i] = [args |-> <<>>, site |-> FALSE]]

ResolveMemo(i) ==
    /\ pc[i] = "memo"
    /\ LET a     == call[i].args
           valid == IF memoEpoch = epoch THEN memo ELSE EmptyMemo
           found == IF valid[a] # Unset THEN valid[a] ELSE FullResolve(methods, a)
       IN  /\ memo' = [valid EXCEPT ![a] = found] /\ memoEpoch' = epoch
           /\ Finish(i, found)
    /\ UNCHANGED <<generic, workerThreads, life, journal, defs>>

ResolveFully(i) ==
    /\ pc[i] = "full"
    /\ Finish(i, FullResolve(methods, call[i].args))
    /\ UNCHANGED <<generic, table, workerThreads, life, journal, defs>>

Next ==
    \/ \E i \in Isolates : Start(i)
    \/ \E w \in Workers : WorkerEnds(w)
    \/ \E m \in Mains, s \in Signatures, rm \in Masks : Redefine(m, s, rm) \/ Define(m, s, rm)
    \/ \E m \in Mains : MainEnds(m)
    \/ \E i \in Isolates, args \in CallArgs, site \in BOOLEAN : Begin(i, args, site)
    \/ \E i \in Isolates : ResolveMemo(i) \/ ResolveFully(i)

Spec == Init /\ [][Next]_vars

-----------------------------------------------------------------------------
TypeOK ==
    /\ \A i \in 1..Len(methods) : methods[i].code \in 0..MaxDefs
    /\ mask \in Masks /\ defs \in 0..MaxDefs
    /\ epoch \in Nat /\ memoEpoch \in 0..epoch
    /\ memo \in [Keys -> -1..Len(methods)]
    /\ workerThreads \in 0..Cardinality(Workers)
    /\ life \in [Isolates -> {"off", "live", "ended"}]
    /\ pc \in [Isolates -> {"idle", "memo", "full"}]
    /\ \A i \in Isolates : ic[i].epoch \in 0..epoch

\* What is registered and not retracted: the runtime's methods and the journals.
Registered == Range(Natives) \cup UNION {Range(journal[m]) : m \in Mains}

\* No call runs code that was released (isolate.cpp:125-131): the code of a
\* method is a native or a closure that a live isolate's journal keeps.  And
\* what a warm inline cache calls is alive too, and is a definition of the
\* very signature a full resolution selects now, whatever any isolate
\* defined, redefined or retracted since (interpreter.cpp:1154-1170).
CallsLiveCode ==
    /\ \A i \in 1..Len(methods) : methods[i] \in Registered
    /\ \A i \in Isolates : life[i] = "live" /\ ic[i].key # <<>> /\ ic[i].epoch = epoch =>
           LET r == FullResolve(methods, ic[i].key)
           IN  r > 0 /\ [methods[r] EXCEPT !.code = ic[i].code] \in Registered

\* An entry of the memo that resolve would use is what it would compute
\* (generic.cpp:381-397): erasing by swap and pop moves the indices.  And no
\* two threads are in it: the main one only enters when no worker is live
\* (generic.cpp:375-379).
MemoSafe ==
    /\ memoEpoch = epoch => \A a \in Keys : memo[a] # Unset => memo[a] = FullResolve(methods, a)
    /\ \A w \in Workers : pc[w] # "memo"
    /\ Cardinality({i \in Isolates : pc[i] = "memo"}) <= 1

\* Of two variadic methods that apply to a call neither need be the more
\* specific: add_method compares them at one arity, and lets them stand when
\* they are disjoint at it or when a fixed method of that arity is below both.
Undecided(m, n, argc) == m.va /\ n.va /\ ~MoreSpecific(n, m, argc)

\* The method that full_resolve's single pass finds is more specific than
\* every other one that applies, two variadic ones left undecided.
Ordered(ms) ==
    \A a \in ArgTuples :
        LET r == FullResolve(ms, a)
        IN  \A i \in 1..Len(ms) : Applicable(ms[i], a) /\ i # r =>
                MoreSpecific(ms[r], ms[i], Len(a)) \/ Undecided(ms[r], ms[i], Len(a))

\* Ambiguity is detected when a method is defined (design.md:124): a
\* definition that is accepted, whatever the signatures defined before, leaves
\* no call ambiguous but between variadic methods, if there was none.
DefinitionKeepsOrder == [][defs' # defs /\ Ordered(methods) => Ordered(methods')]_vars

\* "An identical `sig` redefines in place. Bumps the epoch."
\* (generic.hpp:79): a call runs the current definition.  The code does not
\* keep this: Redefine leaves the epoch alone, and a site that is warm calls
\* what was replaced.
CallsCurrent ==
    \A i \in Isolates : life[i] = "live" /\ ic[i].key # <<>> /\ ic[i].epoch = epoch =>
        \E j \in 1..Len(methods) : methods[j].code = ic[i].code
=============================================================================
