---------------------------- MODULE IntrusivePtr ----------------------------
(***************************************************************************)
(* The counted pointers that keep the singletons alive                     *)
(* (src/includes/IntrusivePtr.h, src/src/class/RefCounted.cpp) and         *)
(* GetInstance, which hands them out.  The operators are the methods, each *)
(* a function from heap to heap; a constructor or a call that runs several *)
(* of them is their composition.  Everyone and Channel do not share        *)
(* objects, so one class is enough.                                        *)
(*                                                                         *)
(* The clients use all that the template offers.  The server itself only   *)
(* makes objects in GetInstance and only assigns to pointers still null.   *)
(***************************************************************************)
EXTENDS Integers, FiniteSets

CONSTANTS
    Objects,    \* what new may return
    Members,    \* user_, everyone_: made by a constructor, never reassigned
    Locals,     \* eve, tmp and their like in the functions being run
    instance,   \* instance_, the static one
    temporary,  \* the unnamed one of an expression
    Null,       \* what a pointer to nothing holds
    None        \* the pointer itself is out of scope

Handles == Members \cup Locals \cup {instance, temporary}

ASSUME PointerConstants ==
    /\ IsFiniteSet(Members) /\ IsFiniteSet(Locals)
    /\ Null \notin Objects /\ None \notin Objects /\ Null # None
    /\ instance # temporary
    /\ Members \cap Locals = {}
    /\ {instance, temporary} \cap (Members \cup Locals) = {}

VARIABLES
    heap,       \* ptr of every handle, ref_count of every object, those not deleted
    running

vars == <<heap, running>>

\* instance_ is initialised before main.
Init ==
    /\ heap = [ptr |-> [h \in Handles |-> IF h = instance THEN Null ELSE None],
               ref_count |-> [o \in Objects |-> 0],
               live |-> {}]
    /\ running = TRUE

-----------------------------------------------------------------------------
(* RefCounted *)

AddRef(H, p) ==
    IF p \in Objects THEN [H EXCEPT !.ref_count = [@ EXCEPT ![p] = H.ref_count[p] + 1]] ELSE H

Release(H, p) ==
    IF p \in Objects
      THEN [H EXCEPT !.ref_count = [@ EXCEPT ![p] = H.ref_count[p] - 1],
                     !.live = IF H.ref_count[p] = 1 THEN @ \ {p} ELSE @]
      ELSE H

(* IntrusivePtr *)

Point(H, h, p) == [H EXCEPT !.ptr = [@ EXCEPT ![h] = p]]

Construct(H, h, p) == AddRef(Point(H, h, p), p)

\* IntrusivePtr(new T): the constructor of T starts the count at zero.
New(H, h, o) ==
    Construct([ptr |-> H.ptr, ref_count |-> [H.ref_count EXCEPT ![o] = 0],
               live |-> H.live \cup {o}], h, o)

CopyUncounted(H, h, g) ==             \* mutant: the copy is not counted
    Point(H, h, H.ptr[g])

Copy(H, h, g) == Construct(H, h, H.ptr[g])

AssignUncounted(H, h, g) ==           \* mutant: addRef is forgotten
    IF h = g THEN H ELSE Point(Release(H, H.ptr[h]), h, H.ptr[g])

AssignUnchecked(H, h, g) ==           \* mutant: no test for this != &other
    Construct(Release(H, H.ptr[h]), h, H.ptr[g])

Assign(H, h, g) ==
    IF h = g THEN H ELSE Construct(Release(H, H.ptr[h]), h, H.ptr[g])

DestroyUnreleased(H, h) ==            \* mutant: the destructor does not release
    Point(H, h, None)

Destroy(H, h) == Point(Release(H, H.ptr[h]), h, None)

-----------------------------------------------------------------------------
(* GetInstance and its callers *)

InScope(h) == heap.ptr[h] # None
Fresh(o)   == heap.ptr[instance] = Null => o \notin heap.live

\* instance_ = IntrusivePtr<T>(new T()): a temporary, an assignment, its end.
Create(H, o) == Destroy(Assign(New(H, temporary, o), instance, temporary), temporary)

InstanceEachTime(H, h, o) ==          \* mutant: instance_ is not looked at
    Copy(Create(H, o), h, instance)

Instance(H, h, o) ==
    Copy(IF H.ptr[instance] = Null THEN Create(H, o) ELSE H, h, instance)

\* A local initialised with GetInstance(), or its result used in an expression.
GetInstance(h) ==
    /\ ~InScope(h)
    /\ \E o \in Objects : Fresh(o) /\ heap' = Instance(heap, h, o)
    /\ UNCHANGED running

\* user_ = GetInstance() in a constructor: the member is null until then.
MakeMember(m) ==
    /\ ~InScope(m)
    /\ \E o \in Objects :
        /\ Fresh(o)
        /\ heap' = Destroy(Assign(Instance(Construct(heap, m, Null), temporary, o),
                                  m, temporary), temporary)
    /\ UNCHANGED running

\* Any other local: empty, or the first pointer to an object of its own.
MakeLocal(h) ==
    /\ ~InScope(h)
    /\ \/ heap' = Construct(heap, h, Null)
       \/ \E o \in Objects \ heap.live : heap' = New(heap, h, o)
    /\ UNCHANGED running

CopyLocal(h, g) ==
    /\ ~InScope(h) /\ InScope(g)
    /\ heap' = Copy(heap, h, g)
    /\ UNCHANGED running

AssignLocal(h, g) ==
    /\ InScope(h) /\ InScope(g)
    /\ heap' = Assign(heap, h, g)
    /\ UNCHANGED running

\* The end of a scope, in any order; of a member, with what it belongs to.
EndOfScope(h) ==
    /\ InScope(h)
    /\ heap' = Destroy(heap, h)
    /\ UNCHANGED running

\* main returns, or Exit calls exit(0) with members and locals still there:
\* only the static pointer is destroyed.
EndOfProcess ==
    /\ heap' = Destroy(heap, instance)
    /\ running' = FALSE

Next ==
    /\ running
    /\ \/ \E h \in Locals : GetInstance(h) \/ MakeLocal(h)
       \/ \E m \in Members : MakeMember(m)
       \/ \E h \in Locals, g \in Handles : CopyLocal(h, g) \/ AssignLocal(h, g)
       \/ \E h \in Locals \cup Members : EndOfScope(h)
       \/ EndOfProcess

Spec == Init /\ [][Next]_vars

-----------------------------------------------------------------------------
(* Properties *)

PointersTypeOK ==
    /\ heap.ptr \in [Handles -> Objects \cup {Null, None}]
    /\ heap.ref_count \in [Objects -> Nat]
    /\ heap.live \subseteq Objects
    /\ running \in BOOLEAN

PointersTo(H, o) == {h \in Handles : H.ptr[h] = o}

\* Whatever was copied, assigned (to itself too) and destroyed in whatever
\* order: the count an object carries is the number of pointers to it.
CountExact ==
    \A o \in heap.live : heap.ref_count[o] = Cardinality(PointersTo(heap, o))

\* operator-> never reaches a deleted object: no pointer outlives what it
\* points to, not even those left behind by exit(0).
NoDangling == \A h \in Handles : heap.ptr[h] \in Objects => heap.ptr[h] \in heap.live

\* An object is deleted with its last pointer, neither kept nor forgotten.
DeletedWithLast == \A o \in heap.live : PointersTo(heap, o) # {}

\* There is one registry: instance_ never changes while the process runs, and
\* every constructor was given that very object.
OneInstance ==
    [][running' =>
          /\ heap.ptr[instance] # Null => heap'.ptr[instance] = heap.ptr[instance]
          /\ \A m \in Members : heap'.ptr[m] \in {None, heap'.ptr[instance]}]_vars

=============================================================================
