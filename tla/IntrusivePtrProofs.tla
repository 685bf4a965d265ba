------------------------- MODULE IntrusivePtrProofs -------------------------
(***************************************************************************)
(* The counts are right for any number of pointers and objects.  The       *)
(* argument is about heaps: each method takes a sound heap to a sound      *)
(* heap, hence so does every composition of methods.                       *)
(***************************************************************************)
EXTENDS IntrusivePtr, FiniteSetTheorems, TLAPS

Heap == [ptr : [Handles -> Objects \cup {Null, None}],
         ref_count : [Objects -> Nat],
         live : SUBSET Objects]

Sound(H) ==
    /\ H \in Heap
    /\ \A h \in Handles : H.ptr[h] \in Objects => H.ptr[h] \in H.live
    /\ \A o \in H.live : /\ H.ref_count[o] = Cardinality(PointersTo(H, o))
                         /\ H.ref_count[o] > 0

\* K is H with the one pointer h moved to p.
Moved(H, K, h, p) == K.ptr = [H.ptr EXCEPT ![h] = p]

\* K is H after GetInstance has pointed h, and instance_, at p.
Returned(H, K, h, p) ==
    /\ H.ptr[instance] \in {Null, p}
    /\ K.ptr = [H.ptr EXCEPT ![instance] = p, ![h] = p]

\* Sets of pointers can be counted.
LEMMA PointersFinite ==
    ASSUME NEW H, NEW o
    PROVE  /\ IsFiniteSet(PointersTo(H, o))
           /\ Cardinality(PointersTo(H, o)) \in Nat
<1>1. IsFiniteSet(Members \cup Locals)
  BY PointerConstants, FS_Union
<1>2. IsFiniteSet((Members \cup Locals) \cup {instance})
  BY <1>1, FS_AddElement
<1>3. IsFiniteSet(((Members \cup Locals) \cup {instance}) \cup {temporary})
  BY <1>2, FS_AddElement
<1>4. PointersTo(H, o) \subseteq ((Members \cup Locals) \cup {instance}) \cup {temporary}
  BY DEF PointersTo, Handles
<1> QED BY <1>3, <1>4, FS_Subset, FS_CardinalityType

\* Making a pointer, copy constructor and the last step of an assignment: a
\* handle that points to nothing is pointed at a living object or at null.
LEMMA ConstructSound ==
    ASSUME NEW H, Sound(H), NEW h \in Handles, H.ptr[h] \notin Objects,
           NEW p, p \in H.live \/ p = Null
    PROVE  /\ Sound(Construct(H, h, p))
           /\ Moved(H, Construct(H, h, p), h, p)
<1> DEFINE K == Construct(H, h, p)
<1>1. CASE p = Null
  <2>1. K = Point(H, h, Null)
    BY <1>1, PointerConstants DEF Construct, AddRef
  <2>2. /\ K \in Heap
        /\ K.ptr = [H.ptr EXCEPT ![h] = Null]
        /\ K.live = H.live
        /\ K.ref_count = H.ref_count
    BY <2>1 DEF Point, Sound, Heap
  <2>3. \A o \in H.live : PointersTo(K, o) = PointersTo(H, o)
    BY <2>2, PointerConstants DEF PointersTo, Sound, Heap
  <2> QED BY <2>2, <2>3, <1>1, PointerConstants DEF Sound, Heap, Moved
<1>2. CASE p \in H.live
  <2>1. p \in Objects
    BY <1>2 DEF Sound, Heap
  <2>2. /\ K \in Heap
        /\ K.ptr = [H.ptr EXCEPT ![h] = p]
        /\ K.live = H.live
        /\ K.ref_count = [H.ref_count EXCEPT ![p] = H.ref_count[p] + 1]
    <3> DEFINE P == Point(H, h, p)
    <3>1. P = [ptr |-> [H.ptr EXCEPT ![h] = p], ref_count |-> H.ref_count, live |-> H.live]
      BY DEF Point, Sound, Heap
    <3>2. K = [ptr |-> P.ptr, live |-> P.live,
               ref_count |-> [P.ref_count EXCEPT ![p] = P.ref_count[p] + 1]]
      BY <2>1, <3>1 DEF Construct, AddRef
    <3> QED BY <2>1, <3>1, <3>2 DEF Sound, Heap
  <2>3. PointersTo(K, p) = PointersTo(H, p) \cup {h} /\ h \notin PointersTo(H, p)
    BY <2>1, <2>2 DEF PointersTo, Sound, Heap
  <2>4. Cardinality(PointersTo(K, p)) = Cardinality(PointersTo(H, p)) + 1
    BY <2>3, PointersFinite, FS_AddElement
  <2>5. \A o \in H.live \ {p} : PointersTo(K, o) = PointersTo(H, o)
    BY <2>1, <2>2 DEF PointersTo, Sound, Heap
  <2>6. \A o \in K.live : /\ K.ref_count[o] = Cardinality(PointersTo(K, o))
                          /\ K.ref_count[o] > 0
    <3> TAKE o \in K.live
    <3>1. CASE o = p
      BY <3>1, <1>2, <2>1, <2>2, <2>4 DEF Sound, Heap
    <3>2. CASE o # p
      BY <3>2, <2>2, <2>5 DEF Sound, Heap
    <3> QED BY <3>1, <3>2
  <2>7. \A g \in Handles : K.ptr[g] \in Objects => K.ptr[g] \in K.live
    BY <1>2, <2>2 DEF Sound, Heap
  <2> QED BY <2>2, <2>6, <2>7 DEF Sound, Moved
<1> QED BY <1>1, <1>2

\* The destructor: the object goes exactly when this was its last pointer.
LEMMA DestroySound ==
    ASSUME NEW H, Sound(H), NEW h \in Handles
    PROVE  /\ Sound(Destroy(H, h))
           /\ Moved(H, Destroy(H, h), h, None)
<1> DEFINE K == Destroy(H, h)
           p == H.ptr[h]
<1>1. CASE p \notin Objects
  <2>1. /\ K \in Heap
        /\ K.ptr = [H.ptr EXCEPT ![h] = None]
        /\ K.live = H.live
        /\ K.ref_count = H.ref_count
    BY <1>1 DEF Destroy, Release, Point, Sound, Heap
  <2>2. \A o \in H.live : PointersTo(K, o) = PointersTo(H, o)
    BY <1>1, <2>1, PointerConstants DEF PointersTo, Sound, Heap
  <2> QED BY <2>1, <2>2, PointerConstants DEF Sound, Heap, Moved
<1>2. CASE p \in Objects
  <2>1. p \in H.live /\ H.ref_count[p] = Cardinality(PointersTo(H, p)) /\ H.ref_count[p] > 0
    BY <1>2 DEF Sound
  <2>2. /\ K \in Heap
        /\ K.ptr = [H.ptr EXCEPT ![h] = None]
        /\ K.live = IF H.ref_count[p] = 1 THEN H.live \ {p} ELSE H.live
        /\ K.ref_count = [H.ref_count EXCEPT ![p] = H.ref_count[p] - 1]
    <3> DEFINE R == Release(H, p)
    <3>1. R = [ptr |-> H.ptr,
               ref_count |-> [H.ref_count EXCEPT ![p] = H.ref_count[p] - 1],
               live |-> IF H.ref_count[p] = 1 THEN H.live \ {p} ELSE H.live]
      BY <1>2 DEF Release, Sound, Heap
    <3>2. K = [ptr |-> [R.ptr EXCEPT ![h] = None], ref_count |-> R.ref_count, live |-> R.live]
      BY <3>1 DEF Destroy, Point
    <3>3. [H.ptr EXCEPT ![h] = None] \in [Handles -> Objects \cup {Null, None}]
      BY DEF Sound, Heap
    <3>4. [H.ref_count EXCEPT ![p] = H.ref_count[p] - 1] \in [Objects -> Nat]
      <4>1. H.ref_count[p] \in Nat /\ H.ref_count[p] - 1 \in Nat
        BY <1>2, <2>1 DEF Sound, Heap
      <4> QED BY <4>1 DEF Sound, Heap
    <3> QED BY <3>1, <3>2, <3>3, <3>4 DEF Sound, Heap
  <2>3. PointersTo(K, p) = PointersTo(H, p) \ {h} /\ h \in PointersTo(H, p)
    <3>1. p # None /\ H.ptr[h] = p
      BY <1>2, PointerConstants
    <3>2. \A g \in Handles : K.ptr[g] = IF g = h THEN None ELSE H.ptr[g]
      <4>1. DOMAIN H.ptr = Handles
        BY DEF Sound, Heap
      <4>2. K.ptr = [H.ptr EXCEPT ![h] = None]
        BY <2>2
      <4> QED BY <4>1, <4>2
    <3> HIDE DEF K, p
    <3>3. \A g \in Handles : K.ptr[g] = p <=> H.ptr[g] = p /\ g # h
      BY <3>1, <3>2
    <3>4. PointersTo(K, p) = {g \in Handles : K.ptr[g] = p} /\ PointersTo(H, p) = {g \in Handles : H.ptr[g] = p}
      BY DEF PointersTo
    <3> QED BY <3>1, <3>3, <3>4
  <2>4. Cardinality(PointersTo(K, p)) = Cardinality(PointersTo(H, p)) - 1
    <3>1. IsFiniteSet(PointersTo(H, p)) /\ Cardinality(PointersTo(H, p)) \in Nat
      BY PointersFinite, FS_CardinalityType
    <3> HIDE DEF K, p
    <3> QED BY <2>3, <3>1, FS_RemoveElement
  <2>5. \A o \in H.live \ {p} : PointersTo(K, o) = PointersTo(H, o)
    BY <1>2, <2>2, PointerConstants DEF PointersTo, Sound, Heap
  <2>6. \A o \in K.live : /\ K.ref_count[o] = Cardinality(PointersTo(K, o))
                          /\ K.ref_count[o] > 0
    <3> TAKE o \in K.live
    <3>1. CASE o = p
      BY <3>1, <1>2, <2>1, <2>2, <2>4 DEF Sound, Heap
    <3>2. CASE o # p
      BY <3>2, <1>2, <2>2, <2>5 DEF Sound, Heap
    <3> QED BY <3>1, <3>2
  <2>7. ASSUME NEW g \in Handles, K.ptr[g] \in Objects
        PROVE  K.ptr[g] \in K.live
    <3>1. g # h /\ K.ptr[g] = H.ptr[g] /\ H.ptr[g] \in H.live
      BY <2>2, <2>7, PointerConstants DEF Sound, Heap
    <3>2. CASE H.ptr[g] = p
      <4>1. g \in PointersTo(K, p)
        BY <3>1, <3>2 DEF PointersTo
      <4>2. Cardinality(PointersTo(K, p)) # 0
        BY <4>1, PointersFinite, FS_EmptySet
      <4>3. H.ref_count[p] # 1
        BY <2>1, <2>4, <4>2
      <4> QED BY <4>3, <3>1, <2>2
    <3>3. CASE H.ptr[g] # p
      BY <3>1, <3>3, <2>2
    <3> QED BY <3>2, <3>3
  <2> QED BY <2>2, <2>6, <2>7 DEF Sound, Moved
<1> QED BY <1>1, <1>2

\* operator=: releasing the old object first is safe, since the other pointer
\* keeps its own object alive.
LEMMA AssignSound ==
    ASSUME NEW H, Sound(H), NEW h \in Handles, NEW g \in Handles, H.ptr[g] # None
    PROVE  /\ Sound(Assign(H, h, g))
           /\ Moved(H, Assign(H, h, g), h, H.ptr[g])
<1>1. CASE h = g
  BY <1>1 DEF Assign, Sound, Heap, Moved
<1>2. CASE h # g
  <2> DEFINE D == Destroy(H, h)
  <2>1. Sound(D) /\ D.ptr = [H.ptr EXCEPT ![h] = None]
    BY DestroySound DEF Moved
  <2>2. D.ptr[g] = H.ptr[g] /\ D.ptr[h] = None /\ (H.ptr[g] \in D.live \/ H.ptr[g] = Null)
    BY <1>2, <2>1 DEF Sound, Heap
  <2>3. Assign(H, h, g) = Construct(D, h, H.ptr[g])
    <3>1. Point(Release(H, H.ptr[h]), h, H.ptr[g]) = Point(D, h, H.ptr[g])
      <4> DEFINE R == Release(H, H.ptr[h])
      <4>1. R = [ptr |-> H.ptr, ref_count |-> R.ref_count, live |-> R.live]
        BY DEF Release, Sound, Heap
      <4>2. D = [ptr |-> [H.ptr EXCEPT ![h] = None], ref_count |-> R.ref_count, live |-> R.live]
        BY <4>1 DEF Destroy, Point
      <4>3. Point(R, h, H.ptr[g]) = [ptr |-> [H.ptr EXCEPT ![h] = H.ptr[g]],
                                     ref_count |-> R.ref_count, live |-> R.live]
        BY <4>1 DEF Point
      <4>4. [[H.ptr EXCEPT ![h] = None] EXCEPT ![h] = H.ptr[g]] = [H.ptr EXCEPT ![h] = H.ptr[g]]
        BY DEF Sound, Heap
      <4> HIDE DEF R, D
      <4>5. Point(D, h, H.ptr[g]) = [ptr |-> [[H.ptr EXCEPT ![h] = None] EXCEPT ![h] = H.ptr[g]],
                                     ref_count |-> R.ref_count, live |-> R.live]
        BY <4>2 DEF Point
      <4> QED BY <4>3, <4>4, <4>5 DEF R
    <3> QED BY <3>1, <1>2 DEF Assign, Construct
  <2>4. D.ptr[h] \notin Objects
    BY <2>2, PointerConstants
  <2>5. /\ Sound(Construct(D, h, H.ptr[g]))
        /\ Moved(D, Construct(D, h, H.ptr[g]), h, H.ptr[g])
    <3> HIDE DEF D
    <3> QED BY <2>1, <2>2, <2>4, ConstructSound
  <2>6. [D.ptr EXCEPT ![h] = H.ptr[g]] = [H.ptr EXCEPT ![h] = H.ptr[g]]
    BY <2>1 DEF Sound, Heap
  <2> QED BY <2>3, <2>5, <2>6 DEF Moved
<1> QED BY <1>1, <1>2

-----------------------------------------------------------------------------
(* GetInstance: what it returns, when instance_ is null and when it is not *)

\* IntrusivePtr(new T()).
LEMMA NewSound ==
    ASSUME NEW H, Sound(H), NEW h \in Handles, H.ptr[h] \notin Objects,
           NEW o \in Objects \ H.live
    PROVE  /\ Sound(New(H, h, o))
           /\ Moved(H, New(H, h, o), h, o)
<1> DEFINE G == [ptr |-> H.ptr, ref_count |-> [H.ref_count EXCEPT ![o] = 0],
                 live |-> H.live \cup {o}]
           K == New(H, h, o)
<1>2. Point(G, h, o) = [ptr |-> [H.ptr EXCEPT ![h] = o],
                        ref_count |-> [H.ref_count EXCEPT ![o] = 0], live |-> H.live \cup {o}]
  BY DEF Point
<1>3. K = [ptr |-> [H.ptr EXCEPT ![h] = o],
           ref_count |-> [[H.ref_count EXCEPT ![o] = 0] EXCEPT ![o] = 1],
           live |-> H.live \cup {o}]
  <2>1. [H.ref_count EXCEPT ![o] = 0][o] + 1 = 1
    BY DEF Sound, Heap
  <2>2. K = AddRef(Point(G, h, o), o)
    BY DEF New, Construct
  <2> HIDE DEF G, K
  <2> QED BY <1>2, <2>1, <2>2 DEF AddRef
<1>4. /\ K \in Heap
      /\ K.ptr = [H.ptr EXCEPT ![h] = o]
      /\ K.live = H.live \cup {o}
      /\ K.ref_count[o] = 1
      /\ \A x \in H.live : K.ref_count[x] = H.ref_count[x]
  <2> HIDE DEF K
  <2> QED BY <1>3 DEF Sound, Heap
<1> HIDE DEF K
<1>5. PointersTo(K, o) = {h}
  BY <1>4 DEF PointersTo, Sound, Heap
<1>6. Cardinality(PointersTo(K, o)) = 1
  BY <1>5, FS_Singleton
<1>7. \A x \in H.live : PointersTo(K, x) = PointersTo(H, x)
  BY <1>4 DEF PointersTo, Sound, Heap
<1>8. Sound(K)
  BY <1>4, <1>6, <1>7 DEF Sound, Heap
<1> QED BY <1>4, <1>8 DEF K, Moved

\* instance_ = IntrusivePtr(new T()): the temporary is gone, the object stays.
LEMMA CreateSound ==
    ASSUME NEW H, Sound(H), H.ptr[temporary] = None, H.ptr[instance] = Null,
           NEW o \in Objects \ H.live
    PROVE  /\ Sound(Create(H, o))
           /\ Moved(H, Create(H, o), instance, o)
<1> DEFINE N == New(H, temporary, o)
           A == Assign(N, instance, temporary)
<1>1. temporary \in Handles /\ instance \in Handles /\ instance # temporary
  BY PointerConstants DEF Handles
<1>2. H.ptr[temporary] \notin Objects
  BY PointerConstants
<1>3. Sound(N) /\ N.ptr = [H.ptr EXCEPT ![temporary] = o]
  BY <1>1, <1>2, NewSound DEF Moved
<1>4. N.ptr[temporary] = o /\ o # None
  BY <1>1, <1>3, PointerConstants DEF Sound, Heap
<1> HIDE DEF N
<1>5. Sound(A) /\ A.ptr = [N.ptr EXCEPT ![instance] = o]
  BY <1>1, <1>3, <1>4, AssignSound DEF Moved
<1> HIDE DEF A
<1>6. Sound(Destroy(A, temporary)) /\ Destroy(A, temporary).ptr = [A.ptr EXCEPT ![temporary] = None]
  BY <1>1, <1>5, DestroySound DEF Moved
<1>7. [A.ptr EXCEPT ![temporary] = None] = [H.ptr EXCEPT ![instance] = o]
  BY <1>1, <1>3, <1>5 DEF Sound, Heap
<1> QED BY <1>6, <1>7 DEF Create, A, N, Moved

\* GetInstance returns a pointer to the object of instance_, making it first
\* if there is none, and moves no other pointer.
LEMMA InstanceSound ==
    ASSUME NEW H, Sound(H), H.ptr[temporary] = None, H.ptr[instance] # None,
           NEW h \in Handles, H.ptr[h] = None,
           NEW o \in Objects, H.ptr[instance] = Null => o \notin H.live
    PROVE  /\ Sound(Instance(H, h, o))
           /\ \E p \in Objects : Returned(H, Instance(H, h, o), h, p)
<1> DEFINE C == IF H.ptr[instance] = Null THEN Create(H, o) ELSE H
<1>1. instance \in Handles /\ h # instance
  BY DEF Handles
<1>2. PICK p \in Objects : /\ H.ptr[instance] \in {Null, p}
                          /\ Sound(C)
                          /\ C.ptr = [H.ptr EXCEPT ![instance] = p]
  <2>1. CASE H.ptr[instance] = Null
    BY <2>1, CreateSound DEF Moved
  <2>2. CASE H.ptr[instance] # Null
    BY <2>2, <1>1 DEF Sound, Heap
  <2> QED BY <2>1, <2>2
<1>3. C.ptr[instance] = p /\ C.ptr[h] = None
  BY <1>1, <1>2 DEF Sound, Heap
<1> HIDE DEF C
<1>4. p \in C.live /\ C.ptr[h] \notin Objects
  BY <1>1, <1>2, <1>3, PointerConstants DEF Sound
<1>5. Sound(Construct(C, h, p)) /\ Moved(C, Construct(C, h, p), h, p)
  BY <1>2, <1>4, ConstructSound
<1>6. Instance(H, h, o) = Construct(C, h, p)
  BY <1>3 DEF Instance, Copy, C
<1>7. [C.ptr EXCEPT ![h] = p] = [H.ptr EXCEPT ![instance] = p, ![h] = p]
  BY <1>1, <1>2
<1> QED BY <1>2, <1>5, <1>6, <1>7 DEF Moved, Returned

-----------------------------------------------------------------------------
(* The invariant.  The temporary lives inside a step only; a member is made  *)
(* from instance_, which is never cleared while the process runs.            *)

MembersShare ==
    /\ heap.ptr[temporary] = None
    /\ heap.ptr[instance] # None
    /\ \A m \in Members : heap.ptr[m] # None =>
            heap.ptr[m] \in Objects /\ heap.ptr[m] = heap.ptr[instance]

PointersInv ==
    /\ Sound(heap)
    /\ running \in BOOLEAN
    /\ running => MembersShare

\* What a step must show: the next heap is sound and instance_, once set, stays.
Keeps ==
    /\ PointersInv'
    /\ running' /\ heap.ptr[instance] # Null => heap'.ptr[instance] = heap.ptr[instance]

LEMMA PointersInit == Init => PointersInv
<1> SUFFICES ASSUME Init PROVE PointersInv
  OBVIOUS
<1>1. \A m \in Members : m \in Handles /\ m # instance
  BY PointerConstants DEF Handles
<1>2. instance \in Handles /\ temporary \in Handles /\ instance # temporary
  BY PointerConstants DEF Handles
<1> QED BY <1>1, <1>2, PointerConstants DEF Init, PointersInv, MembersShare, Sound, Heap

\* A step that moves one local, however it does so, keeps the invariant.
LEMMA LocalStep ==
    ASSUME PointersInv, running, NEW h \in Locals, NEW p,
           Sound(heap'), Moved(heap, heap', h, p), UNCHANGED running
    PROVE  Keeps
<1>1. h # temporary /\ h # instance /\ h \notin Members
  BY PointerConstants
<1>2. /\ heap'.ptr[temporary] = heap.ptr[temporary]
      /\ heap'.ptr[instance] = heap.ptr[instance]
      /\ \A m \in Members : heap'.ptr[m] = heap.ptr[m]
  BY <1>1 DEF Moved, PointersInv, Sound, Heap, Handles
<1> QED BY <1>2 DEF Keeps, PointersInv, MembersShare

LEMMA GetInstanceStep ==
    ASSUME PointersInv, running, NEW h \in Locals, GetInstance(h)
    PROVE  Keeps
<1>1. h \in Handles /\ h # temporary /\ h # instance /\ h \notin Members
  BY PointerConstants DEF Handles
<1>2. PICK o \in Objects : Fresh(o) /\ heap' = Instance(heap, h, o)
  BY DEF GetInstance
<1>3. PICK p \in Objects :
        /\ Sound(heap')
        /\ heap.ptr[instance] \in {Null, p}
        /\ heap'.ptr = [heap.ptr EXCEPT ![instance] = p, ![h] = p]
  <2>1. /\ Sound(heap)
        /\ heap.ptr[temporary] = None
        /\ heap.ptr[instance] # None
        /\ heap.ptr[h] = None
        /\ heap.ptr[instance] = Null => o \notin heap.live
    BY <1>2 DEF GetInstance, InScope, Fresh, PointersInv, MembersShare
  <2>2. Sound(heap') /\ \E p \in Objects : Returned(heap, heap', h, p)
    BY <1>1, <1>2, <2>1, InstanceSound
  <2> QED BY <2>2 DEF Returned
<1>4. /\ heap'.ptr[temporary] = None
      /\ heap'.ptr[instance] = p
      /\ \A m \in Members : heap'.ptr[m] = heap.ptr[m]
  BY <1>1, <1>3, PointerConstants DEF PointersInv, MembersShare, Sound, Heap, Handles
<1>5. \A m \in Members : heap.ptr[m] # None => heap.ptr[m] = p
  BY <1>3, PointerConstants DEF PointersInv, MembersShare
<1> QED BY <1>3, <1>4, <1>5, PointerConstants DEF Keeps, PointersInv, MembersShare, GetInstance

LEMMA MakeMemberStep ==
    ASSUME PointersInv, running, NEW m \in Members, MakeMember(m)
    PROVE  Keeps
<1>1. /\ m \in Handles /\ m # temporary /\ m # instance
      /\ temporary \in Handles /\ instance \in Handles /\ temporary # instance
  BY PointerConstants DEF Handles
<1> DEFINE H1 == Construct(heap, m, Null)
           H2(o) == Instance(H1, temporary, o)
           H3(o) == Assign(H2(o), m, temporary)
<1>2. PICK o \in Objects : Fresh(o) /\ heap' = Destroy(H3(o), temporary)
  BY DEF MakeMember
<1>3. heap.ptr[m] = None /\ heap.ptr[m] \notin Objects
  BY PointerConstants DEF MakeMember, InScope
<1>4. Sound(H1) /\ Moved(heap, H1, m, Null)
  BY <1>1, <1>3, ConstructSound DEF PointersInv
<1>5. /\ H1.ptr[temporary] = None
      /\ H1.ptr[instance] = heap.ptr[instance]
      /\ H1.live = heap.live
  <2>1. H1 = Point(heap, m, Null)
    BY PointerConstants DEF Construct, AddRef
  <2>2. H1.live = heap.live
    BY <2>1 DEF Point, PointersInv, Sound, Heap
  <2> HIDE DEF H1
  <2> QED BY <1>1, <1>4, <2>2 DEF Moved, PointersInv, MembersShare, Sound, Heap
<1> HIDE DEF H1
<1>6. PICK p \in Objects :
        /\ Sound(H2(o))
        /\ heap.ptr[instance] \in {Null, p}
        /\ H2(o).ptr = [H1.ptr EXCEPT ![instance] = p, ![temporary] = p]
  <2>1. H1.ptr[instance] # None /\ (H1.ptr[instance] = Null => o \notin H1.live)
    BY <1>2, <1>5 DEF Fresh, PointersInv, MembersShare
  <2>2. Sound(H2(o)) /\ \E p \in Objects : Returned(H1, H2(o), temporary, p)
    BY <1>1, <1>4, <1>5, <2>1, InstanceSound
  <2> QED BY <2>2, <1>5 DEF Returned
<1>7. H2(o).ptr[temporary] = p /\ p # None
  BY <1>1, <1>4, <1>6, PointerConstants DEF Sound, Heap
<1> HIDE DEF H2
<1>8. Sound(H3(o)) /\ H3(o).ptr = [H2(o).ptr EXCEPT ![m] = p]
  BY <1>1, <1>6, <1>7, AssignSound DEF Moved
<1> HIDE DEF H3
<1>9. Sound(heap') /\ heap'.ptr = [H3(o).ptr EXCEPT ![temporary] = None]
  BY <1>1, <1>2, <1>8, DestroySound DEF Moved
<1>10. /\ heap'.ptr[temporary] = None
       /\ heap'.ptr[instance] = p
       /\ heap'.ptr[m] = p
       /\ \A n \in Members \ {m} : heap'.ptr[n] = heap.ptr[n]
  <2>1. \A n \in Members : n \in Handles /\ n # temporary /\ n # instance
    BY PointerConstants DEF Handles
  <2> QED BY <2>1, <1>1, <1>4, <1>6, <1>8, <1>9 DEF Moved, PointersInv, Sound, Heap
<1>11. \A n \in Members : heap.ptr[n] # None => heap.ptr[n] = p
  BY <1>6, PointerConstants DEF PointersInv, MembersShare
<1>12. \A n \in Members : heap'.ptr[n] # None => heap'.ptr[n] = p
  BY <1>10, <1>11
<1> QED
  BY <1>6, <1>9, <1>10, <1>12, PointerConstants DEF Keeps, PointersInv, MembersShare, MakeMember

LEMMA MakeLocalStep ==
    ASSUME PointersInv, running, NEW h \in Locals, MakeLocal(h)
    PROVE  Keeps
<1>1. h \in Handles /\ heap.ptr[h] \notin Objects /\ Sound(heap)
  BY PointerConstants DEF Handles, MakeLocal, InScope, PointersInv
<1>2. CASE heap' = Construct(heap, h, Null)
  <2>1. Sound(heap') /\ Moved(heap, heap', h, Null)
    BY <1>1, <1>2, ConstructSound
  <2> QED BY <2>1, LocalStep DEF MakeLocal
<1>3. CASE \E o \in Objects \ heap.live : heap' = New(heap, h, o)
  <2> PICK o \in Objects \ heap.live : heap' = New(heap, h, o)
    BY <1>3
  <2>1. Sound(heap') /\ Moved(heap, heap', h, o)
    BY <1>1, NewSound
  <2> QED BY <2>1, LocalStep DEF MakeLocal
<1> QED BY <1>2, <1>3 DEF MakeLocal

LEMMA CopyLocalStep ==
    ASSUME PointersInv, running, NEW h \in Locals, NEW g \in Handles, CopyLocal(h, g)
    PROVE  Keeps
<1> DEFINE p == heap.ptr[g]
<1>1. /\ h \in Handles /\ heap.ptr[h] \notin Objects
      /\ Sound(heap)
      /\ p \in heap.live \/ p = Null
  BY PointerConstants DEF Handles, CopyLocal, InScope, PointersInv, Sound, Heap
<1>2. heap' = Construct(heap, h, p)
  BY DEF CopyLocal, Copy
<1> HIDE DEF p
<1>3. Sound(heap') /\ Moved(heap, heap', h, p)
  BY <1>1, <1>2, ConstructSound
<1> QED BY <1>3, LocalStep DEF CopyLocal

LEMMA AssignLocalStep ==
    ASSUME PointersInv, running, NEW h \in Locals, NEW g \in Handles, AssignLocal(h, g)
    PROVE  Keeps
<1>1. h \in Handles /\ heap.ptr[g] # None /\ Sound(heap) /\ heap' = Assign(heap, h, g)
  BY DEF Handles, AssignLocal, InScope, PointersInv
<1>2. Sound(heap') /\ Moved(heap, heap', h, heap.ptr[g])
  BY <1>1, AssignSound
<1> QED BY <1>2, LocalStep DEF AssignLocal

LEMMA EndOfScopeStep ==
    ASSUME PointersInv, running, NEW h \in Locals \cup Members, EndOfScope(h)
    PROVE  Keeps
<1>1. h \in Handles /\ h # temporary /\ h # instance /\ Sound(heap) /\ heap' = Destroy(heap, h)
  BY PointerConstants DEF Handles, EndOfScope, PointersInv
<1>2. Sound(heap') /\ heap'.ptr = [heap.ptr EXCEPT ![h] = None]
  BY <1>1, DestroySound DEF Moved
<1>3. /\ heap'.ptr[temporary] = heap.ptr[temporary]
      /\ heap'.ptr[instance] = heap.ptr[instance]
      /\ \A m \in Members : heap'.ptr[m] \in {heap.ptr[m], None}
  BY <1>1, <1>2 DEF PointersInv, Sound, Heap, Handles
<1> QED BY <1>2, <1>3 DEF Keeps, PointersInv, MembersShare, EndOfScope

LEMMA PointersNext ==
    ASSUME PointersInv, [Next]_vars
    PROVE  Keeps
<1>1. CASE running /\ \E h \in Locals : GetInstance(h) \/ MakeLocal(h)
  BY <1>1, GetInstanceStep, MakeLocalStep
<1>2. CASE running /\ \E m \in Members : MakeMember(m)
  BY <1>2, MakeMemberStep
<1>3. CASE running /\ \E h \in Locals, g \in Handles : CopyLocal(h, g) \/ AssignLocal(h, g)
  BY <1>3, CopyLocalStep, AssignLocalStep
<1>4. CASE running /\ \E h \in Locals \cup Members : EndOfScope(h)
  BY <1>4, EndOfScopeStep
<1>5. CASE EndOfProcess
  BY <1>5, DestroySound DEF EndOfProcess, Keeps, PointersInv, Handles
<1>6. CASE UNCHANGED vars
  BY <1>6 DEF vars, Keeps, PointersInv, MembersShare
<1> QED BY <1>1, <1>2, <1>3, <1>4, <1>5, <1>6 DEF Next

\* IntrusivePtr and RefCounted: in every reachable state every pointer is
\* counted, and the registry's members share one object.
THEOREM PointersCorrect == Spec => []PointersInv
<1>1. PointersInv /\ [Next]_vars => PointersInv'
  BY PointersNext DEF Keeps
<1> QED BY <1>1, PointersInit, PTL DEF Spec

\* Counts are never negative, whatever is copied and destroyed.
THEOREM PointersTyped == Spec => []PointersTypeOK
<1>1. PointersInv => PointersTypeOK
  BY DEF PointersInv, Sound, Heap, PointersTypeOK
<1> QED BY <1>1, PointersCorrect, PTL

\* RefCounted: the count is the number of pointers.
THEOREM CountsPointers == Spec => []CountExact
<1>1. PointersInv => CountExact
  BY DEF PointersInv, Sound, CountExact
<1> QED BY <1>1, PointersCorrect, PTL

\* IntrusivePtr::operator->: no pointer to a deleted object.
THEOREM PointersSafe == Spec => []NoDangling
<1>1. PointersInv => NoDangling
  BY DEF PointersInv, Sound, NoDangling
<1> QED BY <1>1, PointersCorrect, PTL

\* RefCounted::release: an object without pointers has been deleted.
THEOREM NothingForgotten == Spec => []DeletedWithLast
<1>1. PointersInv => DeletedWithLast
  <2> SUFFICES ASSUME PointersInv, NEW o \in heap.live, PointersTo(heap, o) = {}
               PROVE  FALSE
    BY DEF DeletedWithLast
  <2>1. Cardinality(PointersTo(heap, o)) = 0
    BY FS_EmptySet
  <2> QED BY <2>1 DEF PointersInv, Sound
<1> QED BY <1>1, PointersCorrect, PTL

\* GetInstance: one object for the life of the process.
THEOREM OneInstanceForever == Spec => OneInstance
<1> DEFINE Step == running' =>
              /\ heap.ptr[instance] # Null => heap'.ptr[instance] = heap.ptr[instance]
              /\ \A m \in Members : heap'.ptr[m] \in {None, heap'.ptr[instance]}
<1>1. ASSUME PointersInv, [Next]_vars PROVE [Step]_vars
  BY <1>1, PointersNext DEF Keeps, PointersInv, MembersShare
<1>2. Spec => [][Step]_vars
  BY <1>1, PointersCorrect, PTL DEF Spec
<1> QED BY <1>2 DEF OneInstance

=============================================================================
