-------------------------- MODULE TaskKernelProofs ---------------------------
(***************************************************************************)
(* Type correctness of the task kernel, the consistency of its scheduling  *)
(* data and the completeness of its dispatching, for any number of tasks,  *)
(* priorities, objects and nested handlers.                                *)
(***************************************************************************)
EXTENDS TaskKernel, FiniteSetTheorems, WellFoundedInduction, TLAPS

(* The ready queue: every operation on a task queue and on the ready queue *)
(* keeps the scheduling data consistent: one lemma per operation, for      *)
(* every number of tasks and of priorities.  The induction over the        *)
(* natural numbers is stated with a set in the place of a predicate.       *)

(* A non-empty set of numbers below N has a least element.                 *)
LEMMA LeastElement ==
  ASSUME NEW N \in Nat, NEW S \in SUBSET (0 .. N - 1), S # {}
  PROVE  \E x \in S : \A y \in S : x <= y
<1> DEFINE I == 0 .. N - 1
           T == {0 .. x : x \in S}
<1>1. IsWellFoundedOn(StrictSubsetOrdering(I), SUBSET I)
  <2>1. IsFiniteSet(I)
    BY FS_Interval
  <2>2. FiniteSubsetsOf(I) = SUBSET I
    BY <2>1, FS_FiniteSubsetsOfFinite
  <2> QED BY <2>2, FS_StrictSubsetOrderingWellFounded
<1>2. \A x \in S : 0 .. x \subseteq I
  OBVIOUS
<1>3. T \subseteq SUBSET I /\ T # {}
  <2>1. T \subseteq SUBSET I
    BY <1>2
  <2>2. T # {}
    <3>1. PICK x \in S : TRUE
      OBVIOUS
    <3>2. 0 .. x \in T
      OBVIOUS
    <3> QED BY <3>2
  <2> QED BY <2>1, <2>2
<1>4. PICK m \in T : \A u \in T : ~ (<<u, m>> \in StrictSubsetOrdering(I))
  <2> HIDE DEF T, I
  <2> QED BY <1>1, <1>3, WFMin
<1>5. PICK x \in S : m = 0 .. x
  BY <1>4
<1>6. ASSUME NEW y \in S, y < x PROVE FALSE
  <2>1. 0 .. y \in T
    OBVIOUS
  <2>2. 0 .. y \in SUBSET I /\ 0 .. x \in SUBSET I
    BY <1>2
  <2>3. 0 .. y \subseteq 0 .. x /\ x \in 0 .. x /\ x \notin 0 .. y
    BY <1>6
  <2>4. <<0 .. y, 0 .. x>> \in StrictSubsetOrdering(I)
    BY <2>2, <2>3 DEF StrictSubsetOrdering
  <2> QED BY <2>1, <2>4, <1>4, <1>5
<1> QED BY <1>6

(* Induction: a set that has 0, and the successor of each of its numbers   *)
(* up to N, has all numbers up to N.                                       *)
LEMMA SetInduction ==
  ASSUME NEW N \in Nat, NEW S, 0 \in S, \A n \in 0 .. N - 1 : n \in S => n + 1 \in S
  PROVE  0 .. N \subseteq S
<1> DEFINE Missing == {n \in 0 .. N : n \notin S}
<1>1. SUFFICES ASSUME Missing # {} PROVE FALSE
  OBVIOUS
<1>2. N + 1 \in Nat /\ Missing \in SUBSET (0 .. (N + 1) - 1)
  OBVIOUS
<1>3. PICK x \in Missing : \A y \in Missing : x <= y
  <2> HIDE DEF Missing
  <2> QED BY <1>1, <1>2, LeastElement
<1>4. x # 0 /\ x - 1 \in 0 .. N - 1
  BY <1>3
<1>5. x - 1 \in S
  BY <1>3, <1>4
<1> QED BY <1>3, <1>4, <1>5
-----------------------------------------------------------------------------
(* Deleting a task keeps the type of the queue, wherever the task is.      *)
LEMMA DeleteType ==
  ASSUME NEW T, NEW q \in Seq(T), NEW t
  PROVE  Delete(q, t) \in Seq(T)
<1> DEFINE n == CHOOSE i \in 1 .. Len(q) : q[i] = t
           d == [i \in 1 .. Len(q) - 1 |-> IF i < n THEN q[i] ELSE q[i + 1]]
<1>1. \A i \in 1 .. Len(q) - 1 : d[i] \in T
  <2> TAKE i \in 1 .. Len(q) - 1
  <2>1. q[i] \in T /\ q[i + 1] \in T
    OBVIOUS
  <2> HIDE DEF n
  <2> QED BY <2>1
<1>2. d \in [1 .. Len(q) - 1 -> T]
  <2> HIDE DEF n
  <2> QED BY <1>1
<1>3. CASE Len(q) = 0
  <2>1. d = <<>>
    BY <1>3
  <2> QED BY <2>1 DEF Delete
<1>4. CASE Len(q) # 0
  <2>1. Len(q) - 1 \in Nat
    BY <1>4
  <2>2. d \in Seq(T)
    <3> HIDE DEF d
    <3> QED BY <2>1, <1>2
  <2> QED BY <2>2 DEF Delete
<1> QED BY <1>3, <1>4

(* Deleting a task that is in the queue once removes it and nothing else,  *)
(* and changes the head only when it was the head.                         *)
LEMMA DeleteProperties ==
  ASSUME NEW T, NEW q \in Seq(T), NEW t, Member(q, t), NoDuplicate(q)
  PROVE  /\ Delete(q, t) \in Seq(T)
         /\ Len(Delete(q, t)) = Len(q) - 1
         /\ NoDuplicate(Delete(q, t))
         /\ \A u : Member(Delete(q, t), u) <=> Member(q, u) /\ u # t
         /\ q[1] # t => Delete(q, t) # <<>> /\ Delete(q, t)[1] = q[1]
<1> DEFINE n == CHOOSE i \in 1 .. Len(q) : q[i] = t
           d == Delete(q, t)
<1>1. n \in 1 .. Len(q) /\ q[n] = t
  BY DEF Member
<1>2. d \in Seq(T)
  BY DeleteType
<1>3. /\ DOMAIN d = 1 .. Len(q) - 1
      /\ \A i \in 1 .. Len(q) - 1 : d[i] = IF i < n THEN q[i] ELSE q[i + 1]
  BY DEF Delete
<1>4. Len(d) = Len(q) - 1
  BY <1>1, <1>2, <1>3
<1> HIDE DEF n, d
<1>5. NoDuplicate(d)
  BY <1>1, <1>3, <1>4 DEF NoDuplicate
<1>6. ASSUME NEW u PROVE Member(d, u) <=> Member(q, u) /\ u # t
  <2>1. ASSUME Member(d, u) PROVE Member(q, u) /\ u # t
    <3>1. PICK i \in 1 .. Len(q) - 1 : d[i] = u
      BY <2>1, <1>4 DEF Member
    <3>2. CASE i < n
      BY <3>1, <3>2, <1>1, <1>3 DEF Member, NoDuplicate
    <3>3. CASE ~ i < n
      <4>1. i + 1 \in 1 .. Len(q) /\ i + 1 # n /\ q[i + 1] = u
        BY <3>1, <3>3, <1>1, <1>3
      <4> QED BY <4>1, <1>1 DEF Member, NoDuplicate
    <3> QED BY <3>2, <3>3
  <2>2. ASSUME Member(q, u), u # t PROVE Member(d, u)
    <3>1. PICK i \in 1 .. Len(q) : q[i] = u
      BY <2>2 DEF Member
    <3>2. CASE i < n
      <4>1. i \in 1 .. Len(d) /\ d[i] = u
        BY <3>1, <3>2, <1>1, <1>3, <1>4
      <4> QED BY <4>1 DEF Member
    <3>3. CASE n < i
      <4>1. i - 1 \in 1 .. Len(d) /\ d[i - 1] = u
        BY <3>1, <3>3, <1>1, <1>3, <1>4
      <4> QED BY <4>1 DEF Member
    <3> QED BY <3>1, <3>2, <3>3, <2>2, <1>1
  <2> QED BY <2>1, <2>2
<1>7. q[1] # t => d # <<>> /\ d[1] = q[1]
  <2> SUFFICES ASSUME q[1] # t PROVE d # <<>> /\ d[1] = q[1]
    OBVIOUS
  <2>1. 1 < n /\ 1 \in 1 .. Len(q) - 1
    BY <1>1
  <2>2. d[1] = q[1]
    BY <2>1, <1>3
  <2> QED BY <2>1, <2>2, <1>2, <1>4
<1> QED BY <1>2, <1>4, <1>5, <1>6, <1>7 DEF d

(* Linking a task in at the tail.                                          *)
LEMMA AppendQueue ==
  ASSUME NEW T, NEW q \in Seq(T), NEW t \in T
  PROVE  /\ Append(q, t) \in Seq(T) /\ Append(q, t) # <<>>
         /\ \A u : Member(Append(q, t), u) <=> Member(q, u) \/ u = t
         /\ NoDuplicate(q) /\ ~ Member(q, t) => NoDuplicate(Append(q, t))
         /\ Append(q, t)[1] = IF q = <<>> THEN t ELSE q[1]
<1> DEFINE a == Append(q, t)
<1>1. /\ a \in Seq(T) /\ Len(a) = Len(q) + 1 /\ a # <<>>
      /\ \A i \in 1 .. Len(q) : a[i] = q[i]
      /\ a[Len(q) + 1] = t
  OBVIOUS
<1> HIDE DEF a
<1>2. ASSUME NEW u PROVE Member(a, u) <=> Member(q, u) \/ u = t
  <2>1. Member(a, u) => Member(q, u) \/ u = t
    BY <1>1 DEF Member
  <2>2. Member(q, u) => Member(a, u)
    BY <1>1 DEF Member
  <2>3. Member(a, t)
    <3>1. Len(q) + 1 \in 1 .. Len(a)
      BY <1>1
    <3> QED BY <3>1, <1>1 DEF Member
  <2> QED BY <2>1, <2>2, <2>3
<1>3. NoDuplicate(q) /\ ~ Member(q, t) => NoDuplicate(a)
  BY <1>1 DEF NoDuplicate, Member
<1>4. a[1] = IF q = <<>> THEN t ELSE q[1]
  BY <1>1
<1> QED BY <1>1, <1>2, <1>3, <1>4 DEF a

(* Linking a task in at any place.                                         *)
LEMMA InsertBeforeProperties ==
  ASSUME NEW T, NEW q \in Seq(T), NEW t \in T, NEW n \in 1 .. Len(q) + 1
  PROVE  /\ InsertBefore(q, n, t) \in Seq(T)
         /\ \A u : Member(InsertBefore(q, n, t), u) <=> Member(q, u) \/ u = t
         /\ NoDuplicate(q) /\ ~ Member(q, t) => NoDuplicate(InsertBefore(q, n, t))
<1> DEFINE a == InsertBefore(q, n, t)
<1>1. /\ DOMAIN a = 1 .. Len(q) + 1
      /\ \A i \in 1 .. Len(q) + 1 :
            a[i] = IF i < n THEN q[i] ELSE IF i = n THEN t ELSE q[i - 1]
  BY DEF InsertBefore
<1>2. a \in Seq(T)
  <2>1. \A i \in 1 .. Len(q) + 1 :
          (IF i < n THEN q[i] ELSE IF i = n THEN t ELSE q[i - 1]) \in T
    OBVIOUS
  <2>2. a \in [1 .. Len(q) + 1 -> T]
    BY <2>1 DEF InsertBefore
  <2> QED BY <2>2
<1>3. Len(a) = Len(q) + 1
  BY <1>1, <1>2
<1> HIDE DEF a
<1>4. ASSUME NEW u PROVE Member(a, u) <=> Member(q, u) \/ u = t
  <2>1. ASSUME Member(a, u) PROVE Member(q, u) \/ u = t
    <3>1. PICK i \in 1 .. Len(q) + 1 : a[i] = u
      BY <2>1, <1>3 DEF Member
    <3>2. CASE i < n
      BY <3>1, <3>2, <1>1 DEF Member
    <3>3. CASE n < i
      <4>1. i - 1 \in 1 .. Len(q) /\ q[i - 1] = u
        BY <3>1, <3>3, <1>1
      <4> QED BY <4>1 DEF Member
    <3> QED BY <3>1, <3>2, <3>3, <1>1
  <2>2. ASSUME Member(q, u) PROVE Member(a, u)
    <3>1. PICK i \in 1 .. Len(q) : q[i] = u
      BY <2>2 DEF Member
    <3>2. CASE i < n
      BY <3>1, <3>2, <1>1, <1>3 DEF Member
    <3>3. CASE n <= i
      <4>1. i + 1 \in 1 .. Len(a) /\ a[i + 1] = u
        BY <3>1, <3>3, <1>1, <1>3
      <4> QED BY <4>1 DEF Member
    <3> QED BY <3>2, <3>3
  <2>3. Member(a, t)
    BY <1>1, <1>3 DEF Member
  <2> QED BY <2>1, <2>2, <2>3
<1>5. NoDuplicate(q) /\ ~ Member(q, t) => NoDuplicate(a)
  <2> SUFFICES ASSUME NoDuplicate(q), ~ Member(q, t),
                      NEW i \in 1 .. Len(q) + 1, NEW j \in 1 .. Len(q) + 1,
                      a[i] = a[j], i < j
               PROVE  FALSE
    BY <1>3 DEF NoDuplicate
  <2> DEFINE at(k) == IF k < n THEN k ELSE k - 1
  <2>1. \A k \in 1 .. Len(q) + 1 : k # n => at(k) \in 1 .. Len(q) /\ a[k] = q[at(k)]
    BY <1>1
  <2>2. CASE i = n \/ j = n
    BY <2>1, <2>2, <1>1 DEF Member
  <2>3. CASE i # n /\ j # n
    <3>1. at(i) # at(j)
      BY <2>3
    <3> QED BY <2>1, <2>3, <3>1 DEF NoDuplicate
  <2> QED BY <2>2, <2>3
<1> QED BY <1>2, <1>4, <1>5 DEF a

(* Linking a task in at the head.                                          *)
LEMMA InsertHeadProperties ==
  ASSUME NEW T, NEW q \in Seq(T), NEW t \in T
  PROVE  /\ InsertHead(q, t) \in Seq(T) /\ InsertHead(q, t) # <<>>
         /\ \A u : Member(InsertHead(q, t), u) <=> Member(q, u) \/ u = t
         /\ NoDuplicate(q) /\ ~ Member(q, t) => NoDuplicate(InsertHead(q, t))
         /\ InsertHead(q, t)[1] = t
<1>1. 1 \in 1 .. Len(q) + 1
  OBVIOUS
<1>2. InsertHead(q, t) = InsertBefore(q, 1, t)
  BY DEF InsertHead, InsertBefore
<1>3. InsertHead(q, t)[1] = t /\ InsertHead(q, t) # <<>>
  BY <1>1 DEF InsertHead
<1> HIDE DEF InsertHead
<1> QED BY <1>1, <1>2, <1>3, InsertBeforeProperties

(* There is a place for the task, whether or not the queue is in order.    *)
LEMMA InsertPointExists ==
  ASSUME NEW T, NEW q \in Seq(T), NEW rank \in [T -> Nat], NEW t \in T
  PROVE  \E n \in 1 .. Len(q) + 1 : IsInsertPoint(q, rank, t, n)
<1> DEFINE L == {i \in 1 .. Len(q) : rank[t] < rank[q[i]]}
<1>1. CASE L = {}
  <2>1. \A i \in 1 .. Len(q) : rank[q[i]] <= rank[t]
    <3> TAKE i \in 1 .. Len(q)
    <3>1. q[i] \in T /\ rank[q[i]] \in Nat /\ rank[t] \in Nat
      OBVIOUS
    <3> QED BY <3>1, <1>1
  <2>2. IsInsertPoint(q, rank, t, Len(q) + 1)
    BY <2>1 DEF IsInsertPoint
  <2> QED BY <2>2
<1>2. CASE L # {}
  <2>1. Len(q) + 1 \in Nat /\ L \in SUBSET (0 .. (Len(q) + 1) - 1)
    OBVIOUS
  <2>2. PICK n \in L : \A i \in L : n <= i
    <3> HIDE DEF L
    <3> QED BY <2>1, <1>2, LeastElement
  <2>3. \A i \in 1 .. n - 1 : rank[q[i]] <= rank[t]
    <3> TAKE i \in 1 .. n - 1
    <3>1. i \in 1 .. Len(q) /\ i \notin L
      BY <2>2
    <3>2. q[i] \in T /\ rank[q[i]] \in Nat /\ rank[t] \in Nat
      BY <3>1
    <3> QED BY <3>1, <3>2
  <2> QED BY <2>2, <2>3 DEF IsInsertPoint
<1> QED BY <1>1, <1>2

(* queue_insert_tpri adds its task and no other.                           *)
LEMMA InsertTpriProperties ==
  ASSUME NEW T, NEW q \in Seq(T), NEW rank \in [T -> Nat], NEW t \in T
  PROVE  /\ InsertTpri(q, rank, t) \in Seq(T)
         /\ \A u : Member(InsertTpri(q, rank, t), u) <=> Member(q, u) \/ u = t
         /\ NoDuplicate(q) /\ ~ Member(q, t) => NoDuplicate(InsertTpri(q, rank, t))
<1> DEFINE n == CHOOSE k \in 1 .. Len(q) + 1 : IsInsertPoint(q, rank, t, k)
<1>1. n \in 1 .. Len(q) + 1
  BY InsertPointExists
<1> HIDE DEF n
<1>2. /\ InsertBefore(q, n, t) \in Seq(T)
      /\ \A u : Member(InsertBefore(q, n, t), u) <=> Member(q, u) \/ u = t
      /\ NoDuplicate(q) /\ ~ Member(q, t) => NoDuplicate(InsertBefore(q, n, t))
  BY <1>1, InsertBeforeProperties
<1> QED BY <1>2 DEF InsertTpri, n

(* Taking the head off.                                                    *)
LEMMA TailQueue ==
  ASSUME NEW T, NEW q \in Seq(T), q # <<>>, NoDuplicate(q)
  PROVE  /\ q[1] \in T /\ Member(q, q[1])
         /\ Tail(q) \in Seq(T) /\ NoDuplicate(Tail(q))
         /\ \A u : Member(Tail(q), u) <=> Member(q, u) /\ u # q[1]
<1>1. /\ Tail(q) \in Seq(T) /\ Len(Tail(q)) = Len(q) - 1 /\ Len(q) >= 1
      /\ \A i \in 1 .. Len(q) - 1 : Tail(q)[i] = q[i + 1]
  OBVIOUS
<1>2. q[1] \in T /\ Member(q, q[1])
  BY <1>1 DEF Member
<1> DEFINE d == Tail(q)
<1> HIDE DEF d
<1>3. NoDuplicate(d)
  BY <1>1 DEF NoDuplicate, d
<1>4. ASSUME NEW u PROVE Member(d, u) <=> Member(q, u) /\ u # q[1]
  <2>1. ASSUME Member(d, u) PROVE Member(q, u) /\ u # q[1]
    <3>1. PICK i \in 1 .. Len(q) - 1 : d[i] = u
      BY <2>1, <1>1 DEF Member, d
    <3>2. i + 1 \in 1 .. Len(q) /\ q[i + 1] = u
      BY <3>1, <1>1 DEF d
    <3> QED BY <3>2, <1>1 DEF Member, NoDuplicate
  <2>2. ASSUME Member(q, u), u # q[1] PROVE Member(d, u)
    <3>1. PICK i \in 1 .. Len(q) : q[i] = u
      BY <2>2 DEF Member
    <3>2. i - 1 \in 1 .. Len(q) - 1 /\ d[i - 1] = u
      BY <3>1, <2>2, <1>1 DEF d
    <3> QED BY <3>2, <1>1 DEF Member, d
  <2> QED BY <2>1, <2>2
<1> QED BY <1>1, <1>2, <1>3, <1>4 DEF d

(* A queue without members is empty.                                       *)
LEMMA EmptyQueue ==
  ASSUME NEW T, NEW q \in Seq(T)
  PROVE  /\ q = <<>> <=> \A u \in T : ~ Member(q, u)
         /\ \A u : Member(q, u) => u \in T
<1>1. \A i \in 1 .. Len(q) : q[i] \in T
  OBVIOUS
<1>2. \A u : Member(q, u) => u \in T
  BY <1>1 DEF Member
<1>3. ASSUME q # <<>> PROVE Member(q, q[1])
  <2>1. 1 \in 1 .. Len(q)
    BY <1>3
  <2> QED BY <2>1 DEF Member
<1>4. ASSUME q = <<>>, NEW u \in T PROVE ~ Member(q, u)
  BY <1>4 DEF Member
<1> QED BY <1>2, <1>3, <1>4

(* The recursion that Without is defined by does what it says.             *)
LEMMA WithoutUnfolds ==
  ASSUME NEW T, NEW q \in Seq(T), NEW S
  PROVE  \E rest :
           /\ Without(q, S) = rest[Len(q)]
           /\ rest[0] = <<>>
           /\ \A n \in 0 .. Len(q) - 1 :
                rest[n + 1] = IF q[n + 1] \in S THEN rest[n] ELSE Append(rest[n], q[n + 1])
<1> DEFINE N == Len(q)
           body(r, n) == IF n = 0 THEN <<>>
                         ELSE IF q[n] \in S THEN r[n - 1] ELSE Append(r[n - 1], q[n])
           rest == CHOOSE r : r = [n \in 0 .. N |-> body(r, n)]
           Exists(m) == \E r : r = [n \in 0 .. m |-> body(r, n)]
           ExistsSet == {m \in 0 .. N : Exists(m)}
<1>1. N \in Nat
  OBVIOUS
<1>2. 0 .. N \subseteq ExistsSet
  <2>1. Exists(0)
    <3> DEFINE r0 == [n \in 0 .. 0 |-> <<>>]
    <3>1. r0 = [n \in 0 .. 0 |-> body(r0, n)]
      OBVIOUS
    <3> HIDE DEF r0, body
    <3> QED BY <3>1
  <2>2. ASSUME NEW m \in 0 .. N - 1, Exists(m) PROVE Exists(m + 1)
    <3>1. PICK r : r = [n \in 0 .. m |-> body(r, n)]
      BY <2>2
    <3> DEFINE s == [n \in 0 .. m + 1 |-> IF n <= m THEN r[n] ELSE body(r, n)]
    <3>2. \A n \in 0 .. m + 1 : s[n] = body(s, n)
      <4> TAKE n \in 0 .. m + 1
      <4>1. n # 0 => n - 1 \in 0 .. m /\ s[n - 1] = r[n - 1]
        OBVIOUS
      <4>2. body(s, n) = body(r, n)
        BY <4>1
      <4>3. n <= m => r[n] = body(r, n)
        <5> HIDE DEF body
        <5>1. \A k \in 0 .. m : r[k] = body(r, k)
          BY <3>1
        <5> QED BY <5>1
      <4> QED BY <4>2, <4>3
    <3>3. s = [n \in 0 .. m + 1 |-> body(s, n)]
      <4> HIDE DEF body
      <4> QED BY <3>2
    <3> HIDE DEF s, body
    <3> QED BY <3>3
  <2> HIDE DEF Exists
  <2>3. 0 \in ExistsSet /\ \A m \in 0 .. N - 1 : m \in ExistsSet => m + 1 \in ExistsSet
    BY <1>1, <2>1, <2>2
  <2> HIDE DEF ExistsSet
  <2> QED BY <1>1, <2>3, SetInduction
<1>3. rest = [n \in 0 .. N |-> body(rest, n)]
  <2>1. \E r : r = [n \in 0 .. N |-> body(r, n)]
    <3>1. Exists(N)
      BY <1>1, <1>2
    <3> QED BY <3>1
  <2> QED BY <2>1, Zenon
<1>4. Without(q, S) = rest[N]
  BY DEF Without
<1> HIDE DEF rest
<1>5. /\ rest[0] = <<>>
      /\ \A n \in 0 .. N - 1 :
           rest[n + 1] = IF q[n + 1] \in S THEN rest[n] ELSE Append(rest[n], q[n + 1])
  <2>1. rest[0] = body(rest, 0)
    BY <1>3
  <2>2. ASSUME NEW n \in 0 .. N - 1 PROVE rest[n + 1] = body(rest, n + 1)
    <3>1. n + 1 \in 0 .. N
      OBVIOUS
    <3> HIDE DEF body
    <3> QED BY <1>3, <3>1
  <2> QED BY <2>1, <2>2
<1> QED BY <1>4, <1>5

(* Taking several tasks out.                                               *)
LEMMA WithoutProperties ==
  ASSUME NEW T, NEW q \in Seq(T), NEW S
  PROVE  /\ Without(q, S) \in Seq(T)
         /\ \A u : Member(Without(q, S), u) <=> Member(q, u) /\ u \notin S
         /\ NoDuplicate(q) => NoDuplicate(Without(q, S))
<1> DEFINE N == Len(q)
<1>1. N \in Nat
  OBVIOUS
<1>2. PICK rest :
        /\ Without(q, S) = rest[Len(q)]
        /\ rest[0] = <<>>
        /\ \A n \in 0 .. Len(q) - 1 :
             rest[n + 1] = IF q[n + 1] \in S THEN rest[n] ELSE Append(rest[n], q[n + 1])
  BY WithoutUnfolds
<1>4. Without(q, S) = rest[N]
  BY <1>2
<1>5. /\ rest[0] = <<>>
      /\ \A n \in 0 .. N - 1 :
           rest[n + 1] = IF q[n + 1] \in S THEN rest[n] ELSE Append(rest[n], q[n + 1])
  BY <1>2
<1> DEFINE Good(n) ==
             /\ rest[n] \in Seq(T)
             /\ \A u : Member(rest[n], u) <=> u \notin S /\ \E i \in 1 .. n : q[i] = u
             /\ NoDuplicate(q) => NoDuplicate(rest[n])
           GoodSet == {n \in 0 .. N : Good(n)}
<1>6. 0 .. N \subseteq GoodSet
  <2>1. Good(0)
    <3>1. rest[0] = <<>>
      BY <1>5
    <3>2. \A u : ~ Member(rest[0], u)
      BY <3>1 DEF Member
    <3>3. NoDuplicate(rest[0])
      BY <3>1 DEF NoDuplicate
    <3> QED BY <3>1, <3>2, <3>3
  <2>2. ASSUME NEW n \in 0 .. N - 1, Good(n) PROVE Good(n + 1)
    <3>1. n + 1 \in 1 .. N /\ q[n + 1] \in T
      OBVIOUS
    <3>2. \A u : (\E i \in 1 .. n + 1 : q[i] = u) <=> (\E i \in 1 .. n : q[i] = u) \/ u = q[n + 1]
      OBVIOUS
    <3>3. CASE q[n + 1] \in S
      <4>1. rest[n + 1] = rest[n]
        BY <3>3, <1>5
      <4>2. \A u : Member(rest[n], u) <=> u \notin S /\ \E i \in 1 .. n + 1 : q[i] = u
        BY <2>2, <3>2, <3>3
      <4> QED BY <2>2, <3>1, <4>1, <4>2
    <3>4. CASE q[n + 1] \notin S
      <4>1. rest[n + 1] = Append(rest[n], q[n + 1])
        BY <3>4, <1>5
      <4>2. NoDuplicate(q) => ~ Member(rest[n], q[n + 1])
        BY <2>2, <3>1 DEF NoDuplicate
      <4>3. /\ Append(rest[n], q[n + 1]) \in Seq(T)
            /\ \A u : Member(Append(rest[n], q[n + 1]), u)
                   <=> Member(rest[n], u) \/ u = q[n + 1]
            /\ NoDuplicate(rest[n]) /\ ~ Member(rest[n], q[n + 1])
                 => NoDuplicate(Append(rest[n], q[n + 1]))
        BY <2>2, <3>1, AppendQueue
      <4>4. \A u : Member(rest[n + 1], u)
                     <=> u \notin S /\ \E i \in 1 .. n + 1 : q[i] = u
        BY <2>2, <3>2, <3>4, <4>1, <4>3
      <4>5. NoDuplicate(q) => NoDuplicate(rest[n + 1])
        BY <2>2, <4>1, <4>2, <4>3
      <4> QED BY <3>1, <4>1, <4>3, <4>4, <4>5
    <3> QED BY <3>3, <3>4
  <2> HIDE DEF Good
  <2>3. 0 \in GoodSet /\ \A n \in 0 .. N - 1 : n \in GoodSet => n + 1 \in GoodSet
    BY <1>1, <2>1, <2>2
  <2> HIDE DEF GoodSet
  <2> QED BY <1>1, <2>3, SetInduction
<1>7. Good(N)
  <2> HIDE DEF Good
  <2> QED BY <1>1, <1>6
<1>8. \A u : Member(rest[N], u) <=> Member(q, u) /\ u \notin S
  BY <1>7 DEF Member
<1> QED BY <1>4, <1>7, <1>8

(* A list that grows at its head, written as a concatenation.              *)
LEMMA PushProperties ==
  ASSUME NEW T, NEW q \in Seq(T), NEW t \in T
  PROVE  /\ <<t>> \o q \in Seq(T)
         /\ \A u : Member(<<t>> \o q, u) <=> Member(q, u) \/ u = t
         /\ NoDuplicate(q) /\ ~ Member(q, t) => NoDuplicate(<<t>> \o q)
<1> DEFINE a == <<t>> \o q
<1>1. /\ a \in Seq(T) /\ Len(a) = Len(q) + 1 /\ Len(q) \in Nat
      /\ a[1] = t /\ \A i \in 1 .. Len(q) : a[i + 1] = q[i]
  OBVIOUS
<1> HIDE DEF a
<1>2. \A j \in 1 .. Len(a) : j = 1 \/ (j - 1 \in 1 .. Len(q) /\ a[j] = q[j - 1])
  <2> TAKE j \in 1 .. Len(a)
  <2>1. j # 1 => j - 1 \in 1 .. Len(q) /\ j = (j - 1) + 1
    BY <1>1
  <2> QED BY <1>1, <2>1
<1>3. ASSUME NEW u PROVE Member(a, u) <=> Member(q, u) \/ u = t
  <2>1. ASSUME Member(q, u) PROVE Member(a, u)
    <3>1. PICK i \in 1 .. Len(q) : q[i] = u
      BY <2>1 DEF Member
    <3>2. i + 1 \in 1 .. Len(a) /\ a[i + 1] = u
      BY <1>1, <3>1
    <3> QED BY <3>2 DEF Member
  <2>2. Member(a, t)
    <3>1. 1 \in 1 .. Len(a)
      BY <1>1
    <3> QED BY <1>1, <3>1 DEF Member
  <2>3. Member(a, u) => Member(q, u) \/ u = t
    BY <1>1, <1>2 DEF Member
  <2> QED BY <2>1, <2>2, <2>3
<1>4. ASSUME NoDuplicate(q), ~ Member(q, t) PROVE NoDuplicate(a)
  <2> SUFFICES ASSUME NEW i \in 1 .. Len(a), NEW j \in 1 .. Len(a), a[i] = a[j]
               PROVE  i = j
    BY DEF NoDuplicate
  <2>1. \A k \in 1 .. Len(q) : q[k] # t
    BY <1>4 DEF Member
  <2>2. CASE i = 1 \/ j = 1
    BY <1>1, <1>2, <2>1, <2>2
  <2>3. CASE i # 1 /\ j # 1
    <3>1. i - 1 \in 1 .. Len(q) /\ j - 1 \in 1 .. Len(q) /\ q[i - 1] = q[j - 1]
      BY <1>2, <2>3
    <3>2. i - 1 = j - 1
      BY <1>4, <3>1 DEF NoDuplicate
    <3> QED BY <1>1, <3>2
  <2> QED BY <2>2, <2>3
<1> QED BY <1>1, <1>3, <1>4 DEF a
-----------------------------------------------------------------------------
(* Queue s is queue q with tasks linked in behind.                         *)
Extends(q, s) == Len(q) <= Len(s) /\ \A i \in 1 .. Len(q) : s[i] = q[i]

(* Linking tasks in at the tail, again and again.                          *)
LEMMA ExtendsProperties ==
  ASSUME NEW T, NEW q \in Seq(T), NEW s \in Seq(T), NEW t \in T, Extends(q, s)
  PROVE  Extends(q, q) /\ Extends(q, Append(s, t))
<1>1. /\ Len(Append(s, t)) = Len(s) + 1 /\ Len(s) \in Nat /\ Len(q) \in Nat
      /\ \A i \in 1 .. Len(s) : Append(s, t)[i] = s[i]
  OBVIOUS
<1> QED BY <1>1 DEF Extends

(* A queue in priority order stays so when a task leaves it.               *)
LEMMA DeleteOrdered ==
  ASSUME NEW T, NEW q \in Seq(T), NEW t, Member(q, t), NEW rank, PriorityOrdered(q, rank)
  PROVE  PriorityOrdered(Delete(q, t), rank)
<1> DEFINE n == CHOOSE i \in 1 .. Len(q) : q[i] = t
           d == Delete(q, t)
<1>1. n \in 1 .. Len(q)
  BY DEF Member
<1>2. d \in Seq(T) /\ DOMAIN d = 1 .. Len(q) - 1
  BY DeleteType DEF Delete
<1>3. \A i \in 1 .. Len(q) - 1 : d[i] = IF i < n THEN q[i] ELSE q[i + 1]
  BY DEF Delete
<1>4. Len(d) = Len(q) - 1 /\ Len(q) \in Nat
  BY <1>1, <1>2
<1> HIDE DEF n, d
<1> DEFINE at(i) == IF i < n THEN i ELSE i + 1
<1>5. \A i \in 1 .. Len(d) : at(i) \in 1 .. Len(q) /\ d[i] = q[at(i)]
  BY <1>1, <1>3, <1>4
<1>6. \A i, j \in 1 .. Len(d) : i < j => at(i) < at(j)
  BY <1>1, <1>4
<1> HIDE DEF at
<1> QED BY <1>5, <1>6 DEF PriorityOrdered, d

(* The head is a task of the highest priority, and the rest is in order.   *)
LEMMA TailOrdered ==
  ASSUME NEW T, NEW q \in Seq(T), q # <<>>, NEW rank, PriorityOrdered(q, rank)
  PROVE  PriorityOrdered(Tail(q), rank)
<1>1. /\ Tail(q) \in Seq(T) /\ Len(Tail(q)) = Len(q) - 1 /\ Len(q) \in Nat
      /\ \A i \in 1 .. Len(q) - 1 : Tail(q)[i] = q[i + 1]
  OBVIOUS
<1> DEFINE d == Tail(q)
<1> HIDE DEF d
<1>2. \A i \in 1 .. Len(d) : i + 1 \in 1 .. Len(q) /\ d[i] = q[i + 1]
  BY <1>1 DEF d
<1>3. \A i, j \in 1 .. Len(d) : i < j => i + 1 < j + 1
  BY <1>1
<1> QED BY <1>2, <1>3 DEF PriorityOrdered, d

(* queue_insert_tpri keeps the order: nothing before its place is of lower *)
(* priority, and nothing from there on of the same or a higher one.        *)
LEMMA InsertTpriOrdered ==
  ASSUME NEW T, NEW q \in Seq(T), NEW rank \in [T -> Nat], NEW t \in T,
         PriorityOrdered(q, rank)
  PROVE  PriorityOrdered(InsertTpri(q, rank, t), rank)
<1> DEFINE n == CHOOSE k \in 1 .. Len(q) + 1 : IsInsertPoint(q, rank, t, k)
           a == InsertBefore(q, n, t)
<1>1. n \in 1 .. Len(q) + 1 /\ IsInsertPoint(q, rank, t, n)
  BY InsertPointExists
<1> HIDE DEF n
<1>2. a \in Seq(T)
  BY <1>1, InsertBeforeProperties
<1>3. /\ DOMAIN a = 1 .. Len(q) + 1
      /\ \A i \in 1 .. Len(q) + 1 :
            a[i] = IF i < n THEN q[i] ELSE IF i = n THEN t ELSE q[i - 1]
  BY DEF InsertBefore
<1>4. Len(a) = Len(q) + 1 /\ Len(q) \in Nat
  BY <1>2, <1>3
<1> HIDE DEF a
<1>5. \A i \in 1 .. Len(q) : q[i] \in T /\ rank[q[i]] \in Nat
  OBVIOUS
<1>6. rank[t] \in Nat
  OBVIOUS
<1>7. \A i \in 1 .. Len(q) : i < n => rank[q[i]] <= rank[t]
  BY <1>1 DEF IsInsertPoint
<1>8. \A i \in 1 .. Len(q) : n <= i => rank[t] <= rank[q[i]]
  <2> SUFFICES ASSUME NEW i \in 1 .. Len(q), n <= i PROVE rank[t] <= rank[q[i]]
    OBVIOUS
  <2>1. n \in 1 .. Len(q) /\ rank[t] < rank[q[n]]
    BY <1>1 DEF IsInsertPoint
  <2>2. rank[q[n]] <= rank[q[i]]
    <3>1. CASE n = i
      BY <1>5, <2>1, <3>1
    <3>2. CASE n < i
      BY <2>1, <3>2 DEF PriorityOrdered
    <3> QED BY <1>1, <3>1, <3>2
  <2> QED BY <1>5, <1>6, <2>1, <2>2
<1>9. ASSUME NEW i \in 1 .. Len(a), NEW j \in 1 .. Len(a), i < j
      PROVE  rank[a[i]] <= rank[a[j]]
  <2>1. CASE j < n
    <3>1. i \in 1 .. Len(q) /\ j \in 1 .. Len(q) /\ a[i] = q[i] /\ a[j] = q[j]
      BY <1>3, <1>4, <1>1, <1>9, <2>1
    <3> QED BY <1>9, <3>1 DEF PriorityOrdered
  <2>2. CASE j = n
    <3>1. a[i] = q[i] /\ a[j] = t /\ i \in 1 .. Len(q) /\ i < n
      BY <1>1, <1>3, <1>4, <1>9, <2>2
    <3> QED BY <1>7, <3>1
  <2>3. CASE i = n
    <3>1. a[i] = t /\ a[j] = q[j - 1] /\ j - 1 \in 1 .. Len(q) /\ n <= j - 1
      BY <1>1, <1>3, <1>4, <1>9, <2>3
    <3> QED BY <1>8, <3>1
  <2>4. CASE i < n /\ n < j
    <3>1. /\ a[i] = q[i] /\ i \in 1 .. Len(q)
          /\ a[j] = q[j - 1] /\ j - 1 \in 1 .. Len(q) /\ n <= j - 1
      BY <1>1, <1>3, <1>4, <1>9, <2>4
    <3>2. rank[q[i]] <= rank[t] /\ rank[t] <= rank[q[j - 1]]
      BY <1>7, <1>8, <2>4, <3>1
    <3> QED BY <1>5, <1>6, <3>1, <3>2
  <2>5. CASE n < i
    <3>1. /\ a[i] = q[i - 1] /\ i - 1 \in 1 .. Len(q)
          /\ a[j] = q[j - 1] /\ j - 1 \in 1 .. Len(q) /\ i - 1 < j - 1
      BY <1>1, <1>3, <1>4, <1>9, <2>5
    <3> QED BY <3>1 DEF PriorityOrdered
  <2> QED BY <1>1, <1>9, <2>1, <2>2, <2>3, <2>4, <2>5
<1>10. PriorityOrdered(a, rank)
  BY <1>9 DEF PriorityOrdered
<1> QED BY <1>10 DEF InsertTpri, a, n

(* So does taking several tasks out.                                       *)
LEMMA WithoutOrdered ==
  ASSUME NEW T, NEW q \in Seq(T), NEW S, NEW rank, PriorityOrdered(q, rank)
  PROVE  PriorityOrdered(Without(q, S), rank)
<1> DEFINE N == Len(q)
<1>1. N \in Nat
  OBVIOUS
<1>2. PICK rest :
        /\ Without(q, S) = rest[Len(q)]
        /\ rest[0] = <<>>
        /\ \A n \in 0 .. Len(q) - 1 :
             rest[n + 1] = IF q[n + 1] \in S THEN rest[n] ELSE Append(rest[n], q[n + 1])
  BY WithoutUnfolds
<1> DEFINE Good(n) ==
             /\ rest[n] \in Seq(T)
             /\ \A i \in 1 .. Len(rest[n]) : \E k \in 1 .. n : rest[n][i] = q[k]
             /\ PriorityOrdered(rest[n], rank)
           GoodSet == {n \in 0 .. N : Good(n)}
<1>3. Good(0)
  BY <1>2 DEF PriorityOrdered
<1>4. ASSUME NEW n \in 0 .. N - 1, Good(n) PROVE Good(n + 1)
  <2> DEFINE r == rest[n]
             u == q[n + 1]
             a == Append(r, u)
  <2>1. n + 1 \in 1 .. N /\ u \in T
    OBVIOUS
  <2>2. CASE u \in S
    <3>1. rest[n + 1] = rest[n]
      BY <1>2, <2>2
    <3> QED BY <1>4, <3>1
  <2>3. CASE u \notin S
    <3>1. rest[n + 1] = a
      BY <1>2, <2>3
    <3>2. /\ r \in Seq(T) /\ PriorityOrdered(r, rank) /\ Len(r) \in Nat
          /\ \A i \in 1 .. Len(r) : \E k \in 1 .. n : r[i] = q[k]
      BY <1>4
    <3> HIDE DEF r
    <3>3. /\ a \in Seq(T) /\ Len(a) = Len(r) + 1 /\ a[Len(r) + 1] = u
          /\ \A i \in 1 .. Len(r) : a[i] = r[i]
      BY <2>1, <3>2
    <3> HIDE DEF a
    <3>4. \A i \in 1 .. Len(a) : i # Len(r) + 1 => i \in 1 .. Len(r)
      BY <3>2, <3>3
    <3>5. \A i \in 1 .. Len(a) : \E k \in 1 .. n + 1 : a[i] = q[k]
      <4> TAKE i \in 1 .. Len(a)
      <4>1. CASE i = Len(r) + 1
        BY <2>1, <3>3, <4>1
      <4>2. CASE i # Len(r) + 1
        <5>1. PICK k \in 1 .. n : r[i] = q[k]
          BY <3>2, <3>4, <4>2
        <5> QED BY <3>3, <3>4, <4>2, <5>1
      <4> QED BY <4>1, <4>2
    <3>6. PriorityOrdered(a, rank)
      <4> SUFFICES ASSUME NEW i \in 1 .. Len(a), NEW j \in 1 .. Len(a), i < j
                   PROVE  rank[a[i]] <= rank[a[j]]
        BY DEF PriorityOrdered
      <4>1. i \in 1 .. Len(r) /\ a[i] = r[i]
        BY <3>2, <3>3
      <4>2. CASE j = Len(r) + 1
        <5>1. PICK k \in 1 .. n : r[i] = q[k]
          BY <3>2, <4>1
        <5>2. k \in 1 .. N /\ k < n + 1
          BY <2>1
        <5> QED BY <2>1, <3>3, <4>1, <4>2, <5>1, <5>2 DEF PriorityOrdered
      <4>3. CASE j # Len(r) + 1
        BY <3>2, <3>3, <3>4, <4>1, <4>3 DEF PriorityOrdered
      <4> QED BY <4>2, <4>3
    <3> QED BY <3>1, <3>3, <3>5, <3>6
  <2> QED BY <2>2, <2>3
<1>5. 0 .. N \subseteq GoodSet
  <2> HIDE DEF Good
  <2>1. 0 \in GoodSet /\ \A n \in 0 .. N - 1 : n \in GoodSet => n + 1 \in GoodSet
    BY <1>1, <1>3, <1>4
  <2> HIDE DEF GoodSet
  <2> QED BY <1>1, <2>1, SetInduction
<1>6. Good(N)
  <2> HIDE DEF Good
  <2> QED BY <1>1, <1>5
<1> QED BY <1>2, <1>6

(* Priorities of tasks that are not in the queue do not matter.            *)
LEMMA OrderedOther ==
  ASSUME NEW T, NEW q \in Seq(T), NEW rank, NEW prio2, PriorityOrdered(q, rank),
         \A u : Member(q, u) => prio2[u] = rank[u]
  PROVE  PriorityOrdered(q, prio2)
<1>1. \A i \in 1 .. Len(q) : prio2[q[i]] = rank[q[i]]
  BY DEF Member
<1> QED BY <1>1 DEF PriorityOrdered
-----------------------------------------------------------------------------
(* The ready queue holds the tasks of R, and its parts agree.              *)
Consistent(r, R, rank) ==
  /\ r \in ReadyState
  /\ QueuesMatch(r, R, rank)
  /\ PrimapMatches(r)
  /\ SchedtskCurrent(r)

(* While dispatching is held back a call leaves dspflg and the choice.     *)
Holds(r, s) == s.dspflg = r.dspflg /\ (~ r.dspflg => s.p_schedtsk = r.p_schedtsk)

(* What the operations do to the record: dspflg is changed by none.        *)
Updated(r, queue, primap, schedtsk) ==
  [r EXCEPT !.ready_queue = queue, !.ready_primap = primap, !.p_schedtsk = schedtsk]

(* What an update of three fields does to each of them.                    *)
LEMMA UpdatedFields ==
  ASSUME NEW r \in ReadyState, NEW queue \in [TaskPrio -> Seq(Task)],
         NEW primap \in SUBSET TaskPrio, NEW schedtsk \in Task \cup {NoTask}
  PROVE  /\ Updated(r, queue, primap, schedtsk) \in ReadyState
         /\ Updated(r, queue, primap, schedtsk).ready_queue = queue
         /\ Updated(r, queue, primap, schedtsk).ready_primap = primap
         /\ Updated(r, queue, primap, schedtsk).p_schedtsk = schedtsk
  BY DEF Updated, ReadyState

(* Replacing p_schedtsk leaves the other fields.                           *)
LEMMA SchedtskReplaced ==
  ASSUME NEW r \in ReadyState, NEW t \in Task \cup {NoTask}
  PROVE  /\ [r EXCEPT !.p_schedtsk = t] \in ReadyState
         /\ [r EXCEPT !.p_schedtsk = t].ready_queue = r.ready_queue
         /\ [r EXCEPT !.p_schedtsk = t].ready_primap = r.ready_primap
         /\ [r EXCEPT !.p_schedtsk = t].p_schedtsk = t
         /\ [r EXCEPT !.p_schedtsk = t].dspflg = r.dspflg
  BY DEF ReadyState

(* The search of the bitmap finds its least element.                       *)
LEMMA SearchFinds ==
  ASSUME NEW primap \in SUBSET TaskPrio, primap # {}
  PROVE  /\ SearchPrimap(primap) \in primap
         /\ \A o \in primap : SearchPrimap(primap) <= o
<1>1. \E p \in primap : \A o \in primap : p <= o
  BY PrioAssumption, LeastElement DEF TaskPrio
<1> QED BY <1>1 DEF SearchPrimap

(* When the bitmap agrees with the queues, the search finds a task.        *)
LEMMA SearchSchedtskHighest ==
  ASSUME NEW r \in ReadyState, PrimapMatches(r), r.ready_primap # {}
  PROVE  /\ searchSchedtsk(r) \in Task
         /\ r.p_schedtsk = searchSchedtsk(r) => IsHighest(r)
<1> DEFINE p == SearchPrimap(r.ready_primap)
<1>1. p \in r.ready_primap /\ \A o \in r.ready_primap : p <= o
  BY SearchFinds DEF ReadyState
<1> HIDE DEF p
<1>2. r.ready_queue[p] \in Seq(Task) /\ r.ready_queue[p] # <<>>
  BY <1>1 DEF ReadyState, PrimapMatches
<1>3. r.ready_queue[p][1] \in Task
  BY <1>2
<1> QED BY <1>1, <1>3 DEF searchSchedtsk, IsHighest, p

(* The highest task is the head of the queue of its priority.              *)
LEMMA HighestTask ==
  ASSUME NEW r, NEW R \in SUBSET Task, NEW rank \in [Task -> TaskPrio],
         r \in ReadyState, QueuesMatch(r, R, rank), PrimapMatches(r), IsHighest(r),
         R # {}
  PROVE  /\ r.p_schedtsk \in R
         /\ rank[r.p_schedtsk] \in r.ready_primap
         /\ \A o \in r.ready_primap : rank[r.p_schedtsk] <= o
         /\ r.ready_queue[rank[r.p_schedtsk]][1] = r.p_schedtsk
<1>1. r.ready_primap # {}
  <2>1. PICK t \in Task : t \in R
    OBVIOUS
  <2>2. rank[t] \in TaskPrio /\ Member(r.ready_queue[rank[t]], t)
    BY <2>1 DEF QueuesMatch
  <2>3. r.ready_queue[rank[t]] # <<>>
    BY <2>2 DEF Member
  <2> QED BY <2>2, <2>3 DEF PrimapMatches
<1>2. PICK p \in r.ready_primap : /\ \A o \in r.ready_primap : p <= o
                                  /\ r.p_schedtsk = r.ready_queue[p][1]
  BY <1>1 DEF IsHighest
<1>3. p \in TaskPrio /\ r.ready_queue[p] \in Seq(Task) /\ r.ready_queue[p] # <<>>
  BY DEF ReadyState, PrimapMatches
<1>4. r.p_schedtsk \in Task /\ Member(r.ready_queue[p], r.p_schedtsk)
  BY <1>2, <1>3, TailQueue DEF QueuesMatch
<1>5. r.p_schedtsk \in R /\ rank[r.p_schedtsk] = p
  BY <1>3, <1>4 DEF QueuesMatch
<1> QED BY <1>2, <1>5

(* p_schedtsk is null exactly when no task is runnable.                    *)
LEMMA NoTaskRunnable ==
  ASSUME NEW r, NEW rank \in [Task -> TaskPrio],
         r \in ReadyState, QueuesMatch(r, {}, rank), PrimapMatches(r)
  PROVE  r.ready_primap = {}
<1> SUFFICES ASSUME NEW p \in TaskPrio PROVE r.ready_queue[p] = <<>>
  BY DEF PrimapMatches, ReadyState
<1>1. r.ready_queue[p] \in Seq(Task)
  BY DEF ReadyState
<1>2. \A t \in Task : ~ Member(r.ready_queue[p], t)
  BY DEF QueuesMatch
<1> QED BY <1>1, <1>2, EmptyQueue
-----------------------------------------------------------------------------
(* t has gone to the end of the queue of its priority.                     *)
Queued(r, s, rank, t) ==
  \A o \in TaskPrio : s.ready_queue[o] =
    IF o = rank[t] THEN Append(r.ready_queue[o], t) ELSE r.ready_queue[o]

(* make_runnable adds a task to the ready queue.                           *)
LEMMA MakeRunnable ==
  ASSUME NEW r, NEW R \in SUBSET Task, NEW rank \in [Task -> TaskPrio],
         Consistent(r, R, rank), NEW t \in Task, t \notin R
  PROVE  /\ Consistent(make_runnable(r, rank, t), R \cup {t}, rank)
         /\ make_runnable(r, rank, t).dspflg = r.dspflg
         /\ ~ r.dspflg => make_runnable(r, rank, t).p_schedtsk = r.p_schedtsk
         /\ Queued(r, make_runnable(r, rank, t), rank, t)
<1> DEFINE s  == make_runnable(r, rank, t)
           p  == rank[t]
           rq == r.ready_queue
           q  == Append(rq[p], t)
<1>1. r \in ReadyState /\ p \in TaskPrio /\ rq \in [TaskPrio -> Seq(Task)]
  BY DEF Consistent, ReadyState
<1>2. /\ q \in Seq(Task) /\ q # <<>>
      /\ \A u : Member(q, u) <=> Member(rq[p], u) \/ u = t
      /\ NoDuplicate(rq[p]) /\ ~ Member(rq[p], t) => NoDuplicate(q)
      /\ q[1] = IF rq[p] = <<>> THEN t ELSE rq[p][1]
  <2>1. rq[p] \in Seq(Task)
    BY <1>1
  <2> QED BY <2>1, AppendQueue
<1> HIDE DEF q
<1> DEFINE best == IF r.dspflg /\ (IF r.p_schedtsk = NoTask THEN TRUE
                                   ELSE p < rank[r.p_schedtsk])
                   THEN t ELSE r.p_schedtsk
<1>3. /\ s \in ReadyState
      /\ s.ready_queue = [rq EXCEPT ![p] = q]
      /\ s.ready_primap = r.ready_primap \cup {p}
      /\ s.p_schedtsk = best
      /\ s.dspflg = r.dspflg
  <2>1. s = Updated(r, [rq EXCEPT ![p] = q], r.ready_primap \cup {p}, best)
    BY <1>1 DEF make_runnable, ReadyState, q, Updated
  <2>2. /\ [rq EXCEPT ![p] = q] \in [TaskPrio -> Seq(Task)]
        /\ r.ready_primap \cup {p} \in SUBSET TaskPrio
        /\ best \in Task \cup {NoTask}
    BY <1>1, <1>2 DEF ReadyState
  <2>6. s.dspflg = r.dspflg
    BY <1>1 DEF make_runnable, ReadyState
  <2> DEFINE queue == [rq EXCEPT ![p] = q]
             primap == r.ready_primap \cup {p}
  <2> HIDE DEF best, s, queue, primap
  <2>3. s = Updated(r, queue, primap, best)
    BY <2>1 DEF queue, primap
  <2>4. queue \in [TaskPrio -> Seq(Task)] /\ primap \in SUBSET TaskPrio
    BY <2>2 DEF queue, primap
  <2>5. /\ s \in ReadyState /\ s.ready_queue = queue /\ s.ready_primap = primap
        /\ s.p_schedtsk = best
    <3>1. r \in ReadyState /\ best \in Task \cup {NoTask}
      BY <1>1, <2>2
    <3> QED BY <2>3, <2>4, <3>1, UpdatedFields, SMTT(60)
  <2> QED BY <2>5, <2>6 DEF queue, primap
<1> HIDE DEF s
<1>4. s \in ReadyState
  BY <1>3
<1>5. QueuesMatch(s, R \cup {t}, rank)
  <2>1. ~ Member(rq[p], t)
    BY <1>1 DEF Consistent, QueuesMatch
  <2>2. \A o \in TaskPrio : NoDuplicate(s.ready_queue[o])
    BY <2>1, <1>1, <1>2, <1>3 DEF Consistent, QueuesMatch
  <2>3. ASSUME NEW o \in TaskPrio, NEW u \in Task
        PROVE  Member(s.ready_queue[o], u) <=> u \in R \cup {t} /\ rank[u] = o
    <3>1. Member(rq[o], u) <=> u \in R /\ rank[u] = o
      BY DEF Consistent, QueuesMatch
    <3>2. CASE o = p
      BY <3>1, <3>2, <1>1, <1>2, <1>3
    <3>3. CASE o # p
      BY <3>1, <3>3, <1>1, <1>3
    <3> QED BY <3>2, <3>3
  <2> QED BY <2>2, <2>3 DEF QueuesMatch
<1>6. PrimapMatches(s)
  BY <1>1, <1>2, <1>3 DEF Consistent, PrimapMatches
<1>7. SchedtskCurrent(s)
  <2> SUFFICES ASSUME r.dspflg PROVE IsHighest(s)
    BY <1>3 DEF SchedtskCurrent
  <2>1. IsHighest(r) /\ QueuesMatch(r, R, rank) /\ PrimapMatches(r)
    BY DEF Consistent, SchedtskCurrent
  <2>2. CASE R = {}
    <3>1. r.ready_primap = {} /\ r.p_schedtsk = NoTask
      BY <2>1, <2>2, <1>1, NoTaskRunnable DEF IsHighest
    <3>2. rq[p] = <<>>
      BY <3>1, <2>1, <1>1 DEF PrimapMatches
    <3>3. s.ready_primap = {p} /\ s.p_schedtsk = t /\ s.ready_queue[p][1] = t
      BY <3>1, <3>2, <1>1, <1>2, <1>3
    <3> QED BY <3>3, <1>1 DEF IsHighest, TaskPrio
  <2>3. CASE R # {}
    <3> DEFINE h == rank[r.p_schedtsk]
    <3>1. /\ r.p_schedtsk \in R /\ h \in r.ready_primap
          /\ \A o \in r.ready_primap : h <= o
          /\ rq[h][1] = r.p_schedtsk
      <4>1. /\ R \in SUBSET Task /\ rank \in [Task -> TaskPrio] /\ r \in ReadyState
            /\ QueuesMatch(r, R, rank) /\ PrimapMatches(r) /\ IsHighest(r) /\ R # {}
        BY ONLY <1>1, <2>1, <2>3, Zenon
      <4>2. /\ r.p_schedtsk \in R /\ rank[r.p_schedtsk] \in r.ready_primap
            /\ \A o \in r.ready_primap : rank[r.p_schedtsk] <= o
            /\ r.ready_queue[rank[r.p_schedtsk]][1] = r.p_schedtsk
        BY ONLY <4>1, HighestTask, SMTT(60)
      <4> QED BY ONLY <4>2, Zenon
    <3>2. h \in TaskPrio /\ r.p_schedtsk # NoTask
      BY <3>1, <1>1, TaskAssumption DEF ReadyState
    <3>3. CASE p < h
      <4>1. p \notin r.ready_primap
        BY <3>1, <3>2, <3>3, <1>1 DEF TaskPrio
      <4>2. s.p_schedtsk = t
        BY <3>2, <3>3, <1>3
      <4>3. rq[p] = <<>>
        BY <4>1, <2>1, <1>1 DEF PrimapMatches
      <4>4. s.ready_queue[p][1] = t
        BY <4>3, <1>1, <1>2, <1>3
      <4>5. \A o \in s.ready_primap : p <= o
        <5> TAKE o \in s.ready_primap
        <5>1. CASE o = p
          BY <5>1, <1>1 DEF TaskPrio
        <5>2. CASE o # p
          <6>1. o \in r.ready_primap /\ o \in TaskPrio
            BY <5>2, <1>1, <1>3 DEF ReadyState
          <6> QED BY <6>1, <3>1, <3>2, <3>3, <1>1 DEF TaskPrio
        <5> QED BY <5>1, <5>2
      <4> QED BY <4>2, <4>4, <4>5, <1>3 DEF IsHighest
    <3>4. CASE ~ p < h
      <4>1. s.p_schedtsk = r.p_schedtsk
        BY <3>2, <3>4, <1>3
      <4>2. rq[h] # <<>>
        BY <3>1, <3>2, <2>1 DEF PrimapMatches
      <4>3. s.ready_queue[h][1] = r.p_schedtsk
        BY <4>2, <3>1, <3>2, <1>1, <1>2, <1>3
      <4>4. h \in s.ready_primap /\ \A o \in s.ready_primap : h <= o
        BY <3>1, <3>2, <3>4, <1>1, <1>3 DEF TaskPrio
      <4> QED BY <4>1, <4>3, <4>4 DEF IsHighest
    <3> QED BY <3>3, <3>4
  <2> QED BY <2>2, <2>3
<1>8. Queued(r, s, rank, t)
  BY <1>1, <1>3 DEF q, Queued
<1> QED BY <1>3, <1>4, <1>5, <1>6, <1>7, <1>8 DEF Consistent, s

(* make_non_runnable takes a task out of the ready queue.                  *)
LEMMA MakeNonRunnable ==
  ASSUME NEW r, NEW R \in SUBSET Task, NEW rank \in [Task -> TaskPrio],
         Consistent(r, R, rank), NEW t \in Task, t \in R
  PROVE  /\ Consistent(make_non_runnable(r, rank, t), R \ {t}, rank)
         /\ make_non_runnable(r, rank, t).dspflg = r.dspflg
         /\ r.p_schedtsk # t => make_non_runnable(r, rank, t).p_schedtsk = r.p_schedtsk
<1> DEFINE p    == rank[t]
           rq   == r.ready_queue
           rest == Delete(rq[p], t)
           d    == [r EXCEPT !.ready_queue[p] = rest,
                             !.ready_primap = Cleared(@, p, rest)]
           next == IF r.p_schedtsk # t THEN r.p_schedtsk
                   ELSE IF rest # <<>> THEN rest[1]
                   ELSE IF d.ready_primap = {} THEN NoTask
                   ELSE searchSchedtsk(d)
           s    == make_non_runnable(r, rank, t)
<1>1. r \in ReadyState /\ p \in TaskPrio /\ rq \in [TaskPrio -> Seq(Task)]
  BY DEF Consistent, ReadyState
<1>2. QueuesMatch(r, R, rank) /\ PrimapMatches(r)
  BY DEF Consistent
<1>3. /\ rest \in Seq(Task) /\ NoDuplicate(rest)
      /\ \A u : Member(rest, u) <=> Member(rq[p], u) /\ u # t
      /\ rq[p][1] # t => rest # <<>> /\ rest[1] = rq[p][1]
  <2>1. rq[p] \in Seq(Task) /\ Member(rq[p], t) /\ NoDuplicate(rq[p])
    BY <1>1, <1>2 DEF QueuesMatch
  <2> QED BY <2>1, DeleteProperties
<1> HIDE DEF rest
<1>4. /\ d \in ReadyState
      /\ d.ready_queue = [rq EXCEPT ![p] = rest]
      /\ d.ready_primap = Cleared(r.ready_primap, p, rest)
      /\ d.p_schedtsk = r.p_schedtsk
      /\ d.dspflg = r.dspflg
  <2>1. Cleared(r.ready_primap, p, rest) \in SUBSET TaskPrio
    BY <1>1 DEF Cleared, ReadyState
  <2> QED BY <2>1, <1>1, <1>3 DEF ReadyState
<1>5. s = [d EXCEPT !.p_schedtsk = next]
  BY <1>4 DEF make_non_runnable, rest
<1> HIDE DEF d, s
<1>6. QueuesMatch(d, R \ {t}, rank)
  <2>1. \A o \in TaskPrio : NoDuplicate(d.ready_queue[o])
    BY <1>1, <1>2, <1>3, <1>4 DEF QueuesMatch
  <2>2. ASSUME NEW o \in TaskPrio, NEW u \in Task
        PROVE  Member(d.ready_queue[o], u) <=> u \in R \ {t} /\ rank[u] = o
    <3>1. Member(rq[o], u) <=> u \in R /\ rank[u] = o
      BY <1>2 DEF QueuesMatch
    <3>2. CASE o = p
      BY <3>1, <3>2, <1>1, <1>3, <1>4
    <3>3. CASE o # p
      BY <3>1, <3>3, <1>1, <1>4
    <3> QED BY <3>2, <3>3
  <2> QED BY <2>1, <2>2 DEF QueuesMatch
<1>7. PrimapMatches(d)
  <2> SUFFICES ASSUME NEW o \in TaskPrio
               PROVE  o \in d.ready_primap <=> d.ready_queue[o] # <<>>
    BY DEF PrimapMatches
  <2>1. o \in r.ready_primap <=> rq[o] # <<>>
    BY <1>2 DEF PrimapMatches
  <2>2. CASE o = p
    <3>1. rq[p] # <<>>
      BY <1>1, <1>2 DEF QueuesMatch, Member
    <3> QED BY <2>1, <2>2, <3>1, <1>1, <1>4 DEF Cleared
  <2>3. CASE o # p
    BY <2>1, <2>3, <1>1, <1>4 DEF Cleared
  <2> QED BY <2>2, <2>3
<1>8. next \in Task \cup {NoTask}
  <2>1. rest # <<>> => rest[1] \in Task
    BY <1>3
  <2>2. d.ready_primap # {} => searchSchedtsk(d) \in Task
    BY <1>4, <1>7, SearchSchedtskHighest
  <2> QED BY <2>1, <2>2, <1>1 DEF ReadyState
<1>9. /\ s \in ReadyState
      /\ s.ready_queue = d.ready_queue /\ s.ready_primap = d.ready_primap
      /\ s.p_schedtsk = next /\ s.dspflg = d.dspflg
  <2> HIDE DEF next
  <2> QED BY <1>4, <1>5, <1>8, SchedtskReplaced
<1>10. QueuesMatch(s, R \ {t}, rank) /\ PrimapMatches(s)
  BY <1>6, <1>7, <1>9 DEF QueuesMatch, PrimapMatches
<1>11. SchedtskCurrent(s)
  <2> SUFFICES ASSUME r.dspflg PROVE IsHighest(s)
    BY <1>4, <1>9 DEF SchedtskCurrent
  <2>1. IsHighest(r)
    BY DEF Consistent, SchedtskCurrent
  <2> DEFINE h == rank[r.p_schedtsk]
  <2>2. /\ r.p_schedtsk \in R /\ h \in r.ready_primap
        /\ \A o \in r.ready_primap : h <= o
        /\ rq[h][1] = r.p_schedtsk
    <3>1. /\ R \in SUBSET Task /\ rank \in [Task -> TaskPrio] /\ r \in ReadyState
          /\ QueuesMatch(r, R, rank) /\ PrimapMatches(r) /\ IsHighest(r) /\ R # {}
      BY <1>1, <1>2, <2>1
    <3>2. /\ r.p_schedtsk \in R /\ rank[r.p_schedtsk] \in r.ready_primap
          /\ \A o \in r.ready_primap : rank[r.p_schedtsk] <= o
          /\ r.ready_queue[rank[r.p_schedtsk]][1] = r.p_schedtsk
      BY ONLY <3>1, HighestTask, SMTT(60)
    <3> QED BY ONLY <3>2, Zenon
  <2>3. h \in TaskPrio /\ r.ready_primap \subseteq TaskPrio
    BY <2>2, <1>1 DEF ReadyState
  <2>4. s.ready_primap \subseteq r.ready_primap
    BY <1>4, <1>9 DEF Cleared
  <2>5. CASE r.p_schedtsk # t
    <3>1. h \in s.ready_primap /\ s.ready_queue[h][1] = r.p_schedtsk
      <4>1. CASE h = p
        BY <4>1, <2>2, <2>3, <2>5, <1>1, <1>3, <1>4, <1>9 DEF Cleared
      <4>2. CASE h # p
        BY <4>2, <2>2, <2>3, <1>1, <1>4, <1>9 DEF Cleared
      <4> QED BY <4>1, <4>2
    <3>2. s.p_schedtsk = r.p_schedtsk
      BY <2>5, <1>9
    <3> QED BY <3>1, <3>2, <2>2, <2>4 DEF IsHighest
  <2>6. CASE r.p_schedtsk = t /\ rest # <<>>
    <3>1. s.p_schedtsk = rest[1] /\ s.ready_queue[p][1] = rest[1]
      BY <2>6, <1>1, <1>4, <1>9
    <3>2. p \in s.ready_primap /\ \A o \in s.ready_primap : p <= o
      BY <2>2, <2>4, <2>6, <1>4, <1>9 DEF Cleared
    <3> QED BY <3>1, <3>2 DEF IsHighest
  <2>7. CASE r.p_schedtsk = t /\ rest = <<>>
    <3>1. CASE s.ready_primap = {}
      BY <3>1, <2>7, <1>9 DEF IsHighest
    <3>2. CASE s.ready_primap # {}
      <4>1. s.p_schedtsk = searchSchedtsk(s)
        BY <3>2, <2>7, <1>9 DEF searchSchedtsk
      <4> QED BY <4>1, <3>2, <1>9, <1>10, SearchSchedtskHighest
    <3> QED BY <3>1, <3>2
  <2> QED BY <2>5, <2>6, <2>7
<1> QED BY <1>4, <1>9, <1>10, <1>11 DEF Consistent, s

(* set_dspflg lets dispatching go on.                                      *)
LEMMA SetDspflg ==
  ASSUME NEW r, NEW R \in SUBSET Task, NEW rank \in [Task -> TaskPrio],
         Consistent(r, R, rank), R # {}
  PROVE  /\ Consistent(set_dspflg(r), R, rank)
         /\ set_dspflg(r).dspflg = TRUE
<1> DEFINE s == set_dspflg(r)
<1>1. r \in ReadyState /\ QueuesMatch(r, R, rank) /\ PrimapMatches(r)
  BY DEF Consistent
<1>2. r.ready_primap # {}
  <2>1. PICK t \in R : TRUE
    OBVIOUS
  <2>2. rank[t] \in TaskPrio /\ Member(r.ready_queue[rank[t]], t)
    BY <1>1 DEF QueuesMatch
  <2>3. r.ready_queue[rank[t]] # <<>>
    BY <2>2 DEF Member
  <2> QED BY <2>2, <2>3, <1>1 DEF PrimapMatches
<1>3. searchSchedtsk(r) \in Task
  BY <1>1, <1>2, SearchSchedtskHighest
<1>4. /\ s \in ReadyState
      /\ s.ready_queue = r.ready_queue /\ s.ready_primap = r.ready_primap
      /\ s.p_schedtsk = searchSchedtsk(r) /\ s.dspflg = TRUE
  BY <1>1, <1>3 DEF set_dspflg, ReadyState
<1> HIDE DEF s
<1>5. QueuesMatch(s, R, rank) /\ PrimapMatches(s)
  BY <1>1, <1>4 DEF QueuesMatch, PrimapMatches
<1>6. s.p_schedtsk = searchSchedtsk(s)
  BY <1>4 DEF searchSchedtsk
<1>7. IsHighest(s)
  BY <1>2, <1>4, <1>5, <1>6, SearchSchedtskHighest
<1> QED BY <1>4, <1>5, <1>7 DEF Consistent, SchedtskCurrent, s

(* Holding dispatching back (dis_dsp, and chg_ipm with another mask).      *)
LEMMA ClearDspflg ==
  ASSUME NEW r, NEW R \in SUBSET Task, NEW rank \in [Task -> TaskPrio],
         Consistent(r, R, rank)
  PROVE  /\ Consistent([r EXCEPT !.dspflg = FALSE], R, rank)
         /\ [r EXCEPT !.dspflg = FALSE].dspflg = FALSE
         /\ [r EXCEPT !.dspflg = FALSE].p_schedtsk = r.p_schedtsk
<1> DEFINE s == [r EXCEPT !.dspflg = FALSE]
<1>1. r \in ReadyState /\ QueuesMatch(r, R, rank) /\ PrimapMatches(r)
  BY DEF Consistent
<1>2. /\ s \in ReadyState
      /\ s.ready_queue = r.ready_queue /\ s.ready_primap = r.ready_primap
      /\ s.p_schedtsk = r.p_schedtsk /\ s.dspflg = FALSE
  BY <1>1 DEF ReadyState
<1> HIDE DEF s
<1>3. QueuesMatch(s, R, rank) /\ PrimapMatches(s)
  BY <1>1, <1>2 DEF QueuesMatch, PrimapMatches
<1> QED BY <1>2, <1>3 DEF Consistent, SchedtskCurrent, s

(* Only the priorities of the runnable tasks matter.                       *)
LEMMA OtherPriorities ==
  ASSUME NEW r, NEW R \in SUBSET Task, NEW rank, NEW prio2,
         Consistent(r, R, rank), \A t \in R : prio2[t] = rank[t]
  PROVE  Consistent(r, R, prio2)
  BY DEF Consistent, QueuesMatch

(* rotate_ready_queue.                                                     *)
LEMMA RotateReadyQueue ==
  ASSUME NEW r, NEW R \in SUBSET Task, NEW rank \in [Task -> TaskPrio],
         Consistent(r, R, rank), NEW p \in TaskPrio
  PROVE  /\ Consistent(rotate_ready_queue(r, p), R, rank)
         /\ rotate_ready_queue(r, p).dspflg = r.dspflg
         /\ ~ r.dspflg => rotate_ready_queue(r, p).p_schedtsk = r.p_schedtsk
<1> DEFINE q == r.ready_queue[p]
           s == rotate_ready_queue(r, p)
<1>1. /\ r \in ReadyState /\ QueuesMatch(r, R, rank) /\ PrimapMatches(r)
      /\ r.ready_queue \in [TaskPrio -> Seq(Task)]
  BY DEF Consistent, ReadyState
<1>2. q \in Seq(Task) /\ NoDuplicate(q)
  BY <1>1 DEF QueuesMatch
<1>3. CASE Len(q) < 2
  BY <1>3 DEF rotate_ready_queue
<1>4. CASE ~ Len(q) < 2
  <2> DEFINE turned == Append(Tail(q), Head(q))
             next   == IF r.dspflg /\ r.p_schedtsk = q[1] THEN q[2] ELSE r.p_schedtsk
  <2>1. q # <<>> /\ Head(q) = q[1] /\ q[2] \in Task /\ q[1] \in Task
    BY <1>2, <1>4
  <2>2. Tail(q) \in Seq(Task) /\ Tail(q) # <<>> /\ Tail(q)[1] = q[2]
    <3>1. Tail(q) \in Seq(Task) /\ Len(Tail(q)) = Len(q) - 1
      BY <1>2, <2>1
    <3>2. Len(q) >= 2
      BY <1>2, <1>4
    <3>3. Tail(q)[1] = q[2]
      BY <3>2, <1>2
    <3>4. Tail(q) # <<>>
      <4> DEFINE rest == Tail(q)
      <4> HIDE DEF rest, q
      <4>1. rest \in Seq(Task) /\ Len(rest) # 0
        BY <3>1, <3>2, <1>2 DEF rest
      <4>2. rest # <<>>
        BY <4>1
      <4> QED BY <4>2 DEF rest
    <3> QED BY <3>1, <3>3, <3>4
  <2>3. /\ turned \in Seq(Task) /\ turned # <<>> /\ NoDuplicate(turned)
        /\ \A u : Member(turned, u) <=> Member(q, u)
        /\ turned[1] = q[2]
    <3>1. /\ NoDuplicate(Tail(q)) /\ Member(q, q[1])
          /\ \A u : Member(Tail(q), u) <=> Member(q, u) /\ u # q[1]
      BY <1>2, <2>1, TailQueue
    <3> DEFINE rest == Tail(q)
    <3> HIDE DEF rest
    <3>2. /\ Append(rest, q[1]) \in Seq(Task) /\ Append(rest, q[1]) # <<>>
          /\ \A u : Member(Append(rest, q[1]), u) <=> Member(rest, u) \/ u = q[1]
          /\ NoDuplicate(rest) /\ ~ Member(rest, q[1])
               => NoDuplicate(Append(rest, q[1]))
          /\ Append(rest, q[1])[1] = IF rest = <<>> THEN q[1] ELSE rest[1]
      <4>1. rest \in Seq(Task) /\ q[1] \in Task
        BY <2>1, <2>2 DEF rest
      <4> HIDE DEF q
      <4> QED BY <4>1, AppendQueue
    <3>3. turned = Append(rest, q[1])
      BY <2>1 DEF rest
    <3> HIDE DEF turned, q
    <3> QED BY <2>2, <3>1, <3>2, <3>3 DEF rest
  <2> HIDE DEF turned
  <2>4. next \in Task \cup {NoTask}
    BY <2>1, <1>1 DEF ReadyState
  <2>5. /\ s \in ReadyState
        /\ s.ready_queue = [r.ready_queue EXCEPT ![p] = turned]
        /\ s.ready_primap = r.ready_primap
        /\ s.p_schedtsk = next /\ s.dspflg = r.dspflg
    <3>1. s = [r EXCEPT !.ready_queue[p] = turned, !.p_schedtsk = next]
      BY <1>4 DEF rotate_ready_queue, turned
    <3> HIDE DEF s, next, q
    <3> QED BY <3>1, <2>3, <2>4, <1>1 DEF ReadyState
  <2> HIDE DEF s
  <2>6. QueuesMatch(s, R, rank)
    BY <1>1, <2>3, <2>5 DEF QueuesMatch
  <2>7. PrimapMatches(s)
    BY <1>1, <2>1, <2>3, <2>5 DEF PrimapMatches
  <2>8. SchedtskCurrent(s)
    <3> SUFFICES ASSUME r.dspflg PROVE IsHighest(s)
      BY <2>5 DEF SchedtskCurrent
    <3>1. p \in r.ready_primap
      BY <2>1, <1>1 DEF PrimapMatches
    <3>2. PICK h \in r.ready_primap : /\ \A o \in r.ready_primap : h <= o
                                      /\ r.p_schedtsk = r.ready_queue[h][1]
      BY <3>1 DEF Consistent, SchedtskCurrent, IsHighest
    <3>3. h \in TaskPrio
      BY <1>1 DEF ReadyState
    <3>4. CASE h = p
      BY <3>2, <3>4, <1>1, <2>3, <2>5 DEF IsHighest
    <3>5. CASE h # p
      <4>1. r.p_schedtsk # q[1]
        <5>1. Member(q, q[1])
          BY <1>2, <2>1, TailQueue
        <5>2. ~ Member(r.ready_queue[h], q[1])
          BY <5>1, <3>3, <3>5, <2>1, <1>1 DEF QueuesMatch
        <5>3. r.ready_queue[h] \in Seq(Task) /\ r.ready_queue[h] # <<>>
          BY <3>3, <1>1 DEF PrimapMatches
        <5>4. Member(r.ready_queue[h], r.ready_queue[h][1])
          BY <5>3, <3>3, <1>1, TailQueue DEF QueuesMatch
        <5> QED BY <5>2, <5>4, <3>2
      <4>2. s.p_schedtsk = s.ready_queue[h][1]
        BY <4>1, <3>2, <3>3, <3>5, <1>1, <2>5
      <4> QED BY <4>2, <3>2, <2>5 DEF IsHighest
    <3> QED BY <3>4, <3>5
  <2> QED BY <2>5, <2>6, <2>7, <2>8 DEF Consistent, s
<1> QED BY <1>3, <1>4

(* The part of change_priority for runnable tasks.                         *)
LEMMA ChangeReadyPriority ==
  ASSUME NEW r, NEW R \in SUBSET Task, NEW rank \in [Task -> TaskPrio],
         Consistent(r, R, rank), NEW t \in Task, t \in R,
         NEW newprio \in TaskPrio, NEW mtxmode \in BOOLEAN
  PROVE  /\ Consistent(change_ready_priority(r, rank, t, newprio, mtxmode), R,
                       [rank EXCEPT ![t] = newprio])
         /\ Holds(r, change_ready_priority(r, rank, t, newprio, mtxmode))
<1> DEFINE oldprio == rank[t]
           rq    == r.ready_queue
           rest  == Delete(rq[oldprio], t)
           queue == [rq EXCEPT ![oldprio] = rest]
           moved == IF mtxmode THEN InsertHead(queue[newprio], t)
                               ELSE Append(queue[newprio], t)
           c == [r EXCEPT !.ready_queue = [queue EXCEPT ![newprio] = moved],
                          !.ready_primap = Cleared(@, oldprio, rest) \cup {newprio}]
           next == IF ~ r.dspflg THEN r.p_schedtsk
                   ELSE IF r.p_schedtsk = t
                        THEN IF newprio >= oldprio THEN searchSchedtsk(c)
                                                   ELSE r.p_schedtsk
                        ELSE IF newprio <= rank[r.p_schedtsk] THEN moved[1]
                                                              ELSE r.p_schedtsk
           s     == change_ready_priority(r, rank, t, newprio, mtxmode)
           prio2 == [rank EXCEPT ![t] = newprio]
<1>1. /\ r \in ReadyState /\ oldprio \in TaskPrio /\ rq \in [TaskPrio -> Seq(Task)]
      /\ QueuesMatch(r, R, rank) /\ PrimapMatches(r)
  BY DEF Consistent, ReadyState
<1>2. /\ rest \in Seq(Task) /\ NoDuplicate(rest)
      /\ \A u : Member(rest, u) <=> Member(rq[oldprio], u) /\ u # t
      /\ rq[oldprio][1] # t => rest # <<>> /\ rest[1] = rq[oldprio][1]
  <2>1. /\ rq[oldprio] \in Seq(Task) /\ Member(rq[oldprio], t)
        /\ NoDuplicate(rq[oldprio])
    BY <1>1 DEF QueuesMatch
  <2> QED BY <2>1, DeleteProperties
<1> HIDE DEF rest
<1>3. /\ queue \in [TaskPrio -> Seq(Task)]
      /\ queue[oldprio] = rest
      /\ \A o \in TaskPrio : o # oldprio => queue[o] = rq[o]
  BY <1>1, <1>2
<1> HIDE DEF queue
<1>4. ASSUME NEW o \in TaskPrio
      PROVE  /\ NoDuplicate(queue[o]) /\ ~ Member(queue[o], t)
             /\ \A u \in Task : Member(queue[o], u) <=> u \in R \ {t} /\ rank[u] = o
  <2>1. /\ NoDuplicate(rq[o])
        /\ \A u \in Task : Member(rq[o], u) <=> u \in R /\ rank[u] = o
    BY <1>1 DEF QueuesMatch
  <2>2. CASE o = oldprio
    BY <2>1, <2>2, <1>2, <1>3
  <2>3. CASE o # oldprio
    BY <2>1, <2>3, <1>3
  <2> QED BY <2>2, <2>3
<1>5. /\ moved \in Seq(Task) /\ moved # <<>> /\ NoDuplicate(moved)
      /\ \A u : Member(moved, u) <=> Member(queue[newprio], u) \/ u = t
      /\ queue[newprio] = <<>> => moved[1] = t
  <2>1. /\ queue[newprio] \in Seq(Task)
        /\ NoDuplicate(queue[newprio]) /\ ~ Member(queue[newprio], t)
    BY <1>3, <1>4
  <2>2. CASE mtxmode
    BY <2>1, <2>2, InsertHeadProperties
  <2>3. CASE ~ mtxmode
    BY <2>1, <2>3, AppendQueue
  <2> QED BY <2>2, <2>3
<1> HIDE DEF moved
<1>6. /\ c \in ReadyState
      /\ c.ready_queue = [queue EXCEPT ![newprio] = moved]
      /\ c.ready_primap = Cleared(r.ready_primap, oldprio, rest) \cup {newprio}
      /\ c.dspflg = r.dspflg
  <2>1. Cleared(r.ready_primap, oldprio, rest) \cup {newprio} \in SUBSET TaskPrio
    BY <1>1 DEF Cleared, ReadyState
  <2> QED BY <2>1, <1>1, <1>3, <1>5 DEF ReadyState
<1>7. s = [c EXCEPT !.p_schedtsk = next]
  BY <1>1, <1>6 DEF change_ready_priority, rest, queue, moved, ReadyState
<1> HIDE DEF c, s
<1>8. QueuesMatch(c, R, prio2)
  <2> SUFFICES ASSUME NEW o \in TaskPrio
               PROVE  /\ NoDuplicate(c.ready_queue[o])
                      /\ \A u \in Task : Member(c.ready_queue[o], u)
                                       <=> u \in R /\ prio2[u] = o
    BY DEF QueuesMatch
  <2>1. CASE o = newprio
    <3>1. c.ready_queue[o] = moved
      BY <2>1, <1>3, <1>6
    <3> QED BY <3>1, <2>1, <1>4, <1>5
  <2>2. CASE o # newprio
    <3>1. c.ready_queue[o] = queue[o]
      BY <2>2, <1>3, <1>6
    <3> QED BY <3>1, <2>2, <1>4
  <2> QED BY <2>1, <2>2
<1>9. PrimapMatches(c)
  <2> SUFFICES ASSUME NEW o \in TaskPrio
               PROVE  o \in c.ready_primap <=> c.ready_queue[o] # <<>>
    BY DEF PrimapMatches
  <2>1. o \in r.ready_primap <=> rq[o] # <<>>
    BY <1>1 DEF PrimapMatches
  <2>2. CASE o = newprio
    BY <2>2, <1>3, <1>5, <1>6
  <2>3. CASE o # newprio /\ o = oldprio
    <3>1. rq[oldprio] # <<>>
      BY <1>1 DEF QueuesMatch, Member
    <3> QED BY <2>1, <2>3, <3>1, <1>3, <1>6 DEF Cleared
  <2>4. CASE o # newprio /\ o # oldprio
    BY <2>1, <2>4, <1>3, <1>6 DEF Cleared
  <2> QED BY <2>2, <2>3, <2>4
<1>10. newprio \in c.ready_primap /\ searchSchedtsk(c) \in Task
  <2>1. newprio \in c.ready_primap
    BY <1>6
  <2> QED BY <2>1, <1>6, <1>9, SearchSchedtskHighest
<1>11. next \in Task \cup {NoTask}
  <2>1. moved[1] \in Task
    BY <1>5
  <2> QED BY <2>1, <1>1, <1>10 DEF ReadyState
<1>12. /\ s \in ReadyState
       /\ s.ready_queue = c.ready_queue /\ s.ready_primap = c.ready_primap
       /\ s.p_schedtsk = next /\ s.dspflg = c.dspflg
  <2> HIDE DEF next
  <2> QED BY <1>6, <1>7, <1>11, SchedtskReplaced
<1>13. QueuesMatch(s, R, prio2) /\ PrimapMatches(s)
  BY <1>8, <1>9, <1>12 DEF QueuesMatch, PrimapMatches
<1>14. SchedtskCurrent(s)
  <2> SUFFICES ASSUME r.dspflg PROVE IsHighest(s)
    BY <1>6, <1>12 DEF SchedtskCurrent
  <2> DEFINE h == rank[r.p_schedtsk]
  <2>1. /\ r.p_schedtsk \in R /\ h \in r.ready_primap
        /\ \A o \in r.ready_primap : h <= o
        /\ rq[h][1] = r.p_schedtsk
    <3>1. /\ R \in SUBSET Task /\ rank \in [Task -> TaskPrio] /\ r \in ReadyState
          /\ QueuesMatch(r, R, rank) /\ PrimapMatches(r) /\ IsHighest(r) /\ R # {}
      BY <1>1 DEF Consistent, SchedtskCurrent
    <3>2. /\ r.p_schedtsk \in R /\ rank[r.p_schedtsk] \in r.ready_primap
          /\ \A o \in r.ready_primap : rank[r.p_schedtsk] <= o
          /\ r.ready_queue[rank[r.p_schedtsk]][1] = r.p_schedtsk
      BY ONLY <3>1, HighestTask, ZenonT(60)
    <3> QED BY ONLY <3>2, Zenon
  <2>2. h \in TaskPrio /\ r.ready_primap \subseteq TaskPrio
    BY <2>1, <1>1 DEF ReadyState
  <2>3. s.ready_primap \subseteq r.ready_primap \cup {newprio}
    BY <1>6, <1>12 DEF Cleared
  <2>4. newprio \in s.ready_primap /\ s.ready_queue[newprio] = moved
    BY <1>3, <1>6, <1>12
  <2>5. CASE r.p_schedtsk = t /\ newprio >= oldprio
    <3>1. s.p_schedtsk = searchSchedtsk(s)
      BY <2>5, <1>12 DEF searchSchedtsk
    <3> QED BY <3>1, <2>4, <1>12, <1>13, SearchSchedtskHighest
  <2>6. CASE r.p_schedtsk = t /\ ~ newprio >= oldprio
    <3>1. newprio \notin r.ready_primap /\ newprio # oldprio
      BY <2>1, <2>6, <1>1 DEF TaskPrio
    <3>2. queue[newprio] = <<>>
      BY <3>1, <1>1, <1>3 DEF PrimapMatches
    <3>3. s.p_schedtsk = t /\ moved[1] = t
      BY <3>2, <2>6, <1>5, <1>12
    <3>4. newprio < h
      BY <2>6, <1>1 DEF TaskPrio
    <3>5. \A o \in s.ready_primap : newprio <= o
      BY <2>1, <2>2, <2>3, <3>4 DEF TaskPrio
    <3> QED BY <3>3, <3>5, <2>4 DEF IsHighest
  <2>7. CASE r.p_schedtsk # t /\ newprio <= h
    <3>1. s.p_schedtsk = moved[1]
      BY <2>7, <1>12
    <3>2. \A o \in s.ready_primap : newprio <= o
      BY <2>1, <2>2, <2>3, <2>7 DEF TaskPrio
    <3> QED BY <3>1, <3>2, <2>4 DEF IsHighest
  <2>8. CASE r.p_schedtsk # t /\ ~ newprio <= h
    <3>1. s.p_schedtsk = r.p_schedtsk /\ h # newprio
      BY <2>2, <2>8, <1>12 DEF TaskPrio
    <3>2. \A o \in s.ready_primap : h <= o
      BY <2>1, <2>2, <2>3, <2>8 DEF TaskPrio
    <3>3. h \in s.ready_primap /\ queue[h][1] = r.p_schedtsk
      <4>1. CASE h = oldprio
        BY <4>1, <2>1, <2>8, <1>2, <1>3, <1>6, <1>12 DEF Cleared
      <4>2. CASE h # oldprio
        BY <4>2, <2>1, <2>2, <1>3, <1>6, <1>12 DEF Cleared
      <4> QED BY <4>1, <4>2
    <3>4. s.ready_queue[h] = queue[h]
      BY <3>1, <2>2, <1>3, <1>6, <1>12
    <3> QED BY <3>1, <3>2, <3>3, <3>4 DEF IsHighest
  <2> QED BY <2>5, <2>6, <2>7, <2>8
<1>15. ~ r.dspflg => s.p_schedtsk = r.p_schedtsk
  BY <1>12
<1> QED BY <1>6, <1>12, <1>13, <1>14, <1>15 DEF Consistent, Holds, s

(* Several tasks become runnable in the order of a queue: those of W are   *)
(* the ones of T in it, once each, and none of them was runnable.          *)
WakesEach(q, T, R, W) ==
  /\ \A i, j \in 1 .. Len(q) : q[i] = q[j] /\ q[i] \in T => i = j
  /\ \A i \in 1 .. Len(q) : q[i] \in T => q[i] \notin R
  /\ \A t \in T : t \in W <=> Member(q, t)

(* wake[n] is the ready queue when the first n of q have had their turn.   *)
WakesInTurn(wake, r, rank, q, T) ==
  /\ wake[0] = r
  /\ \A n \in 0 .. Len(q) - 1 :
       wake[n + 1] = IF q[n + 1] \in T THEN make_runnable(wake[n], rank, q[n + 1])
                                       ELSE wake[n]

(* The recursion that WakeAll is defined by does what it says.             *)
LEMMA WakeAllUnfolds ==
  ASSUME NEW r, NEW rank, NEW q \in Seq(Task \cup {NoTask}), NEW T
  PROVE  \E wake : WakesInTurn(wake, r, rank, q, T) /\ WakeAll(r, rank, q, T) = wake[Len(q)]
<1> DEFINE N == Len(q)
           body(w, n) == IF n = 0 THEN r
                         ELSE IF q[n] \in T THEN make_runnable(w[n - 1], rank, q[n])
                         ELSE w[n - 1]
           wake == CHOOSE w : w = [n \in 0 .. N |-> body(w, n)]
           Exists(m) == \E w : w = [n \in 0 .. m |-> body(w, n)]
           ExistsSet == {m \in 0 .. N : Exists(m)}
<1>1. N \in Nat
  OBVIOUS
<1>2. 0 .. N \subseteq ExistsSet
  <2>1. Exists(0)
    <3> DEFINE w0 == [n \in 0 .. 0 |-> r]
    <3>1. w0 = [n \in 0 .. 0 |-> body(w0, n)]
      OBVIOUS
    <3> HIDE DEF w0, body
    <3> QED BY <3>1
  <2>2. ASSUME NEW m \in 0 .. N - 1, Exists(m) PROVE Exists(m + 1)
    <3>1. PICK w : w = [n \in 0 .. m |-> body(w, n)]
      BY <2>2
    <3> DEFINE s == [n \in 0 .. m + 1 |-> IF n <= m THEN w[n] ELSE body(w, n)]
    <3>2. \A n \in 0 .. m + 1 : s[n] = body(s, n)
      <4> TAKE n \in 0 .. m + 1
      <4>1. n # 0 => n - 1 \in 0 .. m /\ s[n - 1] = w[n - 1]
        OBVIOUS
      <4>2. body(s, n) = body(w, n)
        BY <4>1
      <4>3. n <= m => w[n] = body(w, n)
        <5> HIDE DEF body
        <5>1. \A k \in 0 .. m : w[k] = body(w, k)
          BY <3>1
        <5> QED BY <5>1
      <4> QED BY <4>2, <4>3
    <3>3. s = [n \in 0 .. m + 1 |-> body(s, n)]
      <4> HIDE DEF body
      <4> QED BY <3>2
    <3> HIDE DEF s, body
    <3> QED BY <3>3
  <2> HIDE DEF Exists
  <2>3. 0 \in ExistsSet /\ \A m \in 0 .. N - 1 : m \in ExistsSet => m + 1 \in ExistsSet
    BY <1>1, <2>1, <2>2
  <2> HIDE DEF ExistsSet
  <2> QED BY <1>1, <2>3, SetInduction
<1>3. wake = [n \in 0 .. N |-> body(wake, n)]
  <2>1. \E w : w = [n \in 0 .. N |-> body(w, n)]
    <3>1. Exists(N)
      BY <1>1, <1>2
    <3> QED BY <3>1
  <2> QED BY <2>1
<1>4. WakeAll(r, rank, q, T) = wake[N]
  BY DEF WakeAll
<1> HIDE DEF wake
<1>5. /\ wake[0] = r
      /\ \A n \in 0 .. N - 1 :
           wake[n + 1] = IF q[n + 1] \in T THEN make_runnable(wake[n], rank, q[n + 1])
                                           ELSE wake[n]
  <2>1. wake[0] = body(wake, 0)
    BY <1>3
  <2>2. ASSUME NEW n \in 0 .. N - 1 PROVE wake[n + 1] = body(wake, n + 1)
    <3>1. n + 1 \in 0 .. N
      OBVIOUS
    <3> HIDE DEF body
    <3> QED BY <1>3, <3>1
  <2> QED BY <2>1, <2>2
<1> QED BY <1>4, <1>5 DEF WakesInTurn

(* Waking the tasks of a queue one by one makes exactly them ready.        *)
LEMMA WakeAllTasks ==
  ASSUME NEW r, NEW R \in SUBSET Task, NEW rank \in [Task -> TaskPrio],
         Consistent(r, R, rank), NEW q \in Seq(Task \cup {NoTask}), NEW T \in SUBSET Task,
         NEW W \in SUBSET T, WakesEach(q, T, R, W)
  PROVE  /\ Consistent(WakeAll(r, rank, q, T), R \cup W, rank)
         /\ WakeAll(r, rank, q, T).dspflg = r.dspflg
         /\ ~ r.dspflg => WakeAll(r, rank, q, T).p_schedtsk = r.p_schedtsk
         /\ \A p \in TaskPrio :
              Extends(r.ready_queue[p], WakeAll(r, rank, q, T).ready_queue[p])
<1> DEFINE N == Len(q)
<1>1. N \in Nat
  OBVIOUS
<1>2. PICK wake : WakesInTurn(wake, r, rank, q, T) /\ WakeAll(r, rank, q, T) = wake[Len(q)]
  BY WakeAllUnfolds, Zenon
<1>4. WakeAll(r, rank, q, T) = wake[N]
  BY <1>2
<1>5. /\ wake[0] = r
      /\ \A n \in 0 .. N - 1 :
           wake[n + 1] = IF q[n + 1] \in T THEN make_runnable(wake[n], rank, q[n + 1])
                                           ELSE wake[n]
  BY <1>2 DEF WakesInTurn
<1> DEFINE Done(n) == {t \in T : \E i \in 1 .. n : q[i] = t}
           Good(n) == /\ Consistent(wake[n], R \cup Done(n), rank)
                      /\ wake[n].dspflg = r.dspflg
                      /\ ~ r.dspflg => wake[n].p_schedtsk = r.p_schedtsk
                      /\ \A p \in TaskPrio :
                           Extends(r.ready_queue[p], wake[n].ready_queue[p])
           GoodSet == {n \in 0 .. N : Good(n)}
<1>6. 0 .. N \subseteq GoodSet
  <2>1. Good(0)
    <3>1. R \cup Done(0) = R
      OBVIOUS
    <3> HIDE DEF Done
    <3>2. \A p \in TaskPrio : Extends(r.ready_queue[p], r.ready_queue[p])
      BY DEF Extends, Consistent, ReadyState
    <3> QED BY <3>1, <3>2, <1>5
  <2>2. ASSUME NEW n \in 0 .. N - 1, Good(n) PROVE Good(n + 1)
    <3>1. n + 1 \in 1 .. N /\ R \cup Done(n) \in SUBSET Task
      OBVIOUS
    <3>2. CASE q[n + 1] \notin T
      <4>1. Done(n + 1) = Done(n) /\ wake[n + 1] = wake[n]
        BY <3>2, <1>5
      <4> HIDE DEF Done
      <4> QED BY <4>1, <2>2
    <3>3. CASE q[n + 1] \in T
      <4>1. q[n + 1] \notin R \cup Done(n) /\ q[n + 1] \in Task
        BY <3>1, <3>3 DEF WakesEach
      <4>2. R \cup Done(n + 1) = (R \cup Done(n)) \cup {q[n + 1]}
        BY <3>1, <3>3
      <4>3. wake[n + 1] = make_runnable(wake[n], rank, q[n + 1])
        BY <3>3, <1>5
      <4> HIDE DEF Done
      <4>4. /\ Consistent(wake[n + 1], (R \cup Done(n)) \cup {q[n + 1]}, rank)
            /\ wake[n + 1].dspflg = wake[n].dspflg
            /\ ~ wake[n].dspflg => wake[n + 1].p_schedtsk = wake[n].p_schedtsk
            /\ wake[n].ready_queue \in [TaskPrio -> Seq(Task)]
            /\ Queued(wake[n], wake[n + 1], rank, q[n + 1])
        <5> DEFINE R2 == R \cup Done(n)
                   u  == q[n + 1]
                   w  == wake[n]
        <5>1. R2 \in SUBSET Task /\ u \in Task /\ u \notin R2 /\ Consistent(w, R2, rank)
          BY <2>2, <3>1, <4>1
        <5>2. wake[n + 1] = make_runnable(w, rank, u)
          BY <4>3
        <5> HIDE DEF R2, u, w
        <5>3. /\ Consistent(make_runnable(w, rank, u), R2 \cup {u}, rank)
              /\ make_runnable(w, rank, u).dspflg = w.dspflg
              /\ ~ w.dspflg => make_runnable(w, rank, u).p_schedtsk = w.p_schedtsk
              /\ Queued(w, make_runnable(w, rank, u), rank, u)
          BY <5>1, MakeRunnable
        <5>4. w.ready_queue \in [TaskPrio -> Seq(Task)]
          BY <5>1 DEF Consistent, ReadyState
        <5> QED BY <5>2, <5>3, <5>4 DEF R2, u, w
      <4>5. \A p \in TaskPrio : Extends(r.ready_queue[p], wake[n + 1].ready_queue[p])
        <5> TAKE p \in TaskPrio
        <5> DEFINE a == r.ready_queue[p]
                   b == wake[n].ready_queue[p]
                   u == q[n + 1]
        <5>1. a \in Seq(Task) /\ b \in Seq(Task) /\ u \in Task /\ Extends(a, b)
          BY <2>2, <4>1, <4>4 DEF Consistent, ReadyState
        <5>2. wake[n + 1].ready_queue[p] = IF p = rank[u] THEN Append(b, u) ELSE b
          BY <4>4 DEF Queued
        <5> HIDE DEF a, b, u
        <5>3. Extends(a, Append(b, u))
          BY <5>1, ExtendsProperties
        <5>4. Extends(a, wake[n + 1].ready_queue[p])
          BY <5>1, <5>2, <5>3
        <5> QED BY <5>4 DEF a
      <4> QED BY <2>2, <4>2, <4>4, <4>5
    <3> QED BY <3>2, <3>3
  <2> HIDE DEF Good
  <2>3. 0 \in GoodSet /\ \A n \in 0 .. N - 1 : n \in GoodSet => n + 1 \in GoodSet
    BY <1>1, <2>1, <2>2
  <2> HIDE DEF GoodSet
  <2> QED BY <1>1, <2>3, SetInduction
<1>7. Good(N)
  <2> HIDE DEF Good
  <2> QED BY <1>1, <1>6
<1>8. Done(N) = W
  BY DEF Member, WakesEach
<1> QED BY <1>4, <1>7, <1>8

-----------------------------------------------------------------------------
(* The task kernel.                                                        *)

(* The invariant is inductive together with what the waits and the mutexes *)
(* keep: a task whose wait ends is made runnable, which is right only when *)
(* it really was waiting, and in no more than one queue.                   *)
WaitsOwned ==
  /\ \A t \in Task : isWaiting(t) <=> waiton[t] # "NONE"
  /\ \A w \in Wobj : NoDuplicate(wait_queue[w])
  /\ \A w \in Wobj, t \in Task : Member(wait_queue[w], t) <=> waiton[t] = w
  /\ TimeEventsOwned

(* Termination hands each mutex of the task to another one: the lists must *)
(* not repeat a mutex, and nobody waits for what it holds itself.          *)
MutexOwned ==
  /\ \A t \in Task : NoDuplicate(lastmtx[t])
  /\ \A t \in Task, m \in Mutex : Member(lastmtx[t], m) <=> loctsk[m] = t
  /\ \A t \in Task, m \in Mutex : waiton[t] = m => loctsk[m] \notin {NoTask, t}

(* Before the kernel is in operation nothing runs and the tasks still to   *)
(* be initialized are dormant.                                             *)
Booting ==
  ~ kerflg => /\ nest = 1 /\ runtsk = NoTask
              /\ NoDuplicate(torder)
              /\ \A t \in Task : Member(torder, t) => tstat[t] = "DORMANT"

IInv ==
  /\ TypeOK /\ ReadyQueueConsistent /\ DispatchDone /\ DspflgCoherent
  /\ WaitsOwned /\ MutexOwned /\ Booting

(* The scheduling data as the lemmas on the ready queue state it.          *)
LEMMA ReadyConsistent ==
  ASSUME TypeOK, ReadyQueueConsistent
  PROVE  Consistent(rdy, Runnable, prio) /\ Runnable \in SUBSET Task
  BY DEF TypeOK, ReadyQueueConsistent, Consistent, Runnable

(* While dispatching goes on, p_schedtsk is a runnable task if any.        *)
LEMMA SchedtskRunnable ==
  ASSUME NEW r, NEW R \in SUBSET Task, NEW p \in [Task -> TaskPrio],
         Consistent(r, R, p), r.dspflg, r.p_schedtsk # NoTask
  PROVE  r.p_schedtsk \in R
<1>1. r \in ReadyState /\ QueuesMatch(r, R, p) /\ PrimapMatches(r) /\ IsHighest(r)
  BY DEF Consistent, SchedtskCurrent
<1>2. R # {}
  <2> SUFFICES ASSUME R = {} PROVE FALSE
    OBVIOUS
  <2>1. r.ready_primap = {}
    BY <1>1, NoTaskRunnable
  <2> QED BY <2>1, <1>1 DEF IsHighest
<1> QED BY <1>1, <1>2, HighestTask, Zenon

(* What a step owes to dispatching: the processor goes to p_schedtsk,      *)
(* unless a handler runs or dispatching is held back.                      *)
LEMMA DispatchKept ==
  ASSUME Consistent(rdy', Runnable', prio'), (prio \in [Task -> TaskPrio])',
         rdy'.dspflg <=> enadsp' /\ ipmall',
         (runtsk # NoTask)' => (tstat[runtsk] = "RUNNABLE")' \/ (runtsk = rdy.p_schedtsk)',
         kerflg' /\ nest' = 0 => (runtsk = rdy.p_schedtsk)',
         ~ rdy'.dspflg => /\ (runtsk # NoTask)' /\ (rdy.p_schedtsk = runtsk)'
                          /\ (tstat[runtsk] = "RUNNABLE")'
  PROVE  ReadyQueueConsistent' /\ DispatchDone' /\ DspflgCoherent'
<1>1. rdy'.dspflg /\ (rdy.p_schedtsk # NoTask)' => (tstat[rdy.p_schedtsk] = "RUNNABLE")'
  <2>1. Runnable' \in SUBSET Task
    BY DEF Runnable
  <2>2. rdy'.dspflg /\ (rdy.p_schedtsk # NoTask)' => (rdy.p_schedtsk)' \in Runnable'
    BY <2>1, SchedtskRunnable
  <2> QED BY <2>2 DEF Runnable
<1> QED BY <1>1 DEF ReadyQueueConsistent, DispatchDone, DspflgCoherent, Consistent
-----------------------------------------------------------------------------
(* The kernel comes up in a state of the invariant.                        *)
LEMMA InitInvariant == Init => IInv
<1> SUFFICES ASSUME Init PROVE IInv
  OBVIOUS
<1> USE ConfigAssumption, TaskAssumption, PrioAssumption
<1>1. TypeOK
  <2>1. rdy \in ReadyState
    BY DEF Init, InitReady, ReadyState
  <2>2. /\ tstat \in [Task -> TaskState] /\ waiton \in [Task -> WaitCause]
        /\ actque \in [Task -> 0 .. TMAX_ACTCNT] /\ wupque \in [Task -> 0 .. TMAX_WUPCNT]
        /\ raster \in [Task -> BOOLEAN] /\ enater \in [Task -> BOOLEAN]
        /\ winfo \in [Task -> WaitInfo]
    BY DEF Init, TaskState, WaitCause, TMAX_ACTCNT, TMAX_WUPCNT, WaitInfo
  <2>3. /\ wait_queue \in [Wobj -> Seq(Task)]
        /\ loctsk \in [Mutex -> Task \cup {NoTask}] /\ lastmtx \in [Task -> Seq(Mutex)]
    BY DEF Init
  <2>4. nest \in 0 .. MaxNest + 1
    BY DEF Init
  <2> QED BY <2>1, <2>2, <2>3, <2>4 DEF Init, TypeOK
<1>2. ReadyQueueConsistent
  BY DEF Init, InitReady, ReadyQueueConsistent, QueuesMatch, PrimapMatches,
         SchedtskCurrent, IsHighest, Runnable, Member, NoDuplicate
<1>3. DispatchDone /\ DspflgCoherent
  BY DEF Init, InitReady, DispatchDone, DspflgCoherent
<1>4. WaitsOwned /\ MutexOwned /\ Booting
  BY DEF Init, WaitsOwned, TimeEventsOwned, MutexOwned, Booting, isWaiting, Member,
         NoDuplicate
<1> QED BY <1>1, <1>2, <1>3, <1>4 DEF IInv
-----------------------------------------------------------------------------
(* A step that only counts requests, marks a termination request or locks  *)
(* the CPU disturbs nothing but the types.                                 *)
LEMMA QuietStep ==
  ASSUME IInv, TypeOK',
         UNCHANGED <<rdy, runtsk, stateVars, prio, waitVars, dspVars, nest, bootVars>>
  PROVE  IInv'
<1> USE DEF stateVars, waitVars, mtxVars, dspVars, bootVars
<1>1. ReadyQueueConsistent'
  BY DEF IInv, ReadyQueueConsistent, Runnable
<1>2. DispatchDone' /\ DspflgCoherent'
  BY DEF IInv, DispatchDone, DspflgCoherent
<1>3. WaitsOwned'
  BY DEF IInv, WaitsOwned, TimeEventsOwned, isWaiting
<1>4. MutexOwned' /\ Booting'
  BY DEF IInv, MutexOwned, Booting
<1> QED BY <1>1, <1>2, <1>3, <1>4 DEF IInv

(* Calls that leave the ready queue and all task states alone.             *)
LEMMA QuietCalls ==
  ASSUME IInv,
         \/ \E t \in Task : can_act(t) \/ can_wup(t)
         \/ dis_ter \/ loc_cpu \/ unl_cpu
  PROVE  IInv'
<1> USE DEF stateVars, prioVars, queVars, terVars, waitVars, mtxVars, dspVars, cpuVars,
            bootVars
<1>1. ASSUME NEW t \in Task, can_act(t) PROVE IInv'
  <2>1. TypeOK'
    BY <1>1 DEF IInv, TypeOK, can_act, TMAX_ACTCNT
  <2> QED BY <1>1, <2>1, QuietStep DEF can_act
<1>2. ASSUME NEW t \in Task, can_wup(t) PROVE IInv'
  <2>1. TypeOK'
    BY <1>2 DEF IInv, TypeOK, can_wup, TMAX_WUPCNT
  <2> QED BY <1>2, <2>1, QuietStep DEF can_wup
<1>3. CASE dis_ter
  <2>1. TypeOK'
    BY <1>3 DEF IInv, TypeOK, dis_ter
  <2> QED BY <1>3, <2>1, QuietStep DEF dis_ter
<1>4. CASE loc_cpu \/ unl_cpu
  <2>1. TypeOK'
    BY <1>4 DEF IInv, TypeOK, loc_cpu, unl_cpu
  <2> QED BY <1>4, <2>1, QuietStep DEF loc_cpu, unl_cpu
<1> QED BY <1>1, <1>2, <1>3, <1>4

(* Interrupt entry and exit, and the dispatch of the outermost exit.       *)
LEMMA InterruptSteps ==
  ASSUME IInv, enter_int \/ leave_int
  PROVE  IInv'
<1> USE DEF stateVars, prioVars, queVars, terVars, waitVars, mtxVars, dspVars, cpuVars,
            bootVars
<1>1. TypeOK'
  <2>1. nest' \in 0 .. MaxNest + 1
    BY ConfigAssumption DEF IInv, TypeOK, enter_int, leave_int
  <2>2. runtsk' \in Task \cup {NoTask} /\ cpulock' \in BOOLEAN
    BY DEF IInv, TypeOK, enter_int, leave_int, ReadyState
  <2> QED BY <2>1, <2>2 DEF IInv, TypeOK, enter_int, leave_int
<1>2. Consistent(rdy', Runnable', prio') /\ (prio \in [Task -> TaskPrio])'
  BY ReadyConsistent DEF IInv, TypeOK, Runnable, enter_int, leave_int
<1>3. ReadyQueueConsistent' /\ DispatchDone' /\ DspflgCoherent'
  <2>1. CASE enter_int
    BY <2>1, <1>2, DispatchKept, ConfigAssumption
       DEF IInv, TypeOK, DispatchDone, DspflgCoherent, enter_int
  <2>2. CASE leave_int
    BY <2>2, <1>2, DispatchKept DEF IInv, TypeOK, DispatchDone, DspflgCoherent, leave_int
  <2> QED BY <2>1, <2>2
<1>4. WaitsOwned'
  BY DEF IInv, WaitsOwned, TimeEventsOwned, isWaiting, enter_int, leave_int
<1>5. MutexOwned' /\ Booting'
  BY DEF IInv, MutexOwned, Booting, enter_int, leave_int
<1> QED BY <1>1, <1>3, <1>4, <1>5 DEF IInv
-----------------------------------------------------------------------------
(* One task becomes runnable.                                              *)
LEMMA BecomesRunnable ==
  ASSUME IInv, NEW t \in Task, tstat[t] # "RUNNABLE", prio' = prio,
         rdy' = make_runnable(rdy, prio, t),
         (tstat \in [Task -> TaskState])',
         Runnable' = Runnable \cup {t}
  PROVE  /\ Consistent(rdy', Runnable', prio') /\ (prio \in [Task -> TaskPrio])'
         /\ (rdy.dspflg)' = rdy.dspflg
         /\ ~ rdy.dspflg => (rdy.p_schedtsk)' = rdy.p_schedtsk
<1>1. Consistent(rdy, Runnable, prio) /\ Runnable \in SUBSET Task
  BY ReadyConsistent DEF IInv
<1>2. t \notin Runnable /\ prio \in [Task -> TaskPrio]
  BY DEF Runnable, IInv, TypeOK
<1>3. /\ Consistent(make_runnable(rdy, prio, t), Runnable \cup {t}, prio)
      /\ make_runnable(rdy, prio, t).dspflg = rdy.dspflg
      /\ ~ rdy.dspflg => make_runnable(rdy, prio, t).p_schedtsk = rdy.p_schedtsk
  BY <1>1, <1>2, MakeRunnable
<1> QED BY <1>2, <1>3

(* initialize_task and startDispatch.                                      *)
LEMMA BootSteps ==
  ASSUME IInv, initialize_task \/ startDispatch
  PROVE  IInv'
<1> USE DEF stateVars, prioVars, queVars, terVars, waitVars, mtxVars, dspVars, cpuVars,
            bootVars
<1>1. CASE startDispatch
  <2>1. TypeOK'
    <3>1. nest' \in 0 .. MaxNest + 1 /\ runtsk' \in Task \cup {NoTask}
      BY <1>1, ConfigAssumption DEF IInv, TypeOK, startDispatch, ReadyState
    <3> QED BY <1>1, <3>1 DEF IInv, TypeOK, startDispatch
  <2>2. Consistent(rdy', Runnable', prio') /\ (prio \in [Task -> TaskPrio])'
    BY <1>1, ReadyConsistent DEF IInv, TypeOK, Runnable, startDispatch
  <2>3. rdy.dspflg
    BY <1>1 DEF IInv, DspflgCoherent, Booting, startDispatch
  <2>4. ReadyQueueConsistent' /\ DispatchDone' /\ DspflgCoherent'
    BY <1>1, <2>2, <2>3, DispatchKept DEF IInv, DspflgCoherent, startDispatch
  <2>5. WaitsOwned' /\ MutexOwned' /\ Booting'
    BY <1>1 DEF IInv, WaitsOwned, TimeEventsOwned, isWaiting, MutexOwned, Booting,
                startDispatch
  <2> QED BY <2>1, <2>4, <2>5 DEF IInv
<1>2. CASE initialize_task
  <2> DEFINE t == Head(torder)
  <2>1. /\ ~ kerflg /\ torder # <<>> /\ torder \in Seq(Task) /\ NoDuplicate(torder)
        /\ nest = 1 /\ runtsk = NoTask /\ rdy.dspflg
        /\ \A u \in Task : Member(torder, u) => tstat[u] = "DORMANT"
    BY <1>2 DEF IInv, TypeOK, DspflgCoherent, Booting, initialize_task
  <2>2. /\ t \in Task /\ t = torder[1] /\ Member(torder, t)
        /\ Tail(torder) \in Seq(Task) /\ NoDuplicate(Tail(torder))
        /\ \A u : Member(Tail(torder), u) <=> Member(torder, u) /\ u # t
    BY <2>1, TailQueue
  <2>3. tstat[t] = "DORMANT"
    BY <2>1, <2>2
  <2> HIDE DEF t
  <2>4. CASE t \in TA_ACT
    <3>1. /\ tstat' = [tstat EXCEPT ![t] = "RUNNABLE"]
          /\ rdy' = make_runnable(rdy, prio, t)
      BY <1>2, <2>4 DEF initialize_task, become_runnable, t
    <3>2. (tstat \in [Task -> TaskState])' /\ Runnable' = Runnable \cup {t}
      BY <3>1, <2>2 DEF IInv, TypeOK, TaskState, Runnable
    <3>3. prio' = prio
      BY <1>2 DEF initialize_task
    <3>4. /\ Consistent(rdy', Runnable', prio') /\ (prio \in [Task -> TaskPrio])'
          /\ (rdy.dspflg)' = rdy.dspflg
      BY <2>2, <2>3, <3>1, <3>2, <3>3, BecomesRunnable
    <3>5. TypeOK'
      BY <1>2, <2>2, <3>2, <3>4 DEF IInv, TypeOK, Consistent, initialize_task, t
    <3>6. ReadyQueueConsistent' /\ DispatchDone' /\ DspflgCoherent'
      BY <1>2, <2>1, <3>4, DispatchKept DEF IInv, DspflgCoherent, initialize_task
    <3>7. WaitsOwned' /\ MutexOwned'
      BY <1>2, <2>2, <2>3, <3>1, SMTT(60)
         DEF IInv, TypeOK, WaitsOwned, TimeEventsOwned, isWaiting, MutexOwned,
             initialize_task
    <3>8. Booting'
      BY <1>2, <2>1, <2>2, <3>1 DEF Booting, IInv, TypeOK, initialize_task, t
    <3> QED BY <3>5, <3>6, <3>7, <3>8 DEF IInv
  <2>5. CASE t \notin TA_ACT
    <3>1. UNCHANGED <<tstat, rdy>>
      BY <1>2, <2>5 DEF initialize_task, t
    <3>2. TypeOK'
      BY <1>2, <2>2, <3>1 DEF IInv, TypeOK, initialize_task, t
    <3>3. ReadyQueueConsistent' /\ DispatchDone' /\ DspflgCoherent'
      BY <1>2, <3>1 DEF IInv, ReadyQueueConsistent, Runnable, DispatchDone,
                        DspflgCoherent, initialize_task
    <3>4. WaitsOwned' /\ MutexOwned'
      BY <1>2, <3>1 DEF IInv, WaitsOwned, TimeEventsOwned, isWaiting, MutexOwned,
                        initialize_task
    <3>5. Booting'
      BY <1>2, <2>1, <2>2, <3>1 DEF Booting, initialize_task, t
    <3> QED BY <3>2, <3>3, <3>4, <3>5 DEF IInv
  <2> QED BY <2>4, <2>5
<1> QED BY <1>1, <1>2
-----------------------------------------------------------------------------
(* What the calls that end in a dispatch have in common: dispatching stays *)
(* held back or not, and what is held back stays where it was.             *)
LEMMA CallDispatches ==
  ASSUME IInv, kerflg, UNCHANGED <<enadsp, ipmall, nest, kerflg>>,
         Consistent(rdy', Runnable', prio'), (prio \in [Task -> TaskPrio])',
         (rdy.dspflg)' = rdy.dspflg,
         ~ rdy.dspflg => (rdy.p_schedtsk)' = rdy.p_schedtsk,
         runtsk # NoTask /\ (nest > 0 \/ ~ rdy.dspflg) => (tstat')[runtsk] = "RUNNABLE",
         runtsk' = IF nest > 0 THEN runtsk ELSE (rdy.p_schedtsk)'
  PROVE  /\ (rdy \in ReadyState)' /\ (runtsk \in Task \cup {NoTask})'
         /\ ReadyQueueConsistent' /\ DispatchDone' /\ DspflgCoherent'
<1>1. (rdy \in ReadyState)'
  BY DEF Consistent
<1>2. (runtsk \in Task \cup {NoTask})'
  BY <1>1 DEF IInv, TypeOK, ReadyState
<1>3. nest \in Nat
  BY ConfigAssumption DEF IInv, TypeOK
<1>4. ~ rdy.dspflg => runtsk # NoTask /\ rdy.p_schedtsk = runtsk
  BY DEF IInv, DspflgCoherent
<1>5. rdy'.dspflg <=> enadsp' /\ ipmall'
  BY DEF IInv, DspflgCoherent
<1>6. ReadyQueueConsistent' /\ DispatchDone' /\ DspflgCoherent'
  BY <1>3, <1>4, <1>5, DispatchKept
<1> QED BY <1>1, <1>2, <1>6

(* act_tsk starts a task or queues the request.                            *)
LEMMA ActTsk ==
  ASSUME IInv, NEW t \in Task, act_tsk(t)
  PROVE  IInv'
<1> USE DEF stateVars, prioVars, queVars, terVars, waitVars, mtxVars, dspVars, cpuVars,
            bootVars
<1>0. kerflg
  BY DEF act_tsk, checkContextUnlock
<1>1. CASE tstat[t] = "DORMANT"
  <2>1. /\ tstat' = [tstat EXCEPT ![t] = "RUNNABLE"]
        /\ rdy' = make_runnable(rdy, prio, t)
        /\ actque' = actque /\ prio' = prio
        /\ runtsk' = IF nest > 0 THEN runtsk ELSE rdy'.p_schedtsk
    BY <1>1 DEF act_tsk, become_runnable, requestTaskDispatch
  <2>2. (tstat \in [Task -> TaskState])' /\ Runnable' = Runnable \cup {t}
    BY <2>1 DEF IInv, TypeOK, TaskState, Runnable
  <2>3. /\ Consistent(rdy', Runnable', prio') /\ (prio \in [Task -> TaskPrio])'
        /\ (rdy.dspflg)' = rdy.dspflg
        /\ ~ rdy.dspflg => (rdy.p_schedtsk)' = rdy.p_schedtsk
    BY <1>1, <2>1, <2>2, BecomesRunnable
  <2>4. runtsk # NoTask => (tstat')[runtsk] = "RUNNABLE"
    BY <2>1 DEF IInv, DispatchDone, TypeOK
  <2>5. /\ (rdy \in ReadyState)' /\ (runtsk \in Task \cup {NoTask})'
        /\ ReadyQueueConsistent' /\ DispatchDone' /\ DspflgCoherent'
    BY <1>0, <2>1, <2>3, <2>4, CallDispatches DEF act_tsk
  <2>6. TypeOK'
    BY <2>1, <2>2, <2>5 DEF IInv, TypeOK, act_tsk
  <2>7. WaitsOwned' /\ MutexOwned' /\ Booting'
    BY <1>0, <1>1, <2>1 DEF IInv, TypeOK, WaitsOwned, TimeEventsOwned, isWaiting,
                            MutexOwned, Booting, act_tsk
  <2> QED BY <2>5, <2>6, <2>7 DEF IInv
<1>2. CASE tstat[t] # "DORMANT"
  <2>1. TypeOK'
    <3>1. /\ actque' = [actque EXCEPT ![t] = actque[t] + 1]
          /\ actque[t] < TMAX_ACTCNT
      BY <1>2 DEF act_tsk, ActqueRoom
    <3>2. actque \in [Task -> 0 .. TMAX_ACTCNT]
      BY DEF IInv, TypeOK
    <3>3. actque' \in [Task -> 0 .. TMAX_ACTCNT]
      <4> HIDE DEF IInv, act_tsk
      <4>1. actque[t] + 1 \in 0 .. TMAX_ACTCNT
        BY <3>1, <3>2 DEF TMAX_ACTCNT
      <4> QED BY <3>1, <3>2, <4>1
    <3> QED BY <1>2, <3>3 DEF IInv, TypeOK, act_tsk
  <2> QED BY <1>2, <2>1, QuietStep DEF act_tsk
<1> QED BY <1>1, <1>2

(* rot_rdq.                                                                *)
LEMMA RotRdq ==
  ASSUME IInv, NEW p \in TaskPrio, rot_rdq(p)
  PROVE  IInv'
<1> USE DEF stateVars, prioVars, queVars, terVars, waitVars, mtxVars, dspVars, cpuVars,
            bootVars
<1>1. /\ rdy' = rotate_ready_queue(rdy, p) /\ kerflg
      /\ runtsk' = IF nest > 0 THEN runtsk ELSE rdy'.p_schedtsk
      /\ prio' = prio /\ Runnable' = Runnable /\ tstat' = tstat
  BY DEF rot_rdq, requestTaskDispatch, checkContextUnlock, Runnable
<1>2. Consistent(rdy, Runnable, prio) /\ Runnable \in SUBSET Task
  BY ReadyConsistent DEF IInv
<1>3. prio \in [Task -> TaskPrio]
  BY DEF IInv, TypeOK
<1>4. /\ Consistent(rdy', Runnable', prio')
      /\ (rdy.dspflg)' = rdy.dspflg
      /\ ~ rdy.dspflg => (rdy.p_schedtsk)' = rdy.p_schedtsk
  BY <1>1, <1>2, <1>3, RotateReadyQueue
<1>5. runtsk # NoTask => (tstat')[runtsk] = "RUNNABLE"
  BY <1>1 DEF IInv, DispatchDone
<1>6. /\ (rdy \in ReadyState)' /\ (runtsk \in Task \cup {NoTask})'
      /\ ReadyQueueConsistent' /\ DispatchDone' /\ DspflgCoherent'
  BY <1>1, <1>3, <1>4, <1>5, CallDispatches DEF rot_rdq
<1>7. TypeOK'
  BY <1>6 DEF IInv, TypeOK, rot_rdq
<1>8. WaitsOwned' /\ MutexOwned' /\ Booting'
  BY <1>1 DEF IInv, WaitsOwned, TimeEventsOwned, isWaiting, MutexOwned, Booting, rot_rdq
<1> QED BY <1>6, <1>7, <1>8 DEF IInv

(* Holding dispatching back: dis_dsp, and chg_ipm unless it lets it go on. *)
LEMMA HoldsBack ==
  ASSUME IInv, TaskContext, rdy' = [rdy EXCEPT !.dspflg = FALSE],
         UNCHANGED <<runtsk, stateVars, prioVars, queVars, terVars, waitVars, cpuVars,
                     bootVars>>,
         enadsp' \in BOOLEAN, ipmall' \in BOOLEAN, ~ (enadsp' /\ ipmall')
  PROVE  IInv'
<1> USE DEF stateVars, prioVars, queVars, terVars, waitVars, mtxVars, cpuVars, bootVars
<1>1. Consistent(rdy, Runnable, prio) /\ Runnable \in SUBSET Task
  BY ReadyConsistent DEF IInv
<1>2. prio \in [Task -> TaskPrio] /\ prio' = prio /\ Runnable' = Runnable
  BY DEF IInv, TypeOK, Runnable
<1>3. /\ Consistent(rdy', Runnable', prio')
      /\ rdy'.dspflg = FALSE /\ (rdy.p_schedtsk)' = rdy.p_schedtsk
  BY <1>1, <1>2, ClearDspflg
<1>4. runtsk # NoTask /\ runtsk = rdy.p_schedtsk /\ tstat[runtsk] = "RUNNABLE"
  BY DEF TaskContext, IInv, DispatchDone
<1>5. ReadyQueueConsistent' /\ DispatchDone' /\ DspflgCoherent'
  BY <1>2, <1>3, <1>4, DispatchKept
<1>6. TypeOK'
  BY <1>3 DEF IInv, TypeOK, Consistent
<1>7. WaitsOwned' /\ MutexOwned' /\ Booting'
  BY DEF IInv, WaitsOwned, TimeEventsOwned, isWaiting, MutexOwned, Booting
<1> QED BY <1>5, <1>6, <1>7 DEF IInv
-----------------------------------------------------------------------------
(* The running task starts to wait: kernel/wait.zig, make_wait.            *)
LEMMA MakesWait ==
  ASSUME IInv, checkDispatch, NEW cause \in WaitCause \ {"NONE"}, NEW timed \in BOOLEAN,
         make_wait(cause, timed), taskDispatch, prio' = prio,
         UNCHANGED <<enadsp, ipmall, nest, kerflg>>
  PROVE  /\ (rdy \in ReadyState)' /\ (runtsk \in Task \cup {NoTask})'
         /\ ReadyQueueConsistent' /\ DispatchDone' /\ DspflgCoherent'
         /\ (tstat \in [Task -> TaskState])' /\ (waiton \in [Task -> WaitCause])'
         /\ (winfo \in [Task -> WaitInfo])' /\ tmevt' \in SUBSET Task
<1> DEFINE t == runtsk
<1>1. /\ t \in Task /\ tstat[t] = "RUNNABLE" /\ kerflg /\ nest = 0 /\ rdy.dspflg
  BY DEF checkDispatch, checkContextTaskUnlock, TaskContext, IInv, TypeOK, DispatchDone
<1> HIDE DEF t
<1>2. /\ tstat' = [tstat EXCEPT ![t] = "WAITING"]
      /\ waiton' = [waiton EXCEPT ![t] = cause]
      /\ rdy' = make_non_runnable(rdy, prio, t)
      /\ winfo' = [winfo EXCEPT ![t] = IF timed THEN "tmevtb" ELSE "null"]
      /\ tmevt' = IF timed THEN tmevt \cup {t} ELSE tmevt
      /\ runtsk' = rdy'.p_schedtsk
  BY DEF make_wait, taskDispatch, t
<1>3. Runnable' = Runnable \ {t} /\ t \in Runnable
  BY <1>1, <1>2 DEF Runnable, IInv, TypeOK
<1>4. Consistent(rdy, Runnable, prio) /\ Runnable \in SUBSET Task
  BY ReadyConsistent DEF IInv
<1>5. prio \in [Task -> TaskPrio]
  BY DEF IInv, TypeOK
<1>6. Consistent(rdy', Runnable', prio') /\ (rdy.dspflg)' = rdy.dspflg
  BY <1>1, <1>2, <1>3, <1>4, <1>5, MakeNonRunnable
<1>7. /\ (rdy \in ReadyState)' /\ (runtsk \in Task \cup {NoTask})'
      /\ ReadyQueueConsistent' /\ DispatchDone' /\ DspflgCoherent'
  BY <1>1, <1>2, <1>5, <1>6, CallDispatches
<1>8. /\ (tstat \in [Task -> TaskState])' /\ (waiton \in [Task -> WaitCause])'
      /\ (winfo \in [Task -> WaitInfo])' /\ tmevt' \in SUBSET Task
  BY <1>1, <1>2 DEF IInv, TypeOK, TaskState, WaitInfo
<1> QED BY <1>7, <1>8

(* A task put into one wait queue is in that one only.                     *)
LEMMA WaitOwned ==
  ASSUME IInv, checkDispatch, NEW cause \in WaitCause \ {"NONE"}, NEW timed \in BOOLEAN,
         make_wait(cause, timed),
         \A w \in Wobj : NoDuplicate(wait_queue'[w]),
         \A w \in Wobj, t \in Task :
            Member(wait_queue'[w], t) <=> Member(wait_queue[w], t) \/ (t = runtsk /\ w = cause)
  PROVE  WaitsOwned'
<1>1. runtsk \in Task /\ tstat[runtsk] = "RUNNABLE"
  BY DEF checkDispatch, checkContextTaskUnlock, TaskContext, IInv, TypeOK, DispatchDone
<1>2. waiton[runtsk] = "NONE" /\ runtsk \notin tmevt
  BY <1>1 DEF IInv, WaitsOwned, TimeEventsOwned, isWaiting
<1>3. \A t \in Task : (isWaiting(t) <=> waiton[t] # "NONE")'
  BY <1>1 DEF make_wait, isWaiting, IInv, WaitsOwned, TypeOK
<1>4. \A w \in Wobj, t \in Task : Member(wait_queue'[w], t) <=> waiton'[t] = w
  BY <1>1, <1>2, ConfigAssumption DEF make_wait, IInv, WaitsOwned, TypeOK
<1>5. TimeEventsOwned'
  BY <1>1, <1>2 DEF make_wait, isWaiting, IInv, WaitsOwned, TimeEventsOwned, TypeOK
<1> QED BY <1>3, <1>4, <1>5 DEF WaitsOwned

(* slp_tsk, tslp_tsk and dly_tsk.                                          *)
LEMMA SlpTsk ==
  ASSUME IInv, (\E timed \in BOOLEAN : slp_tsk(timed)) \/ dly_tsk
  PROVE  IInv'
<1> USE DEF stateVars, prioVars, queVars, terVars, waitVars, mtxVars, dspVars, cpuVars,
            bootVars
<1>1. ASSUME NEW timed \in BOOLEAN, slp_tsk(timed), wupque[runtsk] > 0 PROVE IInv'
  <2>1. /\ wupque' = [wupque EXCEPT ![runtsk] = @ - 1]
        /\ UNCHANGED <<rdy, runtsk, stateVars, winfo, tmevt>>
    BY <1>1 DEF slp_tsk
  <2>2. runtsk \in Task /\ wupque \in [Task -> 0 .. TMAX_WUPCNT]
    BY <1>1 DEF slp_tsk, checkDispatch, checkContextTaskUnlock, TaskContext, IInv, TypeOK
  <2>3. wupque' \in [Task -> 0 .. TMAX_WUPCNT]
    BY <1>1, <2>1, <2>2 DEF TMAX_WUPCNT
  <2>4. TypeOK'
    BY <1>1, <2>1, <2>3 DEF IInv, TypeOK, slp_tsk
  <2> QED BY <1>1, <2>1, <2>4, QuietStep DEF slp_tsk
<1>2. ASSUME NEW cause \in {"SLP", "DLY"}, NEW timed \in BOOLEAN, checkDispatch,
             make_wait(cause, timed), taskDispatch,
             UNCHANGED <<prioVars, queVars, terVars, wait_queue, mtxVars, dspVars,
                         cpuVars, bootVars>>
      PROVE  IInv'
  <2>1. cause \in WaitCause \ {"NONE"} /\ cause \notin Wobj
    BY ConfigAssumption DEF WaitCause
  <2>2. /\ (rdy \in ReadyState)' /\ (runtsk \in Task \cup {NoTask})'
        /\ ReadyQueueConsistent' /\ DispatchDone' /\ DspflgCoherent'
        /\ (tstat \in [Task -> TaskState])' /\ (waiton \in [Task -> WaitCause])'
        /\ (winfo \in [Task -> WaitInfo])' /\ tmevt' \in SUBSET Task
    BY <1>2, <2>1, MakesWait
  <2>3. TypeOK'
    BY <1>2, <2>2 DEF IInv, TypeOK
  <2>4. WaitsOwned'
    <3>1. /\ \A w \in Wobj : NoDuplicate(wait_queue'[w])
          /\ \A w \in Wobj, t \in Task : Member(wait_queue'[w], t)
               <=> Member(wait_queue[w], t) \/ (t = runtsk /\ w = cause)
      BY <1>2, <2>1 DEF IInv, WaitsOwned
    <3> QED BY <1>2, <2>1, <3>1, WaitOwned
  <2>5. MutexOwned'
    <3>1. Mutex \subseteq Wobj
      BY ConfigAssumption
    <3>2. waiton' = [waiton EXCEPT ![runtsk] = cause] /\ loctsk' = loctsk /\ lastmtx' = lastmtx
      BY <1>2 DEF make_wait
    <3> QED BY <2>1, <3>1, <3>2 DEF MutexOwned, IInv, TypeOK
  <2>6. Booting'
    BY <1>2 DEF Booting, checkDispatch, checkContextTaskUnlock, TaskContext
  <2> QED BY <2>2, <2>3, <2>4, <2>5, <2>6 DEF IInv
<1>3. ASSUME NEW timed \in BOOLEAN, slp_tsk(timed), ~ wupque[runtsk] > 0 PROVE IInv'
  BY <1>2, <1>3 DEF slp_tsk
<1>4. CASE dly_tsk
  BY <1>2, <1>4 DEF dly_tsk
<1> QED BY <1>1, <1>3, <1>4

(* Waiting for an object.  For a mutex the premise is what its module adds *)
(* (the mutex is locked, by another task).                                 *)
LEMMA WobjWait ==
  ASSUME IInv, NEW w \in Wobj, NEW timed \in BOOLEAN, wobj_wait(w, timed),
         w \in Mutex => loctsk[w] \notin {NoTask, runtsk}
  PROVE  IInv'
<1> USE DEF stateVars, prioVars, queVars, terVars, waitVars, mtxVars, dspVars, cpuVars,
            bootVars
<1>1. w \in WaitCause \ {"NONE"}
  BY ConfigAssumption DEF WaitCause
<1>2. checkDispatch /\ make_wait(w, timed) /\ taskDispatch /\ wobj_queue_insert(w)
  BY DEF wobj_wait, wobj_make_wait
<1>3. /\ (rdy \in ReadyState)' /\ (runtsk \in Task \cup {NoTask})'
      /\ ReadyQueueConsistent' /\ DispatchDone' /\ DspflgCoherent'
      /\ (tstat \in [Task -> TaskState])' /\ (waiton \in [Task -> WaitCause])'
      /\ (winfo \in [Task -> WaitInfo])' /\ tmevt' \in SUBSET Task
  BY <1>1, <1>2, MakesWait DEF wobj_wait
<1>4. /\ runtsk \in Task /\ tstat[runtsk] = "RUNNABLE" /\ kerflg
      /\ prio \in [Task -> TaskPrio] /\ wait_queue \in [Wobj -> Seq(Task)]
  BY <1>2 DEF checkDispatch, checkContextTaskUnlock, TaskContext, IInv, TypeOK, DispatchDone
<1> DEFINE q == wait_queue[w]
           r == IF w \in TpriWobj THEN InsertTpri(q, prio, runtsk) ELSE Append(q, runtsk)
<1>5. q \in Seq(Task) /\ NoDuplicate(q) /\ ~ Member(q, runtsk)
  <2>1. waiton[runtsk] = "NONE"
    BY <1>4 DEF IInv, WaitsOwned, isWaiting
  <2> QED BY <1>1, <1>4, <2>1 DEF IInv, WaitsOwned
<1>6. /\ r \in Seq(Task) /\ NoDuplicate(r)
      /\ \A t : Member(r, t) <=> Member(q, t) \/ t = runtsk
  <2> HIDE DEF q
  <2>1. CASE w \in TpriWobj
    <3>1. prio \in [Task -> Nat]
      BY <1>4 DEF TaskPrio
    <3> QED BY <1>4, <1>5, <2>1, <3>1, InsertTpriProperties
  <2>2. CASE w \notin TpriWobj
    BY <1>4, <1>5, <2>2, AppendQueue
  <2> QED BY <2>1, <2>2
<1>7. wait_queue' = [wait_queue EXCEPT ![w] = r]
  BY <1>2 DEF wobj_queue_insert
<1> HIDE DEF r
<1>8. TypeOK'
  <2>1. (wait_queue \in [Wobj -> Seq(Task)])'
    BY <1>4, <1>6, <1>7
  <2> QED BY <1>3, <2>1 DEF IInv, TypeOK, wobj_wait
<1>9. WaitsOwned'
  <2>1. \A v \in Wobj : NoDuplicate(wait_queue'[v])
    BY <1>4, <1>6, <1>7 DEF IInv, WaitsOwned
  <2>2. \A v \in Wobj, t \in Task :
          Member(wait_queue'[v], t) <=> Member(wait_queue[v], t) \/ (t = runtsk /\ v = w)
    BY <1>4, <1>6, <1>7
  <2> QED BY <1>1, <1>2, <2>1, <2>2, WaitOwned
<1>10. MutexOwned'
  <2>1. waiton' = [waiton EXCEPT ![runtsk] = w] /\ loctsk' = loctsk /\ lastmtx' = lastmtx
    BY <1>2 DEF make_wait, wobj_wait
  <2> QED BY <1>4, <2>1 DEF MutexOwned, IInv, TypeOK
<1>11. Booting'
  BY <1>4 DEF Booting, wobj_wait
<1> QED BY <1>3, <1>8, <1>9, <1>10, <1>11 DEF IInv
-----------------------------------------------------------------------------
(* The waits of the tasks of S end, and they leave every queue.            *)
LEMMA WaitsEnded ==
  ASSUME IInv, NEW S \in SUBSET Task,
         \A t \in S : /\ (tstat')[t] \notin {"WAITING", "WAITING-SUSPENDED"}
                      /\ (waiton')[t] = "NONE",
         \A t \in Task \ S :
            /\ (tstat')[t] \in {"WAITING", "WAITING-SUSPENDED"} <=> isWaiting(t)
            /\ (waiton')[t] = waiton[t] /\ (winfo')[t] = winfo[t],
         \A w \in Wobj : NoDuplicate(wait_queue'[w]),
         \A w \in Wobj, t \in Task :
            Member(wait_queue'[w], t) <=> Member(wait_queue[w], t) /\ t \notin S,
         tmevt' = tmevt \ S
  PROVE  WaitsOwned'
<1>1. \A t \in Task : (isWaiting(t) <=> waiton[t] # "NONE")'
  BY DEF IInv, WaitsOwned, isWaiting
<1>2. \A w \in Wobj, t \in Task : Member(wait_queue'[w], t) <=> waiton'[t] = w
  <2> SUFFICES ASSUME NEW w \in Wobj, NEW t \in Task
               PROVE  Member(wait_queue'[w], t) <=> waiton'[t] = w
    OBVIOUS
  <2>1. w # "NONE"
    BY ConfigAssumption
  <2>2. Member(wait_queue[w], t) <=> waiton[t] = w
    BY DEF IInv, WaitsOwned
  <2> QED BY <2>1, <2>2
<1>3. TimeEventsOwned'
  <2>1. \A t \in Task : t \in tmevt <=> isWaiting(t) /\ winfo[t] = "tmevtb"
    BY DEF IInv, WaitsOwned, TimeEventsOwned
  <2> SUFFICES ASSUME NEW t \in Task
               PROVE  (t \in tmevt <=> isWaiting(t) /\ winfo[t] = "tmevtb")'
    BY DEF TimeEventsOwned
  <2>2. CASE t \in S
    BY <2>2 DEF isWaiting
  <2>3. CASE t \notin S
    BY <2>1, <2>3 DEF isWaiting
  <2> QED BY <2>2, <2>3
<1> QED BY <1>1, <1>2, <1>3 DEF WaitsOwned

(* wait_dequeue_wobj and wait_dequeue_tmevtb leave nothing of the wait.    *)
LEMMA Dequeued ==
  ASSUME IInv, NEW t \in Task
  PROVE  /\ QueuesWithout(t) \in [Wobj -> Seq(Task)]
         /\ \A w \in Wobj : NoDuplicate(QueuesWithout(t)[w])
         /\ \A w \in Wobj, u \in Task :
               Member(QueuesWithout(t)[w], u) <=> Member(wait_queue[w], u) /\ u # t
         /\ isWaiting(t) => EventsWithout(t) = tmevt \ {t}
         /\ ~ isWaiting(t) => t \notin tmevt
<1>1. /\ wait_queue \in [Wobj -> Seq(Task)]
      /\ \A w \in Wobj : NoDuplicate(wait_queue[w])
      /\ \A w \in Wobj, u \in Task : Member(wait_queue[w], u) <=> waiton[u] = w
  BY DEF IInv, TypeOK, WaitsOwned
<1>2. CASE waiton[t] \in Wobj
  <2> DEFINE v == waiton[t]
             d == Delete(wait_queue[v], t)
  <2>1. /\ d \in Seq(Task) /\ NoDuplicate(d)
        /\ \A u : Member(d, u) <=> Member(wait_queue[v], u) /\ u # t
    <3>1. Member(wait_queue[v], t) /\ NoDuplicate(wait_queue[v]) /\ wait_queue[v] \in Seq(Task)
      BY <1>1, <1>2
    <3> QED BY <3>1, DeleteProperties
  <2>2. QueuesWithout(t) = [wait_queue EXCEPT ![v] = d]
    BY <1>2 DEF QueuesWithout
  <2>3. v \in Wobj /\ \A w \in Wobj : Member(wait_queue[w], t) => w = v
    BY <1>1, <1>2
  <2> HIDE DEF v, d
  <2> QED BY <1>1, <2>1, <2>2, <2>3 DEF IInv, WaitsOwned, TimeEventsOwned, EventsWithout
<1>3. CASE waiton[t] \notin Wobj
  <2>1. QueuesWithout(t) = wait_queue
    BY <1>3 DEF QueuesWithout
  <2> QED BY <1>1, <1>3, <2>1 DEF IInv, WaitsOwned, TimeEventsOwned, EventsWithout
<1> QED BY <1>2, <1>3

(* The wait of one task ends: wup_tsk, rel_wai and the time-out.           *)
LEMMA EndsWait ==
  ASSUME IInv, kerflg, NEW t \in Task, isWaiting(t), make_non_wait(t),
         NEW e \in {"ok", "error"}, set_werror(t, e),
         wait_queue' = QueuesWithout(t), tmevt' = tmevt \ {t},
         runtsk' = IF nest > 0 THEN runtsk ELSE (rdy.p_schedtsk)',
         UNCHANGED <<prioVars, queVars, terVars, mtxVars, dspVars, cpuVars, bootVars>>
  PROVE  IInv'
<1> USE DEF stateVars, prioVars, queVars, terVars, waitVars, mtxVars, dspVars, cpuVars,
            bootVars
<1>1. /\ waiton' = [waiton EXCEPT ![t] = "NONE"]
      /\ tstat' = [tstat EXCEPT ![t] = WaitOver(t)]
      /\ rdy' = IF t \in WaitingOnly THEN make_runnable(rdy, prio, t) ELSE rdy
      /\ winfo' = [winfo EXCEPT ![t] = e]
      /\ WaitOver(t) = IF t \in WaitingOnly THEN "RUNNABLE" ELSE "SUSPENDED"
      /\ t \in WaitingOnly <=> tstat[t] = "WAITING"
  BY DEF make_non_wait, set_werror, WaitOver, WaitingOnly
<1>2. tstat \in [Task -> TaskState] /\ waiton \in [Task -> WaitCause] /\ tstat[t] # "RUNNABLE"
  BY DEF IInv, TypeOK, isWaiting
<1>3. tstat' \in [Task -> TaskState] /\ waiton' \in [Task -> WaitCause]
  BY <1>1, <1>2 DEF TaskState, WaitCause
<1>4. /\ Consistent(rdy', Runnable', prio') /\ (prio \in [Task -> TaskPrio])'
      /\ (rdy.dspflg)' = rdy.dspflg
      /\ ~ rdy.dspflg => (rdy.p_schedtsk)' = rdy.p_schedtsk
  <2>1. CASE t \in WaitingOnly
    <3>1. Runnable' = Runnable \cup {t} /\ rdy' = make_runnable(rdy, prio, t)
      BY <1>1, <1>2, <2>1 DEF Runnable
    <3> QED BY <1>2, <1>3, <3>1, BecomesRunnable
  <2>2. CASE t \notin WaitingOnly
    <3>1. Runnable' = Runnable /\ rdy' = rdy
      BY <1>1, <1>2, <2>2 DEF Runnable
    <3> QED BY <3>1, ReadyConsistent DEF IInv, TypeOK
  <2> QED BY <2>1, <2>2
<1>5. runtsk # NoTask => (tstat')[runtsk] = "RUNNABLE"
  BY <1>1, <1>2 DEF IInv, TypeOK, DispatchDone
<1>6. /\ (rdy \in ReadyState)' /\ (runtsk \in Task \cup {NoTask})'
      /\ ReadyQueueConsistent' /\ DispatchDone' /\ DspflgCoherent'
  BY <1>4, <1>5, CallDispatches
<1>7. /\ wait_queue' \in [Wobj -> Seq(Task)]
      /\ \A w \in Wobj : NoDuplicate(wait_queue'[w])
      /\ \A w \in Wobj, u \in Task :
            Member(wait_queue'[w], u) <=> Member(wait_queue[w], u) /\ u # t
  BY Dequeued
<1>8. TypeOK'
  <2>1. winfo' \in [Task -> WaitInfo] /\ tmevt' \in SUBSET Task
    BY <1>1 DEF IInv, TypeOK, WaitInfo
  <2> QED BY <1>3, <1>6, <1>7, <2>1 DEF IInv, TypeOK
<1>9. WaitsOwned'
  <2>1. WaitOver(t) \notin {"WAITING", "WAITING-SUSPENDED"}
    BY <1>1
  <2>2. \A u \in {t} : /\ (tstat')[u] \notin {"WAITING", "WAITING-SUSPENDED"}
                       /\ (waiton')[u] = "NONE"
    BY <1>1, <1>2, <2>1
  <2>3. \A u \in Task \ {t} :
            /\ (tstat')[u] \in {"WAITING", "WAITING-SUSPENDED"} <=> isWaiting(u)
            /\ (waiton')[u] = waiton[u] /\ (winfo')[u] = winfo[u]
    BY <1>1, <1>2 DEF isWaiting, IInv, TypeOK
  <2>4. /\ {t} \in SUBSET Task
        /\ \A w \in Wobj, u \in Task :
              Member(wait_queue'[w], u) <=> Member(wait_queue[w], u) /\ u \notin {t}
    BY <1>7
  <2> QED BY <1>7, <2>2, <2>3, <2>4, WaitsEnded
<1>10. MutexOwned'
  <2>1. \A u \in Task, m \in Mutex : waiton'[u] = m => waiton[u] = m
    BY <1>1, <1>2, ConfigAssumption
  <2> QED BY <2>1 DEF IInv, MutexOwned
<1>11. Booting'
  BY DEF Booting
<1> QED BY <1>6, <1>8, <1>9, <1>10, <1>11 DEF IInv

(* wup_tsk, rel_wai and time-outs end one wait.                            *)
LEMMA EndingCalls ==
  ASSUME IInv, NEW t \in Task, wup_tsk(t) \/ rel_wai(t) \/ wait_tmout(t)
  PROVE  IInv'
<1> USE DEF stateVars, prioVars, queVars, terVars, waitVars, mtxVars, dspVars, cpuVars,
            bootVars
<1>1. ASSUME wup_tsk(t), waiton[t] = "SLP" PROVE IInv'
  <2>1. isWaiting(t) /\ QueuesWithout(t) = wait_queue
    BY <1>1, ConfigAssumption DEF IInv, WaitsOwned, QueuesWithout
  <2>2. EventsWithout(t) = tmevt \ {t}
    BY <2>1, Dequeued
  <2> QED BY <1>1, <2>1, <2>2, EndsWait
          DEF wup_tsk, wait_complete, wait_dequeue_tmevtb, requestTaskDispatch,
              checkContextUnlock
<1>2. ASSUME wup_tsk(t), waiton[t] # "SLP" PROVE IInv'
  <2>1. /\ wupque' = [wupque EXCEPT ![t] = wupque[t] + 1] /\ wupque[t] < TMAX_WUPCNT
        /\ UNCHANGED <<rdy, runtsk, stateVars, winfo, tmevt>>
    BY <1>2 DEF wup_tsk
  <2>2. wupque \in [Task -> 0 .. TMAX_WUPCNT]
    BY DEF IInv, TypeOK
  <2>3. wupque' \in [Task -> 0 .. TMAX_WUPCNT]
    <3> HIDE DEF IInv, wup_tsk
    <3>1. wupque[t] + 1 \in 0 .. TMAX_WUPCNT
      BY <2>1, <2>2 DEF TMAX_WUPCNT
    <3> QED BY <2>1, <2>2, <3>1
  <2>4. TypeOK'
    BY <1>2, <2>1, <2>3 DEF IInv, TypeOK, wup_tsk
  <2> QED BY <1>2, <2>1, <2>4, QuietStep DEF wup_tsk
<1>3. CASE rel_wai(t)
  <2>1. isWaiting(t) /\ EventsWithout(t) = tmevt \ {t}
    BY <1>3, Dequeued DEF rel_wai
  <2> QED BY <1>3, <2>1, EndsWait
          DEF rel_wai, wait_dequeue_wobj, wait_dequeue_tmevtb, requestTaskDispatch,
              checkContextUnlock
<1>4. CASE wait_tmout(t)
  <2>1. isWaiting(t)
    BY <1>4 DEF wait_tmout, IInv, WaitsOwned, TimeEventsOwned
  <2> QED BY <1>4, <2>1, EndsWait DEF wait_tmout, wait_dequeue_wobj
<1> QED BY <1>1, <1>2, <1>3, <1>4

(* sus_tsk and rsm_tsk.                                                    *)
LEMMA SuspendingCalls ==
  ASSUME IInv, NEW t \in Task, sus_tsk(t) \/ rsm_tsk(t)
  PROVE  IInv'
<1> USE DEF stateVars, prioVars, queVars, terVars, waitVars, mtxVars, dspVars, cpuVars,
            bootVars
<1>1. /\ kerflg /\ nest = 0 /\ runtsk \in Task
      /\ UNCHANGED <<waiton, prioVars, queVars, terVars, waitVars, dspVars, cpuVars,
                     bootVars>>
  BY DEF sus_tsk, rsm_tsk, checkContextTaskUnlock, TaskContext, IInv, TypeOK
<1>2. /\ tstat \in [Task -> TaskState] /\ prio \in [Task -> TaskPrio]
      /\ Consistent(rdy, Runnable, prio) /\ Runnable \in SUBSET Task
      /\ runtsk = rdy.p_schedtsk
  BY <1>1, ReadyConsistent DEF IInv, TypeOK, DispatchDone
<1> DEFINE Kept ==
      /\ tstat' \in [Task -> TaskState]
      /\ \A u \in Task : tstat'[u] \in {"WAITING", "WAITING-SUSPENDED"} <=> isWaiting(u)
      /\ (rdy \in ReadyState)' /\ (runtsk \in Task \cup {NoTask})'
      /\ ReadyQueueConsistent' /\ DispatchDone' /\ DspflgCoherent'
<1>3. Kept
  <2>1. ASSUME sus_tsk(t), tstat[t] = "RUNNABLE" PROVE Kept
    <3>1. /\ tstat' = [tstat EXCEPT ![t] = "SUSPENDED"]
          /\ rdy' = make_non_runnable(rdy, prio, t)
          /\ runtsk' = (rdy.p_schedtsk)'
          /\ ~ (t = runtsk /\ ~ rdy.dspflg)
      BY <2>1 DEF sus_tsk, taskDispatch
    <3>2. t \in Runnable /\ Runnable' = Runnable \ {t} /\ tstat' \in [Task -> TaskState]
      BY <1>2, <2>1, <3>1 DEF Runnable, TaskState
    <3>3. /\ Consistent(rdy', Runnable', prio)
          /\ (rdy.dspflg)' = rdy.dspflg
          /\ rdy.p_schedtsk # t => (rdy.p_schedtsk)' = rdy.p_schedtsk
      BY <1>2, <3>1, <3>2, MakeNonRunnable, SMTT(60)
    <3>4. ~ rdy.dspflg => t # runtsk /\ (tstat')[runtsk] = "RUNNABLE"
      BY <1>1, <1>2, <3>1, TaskAssumption DEF IInv, DispatchDone
    <3>5. /\ (rdy \in ReadyState)' /\ (runtsk \in Task \cup {NoTask})'
          /\ ReadyQueueConsistent' /\ DispatchDone' /\ DspflgCoherent'
      BY <1>1, <1>2, <3>1, <3>3, <3>4, CallDispatches
    <3>6. \A u \in Task : tstat'[u] \in {"WAITING", "WAITING-SUSPENDED"} <=> isWaiting(u)
      BY <1>2, <2>1, <3>1 DEF isWaiting
    <3> QED BY <3>2, <3>5, <3>6
  <2>2. ASSUME rsm_tsk(t), tstat[t] = "SUSPENDED" PROVE Kept
    <3>1. /\ tstat' = [tstat EXCEPT ![t] = "RUNNABLE"]
          /\ rdy' = make_runnable(rdy, prio, t)
          /\ runtsk' = (rdy.p_schedtsk)' /\ prio' = prio
      BY <2>2 DEF rsm_tsk, become_runnable, taskDispatch
    <3>2. Runnable' = Runnable \cup {t} /\ tstat' \in [Task -> TaskState]
      BY <1>2, <3>1 DEF Runnable, TaskState
    <3>3. /\ Consistent(rdy', Runnable', prio') /\ (prio \in [Task -> TaskPrio])'
          /\ (rdy.dspflg)' = rdy.dspflg
          /\ ~ rdy.dspflg => (rdy.p_schedtsk)' = rdy.p_schedtsk
      BY <2>2, <3>1, <3>2, BecomesRunnable
    <3>4. (tstat')[runtsk] = "RUNNABLE"
      BY <1>1, <1>2, <3>1, TaskAssumption DEF IInv, DispatchDone
    <3>5. /\ (rdy \in ReadyState)' /\ (runtsk \in Task \cup {NoTask})'
          /\ ReadyQueueConsistent' /\ DispatchDone' /\ DspflgCoherent'
      BY <1>1, <3>1, <3>3, <3>4, CallDispatches
    <3>6. \A u \in Task : tstat'[u] \in {"WAITING", "WAITING-SUSPENDED"} <=> isWaiting(u)
      BY <1>2, <2>2, <3>1 DEF isWaiting
    <3> QED BY <3>2, <3>5, <3>6
  <2>3. ASSUME UNCHANGED <<rdy, runtsk>>,
               \/ tstat[t] = "WAITING" /\ tstat' = [tstat EXCEPT ![t] = "WAITING-SUSPENDED"]
               \/ tstat[t] = "WAITING-SUSPENDED" /\ tstat' = [tstat EXCEPT ![t] = "WAITING"]
        PROVE  Kept
    <3>1. /\ tstat' \in [Task -> TaskState]
          /\ \A u \in Task : tstat'[u] \in {"WAITING", "WAITING-SUSPENDED"} <=> isWaiting(u)
          /\ \A u \in Task : tstat'[u] = "RUNNABLE" <=> tstat[u] = "RUNNABLE"
      BY <1>2, <2>3 DEF TaskState, isWaiting
    <3>2. Runnable' = Runnable
      BY <3>1 DEF Runnable
    <3>3. ReadyQueueConsistent' /\ DispatchDone' /\ DspflgCoherent'
      BY <1>1, <2>3, <3>1, <3>2
         DEF IInv, ReadyQueueConsistent, DispatchDone, DspflgCoherent
    <3> QED BY <1>1, <2>3, <3>1, <3>3 DEF IInv, TypeOK
  <2> QED BY <2>1, <2>2, <2>3 DEF sus_tsk, rsm_tsk
<1>4. TypeOK'
  BY <1>1, <1>3 DEF IInv, TypeOK
<1>5. WaitsOwned'
  BY <1>1, <1>3 DEF IInv, WaitsOwned, TimeEventsOwned, isWaiting
<1>6. MutexOwned' /\ Booting'
  BY <1>1 DEF IInv, MutexOwned, Booting
<1> QED BY <1>3, <1>4, <1>5, <1>6 DEF IInv
-----------------------------------------------------------------------------
(* change_priority: the task keeps its place in the system, if not in its  *)
(* queues.                                                                 *)
LEMMA ChangesPriority ==
  ASSUME IInv, NEW t \in Task, NEW newprio \in TaskPrio, NEW mtxmode \in BOOLEAN,
         change_priority(t, newprio, mtxmode), Runnable' = Runnable
  PROVE  /\ Consistent(rdy', Runnable', prio') /\ (prio \in [Task -> TaskPrio])'
         /\ (rdy.dspflg)' = rdy.dspflg
         /\ ~ rdy.dspflg => (rdy.p_schedtsk)' = rdy.p_schedtsk
         /\ (wait_queue \in [Wobj -> Seq(Task)])'
         /\ \A w \in Wobj : NoDuplicate(wait_queue'[w])
         /\ \A w \in Wobj, u \in Task : Member(wait_queue'[w], u) <=> Member(wait_queue[w], u)
<1>1. /\ Consistent(rdy, Runnable, prio) /\ Runnable \in SUBSET Task
      /\ prio \in [Task -> TaskPrio] /\ wait_queue \in [Wobj -> Seq(Task)]
  BY ReadyConsistent DEF IInv, TypeOK
<1>2. prio' = [prio EXCEPT ![t] = newprio] /\ prio' \in [Task -> TaskPrio]
  BY <1>1 DEF change_priority
<1>3. /\ Consistent(rdy', Runnable', prio')
      /\ (rdy.dspflg)' = rdy.dspflg
      /\ ~ rdy.dspflg => (rdy.p_schedtsk)' = rdy.p_schedtsk
  <2>1. CASE tstat[t] = "RUNNABLE"
    <3>1. t \in Runnable /\ rdy' = change_ready_priority(rdy, prio, t, newprio, mtxmode)
      BY <2>1 DEF change_priority, Runnable
    <3>2. /\ Consistent(change_ready_priority(rdy, prio, t, newprio, mtxmode), Runnable,
                        [prio EXCEPT ![t] = newprio])
          /\ change_ready_priority(rdy, prio, t, newprio, mtxmode).dspflg = rdy.dspflg
          /\ ~ rdy.dspflg => change_ready_priority(rdy, prio, t, newprio, mtxmode).p_schedtsk
                             = rdy.p_schedtsk
      <4>1. /\ Consistent(rdy, Runnable, prio) /\ Runnable \in SUBSET Task
            /\ prio \in [Task -> TaskPrio] /\ t \in Task /\ t \in Runnable
            /\ newprio \in TaskPrio /\ mtxmode \in BOOLEAN
        BY <1>1, <3>1
      <4>2. Consistent(change_ready_priority(rdy, prio, t, newprio, mtxmode), Runnable,
                       [prio EXCEPT ![t] = newprio])
        BY ONLY <4>1, ChangeReadyPriority, Zenon
      <4>3. Holds(rdy, change_ready_priority(rdy, prio, t, newprio, mtxmode))
        BY ONLY <4>1, ChangeReadyPriority, Zenon
      <4> QED BY ONLY <4>2, <4>3, Zenon DEF Holds
    <3> QED BY <1>2, <3>1, <3>2
  <2>2. CASE tstat[t] # "RUNNABLE"
    <3>1. rdy' = rdy /\ \A u \in Runnable : prio'[u] = prio[u]
      BY <1>1, <1>2, <2>2 DEF change_priority, Runnable
    <3> QED BY <1>1, <3>1, OtherPriorities
  <2> QED BY <2>1, <2>2
<1>4. /\ (wait_queue \in [Wobj -> Seq(Task)])'
      /\ \A w \in Wobj : NoDuplicate(wait_queue'[w])
      /\ \A w \in Wobj, u \in Task : Member(wait_queue'[w], u) <=> Member(wait_queue[w], u)
  <2>1. CASE waiton[t] \in TpriWobj
    <3> DEFINE v == waiton[t]
               q == wait_queue[v]
               d == Delete(q, t)
               r == InsertTpri(d, prio', t)
    <3>1. /\ v \in Wobj /\ q \in Seq(Task) /\ Member(q, t) /\ NoDuplicate(q)
          /\ wait_queue' = [wait_queue EXCEPT ![v] = r]
      BY <1>1, <2>1, ConfigAssumption DEF IInv, WaitsOwned, change_priority
    <3>2. d \in Seq(Task) /\ NoDuplicate(d) /\ \A u : Member(d, u) <=> Member(q, u) /\ u # t
      <4> HIDE DEF q
      <4> QED BY <3>1, DeleteProperties
    <3>3. r \in Seq(Task) /\ NoDuplicate(r) /\ \A u : Member(r, u) <=> Member(d, u) \/ u = t
      <4>1. prio' \in [Task -> Nat]
        BY <1>2 DEF TaskPrio
      <4>2. ~ Member(d, t)
        BY <3>2
      <4> HIDE DEF d
      <4> QED BY <3>2, <4>1, <4>2, InsertTpriProperties
    <3> HIDE DEF r, d
    <3> QED BY <1>1, <3>1, <3>2, <3>3 DEF IInv, WaitsOwned
  <2>2. CASE waiton[t] \notin TpriWobj
    BY <1>1, <2>2 DEF change_priority, IInv, WaitsOwned
  <2> QED BY <2>1, <2>2
<1> QED BY <1>2, <1>3, <1>4

(* chg_pri, also of a task that waits in a priority-ordered queue.         *)
LEMMA ChgPri ==
  ASSUME IInv, NEW t \in Task, NEW newbprio \in TaskPrio, chg_pri(t, newbprio)
  PROVE  IInv'
<1> USE DEF stateVars, prioVars, queVars, terVars, waitVars, mtxVars, dspVars, cpuVars,
            bootVars
<1>1. bprio' = [bprio EXCEPT ![t] = newbprio] /\ (bprio \in [Task -> TaskPrio])'
  BY DEF chg_pri, IInv, TypeOK
<1>2. CASE mutexScanCeilMtx(t)
  <2>1. UNCHANGED <<prio, rdy, wait_queue, runtsk>>
    BY <1>2 DEF chg_pri
  <2>2. TypeOK'
    BY <1>1, <2>1 DEF IInv, TypeOK, chg_pri
  <2> QED BY <2>1, <2>2, QuietStep DEF chg_pri
<1>3. CASE ~ mutexScanCeilMtx(t)
  <2>1. /\ kerflg /\ nest = 0
        /\ change_priority(t, newbprio, FALSE) /\ runtsk' = (rdy.p_schedtsk)'
        /\ Runnable' = Runnable /\ UNCHANGED <<tstat, waiton, winfo, tmevt>>
    BY <1>3 DEF chg_pri, taskDispatch, checkContextTaskUnlock, TaskContext, Runnable
  <2>2. /\ Consistent(rdy', Runnable', prio') /\ (prio \in [Task -> TaskPrio])'
        /\ (rdy.dspflg)' = rdy.dspflg
        /\ ~ rdy.dspflg => (rdy.p_schedtsk)' = rdy.p_schedtsk
        /\ (wait_queue \in [Wobj -> Seq(Task)])'
        /\ \A w \in Wobj : NoDuplicate(wait_queue'[w])
        /\ \A w \in Wobj, u \in Task :
              Member(wait_queue'[w], u) <=> Member(wait_queue[w], u)
    BY <2>1, ChangesPriority
  <2>3. runtsk # NoTask => (tstat')[runtsk] = "RUNNABLE"
    BY <2>1 DEF IInv, DispatchDone
  <2>4. /\ (rdy \in ReadyState)' /\ (runtsk \in Task \cup {NoTask})'
        /\ ReadyQueueConsistent' /\ DispatchDone' /\ DspflgCoherent'
    BY <2>1, <2>2, <2>3, CallDispatches DEF chg_pri
  <2>5. TypeOK'
    BY <1>1, <2>2, <2>4 DEF IInv, TypeOK, chg_pri
  <2>6. WaitsOwned'
    BY <2>1, <2>2 DEF IInv, WaitsOwned, TimeEventsOwned, isWaiting
  <2>7. MutexOwned' /\ Booting'
    BY <2>1 DEF IInv, MutexOwned, Booting, chg_pri
  <2> QED BY <2>4, <2>5, <2>6, <2>7 DEF IInv
<1> QED BY <1>2, <1>3
-----------------------------------------------------------------------------
(* Ending the waits of several tasks makes ready those that only waited.   *)
LEMMA WokenReady ==
  ASSUME IInv, NEW w \in Wobj, NEW S \in SUBSET Waiters(w)
  PROVE  /\ Consistent(Woken(w, S), Runnable \cup (S \cap WaitingOnly), prio)
         /\ Woken(w, S).dspflg = rdy.dspflg
         /\ ~ rdy.dspflg => Woken(w, S).p_schedtsk = rdy.p_schedtsk
         /\ \A p \in TaskPrio : Extends(rdy.ready_queue[p], Woken(w, S).ready_queue[p])
<1> DEFINE T == S \cap WaitingOnly
           q == wait_queue[w]
<1>1. /\ Woken(w, S) = WakeAll(rdy, prio, q, T) /\ T \in SUBSET Task
      /\ q \in Seq(Task) /\ q \in Seq(Task \cup {NoTask}) /\ NoDuplicate(q)
      /\ prio \in [Task -> TaskPrio]
      /\ Consistent(rdy, Runnable, prio) /\ Runnable \in SUBSET Task
  BY ReadyConsistent DEF Woken, WaitingOnly, IInv, TypeOK, WaitsOwned
<1>2. T \cap Runnable = {} /\ \A t \in T : Member(q, t)
  <2>1. \A t \in T : waiton[t] = w /\ t \in Task
    BY DEF Waiters
  <2> QED BY <2>1 DEF WaitingOnly, Runnable, IInv, WaitsOwned
<1> HIDE DEF T
<1>3. WakesEach(q, T, Runnable, T)
  BY <1>1, <1>2 DEF WakesEach, NoDuplicate
<1> HIDE DEF q
<1>4. /\ Consistent(WakeAll(rdy, prio, q, T), Runnable \cup T, prio)
      /\ WakeAll(rdy, prio, q, T).dspflg = rdy.dspflg
      /\ ~ rdy.dspflg => WakeAll(rdy, prio, q, T).p_schedtsk = rdy.p_schedtsk
      /\ \A p \in TaskPrio :
            Extends(rdy.ready_queue[p], WakeAll(rdy, prio, q, T).ready_queue[p])
  <2>1. /\ q \in Seq(Task \cup {NoTask}) /\ T \in SUBSET Task /\ Runnable \in SUBSET Task
        /\ prio \in [Task -> TaskPrio] /\ Consistent(rdy, Runnable, prio)
    BY <1>1
  <2>2. T \in SUBSET T
    OBVIOUS
  <2> QED BY <1>3, <2>1, <2>2, WakeAllTasks
<1> QED BY <1>1, <1>4 DEF T

(* wobj_release wakes the tasks of S in the order of the queue of w.       *)
LEMMA WobjRelease ==
  ASSUME IInv, NEW w \in Wobj, NEW S \in SUBSET Waiters(w), NEW e \in {"ok", "error"},
         wobj_release(w, S, e)
  PROVE  IInv'
<1> USE DEF stateVars, prioVars, queVars, terVars, waitVars, mtxVars, dspVars, cpuVars,
            bootVars
<1>1. /\ kerflg /\ runtsk' = IF nest > 0 THEN runtsk ELSE (rdy.p_schedtsk)'
      /\ prio' = prio /\ w # "NONE"
  BY ConfigAssumption DEF wobj_release, requestTaskDispatch, checkContextUnlock
<1>2. /\ tstat' = [t \in Task |-> IF t \in S THEN WaitOver(t) ELSE tstat[t]]
      /\ waiton' = [t \in Task |-> IF t \in S THEN "NONE" ELSE waiton[t]]
      /\ winfo' = [t \in Task |-> IF t \in S THEN e ELSE winfo[t]]
      /\ tmevt' = {t \in tmevt : t \in S => winfo[t] # "tmevtb"}
      /\ wait_queue' = [wait_queue EXCEPT ![w] = Without(wait_queue[w], S)]
  BY DEF wobj_release, end_waits
<1>3. /\ S \in SUBSET Task
      /\ \A t \in S : waiton[t] = w /\ isWaiting(t) /\ Member(wait_queue[w], t)
      /\ \A t \in Task : WaitOver(t) = IF tstat[t] = "WAITING" THEN "RUNNABLE" ELSE "SUSPENDED"
      /\ tstat \in [Task -> TaskState]
  BY <1>1 DEF Waiters, WaitOver, WaitingOnly, IInv, TypeOK, WaitsOwned
<1> DEFINE T == S \cap WaitingOnly
           q == wait_queue[w]
<1>4. /\ rdy' = Woken(w, S) /\ T \in SUBSET Task
      /\ q \in Seq(Task) /\ NoDuplicate(q) /\ prio \in [Task -> TaskPrio]
  BY DEF wobj_release, WaitingOnly, IInv, TypeOK, WaitsOwned
<1>5. Runnable' = Runnable \cup T
  BY <1>2, <1>3 DEF WaitingOnly, Runnable, isWaiting
<1>6. /\ Consistent(rdy', Runnable', prio') /\ (prio \in [Task -> TaskPrio])'
      /\ (rdy.dspflg)' = rdy.dspflg
      /\ ~ rdy.dspflg => (rdy.p_schedtsk)' = rdy.p_schedtsk
  BY <1>1, <1>4, <1>5, WokenReady
<1> HIDE DEF T
<1>7. runtsk # NoTask => (tstat')[runtsk] = "RUNNABLE"
  <2>1. \A t \in S : tstat[t] # "RUNNABLE"
    BY <1>3 DEF isWaiting
  <2>2. runtsk # NoTask => runtsk \in Task /\ tstat[runtsk] = "RUNNABLE"
    BY DEF IInv, TypeOK, DispatchDone
  <2> QED BY <1>2, <2>1, <2>2
<1>8. /\ (rdy \in ReadyState)' /\ (runtsk \in Task \cup {NoTask})'
      /\ ReadyQueueConsistent' /\ DispatchDone' /\ DspflgCoherent'
  BY <1>1, <1>6, <1>7, CallDispatches DEF wobj_release
<1>9. /\ (wait_queue \in [Wobj -> Seq(Task)])'
      /\ \A v \in Wobj : NoDuplicate(wait_queue'[v])
      /\ \A v \in Wobj, t \in Task :
            Member(wait_queue'[v], t) <=> Member(wait_queue[v], t) /\ t \notin S
  <2> DEFINE d == Without(q, S)
  <2>1. /\ d \in Seq(Task) /\ NoDuplicate(d)
        /\ \A t : Member(d, t) <=> Member(q, t) /\ t \notin S
    <3> HIDE DEF q
    <3> QED BY <1>4, WithoutProperties
  <2>2. \A v \in Wobj, t \in Task : Member(wait_queue[v], t) /\ t \in S => v = w
    BY <1>3 DEF IInv, WaitsOwned
  <2>3. wait_queue \in [Wobj -> Seq(Task)] /\ \A v \in Wobj : NoDuplicate(wait_queue[v])
    BY DEF IInv, TypeOK, WaitsOwned
  <2> HIDE DEF d
  <2>4. wait_queue' = [wait_queue EXCEPT ![w] = d]
    BY <1>2 DEF d
  <2> QED BY <2>1, <2>2, <2>3, <2>4
<1>10. TypeOK'
  <2>1. /\ tstat' \in [Task -> TaskState] /\ waiton' \in [Task -> WaitCause]
        /\ winfo' \in [Task -> WaitInfo] /\ tmevt' \in SUBSET Task
    BY <1>2, <1>3 DEF IInv, TypeOK, TaskState, WaitCause, WaitInfo
  <2> QED BY <1>6, <1>8, <1>9, <2>1 DEF IInv, TypeOK, wobj_release
<1>11. WaitsOwned'
  <2>1. \A t \in S : /\ (tstat')[t] \notin {"WAITING", "WAITING-SUSPENDED"}
                     /\ (waiton')[t] = "NONE"
    BY <1>2, <1>3
  <2>2. \A t \in Task \ S :
            /\ (tstat')[t] \in {"WAITING", "WAITING-SUSPENDED"} <=> isWaiting(t)
            /\ (waiton')[t] = waiton[t] /\ (winfo')[t] = winfo[t]
    BY <1>2 DEF isWaiting
  <2>3. tmevt' = tmevt \ S
    <3>1. \A t \in tmevt : t \in Task /\ winfo[t] = "tmevtb"
      BY DEF IInv, TypeOK, WaitsOwned, TimeEventsOwned
    <3> QED BY <1>2, <3>1
  <2> QED BY <1>3, <1>9, <2>1, <2>2, <2>3, WaitsEnded
<1>12. MutexOwned'
  <2>1. \A t \in Task, m \in Mutex : waiton'[t] = m => waiton[t] = m
    BY <1>2, ConfigAssumption
  <2> QED BY <2>1 DEF IInv, MutexOwned, wobj_release
<1>13. Booting'
  BY <1>1 DEF Booting, wobj_release
<1> QED BY <1>8, <1>10, <1>11, <1>12, <1>13 DEF IInv
-----------------------------------------------------------------------------
(* The heirs of the mutexes a task releases: tasks that wait, each for one *)
(* of these mutexes, and never the task itself.                            *)
LEMMA HeirsOwned ==
  ASSUME IInv, NEW t \in Task, NEW ms \in Seq(Mutex),
         \A m \in Mutex : Member(ms, m) => loctsk[m] = t
  PROVE  /\ \A m \in Contended(ms) :
              /\ m \in Mutex /\ m \in Wobj /\ Member(ms, m) /\ wait_queue[m] # <<>>
              /\ waiton[t] # m
              /\ wait_queue[m][1] \in Task /\ wait_queue[m][1] # t
              /\ waiton[wait_queue[m][1]] = m
         /\ Heirs(ms) \in SUBSET Task /\ t \notin Heirs(ms)
         /\ \A u \in Heirs(ms) :
              isWaiting(u) /\ waiton[u] \in Contended(ms) /\ wait_queue[waiton[u]][1] = u
<1>1. /\ wait_queue \in [Wobj -> Seq(Task)] /\ Mutex \subseteq Wobj
      /\ \A w \in Wobj : NoDuplicate(wait_queue[w])
  BY ConfigAssumption DEF IInv, TypeOK, WaitsOwned
<1>2. ASSUME NEW m \in Contended(ms)
      PROVE  /\ m \in Mutex /\ m \in Wobj /\ Member(ms, m) /\ wait_queue[m] # <<>>
             /\ waiton[t] # m
             /\ wait_queue[m][1] \in Task /\ wait_queue[m][1] # t
             /\ waiton[wait_queue[m][1]] = m
  <2>1. m \in Mutex /\ m \in Wobj /\ Member(ms, m) /\ wait_queue[m] # <<>> /\ loctsk[m] = t
    BY <1>1 DEF Contended
  <2>2. wait_queue[m][1] \in Task /\ Member(wait_queue[m], wait_queue[m][1])
    <3> DEFINE q == wait_queue[m]
    <3>1. q \in Seq(Task) /\ q # <<>> /\ NoDuplicate(q)
      BY <1>1, <2>1
    <3> HIDE DEF q
    <3>2. q[1] \in Task /\ Member(q, q[1])
      BY <3>1, TailQueue
    <3> QED BY <3>2 DEF q
  <2>3. waiton[wait_queue[m][1]] = m
    BY <2>1, <2>2 DEF IInv, WaitsOwned
  <2> QED BY <2>1, <2>2, <2>3 DEF IInv, MutexOwned
<1>3. \A m \in Contended(ms) : m # "NONE"
  BY <1>2, ConfigAssumption
<1>4. \A u \in Heirs(ms) : \E m \in Contended(ms) : u = wait_queue[m][1]
  BY DEF Heirs
<1> QED BY <1>2, <1>3, <1>4 DEF IInv, WaitsOwned

(* What is made runnable when the mutexes of ms are released is what of    *)
(* the heirs only waited.                                                  *)
LEMMA HeirsWoken ==
  ASSUME IInv, NEW t \in Task, NEW ms \in Seq(Mutex), NoDuplicate(ms),
         \A m \in Mutex : Member(ms, m) => loctsk[m] = t,
         NEW R \in SUBSET Runnable
  PROVE  /\ HeirQueue(ms) \in Seq(Task \cup {NoTask})
         /\ WakesEach(HeirQueue(ms), WaitingOnly, R, Heirs(ms) \cap WaitingOnly)
<1> DEFINE q == HeirQueue(ms)
<1>1. /\ \A m \in Contended(ms) : /\ m \in Mutex /\ wait_queue[m][1] \in Task
                                  /\ waiton[wait_queue[m][1]] = m
      /\ \A u \in Heirs(ms) : waiton[u] \in Contended(ms) /\ wait_queue[waiton[u]][1] = u
  BY HeirsOwned
<1>2. \A i \in 1 .. Len(ms) : ms[i] \in Mutex /\ Member(ms, ms[i])
  BY DEF Member
<1>3. \A i \in 1 .. Len(ms) :
         q[i] = IF wait_queue[ms[i]] = <<>> THEN NoTask ELSE wait_queue[ms[i]][1]
  BY DEF HeirQueue
<1>4. \A i \in 1 .. Len(ms) : wait_queue[ms[i]] # <<>> => ms[i] \in Contended(ms)
  BY <1>2 DEF Contended
<1>5. \A i \in 1 .. Len(ms) : q[i] \in Task \cup {NoTask}
  BY <1>1, <1>3, <1>4
<1>6. q \in Seq(Task \cup {NoTask}) /\ Len(q) = Len(ms)
  <2>1. q = [i \in 1 .. Len(ms) |-> q[i]] /\ Len(ms) \in Nat
    BY DEF HeirQueue
  <2> HIDE DEF q
  <2> QED BY <1>5, <2>1
<1>7. \A i \in 1 .. Len(ms) :
         q[i] \in Task => /\ ms[i] \in Contended(ms) /\ q[i] = wait_queue[ms[i]][1]
                          /\ waiton[q[i]] = ms[i]
  BY <1>1, <1>3, <1>4, TaskAssumption
<1> HIDE DEF q
<1>8. \A i, j \in 1 .. Len(q) : q[i] = q[j] /\ q[i] \in WaitingOnly => i = j
  BY <1>6, <1>7 DEF NoDuplicate, WaitingOnly
<1>9. \A i \in 1 .. Len(q) : q[i] \in WaitingOnly => q[i] \notin R
  BY DEF WaitingOnly, Runnable
<1>10. \A u \in WaitingOnly : u \in Heirs(ms) \cap WaitingOnly <=> Member(q, u)
  <2> SUFFICES ASSUME NEW u \in WaitingOnly PROVE u \in Heirs(ms) <=> Member(q, u)
    OBVIOUS
  <2>1. u \in Task
    BY DEF WaitingOnly
  <2>2. ASSUME u \in Heirs(ms) PROVE Member(q, u)
    <3>1. waiton[u] \in Contended(ms) /\ wait_queue[waiton[u]][1] = u
      BY <1>1, <2>2
    <3>2. Member(ms, waiton[u]) /\ wait_queue[waiton[u]] # <<>>
      BY <3>1 DEF Contended
    <3>3. PICK i \in 1 .. Len(ms) : ms[i] = waiton[u]
      BY <3>2 DEF Member
    <3> QED BY <1>3, <1>6, <3>1, <3>2, <3>3 DEF Member
  <2>3. ASSUME Member(q, u) PROVE u \in Heirs(ms)
    <3>1. PICK i \in 1 .. Len(ms) : q[i] = u
      BY <1>6, <2>3 DEF Member
    <3> QED BY <1>7, <2>1, <3>1 DEF Heirs
  <2> QED BY <2>2, <2>3
<1> QED BY <1>6, <1>8, <1>9, <1>10 DEF WakesEach, q

(* The ready queue after task_terminate: the heirs that only waited have   *)
(* come in, and the task itself only if it starts again.                   *)
LEMMA TerminateReady ==
  ASSUME IInv, NEW t \in Task, NEW r, Consistent(r, Runnable, prio), task_terminate(t, r)
  PROVE  /\ Consistent(rdy', Runnable', prio') /\ (prio \in [Task -> TaskPrio])'
         /\ (rdy.dspflg)' = r.dspflg
         /\ ~ r.dspflg /\ r.p_schedtsk # t => (rdy.p_schedtsk)' = r.p_schedtsk
         /\ (tstat \in [Task -> TaskState])'
         /\ \A u \in Runnable : u # t => (tstat')[u] = "RUNNABLE"
<1> DEFINE ms    == lastmtx[t]
           off   == IF tstat[t] = "RUNNABLE" THEN make_non_runnable(r, prio, t) ELSE r
           again == actque[t] > 0
           q     == HeirQueue(ms)
           T     == WaitingOnly
           W     == Heirs(ms) \cap T
           R     == Runnable \ {t}
           woken == WakeAll(off, prio', q, T)
<1>1. /\ prio' = [InheritedPrio(ms, prio) EXCEPT ![t] = ipri[t]]
      /\ tstat' = [AfterRelease(ms, tstat) EXCEPT
                     ![t] = IF again THEN "RUNNABLE" ELSE "DORMANT"]
      /\ rdy' = IF again THEN make_runnable(woken, prio', t) ELSE woken
  BY DEF task_terminate
<1>2. /\ ms \in Seq(Mutex) /\ NoDuplicate(ms) /\ \A m \in Mutex : Member(ms, m) => loctsk[m] = t
      /\ tstat \in [Task -> TaskState] /\ prio \in [Task -> TaskPrio]
      /\ ipri \in [Task -> TaskPrio] /\ ceilpri \in [CeilMtx -> TaskPrio]
      /\ Runnable \in SUBSET Task
  BY ConfigAssumption DEF IInv, TypeOK, MutexOwned, Runnable
<1> HIDE DEF ms
<1>3. /\ Heirs(ms) \in SUBSET Task /\ t \notin Heirs(ms)
      /\ \A u \in Heirs(ms) : isWaiting(u)
  BY <1>2, HeirsOwned
<1>4. prio' \in [Task -> TaskPrio] /\ \A u \in R : prio'[u] = prio[u]
  <2>1. \A u \in Task : Raised(prio[u], waiton[u]) \in TaskPrio
    BY <1>2 DEF Raised, Lower
  <2>2. \A u \in R : u \notin Heirs(ms)
    BY <1>3 DEF Runnable, isWaiting
  <2> QED BY <1>1, <1>2, <2>1, <2>2 DEF InheritedPrio
<1>5. /\ tstat' \in [Task -> TaskState]
      /\ \A u \in Task : tstat'[u] = IF u = t THEN IF again THEN "RUNNABLE" ELSE "DORMANT"
                                     ELSE IF u \in Heirs(ms) THEN WaitOver(u) ELSE tstat[u]
  BY <1>1, <1>2 DEF AfterRelease, WaitOver, TaskState
<1>6. \A u \in Runnable : u # t => (tstat')[u] = "RUNNABLE"
  BY <1>3, <1>5 DEF Runnable, isWaiting
<1>7. Runnable' = (R \cup W) \cup (IF again THEN {t} ELSE {})
  BY <1>3, <1>5 DEF Runnable, WaitOver, WaitingOnly, isWaiting
<1>8. /\ Consistent(off, R, prio) /\ off.dspflg = r.dspflg
      /\ r.p_schedtsk # t => off.p_schedtsk = r.p_schedtsk
  <2>1. CASE tstat[t] = "RUNNABLE"
    <3>1. t \in Runnable
      BY <2>1 DEF Runnable
    <3> QED BY <1>2, <2>1, <3>1, MakeNonRunnable
  <2>2. CASE tstat[t] # "RUNNABLE"
    BY <2>2 DEF Runnable
  <2> QED BY <2>1, <2>2
<1>9. R \in SUBSET Task /\ W \in SUBSET T /\ T \in SUBSET Task /\ R \in SUBSET Runnable
  BY <1>2 DEF WaitingOnly
<1>10. q \in Seq(Task \cup {NoTask}) /\ WakesEach(q, T, R, W)
  BY <1>2, <1>9, HeirsWoken
<1> HIDE DEF off, q, T, W, R, again
<1>11. Consistent(off, R, prio')
  BY <1>4, <1>8, <1>9, OtherPriorities
<1>12. /\ Consistent(woken, R \cup W, prio')
       /\ woken.dspflg = off.dspflg
       /\ ~ off.dspflg => woken.p_schedtsk = off.p_schedtsk
  <2> DEFINE p == prio'
  <2>1. p \in [Task -> TaskPrio] /\ Consistent(off, R, p)
    BY <1>4, <1>11
  <2> HIDE DEF p
  <2>2. /\ Consistent(WakeAll(off, p, q, T), R \cup W, p)
        /\ WakeAll(off, p, q, T).dspflg = off.dspflg
        /\ ~ off.dspflg => WakeAll(off, p, q, T).p_schedtsk = off.p_schedtsk
    BY <1>9, <1>10, <2>1, WakeAllTasks, ZenonT(60)
  <2> QED BY <2>2 DEF p
<1> HIDE DEF woken
<1>13. /\ Consistent(rdy', Runnable', prio')
       /\ (rdy.dspflg)' = woken.dspflg
       /\ ~ woken.dspflg => (rdy.p_schedtsk)' = woken.p_schedtsk
  <2>1. CASE again
    <3>1. /\ R \cup W \in SUBSET Task /\ t \notin R \cup W
          /\ Runnable' = (R \cup W) \cup {t} /\ rdy' = make_runnable(woken, prio', t)
      BY <1>1, <1>3, <1>7, <1>9, <2>1 DEF R, W
    <3> DEFINE p == prio'
               Q == R \cup W
    <3>2. p \in [Task -> TaskPrio] /\ Consistent(woken, Q, p) /\ Q \in SUBSET Task /\ t \notin Q
      BY <1>4, <1>12, <3>1
    <3> HIDE DEF p, Q
    <3>3. /\ Consistent(make_runnable(woken, p, t), Q \cup {t}, p)
          /\ make_runnable(woken, p, t).dspflg = woken.dspflg
          /\ ~ woken.dspflg => make_runnable(woken, p, t).p_schedtsk = woken.p_schedtsk
      BY <3>2, MakeRunnable
    <3> QED BY <3>1, <3>3 DEF p, Q
  <2>2. CASE ~ again
    BY <1>1, <1>7, <1>12, <2>2
  <2> QED BY <2>1, <2>2
<1>14. (rdy.dspflg)' = r.dspflg
  BY <1>8, <1>12, <1>13
<1>15. ~ r.dspflg /\ r.p_schedtsk # t => (rdy.p_schedtsk)' = r.p_schedtsk
  BY <1>8, <1>12, <1>13
<1> QED BY <1>4, <1>5, <1>6, <1>13, <1>14, <1>15

(* What task_terminate leaves in the queues of the objects: every wait of  *)
(* the task and of the heirs is over.                                      *)
LEMMA TerminateQueues ==
  ASSUME IInv, NEW t \in Task, NEW r, task_terminate(t, r)
  PROVE  /\ (wait_queue \in [Wobj -> Seq(Task)])'
         /\ \A w \in Wobj : NoDuplicate(wait_queue'[w])
         /\ \A w \in Wobj, u \in Task : Member(wait_queue'[w], u)
               <=> Member(wait_queue[w], u) /\ u \notin Heirs(lastmtx[t]) \cup {t}
         /\ WaitsOwned'
<1> DEFINE ms == lastmtx[t]
           H  == Heirs(ms)
           C  == Contended(ms)
           Q  == QueuesWithout(t)
<1>1. /\ tstat' = [AfterRelease(ms, tstat) EXCEPT
                     ![t] = IF actque[t] > 0 THEN "RUNNABLE" ELSE "DORMANT"]
      /\ waiton' = [u \in Task |-> IF u = t \/ u \in H THEN "NONE" ELSE waiton[u]]
      /\ wait_queue' = [w \in Wobj |-> IF w \in C THEN Tail(Q[w]) ELSE Q[w]]
      /\ tmevt' = {u \in (IF isWaiting(t) THEN EventsWithout(t) ELSE tmevt) :
                     u \in H => winfo[u] # "tmevtb"}
      /\ winfo' = [u \in Task |-> IF u \in H THEN "ok" ELSE winfo[u]]
  BY DEF task_terminate, mutexRelease
<1>2. /\ ms \in Seq(Mutex) /\ \A m \in Mutex : Member(ms, m) => loctsk[m] = t
      /\ tstat \in [Task -> TaskState] /\ wait_queue \in [Wobj -> Seq(Task)]
  BY DEF IInv, TypeOK, MutexOwned
<1> HIDE DEF ms
<1>3. /\ \A m \in C : /\ m \in Wobj /\ wait_queue[m] # <<>> /\ waiton[t] # m
                      /\ wait_queue[m][1] \in H
                      /\ waiton[wait_queue[m][1]] = m
      /\ H \in SUBSET Task /\ t \notin H
      /\ \A u \in H : waiton[u] \in C /\ wait_queue[waiton[u]][1] = u
  BY <1>2, HeirsOwned DEF Heirs
<1>4. /\ Q \in [Wobj -> Seq(Task)]
      /\ \A w \in Wobj : NoDuplicate(Q[w])
      /\ \A w \in Wobj, u \in Task : Member(Q[w], u) <=> Member(wait_queue[w], u) /\ u # t
      /\ isWaiting(t) => EventsWithout(t) = tmevt \ {t}
      /\ ~ isWaiting(t) => t \notin tmevt
  BY Dequeued
<1>5. \A w \in C : Q[w] = wait_queue[w]
  BY <1>2, <1>3 DEF QueuesWithout
<1>6. \A w \in Wobj, u \in Task : Member(wait_queue[w], u) <=> waiton[u] = w
  BY DEF IInv, WaitsOwned
<1> HIDE DEF H, C, Q
<1>7. ASSUME NEW w \in Wobj
      PROVE  /\ wait_queue'[w] \in Seq(Task) /\ NoDuplicate(wait_queue'[w])
             /\ \A u \in Task : Member(wait_queue'[w], u)
                                <=> Member(wait_queue[w], u) /\ u \notin H \cup {t}
  <2>1. CASE w \in C
    <3> DEFINE q == wait_queue[w]
    <3>1. wait_queue'[w] = Tail(q) /\ q \in Seq(Task) /\ q # <<>> /\ NoDuplicate(q)
      BY <1>1, <1>3, <1>4, <1>5, <2>1
    <3>2. \A u \in Task : Member(q, u) => (u = q[1] <=> u \in H) /\ u # t
      BY <1>3, <1>6, <2>1
    <3> HIDE DEF q
    <3>3. /\ Tail(q) \in Seq(Task) /\ NoDuplicate(Tail(q))
          /\ \A u : Member(Tail(q), u) <=> Member(q, u) /\ u # q[1]
      BY <3>1, TailQueue
    <3>4. \A u \in Task : Member(Tail(q), u) <=> Member(q, u) /\ u \notin H \cup {t}
      BY <3>2, <3>3
    <3> QED BY <3>1, <3>3, <3>4 DEF q
  <2>2. CASE w \notin C
    <3>1. wait_queue'[w] = Q[w]
      BY <1>1, <2>2
    <3>2. \A u \in Task : Member(wait_queue[w], u) => u \notin H
      BY <1>3, <1>6, <2>2
    <3> QED BY <1>4, <3>1, <3>2
  <2> QED BY <2>1, <2>2
<1>8. (wait_queue \in [Wobj -> Seq(Task)])'
  <2>1. wait_queue' = [w \in Wobj |-> wait_queue'[w]]
    BY <1>1
  <2> QED BY <1>7, <2>1
<1>9. WaitsOwned'
  <2> DEFINE S == H \cup {t}
  <2>1. S \in SUBSET Task
    BY <1>3
  <2>2. \A u \in S : /\ (tstat')[u] \notin {"WAITING", "WAITING-SUSPENDED"}
                     /\ (waiton')[u] = "NONE"
    BY <1>1, <1>3 DEF AfterRelease, WaitOver, H
  <2>3. \A u \in Task \ S :
            /\ (tstat')[u] \in {"WAITING", "WAITING-SUSPENDED"} <=> isWaiting(u)
            /\ (waiton')[u] = waiton[u] /\ (winfo')[u] = winfo[u]
    BY <1>1 DEF AfterRelease, isWaiting, H
  <2>4. tmevt' = tmevt \ S
    <3>1. \A u \in tmevt : u \in Task /\ winfo[u] = "tmevtb"
      BY DEF IInv, TypeOK, WaitsOwned, TimeEventsOwned
    <3>2. tmevt' = {u \in tmevt \ {t} : u \in H => winfo[u] # "tmevtb"}
      BY <1>1, <1>4
    <3> QED BY <3>1, <3>2
  <2>5. /\ \A w \in Wobj : NoDuplicate(wait_queue'[w])
        /\ \A w \in Wobj, u \in Task :
              Member(wait_queue'[w], u) <=> Member(wait_queue[w], u) /\ u \notin S
    BY <1>7
  <2> HIDE DEF S
  <2> QED BY <2>1, <2>2, <2>3, <2>4, <2>5, WaitsEnded
<1> QED BY <1>7, <1>8, <1>9 DEF H, ms

(* Every mutex the task held has gone to its heir, or to nobody.           *)
LEMMA TerminateMutexes ==
  ASSUME IInv, NEW t \in Task, NEW r, task_terminate(t, r)
  PROVE  /\ MutexOwned'
         /\ (loctsk \in [Mutex -> Task \cup {NoTask}])' /\ (lastmtx \in [Task -> Seq(Mutex)])'
<1> DEFINE ms == lastmtx[t]
           H  == Heirs(ms)
           C  == Contended(ms)
<1>1. /\ waiton' = [u \in Task |-> IF u = t \/ u \in H THEN "NONE" ELSE waiton[u]]
      /\ loctsk' = [m \in Mutex |-> IF m \in C THEN wait_queue[m][1]
                                    ELSE IF Member(ms, m) THEN NoTask ELSE loctsk[m]]
      /\ lastmtx' = [u \in Task |-> IF u = t THEN <<>>
                                    ELSE IF u \in H THEN <<waiton[u]>> \o lastmtx[u]
                                    ELSE lastmtx[u]]
  BY DEF task_terminate, mutexRelease
<1>2. /\ ms \in Seq(Mutex) /\ \A m \in Mutex : Member(ms, m) <=> loctsk[m] = t
      /\ loctsk \in [Mutex -> Task \cup {NoTask}] /\ lastmtx \in [Task -> Seq(Mutex)]
      /\ \A u \in Task : NoDuplicate(lastmtx[u])
      /\ \A u \in Task, m \in Mutex : Member(lastmtx[u], m) <=> loctsk[m] = u
      /\ \A u \in Task, m \in Mutex : waiton[u] = m => loctsk[m] \notin {NoTask, u}
      /\ \A u \in Task, m \in Mutex : waiton[u] = m => wait_queue[m] # <<>>
  <2>1. \A u \in Task, m \in Mutex : waiton[u] = m => wait_queue[m] # <<>>
    <3> SUFFICES ASSUME NEW u \in Task, NEW m \in Mutex, waiton[u] = m
                 PROVE  wait_queue[m] # <<>>
      OBVIOUS
    <3>1. Member(wait_queue[m], u)
      BY ConfigAssumption DEF IInv, WaitsOwned
    <3> QED BY <3>1 DEF Member
  <2> QED BY <2>1 DEF IInv, TypeOK, MutexOwned
<1> HIDE DEF ms
<1>3. /\ \A m \in C : /\ m \in Mutex /\ Member(ms, m) /\ wait_queue[m][1] \in Task
                      /\ wait_queue[m][1] # t
                      /\ wait_queue[m][1] \in H /\ waiton[wait_queue[m][1]] = m
      /\ H \in SUBSET Task /\ t \notin H
      /\ \A u \in H : waiton[u] \in C /\ wait_queue[waiton[u]][1] = u
  BY <1>2, HeirsOwned DEF Heirs
<1>4. \A m \in Mutex : Member(ms, m) /\ wait_queue[m] # <<>> => m \in C
  BY DEF Contended
<1> HIDE DEF H, C
<1>5. ASSUME NEW u \in Task
      PROVE  /\ lastmtx'[u] \in Seq(Mutex) /\ NoDuplicate(lastmtx'[u])
             /\ \A m \in Mutex : Member(lastmtx'[u], m)
                  <=> u # t /\ (Member(lastmtx[u], m) \/ (u \in H /\ m = waiton[u]))
  <2>1. CASE u = t
    BY <1>1, <2>1 DEF NoDuplicate, Member
  <2>2. CASE u # t /\ u \in H
    <3> DEFINE m == waiton[u]
               q == lastmtx[u]
    <3>1. m \in Mutex /\ q \in Seq(Mutex) /\ NoDuplicate(q) /\ ~ Member(q, m)
      BY <1>2, <1>3, <2>2
    <3>2. lastmtx'[u] = <<m>> \o q
      BY <1>1, <2>2
    <3> HIDE DEF m, q
    <3>3. /\ <<m>> \o q \in Seq(Mutex) /\ NoDuplicate(<<m>> \o q)
          /\ \A n : Member(<<m>> \o q, n) <=> Member(q, n) \/ n = m
      BY <3>1, PushProperties
    <3> QED BY <2>2, <3>2, <3>3 DEF m, q
  <2>3. CASE u # t /\ u \notin H
    BY <1>1, <1>2, <2>3
  <2> QED BY <2>1, <2>2, <2>3
<1>6. (loctsk \in [Mutex -> Task \cup {NoTask}])' /\ (lastmtx \in [Task -> Seq(Mutex)])'
  <2>1. \A m \in Mutex : loctsk'[m] \in Task \cup {NoTask}
    BY <1>1, <1>2, <1>3
  <2>2. loctsk' = [m \in Mutex |-> loctsk'[m]] /\ lastmtx' = [u \in Task |-> lastmtx'[u]]
    BY <1>1
  <2> QED BY <1>5, <2>1, <2>2
<1>7. ASSUME NEW u \in Task, NEW m \in Mutex
      PROVE  Member(lastmtx'[u], m) <=> loctsk'[m] = u
  <2>1. Member(lastmtx'[u], m)
          <=> u # t /\ (Member(lastmtx[u], m) \/ (u \in H /\ m = waiton[u]))
    BY <1>5
  <2>2. (Member(lastmtx[u], m) <=> loctsk[m] = u) /\ (Member(ms, m) <=> loctsk[m] = t)
    BY <1>2
  <2>3. loctsk'[m] = IF m \in C THEN wait_queue[m][1]
                     ELSE IF Member(ms, m) THEN NoTask ELSE loctsk[m]
    BY <1>1
  <2>4. CASE m \in C
    <3>1. (u \in H /\ m = waiton[u] <=> u = wait_queue[m][1]) /\ loctsk[m] = t
          /\ wait_queue[m][1] # t
      BY <1>3, <2>2, <2>4
    <3> QED BY <2>1, <2>2, <2>3, <2>4, <3>1
  <2>5. CASE m \notin C
    <3>1. ~ (u \in H /\ m = waiton[u]) /\ u # NoTask
      BY <1>3, <2>5, TaskAssumption
    <3> QED BY <2>1, <2>2, <2>3, <2>5, <3>1
  <2> QED BY <2>4, <2>5
<1>8. ASSUME NEW u \in Task, NEW m \in Mutex, waiton'[u] = m
      PROVE  loctsk'[m] \notin {NoTask, u}
  <2>1. m # "NONE"
    BY ConfigAssumption
  <2>2. u # t /\ u \notin H /\ waiton[u] = m
    BY <1>1, <1>8, <2>1
  <2>3. loctsk'[m] = IF m \in C THEN wait_queue[m][1]
                     ELSE IF Member(ms, m) THEN NoTask ELSE loctsk[m]
    BY <1>1
  <2>4. loctsk[m] \notin {NoTask, u} /\ wait_queue[m] # <<>>
    BY <1>2, <2>2
  <2>5. CASE m \in C
    <3>1. wait_queue[m][1] \in Task /\ wait_queue[m][1] # u
      BY <1>3, <2>2, <2>5
    <3> QED BY <2>3, <2>5, <3>1, TaskAssumption
  <2>6. CASE m \notin C
    BY <1>4, <2>3, <2>4, <2>6
  <2> QED BY <2>5, <2>6
<1> QED BY <1>5, <1>6, <1>7, <1>8 DEF MutexOwned

(* A task terminates, and its caller dispatches.                           *)
LEMMA Terminates ==
  ASSUME IInv, TaskContext, NEW t \in Task, NEW r, Consistent(r, Runnable, prio),
         task_terminate(t, r), taskDispatch,
         UNCHANGED <<nest, bootVars>>,
         enadsp' \in BOOLEAN, ipmall' \in BOOLEAN, cpulock' \in BOOLEAN,
         r.dspflg <=> enadsp' /\ ipmall',
         ~ r.dspflg => t # runtsk /\ r.p_schedtsk = runtsk
  PROVE  IInv'
<1> USE DEF bootVars
<1>1. /\ Consistent(rdy', Runnable', prio') /\ (prio \in [Task -> TaskPrio])'
      /\ (rdy.dspflg)' = r.dspflg
      /\ ~ r.dspflg /\ r.p_schedtsk # t => (rdy.p_schedtsk)' = r.p_schedtsk
      /\ (tstat \in [Task -> TaskState])'
      /\ \A u \in Runnable : u # t => (tstat')[u] = "RUNNABLE"
  BY TerminateReady
<1>2. runtsk \in Runnable /\ runtsk # NoTask /\ kerflg /\ nest = 0
  BY DEF TaskContext, IInv, TypeOK, DispatchDone, Runnable
<1>3. runtsk' = (rdy.p_schedtsk)'
  BY DEF taskDispatch
<1>4. ~ (rdy.dspflg)' => /\ runtsk' = runtsk /\ (rdy.p_schedtsk)' = runtsk'
                         /\ (tstat')[runtsk] = "RUNNABLE"
  BY <1>1, <1>2, <1>3
<1>5. ReadyQueueConsistent' /\ DispatchDone' /\ DspflgCoherent'
  <2>1. rdy'.dspflg <=> enadsp' /\ ipmall'
    BY <1>1
  <2>2. ~ rdy'.dspflg => /\ (runtsk # NoTask)' /\ (rdy.p_schedtsk = runtsk)'
                         /\ (tstat[runtsk] = "RUNNABLE")'
    BY <1>2, <1>4
  <2> QED BY <1>1, <1>3, <2>1, <2>2, DispatchKept
<1>6. WaitsOwned' /\ (wait_queue \in [Wobj -> Seq(Task)])'
  BY TerminateQueues
<1>7. MutexOwned' /\ (loctsk \in [Mutex -> Task \cup {NoTask}])'
      /\ (lastmtx \in [Task -> Seq(Mutex)])'
  BY TerminateMutexes
<1>8. TypeOK'
  <2>1. (rdy \in ReadyState)' /\ (runtsk \in Task \cup {NoTask})'
    BY <1>1, <1>3 DEF Consistent, ReadyState
  <2>2. /\ bprio' = [bprio EXCEPT ![t] = ipri[t]]
        /\ wupque' = [wupque EXCEPT ![t] = 0]
        /\ raster' = [raster EXCEPT ![t] = FALSE]
        /\ enater' = [enater EXCEPT ![t] = TRUE]
        /\ actque' = [actque EXCEPT ![t] = IF actque[t] > 0 THEN actque[t] - 1 ELSE actque[t]]
    BY DEF task_terminate, make_dormant
  <2>3. /\ bprio \in [Task -> TaskPrio] /\ ipri \in [Task -> TaskPrio]
        /\ wupque \in [Task -> 0 .. TMAX_WUPCNT] /\ actque \in [Task -> 0 .. TMAX_ACTCNT]
        /\ raster \in [Task -> BOOLEAN] /\ enater \in [Task -> BOOLEAN]
    BY ConfigAssumption DEF IInv, TypeOK
  <2>4. /\ bprio' \in [Task -> TaskPrio] /\ wupque' \in [Task -> 0 .. TMAX_WUPCNT]
        /\ raster' \in [Task -> BOOLEAN] /\ enater' \in [Task -> BOOLEAN]
    BY <2>2, <2>3 DEF TMAX_WUPCNT
  <2>5. actque' \in [Task -> 0 .. TMAX_ACTCNT]
    <3> DEFINE n == IF actque[t] > 0 THEN actque[t] - 1 ELSE actque[t]
    <3>1. n \in 0 .. TMAX_ACTCNT
      BY <2>3 DEF TMAX_ACTCNT
    <3> HIDE DEF n
    <3> QED BY <2>2, <2>3, <3>1 DEF n
  <2>6. /\ waiton' = [u \in Task |-> IF u = t \/ u \in Heirs(lastmtx[t]) THEN "NONE"
                                     ELSE waiton[u]]
        /\ winfo' = [u \in Task |-> IF u \in Heirs(lastmtx[t]) THEN "ok" ELSE winfo[u]]
        /\ tmevt' \subseteq tmevt
    BY DEF task_terminate, mutexRelease, EventsWithout
  <2>7. /\ waiton' \in [Task -> WaitCause] /\ tmevt' \in SUBSET Task
        /\ winfo' \in [Task -> WaitInfo]
    <3>1. /\ waiton \in [Task -> WaitCause] /\ tmevt \in SUBSET Task
          /\ winfo \in [Task -> WaitInfo]
      BY DEF IInv, TypeOK
    <3> QED BY <2>6, <3>1 DEF WaitCause, WaitInfo
  <2> QED BY <1>1, <1>6, <1>7, <2>1, <2>4, <2>5, <2>7 DEF IInv, TypeOK
<1>9. Booting'
  BY <1>2 DEF Booting
<1> QED BY <1>5, <1>6, <1>7, <1>8, <1>9 DEF IInv

(* set_dspflg applies: the running task is in the ready queue.             *)
LEMMA DispatchResumes ==
  ASSUME IInv, TaskContext
  PROVE  /\ Consistent(set_dspflg(rdy), Runnable, prio) /\ set_dspflg(rdy).dspflg = TRUE
         /\ Consistent(rdy, Runnable, prio) /\ runtsk \in Task
<1>1. runtsk \in Runnable
  BY DEF TaskContext, IInv, TypeOK, DispatchDone, Runnable
<1>2. /\ Consistent(rdy, Runnable, prio) /\ Runnable \in SUBSET Task
      /\ prio \in [Task -> TaskPrio] /\ Runnable # {}
  BY <1>1, ReadyConsistent DEF IInv, TypeOK
<1> QED BY <1>1, <1>2, SetDspflg

(* The tail of ena_dsp and chg_ipm, with a deferred termination.           *)
LEMMA ResumeDispatch ==
  ASSUME IInv, TaskContext, resume_dispatch, enadsp' = TRUE, ipmall' = TRUE,
         UNCHANGED <<cpuVars, bootVars>>
  PROVE  IInv'
<1> USE DEF stateVars, prioVars, queVars, terVars, waitVars, mtxVars, cpuVars, bootVars
<1>1. /\ Consistent(set_dspflg(rdy), Runnable, prio) /\ set_dspflg(rdy).dspflg = TRUE
      /\ runtsk \in Task
  BY DispatchResumes
<1>2. cpulock' \in BOOLEAN
  BY DEF IInv, TypeOK
<1>3. CASE raster[runtsk] /\ enater[runtsk]
  <2>1. task_terminate(runtsk, set_dspflg(rdy)) /\ taskDispatch
    BY <1>3 DEF resume_dispatch
  <2>2. UNCHANGED <<nest, bootVars>>
    OBVIOUS
  <2> DEFINE r == set_dspflg(rdy)
             t == runtsk
  <2>3. /\ Consistent(r, Runnable, prio) /\ r.dspflg /\ t \in Task /\ task_terminate(t, r)
    BY <1>1, <2>1
  <2> HIDE DEF r, t
  <2> QED BY <1>2, <2>1, <2>2, <2>3, Terminates
<1>4. CASE ~ (raster[runtsk] /\ enater[runtsk])
  <2>1. /\ rdy' = set_dspflg(rdy) /\ runtsk' = (rdy.p_schedtsk)'
        /\ UNCHANGED <<stateVars, prioVars, queVars, terVars, waitVars>>
    BY <1>4 DEF resume_dispatch, taskDispatch
  <2>2. /\ Consistent(rdy', Runnable', prio') /\ (prio \in [Task -> TaskPrio])'
        /\ rdy'.dspflg = TRUE
    BY <1>1, <2>1 DEF IInv, TypeOK, Runnable
  <2>3. ReadyQueueConsistent' /\ DispatchDone' /\ DspflgCoherent'
    BY <2>1, <2>2, DispatchKept
  <2>4. (runtsk \in Task \cup {NoTask})'
    BY <2>1, <2>2 DEF Consistent, ReadyState
  <2>5. TypeOK'
    BY <2>1, <2>2, <2>4 DEF IInv, TypeOK, Consistent
  <2>6. WaitsOwned' /\ MutexOwned' /\ Booting'
    BY <2>1 DEF IInv, WaitsOwned, TimeEventsOwned, isWaiting, MutexOwned, Booting,
                TaskContext
  <2> QED BY <2>3, <2>5, <2>6 DEF IInv
<1> QED BY <1>3, <1>4

(* Calls that set and clear dspflg.                                        *)
LEMMA DispatchCalls ==
  ASSUME IInv, dis_dsp \/ ena_dsp \/ \E all \in BOOLEAN : chg_ipm(all)
  PROVE  IInv'
<1> USE DEF dspVars
<1>1. TaskContext /\ enadsp \in BOOLEAN /\ ipmall \in BOOLEAN
  BY DEF dis_dsp, ena_dsp, chg_ipm, checkContextTaskUnlock, IInv, TypeOK
<1>2. CASE dis_dsp
  BY <1>1, <1>2, HoldsBack DEF dis_dsp
<1>3. ASSUME ena_dsp, ipmall PROVE IInv'
  BY <1>1, <1>3, ResumeDispatch DEF ena_dsp
<1>4. ASSUME ena_dsp, ~ ipmall PROVE IInv'
  <2>1. /\ enadsp' = TRUE /\ ipmall' = ipmall
        /\ UNCHANGED <<rdy, runtsk, stateVars, prioVars, queVars, terVars, waitVars,
                       cpuVars, bootVars>>
    BY <1>4 DEF ena_dsp
  <2>2. rdy.dspflg = FALSE /\ rdy \in ReadyState
    BY <1>4 DEF IInv, TypeOK, DspflgCoherent, ReadyState
  <2>3. rdy' = [rdy EXCEPT !.dspflg = FALSE]
    BY <2>1, <2>2 DEF ReadyState
  <2> QED BY <1>1, <1>4, <2>1, <2>3, HoldsBack
<1>5. ASSUME NEW all \in BOOLEAN, chg_ipm(all), all /\ enadsp PROVE IInv'
  <2>1. resume_dispatch /\ enadsp' = TRUE /\ ipmall' = TRUE /\ UNCHANGED <<cpuVars, bootVars>>
    BY <1>1, <1>5 DEF chg_ipm
  <2> QED BY <1>1, <2>1, ResumeDispatch
<1>6. ASSUME NEW all \in BOOLEAN, chg_ipm(all), ~ (all /\ enadsp) PROVE IInv'
  <2>1. /\ rdy' = [rdy EXCEPT !.dspflg = FALSE] /\ ipmall' = all /\ enadsp' = enadsp
        /\ UNCHANGED <<runtsk, stateVars, prioVars, queVars, terVars, waitVars, cpuVars,
                       bootVars>>
    BY <1>6 DEF chg_ipm
  <2> QED BY <1>1, <1>6, <2>1, HoldsBack
<1> QED BY <1>2, <1>3, <1>4, <1>5, <1>6

(* Calls that end a task at once: itself, or one that can be terminated.   *)
LEMMA TerminatingCalls ==
  ASSUME IInv,
         \/ ext_tsk
         \/ ena_ter /\ raster[runtsk] /\ rdy.dspflg
         \/ \E t \in Task : ter_tsk(t) \/ (ras_ter(t) /\ enater[t])
  PROVE  IInv'
<1> USE DEF dspVars, cpuVars
<1>1. TaskContext
  BY DEF ext_tsk, ena_ter, ter_tsk, ras_ter, checkContextTaskUnlock
<1>2. /\ Consistent(set_dspflg(rdy), Runnable, prio) /\ set_dspflg(rdy).dspflg = TRUE
      /\ Consistent(rdy, Runnable, prio) /\ runtsk \in Task
  BY <1>1, DispatchResumes
<1>3. /\ enadsp \in BOOLEAN /\ ipmall \in BOOLEAN /\ cpulock \in BOOLEAN
      /\ rdy.dspflg <=> enadsp /\ ipmall
      /\ ~ rdy.dspflg => rdy.p_schedtsk = runtsk
  BY DEF IInv, TypeOK, DspflgCoherent
<1>4. CASE ext_tsk
  <2> DEFINE r == IF rdy.dspflg THEN rdy ELSE set_dspflg(rdy)
             t == runtsk
  <2>1. Consistent(r, Runnable, prio) /\ r.dspflg /\ t \in Task
    BY <1>2
  <2>2. task_terminate(t, r) /\ taskDispatch /\ UNCHANGED <<nest, bootVars>> /\ cpulock' = FALSE
    BY <1>4 DEF ext_tsk
  <2>3. enadsp' = TRUE /\ ipmall' = TRUE
    BY <1>3, <1>4 DEF ext_tsk
  <2> HIDE DEF r, t
  <2> QED BY <1>1, <2>1, <2>2, <2>3, Terminates
<1>5. ASSUME NEW t \in Task, task_terminate(t, rdy), taskDispatch,
             UNCHANGED <<enadsp, ipmall, cpulock, nest, bootVars>>, t # runtsk \/ rdy.dspflg
      PROVE  IInv'
  <2>1. ~ rdy.dspflg => t # runtsk /\ rdy.p_schedtsk = runtsk
    BY <1>3, <1>5
  <2>2. enadsp' \in BOOLEAN /\ ipmall' \in BOOLEAN /\ cpulock' \in BOOLEAN
    BY <1>3, <1>5
  <2>3. rdy.dspflg <=> enadsp' /\ ipmall'
    BY <1>3, <1>5
  <2> QED BY <1>1, <1>2, <1>5, <2>1, <2>2, <2>3, Terminates
<1>6. CASE ena_ter /\ raster[runtsk] /\ rdy.dspflg
  BY <1>2, <1>5, <1>6 DEF ena_ter
<1>7. ASSUME NEW t \in Task, ter_tsk(t) PROVE IInv'
  BY <1>5, <1>7 DEF ter_tsk
<1>8. ASSUME NEW t \in Task, ras_ter(t), enater[t] PROVE IInv'
  BY <1>5, <1>8 DEF ras_ter
<1> QED BY <1>4, <1>6, <1>7, <1>8

(* ena_ter when it does not end the task.                                  *)
LEMMA EnaTer ==
  ASSUME IInv, ena_ter, ~ (raster[runtsk] /\ rdy.dspflg)
  PROVE  IInv'
<1> USE DEF stateVars, prioVars, queVars, waitVars, mtxVars, dspVars, cpuVars, bootVars
<1>1. TypeOK'
  BY DEF IInv, TypeOK, ena_ter
<1> QED BY <1>1, QuietStep DEF ena_ter

(* A termination request for a task that cannot be terminated now ends its *)
(* wait and its suspension.                                                *)
LEMMA RequestsTermination ==
  ASSUME IInv, NEW t \in Task, ras_ter(t), ~ enater[t]
  PROVE  IInv'
<1> USE DEF stateVars, prioVars, queVars, waitVars, mtxVars, dspVars, cpuVars, bootVars
<1>1. /\ raster' = [raster EXCEPT ![t] = TRUE] /\ waiton' = [waiton EXCEPT ![t] = "NONE"]
      /\ UNCHANGED <<prioVars, queVars, enater, dspVars, cpuVars, bootVars>>
      /\ kerflg /\ nest = 0 /\ tstat[t] # "DORMANT"
  BY DEF ras_ter, checkContextTaskUnlock, TaskContext
<1>2. /\ tstat \in [Task -> TaskState] /\ waiton \in [Task -> WaitCause]
      /\ raster' \in [Task -> BOOLEAN] /\ waiton' \in [Task -> WaitCause]
  BY <1>1 DEF IInv, TypeOK, WaitCause
<1>3. CASE tstat[t] = "RUNNABLE"
  <2>1. UNCHANGED <<rdy, runtsk, tstat, waitVars>>
    BY <1>3 DEF ras_ter
  <2>2. waiton[t] = "NONE"
    BY <1>3 DEF IInv, WaitsOwned, isWaiting
  <2>3. waiton' = waiton
    BY <1>1, <1>2, <2>2
  <2>4. TypeOK'
    BY <1>1, <1>2, <2>1 DEF IInv, TypeOK
  <2> QED BY <1>1, <2>1, <2>3, <2>4, QuietStep
<1>4. CASE tstat[t] # "RUNNABLE"
  <2>1. /\ tstat' = [tstat EXCEPT ![t] = "RUNNABLE"]
        /\ rdy' = make_runnable(rdy, prio, t) /\ runtsk' = (rdy.p_schedtsk)'
        /\ UNCHANGED mtxVars /\ prio' = prio
        /\ IF isWaiting(t)
           THEN /\ wait_queue' = QueuesWithout(t) /\ tmevt' = EventsWithout(t)
                /\ winfo' = [winfo EXCEPT ![t] = "error"]
           ELSE UNCHANGED <<wait_queue, tmevt, winfo>>
    BY <1>4 DEF ras_ter, become_runnable, taskDispatch, wait_dequeue_wobj,
                wait_dequeue_tmevtb, set_werror
  <2>2. Runnable' = Runnable \cup {t} /\ tstat' \in [Task -> TaskState]
    BY <1>2, <2>1 DEF Runnable, TaskState
  <2>3. /\ Consistent(rdy', Runnable', prio') /\ (prio \in [Task -> TaskPrio])'
        /\ (rdy.dspflg)' = rdy.dspflg
        /\ ~ rdy.dspflg => (rdy.p_schedtsk)' = rdy.p_schedtsk
    BY <1>4, <2>1, <2>2, BecomesRunnable
  <2>4. runtsk # NoTask => (tstat')[runtsk] = "RUNNABLE"
    BY <1>2, <2>1 DEF IInv, TypeOK, DispatchDone
  <2>5. /\ (rdy \in ReadyState)' /\ (runtsk \in Task \cup {NoTask})'
        /\ ReadyQueueConsistent' /\ DispatchDone' /\ DspflgCoherent'
    BY <1>1, <2>1, <2>3, <2>4, CallDispatches
  <2>6. /\ wait_queue' \in [Wobj -> Seq(Task)]
        /\ \A w \in Wobj : NoDuplicate(wait_queue'[w])
        /\ \A w \in Wobj, u \in Task :
              Member(wait_queue'[w], u) <=> Member(wait_queue[w], u) /\ u \notin {t}
        /\ tmevt' = tmevt \ {t}
    <3>1. CASE isWaiting(t)
      BY <2>1, <3>1, Dequeued
    <3>2. CASE ~ isWaiting(t)
      <4>1. waiton[t] = "NONE" /\ t \notin tmevt
        BY <3>2 DEF IInv, WaitsOwned, TimeEventsOwned
      <4>2. \A w \in Wobj : ~ Member(wait_queue[w], t)
        BY <4>1, ConfigAssumption DEF IInv, WaitsOwned
      <4> QED BY <2>1, <3>2, <4>1, <4>2 DEF IInv, TypeOK, WaitsOwned
    <3> QED BY <3>1, <3>2
  <2>7. (winfo \in [Task -> WaitInfo])' /\ tmevt' \in SUBSET Task
    BY <2>1, <2>6 DEF IInv, TypeOK, WaitInfo
  <2>8. TypeOK'
    BY <1>1, <1>2, <2>1, <2>2, <2>5, <2>6, <2>7 DEF IInv, TypeOK
  <2>9. WaitsOwned'
    <3>1. \A u \in {t} : /\ (tstat')[u] \notin {"WAITING", "WAITING-SUSPENDED"}
                         /\ (waiton')[u] = "NONE"
      BY <1>1, <1>2, <2>1
    <3>2. \A u \in Task \ {t} :
             /\ (tstat')[u] \in {"WAITING", "WAITING-SUSPENDED"} <=> isWaiting(u)
             /\ (waiton')[u] = waiton[u] /\ (winfo')[u] = winfo[u]
      BY <1>1, <1>2, <2>1 DEF isWaiting, IInv, TypeOK
    <3>3. {t} \in SUBSET Task
      OBVIOUS
    <3> QED BY <2>6, <3>1, <3>2, <3>3, WaitsEnded
  <2>10. MutexOwned'
    <3>1. \A u \in Task, m \in Mutex : waiton'[u] = m => waiton[u] = m
      BY <1>1, <1>2, ConfigAssumption
    <3> QED BY <2>1, <3>1 DEF IInv, MutexOwned
  <2>11. Booting'
    BY <1>1 DEF Booting
  <2> QED BY <2>5, <2>8, <2>9, <2>10, <2>11 DEF IInv
<1> QED BY <1>3, <1>4
-----------------------------------------------------------------------------
(* The invariant is inductive: one case per service call, boot step and    *)
(* interrupt.                                                              *)
LEMMA NextInvariant == IInv /\ [Next]_vars => IInv'
<1> SUFFICES ASSUME IInv, [Next]_vars PROVE IInv'
  OBVIOUS
<1>1. CASE Boot
  BY <1>1, BootSteps DEF Boot
<1>2. CASE Interrupt
  BY <1>2, InterruptSteps, EndingCalls DEF Interrupt
<1>3. CASE ManageCall
  BY <1>3, ActTsk, QuietCalls, ChgPri, RotRdq DEF ManageCall
<1>4. CASE SyncCall
  BY <1>4, SlpTsk, EndingCalls, QuietCalls, SuspendingCalls DEF SyncCall
<1>5. CASE TermCall
  BY <1>5, TerminatingCalls, EnaTer, QuietCalls, RequestsTermination DEF TermCall
<1>6. CASE CpuCall
  BY <1>6, QuietCalls, DispatchCalls DEF CpuCall
<1>7. CASE ObjectCall
  <2> SUFFICES ASSUME NEW w \in Wobj \ Mutex,
                      \/ \E timed \in BOOLEAN : wobj_wait(w, timed)
                      \/ \E S \in SUBSET Waiters(w), e \in {"ok", "error"} :
                            wobj_release(w, S, e)
               PROVE  IInv'
    BY <1>7 DEF ObjectCall
  <2> QED BY WobjWait, WobjRelease
<1>8. CASE UNCHANGED vars
  <2>1. TypeOK'
    BY <1>8 DEF IInv, TypeOK, vars, stateVars, prioVars, queVars, terVars, waitVars, mtxVars,
                dspVars, cpuVars, bootVars
  <2> QED BY <1>8, <2>1, QuietStep DEF vars, prioVars, cpuVars
<1> QED BY <1>1, <1>2, <1>3, <1>4, <1>5, <1>6, <1>7, <1>8 DEF Next, KernelCall

(* The invariant holds in every state the kernel reaches.                  *)
THEOREM KernelInvariant == Spec => []IInv
<1>1. Init => IInv
  BY InitInvariant
<1>2. IInv /\ [Next]_vars => IInv'
  BY NextInvariant
<1> QED BY <1>1, <1>2, PTL DEF Spec

(* Every field keeps its range, the request counters theirs.               *)
THEOREM TypeCorrect == Spec => []TypeOK
<1>1. IInv => TypeOK
  BY DEF IInv
<1> QED BY <1>1, KernelInvariant, PTL

(* After every service call the ready queues hold the runnable tasks, each *)
(* once and by its current priority, the bitmap marks the queues that are  *)
(* not empty, and p_schedtsk is what a search would find.                  *)
THEOREM SchedulingDataConsistent == Spec => []ReadyQueueConsistent
<1>1. IInv => ReadyQueueConsistent
  BY DEF IInv
<1> QED BY <1>1, KernelInvariant, PTL

(* No service call and no interrupt exit forgets a dispatch.               *)
THEOREM NoDispatchForgotten == Spec => []DispatchDone
<1>1. IInv => DispatchDone
  BY DEF IInv
<1> QED BY <1>1, KernelInvariant, PTL

(* dspflg is the conjunction it stands for, and holds the processor.       *)
THEOREM DispatchFlagCoherent == Spec => []DspflgCoherent
<1>1. IInv => DspflgCoherent
  BY DEF IInv
<1> QED BY <1>1, KernelInvariant, PTL

(* No time event points to a wait that is over.                            *)
THEOREM NoDanglingTimeEvent == Spec => []TimeEventsOwned
<1>1. IInv => TimeEventsOwned
  BY DEF IInv, WaitsOwned
<1> QED BY <1>1, KernelInvariant, PTL

-----------------------------------------------------------------------------
(***************************************************************************)
(* What a task's own fields promise, for any number of tasks, priorities,  *)
(* objects and mutexes: the wait queues are in order, a termination        *)
(* request is never stuck, a dormant task keeps nothing of its former      *)
(* life, and a queued start request is not lost.  The lemmas are about the *)
(* single actions, so that they serve every specification built on them.   *)
(***************************************************************************)

(* Queues with TA_TPRI are in the order of the current priorities.         *)
QueuesOrdered == \A w \in TpriWobj : PriorityOrdered(wait_queue[w], prio)

(* What a wait that is in no queue says of its task's other fields.        *)
WaitsMarked ==
  /\ \A t \in Task : waiton[t] = "DLY" => winfo[t] = "tmevtb"
  /\ \A t \in Task : waiton[t] = "SLP" => wupque[t] = 0

(* A termination request waits only for ena_ter, or for dispatching.       *)
RasterPending ==
  \A t \in Task : raster[t] =>
     /\ tstat[t] = "RUNNABLE"
     /\ enater[t] => t = runtsk /\ ~ rdy.dspflg

(* The fields that task_terminate resets, and the mutexes it unlocks.      *)
DormantReset ==
  \A t \in Task : tstat[t] = "DORMANT" =>
     /\ bprio[t] = ipri[t] /\ prio[t] = ipri[t]
     /\ actque[t] = 0 /\ wupque[t] = 0
     /\ ~ raster[t] /\ enater[t]
     /\ lastmtx[t] = <<>>

SInv == QueuesOrdered /\ WaitsMarked /\ RasterPending /\ DormantReset

(* They hold when the kernel comes up.                                     *)
LEMMA InitState == Init => SInv
<1> SUFFICES ASSUME Init PROVE SInv
  OBVIOUS
<1> USE ConfigAssumption
<1>1. QueuesOrdered /\ WaitsMarked
  BY DEF Init, QueuesOrdered, WaitsMarked, PriorityOrdered
<1>2. RasterPending /\ DormantReset
  BY DEF Init, RasterPending, DormantReset
<1> QED BY <1>1, <1>2 DEF SInv
-----------------------------------------------------------------------------
(* task_terminate, field by field.  Only the task and the heirs of its     *)
(* mutexes are touched, and the heirs were waiting.                        *)
LEMMA TerminateFields ==
  ASSUME IInv, NEW t \in Task, NEW r, task_terminate(t, r)
  PROVE  /\ Heirs(lastmtx[t]) \in SUBSET Task /\ t \notin Heirs(lastmtx[t])
         /\ \A u \in Heirs(lastmtx[t]) : isWaiting(u) /\ (tstat')[u] # "DORMANT"
         /\ (tstat')[t] = IF actque[t] > 0 THEN "RUNNABLE" ELSE "DORMANT"
         /\ (bprio')[t] = ipri[t] /\ (prio')[t] = ipri[t] /\ (wupque')[t] = 0
         /\ (actque')[t] = IF actque[t] > 0 THEN actque[t] - 1 ELSE actque[t]
         /\ (raster')[t] = FALSE /\ (enater')[t] = TRUE
         /\ (waiton')[t] = "NONE" /\ (lastmtx')[t] = <<>>
         /\ \A u \in Task \ {t} :
              /\ (bprio')[u] = bprio[u] /\ (wupque')[u] = wupque[u]
              /\ (actque')[u] = actque[u]
              /\ (raster')[u] = raster[u] /\ (enater')[u] = enater[u]
         /\ \A u \in Heirs(lastmtx[t]) : (waiton')[u] = "NONE"
         /\ \A u \in Task \ (Heirs(lastmtx[t]) \cup {t}) :
              /\ (tstat')[u] = tstat[u] /\ (prio')[u] = prio[u]
              /\ (waiton')[u] = waiton[u] /\ (winfo')[u] = winfo[u]
              /\ (lastmtx')[u] = lastmtx[u]
<1> DEFINE ms == lastmtx[t]
           H  == Heirs(ms)
<1>1. /\ ms \in Seq(Mutex) /\ \A m \in Mutex : Member(ms, m) => loctsk[m] = t
  BY DEF IInv, TypeOK, MutexOwned
<1>2. /\ tstat \in [Task -> TaskState] /\ prio \in [Task -> TaskPrio]
      /\ bprio \in [Task -> TaskPrio] /\ ipri \in [Task -> TaskPrio]
      /\ wupque \in [Task -> 0 .. TMAX_WUPCNT] /\ actque \in [Task -> 0 .. TMAX_ACTCNT]
      /\ raster \in [Task -> BOOLEAN] /\ enater \in [Task -> BOOLEAN]
  BY ConfigAssumption DEF IInv, TypeOK
<1> HIDE DEF ms
<1>3. H \in SUBSET Task /\ t \notin H /\ \A u \in H : isWaiting(u)
  BY <1>1, HeirsOwned
<1>4. /\ bprio' = [bprio EXCEPT ![t] = ipri[t]]
      /\ wupque' = [wupque EXCEPT ![t] = 0]
      /\ raster' = [raster EXCEPT ![t] = FALSE]
      /\ enater' = [enater EXCEPT ![t] = TRUE]
      /\ actque' = [actque EXCEPT ![t] = IF actque[t] > 0 THEN actque[t] - 1 ELSE actque[t]]
      /\ prio' = [InheritedPrio(ms, prio) EXCEPT ![t] = ipri[t]]
      /\ tstat' = [AfterRelease(ms, tstat) EXCEPT
                     ![t] = IF actque[t] > 0 THEN "RUNNABLE" ELSE "DORMANT"]
      /\ waiton' = [u \in Task |-> IF u = t \/ u \in H THEN "NONE" ELSE waiton[u]]
      /\ winfo' = [u \in Task |-> IF u \in H THEN "ok" ELSE winfo[u]]
      /\ lastmtx' = [u \in Task |-> IF u = t THEN <<>>
                                    ELSE IF u \in H THEN <<waiton[u]>> \o lastmtx[u]
                                    ELSE lastmtx[u]]
  BY DEF task_terminate, make_dormant, mutexRelease, ms
<1>5. /\ prio' = [u \in Task |-> IF u = t THEN ipri[t] ELSE
                                 IF u \in H THEN Raised(prio[u], waiton[u]) ELSE prio[u]]
      /\ tstat' = [u \in Task |->
                     IF u = t THEN IF actque[t] > 0 THEN "RUNNABLE" ELSE "DORMANT"
                     ELSE IF u \in H THEN WaitOver(u) ELSE tstat[u]]
  BY <1>4 DEF InheritedPrio, AfterRelease
<1> HIDE DEF H
<1>6. \A u \in H : (tstat')[u] # "DORMANT"
  BY <1>3, <1>5 DEF WaitOver
<1>7. /\ (bprio')[t] = ipri[t] /\ (wupque')[t] = 0
      /\ (actque')[t] = IF actque[t] > 0 THEN actque[t] - 1 ELSE actque[t]
      /\ (raster')[t] = FALSE /\ (enater')[t] = TRUE
      /\ \A u \in Task \ {t} :
              /\ (bprio')[u] = bprio[u] /\ (wupque')[u] = wupque[u]
              /\ (actque')[u] = actque[u]
              /\ (raster')[u] = raster[u] /\ (enater')[u] = enater[u]
  BY <1>2, <1>4
<1>8. /\ (prio')[t] = ipri[t] /\ (waiton')[t] = "NONE" /\ (lastmtx')[t] = <<>>
      /\ (tstat')[t] = IF actque[t] > 0 THEN "RUNNABLE" ELSE "DORMANT"
      /\ \A u \in H : (waiton')[u] = "NONE"
      /\ \A u \in Task \ (H \cup {t}) :
              /\ (tstat')[u] = tstat[u] /\ (prio')[u] = prio[u]
              /\ (waiton')[u] = waiton[u] /\ (winfo')[u] = winfo[u]
              /\ (lastmtx')[u] = lastmtx[u]
  BY <1>3, <1>4, <1>5
<1> QED BY <1>3, <1>6, <1>7, <1>8 DEF H, ms
-----------------------------------------------------------------------------
(* Priority order of the wait queues, queue operation by queue operation.  *)
(* A queue stays in order when the priorities of its tasks stay.           *)
LEMMA OrderedStep ==
  ASSUME (wait_queue \in [Wobj -> Seq(Task)])',
         \A w \in TpriWobj : PriorityOrdered(wait_queue'[w], prio),
         \A w \in TpriWobj, u \in Task : Member(wait_queue'[w], u) => prio'[u] = prio[u]
  PROVE  QueuesOrdered'
<1> SUFFICES ASSUME NEW w \in TpriWobj PROVE PriorityOrdered(wait_queue'[w], prio')
  BY DEF QueuesOrdered
<1> DEFINE q == wait_queue'[w]
           p == prio'
<1>1. q \in Seq(Task) /\ PriorityOrdered(q, prio)
  BY ConfigAssumption
<1>2. \A u : Member(q, u) => p[u] = prio[u]
  BY <1>1 DEF Member
<1> HIDE DEF q, p
<1>3. PriorityOrdered(q, p)
  BY <1>1, <1>2, OrderedOther
<1> QED BY <1>3 DEF q, p

(* wait_dequeue_wobj takes a task out of a queue in order.                 *)
LEMMA DequeuedOrdered ==
  ASSUME IInv, QueuesOrdered, NEW t \in Task
  PROVE  \A w \in TpriWobj : PriorityOrdered(QueuesWithout(t)[w], prio)
<1>1. TpriWobj \subseteq Wobj /\ wait_queue \in [Wobj -> Seq(Task)]
  BY ConfigAssumption DEF IInv, TypeOK
<1> SUFFICES ASSUME NEW w \in TpriWobj PROVE PriorityOrdered(QueuesWithout(t)[w], prio)
  OBVIOUS
<1> DEFINE q == wait_queue[w]
<1>2. q \in Seq(Task) /\ PriorityOrdered(q, prio)
  BY <1>1 DEF QueuesOrdered
<1>3. CASE waiton[t] = w
  <2>1. Member(q, t)
    BY <1>1, <1>3 DEF IInv, WaitsOwned
  <2>2. QueuesWithout(t)[w] = Delete(q, t)
    BY <1>1, <1>3 DEF QueuesWithout
  <2> HIDE DEF q
  <2>3. PriorityOrdered(Delete(q, t), prio)
    BY <1>2, <2>1, DeleteOrdered
  <2> QED BY <2>2, <2>3
<1>4. CASE waiton[t] # w
  <2>1. QueuesWithout(t)[w] = q
    BY <1>1, <1>4 DEF QueuesWithout
  <2> QED BY <1>2, <2>1
<1> QED BY <1>3, <1>4

(* The running task takes its place in the queue.                          *)
LEMMA WaitOrdered ==
  ASSUME IInv, QueuesOrdered, NEW w \in Wobj, NEW timed, wobj_wait(w, timed), IInv'
  PROVE  QueuesOrdered'
<1>1. /\ TpriWobj \subseteq Wobj /\ wait_queue \in [Wobj -> Seq(Task)]
      /\ runtsk \in Task /\ prio \in [Task -> Nat] /\ prio' = prio
  <2>1. prio \in [Task -> Nat]
    <3>1. prio \in [Task -> TaskPrio]
      BY DEF IInv, TypeOK
    <3> QED BY <3>1 DEF TaskPrio
  <2>2. runtsk \in Task /\ prio' = prio
    BY DEF IInv, TypeOK, wobj_wait, checkDispatch, checkContextTaskUnlock, TaskContext,
           prioVars
  <2> QED BY <2>1, <2>2, ConfigAssumption DEF IInv, TypeOK
<1> DEFINE q == wait_queue[w]
           r == IF w \in TpriWobj THEN InsertTpri(q, prio, runtsk) ELSE Append(q, runtsk)
<1>2. wait_queue' = [wait_queue EXCEPT ![w] = r]
  BY DEF wobj_wait, wobj_make_wait, wobj_queue_insert
<1>3. w \in TpriWobj => PriorityOrdered(r, prio)
  <2> SUFFICES ASSUME w \in TpriWobj PROVE PriorityOrdered(InsertTpri(q, prio, runtsk), prio)
    OBVIOUS
  <2>1. q \in Seq(Task) /\ PriorityOrdered(q, prio)
    BY <1>1 DEF QueuesOrdered
  <2> HIDE DEF q
  <2> QED BY <1>1, <2>1, InsertTpriOrdered
<1> HIDE DEF r
<1>4. \A v \in TpriWobj : PriorityOrdered(wait_queue'[v], prio)
  BY <1>1, <1>2, <1>3 DEF QueuesOrdered
<1> QED BY <1>1, <1>4 DEF QueuesOrdered

(* Some tasks leave the queue of w, the others keep their order.           *)
LEMMA ReleaseOrdered ==
  ASSUME IInv, QueuesOrdered, NEW w \in Wobj, NEW S,
         wait_queue' = [wait_queue EXCEPT ![w] = Without(@, S)], prio' = prio
  PROVE  QueuesOrdered'
<1>1. TpriWobj \subseteq Wobj /\ wait_queue \in [Wobj -> Seq(Task)]
  BY ConfigAssumption DEF IInv, TypeOK
<1> DEFINE q == wait_queue[w]
           d == Without(q, S)
<1>2. w \in TpriWobj => PriorityOrdered(d, prio)
  <2> SUFFICES ASSUME w \in TpriWobj PROVE PriorityOrdered(Without(q, S), prio)
    OBVIOUS
  <2>1. q \in Seq(Task) /\ PriorityOrdered(q, prio)
    BY <1>1 DEF QueuesOrdered
  <2> HIDE DEF q
  <2> QED BY <2>1, WithoutOrdered
<1>3. wait_queue' = [wait_queue EXCEPT ![w] = d]
  OBVIOUS
<1> HIDE DEF d
<1> QED BY <1>1, <1>2, <1>3 DEF QueuesOrdered

(* change_priority moves a waiting task to its new place.                  *)
LEMMA ChangeOrdered ==
  ASSUME IInv, QueuesOrdered, NEW t \in Task, NEW newprio \in TaskPrio, NEW mtxmode,
         change_priority(t, newprio, mtxmode)
  PROVE  QueuesOrdered'
<1>1. /\ TpriWobj \subseteq Wobj /\ wait_queue \in [Wobj -> Seq(Task)]
      /\ prio \in [Task -> TaskPrio]
      /\ \A w \in Wobj : NoDuplicate(wait_queue[w])
      /\ \A w \in Wobj, u \in Task : Member(wait_queue[w], u) <=> waiton[u] = w
  BY ConfigAssumption DEF IInv, TypeOK, WaitsOwned
<1>2. /\ prio' \in [Task -> Nat] /\ \A u : u # t => prio'[u] = prio[u]
  BY <1>1 DEF change_priority, TaskPrio
<1> SUFFICES ASSUME NEW w \in TpriWobj PROVE PriorityOrdered(wait_queue'[w], prio')
  BY DEF QueuesOrdered
<1> DEFINE q == wait_queue[w]
           p == prio'
<1>3. q \in Seq(Task) /\ PriorityOrdered(q, prio) /\ NoDuplicate(q)
  BY <1>1 DEF QueuesOrdered
<1>4. CASE waiton[t] = w
  <2> DEFINE d == Delete(q, t)
  <2>1. Member(q, t)
    BY <1>1, <1>4
  <2>2. wait_queue'[w] = InsertTpri(d, p, t)
    BY <1>1, <1>4 DEF change_priority
  <2>3. p \in [Task -> Nat] /\ \A u : u # t => p[u] = prio[u]
    BY <1>2
  <2> HIDE DEF q, p
  <2>4. d \in Seq(Task) /\ PriorityOrdered(d, prio) /\ ~ Member(d, t)
    BY <1>3, <2>1, DeleteProperties, DeleteOrdered
  <2> HIDE DEF d
  <2>5. \A u : Member(d, u) => p[u] = prio[u]
    BY <2>3, <2>4
  <2>6. PriorityOrdered(d, p)
    BY <2>4, <2>5, OrderedOther
  <2>7. PriorityOrdered(InsertTpri(d, p, t), p)
    BY <2>3, <2>4, <2>6, InsertTpriOrdered
  <2> QED BY <2>2, <2>7 DEF p
<1>5. CASE waiton[t] # w
  <2>1. wait_queue'[w] = q
    BY <1>1, <1>5 DEF change_priority
  <2>2. \A u : Member(q, u) => p[u] = prio[u]
    BY <1>1, <1>2, <1>5
  <2> HIDE DEF q, p
  <2>3. PriorityOrdered(q, p)
    BY <1>3, <2>2, OrderedOther
  <2> QED BY <2>1, <2>3 DEF p
<1> QED BY <1>4, <1>5

(* The task leaves its queue, the heirs of its mutexes leave theirs.       *)
LEMMA TerminateOrdered ==
  ASSUME IInv, QueuesOrdered, NEW t \in Task, NEW r, task_terminate(t, r)
  PROVE  QueuesOrdered'
<1> DEFINE ms == lastmtx[t]
           C  == Contended(ms)
           Q  == QueuesWithout(t)
<1>1. /\ ms \in Seq(Mutex) /\ \A m \in Mutex : Member(ms, m) => loctsk[m] = t
      /\ TpriWobj \subseteq Wobj /\ wait_queue \in [Wobj -> Seq(Task)]
  BY ConfigAssumption DEF IInv, TypeOK, MutexOwned
<1>2. wait_queue' = [w \in Wobj |-> IF w \in C THEN Tail(Q[w]) ELSE Q[w]]
  BY DEF task_terminate, mutexRelease
<1>3. \A w \in TpriWobj : PriorityOrdered(Q[w], prio)
  BY DequeuedOrdered
<1>4. (wait_queue \in [Wobj -> Seq(Task)])'
      /\ \A w \in Wobj, u \in Task : Member(wait_queue'[w], u) => u \notin Heirs(ms) \cup {t}
  BY TerminateQueues
<1>5. \A u \in Task \ (Heirs(ms) \cup {t}) : (prio')[u] = prio[u]
  BY TerminateFields, ZenonT(60)
<1> HIDE DEF ms
<1>6. \A w \in C : w \in Wobj /\ wait_queue[w] # <<>> /\ waiton[t] # w
  <2>1. ms \in Seq(Mutex) /\ \A m \in Mutex : Member(ms, m) => loctsk[m] = t
    BY <1>1
  <2>2. \A m \in Contended(ms) : m \in Wobj /\ wait_queue[m] # <<>> /\ waiton[t] # m
    BY <2>1, HeirsOwned
  <2> QED BY <2>2
<1>7. \A w \in C : Q[w] = wait_queue[w]
  BY <1>1, <1>6 DEF QueuesWithout
<1> HIDE DEF C, Q
<1>8. ASSUME NEW w \in TpriWobj PROVE PriorityOrdered(wait_queue'[w], prio)
  <2>1. CASE w \in C
    <3> DEFINE q == wait_queue[w]
    <3>1. q \in Seq(Task) /\ q # <<>> /\ PriorityOrdered(q, prio) /\ wait_queue'[w] = Tail(q)
      BY <1>1, <1>2, <1>3, <1>6, <1>7, <2>1
    <3> HIDE DEF q
    <3>2. PriorityOrdered(Tail(q), prio)
      BY <3>1, TailOrdered
    <3> QED BY <3>1, <3>2
  <2>2. CASE w \notin C
    BY <1>1, <1>2, <1>3, <2>2
  <2> QED BY <2>1, <2>2
<1> QED BY <1>1, <1>4, <1>5, <1>8, OrderedStep
-----------------------------------------------------------------------------
(* The updates of the ready queue do so; taking out the chosen task, which *)
(* would not, does not happen then.                                        *)
LEMMA UpdatesHold ==
  ASSUME NEW r \in ReadyState, NEW p, NEW t, NEW o
  PROVE  /\ Holds(r, make_runnable(r, p, t)) /\ Holds(r, rotate_ready_queue(r, o))
         /\ \A mtxmode : Holds(r, change_ready_priority(r, p, t, o, mtxmode))
         /\ r.dspflg \/ r.p_schedtsk # t => Holds(r, make_non_runnable(r, p, t))
<1>1. Holds(r, make_runnable(r, p, t))
  BY DEF ReadyState, Holds, make_runnable
<1>2. Holds(r, rotate_ready_queue(r, o))
  BY DEF ReadyState, Holds, rotate_ready_queue
<1>3. \A mtxmode : Holds(r, change_ready_priority(r, p, t, o, mtxmode))
  BY DEF ReadyState, Holds, change_ready_priority
<1>4. r.dspflg \/ r.p_schedtsk # t => Holds(r, make_non_runnable(r, p, t))
  BY DEF ReadyState, Holds, make_non_runnable
<1> QED BY <1>1, <1>2, <1>3, <1>4

(* The calls that decide about dspflg itself.                              *)
DspflgCall == dis_dsp \/ ena_dsp \/ ext_tsk \/ \E all \in BOOLEAN : chg_ipm(all)

(* The others.                                                             *)
OtherCall ==
  \/ Boot \/ Interrupt \/ ManageCall \/ SyncCall \/ ObjectCall
  \/ dis_ter \/ ena_ter \/ \E t \in Task : ras_ter(t) \/ ter_tsk(t)
  \/ loc_cpu \/ unl_cpu

(* Every step of the kernel is one of these or one of those.               *)
LEMMA NextCalls == Next => DspflgCall \/ OtherCall
  BY DEF Next, KernelCall, TermCall, CpuCall, DspflgCall, OtherCall

(* The others leave dspflg, and the running task with it when it is clear. *)
LEMMA DispatchHeld ==
  ASSUME IInv, IInv', OtherCall
  PROVE  Holds(rdy, rdy') /\ (~ rdy.dspflg => runtsk' = runtsk)
<1> USE DEF stateVars, prioVars, queVars, terVars, waitVars, mtxVars, dspVars, cpuVars,
            bootVars
<1>1. /\ rdy \in ReadyState
      /\ ~ rdy.dspflg => runtsk = rdy.p_schedtsk
      /\ ~ (rdy.dspflg)' => runtsk' = (rdy.p_schedtsk)'
  BY DEF IInv, TypeOK, DspflgCoherent
<1>2. Holds(rdy, rdy)
  BY DEF Holds
<1>3. ASSUME NEW t \in Task, task_terminate(t, rdy), t # runtsk \/ rdy.dspflg
      PROVE  Holds(rdy, rdy')
  <2>1. Consistent(rdy, Runnable, prio)
    BY ReadyConsistent DEF IInv
  <2>2. /\ (rdy.dspflg)' = rdy.dspflg
        /\ ~ rdy.dspflg /\ rdy.p_schedtsk # t => (rdy.p_schedtsk)' = rdy.p_schedtsk
    BY <1>3, <2>1, TerminateReady
  <2> QED BY <1>1, <1>3, <2>2 DEF Holds
<1>4. Holds(rdy, rdy')
  <2>1. CASE Boot
    BY <1>1, <1>2, <2>1, UpdatesHold DEF Boot, initialize_task, startDispatch, become_runnable
  <2>2. CASE Interrupt
    <3>1. rdy' = rdy \/ \E t \in Task : rdy' = make_runnable(rdy, prio, t)
      BY <2>2 DEF Interrupt, enter_int, leave_int, wait_tmout, make_non_wait
    <3> QED BY <1>1, <1>2, <3>1, UpdatesHold
  <2>3. CASE ManageCall
    <3>1. ASSUME NEW t \in Task, act_tsk(t) PROVE Holds(rdy, rdy')
      BY <1>1, <1>2, <3>1, UpdatesHold, ZenonT(60) DEF act_tsk, become_runnable
    <3>2. ASSUME NEW t \in Task, can_act(t) PROVE Holds(rdy, rdy')
      BY <1>2, <3>2 DEF can_act
    <3>3. ASSUME NEW t \in Task, NEW p \in TaskPrio, chg_pri(t, p) PROVE Holds(rdy, rdy')
      <4>1. rdy' = rdy \/ rdy' = change_ready_priority(rdy, prio, t, p, FALSE)
        BY <3>3 DEF chg_pri, change_priority
      <4> QED BY <1>1, <1>2, <4>1, UpdatesHold
    <3>4. ASSUME NEW p \in TaskPrio, rot_rdq(p) PROVE Holds(rdy, rdy')
      BY <1>1, <3>4, UpdatesHold DEF rot_rdq
    <3> QED BY <2>3, <3>1, <3>2, <3>3, <3>4 DEF ManageCall
  <2>4. CASE SyncCall
    <3>1. ASSUME NEW timed, slp_tsk(timed) PROVE Holds(rdy, rdy')
      BY <1>1, <1>2, <3>1, UpdatesHold DEF slp_tsk, make_wait, checkDispatch
    <3>2. CASE dly_tsk
      BY <1>1, <3>2, UpdatesHold DEF dly_tsk, make_wait, checkDispatch
    <3>3. ASSUME NEW t \in Task, wup_tsk(t) \/ rel_wai(t) PROVE Holds(rdy, rdy')
      BY <1>1, <1>2, <3>3, UpdatesHold DEF wup_tsk, rel_wai, wait_complete, make_non_wait
    <3>4. ASSUME NEW t \in Task, can_wup(t) PROVE Holds(rdy, rdy')
      BY <1>2, <3>4 DEF can_wup
    <3>5. ASSUME NEW t \in Task, sus_tsk(t) \/ rsm_tsk(t) PROVE Holds(rdy, rdy')
      <4>1. \/ rdy' = rdy \/ rdy' = make_runnable(rdy, prio, t)
            \/ rdy' = make_non_runnable(rdy, prio, t) /\ (rdy.dspflg \/ t # runtsk)
        BY <3>5 DEF sus_tsk, rsm_tsk, become_runnable
      <4> QED BY <1>1, <1>2, <4>1, UpdatesHold
    <3> QED BY <2>4, <3>1, <3>2, <3>3, <3>4, <3>5 DEF SyncCall
  <2>5. CASE dis_ter \/ ena_ter \/ \E t \in Task : ras_ter(t) \/ ter_tsk(t)
    <3>1. ASSUME NEW t \in Task, ras_ter(t) PROVE Holds(rdy, rdy')
      <4>1. \/ rdy' = rdy \/ rdy' = make_runnable(rdy, prio, t)
            \/ task_terminate(t, rdy) /\ t # runtsk
        BY <3>1 DEF ras_ter, become_runnable
      <4> QED BY <1>1, <1>2, <1>3, <4>1, UpdatesHold
    <3>2. ASSUME NEW t \in Task, ter_tsk(t) PROVE Holds(rdy, rdy')
      BY <1>3, <3>2 DEF ter_tsk
    <3>3. CASE dis_ter
      BY <1>2, <3>3 DEF dis_ter
    <3>4. CASE ena_ter
      <4>1. runtsk \in Task
        BY <3>4 DEF ena_ter, checkContextTaskUnlock, TaskContext, IInv, TypeOK
      <4> QED BY <1>2, <1>3, <3>4, <4>1 DEF ena_ter
    <3> QED BY <2>5, <3>1, <3>2, <3>3, <3>4
  <2>6. CASE loc_cpu \/ unl_cpu
    BY <1>2, <2>6 DEF loc_cpu, unl_cpu
  <2>7. CASE ObjectCall
    <3>1. ASSUME NEW w \in Wobj, NEW timed, wobj_wait(w, timed) PROVE Holds(rdy, rdy')
      BY <1>1, <3>1, UpdatesHold DEF wobj_wait, wobj_make_wait, make_wait, checkDispatch
    <3>2. ASSUME NEW w \in Wobj, NEW S \in SUBSET Waiters(w), NEW e, wobj_release(w, S, e)
          PROVE  Holds(rdy, rdy')
      <4>1. rdy' = Woken(w, S)
        BY <3>2 DEF wobj_release
      <4> QED BY <4>1, WokenReady DEF Holds
    <3> QED BY <2>7, <3>1, <3>2 DEF ObjectCall
  <2> QED BY <2>1, <2>2, <2>3, <2>4, <2>5, <2>6, <2>7 DEF OtherCall
<1> QED BY <1>1, <1>4 DEF Holds
-----------------------------------------------------------------------------
(* A task terminates: itself, or another one, which leaves the running     *)
(* task where it was.                                                      *)
LEMMA TerminateState ==
  ASSUME IInv, SInv, NEW t \in Task, NEW r, task_terminate(t, r),
         \/ t = runtsk
         \/ Holds(rdy, rdy') /\ (~ rdy.dspflg => runtsk' = runtsk)
  PROVE  SInv'
<1> DEFINE H == Heirs(lastmtx[t])
<1>1. /\ H \in SUBSET Task /\ t \notin H
      /\ \A u \in H : isWaiting(u) /\ (tstat')[u] # "DORMANT"
      /\ (tstat')[t] = IF actque[t] > 0 THEN "RUNNABLE" ELSE "DORMANT"
      /\ (bprio')[t] = ipri[t] /\ (prio')[t] = ipri[t] /\ (wupque')[t] = 0
      /\ (actque')[t] = IF actque[t] > 0 THEN actque[t] - 1 ELSE actque[t]
      /\ (raster')[t] = FALSE /\ (enater')[t] = TRUE
      /\ (waiton')[t] = "NONE" /\ (lastmtx')[t] = <<>>
      /\ \A u \in Task \ {t} :
           /\ (bprio')[u] = bprio[u] /\ (wupque')[u] = wupque[u]
           /\ (actque')[u] = actque[u]
           /\ (raster')[u] = raster[u] /\ (enater')[u] = enater[u]
      /\ \A u \in H : (waiton')[u] = "NONE"
      /\ \A u \in Task \ (H \cup {t}) :
           /\ (tstat')[u] = tstat[u] /\ (prio')[u] = prio[u]
           /\ (waiton')[u] = waiton[u] /\ (winfo')[u] = winfo[u]
           /\ (lastmtx')[u] = lastmtx[u]
  BY TerminateFields
<1> HIDE DEF H
<1>2. QueuesOrdered'
  BY TerminateOrdered DEF SInv
<1>3. WaitsMarked'
  <2> SUFFICES ASSUME NEW u \in Task
               PROVE  /\ (waiton')[u] = "DLY" => (winfo')[u] = "tmevtb"
                      /\ (waiton')[u] = "SLP" => (wupque')[u] = 0
    BY DEF WaitsMarked
  <2>1. CASE u \in H \cup {t}
    BY <1>1, <2>1
  <2>2. CASE u \notin H \cup {t}
    BY <1>1, <2>2 DEF SInv, WaitsMarked
  <2> QED BY <2>1, <2>2
<1>4. RasterPending'
  <2> SUFFICES ASSUME NEW u \in Task, (raster')[u]
               PROVE  /\ (tstat')[u] = "RUNNABLE"
                      /\ (enater')[u] => u = runtsk' /\ ~ (rdy.dspflg)'
    BY DEF RasterPending
  <2>1. u # t /\ raster[u] /\ (enater')[u] = enater[u]
    BY <1>1
  <2>2. tstat[u] = "RUNNABLE" /\ (enater[u] => u = runtsk /\ ~ rdy.dspflg)
    BY <2>1 DEF SInv, RasterPending
  <2>3. u \notin H
    BY <1>1, <2>2 DEF isWaiting
  <2> QED BY <1>1, <2>1, <2>2, <2>3 DEF Holds
<1>5. DormantReset'
  <2> SUFFICES ASSUME NEW u \in Task, (tstat')[u] = "DORMANT"
               PROVE  /\ (bprio')[u] = ipri[u] /\ (prio')[u] = ipri[u]
                      /\ (actque')[u] = 0 /\ (wupque')[u] = 0
                      /\ ~ (raster')[u] /\ (enater')[u]
                      /\ (lastmtx')[u] = <<>>
    BY DEF DormantReset
  <2>1. CASE u = t
    <3>1. actque[t] \in Nat
      <4>1. actque \in [Task -> 0 .. TMAX_ACTCNT]
        BY DEF IInv, TypeOK
      <4> QED BY <4>1 DEF TMAX_ACTCNT
    <3> QED BY <1>1, <2>1, <3>1
  <2>2. CASE u # t
    <3>1. u \notin H
      BY <1>1
    <3> QED BY <1>1, <2>2, <3>1 DEF SInv, DormantReset
  <2> QED BY <2>1, <2>2
<1> QED BY <1>2, <1>3, <1>4, <1>5 DEF SInv

(* A step in which nothing terminates: what may become of each task.       *)
TaskStep(t) ==
  /\ waiton'[t] = "DLY" => winfo'[t] = "tmevtb"
  /\ waiton'[t] = "SLP" => wupque'[t] = 0
  /\ raster'[t] => tstat'[t] = "RUNNABLE"
  /\ tstat'[t] = "DORMANT" =>
       /\ tstat[t] = "DORMANT"
       /\ UNCHANGED <<bprio[t], prio[t], actque[t], wupque[t], raster[t], enater[t],
                      lastmtx[t]>>

(* The steps of the tasks and of the pending termination make one of SInv. *)
LEMMA StateStep ==
  ASSUME SInv, QueuesOrdered', \A t \in Task : TaskStep(t),
         \A t \in Task : raster'[t] /\ enater'[t] => t = runtsk' /\ ~ rdy'.dspflg
  PROVE  SInv'
<1>1. WaitsMarked' /\ RasterPending'
  BY DEF TaskStep, WaitsMarked, RasterPending
<1>2. DormantReset'
  BY DEF TaskStep, SInv, DormantReset
<1> QED BY <1>1, <1>2 DEF SInv

(* The types of the fields, and the states of the running and the waiting. *)
FieldTypes ==
  /\ tstat \in [Task -> TaskState] /\ waiton \in [Task -> WaitCause]
  /\ bprio \in [Task -> TaskPrio] /\ prio \in [Task -> TaskPrio]
  /\ actque \in [Task -> 0 .. TMAX_ACTCNT] /\ wupque \in [Task -> 0 .. TMAX_WUPCNT]
  /\ raster \in [Task -> BOOLEAN] /\ enater \in [Task -> BOOLEAN]
  /\ winfo \in [Task -> WaitInfo]
  /\ runtsk # NoTask => runtsk \in Task /\ tstat[runtsk] = "RUNNABLE"
  /\ \A t \in Task : isWaiting(t) <=> waiton[t] # "NONE"

(* They are part of the kernel's invariant.                                *)
LEMMA TypesOfFields == IInv => FieldTypes
  BY DEF IInv, TypeOK, DispatchDone, WaitsOwned, FieldTypes

(* The calls that terminate nothing and decide nothing about dspflg.       *)
LEMMA ManageState ==
  ASSUME IInv, SInv, IInv',
         \/ initialize_task \/ startDispatch \/ enter_int \/ leave_int
         \/ \E t \in Task : act_tsk(t) \/ can_act(t) \/ \E p \in TaskPrio : chg_pri(t, p)
         \/ \E p \in TaskPrio : rot_rdq(p)
         \/ loc_cpu \/ unl_cpu
  PROVE  SInv'
<1> USE DEF stateVars, prioVars, queVars, terVars, waitVars, mtxVars, dspVars, cpuVars,
            bootVars
<1>1. FieldTypes
  BY TypesOfFields
<1>2. \A t \in Task : TaskStep(t)
  <2> SUFFICES ASSUME NEW t \in Task PROVE TaskStep(t)
    OBVIOUS
  <2>0. /\ waiton[t] = "DLY" => winfo[t] = "tmevtb"
        /\ waiton[t] = "SLP" => wupque[t] = 0
        /\ raster[t] => tstat[t] = "RUNNABLE"
    BY DEF SInv, WaitsMarked, RasterPending
  <2>1. CASE initialize_task
    BY <1>1, <2>0, <2>1 DEF FieldTypes, TaskStep, initialize_task, become_runnable
  <2>2. CASE startDispatch \/ enter_int \/ leave_int \/ loc_cpu \/ unl_cpu
    BY <2>0, <2>2 DEF TaskStep, startDispatch, enter_int, leave_int, loc_cpu, unl_cpu
  <2>3. ASSUME NEW u \in Task, act_tsk(u) PROVE TaskStep(t)
    BY <1>1, <2>0, <2>3 DEF FieldTypes, TaskStep, act_tsk, become_runnable
  <2>4. ASSUME NEW u \in Task, can_act(u) PROVE TaskStep(t)
    <3>1. actque[t] = 0 => actque'[t] = 0
      BY <1>1, <2>4 DEF FieldTypes, can_act
    <3>2. tstat[t] = "DORMANT" => actque[t] = 0
      BY DEF SInv, DormantReset
    <3> QED BY <2>0, <2>4, <3>1, <3>2 DEF TaskStep, can_act
  <2>5. ASSUME NEW u \in Task, NEW p \in TaskPrio, chg_pri(u, p) PROVE TaskStep(t)
    BY <1>1, <2>0, <2>5 DEF FieldTypes, TaskStep, chg_pri, change_priority
  <2>6. ASSUME NEW p \in TaskPrio, rot_rdq(p) PROVE TaskStep(t)
    BY <2>0, <2>6 DEF TaskStep, rot_rdq
  <2> QED BY <2>1, <2>2, <2>3, <2>4, <2>5, <2>6
<1>3. QueuesOrdered'
  <2>1. ASSUME NEW t \in Task, NEW p \in TaskPrio, chg_pri(t, p) PROVE QueuesOrdered'
    <3>1. CASE mutexScanCeilMtx(t)
      BY <2>1, <3>1 DEF SInv, QueuesOrdered, chg_pri
    <3>2. CASE ~ mutexScanCeilMtx(t)
      BY <2>1, <3>2, ChangeOrdered DEF SInv, chg_pri
    <3> QED BY <3>1, <3>2
  <2>2. CASE UNCHANGED <<wait_queue, prio>>
    BY <2>2 DEF SInv, QueuesOrdered
  <2> QED BY <2>1, <2>2 DEF initialize_task, startDispatch, enter_int, leave_int, act_tsk,
             can_act, rot_rdq, loc_cpu, unl_cpu
<1>4. raster' = raster /\ enater' = enater
  BY DEF initialize_task, startDispatch, enter_int, leave_int, act_tsk, can_act, chg_pri,
         rot_rdq, loc_cpu, unl_cpu
<1>5. OtherCall
  BY DEF OtherCall, Boot, Interrupt, ManageCall
<1>6. \A t \in Task : raster'[t] /\ enater'[t] => t = runtsk' /\ ~ rdy'.dspflg
  BY <1>4, <1>5, DispatchHeld DEF SInv, RasterPending, Holds
<1> QED BY <1>2, <1>3, <1>6, StateStep

(* Waiting, waking up, suspending and resuming.                            *)
LEMMA SyncState ==
  ASSUME IInv, SInv, IInv', SyncCall \/ Interrupt
  PROVE  SInv'
<1> USE DEF stateVars, prioVars, queVars, terVars, waitVars, mtxVars, dspVars, cpuVars,
            bootVars
<1>1. FieldTypes
  BY TypesOfFields
<1>2. \A t \in Task : TaskStep(t)
  <2> SUFFICES ASSUME NEW t \in Task PROVE TaskStep(t)
    OBVIOUS
  <2>0. /\ waiton[t] = "DLY" => winfo[t] = "tmevtb"
        /\ waiton[t] = "SLP" => wupque[t] = 0
        /\ raster[t] => tstat[t] = "RUNNABLE"
        /\ tstat[t] = "DORMANT" => waiton[t] = "NONE"
    BY <1>1 DEF SInv, WaitsMarked, RasterPending, FieldTypes, isWaiting
  <2>1. ASSUME NEW timed, slp_tsk(timed) PROVE TaskStep(t)
    <3>1. /\ runtsk \in Task /\ tstat[runtsk] = "RUNNABLE" /\ waiton[runtsk] = "NONE"
          /\ ~ raster[runtsk]
      BY <1>1, <2>1 DEF slp_tsk, checkDispatch, checkContextTaskUnlock, TaskContext,
                        FieldTypes, isWaiting
    <3>2. CASE wupque[runtsk] > 0
      <4>1. /\ wupque' = [wupque EXCEPT ![runtsk] = wupque[runtsk] - 1]
            /\ UNCHANGED <<rdy, runtsk, stateVars, winfo, tmevt, bprio, prio, actque,
                           raster, enater, lastmtx>>
        BY <2>1, <3>2 DEF slp_tsk
      <4>2. t # runtsk => wupque'[t] = wupque[t]
        BY <1>1, <4>1 DEF FieldTypes
      <4> QED BY <2>0, <3>1, <4>1, <4>2 DEF TaskStep
    <3>3. CASE ~ wupque[runtsk] > 0
      <4>1. make_wait("SLP", timed) /\ wupque[runtsk] = 0 /\ wupque' = wupque
            /\ UNCHANGED <<bprio, prio, actque, raster, enater, lastmtx>>
        BY <2>1, <3>3 DEF slp_tsk
      <4> QED BY <1>1, <2>0, <3>1, <4>1 DEF TaskStep, FieldTypes, make_wait
    <3> QED BY <3>2, <3>3
  <2>2. CASE dly_tsk
    <3>1. /\ runtsk \in Task /\ tstat[runtsk] = "RUNNABLE" /\ ~ raster[runtsk]
      BY <1>1, <2>2 DEF dly_tsk, checkDispatch, checkContextTaskUnlock, TaskContext, FieldTypes
    <3> QED BY <1>1, <2>0, <2>2, <3>1 DEF TaskStep, FieldTypes, dly_tsk, make_wait
  <2>3. ASSUME NEW u \in Task, isWaiting(u), make_non_wait(u), NEW e, set_werror(u, e),
               UNCHANGED <<prioVars, queVars, terVars, mtxVars>>
        PROVE  TaskStep(t)
    <3>1. tstat[u] # "RUNNABLE" /\ WaitOver(u) \in {"RUNNABLE", "SUSPENDED"}
      BY <2>3 DEF isWaiting, WaitOver
    <3> QED BY <1>1, <2>0, <2>3, <3>1 DEF TaskStep, FieldTypes, make_non_wait, set_werror
  <2>4. ASSUME NEW u \in Task, wup_tsk(u), waiton[u] = "SLP" PROVE TaskStep(t)
    <3>1. isWaiting(u)
      BY <1>1, <2>4 DEF FieldTypes
    <3> QED BY <2>3, <2>4, <3>1 DEF wup_tsk, wait_complete
  <2>5. ASSUME NEW u \in Task, wup_tsk(u), waiton[u] # "SLP" PROVE TaskStep(t)
    BY <1>1, <2>0, <2>5 DEF TaskStep, FieldTypes, wup_tsk
  <2>6. ASSUME NEW u \in Task, rel_wai(u) PROVE TaskStep(t)
    BY <2>3, <2>6 DEF rel_wai
  <2>7. ASSUME NEW u \in Task, wait_tmout(u) PROVE TaskStep(t)
    <3>1. isWaiting(u)
      BY <2>7 DEF wait_tmout, IInv, WaitsOwned, TimeEventsOwned
    <3> QED BY <2>3, <2>7, <3>1 DEF wait_tmout
  <2>8. ASSUME NEW u \in Task, can_wup(u) PROVE TaskStep(t)
    <3>1. wupque[t] = 0 => wupque'[t] = 0
      BY <1>1, <2>8 DEF FieldTypes, can_wup
    <3>2. tstat[t] = "DORMANT" => wupque[t] = 0
      BY DEF SInv, DormantReset
    <3> QED BY <2>0, <2>8, <3>1, <3>2 DEF TaskStep, can_wup
  <2>9. ASSUME NEW u \in Task, sus_tsk(u) PROVE TaskStep(t)
    BY <1>1, <2>0, <2>9 DEF TaskStep, FieldTypes, sus_tsk
  <2>10. ASSUME NEW u \in Task, rsm_tsk(u) PROVE TaskStep(t)
    BY <1>1, <2>0, <2>10 DEF TaskStep, FieldTypes, rsm_tsk, become_runnable
  <2>11. CASE enter_int \/ leave_int
    BY <2>0, <2>11 DEF TaskStep, enter_int, leave_int
  <2> QED BY <2>1, <2>2, <2>4, <2>5, <2>6, <2>7, <2>8, <2>9, <2>10, <2>11 DEF SyncCall, Interrupt
<1>3. QueuesOrdered'
  <2>1. CASE UNCHANGED <<wait_queue, prio>>
    BY <2>1 DEF SInv, QueuesOrdered
  <2>2. ASSUME NEW t \in Task, wait_queue' = QueuesWithout(t), prio' = prio PROVE QueuesOrdered'
    BY <2>2, DequeuedOrdered DEF SInv, QueuesOrdered
  <2>3. ASSUME NEW t \in Task, rel_wai(t) \/ wait_tmout(t) PROVE QueuesOrdered'
    BY <2>2, <2>3 DEF rel_wai, wait_tmout, wait_dequeue_wobj
  <2>4. ASSUME \/ \E timed \in BOOLEAN : slp_tsk(timed)
               \/ dly_tsk \/ enter_int \/ leave_int
               \/ \E t \in Task : wup_tsk(t) \/ can_wup(t) \/ sus_tsk(t) \/ rsm_tsk(t)
        PROVE  QueuesOrdered'
    BY <2>1, <2>4 DEF slp_tsk, dly_tsk, enter_int, leave_int, wup_tsk, can_wup, sus_tsk, rsm_tsk
  <2> QED BY <2>3, <2>4 DEF SyncCall, Interrupt
<1>4. raster' = raster /\ enater' = enater
  BY DEF SyncCall, Interrupt, slp_tsk, dly_tsk, enter_int, leave_int, wup_tsk, can_wup,
         sus_tsk, rsm_tsk, rel_wai, wait_tmout
<1>5. OtherCall
  BY DEF OtherCall
<1>6. \A t \in Task : raster'[t] /\ enater'[t] => t = runtsk' /\ ~ rdy'.dspflg
  BY <1>4, <1>5, DispatchHeld DEF SInv, RasterPending, Holds
<1> QED BY <1>2, <1>3, <1>6, StateStep

(* Waiting for an object, and the end of such waits.                       *)
LEMMA ObjectState ==
  ASSUME IInv, SInv, IInv', NEW w \in Wobj,
         \/ \E timed \in BOOLEAN : wobj_wait(w, timed)
         \/ \E S \in SUBSET Waiters(w), e \in {"ok", "error"} : wobj_release(w, S, e)
  PROVE  SInv'
<1> USE DEF stateVars, prioVars, queVars, terVars, waitVars, mtxVars, dspVars, cpuVars,
            bootVars
<1>1. FieldTypes
  BY TypesOfFields
<1>2. /\ \A t \in Task : waiton[t] = "DLY" => winfo[t] = "tmevtb"
      /\ \A t \in Task : waiton[t] = "SLP" => wupque[t] = 0
      /\ \A t \in Task : raster[t] => tstat[t] = "RUNNABLE"
      /\ \A t \in Task : raster[t] /\ enater[t] => t = runtsk /\ ~ rdy.dspflg
      /\ w \notin {"NONE", "SLP", "DLY"}
  BY ConfigAssumption DEF SInv, WaitsMarked, RasterPending
<1>3. ASSUME NEW timed \in BOOLEAN, wobj_wait(w, timed) PROVE SInv'
  <2>1. /\ runtsk \in Task /\ tstat[runtsk] = "RUNNABLE" /\ ~ raster[runtsk] /\ rdy.dspflg
        /\ make_wait(w, timed)
        /\ UNCHANGED <<bprio, prio, actque, wupque, raster, enater, lastmtx>>
    BY <1>1, <1>3 DEF wobj_wait, wobj_make_wait, checkDispatch, checkContextTaskUnlock,
                      TaskContext, FieldTypes
  <2>2. \A t \in Task : TaskStep(t)
    BY <1>1, <1>2, <2>1 DEF TaskStep, FieldTypes, make_wait
  <2>3. \A t \in Task : raster'[t] /\ enater'[t] => t = runtsk' /\ ~ rdy'.dspflg
    BY <1>2, <2>1
  <2>4. QueuesOrdered'
    BY <1>3, WaitOrdered DEF SInv
  <2> QED BY <2>2, <2>3, <2>4, StateStep
<1>4. ASSUME NEW S \in SUBSET Waiters(w), NEW e \in {"ok", "error"}, wobj_release(w, S, e)
      PROVE  SInv'
  <2>1. /\ end_waits(S, e) /\ rdy' = Woken(w, S) /\ prio' = prio
        /\ UNCHANGED <<bprio, actque, wupque, raster, enater, lastmtx>>
        /\ wait_queue' = [wait_queue EXCEPT ![w] = Without(@, S)]
        /\ \A t \in S : isWaiting(t)
    BY <1>1, <1>2, <1>4 DEF wobj_release, Waiters, FieldTypes
  <2>2. \A t \in Task : TaskStep(t)
    BY <1>2, <2>1 DEF TaskStep, end_waits, isWaiting, WaitOver
  <2>3. Holds(rdy, rdy')
    BY <2>1, WokenReady DEF Holds
  <2>4. ~ rdy.dspflg => runtsk' = runtsk
    BY <2>3 DEF Holds, IInv, DspflgCoherent
  <2>5. \A t \in Task : raster'[t] /\ enater'[t] => t = runtsk' /\ ~ rdy'.dspflg
    BY <1>2, <2>1, <2>3, <2>4 DEF Holds
  <2>6. QueuesOrdered'
    BY <2>1, ReleaseOrdered DEF SInv
  <2> QED BY <2>2, <2>5, <2>6, StateStep
<1> QED BY <1>3, <1>4

(* Calls that terminate a task, or ask it to terminate.                    *)
LEMMA TermState ==
  ASSUME IInv, SInv, IInv', TermCall
  PROVE  SInv'
<1> USE DEF stateVars, prioVars, queVars, terVars, waitVars, mtxVars, dspVars, cpuVars,
            bootVars
<1>1. FieldTypes
  BY TypesOfFields
<1>2. /\ \A t \in Task : waiton[t] = "DLY" => winfo[t] = "tmevtb"
      /\ \A t \in Task : waiton[t] = "SLP" => wupque[t] = 0
      /\ \A t \in Task : raster[t] => tstat[t] = "RUNNABLE"
      /\ \A t \in Task : raster[t] /\ enater[t] => t = runtsk /\ ~ rdy.dspflg
      /\ \A t \in Task : tstat[t] = "DORMANT" => ~ raster[t] /\ enater[t]
  BY DEF SInv, WaitsMarked, RasterPending, DormantReset
<1>3. TaskContext => runtsk \in Task /\ tstat[runtsk] = "RUNNABLE"
  BY <1>1 DEF TaskContext, FieldTypes
<1>4. ASSUME OtherCall PROVE Holds(rdy, rdy') /\ (~ rdy.dspflg => runtsk' = runtsk)
  BY <1>4, DispatchHeld
<1>5. CASE ext_tsk
  <2>1. PICK r : task_terminate(runtsk, r)
    BY <1>5 DEF ext_tsk
  <2> QED BY <1>3, <1>5, <2>1, TerminateState DEF ext_tsk
<1>6. CASE dis_ter
  <2>1. /\ runtsk \in Task /\ tstat[runtsk] = "RUNNABLE"
        /\ enater' = [enater EXCEPT ![runtsk] = FALSE]
        /\ UNCHANGED <<rdy, runtsk, stateVars, prioVars, queVars, raster, waitVars>>
    BY <1>3, <1>6 DEF dis_ter, checkContextTaskUnlock
  <2>2. \A t \in Task : TaskStep(t)
    BY <1>1, <1>2, <2>1 DEF TaskStep, FieldTypes
  <2>3. QueuesOrdered'
    BY <2>1 DEF SInv, QueuesOrdered
  <2>4. \A t \in Task : raster'[t] /\ enater'[t] => t = runtsk' /\ ~ rdy'.dspflg
    BY <1>1, <1>2, <2>1 DEF FieldTypes
  <2> QED BY <2>2, <2>3, <2>4, StateStep
<1>7. CASE ena_ter
  <2>1. CASE raster[runtsk] /\ rdy.dspflg
    BY <1>3, <1>7, <2>1, TerminateState DEF ena_ter, checkContextTaskUnlock
  <2>2. CASE ~ (raster[runtsk] /\ rdy.dspflg)
    <3>1. /\ runtsk \in Task /\ tstat[runtsk] = "RUNNABLE"
          /\ enater' = [enater EXCEPT ![runtsk] = TRUE]
          /\ UNCHANGED <<rdy, runtsk, stateVars, prioVars, queVars, raster, waitVars>>
      BY <1>3, <1>7, <2>2 DEF ena_ter, checkContextTaskUnlock
    <3>2. \A t \in Task : TaskStep(t)
      BY <1>1, <1>2, <3>1 DEF TaskStep, FieldTypes
    <3>3. QueuesOrdered'
      BY <3>1 DEF SInv, QueuesOrdered
    <3>4. \A t \in Task : raster'[t] /\ enater'[t] => t = runtsk' /\ ~ rdy'.dspflg
      BY <1>1, <1>2, <2>2, <3>1 DEF FieldTypes
    <3> QED BY <3>2, <3>3, <3>4, StateStep
  <2> QED BY <2>1, <2>2
<1>8. ASSUME NEW t \in Task, ter_tsk(t) PROVE SInv'
  <2>1. OtherCall
    BY <1>8 DEF OtherCall
  <2>2. task_terminate(t, rdy)
    BY <1>8 DEF ter_tsk
  <2> QED BY <1>4, <2>1, <2>2, TerminateState
<1>9. ASSUME NEW t \in Task, ras_ter(t) PROVE SInv'
  <2>1. Holds(rdy, rdy') /\ (~ rdy.dspflg => runtsk' = runtsk)
    <3>1. OtherCall
      BY <1>9 DEF OtherCall
    <3> QED BY <1>4, <3>1
  <2>2. CASE enater[t]
    BY <1>9, <2>1, <2>2, TerminateState DEF ras_ter
  <2>3. CASE ~ enater[t]
    <3>1. /\ tstat[t] # "DORMANT" /\ raster' = [raster EXCEPT ![t] = TRUE]
          /\ waiton' = [waiton EXCEPT ![t] = "NONE"]
          /\ UNCHANGED <<bprio, prio, actque, wupque, enater, lastmtx>>
      BY <1>9, <2>3 DEF ras_ter
    <3>2. \/ tstat[t] = "RUNNABLE" /\ tstat' = tstat /\ winfo' = winfo /\ wait_queue' = wait_queue
          \/ /\ tstat' = [tstat EXCEPT ![t] = "RUNNABLE"]
             /\ winfo' = winfo \/ winfo' = [winfo EXCEPT ![t] = "error"]
             /\ wait_queue' = wait_queue \/ wait_queue' = QueuesWithout(t)
      BY <1>9, <2>3 DEF ras_ter, become_runnable, set_werror, wait_dequeue_wobj
    <3>3. \A u \in Task : TaskStep(u)
      <4> SUFFICES ASSUME NEW u \in Task PROVE TaskStep(u)
        OBVIOUS
      <4>1. /\ raster'[u] = IF u = t THEN TRUE ELSE raster[u]
            /\ waiton'[u] = IF u = t THEN "NONE" ELSE waiton[u]
        BY <1>1, <3>1 DEF FieldTypes
      <4>2. /\ tstat'[u] = IF u = t THEN "RUNNABLE" ELSE tstat[u]
            /\ u = t \/ winfo'[u] = winfo[u]
        BY <1>1, <3>2 DEF FieldTypes
      <4>3. UNCHANGED <<bprio[u], prio[u], actque[u], wupque[u], enater[u], lastmtx[u]>>
        BY <3>1
      <4>4. /\ waiton[u] = "DLY" => winfo[u] = "tmevtb"
            /\ waiton[u] = "SLP" => wupque[u] = 0
            /\ raster[u] => tstat[u] = "RUNNABLE"
        BY <1>2
      <4> QED BY ONLY <4>1, <4>2, <4>3, <4>4 DEF TaskStep
    <3>4. QueuesOrdered'
      BY <3>1, <3>2, DequeuedOrdered DEF SInv, QueuesOrdered
    <3>5. \A u \in Task : raster'[u] /\ enater'[u] => u = runtsk' /\ ~ rdy'.dspflg
      BY <1>1, <1>2, <2>1, <2>3, <3>1 DEF Holds, FieldTypes
    <3> QED BY <3>3, <3>4, <3>5, StateStep
  <2> QED BY <2>2, <2>3
<1> QED BY <1>5, <1>6, <1>7, <1>8, <1>9 DEF TermCall

(* Disabling and enabling dispatching; a termination request that arrived  *)
(* in between is acted upon before the task can do anything else.          *)
LEMMA DspflgState ==
  ASSUME IInv, SInv, IInv', dis_dsp \/ ena_dsp \/ \E all \in BOOLEAN : chg_ipm(all)
  PROVE  SInv'
<1> USE DEF stateVars, prioVars, queVars, terVars, waitVars, mtxVars, dspVars, cpuVars,
            bootVars
<1>1. FieldTypes
  BY TypesOfFields
<1>2. /\ \A t \in Task : waiton[t] = "DLY" => winfo[t] = "tmevtb"
      /\ \A t \in Task : waiton[t] = "SLP" => wupque[t] = 0
      /\ \A t \in Task : raster[t] => tstat[t] = "RUNNABLE"
      /\ \A t \in Task : raster[t] /\ enater[t] => t = runtsk /\ ~ rdy.dspflg
      /\ rdy \in ReadyState
  BY DEF SInv, WaitsMarked, RasterPending, IInv, TypeOK
<1>3. checkContextTaskUnlock => runtsk \in Task
  BY <1>1 DEF checkContextTaskUnlock, TaskContext, FieldTypes
<1>4. ASSUME UNCHANGED <<stateVars, prioVars, queVars, terVars, waitVars>>,
             \A t \in Task : raster[t] /\ enater[t] => t = runtsk' /\ ~ rdy'.dspflg
      PROVE  SInv'
  <2>1. \A t \in Task : TaskStep(t)
    BY <1>2, <1>4 DEF TaskStep
  <2>2. QueuesOrdered'
    BY <1>4 DEF SInv, QueuesOrdered
  <2> QED BY <1>4, <2>1, <2>2, StateStep
<1>5. CASE dis_dsp
  BY <1>2, <1>4, <1>5 DEF dis_dsp, ReadyState
<1>6. CASE resume_dispatch /\ runtsk \in Task
  <2>1. CASE raster[runtsk] /\ enater[runtsk]
    BY <1>6, <2>1, TerminateState DEF resume_dispatch
  <2>2. CASE ~ (raster[runtsk] /\ enater[runtsk])
    BY <1>2, <1>4, <1>6, <2>2 DEF resume_dispatch
  <2> QED BY <2>1, <2>2
<1>7. CASE ena_dsp
  BY <1>2, <1>3, <1>4, <1>6, <1>7 DEF ena_dsp
<1>8. ASSUME NEW all \in BOOLEAN, chg_ipm(all) PROVE SInv'
  <2>1. CASE all /\ enadsp
    BY <1>3, <1>6, <1>8, <2>1 DEF chg_ipm
  <2>2. CASE ~ (all /\ enadsp)
    BY <1>2, <1>4, <1>8, <2>2 DEF chg_ipm, ReadyState
  <2> QED BY <2>1, <2>2
<1> QED BY <1>5, <1>7, <1>8

(* Every step.                                                             *)
LEMMA KernelState ==
  ASSUME IInv, SInv, IInv', KernelCall
  PROVE  SInv'
<1>1. CASE SyncCall \/ Interrupt
  BY <1>1, SyncState
<1>2. CASE TermCall
  BY <1>2, TermState
<1>3. CASE dis_dsp \/ ena_dsp \/ \E all \in BOOLEAN : chg_ipm(all)
  BY <1>3, DspflgState
<1>4. CASE Boot \/ ManageCall \/ loc_cpu \/ unl_cpu
  BY <1>4, ManageState DEF Boot, ManageCall
<1> QED BY <1>1, <1>2, <1>3, <1>4 DEF KernelCall, CpuCall

(* Every step keeps the invariant of the task fields.                      *)
LEMMA NextState == IInv /\ SInv /\ IInv' /\ [Next]_vars => SInv'
<1> SUFFICES ASSUME IInv, SInv, IInv', [Next]_vars PROVE SInv'
  OBVIOUS
<1>1. CASE KernelCall
  BY <1>1, KernelState
<1>2. CASE ObjectCall
  BY <1>2, ObjectState DEF ObjectCall
<1>3. CASE UNCHANGED vars
  BY <1>3 DEF SInv, QueuesOrdered, WaitsMarked, RasterPending, DormantReset, vars,
              stateVars, prioVars, queVars, terVars, waitVars, mtxVars
<1> QED BY <1>1, <1>2, <1>3 DEF Next

(* The invariant of the task fields, on top of the kernel's.               *)
THEOREM StateInvariant == Spec => [](IInv /\ SInv)
<1>1. Init => IInv /\ SInv
  BY InitInvariant, InitState
<1>2. IInv /\ SInv /\ [Next]_vars => IInv' /\ SInv'
  BY NextInvariant, NextState
<1> QED BY <1>1, <1>2, PTL DEF Spec
-----------------------------------------------------------------------------
(* The two invariants say together what WaitQueuesMatch says.              *)
LEMMA QueuesMatchWaits == IInv /\ SInv => WaitQueuesMatch
  BY DEF IInv, WaitsOwned, SInv, QueuesOrdered, WaitsMarked, WaitQueuesMatch

(* Every task is in the queue of the object it waits for, once and in no   *)
(* other, and the queues with TA_TPRI are in priority order.               *)
THEOREM WaitQueuesCorrect == Spec => []WaitQueuesMatch
  BY StateInvariant, QueuesMatchWaits, PTL

(* They also say what TerminationPending says; a dormant task does not     *)
(* wait, and so is in no queue and has no time event.                      *)
LEMMA RequestsPending == IInv /\ SInv => TerminationPending
<1> SUFFICES ASSUME IInv, SInv PROVE DormantIsInitial
  BY DEF SInv, RasterPending, TerminationPending
<1> SUFFICES ASSUME NEW t \in Task, tstat[t] = "DORMANT"
             PROVE  t \notin tmevt /\ \A w \in Wobj : ~ Member(wait_queue[w], t)
  BY DEF SInv, DormantReset, DormantIsInitial
<1>1. ~ isWaiting(t)
  BY DEF isWaiting
<1> QED BY <1>1, ConfigAssumption DEF IInv, WaitsOwned, TimeEventsOwned

(* A termination request is never stuck behind a wait, a suspension or an  *)
(* enabled termination, and a dormant task is in its initial state.        *)
THEOREM TerminationCorrect == Spec => []TerminationPending
  BY StateInvariant, RequestsPending, PTL
-----------------------------------------------------------------------------
(* A start request is taken off the queue with the task restarted.         *)
Restarted(t) ==
  /\ tstat'[t] = "RUNNABLE" /\ prio'[t] = ipri[t]
  /\ wupque'[t] = 0 /\ ~ raster'[t] /\ enater'[t]
  /\ t \notin tmevt'

RequestUsed(t) == actque'[t] < actque[t] => can_act(t) \/ Restarted(t)

(* Terminating a task, the caller or another one, uses up its own requests *)
(* only, and then starts it again.                                         *)
LEMMA TerminateRestarts ==
  ASSUME IInv, IInv', NEW t \in Task, NEW r, task_terminate(t, r), NEW u \in Task
  PROVE  RequestUsed(u)
<1>1. actque \in [Task -> Nat]
  <2>1. actque \in [Task -> 0 .. TMAX_ACTCNT]
    BY DEF IInv, TypeOK
  <2> QED BY <2>1 DEF TMAX_ACTCNT
<1>2. u # t => ~ actque'[u] < actque[u]
  <2>1. u # t => (actque')[u] = actque[u]
    BY TerminateFields, ZenonT(60)
  <2> QED BY <1>1, <2>1
<1>3. ASSUME u = t, actque'[t] < actque[t] PROVE Restarted(t)
  <2>1. actque[t] > 0
    <3>1. ~ actque[t] > 0 => (actque')[t] = actque[t]
      BY TerminateFields
    <3> QED BY <1>1, <1>3, <3>1
  <2>2. /\ (tstat')[t] = "RUNNABLE" /\ (prio')[t] = ipri[t] /\ (wupque')[t] = 0
        /\ ~ (raster')[t] /\ (enater')[t]
    BY <2>1, TerminateFields
  <2>3. t \notin tmevt'
    BY <2>2 DEF IInv, WaitsOwned, TimeEventsOwned, isWaiting
  <2> QED BY <2>2, <2>3 DEF Restarted
<1> QED BY <1>2, <1>3 DEF RequestUsed

(* No other call uses one up.                                              *)
LEMMA NextUses ==
  ASSUME IInv, IInv', [Next]_vars, NEW u \in Task
  PROVE  RequestUsed(u)
<1> USE DEF stateVars, prioVars, queVars, terVars, waitVars, mtxVars, dspVars, cpuVars,
            bootVars
<1>1. actque \in [Task -> Nat]
  <2>1. actque \in [Task -> 0 .. TMAX_ACTCNT]
    BY DEF IInv, TypeOK
  <2> QED BY <2>1 DEF TMAX_ACTCNT
<1>2. (\A t \in Task : actque'[t] = actque[t]) => RequestUsed(u)
  BY <1>1 DEF RequestUsed
<1>3. TaskContext => runtsk \in Task
  BY DEF IInv, TypeOK, TaskContext
<1>4. CASE UNCHANGED vars
  BY <1>2, <1>4 DEF vars
<1>5. CASE Boot \/ Interrupt
  <2>1. actque' = actque
    BY <1>5 DEF Boot, Interrupt, initialize_task, startDispatch, enter_int, leave_int,
                wait_tmout
  <2> QED BY <1>2, <2>1
<1>6. CASE ManageCall
  <2>1. ASSUME NEW t \in Task, act_tsk(t) PROVE RequestUsed(u)
    BY <1>1, <2>1 DEF act_tsk, RequestUsed
  <2>2. ASSUME NEW t \in Task, can_act(t) PROVE RequestUsed(u)
    <3>1. u # t => actque'[u] = actque[u]
      BY <1>1, <2>2 DEF can_act
    <3> QED BY <1>1, <2>2, <3>1 DEF RequestUsed
  <2>3. CASE \/ \E t \in Task, p \in TaskPrio : chg_pri(t, p)
             \/ \E p \in TaskPrio : rot_rdq(p)
    <3>1. actque' = actque
      BY <2>3 DEF chg_pri, rot_rdq
    <3> QED BY <1>2, <3>1
  <2> QED BY <1>6, <2>1, <2>2, <2>3 DEF ManageCall
<1>7. CASE SyncCall \/ ObjectCall
  <2>1. actque' = actque
    BY <1>7 DEF SyncCall, ObjectCall, slp_tsk, dly_tsk, wup_tsk, can_wup, rel_wai, sus_tsk,
                rsm_tsk, wobj_wait, wobj_release
  <2> QED BY <1>2, <2>1
<1>8. ASSUME NEW t \in Task, NEW r, task_terminate(t, r) PROVE RequestUsed(u)
  BY <1>8, TerminateRestarts
<1>9. CASE TermCall
  <2>1. CASE ext_tsk
    <3>1. PICK r : task_terminate(runtsk, r)
      BY <2>1 DEF ext_tsk
    <3> QED BY <1>3, <1>8, <2>1, <3>1 DEF ext_tsk
  <2>2. CASE dis_ter
    BY <1>2, <2>2 DEF dis_ter
  <2>3. CASE ena_ter
    <3>1. task_terminate(runtsk, rdy) \/ actque' = actque
      BY <2>3 DEF ena_ter
    <3> QED BY <1>2, <1>3, <1>8, <2>3, <3>1 DEF ena_ter, checkContextTaskUnlock
  <2>4. ASSUME NEW t \in Task, ras_ter(t) \/ ter_tsk(t) PROVE RequestUsed(u)
    <3>1. task_terminate(t, rdy) \/ actque' = actque
      BY <2>4 DEF ras_ter, ter_tsk
    <3> QED BY <1>2, <1>8, <3>1
  <2> QED BY <1>9, <2>1, <2>2, <2>3, <2>4 DEF TermCall
<1>10. CASE CpuCall
  <2>1. actque' = actque \/ (checkContextTaskUnlock /\ resume_dispatch)
    BY <1>10 DEF CpuCall, loc_cpu, unl_cpu, dis_dsp, ena_dsp, chg_ipm
  <2>2. resume_dispatch => actque' = actque \/ task_terminate(runtsk, set_dspflg(rdy))
    BY DEF resume_dispatch
  <2> QED BY <1>2, <1>3, <1>8, <2>1, <2>2 DEF checkContextTaskUnlock
<1> QED BY <1>4, <1>5, <1>6, <1>7, <1>9, <1>10 DEF Next, KernelCall

(* A queued start request is used up only by can_act or by starting the    *)
(* task again in its initial state.                                        *)
THEOREM StartRequests == Spec => StartRequestKept
<1>1. IInv /\ IInv' /\ [Next]_vars => \A t \in Task : RequestUsed(t)
  BY NextUses
<1>2. (\A t \in Task : RequestUsed(t)) =>
        [\A t \in Task : actque'[t] < actque[t] =>
           \/ can_act(t)
           \/ /\ tstat'[t] = "RUNNABLE" /\ prio'[t] = ipri[t]
              /\ wupque'[t] = 0 /\ ~ raster'[t] /\ enater'[t]
              /\ t \notin tmevt']_vars
  BY Zenon DEF RequestUsed, Restarted
<1>3. Spec => []IInv
  BY KernelInvariant
<1> QED BY <1>1, <1>2, <1>3, PTL DEF Spec, StartRequestKept
-----------------------------------------------------------------------------
(* While a task waits its result is not there yet.  The result is stored   *)
(* over the pointer to the time event, so one that is left from an earlier *)
(* wait could be taken for the end of this one.                            *)
ResultPending == \A t \in Task : waiton[t] # "NONE" => winfo[t] # "ok"

(* What the kernel's own calls do to a wait: they leave it alone, begin    *)
(* one that is for no object, or end it; without an error only one that is *)
(* for a mutex or for no object.                                           *)
WaitStep(t) ==
  \/ waiton'[t] = waiton[t] /\ winfo'[t] = winfo[t]
  \/ waiton'[t] \in {"SLP", "DLY"} /\ winfo'[t] # "ok"
  \/ /\ waiton'[t] = "NONE"
     /\ winfo'[t] = "ok" => winfo[t] = "ok" \/ waiton[t] \notin Wobj \ Mutex

(* Termination ends the wait of the task, and of the heirs of its mutexes. *)
LEMMA TerminateWaits ==
  ASSUME IInv, NEW t \in Task, NEW r, task_terminate(t, r), NEW u \in Task
  PROVE  WaitStep(u)
<1> DEFINE ms == lastmtx[t]
<1>1. /\ (waiton')[t] = "NONE" /\ t \notin Heirs(ms)
      /\ \A v \in Heirs(ms) : (waiton')[v] = "NONE"
      /\ \A v \in Task \ (Heirs(ms) \cup {t}) :
            (waiton')[v] = waiton[v] /\ (winfo')[v] = winfo[v]
  BY TerminateFields, ZenonT(60)
<1>2. /\ ms \in Seq(Mutex) /\ \A m \in Mutex : Member(ms, m) => loctsk[m] = t
  BY DEF IInv, TypeOK, MutexOwned
<1>3. winfo' = [v \in Task |-> IF v \in Heirs(ms) THEN "ok" ELSE winfo[v]]
  BY DEF task_terminate, mutexRelease
<1> HIDE DEF ms
<1>4. \A v \in Heirs(ms) : waiton[v] \in Contended(ms)
  BY <1>2, HeirsOwned
<1>5. \A v \in Heirs(ms) : waiton[v] \in Mutex
  BY <1>4 DEF Contended
<1>6. (winfo')[t] = winfo[t]
  BY <1>1, <1>3
<1>7. CASE u \in Heirs(ms) \/ u = t
  <2>1. (waiton')[u] = "NONE"
    BY <1>1, <1>7
  <2>2. (winfo')[u] = "ok" => winfo[u] = "ok" \/ waiton[u] \notin Wobj \ Mutex
    BY <1>5, <1>6, <1>7
  <2> QED BY <2>1, <2>2 DEF WaitStep
<1>8. CASE u \notin Heirs(ms) /\ u # t
  BY <1>1, <1>8 DEF WaitStep
<1> QED BY <1>7, <1>8

(* None of the kernel's own calls begins a wait for an object, or serves   *)
(* a task that waits for one other than a mutex.                           *)
LEMMA KernelWaits ==
  ASSUME IInv, KernelCall, NEW u \in Task
  PROVE  WaitStep(u)
<1> USE DEF stateVars, waitVars
<1>1. /\ waiton \in [Task -> WaitCause] /\ winfo \in [Task -> WaitInfo]
      /\ runtsk \in Task \cup {NoTask}
      /\ Wobj \cap {"NONE", "SLP", "DLY"} = {}
      /\ \A t \in Task : isWaiting(t) <=> waiton[t] # "NONE"
  BY ConfigAssumption DEF IInv, TypeOK, WaitsOwned
<1>2. CASE UNCHANGED <<waiton, winfo>>
  BY <1>2 DEF WaitStep
<1>3. CASE Boot \/ enter_int \/ leave_int
  BY <1>2, <1>3 DEF Boot, initialize_task, startDispatch, enter_int, leave_int
<1>4. ASSUME NEW t \in Task, wait_tmout(t) PROVE WaitStep(u)
  <2>1. /\ waiton' = [waiton EXCEPT ![t] = "NONE"]
        /\ winfo' = [winfo EXCEPT ![t] = IF waiton[t] = "DLY" THEN "ok" ELSE "error"]
    BY <1>4 DEF wait_tmout, set_werror, make_non_wait
  <2> QED BY <1>1, <2>1 DEF WaitStep
<1>5. CASE ManageCall
  <2>1. UNCHANGED <<waiton, winfo>>
    BY <1>5 DEF ManageCall, act_tsk, can_act, chg_pri, rot_rdq
  <2> QED BY <1>2, <2>1
<1>6. CASE SyncCall
  <2>1. CASE (\E timed \in BOOLEAN : slp_tsk(timed)) \/ dly_tsk
    <3>1. \/ UNCHANGED <<waiton, winfo>>
          \/ \E timed \in BOOLEAN : make_wait("SLP", timed) \/ make_wait("DLY", timed)
      BY <2>1 DEF slp_tsk, dly_tsk
    <3>2. ASSUME NEW timed \in BOOLEAN, NEW c \in {"SLP", "DLY"}, make_wait(c, timed)
          PROVE  WaitStep(u)
      <4>1. /\ waiton' = [waiton EXCEPT ![runtsk] = c]
            /\ winfo' = [winfo EXCEPT ![runtsk] = IF timed THEN "tmevtb" ELSE "null"]
        BY <3>2 DEF make_wait
      <4> QED BY <1>1, <4>1 DEF WaitStep
    <3> QED BY <1>2, <3>1, <3>2
  <2>2. ASSUME NEW t \in Task, wup_tsk(t) PROVE WaitStep(u)
    <3>1. \/ UNCHANGED <<waiton, winfo>>
          \/ /\ waiton[t] = "SLP" /\ waiton' = [waiton EXCEPT ![t] = "NONE"]
             /\ winfo' = [winfo EXCEPT ![t] = "ok"]
      BY <2>2 DEF wup_tsk, wait_complete, set_werror, make_non_wait
    <3> QED BY <1>1, <1>2, <3>1 DEF WaitStep
  <2>3. ASSUME NEW t \in Task, rel_wai(t) PROVE WaitStep(u)
    <3>1. /\ waiton' = [waiton EXCEPT ![t] = "NONE"]
          /\ winfo' = [winfo EXCEPT ![t] = "error"]
      BY <2>3 DEF rel_wai, set_werror, make_non_wait
    <3> QED BY <1>1, <3>1 DEF WaitStep
  <2>4. ASSUME NEW t \in Task, can_wup(t) \/ sus_tsk(t) \/ rsm_tsk(t)
        PROVE  UNCHANGED <<waiton, winfo>>
    BY <2>4 DEF can_wup, sus_tsk, rsm_tsk
  <2> QED BY <1>2, <1>6, <2>1, <2>2, <2>3, <2>4 DEF SyncCall
<1>7. ASSUME TaskContext, \E r : task_terminate(runtsk, r) PROVE WaitStep(u)
  <2>1. runtsk \in Task
    BY <1>1, <1>7 DEF TaskContext
  <2>2. PICK r : task_terminate(runtsk, r)
    BY <1>7
  <2> QED BY <2>1, <2>2, TerminateWaits
<1>8. CASE TermCall
  <2>1. CASE ext_tsk
    BY <1>7, <2>1 DEF ext_tsk
  <2>2. CASE dis_ter
    BY <1>2, <2>2 DEF dis_ter
  <2>3. CASE ena_ter
    BY <1>2, <1>7, <2>3 DEF ena_ter, checkContextTaskUnlock
  <2>4. ASSUME NEW t \in Task, ter_tsk(t) PROVE WaitStep(u)
    BY <2>4, TerminateWaits DEF ter_tsk
  <2>5. ASSUME NEW t \in Task, ras_ter(t) PROVE WaitStep(u)
    <3>1. CASE enater[t]
      BY <2>5, <3>1, TerminateWaits DEF ras_ter
    <3>2. CASE ~ enater[t]
      <4>1. /\ waiton' = [waiton EXCEPT ![t] = "NONE"]
            /\ IF isWaiting(t) THEN winfo' = [winfo EXCEPT ![t] = "error"]
                               ELSE winfo' = winfo
        BY <2>5, <3>2 DEF ras_ter, set_werror, isWaiting
      <4> QED BY <1>1, <4>1 DEF WaitStep
    <3> QED BY <3>1, <3>2
  <2> QED BY <1>8, <2>1, <2>2, <2>3, <2>4, <2>5 DEF TermCall
<1>9. CASE CpuCall
  <2>1. CASE loc_cpu \/ unl_cpu \/ dis_dsp
    BY <1>2, <2>1 DEF loc_cpu, unl_cpu, dis_dsp
  <2>2. ASSUME TaskContext, resume_dispatch PROVE WaitStep(u)
    BY <1>2, <1>7, <2>2 DEF resume_dispatch
  <2>3. CASE ena_dsp
    BY <1>2, <2>2, <2>3 DEF ena_dsp, checkContextTaskUnlock
  <2>4. CASE \E all \in BOOLEAN : chg_ipm(all)
    BY <1>2, <2>2, <2>4 DEF chg_ipm, checkContextTaskUnlock
  <2> QED BY <1>9, <2>1, <2>3, <2>4 DEF CpuCall
<1> QED BY <1>3, <1>4, <1>5, <1>6, <1>8, <1>9 DEF KernelCall, Interrupt
-----------------------------------------------------------------------------
(* What the calls of the objects do to the queue of w, each under its own  *)
(* conditions: the caller waits in it, its first task is served, or all    *)
(* its tasks are sent away.                                                *)
QueueWait(w)  == \E timed \in BOOLEAN : wobj_wait(w, timed)
QueueServe(w) == wait_queue[w] # <<>> /\ wobj_release_first(w)
QueueClear(w) == wobj_release(w, Waiters(w), "error")

QueueCall(w) == QueueWait(w) \/ QueueServe(w) \/ QueueClear(w)

NobodyJoins(w)  == \A u \in Task : waiton'[u] = w => waiton[u] = w
NobodyServed(w) == \A u \in Task : ~ Served(w, u)

(* A queue that nobody joins stays empty.                                  *)
LEMMA EmptyStays ==
  ASSUME IInv, IInv', NEW w \in Wobj, NobodyJoins(w), wait_queue[w] = <<>>
  PROVE  wait_queue'[w] = <<>>
<1>1. \A u \in Task : waiton[u] # w
  <2>1. wait_queue[w] \in Seq(Task)
    BY DEF IInv, TypeOK
  <2>2. \A u \in Task : ~ Member(wait_queue[w], u)
    BY <2>1, EmptyQueue
  <2> QED BY <2>2 DEF IInv, WaitsOwned
<1>2. \A u \in Task : waiton'[u] # w
  BY <1>1 DEF NobodyJoins
<1>3. wait_queue'[w] \in Seq(Task)
  BY DEF IInv, TypeOK
<1>4. \A u \in Task : ~ Member(wait_queue'[w], u)
  BY <1>2 DEF IInv, WaitsOwned
<1> QED BY <1>3, <1>4, EmptyQueue

(* The first task of a queue waits for the queue's object.                 *)
LEMMA HeadWaits ==
  ASSUME IInv, NEW w \in Wobj, wait_queue[w] # <<>>
  PROVE  /\ Head(wait_queue[w]) \in Waiters(w)
         /\ Head(wait_queue[w]) = wait_queue[w][1] /\ 1 \in DOMAIN wait_queue[w]
<1>1. wait_queue[w] \in Seq(Task)
  BY DEF IInv, TypeOK
<1>2. /\ Head(wait_queue[w]) = wait_queue[w][1] /\ wait_queue[w][1] \in Task
      /\ 1 \in 1 .. Len(wait_queue[w]) /\ DOMAIN wait_queue[w] = 1 .. Len(wait_queue[w])
  BY <1>1
<1>3. Member(wait_queue[w], wait_queue[w][1])
  BY <1>2 DEF Member
<1> QED BY <1>2, <1>3 DEF IInv, WaitsOwned, Waiters

(* The kernel's own calls serve nobody who waits for an object, and send   *)
(* nobody to wait for one.                                                 *)
LEMMA KernelQueues ==
  ASSUME IInv, ResultPending, KernelCall \/ UNCHANGED vars
  PROVE  /\ ResultPending'
         /\ \A w \in Wobj \ Mutex : NobodyJoins(w) /\ NobodyServed(w)
<1>1. \A u \in Task : WaitStep(u)
  <2>1. UNCHANGED vars => \A u \in Task : WaitStep(u)
    BY DEF vars, stateVars, waitVars, WaitStep
  <2> QED BY <2>1, KernelWaits
<1>2. /\ \A u \in Task : waiton[u] # "NONE" => winfo[u] # "ok"
      /\ "NONE" \notin Wobj /\ "SLP" \notin Wobj /\ "DLY" \notin Wobj
  BY ConfigAssumption DEF ResultPending
<1>3. ResultPending'
  BY <1>1, <1>2 DEF WaitStep, ResultPending
<1>4. ASSUME NEW w \in Wobj \ Mutex PROVE NobodyJoins(w) /\ NobodyServed(w)
  BY <1>1, <1>2 DEF WaitStep, NobodyJoins, NobodyServed, Served
<1> QED BY <1>3, <1>4

(* Who waits for an object serves nobody by it.                            *)
LEMMA WaitCalls ==
  ASSUME IInv, ResultPending, NEW w \in Wobj \ Mutex, QueueWait(w)
  PROVE  /\ ObjectCall /\ ResultPending' /\ NobodyServed(w)
         /\ \A v \in Wobj \ {w} : NobodyJoins(v) /\ NobodyServed(v)
         /\ runtsk \in Task /\ waiton' = [waiton EXCEPT ![runtsk] = w]
<1>1. /\ waiton \in [Task -> WaitCause] /\ winfo \in [Task -> WaitInfo]
      /\ runtsk \in Task \cup {NoTask} /\ "NONE" \notin Wobj
      /\ \A u \in Task : waiton[u] # "NONE" => winfo[u] # "ok"
  BY ConfigAssumption DEF IInv, TypeOK, ResultPending
<1>2. PICK timed \in BOOLEAN : wobj_wait(w, timed)
  BY DEF QueueWait
<1>3. /\ waiton' = [waiton EXCEPT ![runtsk] = w]
      /\ winfo' = [winfo EXCEPT ![runtsk] = IF timed THEN "tmevtb" ELSE "null"]
  BY <1>2 DEF wobj_wait, wobj_make_wait, make_wait
<1>4. /\ ResultPending' /\ NobodyServed(w)
      /\ \A v \in Wobj \ {w} : NobodyJoins(v) /\ NobodyServed(v)
  BY <1>1, <1>3 DEF ResultPending, NobodyJoins, NobodyServed, Served
<1>5. runtsk \in Task
  BY <1>1, <1>2 DEF wobj_wait, checkDispatch, checkContextTaskUnlock, TaskContext
<1> QED BY <1>2, <1>3, <1>4, <1>5 DEF ObjectCall

(* A release of some of the waiting tasks serves those and no others, and  *)
(* only when it is without an error.                                       *)
LEMMA ReleaseCalls ==
  ASSUME IInv, ResultPending, NEW w \in Wobj \ Mutex, NEW S \in SUBSET Waiters(w),
         NEW e \in {"ok", "error"}, wobj_release(w, S, e)
  PROVE  /\ ObjectCall /\ ResultPending' /\ NobodyJoins(w)
         /\ \A v \in Wobj \ {w} : NobodyJoins(v) /\ NobodyServed(v)
         /\ \A u \in Task : Served(w, u) <=> u \in S /\ e = "ok"
         /\ \A u \in Task : (waiton')[u] = IF u \in S THEN "NONE" ELSE waiton[u]
<1>1. /\ waiton \in [Task -> WaitCause] /\ winfo \in [Task -> WaitInfo]
      /\ "NONE" \notin Wobj
      /\ \A u \in Task : waiton[u] # "NONE" => winfo[u] # "ok"
  BY ConfigAssumption DEF IInv, TypeOK, ResultPending
<1>2. /\ waiton' = [u \in Task |-> IF u \in S THEN "NONE" ELSE waiton[u]]
      /\ winfo' = [u \in Task |-> IF u \in S THEN e ELSE winfo[u]]
      /\ \A u \in S : u \in Task /\ waiton[u] = w
  BY DEF wobj_release, end_waits, Waiters
<1>3. /\ ResultPending' /\ NobodyJoins(w)
      /\ \A v \in Wobj \ {w} : NobodyJoins(v) /\ NobodyServed(v)
  BY <1>1, <1>2 DEF ResultPending, NobodyJoins, NobodyServed, Served
<1>4. \A u \in Task : Served(w, u) <=> u \in S /\ e = "ok"
  BY <1>1, <1>2 DEF Served
<1> QED BY <1>2, <1>3, <1>4 DEF ObjectCall

(* A call on the queue of one object is a step of the kernel, serves the   *)
(* first task of that queue or none, and leaves the other queues alone.    *)
LEMMA QueueCalls ==
  ASSUME IInv, ResultPending, NEW w \in Wobj \ Mutex, QueueCall(w)
  PROVE  /\ ObjectCall /\ ResultPending'
         /\ \A v \in Wobj \ {w} : NobodyJoins(v) /\ NobodyServed(v)
         /\ FirstServed(w)
         /\ \A u \in Task : Served(w, u) => QueueServe(w) /\ u = Head(wait_queue[w])
         /\ QueueServe(w) \/ QueueClear(w) => NobodyJoins(w)
<1> DEFINE h == Head(wait_queue[w])
<1>1. wait_queue[w] \in Seq(Task) /\ NoDuplicate(wait_queue[w])
  BY DEF IInv, TypeOK, WaitsOwned
<1>2. ASSUME QueueWait(w)
      PROVE  /\ ObjectCall /\ ResultPending' /\ NobodyServed(w)
             /\ \A v \in Wobj \ {w} : NobodyJoins(v) /\ NobodyServed(v)
  BY <1>2, WaitCalls
<1>3. ASSUME QueueServe(w)
      PROVE  /\ ObjectCall /\ ResultPending' /\ NobodyJoins(w)
             /\ \A v \in Wobj \ {w} : NobodyJoins(v) /\ NobodyServed(v)
             /\ \A u \in Task : Served(w, u) => u = h
  <2>1. {h} \in SUBSET Waiters(w)
    BY <1>3, HeadWaits DEF QueueServe
  <2>2. wobj_release(w, {h}, "ok")
    BY <1>3 DEF QueueServe, wobj_release_first
  <2> HIDE DEF h
  <2>3. /\ ObjectCall /\ ResultPending' /\ NobodyJoins(w)
        /\ \A v \in Wobj \ {w} : NobodyJoins(v) /\ NobodyServed(v)
        /\ \A u \in Task : Served(w, u) <=> u \in {h} /\ "ok" = "ok"
    BY <2>1, <2>2, ReleaseCalls
  <2> QED BY <2>3
<1>4. ASSUME QueueClear(w)
      PROVE  /\ ObjectCall /\ ResultPending' /\ NobodyJoins(w) /\ NobodyServed(w)
             /\ \A v \in Wobj \ {w} : NobodyJoins(v) /\ NobodyServed(v)
  <2>1. Waiters(w) \in SUBSET Waiters(w) /\ wobj_release(w, Waiters(w), "error")
    BY <1>4 DEF QueueClear
  <2>2. /\ ObjectCall /\ ResultPending' /\ NobodyJoins(w)
        /\ \A v \in Wobj \ {w} : NobodyJoins(v) /\ NobodyServed(v)
        /\ \A u \in Task : Served(w, u) <=> u \in Waiters(w) /\ "error" = "ok"
    BY <2>1, ReleaseCalls
  <2> QED BY <2>2 DEF NobodyServed
<1>5. \A u \in Task : Served(w, u) => QueueServe(w) /\ u = h
  BY <1>2, <1>3, <1>4 DEF QueueCall, NobodyServed
<1>6. FirstServed(w)
  <2> DEFINE q == wait_queue[w]
  <2>1. ASSUME NEW i \in DOMAIN q, NEW j \in DOMAIN q, i < j, Served(w, q[j])
        PROVE  FALSE
    <3>1. q[j] \in Task /\ i \in 1 .. Len(q) /\ j \in 1 .. Len(q) /\ 1 \in 1 .. Len(q)
      BY <1>1
    <3>2. q[j] = q[1]
      BY <1>1, <1>5, <2>1, <3>1
    <3>3. j = 1
      BY <1>1, <3>1, <3>2 DEF NoDuplicate
    <3> QED BY <2>1, <3>1, <3>3
  <2> QED BY <2>1 DEF FirstServed
<1> QED BY <1>2, <1>3, <1>4, <1>5, <1>6 DEF QueueCall

(* Sending away all that wait empties the queue.                           *)
LEMMA ReleaseEmpties ==
  ASSUME IInv, IInv', NEW w \in Wobj, QueueClear(w)
  PROVE  wait_queue'[w] = <<>>
<1>1. \A u \in Task : waiton'[u] # w
  BY ConfigAssumption DEF QueueClear, wobj_release, end_waits, Waiters
<1>2. wait_queue'[w] \in Seq(Task)
  BY DEF IInv, TypeOK
<1>3. \A u \in Task : ~ Member(wait_queue'[w], u)
  BY <1>1 DEF IInv, WaitsOwned
<1> QED BY <1>2, <1>3, EmptyQueue
=============================================================================
