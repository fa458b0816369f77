--------------------------- MODULE TimeHeapProofs ---------------------------
(***************************************************************************)
(* The heap of time events, for any number of events and any range of      *)
(* times: paths through the array, what a move along one does to the array *)
(* and to the indices, and that insertion and deletion keep a heap a heap. *)
(* The recursive functions of TimeHeap are reasoned about by induction     *)
(* over the nodes, stated with a set in the place of a predicate.          *)
(***************************************************************************)
EXTENDS EventHeap, FiniteSetTheorems, WellFoundedInduction, TLAPS

(* Distribution, which the nonlinear steps below need by name.             *)
LEMMA Distributes ==
  ASSUME NEW x \in Int, NEW y \in Int, NEW w \in Int
  PROVE  (x + y) * w = x * w + y * w /\ x * w \in Int
OBVIOUS

(* What the remainder is: the one number of the range that differs by a    *)
(* multiple.                                                               *)
LEMMA Remainder ==
  ASSUME NEW w \in Nat \ {0}, NEW x \in Int
  PROVE  /\ x % w \in 0 .. w - 1
         /\ x \div w \in Int /\ x = (x \div w) * w + (x % w)
         /\ \A r \in 0 .. w - 1, q \in Int : x = q * w + r => x % w = r
<1>1. x % w \in 0 .. w - 1
  OBVIOUS
<1>2. x \div w \in Int /\ x = (x \div w) * w + (x % w)
  OBVIOUS
<1>3. ASSUME NEW r \in 0 .. w - 1, NEW q \in Int, x = q * w + r PROVE x % w = r
  BY <1>3
<1> QED BY <1>1, <1>2, <1>3

(* Multiples of the modulus leave no trace in a remainder.                 *)
LEMMA RemainderShift ==
  ASSUME NEW w \in Nat \ {0}, NEW x \in Int, NEW q \in Int
  PROVE  (x + q * w) % w = x % w
<1> DEFINE k == x \div w
           r == x % w
<1>1. k \in Int /\ r \in 0 .. w - 1 /\ x = k * w + r /\ w \in Int
  BY Remainder
<1>2. q * w \in Int /\ k * w \in Int /\ (k + q) * w = k * w + q * w
  BY <1>1, Distributes
<1> HIDE DEF k, r
<1>3. x + q * w = (k + q) * w + r /\ k + q \in Int /\ x + q * w \in Int
  BY <1>1, <1>2
<1>4. (x + q * w) % w = r
  BY <1>1, <1>3, Remainder
<1> QED BY <1>4 DEF r

(* Remainders may be taken early.                                          *)
LEMMA RemainderSum ==
  ASSUME NEW w \in Nat \ {0}, NEW x \in Int, NEW y \in Int
  PROVE  ((x % w) + y) % w = (x + y) % w
<1> DEFINE k == x \div w
           r == x % w
<1>1. k \in Int /\ r \in 0 .. w - 1 /\ x = k * w + r /\ w \in Int
  BY Remainder
<1>2. k * w \in Int
  BY <1>1, Distributes
<1> HIDE DEF k, r
<1>3. x + y = (r + y) + k * w /\ r + y \in Int
  BY <1>1, <1>2
<1>4. (x + y) % w = (r + y) % w
  <2> DEFINE z == r + y
  <2>1. z \in Int /\ k \in Int /\ w \in Nat \ {0} /\ x + y = z + k * w
    BY <1>1, <1>3
  <2> HIDE DEF z
  <2>2. (z + k * w) % w = z % w
    BY ONLY <2>1, RemainderShift, Zenon
  <2> QED BY ONLY <2>1, <2>2, Zenon DEF z
<1> QED BY <1>4 DEF r

(* The remainder of a number less than one modulus out of the range.       *)
LEMMA RemainderNear ==
  ASSUME NEW w \in Nat \ {0}, NEW x \in Int
  PROVE  /\ x \in 0 .. w - 1 => x % w = x
         /\ x \in - w .. -1 => x % w = x + w
         /\ x \in w .. 2 * w - 1 => x % w = x - w
<1>1. ASSUME x \in 0 .. w - 1 PROVE x % w = x
  BY <1>1
<1>2. ASSUME x \in - w .. -1 PROVE x % w = x + w
  BY <1>2
<1>3. ASSUME x \in w .. 2 * w - 1 PROVE x % w = x - w
  BY <1>3
<1> QED BY <1>1, <1>2, <1>3
(* A non-empty set of numbers below N has a least element.                 *)
LEMMA LeastElement ==
  ASSUME NEW N \in Nat, NEW S \in SUBSET (0 .. N - 1), S # {}
  PROVE  \E x \in S : \A y \in S : x <= y
<1> DEFINE I == 0 .. N - 1
           T == {0 .. x : x \in S}
<1>1. IsWellFoundedOn(StrictSubsetOrdering(I), SUBSET I)
  <2>1. IsFiniteSet(I)
    BY FS_Interval
  <2>2. FiniteSubsetsOf(I) = SUBSET I
    BY <2>1, FS_FiniteSubsetsOfFinite
  <2> QED BY <2>2, FS_StrictSubsetOrderingWellFounded
<1>2. \A x \in S : 0 .. x \subseteq I
  OBVIOUS
<1>3. T \subseteq SUBSET I /\ T # {}
  <2>1. T \subseteq SUBSET I
    BY <1>2
  <2>2. T # {}
    <3>1. PICK x \in S : TRUE
      OBVIOUS
    <3>2. 0 .. x \in T
      OBVIOUS
    <3> QED BY <3>2
  <2> QED BY <2>1, <2>2
<1>4. PICK m \in T : \A u \in T : ~ (<<u, m>> \in StrictSubsetOrdering(I))
  <2> HIDE DEF T, I
  <2> QED BY <1>1, <1>3, WFMin
<1>5. PICK x \in S : m = 0 .. x
  BY <1>4
<1>6. ASSUME NEW y \in S, y < x PROVE FALSE
  <2>1. 0 .. y \in T
    OBVIOUS
  <2>2. 0 .. y \in SUBSET I /\ 0 .. x \in SUBSET I
    BY <1>2
  <2>3. 0 .. y \subseteq 0 .. x /\ x \in 0 .. x /\ x \notin 0 .. y
    BY <1>6
  <2>4. <<0 .. y, 0 .. x>> \in StrictSubsetOrdering(I)
    BY <2>2, <2>3 DEF StrictSubsetOrdering
  <2> QED BY <2>1, <2>4, <1>4, <1>5
<1> QED BY <1>6

(* Induction: a set that has 0, and the successor of each of its numbers   *)
(* up to N, has all numbers up to N.                                       *)
LEMMA SetInduction ==
  ASSUME NEW N \in Nat, NEW S, 0 \in S, \A n \in 0 .. N - 1 : n \in S => n + 1 \in S
  PROVE  0 .. N \subseteq S
<1> DEFINE Missing == {n \in 0 .. N : n \notin S}
<1>1. SUFFICES ASSUME Missing # {} PROVE FALSE
  OBVIOUS
<1>2. N + 1 \in Nat /\ Missing \in SUBSET (0 .. (N + 1) - 1)
  OBVIOUS
<1>3. PICK x \in Missing : \A y \in Missing : x <= y
  <2> HIDE DEF Missing
  <2> QED BY <1>1, <1>2, LeastElement
<1>4. x # 0 /\ x - 1 \in 0 .. N - 1
  BY <1>3
<1>5. x - 1 \in S
  BY <1>3, <1>4
<1> QED BY <1>3, <1>4, <1>5

(* The parent of a node has a smaller number and no two nodes but siblings *)
(* share it.                                                               *)
LEMMA ParentBelow ==
  ASSUME NEW i \in Nat \ {0}
  PROVE  /\ PARENT(i) \in 0 .. i - 1
         /\ i = LCHILD(PARENT(i)) \/ i = LCHILD(PARENT(i)) + 1
BY DEF PARENT, LCHILD

(* The nodes the array has room for.                                       *)
NumNodes == Cardinality(TMEVTB)

(* There are finitely many nodes.                                          *)
LEMMA NumNodesType == NumNodes \in Nat /\ Nodes = 0 .. NumNodes - 1
BY TimeHeapAssumption, FS_CardinalityType DEF NumNodes, Nodes

(* The recursion of Path, one step of it.                                  *)
PathStep(f, i) == IF i = 0 THEN {0} ELSE {i} \cup f[PARENT(i)]

(* There is a function that satisfies the recursion of Path.               *)
LEMMA PathExists == \E f : f = [i \in Nodes |-> PathStep(f, i)]
<1> DEFINE S == {n \in Nat : \E f : f = [i \in 0 .. n - 1 |-> PathStep(f, i)]}
<1>1. 0 \in S
  <2> DEFINE f == [i \in 0 .. -1 |-> {}]
  <2>1. f = [i \in 0 .. 0 - 1 |-> PathStep(f, i)]
    OBVIOUS
  <2> HIDE DEF f
  <2> QED BY <2>1
<1>2. ASSUME NEW n \in 0 .. NumNodes - 1, n \in S PROVE n + 1 \in S
  <2>1. PICK f : f = [i \in 0 .. n - 1 |-> PathStep(f, i)]
    BY <1>2
  <2> DEFINE g == [i \in 0 .. n |-> PathStep(f, i)]
  <2>2. \A i \in 0 .. n - 1 : g[i] = f[i]
    BY <2>1
  <2>3. \A i \in 0 .. n : PathStep(g, i) = PathStep(f, i)
    <3> SUFFICES ASSUME NEW i \in 0 .. n, i # 0 PROVE g[PARENT(i)] = f[PARENT(i)]
      BY DEF PathStep
    <3>1. PARENT(i) \in 0 .. n - 1
      BY ParentBelow
    <3> HIDE DEF g
    <3> QED BY <3>1, <2>2
  <2>4. g = [i \in 0 .. (n + 1) - 1 |-> PathStep(g, i)]
    BY <2>3
  <2> HIDE DEF g
  <2> QED BY <2>4, NumNodesType
<1>3. NumNodes \in S
  <2> HIDE DEF S
  <2> QED BY <1>1, <1>2, SetInduction, NumNodesType
<1> QED BY <1>3, NumNodesType

(* Path follows its recursion.                                             *)
LEMMA PathUnfold ==
  ASSUME NEW k \in Nodes
  PROVE  Path(k) = IF k = 0 THEN {0} ELSE {k} \cup Path(PARENT(k))
<1> DEFINE p == CHOOSE f : f = [i \in Nodes |-> PathStep(f, i)]
<1>1. p = [i \in Nodes |-> PathStep(p, i)]
  BY PathExists
<1>2. \A x : Path(x) = p[x]
  BY DEF Path, PathStep
<1> HIDE DEF p
<1> QED BY <1>1, <1>2 DEF PathStep

-----------------------------------------------------------------------------
(* The paths from a node to the root.                                      *)
PathsTo(k) ==
  /\ Path(k) \subseteq 0 .. k /\ k \in Path(k) /\ 0 \in Path(k)
  /\ \A i \in Path(k) \ {0} : PARENT(i) \in Path(k)
  /\ \A i, j \in Path(k) : i < j => i <= PARENT(j)

(* Every path ends at the root, is closed under parents and branches       *)
(* nowhere.                                                                *)
LEMMA PathProperties == \A k \in Nodes : PathsTo(k)
<1> DEFINE Bad == {k \in Nodes : ~ PathsTo(k)}
<1>1. SUFFICES ASSUME Bad # {} PROVE FALSE
  OBVIOUS
<1>2. PICK k \in Bad : \A j \in Bad : k <= j
  <2>1. Bad \in SUBSET (0 .. NumNodes - 1)
    BY NumNodesType
  <2> HIDE DEF Bad
  <2> QED BY <1>1, <2>1, LeastElement, NumNodesType
<1>3. k \in Nodes /\ k \in Nat /\ ~ PathsTo(k)
  BY NumNodesType
<1>4. CASE k = 0
  <2>1. Path(k) = {0}
    BY <1>3, <1>4, PathUnfold
  <2> QED BY <1>3, <1>4, <2>1 DEF PathsTo
<1>5. CASE k # 0
  <2> DEFINE p == PARENT(k)
  <2>1. p \in Nodes /\ p \in 0 .. k - 1
    BY <1>3, <1>5, ParentBelow, NumNodesType
  <2>2. PathsTo(p)
    BY <2>1, <1>2, <1>3
  <2>3. Path(k) = {k} \cup Path(p)
    BY <1>3, <1>5, PathUnfold
  <2> HIDE DEF Bad, p
  <2>4. Path(k) \subseteq 0 .. k /\ k \in Path(k) /\ 0 \in Path(k)
    BY <2>1, <2>2, <2>3, <1>3 DEF PathsTo
  <2>5. \A i \in Path(k) \ {0} : PARENT(i) \in Path(k)
    BY <2>2, <2>3 DEF PathsTo, p
  <2>6. ASSUME NEW i \in Path(k), NEW j \in Path(k), i < j PROVE i <= PARENT(j)
    <3>1. CASE j = k
      <4>1. i \in Path(p)
        BY <2>3, <2>4, <2>6, <3>1, <1>3
      <4> QED BY <4>1, <2>1, <2>2, <3>1 DEF PathsTo, p
    <3>2. CASE j # k
      <4>1. j \in Path(p) /\ j \in 0 .. p
        BY <2>2, <2>3, <3>2 DEF PathsTo
      <4>2. i \in Path(p)
        BY <4>1, <2>1, <2>3, <2>6
      <4> QED BY <4>1, <4>2, <2>2, <2>6 DEF PathsTo
    <3> QED BY <3>1, <3>2
  <2>7. PathsTo(k)
    BY <2>4, <2>5, <2>6 DEF PathsTo
  <2> QED BY <2>7, <1>3
<1> QED BY <1>4, <1>5

(* A path consists of nodes no larger than the one it ends at.             *)
LEMMA PathType == ASSUME NEW k \in Nodes PROVE Path(k) \subseteq Nodes /\ \A i \in Path(k) : i \in Nat /\ i <= k
BY PathProperties, NumNodesType DEF PathsTo

(* The way up.                                                             *)
UpStep(h, t, f, i) == IF i = 0 \/ EVTTIM_LE(h, time(h, PARENT(i)), t) THEN i ELSE f[PARENT(i)]

(* There is a function that satisfies the recursion of tmevt_up.           *)
LEMMA UpExists == ASSUME NEW h, NEW t PROVE \E f : f = [i \in Nodes |-> UpStep(h, t, f, i)]
<1> DEFINE S == {n \in Nat : \E f : f = [i \in 0 .. n - 1 |-> UpStep(h, t, f, i)]}
<1>1. 0 \in S
  <2> DEFINE f == [i \in 0 .. -1 |-> {}]
  <2>1. f = [i \in 0 .. 0 - 1 |-> UpStep(h, t, f, i)]
    OBVIOUS
  <2> HIDE DEF f
  <2> QED BY <2>1
<1>2. ASSUME NEW n \in 0 .. NumNodes - 1, n \in S PROVE n + 1 \in S
  <2>1. PICK f : f = [i \in 0 .. n - 1 |-> UpStep(h, t, f, i)]
    BY <1>2
  <2> DEFINE g == [i \in 0 .. n |-> UpStep(h, t, f, i)]
  <2>2. \A i \in 0 .. n - 1 : g[i] = f[i]
    BY <2>1
  <2>3. \A i \in 0 .. n : UpStep(h, t, g, i) = UpStep(h, t, f, i)
    <3> SUFFICES ASSUME NEW i \in 0 .. n, i # 0 PROVE g[PARENT(i)] = f[PARENT(i)]
      BY DEF UpStep
    <3>1. PARENT(i) \in 0 .. n - 1
      BY ParentBelow
    <3> HIDE DEF g
    <3> QED BY <3>1, <2>2
  <2>4. g = [i \in 0 .. (n + 1) - 1 |-> UpStep(h, t, g, i)]
    BY <2>3
  <2> HIDE DEF g
  <2> QED BY <2>4, NumNodesType
<1>3. NumNodes \in S
  <2> HIDE DEF S
  <2> QED BY <1>1, <1>2, SetInduction, NumNodesType
<1> QED BY <1>3, NumNodesType

(* tmevt_up follows its recursion.                                         *)
LEMMA UpUnfold ==
  ASSUME NEW h, NEW t, NEW k \in Nodes
  PROVE  tmevt_up(h, k, t) =
           IF k = 0 \/ EVTTIM_LE(h, time(h, PARENT(k)), t) THEN k ELSE tmevt_up(h, PARENT(k), t)
<1> DEFINE p == CHOOSE f : f = [i \in Nodes |-> UpStep(h, t, f, i)]
<1>1. p = [i \in Nodes |-> UpStep(h, t, p, i)]
  BY UpExists
<1>2. \A x : tmevt_up(h, x, t) = p[x]
  BY DEF tmevt_up, UpStep
<1> HIDE DEF p
<1> QED BY <1>1, <1>2 DEF UpStep

(* Where it ends, and what it has passed.                                  *)
UpFrom(h, k, t, to) ==
  /\ to \in Path(k)
  /\ to = 0 \/ EVTTIM_LE(h, time(h, PARENT(to)), t)
  /\ \A i \in Path(k) : i > to => ~ EVTTIM_LE(h, time(h, PARENT(i)), t)

(* tmevt_up stops on the path of the node it starts from, where the event  *)
(* above is not later, and has passed later events only.                   *)
LEMMA UpProperties ==
  ASSUME NEW h, NEW t PROVE \A k \in Nodes : UpFrom(h, k, t, tmevt_up(h, k, t))
<1> DEFINE Up(k) == UpFrom(h, k, t, tmevt_up(h, k, t))
           Bad == {k \in Nodes : ~ Up(k)}
<1>1. SUFFICES ASSUME Bad # {} PROVE FALSE
  OBVIOUS
<1> HIDE DEF Up
<1>2. PICK k \in Bad : \A j \in Bad : k <= j
  <2>1. Bad \in SUBSET (0 .. NumNodes - 1)
    BY NumNodesType
  <2> HIDE DEF Bad
  <2> QED BY <1>1, <2>1, LeastElement, NumNodesType
<1>3. k \in Nodes /\ k \in Nat /\ ~ Up(k)
  BY NumNodesType
<1> DEFINE p == PARENT(k)
           Stops == k = 0 \/ EVTTIM_LE(h, time(h, p), t)
<1>4. CASE Stops
  <2>1. tmevt_up(h, k, t) = k
    BY <1>3, <1>4, UpUnfold
  <2>2. k \in Path(k) /\ \A i \in Path(k) : ~ (i > k)
    BY <1>3, PathProperties, PathType DEF PathsTo
  <2> QED BY <1>3, <1>4, <2>1, <2>2 DEF UpFrom, Up
<1>5. CASE ~ Stops
  <2>1. p \in Nodes /\ p \in 0 .. k - 1
    BY <1>3, <1>5, ParentBelow, NumNodesType
  <2>2. Up(p)
    BY <2>1, <1>2, <1>3
  <2>3. Path(k) = {k} \cup Path(p)
    BY <1>3, <1>5, PathUnfold
  <2>4. tmevt_up(h, k, t) = tmevt_up(h, p, t)
    BY <1>3, <1>5, UpUnfold
  <2>5. UpFrom(h, k, t, tmevt_up(h, k, t))
    BY <1>5, <2>2, <2>3, <2>4 DEF UpFrom, Up
  <2> QED BY <2>5, <1>3 DEF Up
<1> QED BY <1>4, <1>5

(* The way down.                                                           *)
DownStep(h, n, t, f, i) ==
  IF LCHILD(i) >= n \/ EVTTIM_LE(h, t, time(h, EarlierChild(h, n, i))) THEN i ELSE f[EarlierChild(h, n, i)]

(* The earlier child is a child.                                           *)
LEMMA EarlierChildType ==
  ASSUME NEW h, NEW n \in Nat, NEW i \in Nat, LCHILD(i) < n
  PROVE  /\ EarlierChild(h, n, i) \in i + 1 .. n - 1
         /\ PARENT(EarlierChild(h, n, i)) = i
BY DEF EarlierChild, LCHILD, PARENT

(* There is a function that satisfies the recursion of tmevt_down.         *)
LEMMA DownExists ==
  ASSUME NEW h, NEW t, NEW n \in 0 .. NumNodes
  PROVE  \E f : f = [i \in Nodes |-> DownStep(h, n, t, f, i)]
<1> DEFINE D(k) == NumNodes - k .. NumNodes - 1
           S == {k \in Nat : \E f : f = [i \in D(k) |-> DownStep(h, n, t, f, i)]}
<1>1. 0 \in S
  <2> DEFINE f == [i \in NumNodes .. NumNodes - 1 |-> {}]
  <2>1. f = [i \in D(0) |-> DownStep(h, n, t, f, i)]
    BY NumNodesType
  <2> HIDE DEF f
  <2> QED BY <2>1
<1>2. ASSUME NEW k \in 0 .. NumNodes - 1, k \in S PROVE k + 1 \in S
  <2>1. PICK f : f = [i \in D(k) |-> DownStep(h, n, t, f, i)]
    BY <1>2
  <2> DEFINE g == [i \in D(k + 1) |-> DownStep(h, n, t, f, i)]
  <2>2. \A i \in D(k) : g[i] = f[i]
    BY <2>1, NumNodesType
  <2>3. \A i \in D(k + 1) : DownStep(h, n, t, g, i) = DownStep(h, n, t, f, i)
    <3> SUFFICES ASSUME NEW i \in D(k + 1), LCHILD(i) < n
                 PROVE  g[EarlierChild(h, n, i)] = f[EarlierChild(h, n, i)]
      <4>1. \A i \in D(k + 1) : i \in Int /\ LCHILD(i) \in Int
        BY DEF LCHILD
      <4> HIDE DEF g, D
      <4> QED BY <4>1 DEF DownStep
    <3>1. EarlierChild(h, n, i) \in D(k)
      BY EarlierChildType, NumNodesType
    <3> HIDE DEF g
    <3> QED BY <3>1, <2>2
  <2>4. g = [i \in D(k + 1) |-> DownStep(h, n, t, g, i)]
    BY <2>3
  <2> HIDE DEF g, D
  <2> QED BY <2>4
<1>3. NumNodes \in S
  <2> HIDE DEF S
  <2> QED BY <1>1, <1>2, SetInduction, NumNodesType
<1>4. D(NumNodes) = Nodes
  BY NumNodesType
<1> QED BY <1>3, <1>4

(* tmevt_down follows its recursion.                                       *)
LEMMA DownUnfold ==
  ASSUME NEW h, NEW t, NEW n \in 0 .. NumNodes, NEW k \in Nodes
  PROVE  tmevt_down(h, n, k, t) =
           IF LCHILD(k) >= n \/ EVTTIM_LE(h, t, time(h, EarlierChild(h, n, k)))
           THEN k ELSE tmevt_down(h, n, EarlierChild(h, n, k), t)
<1> DEFINE p == CHOOSE f : f = [i \in Nodes |-> DownStep(h, n, t, f, i)]
<1>1. p = [i \in Nodes |-> DownStep(h, n, t, p, i)]
  BY DownExists
<1>2. \A x : tmevt_down(h, n, x, t) = p[x]
  BY DEF tmevt_down, DownStep
<1> HIDE DEF p
<1> QED BY <1>1, <1>2 DEF DownStep

(* Where tmevt_down, started at k, may stop.                               *)
DownFrom(h, n, k, t, to) ==
  /\ to \in Nodes /\ k \in Path(to) /\ (to = k \/ to < n)
  /\ LCHILD(to) >= n \/ EVTTIM_LE(h, t, time(h, EarlierChild(h, n, to)))
  /\ \A c \in Path(to) : c > k => /\ LCHILD(PARENT(c)) < n /\ c = EarlierChild(h, n, PARENT(c))
                                  /\ ~ EVTTIM_LE(h, t, time(h, c))

(* tmevt_down stops below the node it starts from, where no child is       *)
(* earlier, and has passed earlier events only, each the earlier of two.   *)
LEMMA DownProperties ==
  ASSUME NEW h, NEW t, NEW n \in 0 .. NumNodes
  PROVE  \A k \in Nodes : DownFrom(h, n, k, t, tmevt_down(h, n, k, t))
<1> DEFINE Down(k) == DownFrom(h, n, k, t, tmevt_down(h, n, k, t))
           Bad == {d \in 0 .. NumNodes - 1 : ~ Down(NumNodes - 1 - d)}
<1>1. SUFFICES ASSUME NEW k0 \in Nodes, ~ Down(k0) PROVE FALSE
  OBVIOUS
<1> HIDE DEF Down
<1>2. PICK d \in Bad : \A j \in Bad : d <= j
  <2>1. Bad \in SUBSET (0 .. NumNodes - 1)
    OBVIOUS
  <2>2. NumNodes - 1 - k0 \in 0 .. NumNodes - 1 /\ NumNodes - 1 - (NumNodes - 1 - k0) = k0
    BY NumNodesType
  <2>3. NumNodes - 1 - k0 \in Bad
    BY <2>2, <1>1
  <2> HIDE DEF Bad
  <2> QED BY <2>1, <2>3, LeastElement, NumNodesType
<1> DEFINE k == NumNodes - 1 - d
           c == EarlierChild(h, n, k)
           Stops == LCHILD(k) >= n \/ EVTTIM_LE(h, t, time(h, c))
<1>3. k \in Nodes /\ k \in Nat /\ ~ Down(k)
  BY NumNodesType
<1>4. \A j \in Nodes : j > k => Down(j)
  <2> SUFFICES ASSUME NEW j \in Nodes, j > k, ~ Down(j) PROVE FALSE
    OBVIOUS
  <2>1. NumNodes - 1 - j \in 0 .. NumNodes - 1 /\ NumNodes - 1 - (NumNodes - 1 - j) = j /\ NumNodes - 1 - j < d
    BY NumNodesType
  <2>2. NumNodes - 1 - j \in Bad
    BY <2>1
  <2> QED BY <2>1, <2>2, <1>2
<1> HIDE DEF Bad, k
<1>5. CASE Stops
  <2>1. tmevt_down(h, n, k, t) = k
    BY <1>3, <1>5, DownUnfold
  <2>2. k \in Path(k) /\ \A i \in Path(k) : ~ (i > k)
    BY <1>3, PathProperties, PathType DEF PathsTo
  <2> QED BY <1>3, <1>5, <2>1, <2>2 DEF DownFrom, Down
<1>6. CASE ~ Stops
  <2>0. LCHILD(k) < n /\ ~ EVTTIM_LE(h, t, time(h, c))
    BY <1>3, <1>6 DEF LCHILD
  <2>1. c \in Nodes /\ c > k /\ c < n /\ PARENT(c) = k /\ c \in Nat
    BY <1>3, <2>0, EarlierChildType, NumNodesType
  <2>2. Down(c)
    BY <2>1, <1>4
  <2> DEFINE to == tmevt_down(h, n, c, t)
  <2>3. tmevt_down(h, n, k, t) = to
    BY <1>3, <1>6, DownUnfold
  <2>4. DownFrom(h, n, c, t, to)
    BY <2>2 DEF Down
  <2> HIDE DEF to, Stops
  <2>5. PathsTo(to) /\ \A x \in Path(to) : x \in Nat
    BY <2>4, PathProperties, PathType DEF DownFrom
  <2>6. k \in Path(to)
    BY <2>1, <2>4, <2>5, <1>3 DEF DownFrom, PathsTo
  <2>7. ASSUME NEW x \in Path(to), x > k
        PROVE  LCHILD(PARENT(x)) < n /\ x = EarlierChild(h, n, PARENT(x)) /\ ~ EVTTIM_LE(h, t, time(h, x))
    <3>1. CASE x > c
      BY <3>1, <2>4 DEF DownFrom
    <3>2. CASE x = c
      BY <3>2, <2>0, <2>1
    <3>3. CASE x < c
      <4>1. x <= k
        BY <3>3, <2>1, <2>4, <2>5 DEF DownFrom, PathsTo
      <4> QED BY <4>1, <2>5, <2>7, <1>3
    <3> QED BY <3>1, <3>2, <3>3, <2>1, <2>5
  <2>8. to = c => to < n
    BY <2>1
  <2>9. DownFrom(h, n, k, t, to)
    BY <2>4, <2>6, <2>7, <2>8 DEF DownFrom
  <2> QED BY <2>3, <2>9, <1>3 DEF Down
<1> QED BY <1>5, <1>6

-----------------------------------------------------------------------------
(* Below the last, every node of a path has another behind it.             *)
LEMMA PathSuccessor ==
  ASSUME NEW k \in Nodes, NEW j \in Path(k), j # k
  PROVE  \E i \in Path(k) : i > j /\ PARENT(i) = j
<1>1. PathsTo(k) /\ \A x \in Path(k) : x \in Nat /\ x <= k
  BY PathProperties, PathType
<1> DEFINE Later == {x \in Path(k) : x > j}
<1>2. k \in Later /\ Later \in SUBSET (0 .. NumNodes - 1)
  BY <1>1, PathType, NumNodesType DEF PathsTo
<1>3. PICK i \in Later : \A x \in Later : i <= x
  <2> HIDE DEF Later
  <2> QED BY <1>2, LeastElement, NumNodesType
<1>4. i \in Path(k) /\ i > j /\ i \in Nat \ {0} /\ j \in Nat
  BY <1>1, <1>3
<1>5. PARENT(i) \in Path(k) /\ j <= PARENT(i) /\ PARENT(i) \in 0 .. i - 1
  BY <1>1, <1>4, ParentBelow DEF PathsTo
<1>6. ~ (PARENT(i) > j)
  BY <1>1, <1>3, <1>4, <1>5
<1> QED BY <1>4, <1>5, <1>6

(* On a path, each node has one successor.                                 *)
LEMMA ParentInjective ==
  ASSUME NEW k \in Nodes, NEW i \in Path(k) \ {0}, NEW j \in Path(k) \ {0}, PARENT(i) = PARENT(j)
  PROVE  i = j
<1>1. PathsTo(k) /\ \A x \in Path(k) : x \in Nat
  BY PathProperties, PathType
<1>2. PARENT(i) \in 0 .. i - 1 /\ PARENT(j) \in 0 .. j - 1
  BY <1>1, ParentBelow
<1>3. ~ (i < j) /\ ~ (j < i)
  BY <1>1, <1>2 DEF PathsTo
<1> QED BY <1>1, <1>3

(* The hole at from is closed, and the one at to opened, by moving each    *)
(* node of M into its place: s says where it comes from.                   *)
Shifts(M, from, to, s) ==
  /\ to \notin M /\ from \in M \cup {to}
  /\ \A i \in M : s[i] \in (M \cup {to}) \ {from}
  /\ \A i, j \in M : s[i] = s[j] => i = j
  /\ \A j \in (M \cup {to}) \ {from} : \E i \in M : s[i] = j

(* The nodes that a move along a path refills, and where each takes its    *)
(* event from.                                                             *)
Moved(from, to) == MovedUp(from, to) \cup MovedDown(from, to)
Sources(from, to) == [i \in Moved(from, to) |-> Source(from, to, i)]

(* A move up takes every event from the parent of its new node.            *)
LEMMA UpShifts ==
  ASSUME NEW from \in Nodes, NEW to \in Path(from)
  PROVE  /\ Moved(from, to) = {i \in Path(from) : i > to}
         /\ \A i \in Moved(from, to) : Source(from, to, i) = PARENT(i)
         /\ Shifts(Moved(from, to), from, to, Sources(from, to))
         /\ Moved(from, to) \cup {to} \subseteq Path(from)
<1>1. PathsTo(from) /\ \A x \in Path(from) : x \in Nat /\ x <= from
  BY PathProperties, PathType
<1>2. to \in Nodes /\ to <= from /\ to \in Nat /\ from \in Nat
  BY PathType, NumNodesType
<1>3. \A x \in Path(to) : x \in Nat /\ x <= to
  BY <1>2, PathType
<1> DEFINE M == {i \in Path(from) : i > to}
<1>4. MovedUp(from, to) = M
  BY DEF MovedUp
<1>5. MovedDown(from, to) = {}
  <2>1. \A i \in Path(to) : ~ (i < to /\ i >= from)
    BY <1>2, <1>3
  <2> QED BY <2>1 DEF MovedDown
<1>6. Moved(from, to) = M
  BY <1>4, <1>5 DEF Moved
<1>7. \A i \in M : Source(from, to, i) = PARENT(i)
  BY <1>2 DEF Source
<1>8. \A i \in M : PARENT(i) \in (M \cup {to}) \ {from}
  <2> TAKE i \in M
  <2>1. PARENT(i) \in 0 .. i - 1 /\ PARENT(i) \in Path(from) /\ to <= PARENT(i)
    BY <1>1, <1>2, ParentBelow DEF PathsTo
  <2> QED BY <2>1, <1>1, <1>2
<1>9. \A i, j \in M : PARENT(i) = PARENT(j) => i = j
  BY <1>1, <1>2, ParentInjective
<1>10. \A j \in (M \cup {to}) \ {from} : \E i \in M : PARENT(i) = j
  <2> TAKE j \in (M \cup {to}) \ {from}
  <2>1. j \in Path(from) /\ j # from /\ j >= to /\ j \in Nat
    BY <1>1, <1>2
  <2>2. PICK i \in Path(from) : i > j /\ PARENT(i) = j
    BY <2>1, PathSuccessor
  <2> QED BY <2>1, <2>2, <1>1, <1>2
<1>11. from \in M \cup {to} /\ to \notin M
  BY <1>1, <1>2 DEF PathsTo
<1>12. \A i \in M : Sources(from, to)[i] = PARENT(i)
  BY <1>6, <1>7 DEF Sources
<1> HIDE DEF M
<1>13. Shifts(M, from, to, Sources(from, to))
  BY <1>8, <1>9, <1>10, <1>11, <1>12 DEF Shifts
<1> QED BY <1>6, <1>7, <1>13 DEF M

(* A move down takes every event from the child on the path.               *)
LEMMA DownShifts ==
  ASSUME NEW to \in Nodes, NEW from \in Path(to)
  PROVE  /\ Moved(from, to) = {i \in Path(to) : i < to /\ i >= from}
         /\ \A i \in Moved(from, to) :
              Source(from, to, i) \in Path(to) \ {0} /\ PARENT(Source(from, to, i)) = i
         /\ Shifts(Moved(from, to), from, to, Sources(from, to))
         /\ Moved(from, to) \cup {from} \subseteq Path(to)
<1>1. PathsTo(to) /\ \A x \in Path(to) : x \in Nat /\ x <= to
  BY PathProperties, PathType
<1>2. from \in Nodes /\ from <= to /\ to \in Nat /\ from \in Nat
  BY PathType, NumNodesType
<1>3. \A x \in Path(from) : x \in Nat /\ x <= from
  BY <1>2, PathType
<1> DEFINE M == {i \in Path(to) : i < to /\ i >= from}
<1>4. MovedDown(from, to) = M
  BY DEF MovedDown
<1>5. MovedUp(from, to) = {}
  <2>1. \A i \in Path(from) : ~ (i > to)
    BY <1>2, <1>3
  <2> QED BY <2>1 DEF MovedUp
<1>6. Moved(from, to) = M
  BY <1>4, <1>5 DEF Moved
<1>7. ASSUME NEW i \in M
      PROVE  /\ Source(from, to, i) \in Path(to) \ {0} /\ PARENT(Source(from, to, i)) = i
             /\ Source(from, to, i) > i /\ Source(from, to, i) \in Nat
  <2>1. i \in Path(to) /\ i < to /\ i >= from /\ i \in Nat
    BY <1>1
  <2>2. PICK c \in Path(to) : c > i /\ PARENT(c) = i
    BY <2>1, <1>2, PathSuccessor
  <2>3. c # 0 /\ ~ (to <= from)
    BY <2>1, <2>2, <1>1, <1>2
  <2>4. Source(from, to, i) = CHOOSE x \in Path(to) : x # 0 /\ PARENT(x) = i
    BY <2>3 DEF Source
  <2>5. Source(from, to, i) \in Path(to) /\ Source(from, to, i) # 0 /\ PARENT(Source(from, to, i)) = i
    BY <2>2, <2>3, <2>4
  <2>6. Source(from, to, i) = c
    BY <2>2, <2>3, <2>5, ParentInjective
  <2> QED BY <2>2, <2>5, <2>6, <1>1
<1>8. \A i \in M : Source(from, to, i) \in (M \cup {to}) \ {from}
  <2> TAKE i \in M
  <2>1. i >= from /\ i \in Nat
    BY <1>1
  <2> HIDE DEF M
  <2>2. Source(from, to, i) > from /\ Source(from, to, i) \in Path(to) /\ Source(from, to, i) <= to
    BY <2>1, <1>1, <1>2, <1>7
  <2> QED BY <2>2, <1>1, <1>2, <1>7 DEF M
<1>9. \A i, j \in M : Source(from, to, i) = Source(from, to, j) => i = j
  BY <1>7
<1>10. \A j \in (M \cup {to}) \ {from} : \E i \in M : Source(from, to, i) = j
  <2> TAKE j \in (M \cup {to}) \ {from}
  <2>1. j \in Path(to) /\ j > from /\ j \in Nat /\ j <= to /\ j # 0
    BY <1>1, <1>2 DEF PathsTo
  <2>2. PARENT(j) \in Path(to) /\ from <= PARENT(j) /\ PARENT(j) \in 0 .. j - 1
    BY <2>1, <1>1, <1>2, ParentBelow DEF PathsTo
  <2>3. PARENT(j) \in M
    BY <2>1, <2>2, <1>2
  <2> HIDE DEF M
  <2>4. Source(from, to, PARENT(j)) = j
    BY <2>1, <2>3, <1>7, ParentInjective
  <2> QED BY <2>3, <2>4
<1>11. from \in M \cup {to} /\ to \notin M
  BY <1>1, <1>2
<1>12. \A i \in M : Sources(from, to)[i] = Source(from, to, i)
  BY <1>6 DEF Sources
<1>14. M \subseteq Path(to)
  OBVIOUS
<1> HIDE DEF M
<1>13. Shifts(M, from, to, Sources(from, to))
  BY <1>8, <1>9, <1>10, <1>11, <1>12 DEF Shifts
<1>15. M = {i \in Path(to) : i < to /\ i >= from}
  BY DEF M
<1> QED BY <1>6, <1>7, <1>13, <1>14, <1>15

-----------------------------------------------------------------------------
(* What moving the events along a path makes of the array of the heap and  *)
(* of the indices.                                                         *)
Rearranged(D, M, to, s, old, e) ==
  [i \in D |-> IF i = to THEN e ELSE IF i \in M THEN old[s[i]] ELSE old[i]]

(* The index of an event after a move along a path.                        *)
AtIn(D, M, to, new, x) == {i \in (M \cup {to}) \cap D : new[i] = x}
Reindexed(D, M, to, new, index, x) ==
  IF AtIn(D, M, to, new, x) = {} THEN index[x] ELSE CHOOSE i \in AtIn(D, M, to, new, x) : TRUE

(* The events of D, but for what is at from, move; e comes in.             *)
Moves(D, M, from, to, s, old, e, index, new) ==
  /\ M \subseteq D /\ to \in D /\ Shifts(M, from, to, s)
  /\ \A i \in D \ {from} : old[i] # e /\ index[old[i]] = i
  /\ new = Rearranged(D, M, to, s, old, e)

(* A move along a path loses no event, doubles none, and leaves each where *)
(* its index says.                                                         *)
LEMMA Rearrangement ==
  ASSUME NEW D, NEW M, NEW to, NEW from, NEW s, NEW old, NEW e, NEW index, NEW new,
         Moves(D, M, from, to, s, old, e, index, new)
  PROVE  /\ \A i \in D : new[i] = e \/ \E j \in D \ {from} : new[i] = old[j]
         /\ \A j \in D \ {from} : \E i \in D : new[i] = old[j]
         /\ new[to] = e
         /\ \A i \in D : Reindexed(D, M, to, new, index, new[i]) = i
<1> USE DEF Moves
<1>1. from \in D /\ to \notin M
  BY DEF Shifts
<1>2. \A i, j \in D \ {from} : old[i] = old[j] => i = j
  <2> TAKE i, j \in D \ {from}
  <2> QED OBVIOUS
<1>3. new[to] = e
  BY DEF Rearranged
<1>4. \A i \in M : new[i] = old[s[i]] /\ s[i] \in D \ {from}
  BY <1>1 DEF Rearranged, Shifts
<1>5. \A i \in D : i # to /\ i \notin M => new[i] = old[i] /\ i # from
  BY DEF Rearranged, Shifts
<1>6. \A i, j \in D : new[i] = new[j] => i = j
  <2> TAKE i, j \in D
  <2> HAVE new[i] = new[j]
  <2>1. ASSUME NEW k \in D, k # to PROVE new[k] # e
    BY <2>1, <1>4, <1>5
  <2>2. CASE i = to \/ j = to
    BY <2>1, <2>2, <1>3
  <2>3. CASE i \in M /\ j \in M
    <3>1. s[i] = s[j]
      BY <1>2, <1>4, <2>3
    <3> QED BY <3>1, <2>3 DEF Shifts
  <2>4. ASSUME NEW a \in D, NEW b \in D, a \in M, b \notin M, b # to PROVE new[a] # new[b]
    <3>1. s[a] # b
      BY <2>4 DEF Shifts
    <3> QED BY <3>1, <1>2, <1>4, <1>5, <2>4
  <2>5. CASE i \notin M /\ j \notin M /\ i # to /\ j # to
    BY <2>5, <1>2, <1>5
  <2> QED BY <2>2, <2>3, <2>4, <2>5
<1>7. \A i \in D : new[i] = e \/ \E j \in D \ {from} : new[i] = old[j]
  BY <1>3, <1>4, <1>5
<1>8. \A j \in D \ {from} : \E i \in D : new[i] = old[j]
  <2> TAKE j \in D \ {from}
  <2>1. CASE j \in M \cup {to}
    <3>1. PICK i \in M : s[i] = j
      BY <2>1 DEF Shifts
    <3> QED BY <3>1, <1>4
  <2>2. CASE j \notin M \cup {to}
    BY <2>2, <1>5
  <2> QED BY <2>1, <2>2
<1>9. \A i \in D : Reindexed(D, M, to, new, index, new[i]) = i
  <2> TAKE i \in D
  <2> DEFINE A == AtIn(D, M, to, new, new[i])
  <2>1. CASE i \in M \cup {to}
    <3>1. A = {i}
      BY <2>1, <1>6 DEF AtIn
    <3> QED BY <3>1 DEF Reindexed
  <2>2. CASE i \notin M \cup {to}
    <3>1. A = {}
      BY <2>2, <1>6 DEF AtIn
    <3>2. new[i] = old[i] /\ i # from
      BY <2>2, <1>5
    <3> QED BY <3>1, <3>2 DEF Reindexed
  <2> QED BY <2>1, <2>2
<1> QED BY <1>3, <1>7, <1>8, <1>9

(* The order after a move, in terms of the keys of the nodes.              *)
Keyed(D, M, to, s, key, T) ==
  [i \in D |-> IF i = to THEN T ELSE IF i \in M THEN key[s[i]] ELSE key[i]]

(* A move up keeps the order if the event stops below one that is not      *)
(* later.                                                                  *)
LEMMA OrderUp ==
  ASSUME NEW from \in Nodes, NEW to \in Path(from), NEW D, D \subseteq Nodes,
         from \in D, \A i \in D \ {0} : PARENT(i) \in D,
         NEW T \in Int, NEW key, \A i \in D : key[i] \in Int,
         \A i \in D \ {0} : i # from /\ PARENT(i) # from => key[PARENT(i)] <= key[i],
         \A i \in D \ {0} : PARENT(i) = from /\ from # 0 => key[PARENT(from)] <= key[i],
         to = from => \A i \in D \ {0} : PARENT(i) # from,
         to = 0 \/ key[PARENT(to)] <= T,
         \A i \in Path(from) : i > to => T < key[PARENT(i)],
         NEW new, new = Keyed(D, Moved(from, to), to, Sources(from, to), key, T)
  PROVE  \A i \in D \ {0} : new[PARENT(i)] <= new[i]
<1> DEFINE M == Moved(from, to)
<1>1. PathsTo(from) /\ \A x \in Path(from) : x \in Nat /\ x <= from
  BY PathProperties, PathType
<1>2. to \in Nat /\ from \in Nat /\ \A i \in D : i \in Nat
  BY NumNodesType, <1>1
<1>3. M = {i \in Path(from) : i > to}
  BY UpShifts
<1>4. \A i \in M : Sources(from, to)[i] = PARENT(i)
  BY UpShifts DEF Sources
<1>5. /\ to \in D => new[to] = T
      /\ \A i \in D : i \in M /\ i # to => new[i] = key[PARENT(i)]
      /\ \A i \in D : i \notin M /\ i # to => new[i] = key[i]
  BY <1>4 DEF Keyed
<1>6. \A i \in D \ {0} : PARENT(i) \in D /\ PARENT(i) \in Nat /\ PARENT(i) < i
  BY <1>2, ParentBelow
<1> SUFFICES ASSUME NEW i \in D \ {0} PROVE new[PARENT(i)] <= new[i]
  OBVIOUS
<1> DEFINE p == PARENT(i)
<1>7. p \in D /\ p \in Nat /\ p < i /\ key[p] \in Int /\ key[i] \in Int /\ i \in Nat
  BY <1>2, <1>6
<1>8. CASE i \in M
  <2>1. i \in Path(from) /\ i > to
    BY <1>3, <1>8
  <2>2. new[i] = key[p] /\ T < key[p] /\ p \in Path(from) /\ to <= p
    BY <2>1, <1>1, <1>2, <1>5, <1>8 DEF PathsTo
  <2>3. CASE p = to
    BY <2>2, <2>3, <1>5, <1>7
  <2>4. CASE p # to
    <3>1. p \in M /\ p > to
      BY <2>2, <2>4, <1>2, <1>3, <1>7
    <3>2. new[p] = key[PARENT(p)] /\ p # 0
      BY <3>1, <1>2, <1>5, <1>7
    <3>3. p # from /\ PARENT(p) # from
      <4>1. PARENT(p) < p /\ PARENT(p) \in Nat
        BY <3>2, <1>6, <1>7
      <4> QED BY <4>1, <2>1, <1>1, <1>2, <1>7
    <3> QED BY <2>2, <3>2, <3>3, <1>7
  <2> QED BY <2>3, <2>4
<1>9. CASE i = to
  <2>1. p \notin M /\ p # to
    BY <1>3, <1>7, <1>9, <1>2
  <2> QED BY <2>1, <1>5, <1>7, <1>9
<1>10. CASE i \notin M /\ i # to
  <2>1. new[i] = key[i]
    BY <1>5, <1>10
  <2>0. i # from
    BY <1>1, <1>2, <1>3, <1>10 DEF PathsTo
  <2>2. CASE p = to
    <3>1. new[p] = T /\ to # from
      BY <2>2, <1>5, <1>7
    <3>2. PICK c \in Path(from) : c > to /\ PARENT(c) = to
      BY <3>1, PathSuccessor
    <3>3. T < key[to]
      BY <3>2
    <3> QED BY <2>0, <2>1, <2>2, <3>1, <3>3, <1>7
  <2>3. CASE p \in M /\ p # to
    <3>1. new[p] = key[PARENT(p)] /\ p # 0 /\ PARENT(p) < p /\ PARENT(p) \in D /\ PARENT(p) \in Nat
      BY <2>3, <1>2, <1>3, <1>5, <1>6, <1>7
    <3>2. CASE p = from
      BY <3>1, <3>2, <2>1
    <3>3. CASE p # from
      <4>1. PARENT(p) # from
        BY <2>3, <3>1, <1>1, <1>2, <1>3, <1>7
      <4>2. key[PARENT(p)] <= key[p] /\ key[PARENT(p)] \in Int
        BY <3>1, <3>3, <4>1, <1>7
      <4> QED BY <2>0, <3>1, <3>3, <4>2, <2>1, <1>7
    <3> QED BY <3>2, <3>3
  <2>4. CASE p \notin M /\ p # to
    <3>1. p # from
      BY <2>4, <1>1, <1>2, <1>3 DEF PathsTo
    <3> QED BY <2>0, <2>1, <2>4, <3>1, <1>5, <1>7
  <2> QED BY <2>2, <2>3, <2>4
<1> QED BY <1>8, <1>9, <1>10

(* A move down keeps the order if the event stops above none that is       *)
(* earlier.                                                                *)
LEMMA OrderDown ==
  ASSUME NEW D, NEW to \in D, NEW from \in Path(to), D \subseteq Nodes,
         \A i \in D \ {0} : PARENT(i) \in D,
         NEW T \in Int, NEW key, \A i \in D : key[i] \in Int,
         \A i \in D \ {0} : key[PARENT(i)] <= key[i],
         from # 0 => key[PARENT(from)] <= T,
         \A i \in D \ {0} : PARENT(i) = to => T <= key[i],
         \A c \in Path(to) : c > from =>
            key[c] < T /\ \A i \in D \ {0} : PARENT(i) = PARENT(c) => key[c] <= key[i],
         NEW new, new = Keyed(D, Moved(from, to), to, Sources(from, to), key, T)
  PROVE  \A i \in D \ {0} : new[PARENT(i)] <= new[i]
<1> DEFINE M == Moved(from, to)
           S(i) == Sources(from, to)[i]
<1>1. PathsTo(to) /\ \A x \in Path(to) : x \in Nat /\ x <= to
  BY PathProperties, PathType
<1>2. to \in Nat /\ from \in Nat /\ from <= to /\ \A i \in D : i \in Nat
  BY NumNodesType, <1>1
<1>3. M = {i \in Path(to) : i < to /\ i >= from}
  BY DownShifts
<1>4. \A i \in M : S(i) = Source(from, to, i) /\ S(i) \in Path(to) /\ S(i) # 0 /\ PARENT(S(i)) = i
  BY DownShifts DEF Sources
<1>5. /\ new[to] = T
      /\ \A i \in D : i \in M /\ i # to => new[i] = key[S(i)]
      /\ \A i \in D : i \notin M /\ i # to => new[i] = key[i]
  BY DEF Keyed
<1>6. \A i \in D \ {0} : PARENT(i) \in D /\ PARENT(i) \in Nat /\ PARENT(i) < i
  BY <1>2, ParentBelow
<1>7. Path(to) \subseteq D
  <2>1. ASSUME NEW x \in Path(to), x \notin D PROVE FALSE
    <3>1. to \in Path(to) \cap D
      BY <1>1 DEF PathsTo
    <3> DEFINE Out == {d \in 0 .. to : to - d \in Path(to) /\ to - d \notin D}
    <3>2. to - x \in Out
      BY <2>1, <1>1, <1>2
    <3>3. PICK d \in Out : \A y \in Out : d <= y
      <4>1. Out \in SUBSET (0 .. (to + 1) - 1) /\ to + 1 \in Nat
        BY <1>2
      <4> HIDE DEF Out
      <4> QED BY <3>2, <4>1, LeastElement
    <3>4. to - d \in Path(to) /\ to - d # to /\ to - d \in Nat /\ to - d \notin D
      BY <3>1, <3>3, <1>1
    <3>5. PICK c \in Path(to) : c > to - d /\ PARENT(c) = to - d
      BY <3>4, PathSuccessor
    <3>6. c \in D
      <4>1. c \in Nat /\ c <= to
        BY <1>1
      <4>2. to - c \in 0 .. to /\ to - (to - c) = c /\ to - c < d
        BY <4>1, <3>4, <3>5, <3>3, <1>2
      <4> QED BY <4>2, <3>3, <3>5
    <3>7. c # 0
      BY <3>4, <3>5
    <3> QED BY <3>4, <3>5, <3>6, <3>7
  <2> QED BY <2>1
<1>8. \A i \in M : S(i) \in Nat /\ S(i) > from /\ S(i) > i /\ S(i) \in D \ {0} /\ key[S(i)] < T
  <2> TAKE i \in M
  <2>1. S(i) \in Path(to) /\ S(i) # 0 /\ PARENT(S(i)) = i /\ S(i) \in Nat /\ i >= from /\ i \in Nat
    BY <1>1, <1>3, <1>4
  <2>2. i < S(i)
    BY <2>1, ParentBelow
  <2> HIDE DEF S, M
  <2>3. S(i) > from
    BY <2>1, <2>2, <1>2
  <2> QED BY <2>1, <2>2, <2>3, <1>7
<1> HIDE DEF S
<1> SUFFICES ASSUME NEW i \in D \ {0} PROVE new[PARENT(i)] <= new[i]
  OBVIOUS
<1> DEFINE p == PARENT(i)
<1>9. p \in D /\ p \in Nat /\ p < i /\ key[p] \in Int /\ key[i] \in Int /\ i \in Nat /\ key[p] <= key[i]
  BY <1>2, <1>6
<1> HIDE DEF M
<1>10. CASE i \in M
  <2>1. i \in Path(to) /\ i < to /\ i >= from
    BY <1>3, <1>10
  <2>2. new[i] = key[S(i)] /\ key[i] <= key[S(i)] /\ key[S(i)] \in Int
    BY <2>1, <1>4, <1>5, <1>8, <1>10, <1>2
  <2>3. CASE i > from
    <3>1. p \in Path(to) /\ from <= p
      BY <2>1, <2>3, <1>1 DEF PathsTo
    <3>2. p \in M /\ p # to
      BY <2>1, <3>1, <1>3, <1>9, <1>2
    <3>3. new[p] = key[S(p)] /\ S(p) \in Path(to) /\ S(p) > from /\ PARENT(S(p)) = p
      BY <3>2, <1>4, <1>5, <1>8, <1>9
    <3>4. key[S(p)] <= key[i]
      BY <3>3
    <3>5. key[S(p)] \in Int
      BY <3>2, <1>8
    <3> QED BY <2>2, <3>3, <3>4, <3>5, <1>9
  <2>4. CASE i = from
    <3>1. p \notin M /\ p # to
      BY <2>1, <2>4, <1>3, <1>9, <1>2
    <3> QED BY <2>2, <3>1, <1>5, <1>9
  <2> QED BY <2>1, <2>3, <2>4, <1>2, <1>9
<1>11. CASE i = to
  <2>1. CASE i = from
    <3>1. p \notin M /\ p # to
      BY <2>1, <1>3, <1>9, <1>2
    <3> QED BY <2>1, <3>1, <1>5, <1>9, <1>11
  <2>2. CASE i # from
    <3>1. p \in M /\ p # to
      <4>1. to \in Path(to) /\ from < to /\ to # 0
        BY <1>1, <1>2, <2>2, <1>11 DEF PathsTo
      <4>2. p \in Path(to) /\ from <= p
        BY <4>1, <1>1, <1>11 DEF PathsTo
      <4> QED BY <4>2, <1>3, <1>9, <1>11, <1>2
    <3> QED BY <3>1, <1>5, <1>8, <1>9, <1>11
  <2> QED BY <2>1, <2>2
<1>12. CASE i \notin M /\ i # to
  <2>1. new[i] = key[i]
    BY <1>5, <1>12
  <2>2. CASE p = to
    BY <2>1, <2>2, <1>5
  <2>3. CASE p \in M /\ p # to
    <3>1. new[p] = key[S(p)] /\ S(p) \in Path(to) /\ S(p) > from /\ PARENT(S(p)) = p
      BY <2>3, <1>4, <1>5, <1>8, <1>9
    <3> QED BY <2>1, <3>1
  <2>4. CASE p \notin M /\ p # to
    BY <2>1, <2>4, <1>5, <1>9
  <2> QED BY <2>2, <2>3, <2>4
<1> QED BY <1>10, <1>11, <1>12

-----------------------------------------------------------------------------
(* A record with the fields the heap works on.                             *)
HasHeap(h) ==
  /\ h = [x \in DOMAIN h |-> h[x]]
  /\ {"heap", "index", "evttim", "boundary_evttim"} \subseteq DOMAIN h

(* The record r is h but for some of the fields.                           *)
SameBut(r, h, fields) ==
  /\ DOMAIN r = DOMAIN h /\ r = [x \in DOMAIN r |-> r[x]]
  /\ \A x \in DOMAIN h \ fields : r[x] = h[x]

(* The time of the event at a node, as it is compared.                     *)
KeyAt(h, i) == EVTTIM_ADVANCE(h, time(h, i))

(* The inductive form of HeapWellFormed.                                   *)
Filled(h) ==
  LET n == Cardinality(Registered(h)) IN
  /\ Registered(h) \subseteq TMEVTB /\ n \in 0 .. NumNodes
  /\ h.heap \in [0 .. n - 1 -> Registered(h)]
  /\ h.index \in [Registered(h) -> 0 .. n - 1]
  /\ h.evttim \in [Registered(h) -> EVTTIM] /\ h.boundary_evttim \in EVTTIM
  /\ \A e \in Registered(h) : h.heap[h.index[e]] = e
  /\ \A i \in 0 .. n - 1 : h.index[h.heap[i]] = i

(* No event is earlier than the one at the parent of its node.             *)
Ordered(h) == \A i \in DOMAIN h.heap \ {0} : KeyAt(h, PARENT(i)) <= KeyAt(h, i)

(* What holds between the operations of the heap.                          *)
HeapGood(h) == HasHeap(h) /\ Filled(h) /\ Ordered(h)

(* The inductive invariant gives HeapWellFormed, and num_tmevt is the      *)
(* number of events registered.                                            *)
LEMMA GoodWellFormed ==
  ASSUME NEW h, HeapGood(h)
  PROVE  HeapWellFormed(h) /\ num_tmevt(h) = Cardinality(Registered(h))
<1> DEFINE n == Cardinality(Registered(h))
<1>1. n \in Nat /\ DOMAIN h.heap = 0 .. n - 1 /\ DOMAIN h.index = Registered(h)
  BY NumNodesType DEF HeapGood, Filled
<1>2. Cardinality(0 .. n - 1) = n
  BY <1>1, FS_Interval
<1>3. num_tmevt(h) = n
  BY <1>1, <1>2 DEF num_tmevt
<1> QED BY <1>1, <1>3 DEF HeapWellFormed, HeapGood, Filled, Ordered, KeyAt, EVTTIM_LE

(* Compared times lie in the range of event times.                         *)
LEMMA KeyType ==
  ASSUME NEW h, Filled(h), NEW t \in EVTTIM
  PROVE  EVTTIM_ADVANCE(h, t) \in 0 .. W - 1
<1>1. t - h.boundary_evttim \in Int
  BY TimeHeapAssumption DEF Filled, EVTTIM
<1> QED BY <1>1, Remainder, TimeHeapAssumption DEF EVTTIM_ADVANCE

(* So do the times of the events in the array.                             *)
LEMMA KeyAtType ==
  ASSUME NEW h, Filled(h), NEW i \in 0 .. Cardinality(Registered(h)) - 1
  PROVE  time(h, i) \in EVTTIM /\ KeyAt(h, i) \in 0 .. W - 1
<1>1. time(h, i) \in EVTTIM
  BY DEF Filled, time
<1> QED BY <1>1, KeyType DEF KeyAt

(* Place touches the array and the indices only.                           *)
LEMMA PlaceFields ==
  ASSUME NEW h, HasHeap(h), NEW n, NEW from, NEW to, NEW e, NEW r, r = Place(h, n, from, to, e)
  PROVE  /\ r.heap = Rearranged(0 .. n - 1, Moved(from, to), to, Sources(from, to), h.heap, e)
         /\ r.index = [x \in DOMAIN h.index |->
                         Reindexed(0 .. n - 1, Moved(from, to), to, r.heap, h.index, x)]
         /\ HasHeap(r) /\ SameBut(r, h, {"heap", "index"})
<1> DEFINE M == Moved(from, to)
           hp == [i \in 0 .. n - 1 |-> IF i = to THEN e
                    ELSE IF i \in M THEN h.heap[Source(from, to, i)] ELSE h.heap[i]]
           ix == [x \in DOMAIN h.index |->
                    LET at == {i \in (M \cup {to}) \cap DOMAIN hp : hp[i] = x}
                    IN IF at = {} THEN h.index[x] ELSE CHOOSE i \in at : TRUE]
<1>1. r = [h EXCEPT !.heap = hp, !.index = ix]
  BY DEF Place, Moved
<1>2. hp = Rearranged(0 .. n - 1, M, to, Sources(from, to), h.heap, e)
  BY DEF Rearranged, Sources
<1>3. ix = [x \in DOMAIN h.index |-> Reindexed(0 .. n - 1, M, to, hp, h.index, x)]
  <2>1. DOMAIN hp = 0 .. n - 1
    OBVIOUS
  <2> HIDE DEF hp, M
  <2> QED BY <2>1 DEF Reindexed, AtIn
<1> HIDE DEF hp, ix
<1>4. r.heap = hp /\ r.index = ix
  BY <1>1 DEF HasHeap
<1>5. DOMAIN r = DOMAIN h /\ r = [x \in DOMAIN r |-> r[x]]
  BY <1>1
<1>6. \A x \in DOMAIN h \ {"heap", "index"} : r[x] = h[x]
  BY <1>1
<1> QED BY <1>2, <1>3, <1>4, <1>5, <1>6 DEF HasHeap, SameBut

-----------------------------------------------------------------------------
(* The array and the indices agree after a move.                           *)
LEMMA StillFilled ==
  ASSUME NEW E, NEW D, NEW M, NEW to, NEW from, NEW s, NEW old, NEW e, NEW index, NEW new,
         Moves(D, M, from, to, s, old, e, index, new), e \in E,
         \A i \in D \ {from} : old[i] \in E,
         \A x \in E \ {e} : \E i \in D \ {from} : old[i] = x,
         NEW ind, \A x \in E : ind[x] = Reindexed(D, M, to, new, index, x)
  PROVE  /\ new \in [D -> E]
         /\ \A x \in E : ind[x] \in D /\ new[ind[x]] = x
         /\ \A i \in D : ind[new[i]] = i
<1>1. /\ \A i \in D : new[i] = e \/ \E j \in D \ {from} : new[i] = old[j]
      /\ \A j \in D \ {from} : \E i \in D : new[i] = old[j]
      /\ new[to] = e
      /\ \A i \in D : Reindexed(D, M, to, new, index, new[i]) = i
  BY Rearrangement
<1>2. \A i \in D : new[i] \in E
  BY <1>1
<1>3. new = [i \in D |-> new[i]]
  BY DEF Rearranged, Moves
<1>4. \A i \in D : ind[new[i]] = i
  BY <1>1, <1>2
<1>5. ASSUME NEW x \in E PROVE ind[x] \in D /\ new[ind[x]] = x
  <2>1. \E i \in D : new[i] = x
    BY <1>1 DEF Moves
  <2> QED BY <2>1, <1>4
<1> QED BY <1>2, <1>3, <1>4, <1>5

(* The state after a registration.                                         *)
Inserted(r, h, e, t) ==
  /\ HeapGood(r) /\ SameBut(r, h, {"heap", "index", "evttim"})
  /\ Registered(r) = Registered(h) \cup {e}
  /\ r.evttim = [x \in Registered(h) \cup {e} |-> IF x = e THEN t ELSE h.evttim[x]]

(* tmevtb_insert keeps the heap a heap, and registers one event.           *)
LEMMA InsertGood ==
  ASSUME NEW h, HeapGood(h), NEW e \in TMEVTB \ Registered(h), NEW t \in EVTTIM
  PROVE  Inserted(tmevtb_insert(h, e, t), h, e, t)
<1> DEFINE E == Registered(h)
           n == Cardinality(E)
           ev == [x \in E \cup {e} |-> IF x = e THEN t ELSE h.evttim[x]]
           ix == [x \in E \cup {e} |-> IF x = e THEN n ELSE h.index[x]]
           timed == [h EXCEPT !.evttim = ev, !.index = ix]
           to == tmevt_up(h, n, t)
           r == Place(timed, n + 1, n, to, e)
           D == 0 .. n
           M == Moved(n, to)
           s == Sources(n, to)
<1>1. /\ HasHeap(h) /\ E \subseteq TMEVTB /\ e \notin E /\ e \in TMEVTB
      /\ h.heap \in [0 .. n - 1 -> E] /\ h.index \in [E -> 0 .. n - 1]
      /\ h.evttim \in [E -> EVTTIM] /\ h.boundary_evttim \in EVTTIM
      /\ \A x \in E : h.heap[h.index[x]] = x
      /\ \A i \in 0 .. n - 1 : h.index[h.heap[i]] = i
      /\ \A i \in 0 .. n - 1 : i # 0 => KeyAt(h, PARENT(i)) <= KeyAt(h, i)
  BY DEF HeapGood, Filled, Ordered
<1>2. IsFiniteSet(E) /\ IsFiniteSet(TMEVTB)
  BY <1>1, TimeHeapAssumption, FS_Subset
<1>3. n \in Nat /\ n + 1 = Cardinality(E \cup {e}) /\ n + 1 <= NumNodes
  <2>1. n \in Nat /\ Cardinality(E \cup {e}) = n + 1
    BY <1>1, <1>2, FS_CardinalityType, FS_AddElement
  <2>2. E \cup {e} \subseteq TMEVTB
    BY <1>1
  <2>3. Cardinality(E \cup {e}) <= Cardinality(TMEVTB)
    BY <2>2, <1>2, FS_Subset
  <2> QED BY <2>1, <2>3, NumNodesType DEF NumNodes
<1>4. num_tmevt(h) = n
  BY GoodWellFormed
<1>5. tmevtb_insert(h, e, t) = r
  BY <1>4 DEF tmevtb_insert
<1>6. /\ HasHeap(timed) /\ timed.heap = h.heap /\ timed.index = ix /\ timed.evttim = ev
      /\ timed.boundary_evttim = h.boundary_evttim
      /\ SameBut(timed, h, {"index", "evttim"})
  <2> HIDE DEF ev, ix
  <2>1. DOMAIN timed = DOMAIN h /\ timed = [x \in DOMAIN timed |-> timed[x]]
    BY <1>1, ZenonT(60) DEF HasHeap
  <2> QED BY <2>1, <1>1 DEF HasHeap, SameBut
<1> HIDE DEF timed
<1>7. n \in Nodes
  BY <1>3, NumNodesType
<1>8. UpFrom(h, n, t, to)
  BY <1>7, UpProperties
<1> HIDE DEF to
<1>9. to \in Path(n) /\ to \in D /\ M \subseteq D /\ Shifts(M, n, to, s) /\ \A i \in Path(n) : i \in Nat /\ i <= n
  <2>1. to \in Path(n) /\ \A i \in Path(n) : i \in Nat /\ i <= n
    BY <1>7, <1>8, PathType DEF UpFrom
  <2>2. Shifts(M, n, to, s) /\ M \subseteq Path(n)
    BY <1>7, <2>1, UpShifts
  <2> QED BY <2>1, <2>2, <1>3
<1>10. /\ r.heap = Rearranged(D, M, to, s, h.heap, e)
       /\ r.index = [x \in E \cup {e} |-> Reindexed(D, M, to, r.heap, ix, x)]
       /\ HasHeap(r) /\ SameBut(r, timed, {"heap", "index"})
  <2>1. (n + 1) - 1 = n
    BY <1>3
  <2>2. DOMAIN timed.index = E \cup {e}
    BY <1>6
  <2> HIDE DEF r, ix, D
  <2>3. /\ r.heap = Rearranged(0 .. (n + 1) - 1, M, to, s, timed.heap, e)
       /\ r.index = [x \in DOMAIN timed.index |-> Reindexed(0 .. (n + 1) - 1, M, to, r.heap, timed.index, x)]
       /\ HasHeap(r) /\ SameBut(r, timed, {"heap", "index"})
    BY <1>6, PlaceFields DEF r
  <2> QED BY <2>1, <2>2, <2>3, <1>6 DEF D
<1> HIDE DEF r
<1>11. /\ r.evttim = ev /\ r.boundary_evttim = h.boundary_evttim
       /\ Registered(r) = E \cup {e}
       /\ SameBut(r, h, {"heap", "index", "evttim"})
  <2>1. DOMAIN ev = E \cup {e}
    OBVIOUS
  <2> HIDE DEF ev
  <2> QED BY <1>6, <1>10, <1>1, <2>1 DEF SameBut, HasHeap, Registered
<1>12. /\ r.heap \in [D -> E \cup {e}]
       /\ \A x \in E \cup {e} : r.index[x] \in D /\ r.heap[r.index[x]] = x
       /\ \A i \in D : r.index[r.heap[i]] = i
  <2>1. /\ \A i \in D \ {n} : h.heap[i] \in E \cup {e}
        /\ \A i \in D \ {n} : h.heap[i] # e /\ ix[h.heap[i]] = i
    <3>1. \A i \in D \ {n} : i \in 0 .. n - 1
      BY ONLY <1>3
    <3> HIDE DEF D, E, n
    <3>2. /\ h.heap \in [0 .. n - 1 -> E] /\ e \notin E
          /\ \A i \in 0 .. n - 1 : h.index[h.heap[i]] = i
      BY ONLY <1>1, Zenon
    <3>4. ASSUME NEW i \in D \ {n}
          PROVE  h.heap[i] \in E /\ h.heap[i] # e /\ h.index[h.heap[i]] = i
      <4>1. i \in 0 .. n - 1
        BY ONLY <3>1, i \in D \ {n}, Zenon
      <4>2. h.heap[i] \in E
        BY ONLY <3>2, <4>1
      <4> QED BY ONLY <3>2, <4>1, <4>2, Zenon
    <3>3. \A x \in E : x # e => ix[x] = h.index[x]
      OBVIOUS
    <3> HIDE DEF ix
    <3> QED BY ONLY <3>3, <3>4
  <2>2. \A x \in (E \cup {e}) \ {e} : \E i \in D \ {n} : h.heap[i] = x
    <3> TAKE x \in (E \cup {e}) \ {e}
    <3>1. h.index[x] \in D \ {n} /\ h.heap[h.index[x]] = x
      BY <1>1, <1>3
    <3> QED BY <3>1
  <2>3. \A x \in E \cup {e} : r.index[x] = Reindexed(D, M, to, r.heap, ix, x)
    BY <1>10
  <2> DEFINE F == E \cup {e}
  <2>4. e \in F
    OBVIOUS
  <2>5. Moves(D, M, n, to, s, h.heap, e, ix, r.heap)
    <3> HIDE DEF D, M, s, ix, n
    <3> QED BY <2>1, <1>9, <1>10 DEF Moves
  <2>6. (\A i \in D \ {n} : h.heap[i] \in F) /\ (\A x \in F \ {e} : \E i \in D \ {n} : h.heap[i] = x)
    BY <2>1, <2>2
  <2>7. (\A x \in F : r.index[x] = Reindexed(D, M, to, r.heap, ix, x)) /\ F = E \cup {e}
    BY <2>3
  <2> HIDE DEF D, M, s, ix, n, F
  <2>8. /\ r.heap \in [D -> F]
        /\ \A x \in F : r.index[x] \in D /\ r.heap[r.index[x]] = x
        /\ \A i \in D : r.index[r.heap[i]] = i
    BY <2>4, <2>5, <2>6, <2>7, StillFilled
  <2> QED BY <2>7, <2>8
<1>13. Filled(r)
  <2>1. ev \in [E \cup {e} -> EVTTIM]
    BY <1>1
  <2>2. E \cup {e} \subseteq TMEVTB /\ r.index = [x \in E \cup {e} |-> r.index[x]]
    BY <1>1, <1>10
  <2>3. r.index \in [E \cup {e} -> D]
    BY <2>2, <1>12
  <2>4. n + 1 \in 0 .. NumNodes /\ (n + 1) - 1 = n
    BY <1>3, NumNodesType
  <2>5. Cardinality(Registered(r)) = n + 1 /\ 0 .. (n + 1) - 1 = D
    BY <2>4, <1>3, <1>11
  <2>6. E \cup {e} = Registered(r)
    BY <1>11
  <2> HIDE DEF ev, ix, D, E, n
  <2> QED BY <2>1, <2>2, <2>3, <2>4, <2>5, <2>6, <1>11, <1>12, <1>1 DEF Filled
<1>14. Ordered(r)
  <2> DEFINE key == [i \in D |-> IF i < n THEN KeyAt(h, i) ELSE 0]
             T == EVTTIM_ADVANCE(h, t)
             new == Keyed(D, M, to, s, key, T)
  <2>1. T \in Int /\ \A i \in D : key[i] \in Int
    <3>1. Filled(h)
      BY DEF HeapGood
    <3>2. \A i \in 0 .. n - 1 : KeyAt(h, i) \in Int
      BY <3>1, KeyAtType
    <3> QED BY <3>1, <3>2, <1>3, KeyType
  <2>2. D \subseteq Nodes /\ n \in D /\ \A i \in D \ {0} : PARENT(i) \in D /\ PARENT(i) < i /\ PARENT(i) \in Nat
    BY <1>3, NumNodesType, ParentBelow
  <2>3. \A i \in D \ {0} : PARENT(i) # n
    BY <2>2, <1>3
  <2>4. \A i \in D \ {0} : i # n => key[PARENT(i)] <= key[i]
    BY <2>2, <1>1, <1>3
  <2>5. to = 0 \/ key[PARENT(to)] <= T
    BY <2>2, <1>3, <1>8, <1>9 DEF UpFrom, EVTTIM_LE, KeyAt
  <2>6. \A i \in Path(n) : i > to => T < key[PARENT(i)]
    <3> TAKE i \in Path(n)
    <3> HAVE i > to
    <3>1. i \in D \ {0} /\ i <= n
      BY <1>3, <1>9
    <3>2. PARENT(i) < n /\ PARENT(i) \in D /\ key[PARENT(i)] \in Int
      BY <2>1, <2>2, <3>1, <1>3
    <3> QED BY <3>2, <2>1, <1>8 DEF UpFrom, EVTTIM_LE, KeyAt
  <2>7. \A i \in D : KeyAt(r, i) = new[i]
    <3> TAKE i \in D
    <3>1. CASE i = to
      <4>1. r.heap[i] = e
        BY <1>10, <3>1 DEF Rearranged
      <4> QED BY <4>1, <3>1, <1>11 DEF KeyAt, time, EVTTIM_ADVANCE, Keyed
    <3>2. CASE i # to /\ i \in M
      <4>1. s[i] \in D /\ s[i] < n /\ s[i] \in 0 .. n - 1
        <5>1. s[i] \in D \ {n}
          BY <3>2, <1>9 DEF Shifts
        <5> QED BY <5>1, <1>3
      <4>2. r.heap[i] = h.heap[s[i]] /\ h.heap[s[i]] \in E
        BY <1>10, <3>2, <4>1, <1>1 DEF Rearranged
      <4>3. r.evttim[r.heap[i]] = h.evttim[h.heap[s[i]]]
        BY <4>2, <1>11, <1>1
      <4>4. new[i] = KeyAt(h, s[i])
        BY <3>2, <4>1 DEF Keyed
      <4> QED BY <4>3, <4>4, <1>11, Zenon DEF KeyAt, time, EVTTIM_ADVANCE
    <3>3. CASE i # to /\ i \notin M
      <4>1. i < n /\ i \in 0 .. n - 1
        BY <3>3, <1>3, <1>9 DEF Shifts
      <4>2. r.heap[i] = h.heap[i] /\ h.heap[i] \in E
        BY <1>10, <3>3, <4>1, <1>1 DEF Rearranged
      <4>3. r.evttim[r.heap[i]] = h.evttim[h.heap[i]]
        BY <4>2, <1>11, <1>1
      <4>4. new[i] = KeyAt(h, i)
        BY <3>3, <4>1 DEF Keyed
      <4> QED BY <4>3, <4>4, <1>11, Zenon DEF KeyAt, time, EVTTIM_ADVANCE
    <3> QED BY <3>1, <3>2, <3>3
  <2> HIDE DEF D, key, T, new, M, s
  <2>8. new = Keyed(D, Moved(n, to), to, Sources(n, to), key, T)
    BY DEF new, M, s
  <2>9. \A i \in D \ {0} : new[PARENT(i)] <= new[i]
    BY <2>1, <2>2, <2>3, <2>4, <2>5, <2>6, <2>8, <1>7, <1>9, OrderUp
  <2>10. DOMAIN r.heap = D
    BY <1>12
  <2> QED BY <2>2, <2>7, <2>9, <2>10 DEF Ordered
<1>15. HeapGood(r)
  BY <1>10, <1>13, <1>14 DEF HeapGood
<1> QED BY <1>5, <1>11, <1>15 DEF Inserted

-----------------------------------------------------------------------------
(* The earlier child is not later than the other.                          *)
LEMMA EarlierChildLeast ==
  ASSUME NEW h, NEW n \in Nat, \A j \in 0 .. n - 1 : KeyAt(h, j) \in Int,
         NEW c \in 0 .. n - 1, c # 0
  PROVE  LCHILD(PARENT(c)) < n /\ KeyAt(h, EarlierChild(h, n, PARENT(c))) <= KeyAt(h, c)
<1> DEFINE i == PARENT(c)
<1>1. i \in Nat /\ LCHILD(i) \in Nat /\ (c = LCHILD(i) \/ c = LCHILD(i) + 1)
  BY ParentBelow DEF LCHILD
<1> HIDE DEF i
<1>2. KeyAt(h, LCHILD(i)) \in Int /\ KeyAt(h, c) \in Int
  BY <1>1
<1> QED BY <1>1, <1>2 DEF EarlierChild, EVTTIM_LT, KeyAt, i

(* The state after a cancellation.                                         *)
Deleted(r, h, e) ==
  /\ HeapGood(r) /\ SameBut(r, h, {"heap", "index", "evttim"})
  /\ Registered(r) = Registered(h) \ {e}
  /\ r.evttim = [x \in Registered(h) \ {e} |-> h.evttim[x]]

(* Refilling a node with the last event, and moving that up or down, keeps *)
(* the heap a heap and forgets one event.                                  *)
LEMMA RefillGood ==
  ASSUME NEW h, HeapGood(h), NEW node \in 0 .. Cardinality(Registered(h)) - 1
  PROVE  Deleted(Refill(h, Cardinality(Registered(h)) - 1, node, h.heap[node]), h, h.heap[node])
<1> DEFINE E == Registered(h)
           n == Cardinality(E) - 1
           e == h.heap[node]
           last == h.heap[n]
           t == h.evttim[last]
           T == EVTTIM_ADVANCE(h, t)
           Up == node > 0 /\ EVTTIM_LT(h, t, time(h, PARENT(node)))
           to == IF Up THEN tmevt_up(h, PARENT(node), t) ELSE tmevt_down(h, n, node, t)
           q == Place(h, n, node, to, last)
           r == Forget(q, e)
           D == 0 .. n - 1
           F == E \ {e}
           M == Moved(node, to)
           s == Sources(node, to)
<1>1. /\ HasHeap(h) /\ E \subseteq TMEVTB
      /\ n \in Nat /\ Cardinality(E) = n + 1 /\ n < NumNodes
      /\ h.heap \in [0 .. n -> E] /\ h.index \in [E -> 0 .. n]
      /\ h.evttim \in [E -> EVTTIM] /\ h.boundary_evttim \in EVTTIM
      /\ \A x \in E : h.heap[h.index[x]] = x
      /\ \A i \in 0 .. n : h.index[h.heap[i]] = i
      /\ node \in 0 .. n /\ node \in Nat
  BY NumNodesType, SMTT(60) DEF HeapGood, Filled
<1>2. Filled(h) /\ \A i \in 0 .. n : i # 0 => KeyAt(h, PARENT(i)) <= KeyAt(h, i)
  BY <1>1 DEF HeapGood, Ordered
<1>3. \A i \in 0 .. n : KeyAt(h, i) \in Int /\ i \in Nat
  BY <1>1, <1>2, KeyAtType
<1>4. T = KeyAt(h, n) /\ T \in Int
  BY <1>1, <1>3 DEF KeyAt, time
<1>5. Refill(h, n, node, e) = r
  BY DEF Refill
<1>6. e \in E /\ last \in E /\ h.index[e] = node /\ h.index[last] = n
  <2>1. n \in 0 .. n /\ node \in 0 .. n
    BY <1>1
  <2> HIDE DEF n, E
  <2> QED BY <2>1, <1>1
<1>7. IsFiniteSet(E) /\ Cardinality(F) = n
  BY <1>1, <1>6, TimeHeapAssumption, FS_Subset, FS_RemoveElement
<1>8. /\ q.heap = Rearranged(D, M, to, s, h.heap, last)
      /\ q.index = [x \in E |-> Reindexed(D, M, to, q.heap, h.index, x)]
      /\ HasHeap(q) /\ SameBut(q, h, {"heap", "index"})
  <2>1. DOMAIN h.index = E
    BY <1>1
  <2> HIDE DEF q, D, last, to, n, E
  <2>2. /\ q.heap = Rearranged(0 .. n - 1, M, to, s, h.heap, last)
        /\ q.index = [x \in DOMAIN h.index |-> Reindexed(0 .. n - 1, M, to, q.heap, h.index, x)]
        /\ HasHeap(q) /\ SameBut(q, h, {"heap", "index"})
    BY <1>1, PlaceFields DEF q
  <2> QED BY <2>1, <2>2 DEF D
<1>9. node \in Nodes /\ n \in Nodes /\ n \in 0 .. NumNodes /\ D \subseteq Nodes
  BY <1>1, NumNodesType
<1> HIDE DEF q, to
<1>10. /\ r.heap = q.heap /\ r.index = [x \in F |-> q.index[x]]
       /\ r.evttim = [x \in F |-> h.evttim[x]] /\ r.boundary_evttim = h.boundary_evttim
       /\ HasHeap(r) /\ Registered(r) = F
       /\ SameBut(r, h, {"heap", "index", "evttim"})
  <2>1. q.evttim = h.evttim /\ q.boundary_evttim = h.boundary_evttim /\ Registered(q) = E
    BY <1>1, <1>8 DEF SameBut, HasHeap, Registered
  <2> DEFINE ev == [x \in E \ {e} |-> q.evttim[x]]
             ix == [x \in E \ {e} |-> q.index[x]]
  <2>2. r = [q EXCEPT !.evttim = ev, !.index = ix]
    BY <2>1 DEF Forget
  <2>3. ev = [x \in F |-> h.evttim[x]] /\ ix = [x \in F |-> q.index[x]]
    BY <2>1
  <2>4. DOMAIN ev = F
    OBVIOUS
  <2> HIDE DEF r, ev, ix, F
  <2>5. DOMAIN r = DOMAIN q /\ r = [x \in DOMAIN r |-> r[x]]
    BY <2>2, <1>8 DEF HasHeap
  <2>6. /\ r.heap = q.heap /\ r.index = ix /\ r.evttim = ev /\ r.boundary_evttim = q.boundary_evttim
        /\ \A x \in DOMAIN q \ {"index", "evttim"} : r[x] = q[x]
    BY <2>2, <2>5, <1>8 DEF HasHeap
  <2> QED BY <2>1, <2>3, <2>4, <2>5, <2>6, <1>8 DEF HasHeap, SameBut, Registered
<1> HIDE DEF r
<1>11. SUFFICES /\ r.heap \in [D -> F]
                /\ \A x \in F : r.index[x] \in D /\ r.heap[r.index[x]] = x
                /\ \A i \in D : r.index[r.heap[i]] = i
                /\ \A i \in D \ {0} : KeyAt(r, PARENT(i)) <= KeyAt(r, i)
  <2>1. r.evttim \in [F -> EVTTIM] /\ F \subseteq TMEVTB /\ r.index \in [F -> D]
    <3>1. \A x \in F : h.evttim[x] \in EVTTIM
      BY <1>1
    <3>2. r.index = [x \in F |-> r.index[x]]
      BY <1>10
    <3>3. F \subseteq TMEVTB
      BY <1>1
    <3> HIDE DEF E, F, D, n
    <3> QED BY <3>1, <3>2, <3>3, <1>10, <1>11
  <2>2. n \in 0 .. NumNodes /\ Cardinality(Registered(r)) = n /\ Registered(r) = F /\ DOMAIN r.heap = D
    BY <1>7, <1>9, <1>10, <1>11
  <2> HIDE DEF E, F, n
  <2>3. Filled(r)
    BY <2>1, <2>2, <1>1, <1>10, <1>11 DEF Filled
  <2>4. Ordered(r)
    BY <2>2, <1>11 DEF Ordered
  <2>5. HeapGood(r)
    BY <2>3, <2>4, <1>10 DEF HeapGood
  <2> QED BY <2>5, <1>5, <1>10 DEF Deleted, E, n, F
<1>12. \A i \in D \ {node} : h.heap[i] \in F /\ h.heap[i] # last
  <2>1. D \subseteq 0 .. n /\ n \notin D
    BY <1>1
  <2> HIDE DEF D, E, n
  <2> SUFFICES ASSUME NEW i \in D \ {node} PROVE h.heap[i] \in F /\ h.heap[i] # last
    OBVIOUS
  <2>2. i \in 0 .. n /\ i # n /\ i # node
    BY ONLY <2>1, i \in D \ {node}
  <2>3. h.heap[i] \in E
    BY ONLY <2>2, <1>1
  <2>4. h.index[h.heap[i]] = i
    BY ONLY <2>2, <1>1
  <2> QED BY ONLY <2>2, <2>3, <2>4, <1>6 DEF F
<1>13. CASE node = n
  <2>1. ~ Up
    <3>1. node > 0 => KeyAt(h, PARENT(node)) <= KeyAt(h, n) /\ PARENT(node) \in 0 .. n
      BY <1>1, <1>2, <1>13, ParentBelow
    <3> QED BY <3>1, <1>3, <1>4 DEF EVTTIM_LT, KeyAt
  <2>2. to = n
    <3>1. to = tmevt_down(h, n, n, t)
      BY <2>1, <1>13 DEF to
    <3>2. LCHILD(n) >= n
      BY <1>1 DEF LCHILD
    <3> QED BY <3>1, <3>2, <1>9, DownUnfold
  <2>3. M = {}
    <3>1. n \in Path(n) /\ \A i \in Path(n) : ~ (i > n)
      BY <1>9, PathProperties, PathType DEF PathsTo
    <3> QED BY <3>1, <2>2, <1>9, <1>13, UpShifts
  <2>4. \A i \in D : r.heap[i] = h.heap[i] /\ i # to /\ i \in 0 .. n
    BY <1>1, <1>8, <1>10, <2>2, <2>3 DEF Rearranged
  <2>5. DOMAIN r.heap = D /\ r.heap = [i \in D |-> r.heap[i]]
    BY <1>8, <1>10 DEF Rearranged
  <2>6. \A x \in F : r.index[x] = h.index[x]
    <3>1. \A x : AtIn(D, M, to, q.heap, x) = {}
      BY <2>2, <2>3, <1>1 DEF AtIn
    <3> QED BY <3>1, <1>8, <1>10 DEF Reindexed
  <2>7. \A x \in F : h.index[x] \in D
    <3> TAKE x \in F
    <3>1. h.index[x] # n
      BY <1>1, <1>6, <1>13
    <3> QED BY <3>1, <1>1
  <2>8. \A i \in D : i # node
    BY <2>2, <2>4, <1>13
  <2>9. r.heap \in [D -> F]
    BY <2>4, <2>5, <2>8, <1>12
  <2>10. \A x \in F : r.index[x] \in D /\ r.heap[r.index[x]] = x
    BY <2>4, <2>6, <2>7, <1>1
  <2>11. \A i \in D : r.index[r.heap[i]] = i
    BY <2>4, <2>6, <2>9, <1>1
  <2>12. \A i \in D : KeyAt(r, i) = KeyAt(h, i)
    <3> TAKE i \in D
    <3>1. r.heap[i] = h.heap[i] /\ h.heap[i] \in F
      BY <2>4, <2>9
    <3> QED BY <3>1, <1>10 DEF KeyAt, time, EVTTIM_ADVANCE
  <2>13. \A i \in D \ {0} : KeyAt(r, PARENT(i)) <= KeyAt(r, i)
    <3> TAKE i \in D \ {0}
    <3>1. PARENT(i) \in D /\ i \in D /\ i \in 0 .. n
      BY <1>1, ParentBelow, SMTT(60)
    <3> QED BY <3>1, <2>12, <1>2
  <2> QED BY <2>9, <2>10, <2>11, <2>13
<1>14. CASE node # n
  <2>1. node \in D /\ n > 0
    BY <1>1, <1>14
  <2>2. node > 0 => PARENT(node) \in D /\ PARENT(node) < node /\ PARENT(node) \in Nodes /\ PARENT(node) \in Nat
    <3> HAVE node > 0
    <3>1. PARENT(node) \in 0 .. node - 1
      BY <1>1, ParentBelow
    <3>2. node <= n - 1 /\ n \in Nat /\ node \in Nat
      BY <2>1, <1>1
    <3>3. PARENT(node) \in D
      BY <3>1, <3>2
    <3> QED BY <3>1, <3>2, <3>3, <1>9
  <2>3. ASSUME Up
        PROVE  /\ to \in Path(node) /\ to < node /\ to \in Nat
               /\ to = 0 \/ EVTTIM_LE(h, time(h, PARENT(to)), t)
               /\ \A i \in Path(node) : i > to => ~ EVTTIM_LE(h, time(h, PARENT(i)), t)
    <3> DEFINE p == PARENT(node)
    <3>1. p \in Nodes /\ p < node /\ node # 0 /\ p \in D /\ p \in Nat
      BY <2>2, <2>3
    <3>2. to = tmevt_up(h, p, t)
      BY <2>3 DEF to
    <3>3. UpFrom(h, p, t, to)
      BY <3>1, <3>2, UpProperties
    <3>4. Path(node) = {node} \cup Path(p)
      BY <1>9, <3>1, PathUnfold
    <3>5. to \in Nat /\ to <= p
      BY <3>1, <3>3, PathType DEF UpFrom
    <3>6. ~ EVTTIM_LE(h, time(h, p), t)
      <4>1. KeyAt(h, p) \in Int
        BY <3>1, <1>1, <1>3
      <4> QED BY <4>1, <1>4, <2>3 DEF EVTTIM_LT, EVTTIM_LE, KeyAt
    <3> HIDE DEF p
    <3>7. \A i \in Path(node) : i > to => ~ EVTTIM_LE(h, time(h, PARENT(i)), t)
      BY <3>3, <3>4, <3>6 DEF UpFrom, p
    <3>8. to \in Path(node) /\ (to = 0 \/ EVTTIM_LE(h, time(h, PARENT(to)), t))
      BY <3>3, <3>4 DEF UpFrom
    <3>9. to < node
      BY <3>1, <3>5, <1>1
    <3> QED BY <3>5, <3>7, <3>8, <3>9
  <2>4. ASSUME ~ Up
        PROVE  DownFrom(h, n, node, t, to)
    <3>1. to = tmevt_down(h, n, node, t)
      BY <2>4 DEF to
    <3> QED BY <3>1, <1>9, DownProperties
  <2>5. to \in D /\ M \subseteq D /\ Shifts(M, node, to, s)
    <3>1. CASE Up
      <4>1. Shifts(M, node, to, s) /\ M \subseteq Path(node)
        BY <2>3, <3>1, <1>9, UpShifts
      <4>2. Path(node) \subseteq D
        <5>1. \A i \in Path(node) : i \in Nat /\ i <= node
          BY <1>9, PathType
        <5> QED BY <5>1, <2>1, <1>1
      <4> QED BY <4>1, <4>2, <2>3, <3>1
    <3>2. CASE ~ Up
      <4>1. to \in Nodes /\ node \in Path(to) /\ to \in D
        BY <2>1, <2>4, <3>2, <1>1, NumNodesType, SMTT(60) DEF DownFrom
      <4>2. Shifts(M, node, to, s) /\ M \subseteq Path(to)
        BY <4>1, DownShifts
      <4>3. \A i \in Path(to) : i \in Nat /\ i <= to
        BY <4>1, PathType
      <4>4. Path(to) \subseteq D
        <5>1. to <= n - 1 /\ n \in Nat /\ to \in Nat
          BY <4>1, <1>1
        <5> HIDE DEF n
        <5> QED BY <5>1, <4>3
      <4> QED BY <4>1, <4>2, <4>4
    <3> QED BY <3>1, <3>2
  <2>6. last \in F
    BY <1>6, <1>14
  <2>7. Moves(D, M, node, to, s, h.heap, last, h.index, q.heap)
    <3>1. \A i \in D \ {node} : h.heap[i] # last /\ h.index[h.heap[i]] = i
      BY <1>1, <1>12
    <3> HIDE DEF D, M, s, last
    <3> QED BY <3>1, <2>5, <1>8 DEF Moves
  <2>8. \A x \in F \ {last} : \E i \in D \ {node} : h.heap[i] = x
    <3> TAKE x \in F \ {last}
    <3>1. h.index[x] \in D \ {node} /\ h.heap[h.index[x]] = x
      BY <1>1, <1>6, SMTT(60)
    <3> QED BY <3>1
  <2>9. /\ r.heap \in [D -> F]
        /\ \A x \in F : r.index[x] \in D /\ r.heap[r.index[x]] = x
        /\ \A i \in D : r.index[r.heap[i]] = i
    <3>1. \A x \in F : r.index[x] = Reindexed(D, M, to, r.heap, h.index, x)
      BY <1>8, <1>10
    <3>2. \A i \in D \ {node} : h.heap[i] \in F
      BY <1>12
    <3>3. Moves(D, M, node, to, s, h.heap, last, h.index, r.heap)
      BY <2>7, <1>10
    <3> HIDE DEF D, M, s, last, F
    <3> QED BY <3>1, <3>2, <3>3, <2>6, <2>8, StillFilled
  <2> DEFINE key == [i \in D |-> KeyAt(h, i)]
             new == Keyed(D, M, to, s, key, T)
  <2>10. \A i \in D : KeyAt(r, i) = new[i]
    <3> TAKE i \in D
    <3>0. r.heap[i] = Rearranged(D, M, to, s, h.heap, last)[i] /\ r.heap[i] \in F
      BY <1>8, <1>10, <2>9
    <3>1. r.evttim[r.heap[i]] = h.evttim[r.heap[i]]
      BY <3>0, <1>10
    <3>2. CASE i = to
      <4>1. r.heap[i] = last
        BY <3>0, <3>2 DEF Rearranged
      <4> QED BY <4>1, <3>1, <3>2, <1>10 DEF KeyAt, time, EVTTIM_ADVANCE, Keyed
    <3>3. CASE i # to /\ i \in M
      <4>1. s[i] \in D /\ r.heap[i] = h.heap[s[i]]
        BY <3>0, <3>3, <2>5 DEF Rearranged, Shifts
      <4>2. new[i] = KeyAt(h, s[i])
        BY <4>1, <3>3 DEF Keyed
      <4> QED BY <4>1, <4>2, <3>1, <1>10, Zenon DEF KeyAt, time, EVTTIM_ADVANCE
    <3>4. CASE i # to /\ i \notin M
      <4>1. r.heap[i] = h.heap[i]
        BY <3>0, <3>4 DEF Rearranged
      <4>2. new[i] = KeyAt(h, i)
        BY <3>4 DEF Keyed
      <4> QED BY <4>1, <4>2, <3>1, <1>10, Zenon DEF KeyAt, time, EVTTIM_ADVANCE
    <3> QED BY <3>2, <3>3, <3>4
  <2>11. /\ \A i \in D \ {0} : PARENT(i) \in D /\ PARENT(i) < i /\ PARENT(i) \in Nat
         /\ \A i \in D : key[i] \in Int
         /\ \A i \in D \ {0} : key[PARENT(i)] <= key[i]
    <3>1. \A i \in D \ {0} : PARENT(i) \in D /\ PARENT(i) < i /\ PARENT(i) \in Nat /\ i \in 0 .. n
      BY <1>1, ParentBelow, SMTT(60)
    <3>2. \A i \in D : i \in 0 .. n
      BY <1>1
    <3> HIDE DEF D
    <3> QED BY <3>1, <3>2, <1>2, <1>3
  <2>12. \A i \in D \ {0} : new[PARENT(i)] <= new[i]
    <3>1. CASE Up
      <4>1. \A i \in D \ {0} : PARENT(i) = node /\ node # 0 => key[PARENT(node)] <= key[i]
        <5> TAKE i \in D \ {0}
        <5> HAVE PARENT(i) = node /\ node # 0
        <5>1. key[node] <= key[i] /\ key[PARENT(node)] <= key[node]
          BY <2>1, <2>11
        <5>2. key[node] \in Int /\ key[i] \in Int /\ key[PARENT(node)] \in Int
          BY <2>1, <2>2, <2>11
        <5> QED BY <5>1, <5>2
      <4>2. to = 0 \/ key[PARENT(to)] <= T
        BY <2>3, <2>5, <2>11, <3>1 DEF EVTTIM_LE, KeyAt
      <4>3. \A i \in Path(node) : i > to => T < key[PARENT(i)]
        <5> TAKE i \in Path(node)
        <5> HAVE i > to
        <5>1. i \in Nat /\ i <= node
          BY <1>9, PathType
        <5>2. i \in D \ {0}
          BY <5>1, <2>1, <2>3, <3>1, <1>1
        <5>3. key[PARENT(i)] \in Int /\ PARENT(i) \in D
          BY <5>2, <2>11
        <5> QED BY <5>3, <2>3, <3>1, <1>4 DEF EVTTIM_LE, KeyAt
      <4>4. to \in Path(node) /\ to # node
        BY <2>3, <3>1, <1>1
      <4>5. new = Keyed(D, Moved(node, to), to, Sources(node, to), key, T)
        OBVIOUS
      <4> HIDE DEF D, key, T, new
      <4> QED BY <4>1, <4>2, <4>3, <4>4, <4>5, <2>1, <2>11, <1>4, <1>9, OrderUp
    <3>2. CASE ~ Up
      <4>1. to \in D /\ node \in Path(to) /\ DownFrom(h, n, node, t, to)
        BY <2>4, <2>5, <3>2 DEF DownFrom
      <4>2. node # 0 => key[PARENT(node)] <= T
        <5> HAVE node # 0
        <5>1. PARENT(node) \in D /\ KeyAt(h, PARENT(node)) \in Int /\ node > 0
          BY <2>2, <2>11, <1>1
        <5> QED BY <5>1, <3>2, <1>4 DEF EVTTIM_LT, KeyAt
      <4>3. \A i \in D \ {0} : LCHILD(PARENT(i)) < n /\ KeyAt(h, EarlierChild(h, n, PARENT(i))) <= key[i]
        BY <1>1, <1>3, EarlierChildLeast
      <4>4. \A i \in D \ {0} : KeyAt(h, EarlierChild(h, n, PARENT(i))) \in Int
        <5> TAKE i \in D \ {0}
        <5>1. EarlierChild(h, n, PARENT(i)) \in 0 .. n
          BY <4>3, <2>11, <1>1, EarlierChildType
        <5> QED BY <5>1, <1>3
      <4>5. \A i \in D \ {0} : PARENT(i) = to => T <= key[i]
        <5> TAKE i \in D \ {0}
        <5> HAVE PARENT(i) = to
        <5>0. LCHILD(to) < n /\ LCHILD(to) \in Nat
          BY <4>1, <4>3, <1>3, <1>1 DEF LCHILD
        <5>1. T <= KeyAt(h, EarlierChild(h, n, to))
          BY <5>0, <4>1, <1>1 DEF DownFrom, EVTTIM_LE, KeyAt
        <5> QED BY <5>1, <4>3, <4>4, <2>11, <1>4
      <4>6. \A c \in Path(to) : c > node =>
              key[c] < T /\ \A i \in D \ {0} : PARENT(i) = PARENT(c) => key[c] <= key[i]
        <5> TAKE c \in Path(to)
        <5> HAVE c > node
        <5>1. c \in Nat /\ c <= to /\ to \in Nodes
          BY <4>1, PathType DEF DownFrom
        <5>2. c \in D /\ c # 0
          BY <5>1, <4>1, <1>1
        <5>3. c = EarlierChild(h, n, PARENT(c)) /\ ~ EVTTIM_LE(h, t, time(h, c))
          BY <4>1 DEF DownFrom
        <5>4. key[c] < T
          BY <5>2, <5>3, <2>11, <1>4 DEF EVTTIM_LE, KeyAt
        <5>5. \A i \in D \ {0} : PARENT(i) = PARENT(c) => key[c] <= key[i]
          BY <5>2, <5>3, <4>3
        <5> QED BY <5>4, <5>5
      <4>7. new = Keyed(D, Moved(node, to), to, Sources(node, to), key, T)
        OBVIOUS
      <4> HIDE DEF D, key, T, new
      <4> QED BY <4>1, <4>2, <4>5, <4>6, <4>7, <2>11, <1>4, <1>9, OrderDown
    <3> QED BY <3>1, <3>2
  <2>13. \A i \in D \ {0} : KeyAt(r, PARENT(i)) <= KeyAt(r, i)
    BY <2>10, <2>11, <2>12
  <2> QED BY <2>9, <2>13
<1> QED BY <1>13, <1>14

-----------------------------------------------------------------------------
(* tmevtb_delete does.                                                     *)
LEMMA DeleteGood ==
  ASSUME NEW h, HeapGood(h), NEW e \in Registered(h)
  PROVE  Deleted(tmevtb_delete(h, e), h, e)
<1>1. h.index[e] \in 0 .. Cardinality(Registered(h)) - 1 /\ h.heap[h.index[e]] = e
  BY DEF HeapGood, Filled
<1>2. num_tmevt(h) = Cardinality(Registered(h))
  BY GoodWellFormed
<1> QED BY <1>1, <1>2, RefillGood DEF tmevtb_delete

(* The root is in use whenever an event is registered.                     *)
LEMMA TopNode ==
  ASSUME NEW h, HeapGood(h), Registered(h) # {}
  PROVE  /\ 0 \in 0 .. Cardinality(Registered(h)) - 1
         /\ h.heap[0] \in Registered(h) /\ h.index[h.heap[0]] = 0
<1>1. IsFiniteSet(Registered(h))
  BY TimeHeapAssumption, FS_Subset DEF HeapGood, Filled
<1>2. Cardinality(Registered(h)) \in Nat /\ Cardinality(Registered(h)) # 0
  BY <1>1, FS_CardinalityType, FS_EmptySet
<1> QED BY <1>2, SMTT(60) DEF HeapGood, Filled

(* tmevtb_delete_top does, for the event at the root.                      *)
LEMMA DeleteTopGood ==
  ASSUME NEW h, HeapGood(h), Registered(h) # {}
  PROVE  h.heap[0] \in Registered(h) /\ Deleted(tmevtb_delete_top(h), h, h.heap[0])
<1>1. num_tmevt(h) = Cardinality(Registered(h))
  BY GoodWellFormed
<1> QED BY <1>1, TopNode, RefillGood DEF tmevtb_delete_top

(* How far an event is behind the boundary.                                *)
Adv(m, e) == EVTTIM_ADVANCE(m, m.evttim[e])

(* The time of a registered event lies in the range of event times.        *)
LEMMA AdvType ==
  ASSUME NEW h, HeapGood(h)
  PROVE  /\ \A e \in Registered(h) : Adv(h, e) \in 0 .. W - 1
         /\ \A i \in DOMAIN h.heap : h.heap[i] \in Registered(h) /\ KeyAt(h, i) = Adv(h, h.heap[i])
         /\ DOMAIN h.heap = 0 .. Cardinality(Registered(h)) - 1
<1>1. \A e \in Registered(h) : h.evttim[e] \in EVTTIM
  BY DEF HeapGood, Filled
<1> QED BY <1>1, KeyType DEF HeapGood, Filled, Adv, KeyAt, time

(* The first event is an earliest.                                         *)
LEMMA TopEarliest ==
  ASSUME NEW h, HeapGood(h)
  PROVE  \A e \in Registered(h) : Adv(h, h.heap[0]) <= Adv(h, e)
<1> DEFINE n == Cardinality(Registered(h))
           Bad == {i \in 0 .. n - 1 : ~ (KeyAt(h, 0) <= KeyAt(h, i))}
<1>1. n \in Nat /\ DOMAIN h.heap = 0 .. n - 1
  BY NumNodesType DEF HeapGood, Filled
<1>2. ASSUME Bad # {} PROVE FALSE
  <2>1. PICK i \in Bad : \A j \in Bad : i <= j
    <3>1. Bad \in SUBSET (0 .. n - 1)
      OBVIOUS
    <3> HIDE DEF Bad, n
    <3> QED BY <1>1, <1>2, <3>1, LeastElement
  <2>2. i \in 0 .. n - 1 /\ i # 0 /\ 0 \in 0 .. n - 1
    <3>1. i \in 0 .. n - 1 /\ 0 \in 0 .. n - 1
      BY <1>1
    <3>2. KeyAt(h, 0) \in Int
      BY <3>1, <1>1, AdvType
    <3> QED BY <3>1, <3>2
  <2>3. PARENT(i) \in 0 .. n - 1 /\ PARENT(i) < i
    BY <2>2, <1>1, ParentBelow
  <2>4. PARENT(i) \notin Bad
    BY <2>1, <2>2, <2>3, <1>1
  <2>5. KeyAt(h, PARENT(i)) <= KeyAt(h, i)
    BY <2>2, <1>1 DEF HeapGood, Ordered
  <2>6. KeyAt(h, 0) \in Int /\ KeyAt(h, i) \in Int /\ KeyAt(h, PARENT(i)) \in Int
    BY <2>2, <2>3, <1>1, AdvType
  <2>7. KeyAt(h, 0) <= KeyAt(h, PARENT(i))
    BY <2>3, <2>4
  <2> QED BY <2>1, <2>5, <2>6, <2>7
<1>3. ASSUME NEW e \in Registered(h) PROVE Adv(h, h.heap[0]) <= Adv(h, e)
  <2>1. h.index[e] \in 0 .. n - 1 /\ h.heap[h.index[e]] = e /\ 0 \in 0 .. n - 1
    BY <1>1 DEF HeapGood, Filled
  <2>2. KeyAt(h, 0) <= KeyAt(h, h.index[e])
    BY <1>2, <2>1
  <2> QED BY <2>1, <2>2, <1>1, AdvType
<1> QED BY <1>3

-----------------------------------------------------------------------------
(* An empty heap is a heap.                                                *)
LEMMA EmptyHeapGood ==
  ASSUME NEW h, h = [heap |-> <<>>, index |-> <<>>, evttim |-> <<>>, boundary_evttim |-> h.boundary_evttim],
         h.boundary_evttim \in EVTTIM
  PROVE  HeapGood(h) /\ Registered(h) = {}
<1>1. h.heap = <<>> /\ h.index = <<>> /\ h.evttim = <<>>
  OBVIOUS
<1>2. Registered(h) = {}
  BY <1>1 DEF Registered
<1>3. Cardinality(Registered(h)) = 0
  BY <1>2, FS_EmptySet
<1>4. h.heap \in [{} -> {}] /\ h.index \in [{} -> {}] /\ h.evttim \in [{} -> {}] /\ 0 .. 0 - 1 = {}
  BY <1>1
<1>5. Filled(h)
  <2>1. 0 \in 0 .. NumNodes
    BY NumNodesType
  <2> QED BY <2>1, <1>2, <1>3, <1>4 DEF Filled
<1>6. Ordered(h)
  BY <1>1 DEF Ordered
<1>7. HasHeap(h)
  BY DEF HasHeap
<1> QED BY <1>2, <1>5, <1>6, <1>7 DEF HeapGood

(* Whatever tmevtb_insert, tmevtb_delete and tmevtb_delete_top do to the   *)
(* array, it stays a heap, and its top is an earliest event: TimeHeap      *)
(* implements PriorityQueue.                                               *)
THEOREM QueueImplemented == HeapSpec => QueuePromised
<1> DEFINE h == tmevt_heap
           pend == [e \in Registered(h) |-> EVTTIM_ADVANCE(h, h.evttim[e])]
<1>1. HeapInit => HeapGood(tmevt_heap) /\ Queue!PqInit
  <2> SUFFICES ASSUME HeapInit PROVE HeapGood(tmevt_heap) /\ Queue!PqInit
    OBVIOUS
  <2>1. /\ h = [heap |-> <<>>, index |-> <<>>, evttim |-> <<>>, boundary_evttim |-> h.boundary_evttim]
        /\ h.boundary_evttim \in EVTTIM /\ p_top_tmevtb = NoEvent
    BY DEF HeapInit
  <2>2. HeapGood(h) /\ Registered(h) = {}
    <3> HIDE DEF h
    <3> QED BY <2>1, EmptyHeapGood
  <2>3. pend = <<>>
    BY <2>2
  <2> QED BY <2>1, <2>2, <2>3 DEF Queue!PqInit
<1>2. HeapGood(tmevt_heap) /\ [HeapNext]_heapVars => HeapGood(tmevt_heap)' /\ [Queue!PqNext]_Queue!queueVars
  <2> SUFFICES ASSUME HeapGood(tmevt_heap), [HeapNext]_heapVars
               PROVE  HeapGood(tmevt_heap)' /\ [Queue!PqNext]_Queue!queueVars
    OBVIOUS
  <2>1. ASSUME NEW e \in TMEVTB \ Registered(h), NEW t \in EVTTIM, InsertEvent(e, t)
        PROVE  HeapGood(h)' /\ Queue!PqNext
    <3> DEFINE T == EVTTIM_ADVANCE(h, t)
    <3>1. Inserted(h', h, e, t) /\ p_top_tmevtb' = NoEvent
      BY <2>1, InsertGood DEF InsertEvent
    <3>2. T \in EVTTIM
      BY KeyType DEF HeapGood, EVTTIM
    <3>3. h'.boundary_evttim = h.boundary_evttim /\ Registered(h') = Registered(h) \cup {e}
      BY <3>1 DEF Inserted, SameBut, HeapGood, HasHeap
    <3>4. \A f \in Registered(h) \cup {e} :
             EVTTIM_ADVANCE(h', h'.evttim[f]) = IF f = e THEN T ELSE EVTTIM_ADVANCE(h, h.evttim[f])
      BY <3>1, <3>3 DEF Inserted, EVTTIM_ADVANCE
    <3>5. pend' = [f \in Registered(h) \cup {e} |-> IF f = e THEN T ELSE pend[f]]
      <4> HIDE DEF T
      <4> QED BY <3>3, <3>4
    <3> HIDE DEF T, pend
    <3>6. DOMAIN pend = Registered(h)
      BY DEF pend
    <3>7. Queue!Add(e, T)
      BY <2>1, <3>1, <3>5, <3>6 DEF Queue!Add, Queue!Waits, pend
    <3> QED BY <3>1, <3>2, <3>7 DEF Inserted, Queue!PqNext
  <2>2. ASSUME NEW e \in Registered(h), Deleted(h', h, e)
        PROVE  HeapGood(h)' /\ pend' = [f \in Registered(h) \ {e} |-> pend[f]]
               /\ DOMAIN pend = Registered(h) /\ e \in TMEVTB
    <3>1. h'.boundary_evttim = h.boundary_evttim /\ Registered(h') = Registered(h) \ {e}
      BY <2>2 DEF Deleted, SameBut, HeapGood, HasHeap
    <3>2. \A f \in Registered(h) \ {e} : EVTTIM_ADVANCE(h', h'.evttim[f]) = EVTTIM_ADVANCE(h, h.evttim[f])
      BY <2>2, <3>1 DEF Deleted, EVTTIM_ADVANCE
    <3>3. pend' = [f \in Registered(h) \ {e} |-> pend[f]]
      BY <3>1, <3>2
    <3> QED BY <2>2, <3>3 DEF Deleted, HeapGood, Filled
  <2>3. ASSUME NEW e \in Registered(h), DeleteEvent(e)
        PROVE  HeapGood(h)' /\ Queue!PqNext
    <3>1. Deleted(h', h, e) /\ p_top_tmevtb' = NoEvent
      BY <2>3, DeleteGood DEF DeleteEvent
    <3>2. HeapGood(h)' /\ pend' = [f \in Registered(h) \ {e} |-> pend[f]]
          /\ DOMAIN pend = Registered(h) /\ e \in TMEVTB
      BY <2>2, <3>1
    <3> HIDE DEF pend
    <3>3. Queue!Withdraw(e)
      BY <2>3, <3>1, <3>2 DEF Queue!Withdraw, Queue!Without, Queue!Waits, pend
    <3> QED BY <3>2, <3>3 DEF Queue!PqNext
  <2>4. ASSUME Registered(h) # {}, DeleteTop
        PROVE  HeapGood(h)' /\ Queue!PqNext
    <3> DEFINE e == h.heap[0]
    <3>1. e \in Registered(h) /\ Deleted(h', h, e) /\ p_top_tmevtb' = e
      BY <2>4, DeleteTopGood DEF DeleteTop
    <3>2. HeapGood(h)' /\ pend' = [f \in Registered(h) \ {e} |-> pend[f]]
          /\ DOMAIN pend = Registered(h) /\ e \in TMEVTB
      BY <2>2, <3>1
    <3>3. \A f \in Registered(h) : pend[e] <= pend[f]
      BY <3>1, TopEarliest DEF Adv
    <3> HIDE DEF pend, e
    <3>4. Queue!TakeFirst(e)
      BY <3>1, <3>2, <3>3 DEF Queue!TakeFirst, Queue!Earliest, Queue!Without, Queue!Waits, pend
    <3> QED BY <3>2, <3>4 DEF Queue!PqNext
  <2>5. CASE UNCHANGED heapVars
    BY <2>5 DEF heapVars, Queue!queueVars
  <2> QED BY <2>1, <2>3, <2>4, <2>5 DEF HeapNext
<1>3. HeapGood(tmevt_heap) => HeapWellFormed(tmevt_heap)
  BY GoodWellFormed
<1> QED BY <1>1, <1>2, <1>3, PTL DEF HeapSpec, QueuePromised, Queue!PqSpec
=============================================================================
