--------------------------- MODULE LogServiceProofs ---------------------------
(***************************************************************************)
(* No entry of the system log gets lost unnoticed: EntriesAccounted.       *)
(* The invariant is stated of the text printed as a whole (Accounted), so  *)
(* that what moves a character along the line need only be shown to leave  *)
(* that text as it was; it says besides that the log holds entries younger *)
(* than all those told of.  LostIn is a recursive function: that there is  *)
(* one that satisfies its recursion, and only one, is proved first.        *)
(***************************************************************************)
EXTENDS LogService, SequenceTheorems, FiniteSetTheorems, WellFoundedInduction, TLAPS

(* The characters of the log.                                              *)
LogChar == [kind : {"entry", "lost"}, n : Nat]

(* How many entries a character says are lost.                             *)
Weight(c) == IF c.kind = "lost" THEN c.n ELSE 0

(* The recursion of LostIn, one step of it.                                *)
LostStep(s, f, i) == IF i = 0 THEN 0 ELSE f[i - 1] + Weight(s[i])

(* A non-empty set of numbers below N has a least element.                 *)
LEMMA LeastElement ==
  ASSUME NEW N \in Nat, NEW S \in SUBSET (0 .. N - 1), S # {}
  PROVE  \E x \in S : \A y \in S : x <= y
<1> DEFINE I == 0 .. N - 1
           T == {0 .. x : x \in S}
<1>1. IsWellFoundedOn(StrictSubsetOrdering(I), SUBSET I)
  <2>1. IsFiniteSet(I)
    BY FS_Interval
  <2>2. FiniteSubsetsOf(I) = SUBSET I
    BY <2>1, FS_FiniteSubsetsOfFinite
  <2> QED BY <2>2, FS_StrictSubsetOrderingWellFounded
<1>2. \A x \in S : 0 .. x \subseteq I
  OBVIOUS
<1>3. T \subseteq SUBSET I /\ T # {}
  <2>1. T \subseteq SUBSET I
    BY <1>2
  <2>2. T # {}
    <3>1. PICK x \in S : TRUE
      OBVIOUS
    <3>2. 0 .. x \in T
      OBVIOUS
    <3> QED BY <3>2
  <2> QED BY <2>1, <2>2
<1>4. PICK m \in T : \A u \in T : ~ (<<u, m>> \in StrictSubsetOrdering(I))
  <2> HIDE DEF T, I
  <2> QED BY <1>1, <1>3, WFMin
<1>5. PICK x \in S : m = 0 .. x
  BY <1>4
<1>6. ASSUME NEW y \in S, y < x PROVE FALSE
  <2>1. 0 .. y \in T
    OBVIOUS
  <2>2. 0 .. y \in SUBSET I /\ 0 .. x \in SUBSET I
    BY <1>2
  <2>3. 0 .. y \subseteq 0 .. x /\ x \in 0 .. x /\ x \notin 0 .. y
    BY <1>6
  <2>4. <<0 .. y, 0 .. x>> \in StrictSubsetOrdering(I)
    BY <2>2, <2>3 DEF StrictSubsetOrdering
  <2> QED BY <2>1, <2>4, <1>4, <1>5
<1> QED BY <1>6

(* Induction up to N.                                                      *)
LEMMA SetInduction ==
  ASSUME NEW N \in Nat, NEW S, 0 \in S, \A n \in 0 .. N - 1 : n \in S => n + 1 \in S
  PROVE  0 .. N \subseteq S
<1> DEFINE Missing == {n \in 0 .. N : n \notin S}
<1>1. SUFFICES ASSUME Missing # {} PROVE FALSE
  OBVIOUS
<1>2. N + 1 \in Nat /\ Missing \in SUBSET (0 .. (N + 1) - 1)
  OBVIOUS
<1>3. PICK x \in Missing : \A y \in Missing : x <= y
  <2> HIDE DEF Missing
  <2> QED BY <1>1, <1>2, LeastElement
<1>4. x # 0 /\ x - 1 \in 0 .. N - 1
  BY <1>3
<1>5. x - 1 \in S
  BY <1>3, <1>4
<1> QED BY <1>3, <1>4, <1>5
-----------------------------------------------------------------------------
(* There is a function that satisfies the recursion of LostIn.             *)
LEMMA LostExists ==
  ASSUME NEW s \in Seq(LogChar)
  PROVE  \E f : f = [i \in 0 .. Len(s) |-> LostStep(s, f, i)]
<1> DEFINE S == {m \in 0 .. Len(s) : \E f : f = [i \in 0 .. m |-> LostStep(s, f, i)]}
<1>0. Len(s) \in Nat
  OBVIOUS
<1>1. 0 \in S
  <2> DEFINE f == [i \in 0 .. 0 |-> 0]
  <2>1. \A i \in 0 .. 0 : LostStep(s, f, i) = 0
    BY DEF LostStep
  <2>2. f = [i \in 0 .. 0 |-> LostStep(s, f, i)]
    BY <2>1
  <2> HIDE DEF f
  <2> QED BY <2>2, <1>0
<1>2. ASSUME NEW m \in 0 .. Len(s) - 1, m \in S PROVE m + 1 \in S
  <2>1. PICK f : f = [i \in 0 .. m |-> LostStep(s, f, i)]
    BY <1>2
  <2> DEFINE g == [i \in 0 .. m + 1 |-> IF i <= m THEN f[i] ELSE f[m] + Weight(s[m + 1])]
  <2>2. \A i \in 0 .. m : g[i] = f[i]
    BY <1>0
  <2>3. \A i \in 0 .. m + 1 : g[i] = LostStep(s, g, i)
    <3> TAKE i \in 0 .. m + 1
    <3>1. CASE i = 0
      <4>1. f[0] = LostStep(s, f, 0)
        BY <2>1, <1>0, SMTT(60)
      <4> HIDE DEF g
      <4> QED BY <3>1, <4>1, <2>2, <1>0 DEF LostStep
    <3>2. CASE i \in 1 .. m
      <4>1. f[i] = LostStep(s, f, i) /\ i - 1 \in 0 .. m /\ i \in 0 .. m
        BY <2>1, <1>0, <3>2
      <4>2. g[i] = f[i] /\ g[i - 1] = f[i - 1]
        BY <4>1, <2>2
      <4> HIDE DEF g
      <4> QED BY <4>1, <4>2 DEF LostStep
    <3>3. CASE i = m + 1
      <4>1. g[i] = f[m] + Weight(s[m + 1]) /\ g[m] = f[m] /\ i - 1 = m /\ i # 0
        BY <3>3, <1>0
      <4> HIDE DEF g
      <4> QED BY <4>1, <3>3 DEF LostStep
    <3> QED BY <3>1, <3>2, <3>3, <1>0
  <2>4. g = [i \in 0 .. m + 1 |-> LostStep(s, g, i)]
    BY <2>3
  <2> HIDE DEF g
  <2> QED BY <2>4, <1>0
<1>3. 0 .. Len(s) \subseteq S
  <2> HIDE DEF S
  <2> QED BY <1>0, <1>1, <1>2, SetInduction
<1> QED BY <1>0, <1>3

(* And no other value is the last of such a function.                      *)
LEMMA LostUnique ==
  ASSUME NEW s \in Seq(LogChar), NEW g, \A i \in 0 .. Len(s) : g[i] = LostStep(s, g, i)
  PROVE  LostIn(s) = g[Len(s)]
<1> DEFINE sum == CHOOSE f : f = [i \in 0 .. Len(s) |-> LostStep(s, f, i)]
           S == {i \in 0 .. Len(s) : sum[i] = g[i]}
<1>0. Len(s) \in Nat
  OBVIOUS
<1>1. LostIn(s) = sum[Len(s)]
  BY DEF LostIn, LostStep, Weight
<1>2. sum = [i \in 0 .. Len(s) |-> LostStep(s, sum, i)]
  <2>1. \E f : f = [i \in 0 .. Len(s) |-> LostStep(s, f, i)]
    BY LostExists
  <2> QED BY <2>1
<1> HIDE DEF sum
<1>3. \A i \in 0 .. Len(s) : sum[i] = LostStep(s, sum, i)
  BY <1>2
<1>4. 0 \in S
  BY <1>0, <1>3 DEF LostStep
<1>5. ASSUME NEW m \in 0 .. Len(s) - 1, m \in S PROVE m + 1 \in S
  <2>1. m + 1 \in 0 .. Len(s) /\ (m + 1) - 1 = m /\ m + 1 # 0 /\ sum[m] = g[m]
    BY <1>0, <1>5
  <2>2. sum[m + 1] = LostStep(s, sum, m + 1) /\ g[m + 1] = LostStep(s, g, m + 1)
    BY <2>1, <1>3
  <2>3. sum[m + 1] = g[m + 1]
    BY <2>1, <2>2 DEF LostStep
  <2> QED BY <2>1, <2>3
<1>6. 0 .. Len(s) \subseteq S
  <2> HIDE DEF S
  <2> QED BY <1>0, <1>4, <1>5, SetInduction
<1> QED BY <1>0, <1>1, <1>6

(* So LostIn is the last value of a function that satisfies it.            *)
LEMMA LostUnfold ==
  ASSUME NEW s \in Seq(LogChar)
  PROVE  \E f \in [0 .. Len(s) -> Nat] : /\ \A i \in 0 .. Len(s) : f[i] = LostStep(s, f, i)
                                         /\ LostIn(s) = f[Len(s)]
<1>00. Len(s) \in Nat
  OBVIOUS
<1>0. \A i \in 1 .. Len(s) : Weight(s[i]) \in Nat
  <2> TAKE i \in 1 .. Len(s)
  <2>1. s[i] \in LogChar
    BY ElementOfSeq
  <2> QED BY <2>1 DEF Weight, LogChar
<1>1. PICK f : f = [i \in 0 .. Len(s) |-> LostStep(s, f, i)]
  BY LostExists
<1>2. \A i \in 0 .. Len(s) : f[i] = LostStep(s, f, i)
  BY <1>1
<1> DEFINE S == {i \in 0 .. Len(s) : f[i] \in Nat}
<1>3. 0 \in S
  BY <1>00, <1>2 DEF LostStep
<1>4. ASSUME NEW m \in 0 .. Len(s) - 1, m \in S PROVE m + 1 \in S
  <2>1. m + 1 \in 1 .. Len(s) /\ (m + 1) - 1 = m /\ m + 1 # 0 /\ f[m] \in Nat
    BY <1>00, <1>4
  <2>2. f[m + 1] = f[m] + Weight(s[m + 1])
    BY <2>1, <1>2 DEF LostStep
  <2> QED BY <2>1, <2>2, <1>0
<1>5. 0 .. Len(s) \subseteq S
  <2> HIDE DEF S
  <2> QED BY <1>00, <1>3, <1>4, SetInduction
<1>6. f \in [0 .. Len(s) -> Nat]
  BY <1>1, <1>5
<1>7. LostIn(s) = f[Len(s)]
  BY <1>2, LostUnique
<1> QED BY <1>2, <1>6, <1>7

-----------------------------------------------------------------------------
(* What is lost is a number.                                               *)
LEMMA LostType ==
  ASSUME NEW s \in Seq(LogChar) PROVE LostIn(s) \in Nat
<1>1. PICK f \in [0 .. Len(s) -> Nat] : LostIn(s) = f[Len(s)]
  BY LostUnfold
<1>2. Len(s) \in 0 .. Len(s)
  OBVIOUS
<1> QED BY <1>1, <1>2

(* What two texts say one after the other.                                 *)
LEMMA LostConcat ==
  ASSUME NEW s \in Seq(LogChar), NEW t \in Seq(LogChar)
  PROVE  LostIn(s \o t) = LostIn(s) + LostIn(t)
<1> DEFINE n == Len(s)
           k == Len(t)
           u == s \o t
<1>1. n \in Nat /\ k \in Nat
  OBVIOUS
<1>2. /\ u \in Seq(LogChar) /\ Len(u) = n + k
      /\ \A i \in 1 .. n : u[i] = s[i]
      /\ \A i \in n + 1 .. n + k : u[i] = t[i - n]
  <2>1. \A i \in 1 .. n + k : u[i] = IF i <= n THEN s[i] ELSE t[i - n]
    BY ConcatProperties
  <2>2. u \in Seq(LogChar) /\ Len(u) = n + k
    BY ConcatProperties
  <2> HIDE DEF u
  <2> QED BY <1>1, <2>1, <2>2
<1>3. PICK f \in [0 .. n -> Nat] : (\A i \in 0 .. n : f[i] = LostStep(s, f, i)) /\ LostIn(s) = f[n]
  BY LostUnfold
<1>4. PICK h \in [0 .. k -> Nat] : (\A i \in 0 .. k : h[i] = LostStep(t, h, i)) /\ LostIn(t) = h[k]
  BY LostUnfold
<1> DEFINE g == [i \in 0 .. n + k |-> IF i <= n THEN f[i] ELSE f[n] + h[i - n]]
<1> HIDE DEF u, n, k
<1>5. \A i \in 0 .. n : g[i] = f[i]
  BY <1>1
<1>6. \A j \in 0 .. k : g[n + j] = f[n] + h[j]
  <2> TAKE j \in 0 .. k
  <2>1. CASE j = 0
    <3>1. h[0] = 0 /\ f[n] \in Nat
      BY <1>1, <1>3, <1>4 DEF LostStep
    <3> QED BY <2>1, <3>1, <1>1
  <2>2. CASE j # 0
    <3>1. n + j \in 0 .. n + k /\ ~ (n + j <= n) /\ (n + j) - n = j
      BY <1>1, <2>2
    <3> QED BY <3>1
  <2> QED BY <2>1, <2>2
<1> HIDE DEF g
<1>7. \A i \in 0 .. n + k : g[i] = LostStep(u, g, i)
  <2> TAKE i \in 0 .. n + k
  <2>1. CASE i = 0
    BY <1>1, <1>3, <1>5, <2>1 DEF LostStep
  <2>2. CASE i \in 1 .. n
    <3>1. i \in 0 .. n /\ i - 1 \in 0 .. n /\ i # 0
      BY <1>1, <2>2
    <3>2. g[i] = f[i] /\ g[i - 1] = f[i - 1] /\ f[i] = LostStep(s, f, i) /\ u[i] = s[i]
      BY <3>1, <2>2, <1>2, <1>3, <1>5
    <3> QED BY <3>1, <3>2 DEF LostStep
  <2>3. CASE i \in n + 1 .. n + k
    <3> DEFINE j == i - n
    <3>1. j \in 1 .. k /\ j \in 0 .. k /\ j - 1 \in 0 .. k /\ j # 0 /\ i = n + j /\ i - 1 = n + (j - 1) /\ i # 0
      BY <1>1, <2>3
    <3>2. u[i] = t[j]
      BY <2>3, <1>2
    <3> HIDE DEF j
    <3>3. g[i] = f[n] + h[j] /\ g[i - 1] = f[n] + h[j - 1] /\ h[j] = h[j - 1] + Weight(t[j])
      BY <3>1, <1>4, <1>6 DEF LostStep
    <3>4. f[n] \in Nat /\ h[j - 1] \in Nat /\ Weight(t[j]) \in Nat
      <4>1. t[j] \in LogChar
        BY <3>1, ElementOfSeq DEF k
      <4>2. Weight(t[j]) \in Nat
        BY <4>1 DEF Weight, LogChar
      <4> QED BY <4>2, <3>1, <1>1, <1>3, <1>4
    <3>5. g[i] = g[i - 1] + Weight(t[j])
      BY <3>3, <3>4
    <3> QED BY <3>1, <3>2, <3>5 DEF LostStep
  <2> QED BY <2>1, <2>2, <2>3, <1>1
<1>8. LostIn(u) = g[n + k]
  <2>1. \A i \in 0 .. Len(u) : g[i] = LostStep(u, g, i)
    BY <1>2, <1>7
  <2>2. LostIn(u) = g[Len(u)]
    BY <1>2, <2>1, LostUnique
  <2> QED BY <2>2, <1>2
<1>9. g[n + k] = f[n] + h[k]
  BY <1>1, <1>6
<1> QED BY <1>3, <1>4, <1>8, <1>9 DEF u

(* Entries do not say that any are lost.                                   *)
LEMMA LostNone ==
  ASSUME NEW s \in Seq(LogChar), \A i \in 1 .. Len(s) : s[i].kind = "entry"
  PROVE  LostIn(s) = 0
<1> DEFINE g == [i \in 0 .. Len(s) |-> 0]
<1>1. Len(s) \in Nat
  OBVIOUS
<1>2. \A i \in 0 .. Len(s) : g[i] = LostStep(s, g, i)
  BY <1>1 DEF LostStep, Weight
<1>3. g[Len(s)] = 0
  BY <1>1
<1> HIDE DEF g
<1> QED BY <1>2, <1>3, LostUnique

(* What one character says is lost.                                        *)
LEMMA LostOne ==
  ASSUME NEW c \in LogChar PROVE LostIn(<<c>>) = Weight(c)
<1> DEFINE g == [i \in 0 .. 1 |-> IF i = 0 THEN 0 ELSE Weight(c)]
           s == <<c>>
<1>1. s \in Seq(LogChar) /\ Len(s) = 1 /\ s[1] = c /\ Weight(c) \in Nat
  BY DEF Weight, LogChar
<1> HIDE DEF s
<1>2. \A i \in 0 .. 1 : g[i] = LostStep(s, g, i)
  BY <1>1 DEF LostStep
<1>3. g[1] = Weight(c)
  OBVIOUS
<1> HIDE DEF g
<1>4. LostIn(s) = g[1]
  BY <1>1, <1>2, LostUnique
<1> QED BY <1>3, <1>4 DEF s

(* The entries in two texts.                                               *)
LEMMA EntriesConcat ==
  ASSUME NEW s \in Seq(LogChar), NEW t \in Seq(LogChar)
  PROVE  EntriesIn(s \o t) = EntriesIn(s) \cup EntriesIn(t)
<1> DEFINE n == Len(s)
           k == Len(t)
           u == s \o t
<1>1. n \in Nat /\ k \in Nat /\ DOMAIN s = 1 .. n /\ DOMAIN t = 1 .. k
  BY LenProperties
<1>2. DOMAIN u = 1 .. n + k /\ \A i \in 1 .. n : u[i] = s[i]
  <2>1. u \in Seq(LogChar) /\ Len(u) = n + k /\ \A i \in 1 .. n + k : u[i] = IF i <= n THEN s[i] ELSE t[i - n]
    BY ConcatProperties
  <2>2. DOMAIN u = 1 .. Len(u)
    BY <2>1, LenProperties
  <2> HIDE DEF u
  <2> QED BY <1>1, <2>1, <2>2
<1>3. \A j \in 1 .. k : u[n + j] = t[j]
  <2>1. \A i \in 1 .. n + k : u[i] = IF i <= n THEN s[i] ELSE t[i - n]
    BY ConcatProperties
  <2> HIDE DEF u
  <2> TAKE j \in 1 .. k
  <2>2. n + j \in 1 .. n + k /\ ~ (n + j <= n) /\ (n + j) - n = j
    BY <1>1
  <2> QED BY <2>1, <2>2
<1> HIDE DEF u, n, k
<1>4. EntriesIn(u) \subseteq EntriesIn(s) \cup EntriesIn(t)
  <2> SUFFICES ASSUME NEW i \in 1 .. n + k, u[i].kind = "entry" PROVE u[i].n \in EntriesIn(s) \cup EntriesIn(t)
    BY <1>2 DEF EntriesIn
  <2>1. CASE i \in 1 .. n
    BY <2>1, <1>1, <1>2 DEF EntriesIn
  <2>2. CASE i \notin 1 .. n
    <3>1. i - n \in 1 .. k /\ n + (i - n) = i
      BY <1>1, <2>2
    <3>2. u[i] = t[i - n]
      BY <3>1, <1>3
    <3> QED BY <3>1, <3>2, <1>1 DEF EntriesIn
  <2> QED BY <2>1, <2>2
<1>5. EntriesIn(s) \subseteq EntriesIn(u)
  <2> SUFFICES ASSUME NEW i \in 1 .. n, s[i].kind = "entry" PROVE s[i].n \in EntriesIn(u)
    BY <1>1 DEF EntriesIn
  <2>1. i \in 1 .. n + k /\ u[i] = s[i]
    BY <1>1, <1>2
  <2> QED BY <2>1, <1>2 DEF EntriesIn
<1>6. EntriesIn(t) \subseteq EntriesIn(u)
  <2> SUFFICES ASSUME NEW j \in 1 .. k, t[j].kind = "entry" PROVE t[j].n \in EntriesIn(u)
    BY <1>1 DEF EntriesIn
  <2>1. n + j \in 1 .. n + k /\ u[n + j] = t[j]
    BY <1>1, <1>3
  <2> QED BY <2>1, <1>2 DEF EntriesIn
<1> QED BY <1>4, <1>5, <1>6 DEF u

(* Their order.                                                            *)
LEMMA IncreasingConcat ==
  ASSUME NEW s \in Seq(LogChar), NEW t \in Seq(LogChar)
  PROVE  Increasing(s \o t) <=> /\ Increasing(s) /\ Increasing(t)
                                /\ \A x \in EntriesIn(s), y \in EntriesIn(t) : x < y
<1> DEFINE n == Len(s)
           k == Len(t)
           u == s \o t
<1>1. n \in Nat /\ k \in Nat /\ DOMAIN s = 1 .. n /\ DOMAIN t = 1 .. k
  BY LenProperties
<1>2. DOMAIN u = 1 .. n + k /\ \A i \in 1 .. n : u[i] = s[i]
  <2>1. u \in Seq(LogChar) /\ Len(u) = n + k /\ \A i \in 1 .. n + k : u[i] = IF i <= n THEN s[i] ELSE t[i - n]
    BY ConcatProperties
  <2>2. DOMAIN u = 1 .. Len(u)
    BY <2>1, LenProperties
  <2> HIDE DEF u
  <2> QED BY <1>1, <2>1, <2>2
<1>3. \A j \in 1 .. k : u[n + j] = t[j]
  <2>1. \A i \in 1 .. n + k : u[i] = IF i <= n THEN s[i] ELSE t[i - n]
    BY ConcatProperties
  <2> HIDE DEF u
  <2> TAKE j \in 1 .. k
  <2>2. n + j \in 1 .. n + k /\ ~ (n + j <= n) /\ (n + j) - n = j
    BY <1>1
  <2> QED BY <2>1, <2>2
<1> HIDE DEF u, n, k
<1>4. ASSUME Increasing(u) PROVE Increasing(s) /\ Increasing(t) /\ \A x \in EntriesIn(s), y \in EntriesIn(t) : x < y
  <2>1. Increasing(s)
    <3> SUFFICES ASSUME NEW i \in 1 .. n, NEW j \in 1 .. n, i < j, s[i].kind = "entry", s[j].kind = "entry"
                 PROVE  s[i].n < s[j].n
      BY <1>1 DEF Increasing
    <3>1. i \in 1 .. n + k /\ j \in 1 .. n + k /\ u[i] = s[i] /\ u[j] = s[j]
      BY <1>1, <1>2
    <3> QED BY <3>1, <1>2, <1>4 DEF Increasing
  <2>2. Increasing(t)
    <3> SUFFICES ASSUME NEW i \in 1 .. k, NEW j \in 1 .. k, i < j, t[i].kind = "entry", t[j].kind = "entry"
                 PROVE  t[i].n < t[j].n
      BY <1>1 DEF Increasing
    <3>1. n + i \in 1 .. n + k /\ n + j \in 1 .. n + k /\ u[n + i] = t[i] /\ u[n + j] = t[j] /\ n + i < n + j
      BY <1>1, <1>3
    <3> QED BY <3>1, <1>2, <1>4 DEF Increasing
  <2>3. ASSUME NEW x \in EntriesIn(s), NEW y \in EntriesIn(t) PROVE x < y
    <3>1. PICK i \in 1 .. n : s[i].kind = "entry" /\ x = s[i].n
      BY <1>1 DEF EntriesIn
    <3>2. PICK j \in 1 .. k : t[j].kind = "entry" /\ y = t[j].n
      BY <1>1 DEF EntriesIn
    <3>3. i \in 1 .. n + k /\ n + j \in 1 .. n + k /\ u[i] = s[i] /\ u[n + j] = t[j] /\ i < n + j
      BY <1>1, <1>2, <1>3
    <3> QED BY <3>1, <3>2, <3>3, <1>2, <1>4 DEF Increasing
  <2> QED BY <2>1, <2>2, <2>3
<1>5. ASSUME Increasing(s), Increasing(t), \A x \in EntriesIn(s), y \in EntriesIn(t) : x < y PROVE Increasing(u)
  <2> SUFFICES ASSUME NEW i \in 1 .. n + k, NEW j \in 1 .. n + k, i < j, u[i].kind = "entry", u[j].kind = "entry"
               PROVE  u[i].n < u[j].n
    BY <1>2 DEF Increasing
  <2>1. CASE i \in 1 .. n /\ j \in 1 .. n
    BY <2>1, <1>1, <1>2, <1>5 DEF Increasing
  <2>2. CASE i \in 1 .. n /\ j \notin 1 .. n
    <3>1. j - n \in 1 .. k /\ n + (j - n) = j
      BY <1>1, <2>2
    <3>2. u[j] = t[j - n] /\ u[i] = s[i]
      BY <3>1, <1>2, <1>3, <2>2
    <3>3. u[j].n \in EntriesIn(t) /\ u[i].n \in EntriesIn(s)
      BY <3>1, <3>2, <2>2, <1>1 DEF EntriesIn
    <3> QED BY <3>3, <1>5
  <2>3. CASE i \notin 1 .. n
    <3>1. i - n \in 1 .. k /\ n + (i - n) = i /\ j - n \in 1 .. k /\ n + (j - n) = j /\ i - n < j - n
      BY <1>1, <2>3
    <3>2. u[i] = t[i - n] /\ u[j] = t[j - n]
      BY <3>1, <1>3
    <3> QED BY <3>1, <3>2, <1>1, <1>5 DEF Increasing
  <2> QED BY <2>1, <2>2, <2>3
<1> QED BY <1>4, <1>5 DEF u

-----------------------------------------------------------------------------
LogRecord == [buffer : Seq(Nat), lost : Nat, logMask : SUBSET Priority, recorded : Nat]

(* What one character says.                                                *)
LEMMA OneChar ==
  ASSUME NEW c \in LogChar
  PROVE  /\ <<c>> \in Seq(LogChar) /\ LostIn(<<c>>) = Weight(c) /\ Increasing(<<c>>)
         /\ EntriesIn(<<c>>) = IF c.kind = "entry" THEN {c.n} ELSE {}
<1> DEFINE s == <<c>>
<1>1. s \in Seq(LogChar) /\ DOMAIN s = 1 .. 1 /\ s[1] = c
  OBVIOUS
<1>2. LostIn(s) = Weight(c)
  BY LostOne
<1> HIDE DEF s
<1>3. Increasing(s)
  BY <1>1 DEF Increasing
<1>4. EntriesIn(s) = IF c.kind = "entry" THEN {c.n} ELSE {}
  BY <1>1 DEF EntriesIn
<1> QED BY <1>1, <1>2, <1>3, <1>4 DEF s

(* The empty text says nothing.                                            *)
LEMMA NoChars ==
  <<>> \in Seq(LogChar) /\ LostIn(<<>>) = 0 /\ Increasing(<<>>) /\ EntriesIn(<<>>) = {}
<1>1. <<>> \in Seq(LogChar) /\ Len(<<>>) = 0 /\ DOMAIN <<>> = {}
  OBVIOUS
<1>2. LostIn(<<>>) = 0
  <2> DEFINE s == <<>>
  <2>1. s \in Seq(LogChar) /\ \A i \in 1 .. Len(s) : s[i].kind = "entry"
    BY <1>1
  <2> HIDE DEF s
  <2>2. LostIn(s) = 0
    BY <2>1, LostNone
  <2> QED BY <2>2 DEF s
<1> QED BY <1>1, <1>2 DEF Increasing, EntriesIn

(* The two kinds of character.                                             *)
LEMMA CharTypes ==
  \A n \in Nat : /\ Lost(n) \in LogChar /\ Lost(n).kind = "lost" /\ Weight(Lost(n)) = n
                 /\ Entry(n) \in LogChar /\ Entry(n).kind = "entry" /\ Entry(n).n = n /\ Weight(Entry(n)) = 0
BY DEF LogChar, Lost, Entry, Weight

(* The text of one read: its entry, and how many have been lost before it. *)
LEMMA ReadTextSays ==
  ASSUME NEW s \in LogRecord, Readable(s)
  PROVE  /\ ReadText(s) \in Seq(LogChar) /\ LostIn(ReadText(s)) = s.lost /\ Increasing(ReadText(s))
         /\ EntriesIn(ReadText(s)) = {Head(s.buffer)} /\ Head(s.buffer) \in Nat
<1> DEFINE a == IF s.lost > 0 THEN <<Lost(s.lost)>> ELSE <<>>
           b == <<Entry(Head(s.buffer))>>
<1>1. s.buffer \in Seq(Nat) /\ s.buffer # <<>> /\ s.lost \in Nat
  BY DEF LogRecord, Readable
<1>2. Head(s.buffer) \in Nat
  BY <1>1, HeadTailProperties
<1>3. /\ b \in Seq(LogChar) /\ LostIn(b) = 0 /\ Increasing(b) /\ EntriesIn(b) = {Head(s.buffer)}
  <2> DEFINE h == Head(s.buffer)
             ch == Entry(h)
  <2>1. ch \in LogChar /\ ch.kind = "entry" /\ ch.n = h /\ Weight(ch) = 0
    BY ONLY <1>2, CharTypes
  <2> HIDE DEF h, ch
  <2>2. <<ch>> \in Seq(LogChar) /\ LostIn(<<ch>>) = Weight(ch) /\ Increasing(<<ch>>)
        /\ EntriesIn(<<ch>>) = IF ch.kind = "entry" THEN {ch.n} ELSE {}
    BY ONLY <2>1, OneChar, Zenon
  <2> QED BY ONLY <2>1, <2>2 DEF h, ch, b
<1>4. /\ a \in Seq(LogChar) /\ LostIn(a) = s.lost /\ Increasing(a) /\ EntriesIn(a) = {}
  <2>1. CASE s.lost > 0
    <3>1. a = <<Lost(s.lost)>>
      BY <2>1
    <3> DEFINE k == s.lost
               ch == Lost(k)
    <3>2. ch \in LogChar /\ ch.kind = "lost" /\ Weight(ch) = k /\ "lost" # "entry"
      BY ONLY <1>1, CharTypes
    <3> HIDE DEF k, ch
    <3>3. <<ch>> \in Seq(LogChar) /\ LostIn(<<ch>>) = Weight(ch) /\ Increasing(<<ch>>)
          /\ EntriesIn(<<ch>>) = IF ch.kind = "entry" THEN {ch.n} ELSE {}
      BY ONLY <3>2, OneChar, Zenon
    <3>4. a = <<ch>> /\ s.lost = k
      BY <3>1 DEF k, ch
    <3> HIDE DEF a
    <3> QED BY ONLY <3>2, <3>3, <3>4
  <2>2. CASE ~ (s.lost > 0)
    <3>1. a = <<>> /\ s.lost = 0
      BY <2>2, <1>1
    <3> QED BY <3>1, NoChars
  <2> QED BY <2>1, <2>2
<1>5. ReadText(s) = a \o b
  BY DEF ReadText
<1> HIDE DEF a, b
<1>6. a \o b \in Seq(LogChar)
  BY <1>3, <1>4, ConcatProperties
<1>7. LostIn(a \o b) = s.lost
  BY <1>1, <1>3, <1>4, LostConcat
<1>8. EntriesIn(a \o b) = {Head(s.buffer)}
  BY <1>3, <1>4, EntriesConcat
<1>9. Increasing(a \o b)
  BY <1>3, <1>4, IncreasingConcat
<1> QED BY <1>2, <1>5, <1>6, <1>7, <1>8, <1>9

(* The text of all the reads.                                              *)
LEMMA WholeTextSays ==
  ASSUME NEW s \in LogRecord
  PROVE  /\ WholeText(s) \in Seq(LogChar) /\ LostIn(WholeText(s)) = IF Readable(s) THEN s.lost ELSE 0
         /\ EntriesIn(WholeText(s)) = {s.buffer[i] : i \in 1 .. Len(s.buffer)}
<1>0. s.buffer \in Seq(Nat) /\ Len(s.buffer) \in Nat
  BY DEF LogRecord
<1>1. CASE ~ Readable(s)
  <2>1. WholeText(s) = <<>>
    BY <1>1 DEF WholeText
  <2>2. 1 .. Len(s.buffer) = {}
    BY <1>1 DEF Readable
  <2> QED BY <2>1, <2>2, <1>1, NoChars
<1>2. CASE Readable(s)
  <2> DEFINE n == Len(s.buffer)
             rest == [i \in 1 .. n - 1 |-> Entry(s.buffer[i + 1])]
  <2>1. n \in Nat \ {0}
    BY <1>0, <1>2, EmptySeq DEF Readable
  <2>2. \A i \in 1 .. n : s.buffer[i] \in Nat
    BY <1>0, ElementOfSeq
  <2>3. rest \in Seq(LogChar) /\ Len(rest) = n - 1 /\ DOMAIN rest = 1 .. n - 1
    <3>1. \A i \in 1 .. n - 1 : Entry(s.buffer[i + 1]) \in LogChar
      BY <2>1, <2>2, CharTypes
    <3>2. n - 1 \in Nat /\ rest \in [1 .. n - 1 -> LogChar]
      BY <2>1, <3>1
    <3> HIDE DEF n, rest
    <3> QED BY <3>2
  <2>4. \A i \in 1 .. n - 1 : rest[i].kind = "entry" /\ rest[i].n = s.buffer[i + 1]
    <3> TAKE i \in 1 .. n - 1
    <3>1. s.buffer[i + 1] \in Nat
      BY <2>1, <2>2
    <3> QED BY <3>1, CharTypes
  <2>5. LostIn(rest) = 0
    <3> HIDE DEF rest
    <3> QED BY <2>3, <2>4, LostNone
  <2>6. EntriesIn(rest) = {s.buffer[i] : i \in 2 .. n}
    <3> HIDE DEF rest
    <3>1. EntriesIn(rest) = {s.buffer[i + 1] : i \in 1 .. n - 1}
      BY <2>3, <2>4 DEF EntriesIn
    <3>2. \A i \in 2 .. n : i - 1 \in 1 .. n - 1 /\ (i - 1) + 1 = i
      BY <2>1
    <3>3. \A i \in 1 .. n - 1 : i + 1 \in 2 .. n
      BY <2>1
    <3> QED BY <3>1, <3>2, <3>3
  <2>7. /\ ReadText(s) \in Seq(LogChar) /\ LostIn(ReadText(s)) = s.lost
        /\ EntriesIn(ReadText(s)) = {Head(s.buffer)}
    BY <1>2, ReadTextSays
  <2>8. WholeText(s) = ReadText(s) \o rest
    BY <1>2 DEF WholeText
  <2> HIDE DEF rest
  <2>9. LostIn(ReadText(s) \o rest) = s.lost
    <3>1. s.lost \in Nat
      BY DEF LogRecord
    <3> QED BY <3>1, <2>3, <2>5, <2>7, LostConcat
  <2>10. EntriesIn(ReadText(s) \o rest) = {s.buffer[i] : i \in 1 .. n}
    <3>1. EntriesIn(ReadText(s) \o rest) = {Head(s.buffer)} \cup {s.buffer[i] : i \in 2 .. n}
      BY <2>3, <2>6, <2>7, EntriesConcat
    <3>2. Head(s.buffer) = s.buffer[1]
      BY <1>0, <1>2 DEF Readable
    <3>3. 1 .. n = {1} \cup 2 .. n
      BY <2>1
    <3> HIDE DEF n
    <3> QED BY <3>1, <3>2, <3>3
  <2>11. ReadText(s) \o rest \in Seq(LogChar)
    BY <2>3, <2>7, ConcatProperties
  <2> QED BY <1>2, <2>8, <2>9, <2>10, <2>11
<1> QED BY <1>1, <1>2

-----------------------------------------------------------------------------
(* The next number after those below is new, and greater than they are.    *)
LEMMA NextNumber ==
  ASSUME NEW k \in Nat, NEW n \in Nat, k - n \in Nat, NEW E, NEW F, E \cup F \subseteq 1 .. k - n
  PROVE  /\ k - n + 1 \notin E \cup F /\ \A x \in E : x < k - n + 1
         /\ (E \cup F) \cup {k - n + 1} \subseteq 1 .. k - (n - 1)
         /\ E \cup F \subseteq 1 .. (k + 1) - n
         /\ E \cup F \subseteq 1 .. (k + 1) - (n + 1)
<1>1. \A x \in E \cup F : x \in Int /\ 1 <= x /\ x <= k - n
  OBVIOUS
<1>2. k - n + 1 \notin E \cup F
  BY <1>1
<1>3. \A x \in E : x < k - n + 1
  BY <1>1
<1>4. \A x \in E \cup F : x \in 1 .. k - (n - 1) /\ x \in 1 .. (k + 1) - n /\ x \in 1 .. (k + 1) - (n + 1)
  BY <1>1
<1>5. k - n + 1 \in 1 .. k - (n - 1)
  OBVIOUS
<1> QED BY <1>2, <1>3, <1>4, <1>5

(* The numbers in a log that holds the newest.                             *)
LEMMA NewestNumbers ==
  ASSUME NEW k \in Nat, NEW n \in Nat, k - n \in Nat, NEW B, B = k - n + 1 .. k
  PROVE  /\ IsFiniteSet(B) /\ Cardinality(B) = n
         /\ \A T : T \subseteq 1 .. k - n => T \cap B = {} /\ T \cup B \subseteq 1 .. k
<1> DEFINE j == k - n + 1
<1>1. j \in Int /\ k \in Int /\ (IF j > k THEN 0 ELSE k - j + 1) = n
  OBVIOUS
<1> HIDE DEF j
<1>2. IsFiniteSet(j .. k) /\ Cardinality(j .. k) = n
  BY <1>1, FS_Interval
<1> USE DEF j
<1>3. ASSUME NEW T, T \subseteq 1 .. k - n PROVE T \cap B = {} /\ T \cup B \subseteq 1 .. k
  <2>1. \A x \in T : x \in Int /\ 1 <= x /\ x <= k - n
    BY <1>3
  <2>2. \A x \in B : x \in Int /\ k - n + 1 <= x /\ x <= k
    OBVIOUS
  <2>3. \A x \in T \cup B : x \in 1 .. k
    BY <2>1, <2>2
  <2>4. \A x \in T : x \notin B
    BY <2>1, <2>2
  <2> QED BY <2>3, <2>4
<1>4. IsFiniteSet(B) /\ Cardinality(B) = n
  BY <1>2
<1> QED BY <1>3, <1>4

(* They follow one another.                                                *)
LEMMA NewestFollow ==
  ASSUME NEW k \in Nat, NEW n \in Nat, k - n \in Nat, NEW b, \A i \in 1 .. n : b[i] = k - n + i
  PROVE  {b[i] : i \in 1 .. n} = k - n + 1 .. k
<1> DEFINE B == {b[i] : i \in 1 .. n}
<1>1. ASSUME NEW i \in 1 .. n PROVE b[i] \in k - n + 1 .. k
  <2>1. b[i] = k - n + i /\ i \in Int /\ 1 <= i /\ i <= n
    OBVIOUS
  <2> QED BY <2>1
<1>2. ASSUME NEW x \in k - n + 1 .. k PROVE x \in B
  <2>1. x - (k - n) \in 1 .. n /\ k - n + (x - (k - n)) = x
    OBVIOUS
  <2> QED BY <2>1
<1>3. B = k - n + 1 .. k
  BY <1>1, <1>2
<1> QED BY <1>3

(* What a log holds after one more, one less.                              *)
LEMMA NumbersShifted ==
  ASSUME NEW k \in Nat, NEW n \in Nat, NEW b, \A i \in 1 .. n : b[i] = k - n + i
  PROVE  /\ \A a : (\A i \in 1 .. n - 1 : a[i] = b[i + 1]) => \A i \in 1 .. n - 1 : a[i] = k - (n - 1) + i
         /\ \A a : (\A i \in 1 .. n : a[i] = b[i]) /\ a[n + 1] = k + 1
                     => \A i \in 1 .. n + 1 : a[i] = (k + 1) - (n + 1) + i
         /\ n >= 1 => b[1] = k - n + 1
         /\ \A a : (\A i \in 1 .. n - 1 : a[i] = b[i + 1]) /\ a[n] = k + 1
                     => \A i \in 1 .. n : a[i] = (k + 1) - n + i
<1>1. ASSUME NEW a, \A i \in 1 .. n - 1 : a[i] = b[i + 1], NEW i \in 1 .. n - 1
      PROVE  a[i] = k - (n - 1) + i /\ a[i] = (k + 1) - n + i
  <2>1. i + 1 \in 1 .. n /\ i \in Int
    OBVIOUS
  <2>2. a[i] = k - n + (i + 1)
    BY <1>1, <2>1
  <2> QED BY <2>1, <2>2
<1>2. ASSUME NEW a, \A i \in 1 .. n : a[i] = b[i], a[n + 1] = k + 1, NEW i \in 1 .. n + 1
      PROVE  a[i] = (k + 1) - (n + 1) + i
  <2>1. CASE i = n + 1
    BY <2>1, <1>2
  <2>2. CASE i \in 1 .. n
    <3>1. a[i] = k - n + i /\ i \in Int
      BY <1>2, <2>2
    <3> QED BY <3>1
  <2> QED BY <2>1, <2>2
<1>3. ASSUME n >= 1 PROVE b[1] = k - n + 1
  BY <1>3
<1>4. ASSUME NEW a, \A i \in 1 .. n - 1 : a[i] = b[i + 1], a[n] = k + 1, NEW i \in 1 .. n
      PROVE  a[i] = (k + 1) - n + i
  <2>1. CASE i = n
    <3>1. a[i] = k + 1 /\ (k + 1) - n + i = k + 1
      BY <2>1, <1>4
    <3> QED BY <3>1
  <2>2. CASE i \in 1 .. n - 1
    BY <2>2, <1>1, <1>4
  <2> QED BY <2>1, <2>2
<1> QED BY <1>1, <1>2, <1>3, <1>4

(* What a full log holds after its oldest entry has given way to a new one.*)
LEMMA OldestReplaced ==
  \A k \in Nat, n \in Nat : \A b, a :
    /\ \A i \in 1 .. n : b[i] = k - n + i
    /\ \A i \in 1 .. n - 1 : a[i] = b[i + 1]
    /\ a[n] = k + 1
    => \A i \in 1 .. n : a[i] = (k + 1) - n + i
<1> SUFFICES ASSUME NEW k \in Nat, NEW n \in Nat, NEW b, NEW a,
                    \A i \in 1 .. n : b[i] = k - n + i,
                    \A i \in 1 .. n - 1 : a[i] = b[i + 1], a[n] = k + 1
             PROVE  \A i \in 1 .. n : a[i] = (k + 1) - n + i
  OBVIOUS
<1> QED BY NumbersShifted

(* What EntriesAccounted says of a text printed, one that went out by      *)
(* low-level output and a log; and that the log holds what comes after.    *)
Accounted(P, L, s) ==
  /\ s.recorded = Cardinality(EntriesIn(P) \cup EntriesIn(L)) + LostIn(P) + LostIn(L) + s.lost + Len(s.buffer)
  /\ EntriesIn(P) \cap EntriesIn(L) = {}
  /\ Increasing(P)
  /\ \A i \in 1 .. Len(s.buffer) : s.buffer[i] = s.recorded - Len(s.buffer) + i
  /\ EntriesIn(P) \cup EntriesIn(L) \subseteq 1 .. s.recorded - Len(s.buffer)

(* Only finitely many entries are told of.                                 *)
LEMMA ToldFinite ==
  ASSUME NEW P, NEW L, NEW s \in LogRecord, Accounted(P, L, s)
  PROVE  /\ IsFiniteSet(EntriesIn(P) \cup EntriesIn(L))
         /\ Cardinality(EntriesIn(P) \cup EntriesIn(L)) \in Nat
<1>1. s.recorded \in Nat /\ s.buffer \in Seq(Nat) /\ Len(s.buffer) \in Nat
  BY DEF LogRecord
<1>2. IsFiniteSet(1 .. s.recorded - Len(s.buffer))
  BY <1>1, FS_Interval, SMTT(60)
<1> QED BY <1>2, FS_Subset, FS_CardinalityType DEF Accounted

(* A read moves the oldest entry, and what was lost, to the text.          *)
LEMMA ReadKeeps ==
  ASSUME NEW P \in Seq(LogChar), NEW L \in Seq(LogChar), NEW s \in LogRecord,
         Accounted(P, L, s), Readable(s)
  PROVE  AfterRead(s) \in LogRecord /\ Accounted(P \o ReadText(s), L, AfterRead(s))
<1> DEFINE r == AfterRead(s)
           t == ReadText(s)
           h == Head(s.buffer)
           n == Len(s.buffer)
           b == s.buffer
           k == s.recorded
           E == EntriesIn(P)
           F == EntriesIn(L)
           c == Cardinality(E \cup F)
           p == LostIn(P)
           l == LostIn(L)
           q == P \o t
<1>1. k \in Nat /\ s.lost \in Nat /\ b \in Seq(Nat) /\ n \in Nat /\ b # <<>>
  BY DEF LogRecord, Readable
<1>2. n >= 1 /\ h = b[1] /\ Tail(b) \in Seq(Nat) /\ Len(Tail(b)) = n - 1
      /\ \A i \in 1 .. n - 1 : Tail(b)[i] = b[i + 1]
  BY <1>1, HeadTailProperties
<1>3. r \in LogRecord /\ r.buffer = Tail(b) /\ r.lost = 0 /\ r.recorded = k
  BY <1>1, <1>2 DEF AfterRead, LogRecord
<1>4. /\ k = c + p + l + s.lost + n
      /\ E \cap F = {}
      /\ Increasing(P)
      /\ \A i \in 1 .. n : b[i] = k - n + i
      /\ E \cup F \subseteq 1 .. k - n
  BY DEF Accounted
<1>5. /\ t \in Seq(LogChar) /\ LostIn(t) = s.lost /\ Increasing(t) /\ EntriesIn(t) = {h}
  BY ReadTextSays
<1>6. EntriesIn(q) = E \cup {h} /\ EntriesIn(q) \cup F = (E \cup F) \cup {h}
  BY <1>5, EntriesConcat
<1>7. IsFiniteSet(E \cup F) /\ c \in Nat
  BY ToldFinite
<1>8. p \in Nat /\ l \in Nat /\ LostIn(q) = p + s.lost
  BY <1>5, LostConcat, LostType
<1>9. k - n \in Nat
  <2>1. k = c + p + l + s.lost + n
    BY <1>4
  <2>2. n \in Nat /\ s.lost \in Nat
    BY <1>1
  <2> HIDE DEF k, n, c, p, l
  <2>3. k - n = c + p + l + s.lost
    BY <2>1, <2>2, <1>7, <1>8
  <2> QED BY <2>2, <2>3, <1>7, <1>8
<1>10. \A i \in 1 .. n : b[i] = k - n + i
  BY <1>4
<1>11. E \cup F \subseteq 1 .. k - n
  BY <1>4
<1>12. h = k - n + 1
  <2> HIDE DEF k, n, b
  <2>1. b[1] = k - n + 1
    BY <1>1, <1>2, <1>10, NumbersShifted
  <2> QED BY <2>1, <1>2
<1>13. h \notin E \cup F
  <2> HIDE DEF k, n, h, E, F
  <2>1. k - n + 1 \notin E \cup F
    BY <1>1, <1>9, <1>11, NextNumber
  <2> QED BY <2>1, <1>12
<1>14. Cardinality((E \cup F) \cup {h}) = c + 1
  BY <1>7, <1>13, FS_AddElement
<1>15. \A x \in E : x < h
  <2> HIDE DEF k, n, h, E, F
  <2>1. \A x \in E : x < k - n + 1
    BY <1>1, <1>9, <1>11, NextNumber
  <2> QED BY <2>1, <1>12
<1>16. Increasing(q)
  BY <1>4, <1>5, <1>15, IncreasingConcat
<1>17. k = (c + 1) + (p + s.lost) + l + 0 + (n - 1)
  <2> DEFINE e == s.lost
  <2>1. k = c + p + l + e + n
    BY <1>4
  <2>2. k \in Nat /\ n \in Nat /\ e \in Nat /\ c \in Nat /\ p \in Nat /\ l \in Nat
    BY <1>1, <1>7, <1>8
  <2> HIDE DEF k, n, c, p, l, e
  <2>3. k = (c + 1) + (p + e) + l + 0 + (n - 1)
    BY <2>1, <2>2
  <2> QED BY <2>3 DEF e
<1>18. \A i \in 1 .. n - 1 : Tail(b)[i] = k - (n - 1) + i
  <2> HIDE DEF k, n, b
  <2> QED BY <1>1, <1>2, <1>10, NumbersShifted
<1>19. (E \cup F) \cup {h} \subseteq 1 .. k - (n - 1)
  <2> HIDE DEF k, n, c, p, l, E, F, h
  <2>1. (E \cup F) \cup {k - n + 1} \subseteq 1 .. k - (n - 1)
    BY <1>1, <1>9, <1>11, NextNumber, SMTT(60)
  <2> QED BY <2>1, <1>12
<1>20. (E \cup {h}) \cap F = {}
  BY <1>4, <1>13
<1> HIDE DEF r, q, k, n, c, p, l, E, F, h, b
<1>21. Accounted(q, L, r)
  <2>1. /\ r.recorded = Cardinality(EntriesIn(q) \cup EntriesIn(L)) + LostIn(q) + LostIn(L) + r.lost + Len(r.buffer)
        /\ EntriesIn(q) \cap EntriesIn(L) = {}
    BY <1>2, <1>3, <1>6, <1>8, <1>14, <1>17, <1>20 DEF F, l
  <2>2. /\ \A i \in 1 .. Len(r.buffer) : r.buffer[i] = r.recorded - Len(r.buffer) + i
        /\ EntriesIn(q) \cup EntriesIn(L) \subseteq 1 .. r.recorded - Len(r.buffer)
    BY <1>2, <1>3, <1>6, <1>18, <1>19 DEF F
  <2> QED BY <2>1, <2>2, <1>16 DEF Accounted
<1> QED BY <1>3, <1>21 DEF r, q

(* A flush moves everything to the low-level output.                       *)
LEMMA FlushKeeps ==
  ASSUME NEW P \in Seq(LogChar), NEW L \in Seq(LogChar), NEW s \in LogRecord, Accounted(P, L, s)
  PROVE  /\ AfterReadAll(s) \in LogRecord /\ Accounted(P, L \o WholeText(s), AfterReadAll(s))
         /\ L \o WholeText(s) \in Seq(LogChar)
<1> DEFINE r == AfterReadAll(s)
           t == WholeText(s)
           n == Len(s.buffer)
           b == s.buffer
           k == s.recorded
           E == EntriesIn(P)
           F == EntriesIn(L)
           c == Cardinality(E \cup F)
           p == LostIn(P)
           l == LostIn(L)
           q == L \o t
           B == {b[i] : i \in 1 .. n}
<1>1. k \in Nat /\ s.lost \in Nat /\ b \in Seq(Nat) /\ n \in Nat
  BY DEF LogRecord
<1>2. t \in Seq(LogChar) /\ LostIn(t) = (IF Readable(s) THEN s.lost ELSE 0) /\ EntriesIn(t) = B
  BY WholeTextSays
<1>3. q \in Seq(LogChar)
  BY <1>2, ConcatProperties
<1>4. CASE ~Readable(s)
  <2>1. r = s /\ t = <<>>
    BY <1>4 DEF AfterReadAll, WholeText
  <2>2. L \o t = L
    BY <2>1, ConcatEmptySeq
  <2> QED BY <2>1, <2>2, <1>3
<1>5. CASE Readable(s)
  <2>1. r = [s EXCEPT !.buffer = <<>>, !.lost = 0]
    BY <1>5 DEF AfterReadAll
  <2>2. r = [buffer |-> <<>>, lost |-> 0, logMask |-> s.logMask, recorded |-> k]
    BY <2>1 DEF LogRecord
  <2>3. r \in LogRecord /\ r.buffer = <<>> /\ Len(r.buffer) = 0 /\ r.lost = 0 /\ r.recorded = k
    BY <2>2, EmptySeq DEF LogRecord
  <2>4. /\ k = c + p + l + s.lost + n
        /\ E \cap F = {}
        /\ Increasing(P)
        /\ \A i \in 1 .. n : b[i] = k - n + i
        /\ E \cup F \subseteq 1 .. k - n
    BY DEF Accounted
  <2>5. IsFiniteSet(E \cup F) /\ c \in Nat
    BY ToldFinite
  <2>6. p \in Nat /\ l \in Nat /\ LostIn(q) = l + s.lost
    BY <1>2, <1>5, LostConcat, LostType
  <2>7. k - n \in Nat
    <3>1. k = c + p + l + s.lost + n
      BY <2>4
    <3>2. n \in Nat /\ s.lost \in Nat
      BY <1>1
    <3> HIDE DEF k, n, c, p, l
    <3>3. k - n = c + p + l + s.lost
      BY <3>1, <3>2, <2>5, <2>6
    <3> QED BY <3>2, <3>3, <2>5, <2>6
  <2>8. \A i \in 1 .. n : b[i] = k - n + i
    BY <2>4
  <2>9. B = k - n + 1 .. k
    <3> HIDE DEF k, n, b
    <3>1. \A v : (\A i \in 1 .. n : v[i] = k - n + i) => {v[i] : i \in 1 .. n} = k - n + 1 .. k
      BY <1>1, <2>7, NewestFollow
    <3>2. {b[i] : i \in 1 .. n} = k - n + 1 .. k
      BY <3>1, <2>8, Zenon
    <3> QED BY <3>2
  <2>10. /\ IsFiniteSet(B) /\ Cardinality(B) = n
         /\ (E \cup F) \cap B = {} /\ (E \cup F) \cup B \subseteq 1 .. k
    <3> DEFINE T == E \cup F
    <3>1. T \subseteq 1 .. k - n
      BY <2>4
    <3> HIDE DEF k, n, b, B, T
    <3>2. IsFiniteSet(B) /\ Cardinality(B) = n /\ T \cap B = {} /\ T \cup B \subseteq 1 .. k
      <4>1. k \in Nat /\ n \in Nat
        BY <1>1
      <4>2. \A D : D = k - n + 1 .. k => /\ IsFiniteSet(D) /\ Cardinality(D) = n
                                        /\ \A U : U \subseteq 1 .. k - n => U \cap D = {} /\ U \cup D \subseteq 1 .. k
        BY <4>1, <2>7, NewestNumbers
      <4> QED BY <4>2, <2>9, <3>1
    <3> QED BY <3>2 DEF T
  <2>11. Cardinality((E \cup F) \cup B) = c + n
    <3> DEFINE T == E \cup F
    <3>1. Cardinality({}) = 0
      BY FS_EmptySet
    <3> HIDE DEF T, B, n
    <3>2. Cardinality(T \cup B) = Cardinality(T) + Cardinality(B) - Cardinality(T \cap B)
      BY <2>5, <2>10, FS_Union DEF T
    <3>3. IsFiniteSet(T) /\ Cardinality(T) = c /\ T \cap B = {}
      BY <2>5, <2>10 DEF T
    <3> HIDE DEF c
    <3>4. Cardinality(T \cup B) = c + n - 0
      BY <3>1, <3>2, <3>3, <2>10
    <3>5. c + n - 0 = c + n
      BY <2>5, <1>1
    <3> QED BY <3>4, <3>5 DEF T
  <2>12. EntriesIn(q) = F \cup B /\ E \cup EntriesIn(q) = (E \cup F) \cup B
    BY <1>2, EntriesConcat
  <2>13. k = (c + n) + p + (l + s.lost) + 0 + 0
    <3>1. k = c + p + l + s.lost + n
      BY <2>4
    <3> HIDE DEF k, n, c, p, l
    <3> QED BY <3>1, <1>1, <2>5, <2>6
  <2>14. E \cap (F \cup B) = {}
    BY <2>4, <2>10
  <2>15. (E \cup F) \cup B \subseteq 1 .. k - 0
    <3> HIDE DEF k, n, B, E, F
    <3>1. k - 0 = k
      BY <1>1
    <3> QED BY <3>1, <2>10
  <2> HIDE DEF r, q, k, n, c, p, l, E, F, b, B
  <2>16. Accounted(P, q, r)
    <3>1. /\ r.recorded = Cardinality(EntriesIn(P) \cup EntriesIn(q)) + LostIn(P) + LostIn(q) + r.lost + Len(r.buffer)
          /\ EntriesIn(P) \cap EntriesIn(q) = {}
      BY <2>3, <2>6, <2>11, <2>12, <2>13, <2>14 DEF E, p
    <3>2. /\ \A i \in 1 .. Len(r.buffer) : r.buffer[i] = r.recorded - Len(r.buffer) + i
          /\ EntriesIn(P) \cup EntriesIn(q) \subseteq 1 .. r.recorded - Len(r.buffer)
      BY <2>3, <2>12, <2>15 DEF E
    <3> QED BY <3>1, <3>2, <2>4 DEF Accounted
  <2> QED BY <2>3, <2>16, <1>3 DEF r, q
<1> QED BY <1>4, <1>5

(* Recording keeps it: a full log loses its oldest entry and counts it.    *)
LEMMA RecordedKeeps ==
  ASSUME NEW P \in Seq(LogChar), NEW L \in Seq(LogChar), NEW s \in LogRecord, Accounted(P, L, s)
  PROVE  Recorded(s) \in LogRecord /\ Accounted(P, L, Recorded(s))
<1> DEFINE r == Recorded(s)
           k == s.recorded
           n == Len(s.buffer)
           b == s.buffer
           E == EntriesIn(P)
           F == EntriesIn(L)
           c == Cardinality(E \cup F)
           p == LostIn(P)
           l == LostIn(L)
<1>1. k \in Nat /\ s.lost \in Nat /\ b \in Seq(Nat) /\ n \in Nat /\ k + 1 \in Nat /\ s.lost + 1 \in Nat
  BY DEF LogRecord
<1>2. /\ k = c + p + l + s.lost + n
      /\ E \cap F = {}
      /\ Increasing(P)
      /\ \A i \in 1 .. n : b[i] = k - n + i
      /\ E \cup F \subseteq 1 .. k - n
  BY DEF Accounted
<1>3. c \in Nat /\ p \in Nat /\ l \in Nat
  BY ToldFinite, LostType
<1>4. k - n \in Nat
  <2>1. k = c + p + l + s.lost + n
    BY <1>2
  <2>2. n \in Nat /\ s.lost \in Nat
    BY <1>1
  <2> HIDE DEF k, n, c, p, l
  <2>3. k - n = c + p + l + s.lost
    BY <2>1, <2>2, <1>3
  <2> QED BY <2>2, <2>3, <1>3
<1>5. /\ \A i \in 1 .. n : b[i] = k - n + i
      /\ E \cup F \subseteq 1 .. k - n
  BY <1>2
<1>6. CASE n < logBufferSize
  <2> DEFINE a == Append(b, k + 1)
  <2>1. r = [s EXCEPT !.recorded = k + 1, !.buffer = a]
    BY <1>6 DEF Recorded
  <2>2. a \in Seq(Nat) /\ Len(a) = n + 1 /\ a[n + 1] = k + 1 /\ \A i \in 1 .. n : a[i] = b[i]
    BY <1>1, AppendProperties
  <2> HIDE DEF a
  <2>3. r = [buffer |-> a, lost |-> s.lost, logMask |-> s.logMask, recorded |-> k + 1]
    BY <2>1 DEF LogRecord
  <2>4. r \in LogRecord /\ r.recorded = k + 1 /\ r.lost = s.lost /\ r.buffer = a
    BY <2>2, <2>3, <1>1 DEF LogRecord
  <2> HIDE DEF r, k, n, b, E, F, c, p, l
  <2>5. \A i \in 1 .. n + 1 : a[i] = (k + 1) - (n + 1) + i
    BY <2>2, <1>1, <1>5, NumbersShifted, SMTT(60)
  <2>6. k + 1 = c + p + l + s.lost + (n + 1) /\ (k + 1) - (n + 1) = k - n
    <3>1. k = c + p + l + s.lost + n
      BY <1>2
    <3> QED BY <3>1, <1>1, <1>3, SMTT(60)
  <2>7. Accounted(P, L, r)
    <3>1. r.recorded = Cardinality(EntriesIn(P) \cup EntriesIn(L)) + LostIn(P) + LostIn(L) + r.lost + Len(r.buffer)
      BY <2>2, <2>4, <2>6 DEF E, F, c, p, l
    <3>2. /\ \A i \in 1 .. Len(r.buffer) : r.buffer[i] = r.recorded - Len(r.buffer) + i
          /\ EntriesIn(P) \cup EntriesIn(L) \subseteq 1 .. r.recorded - Len(r.buffer)
          /\ EntriesIn(P) \cap EntriesIn(L) = {}
      BY <2>2, <2>4, <2>5, <2>6, <1>2 DEF E, F
    <3> QED BY <3>1, <3>2, <1>2 DEF Accounted
  <2> QED BY <2>4, <2>7 DEF r
<1>7. CASE ~(n < logBufferSize)
  <2> DEFINE a == Append(Tail(b), k + 1)
  <2>1. b # <<>> /\ n >= 1
    BY <1>1, <1>7, LogAssumption, EmptySeq
  <2>2. Tail(b) \in Seq(Nat) /\ Len(Tail(b)) = n - 1 /\ \A i \in 1 .. n - 1 : Tail(b)[i] = b[i + 1]
    BY <1>1, <2>1, HeadTailProperties
  <2>3. r = [s EXCEPT !.recorded = k + 1, !.buffer = a, !.lost = s.lost + 1]
    BY <1>7 DEF Recorded
  <2>4. a \in Seq(Nat) /\ Len(a) = (n - 1) + 1 /\ a[(n - 1) + 1] = k + 1 /\ \A i \in 1 .. n - 1 : a[i] = b[i + 1]
    BY <1>1, <2>2, AppendProperties
  <2> HIDE DEF a
  <2>5. r = [buffer |-> a, lost |-> s.lost + 1, logMask |-> s.logMask, recorded |-> k + 1]
    BY <2>3 DEF LogRecord
  <2>6. r \in LogRecord /\ r.recorded = k + 1 /\ r.lost = s.lost + 1 /\ r.buffer = a
    BY <2>4, <2>5, <1>1 DEF LogRecord
  <2> HIDE DEF r, k, n, b, E, F, c, p, l
  <2>7. Len(a) = n /\ a[n] = k + 1
    BY <2>4, <1>1
  <2>8. \A i \in 1 .. n : a[i] = (k + 1) - n + i
    <3>1. /\ \A i \in 1 .. n - 1 : a[i] = b[i + 1]
          /\ a[n] = k + 1
          /\ \A i \in 1 .. n : b[i] = k - n + i
          /\ k \in Nat /\ n \in Nat
      BY <2>4, <2>7, <1>1, <1>5
    <3>2. \A v, u : (/\ \A i \in 1 .. n : v[i] = k - n + i
                     /\ \A i \in 1 .. n - 1 : u[i] = v[i + 1]
                     /\ u[n] = k + 1) => \A i \in 1 .. n : u[i] = (k + 1) - n + i
      <4>1. k \in Nat /\ n \in Nat
        BY <1>1
      <4> QED BY <4>1, OldestReplaced
    <3>3. (/\ \A i \in 1 .. n : b[i] = k - n + i
           /\ \A i \in 1 .. n - 1 : a[i] = b[i + 1]
           /\ a[n] = k + 1) => \A i \in 1 .. n : a[i] = (k + 1) - n + i
      BY <3>2
    <3> QED BY <3>1, <3>3
  <2>9. k + 1 = c + p + l + (s.lost + 1) + n
    <3>1. k = c + p + l + s.lost + n
      BY <1>2
    <3> QED BY <3>1, <1>1, <1>3, SMTT(60)
  <2>10. E \cup F \subseteq 1 .. (k + 1) - n
    BY <1>1, <1>4, <1>5, NextNumber
  <2>11. Accounted(P, L, r)
    <3>1. r.recorded = Cardinality(EntriesIn(P) \cup EntriesIn(L)) + LostIn(P) + LostIn(L) + r.lost + Len(r.buffer)
      BY <2>7, <2>6, <2>9 DEF E, F, c, p, l
    <3>2. /\ \A i \in 1 .. Len(r.buffer) : r.buffer[i] = r.recorded - Len(r.buffer) + i
          /\ EntriesIn(P) \cup EntriesIn(L) \subseteq 1 .. r.recorded - Len(r.buffer)
          /\ EntriesIn(P) \cap EntriesIn(L) = {}
      BY <2>7, <2>6, <2>8, <2>10, <1>2 DEF E, F
    <3> QED BY <3>1, <3>2, <1>2 DEF Accounted
  <2> QED BY <2>6, <2>11 DEF r
<1> QED BY <1>6, <1>7

(* Characters taken from within the printed text may as well go out by     *)
(* low-level output.                                                       *)
LEMMA MovedKeeps ==
  ASSUME NEW A \in Seq(LogChar), NEW B \in Seq(LogChar), NEW C \in Seq(LogChar), NEW L \in Seq(LogChar),
         NEW s \in LogRecord, Accounted((A \o B) \o C, L, s)
  PROVE  Accounted(A \o C, L \o B, s) /\ A \o C \in Seq(LogChar) /\ L \o B \in Seq(LogChar)
<1> DEFINE P == (A \o B) \o C
           EA == EntriesIn(A)
           EB == EntriesIn(B)
           EC == EntriesIn(C)
           F == EntriesIn(L)
<1>1. A \o B \in Seq(LogChar) /\ A \o C \in Seq(LogChar) /\ L \o B \in Seq(LogChar)
  BY ConcatProperties
<1>2. EntriesIn(A \o B) = EA \cup EB /\ EntriesIn(A \o C) = EA \cup EC /\ EntriesIn(L \o B) = F \cup EB
  BY EntriesConcat
<1>3. EntriesIn(P) = (EA \cup EB) \cup EC
  BY <1>1, <1>2, EntriesConcat, ZenonT(60)
<1>4. LostIn(A \o B) = LostIn(A) + LostIn(B) /\ LostIn(A \o C) = LostIn(A) + LostIn(C)
      /\ LostIn(L \o B) = LostIn(L) + LostIn(B)
  BY LostConcat
<1>5. LostIn(P) = LostIn(A \o B) + LostIn(C)
  BY <1>1, LostConcat
<1>6. LostIn(A) \in Nat /\ LostIn(B) \in Nat /\ LostIn(C) \in Nat /\ LostIn(L) \in Nat
  BY LostType
<1>7. Increasing(A \o B) /\ Increasing(C) /\ \A x \in EA \cup EB, y \in EC : x < y
  <2>1. Increasing(P)
    BY DEF Accounted
  <2>2. /\ Increasing(A \o B) /\ Increasing(C)
        /\ \A x \in EntriesIn(A \o B), y \in EntriesIn(C) : x < y
    BY <2>1, <1>1, IncreasingConcat
  <2> QED BY <2>2, <1>2
<1>8. Increasing(A) /\ Increasing(B) /\ \A x \in EA, y \in EB : x < y
  BY <1>7, IncreasingConcat
<1>9. Increasing(A \o C)
  BY <1>7, <1>8, IncreasingConcat
<1>10. /\ s.recorded = Cardinality(EntriesIn(P) \cup F) + LostIn(P) + LostIn(L) + s.lost + Len(s.buffer)
       /\ EntriesIn(P) \cap F = {}
       /\ \A i \in 1 .. Len(s.buffer) : s.buffer[i] = s.recorded - Len(s.buffer) + i
       /\ EntriesIn(P) \cup F \subseteq 1 .. s.recorded - Len(s.buffer)
  BY DEF Accounted
<1>11. EA \cup EB \cup EC \subseteq Int
  BY <1>3, <1>10
<1>12. EB \cap EA = {} /\ EB \cap EC = {}
  <2> HIDE DEF EA, EB, EC
  <2>1. \A x \in Int : ~(x < x)
    OBVIOUS
  <2> QED BY <2>1, <1>7, <1>8, <1>11
<1>13. (EA \cup EC) \cap (F \cup EB) = {} /\ (EA \cup EC) \cup (F \cup EB) = EntriesIn(P) \cup F
  BY <1>3, <1>10, <1>12
<1>14. Cardinality(EntriesIn(P) \cup F) \in Nat
  BY <1>1, ToldFinite
<1>15. s.lost \in Nat /\ Len(s.buffer) \in Nat
  BY DEF LogRecord
<1> HIDE DEF P, EA, EB, EC, F
<1>16. s.recorded = Cardinality(EntriesIn(P) \cup F) + (LostIn(A) + LostIn(C)) + (LostIn(L) + LostIn(B)) + s.lost + Len(s.buffer)
  BY <1>4, <1>5, <1>6, <1>10, <1>14, <1>15, SMTT(60)
<1>17. /\ s.recorded = Cardinality(EntriesIn(A \o C) \cup EntriesIn(L \o B)) + LostIn(A \o C) + LostIn(L \o B)
                       + s.lost + Len(s.buffer)
       /\ EntriesIn(A \o C) \cap EntriesIn(L \o B) = {}
       /\ EntriesIn(A \o C) \cup EntriesIn(L \o B) \subseteq 1 .. s.recorded - Len(s.buffer)
  BY <1>2, <1>4, <1>10, <1>13, <1>16
<1> QED BY <1>1, <1>9, <1>10, <1>17 DEF Accounted

-----------------------------------------------------------------------------
(* What is on the line.                                                    *)
OnLine(c) == IF c = NoChar THEN <<>> ELSE <<c>>

(* The inductive invariant.                                                *)
LogTypes ==
  /\ syslog \in LogRecord
  /\ out \in Seq(LogChar) /\ pending \in Seq(LogChar) /\ text \in Seq(LogChar) /\ low \in Seq(LogChar)
  /\ line \in LogChar \cup {NoChar}

LogInv == LogTypes /\ Accounted(Printed, low, syslog)

(* The first of a text, and the rest, are the text.                        *)
LEMMA FirstAndRest ==
  ASSUME NEW s \in Seq(LogChar), s # <<>>
  PROVE  /\ Head(s) \in LogChar /\ Tail(s) \in Seq(LogChar) /\ <<Head(s)>> \in Seq(LogChar)
         /\ <<Head(s)>> \o Tail(s) = s
<1> DEFINE u == <<Head(s)>> \o Tail(s)
<1>1. Head(s) \in LogChar /\ Tail(s) \in Seq(LogChar) /\ Len(Tail(s)) = Len(s) - 1 /\ s[1] = Head(s)
      /\ \A i \in 1 .. Len(Tail(s)) : Tail(s)[i] = s[i + 1]
  BY HeadTailProperties
<1>2. <<Head(s)>> \in Seq(LogChar) /\ Len(<<Head(s)>>) = 1 /\ <<Head(s)>>[1] = Head(s)
  BY <1>1
<1>3. Len(s) \in Nat /\ Len(s) >= 1
  BY EmptySeq
<1>4. u \in Seq(LogChar) /\ Len(u) = Len(s)
  BY <1>1, <1>2, <1>3, ConcatProperties
<1>5. ASSUME NEW i \in 1 .. Len(s) PROVE u[i] = s[i]
  <2>1. u[i] = IF i <= 1 THEN <<Head(s)>>[i] ELSE Tail(s)[i - 1]
    BY <1>1, <1>2, <1>3, ConcatProperties
  <2>2. CASE i = 1
    BY <2>1, <2>2, <1>1, <1>2
  <2>3. CASE i > 1
    <3>1. i - 1 \in 1 .. Len(Tail(s)) /\ (i - 1) + 1 = i
      BY <2>3, <1>1, <1>3
    <3> QED BY <3>1, <2>1, <2>3, <1>1
  <2> QED BY <2>2, <2>3
<1>6. u = s
  BY <1>4, <1>5, SeqEqual
<1> QED BY <1>1, <1>2, <1>6

(* The printed text is a text, and what it consists of.                    *)
LEMMA PrintedType ==
  ASSUME LogTypes
  PROVE  /\ OnLine(line) \in Seq(LogChar) /\ out \o OnLine(line) \in Seq(LogChar)
         /\ (out \o OnLine(line)) \o pending \in Seq(LogChar)
         /\ Printed = ((out \o OnLine(line)) \o pending) \o text /\ Printed \in Seq(LogChar)
<1>1. OnLine(line) \in Seq(LogChar)
  BY DEF OnLine, LogTypes
<1>2. out \o OnLine(line) \in Seq(LogChar)
  BY <1>1, ConcatProperties DEF LogTypes
<1>3. (out \o OnLine(line)) \o pending \in Seq(LogChar)
  BY <1>2, ConcatProperties DEF LogTypes
<1>4. Printed = ((out \o OnLine(line)) \o pending) \o text
  BY DEF Printed, OnLine
<1>5. Printed \in Seq(LogChar)
  BY <1>3, <1>4, ConcatProperties DEF LogTypes
<1> QED BY <1>1, <1>2, <1>3, <1>4, <1>5

(* At first nothing has been recorded.                                     *)
LEMMA LogInitially == ASSUME LogInit PROVE LogInv
<1>1. syslog = [buffer |-> <<>>, lost |-> 0, logMask |-> Priority, recorded |-> 0]
      /\ out = <<>> /\ pending = <<>> /\ text = <<>> /\ low = <<>> /\ line = NoChar
  BY DEF LogInit, Init
<1>2. LogTypes
  <2>1. <<>> \in Seq(LogChar) /\ <<>> \in Seq(Nat)
    OBVIOUS
  <2> QED BY <1>1, <2>1 DEF LogTypes, LogRecord
<1>3. <<>> \o <<>> = <<>>
  OBVIOUS
<1>4. Printed = <<>> /\ low = <<>>
  BY <1>1, <1>3 DEF Printed
<1>5. EntriesIn(<<>>) = {} /\ LostIn(<<>>) = 0 /\ Increasing(<<>>)
  BY NoChars
<1>6. {} \cup {} = {} /\ Cardinality({}) = 0
  BY FS_EmptySet
<1>7. syslog.buffer = <<>> /\ Len(syslog.buffer) = 0 /\ syslog.lost = 0 /\ syslog.recorded = 0
  BY <1>1
<1>8. Accounted(<<>>, <<>>, syslog)
  <2>1. syslog.recorded = Cardinality(EntriesIn(<<>>) \cup EntriesIn(<<>>)) + LostIn(<<>>) + LostIn(<<>>)
                          + syslog.lost + Len(syslog.buffer)
    <3>1. EntriesIn(<<>>) \cup EntriesIn(<<>>) = {}
      BY <1>5
    <3>2. Cardinality(EntriesIn(<<>>) \cup EntriesIn(<<>>)) = 0
      BY <1>6, <3>1
    <3> QED BY <3>2, <1>5, <1>7
  <2> QED BY <2>1, <1>5, <1>6, <1>7 DEF Accounted
<1> QED BY <1>2, <1>4, <1>8 DEF LogInv

(* Writing, and what only moves tasks.                                     *)
LEMMA SameText ==
  ASSUME LogInv, UNCHANGED <<lineVars, text, out, low>>,
         \/ UNCHANGED syslog
         \/ \E pri : syslog' = sysLogWrite(syslog, pri)
         \/ \E m \in Masks : syslog' = [syslog EXCEPT !.logMask = m]
  PROVE  LogInv'
<1>1. pending' = pending /\ line' = line /\ text' = text /\ out' = out /\ low' = low
  BY DEF lineVars
<1>2. Printed' = Printed
  BY <1>1 DEF Printed
<1>3. syslog \in LogRecord /\ Printed \in Seq(LogChar) /\ low \in Seq(LogChar) /\ Accounted(Printed, low, syslog)
  BY PrintedType DEF LogInv, LogTypes
<1>4. syslog' \in LogRecord /\ Accounted(Printed, low, syslog')
  <2>1. CASE UNCHANGED syslog
    BY <2>1, <1>3
  <2>2. ASSUME NEW pri, syslog' = sysLogWrite(syslog, pri) PROVE syslog' \in LogRecord /\ Accounted(Printed, low, syslog')
    <3>1. syslog' = syslog \/ syslog' = Recorded(syslog)
      BY <2>2 DEF sysLogWrite
    <3> QED BY <3>1, <1>3, RecordedKeeps
  <2>3. ASSUME NEW m \in Masks, syslog' = [syslog EXCEPT !.logMask = m]
        PROVE  syslog' \in LogRecord /\ Accounted(Printed, low, syslog')
    <3>1. m \in SUBSET Priority
      BY LogAssumption
    <3>2. syslog' = [buffer |-> syslog.buffer, lost |-> syslog.lost, logMask |-> m, recorded |-> syslog.recorded]
      BY <2>3, <1>3 DEF LogRecord
    <3>3. syslog' \in LogRecord
      BY <3>1, <3>2, <1>3 DEF LogRecord
    <3>4. /\ syslog'.buffer = syslog.buffer /\ syslog'.lost = syslog.lost /\ syslog'.recorded = syslog.recorded
      BY <3>2
    <3> QED BY <3>3, <3>4, <1>3 DEF Accounted
  <2> QED BY <2>1, <2>2, <2>3
<1> QED BY <1>1, <1>2, <1>3, <1>4 DEF LogInv, LogTypes

(* eSysLog_flush.                                                          *)
LEMMA FlushStep == ASSUME LogInv, sysLogFlush PROVE LogInv'
<1>1. pending' = pending /\ line' = line /\ text' = text /\ out' = out
      /\ low' = low \o WholeText(syslog) /\ syslog' = AfterReadAll(syslog)
  BY DEF lineVars, sysLogFlush
<1>2. Printed' = Printed
  BY <1>1 DEF Printed
<1>3. syslog \in LogRecord /\ Printed \in Seq(LogChar) /\ low \in Seq(LogChar) /\ Accounted(Printed, low, syslog)
  BY PrintedType DEF LogInv, LogTypes
<1>4. syslog' \in LogRecord /\ low' \in Seq(LogChar) /\ Accounted(Printed, low', syslog')
  BY <1>1, <1>3, FlushKeeps
<1> QED BY <1>1, <1>2, <1>4 DEF LogInv, LogTypes

(* A read by the log task.                                                 *)
LEMMA ReadStep == ASSUME LogInv, logTaskRead PROVE LogInv'
<1>1. text = <<>> /\ UNCHANGED <<lineVars, out, low>>
  BY DEF logTaskRead
<1>2. CASE Readable(syslog)
  <2> DEFINE X == (out \o OnLine(line)) \o pending
             t == ReadText(syslog)
  <2>1. text' = t /\ syslog' = AfterRead(syslog) /\ pending' = pending /\ line' = line /\ out' = out /\ low' = low
    BY <1>1, <1>2 DEF logTaskRead, lineVars
  <2>2. syslog \in LogRecord /\ Printed \in Seq(LogChar) /\ low \in Seq(LogChar) /\ Accounted(Printed, low, syslog)
        /\ X \in Seq(LogChar) /\ Printed = X \o text
    BY PrintedType DEF LogInv, LogTypes
  <2>3. Printed = X
    BY <2>2, <1>1, ConcatEmptySeq
  <2>4. t \in Seq(LogChar)
    BY <1>2, <2>2, ReadTextSays
  <2>5. Printed' = X \o t
    BY <2>1 DEF Printed, OnLine
  <2>6. syslog' \in LogRecord /\ Accounted(Printed \o t, low, syslog')
    BY <1>2, <2>1, <2>2, ReadKeeps
  <2>7. Accounted(Printed', low', syslog')
    BY <2>1, <2>3, <2>5, <2>6
  <2> QED BY <2>1, <2>4, <2>6, <2>7 DEF LogInv, LogTypes
<1>3. CASE ~Readable(syslog)
  <2>1. UNCHANGED <<lineVars, text, out, low>> /\ UNCHANGED syslog
    BY <1>1, <1>3 DEF logTaskRead, lineVars
  <2> QED BY <2>1, SameText
<1> QED BY <1>2, <1>3

(* A character that moves on along the line leaves the text as it was.     *)
LEMMA MovesOn ==
  ASSUME LogInv, UNCHANGED <<syslog, low>>,
         Printed' = Printed,
         out' \in Seq(LogChar), pending' \in Seq(LogChar), text' \in Seq(LogChar), line' \in LogChar \cup {NoChar}
  PROVE  LogInv'
BY DEF LogInv, LogTypes

(* logtask_putc: the character goes to the port, or straight to the line.  *)
LEMMA PutcStep == ASSUME LogInv, logtask_putc PROVE LogInv'
<1> DEFINE c == Head(text)
           r == Tail(text)
           X == out \o OnLine(line)
<1>1. text # <<>> /\ text' = r /\ UNCHANGED <<syslog, out, low>> /\ (Accept(c) \/ Straight(c))
  BY DEF logtask_putc
<1>2. c \in LogChar /\ r \in Seq(LogChar) /\ <<c>> \in Seq(LogChar) /\ <<c>> \o r = text
  BY <1>1, FirstAndRest DEF LogInv, LogTypes
<1>3. /\ X \in Seq(LogChar) /\ out \in Seq(LogChar) /\ pending \in Seq(LogChar) /\ text \in Seq(LogChar)
      /\ X \o pending \in Seq(LogChar) /\ Printed = (X \o pending) \o text
  BY PrintedType DEF LogInv, LogTypes
<1>4. Printed = ((X \o pending) \o <<c>>) \o r
  <2> DEFINE Y == X \o pending
  <2>1. Y \in Seq(LogChar) /\ Printed = Y \o (<<c>> \o r)
    BY <1>2, <1>3
  <2> HIDE DEF Y, c, r
  <2>2. (Y \o <<c>>) \o r = Y \o (<<c>> \o r)
    BY <2>1, <1>2, ConcatAssociative
  <2> QED BY <2>1, <2>2 DEF Y
<1>5. NoChar \notin LogChar
  BY LogAssumption DEF LogChar
<1>6. CASE Accept(c)
  <2>1. pending' = Append(pending, c) /\ line' = line /\ out' = out
    BY <1>1, <1>6 DEF Accept
  <2>2. pending' = pending \o <<c>> /\ pending' \in Seq(LogChar)
    BY <2>1, <1>2, <1>3, AppendIsConcat, ConcatProperties
  <2>3. Printed' = (X \o pending') \o r
    BY <2>1, <1>1 DEF Printed, OnLine
  <2>4. X \o pending' = (X \o pending) \o <<c>>
    <3> HIDE DEF X, c
    <3> QED BY <2>2, <1>2, <1>3, ConcatAssociative, SMTT(60)
  <2>5. Printed' = Printed
    BY <2>3, <2>4, <1>4
  <2> QED BY <2>1, <2>2, <2>5, <1>1, <1>2, MovesOn DEF LogInv, LogTypes
<1>7. CASE Straight(c)
  <2>1. pending = <<>> /\ pending' = <<>> /\ line = NoChar /\ line' = c /\ out' = out
    BY <1>1, <1>7 DEF Straight, Emit
  <2>2. OnLine(line) = <<>> /\ OnLine(c) = <<c>>
    BY <2>1, <1>2, <1>5 DEF OnLine
  <2>3. X = out /\ X \o pending = out
    BY <2>1, <2>2, <1>3, ConcatEmptySeq
  <2>4. Printed = (out \o <<c>>) \o r
    BY <2>3, <1>4
  <2>5. Printed' = ((out \o OnLine(c)) \o <<>>) \o r
    BY <2>1, <1>1 DEF Printed, OnLine
  <2>6. out \o <<c>> \in Seq(LogChar)
    BY <1>2, <1>3, ConcatProperties
  <2>7. Printed' = Printed
    BY <2>2, <2>4, <2>5, <2>6, ConcatEmptySeq
  <2> QED BY <2>1, <2>7, <1>1, <1>2, <1>3, MovesOn
<1> QED BY <1>1, <1>6, <1>7

(* A character leaves the port for the line.                               *)
LEMMA SendStep == ASSUME LogInv, LineSends PROVE LogInv'
<1> DEFINE c == Head(pending)
           r == Tail(pending)
<1>1. pending # <<>> /\ pending' = r /\ line = NoChar /\ line' = c /\ UNCHANGED <<syslog, text, out, low>>
  BY DEF LineSends, Send, Emit
<1>2. c \in LogChar /\ r \in Seq(LogChar) /\ <<c>> \in Seq(LogChar) /\ <<c>> \o r = pending
  BY <1>1, FirstAndRest DEF LogInv, LogTypes
<1>3. out \in Seq(LogChar) /\ text \in Seq(LogChar) /\ Printed = ((out \o OnLine(line)) \o pending) \o text
  BY PrintedType DEF LogInv, LogTypes
<1>4. NoChar \notin LogChar
  BY LogAssumption DEF LogChar
<1>5. OnLine(line) = <<>> /\ OnLine(c) = <<c>>
  BY <1>1, <1>2, <1>4 DEF OnLine
<1>6. out \o OnLine(line) = out
  BY <1>3, <1>5, ConcatEmptySeq
<1>7. Printed = ((out \o <<c>>) \o r) \o text
  <2> HIDE DEF c, r
  <2>1. Printed = (out \o (<<c>> \o r)) \o text
    BY ONLY <1>2, <1>3, <1>6, Zenon
  <2>2. out \o (<<c>> \o r) = (out \o <<c>>) \o r
    BY ONLY <1>2, <1>3, ConcatAssociative, SMTT(60)
  <2> QED BY ONLY <2>1, <2>2, Zenon
<1>8. Printed' = ((out \o OnLine(c)) \o r) \o text
  BY <1>1 DEF Printed, OnLine
<1>9. Printed' = Printed
  BY <1>5, <1>7, <1>8
<1> QED BY <1>1, <1>2, <1>3, <1>9, MovesOn

(* The character on the line has gone out.                                 *)
LEMMA SentStep == ASSUME LogInv, LineSent PROVE LogInv'
<1>1. line # NoChar /\ line' = NoChar /\ out' = Append(out, line) /\ UNCHANGED <<pending, syslog, text, low>>
  BY DEF LineSent, Sent
<1>2. line \in LogChar /\ out \in Seq(LogChar) /\ pending \in Seq(LogChar) /\ text \in Seq(LogChar)
      /\ Printed = ((out \o OnLine(line)) \o pending) \o text
  BY <1>1, PrintedType DEF LogInv, LogTypes
<1>3. out' = out \o <<line>> /\ out' \in Seq(LogChar)
  <2>1. out' = out \o <<line>>
    BY <1>1, <1>2, AppendIsConcat
  <2>2. <<line>> \in Seq(LogChar)
    BY <1>2
  <2> QED BY <2>1, <2>2, <1>2, ConcatProperties
<1>4. OnLine(line) = <<line>> /\ OnLine(NoChar) = <<>>
  BY <1>1 DEF OnLine
<1>5. Printed' = ((out' \o OnLine(NoChar)) \o pending) \o text
  BY <1>1 DEF Printed, OnLine
<1>6. out' \o OnLine(NoChar) = out'
  BY <1>3, <1>4, ConcatEmptySeq
<1>7. Printed' = Printed
  BY <1>2, <1>3, <1>4, <1>5, <1>6
<1> QED BY <1>1, <1>2, <1>3, <1>7, MovesOn

(* eLogTaskTerminate_main.                                                 *)
LEMMA TerminateStep == ASSUME LogInv, terminate PROVE LogInv'
<1> DEFINE A == out \o OnLine(line)
           L == low \o pending
<1>1. low' = L \o WholeText(syslog) /\ pending' = <<>> /\ syslog' = AfterReadAll(syslog)
      /\ UNCHANGED <<line, text, out>>
  BY DEF terminate
<1>2. /\ A \in Seq(LogChar) /\ pending \in Seq(LogChar) /\ text \in Seq(LogChar) /\ low \in Seq(LogChar)
      /\ syslog \in LogRecord /\ Printed = (A \o pending) \o text /\ Accounted(Printed, low, syslog)
  BY PrintedType DEF LogInv, LogTypes
<1>3. Accounted(A \o text, L, syslog) /\ A \o text \in Seq(LogChar) /\ L \in Seq(LogChar)
  <2>1. Accounted((A \o pending) \o text, low, syslog)
    BY <1>2
  <2> HIDE DEF A
  <2> QED BY <2>1, <1>2, MovedKeeps
<1>4. Accounted(A \o text, low', syslog') /\ syslog' \in LogRecord /\ low' \in Seq(LogChar)
  <2> HIDE DEF A, L
  <2> QED BY <1>1, <1>2, <1>3, FlushKeeps
<1>5. Printed' = (A \o <<>>) \o text
  BY <1>1 DEF Printed, OnLine
<1>6. A \o <<>> = A
  BY <1>2, ConcatEmptySeq
<1>7. Accounted(Printed', low', syslog')
  BY <1>4, <1>5, <1>6
<1> QED BY <1>1, <1>2, <1>4, <1>7 DEF LogInv, LogTypes

(* Every step keeps the invariant.                                         *)
LEMMA LogStep == ASSUME LogInv, [LogNext]_logVars PROVE LogInv'
<1>1. CASE write
  <2>1. \E pri : syslog' = sysLogWrite(syslog, pri)
    BY <1>1 DEF write
  <2> QED BY <1>1, <2>1, SameText DEF write
<1>2. CASE mask
  BY <1>2, SameText DEF mask
<1>3. CASE sysLogFlush
  BY <1>3, FlushStep
<1>4. CASE logTaskStart
  <2>1. \E pri : syslog' = sysLogWrite(syslog, pri)
    BY <1>4 DEF logTaskStart
  <2> QED BY <1>4, <2>1, SameText DEF logTaskStart
<1>5. CASE logTaskRead
  BY <1>5, ReadStep
<1>6. CASE logTaskWakes \/ flushBegin \/ flushLooks \/ flushReleased \/ UNCHANGED logVars
  BY <1>6, SameText DEF logTaskWakes, flushBegin, flushLooks, flushReleased, logVars
<1>7. CASE logtask_putc
  BY <1>7, PutcStep
<1>8. CASE terminate
  BY <1>8, TerminateStep
<1>9. CASE LineSends
  BY <1>9, SendStep
<1>10. CASE LineSent
  BY <1>10, SentStep
<1>11. CASE PeerHolds
  <2>1. UNCHANGED <<pending, line, syslog, text, out, low>>
    BY <1>11 DEF PeerHolds, HoldOrRelease
  <2>2. Printed' = Printed
    BY <2>1 DEF Printed
  <2> QED BY <2>1, <2>2, MovesOn DEF LogInv, LogTypes
<1> QED BY <1>1, <1>2, <1>3, <1>4, <1>5, <1>6, <1>7, <1>8, <1>9, <1>10, <1>11 DEF LogNext, LogTaskStep

(* The invariant says what is wanted.                                      *)
LEMMA LogAccounts == ASSUME LogInv PROVE EntriesAccounted
<1>1. DOMAIN syslog.buffer = 1 .. Len(syslog.buffer)
  <2>1. syslog.buffer \in Seq(Nat)
    BY DEF LogInv, LogTypes, LogRecord
  <2> QED BY <2>1
<1> QED BY <1>1 DEF LogInv, Accounted, EntriesAccounted

(* Nothing recorded in the system log gets lost unnoticed, whatever the    *)
(* size of its buffer, the masks set and the order of writing, reading,    *)
(* flushing and termination.                                               *)
THEOREM EntriesKept == LogSpec => []EntriesAccounted
<1>1. LogInit => LogInv
  BY LogInitially
<1>2. LogInv /\ [LogNext]_logVars => LogInv'
  BY LogStep
<1>3. LogInv => EntriesAccounted
  BY LogAccounts
<1> QED BY <1>1, <1>2, <1>3, PTL DEF LogSpec
=============================================================================
