--------------------------- MODULE TelemetryProofs ---------------------------
(***************************************************************************)
(* The upload of a driver's points: none is lost, none is stored twice     *)
(* unless its batch was raced, and the live state follows the track,       *)
(* for any runtimes, calls and batch size.  The position writer: a flush   *)
(* that returned has seen an outcome for everything that waited when it    *)
(* was called, for any flushes, tenants and buffer sizes.                  *)
(***************************************************************************)
EXTENDS Telemetry, TelemetryWriter, FunctionTheorems, FiniteSetTheorems, SequenceTheorems,
        TLAPS

-----------------------------------------------------------------------------
(* Finite sets of numbers *)

\* A set of finite sets that is not empty has a smallest one.
LEMMA SmallestSet ==
    ASSUME NEW S, IsFiniteSet(S), NEW F \in SUBSET SUBSET S, F # {}
    PROVE  \E T \in F : \A U \in F : U \subseteq T => U = T
<1> DEFINE R == StrictSubsetOrdering(S)
<1>1. IsWellFoundedOn(R, FiniteSubsetsOf(S))
  BY FS_StrictSubsetOrderingWellFounded
<1>2. F \subseteq FiniteSubsetsOf(S)
  BY FS_Subset DEF FiniteSubsetsOf
<1>3. PICK T \in F : \A U \in F : <<U, T>> \notin R
  <2> HIDE DEF R
  <2> QED
    BY <1>1, <1>2, WFMin
<1>4. ASSUME NEW U \in F, U \subseteq T PROVE U = T
  <2> SUFFICES ASSUME U # T PROVE FALSE
    OBVIOUS
  <2>1. <<U, T>> \in R
    BY <1>4 DEF StrictSubsetOrdering
  <2> QED
    BY <1>3, <2>1
<1> QED
  BY <1>4

LEMMA MaxIs ==
    ASSUME NEW S, \A z \in S : z \in Int, IsFiniteSet(S), S # {}
    PROVE  Max(S) \in S /\ \A y \in S : Max(S) >= y
<1> DEFINE Above(x) == {y \in S : y >= x}
           F == {Above(x) : x \in S}
<1>1. PICK T \in F : \A U \in F : U \subseteq T => U = T
  <2>1. F \in SUBSET SUBSET S /\ F # {}
    OBVIOUS
  <2> HIDE DEF F, Above
  <2> QED
    BY <2>1, SmallestSet
<1>2. PICK x \in S : T = Above(x)
  OBVIOUS
<1> HIDE DEF F
<1>3. ASSUME NEW y \in S PROVE x >= y
  <2> SUFFICES ASSUME y > x PROVE FALSE
    OBVIOUS
  <2>1. Above(y) \subseteq T
    BY <1>2
  <2>2. Above(y) \in F
    BY DEF F
  <2>3. Above(y) = T
    <3> HIDE DEF Above
    <3> QED
      BY <1>1, <2>1, <2>2
  <2> QED
    BY <1>2, <2>3
<1> QED
  BY <1>3 DEF Max

LEMMA MinIs ==
    ASSUME NEW S, \A z \in S : z \in Int, IsFiniteSet(S), S # {}
    PROVE  Min(S) \in S /\ \A y \in S : Min(S) <= y
<1> DEFINE Below(x) == {y \in S : y <= x}
           F == {Below(x) : x \in S}
<1>1. PICK T \in F : \A U \in F : U \subseteq T => U = T
  <2>1. F \in SUBSET SUBSET S /\ F # {}
    OBVIOUS
  <2> HIDE DEF F, Below
  <2> QED
    BY <2>1, SmallestSet
<1>2. PICK x \in S : T = Below(x)
  OBVIOUS
<1> HIDE DEF F
<1>3. ASSUME NEW y \in S PROVE x <= y
  <2> SUFFICES ASSUME y < x PROVE FALSE
    OBVIOUS
  <2>1. Below(y) \subseteq T
    BY <1>2
  <2>2. Below(y) \in F
    BY DEF F
  <2>3. Below(y) = T
    <3> HIDE DEF Below
    <3> QED
      BY <1>1, <2>1, <2>2
  <2> QED
    BY <1>2, <2>3
<1> QED
  BY <1>3 DEF Min

\* What it is to list a set in order.
Ordered(s, S, n) ==
    /\ s \in [1..n -> S]
    /\ \A i, j \in 1..n : i < j => s[i] < s[j]

LEMMA OrderedExists ==
    ASSUME NEW S, \A z \in S : z \in Int, IsFiniteSet(S)
    PROVE  \E s : Ordered(s, S, Cardinality(S))
<1> DEFINE F == {T \in SUBSET S : ~\E s : Ordered(s, T, Cardinality(T))}
<1> SUFFICES ASSUME F # {} PROVE FALSE
  OBVIOUS
<1>1. PICK T \in F : \A U \in F : U \subseteq T => U = T
  <2>1. F \in SUBSET SUBSET S
    OBVIOUS
  <2> HIDE DEF F
  <2> QED
    BY <2>1, SmallestSet
<1>2. (\A z \in T : z \in Int) /\ IsFiniteSet(T) /\ ~\E s : Ordered(s, T, Cardinality(T))
  BY FS_Subset
<1>3. CASE T = {}
  <2>1. Cardinality(T) = 0
    BY <1>3, FS_EmptySet
  <2>2. Ordered([i \in 1..0 |-> 0], T, 0)
    BY DEF Ordered
  <2> QED
    BY <1>2, <2>1, <2>2
<1>4. CASE T # {}
  <2> DEFINE m == Max(T)
             U == T \ {m}
             k == Cardinality(U)
  <2>1. m \in T /\ \A y \in T : m >= y
    BY <1>2, <1>4, MaxIs
  <2>2. IsFiniteSet(U) /\ k \in Nat /\ Cardinality(T) = k + 1
    <3>1. IsFiniteSet(U) /\ k = Cardinality(T) - 1
      BY <1>2, <2>1, FS_RemoveElement
    <3>2. k \in Nat /\ Cardinality(T) \in Nat
      BY <1>2, <3>1, FS_CardinalityType
    <3> QED
      BY <3>1, <3>2
  <2>3. U \notin F
    BY <1>1, <2>1
  <2>4. PICK t : Ordered(t, U, k)
    BY <2>3
  <2> DEFINE s == [i \in 1..(k + 1) |-> IF i = k + 1 THEN m ELSE t[i]]
  <2> HIDE DEF k
  <2>5. \A i \in 1..k : t[i] \in T /\ t[i] < m
    <3>1. \A y \in U : y \in T /\ y < m
      BY <1>2, <2>1
    <3> HIDE DEF m, U
    <3> QED
      BY <2>4, <3>1 DEF Ordered
  <2>6. s \in [1..(k + 1) -> T]
    <3> HIDE DEF m, U
    <3> QED
      BY <2>1, <2>2, <2>5
  <2>7. ASSUME NEW i \in 1..(k + 1), NEW j \in 1..(k + 1), i < j PROVE s[i] < s[j]
    <3>1. i \in 1..k /\ (j = k + 1 \/ j \in 1..k)
      BY <2>2, <2>7
    <3>2. s[i] = t[i] /\ (j \in 1..k => s[j] = t[j]) /\ (j = k + 1 => s[j] = m)
      <4> HIDE DEF m, U
      <4> QED
        BY <2>2, <3>1
    <3> HIDE DEF s, m, U
    <3> QED
      BY <2>4, <2>5, <2>7, <3>1, <3>2 DEF Ordered
  <2>8. Ordered(s, T, k + 1)
    <3> HIDE DEF s, m, U
    <3> QED
      BY <2>6, <2>7 DEF Ordered
  <2> QED
    BY <1>2, <2>2, <2>8
<1> QED
  BY <1>3, <1>4

\* A finite set of numbers.
FinInts(S) == IsFiniteSet(S) /\ \A z \in S : z \in Int

ListsInOrder(s, S, n) ==
    /\ n \in Nat /\ (n = 0 <=> S = {})
    /\ s \in Seq(S) /\ Len(s) = n
    /\ \A i, j \in 1..n : i < j => s[i] < s[j]
    /\ \A i, j \in 1..n : s[i] = s[j] => i = j
    /\ \A p \in S : \E i \in 1..n : s[i] = p

\* The points of a batch in order: each of them once, the newest last.
LEMMA InOrderIs ==
    ASSUME NEW S, FinInts(S), NEW n, n = Cardinality(S), NEW s, s = InOrderOf(S)
    PROVE  ListsInOrder(s, S, n)
<1>0. IsFiniteSet(S) /\ \A z \in S : z \in Int
  BY DEF FinInts
<1>1. n \in Nat /\ (n = 0 <=> S = {})
  BY <1>0, FS_CardinalityType, FS_EmptySet
<1>2. Ordered(s, S, n)
  BY <1>0, OrderedExists DEF InOrderOf, Ordered
<1>3. s \in Seq(S) /\ Len(s) = n
  BY <1>1, <1>2 DEF Ordered
<1>4. \A i \in 1..n : s[i] \in Int
  BY <1>0, <1>2 DEF Ordered
<1>5. ASSUME NEW i \in 1..n, NEW j \in 1..n, s[i] = s[j] PROVE i = j
  <2>1. ~(i < j) /\ ~(j < i)
    BY <1>2, <1>4, <1>5 DEF Ordered
  <2> QED
    BY <1>1, <2>1
<1>6. s \in Surjection(1..n, S)
  <2>1. s \in Injection(1..n, S)
    BY <1>2, <1>5 DEF Ordered, Injection, IsInjective
  <2>2. Cardinality(1..n) = n
    BY <1>1, FS_Interval
  <2> QED
    BY <1>0, <2>1, <2>2, FS_Injection
<1>7. \A p \in S : \E i \in 1..n : s[i] = p
  BY <1>6 DEF Surjection
<1> QED
  BY <1>1, <1>2, <1>3, <1>5, <1>7 DEF Ordered, ListsInOrder

-----------------------------------------------------------------------------
(* A batch against the track it continues *)

IsFirst(p, S) == \A q \in S : p <= q
Precedes(q, p, S) == q < p /\ \A r \in S : r < p => r <= q

LEMMA FirstFinds ==
    ASSUME NEW S, FinInts(S), NEW p \in S, IsFirst(p, S), NEW stored
    PROVE  Before(p, S, stored) = stored
<1>a. IsFiniteSet(S) /\ \A z \in S : z \in Int
  BY DEF FinInts
<1> USE <1>a
<1>1. {q \in S : q < p} = {}
  BY DEF IsFirst
<1> QED
  BY <1>1 DEF Before

LEMMA NextFinds ==
    ASSUME NEW S, FinInts(S), NEW p \in S, NEW q \in S,
           Precedes(q, p, S), NEW stored
    PROVE  Before(p, S, stored) = points[q].near
<1>a. IsFiniteSet(S) /\ \A z \in S : z \in Int
  BY DEF FinInts
<1> USE <1>a
<1> DEFINE earlier == {r \in S : r < p}
<1>1. IsFiniteSet(earlier) /\ (\A z \in earlier : z \in Int) /\ q \in earlier
  BY FS_Subset DEF Precedes
<1>2. Max(earlier) \in earlier /\ Max(earlier) >= q
  <2> HIDE DEF earlier
  <2> QED
    BY <1>1, MaxIs
<1>3. Max(earlier) = q
  BY <1>2 DEF Precedes
<1>4. earlier # {}
  BY <1>1
<1> QED
  BY <1>3, <1>4 DEF Before

\* What a point finds is the stored state or that of a point before it.
LEMMA Finds ==
    ASSUME NEW S, FinInts(S), NEW p \in S, NEW stored
    PROVE  \/ IsFirst(p, S) /\ Before(p, S, stored) = stored
           \/ \E q \in S : Precedes(q, p, S) /\ Before(p, S, stored) = points[q].near
<1>a. IsFiniteSet(S) /\ \A z \in S : z \in Int
  BY DEF FinInts
<1> USE <1>a
<1> DEFINE earlier == {r \in S : r < p}
<1>1. CASE earlier = {}
  <2>1. IsFirst(p, S)
    BY <1>1 DEF IsFirst
  <2> QED
    BY <2>1, FirstFinds
<1>2. CASE earlier # {}
  <2>1. IsFiniteSet(earlier) /\ \A z \in earlier : z \in Int
    BY FS_Subset
  <2>2. Max(earlier) \in earlier /\ \A r \in earlier : Max(earlier) >= r
    <3> HIDE DEF earlier
    <3> QED
      BY <1>2, <2>1, MaxIs
  <2> DEFINE q == Max(earlier)
  <2>3. q \in S /\ Precedes(q, p, S)
    BY <2>2 DEF Precedes
  <2> HIDE DEF q, earlier
  <2> QED
    BY <2>3, NextFinds
<1> QED
  BY <1>1, <1>2

\* Where no point changes the state it stays what it was.
StaysAt(R, S, stored, v) ==
    /\ R \subseteq S
    /\ \A p \in R :
        /\ p \notin Changes(S, stored)
        /\ \/ Before(p, S, stored) = v
           \/ \E q \in R : Precedes(q, p, S) /\ Before(p, S, stored) = points[q].near

LEMMA NoChange ==
    ASSUME NEW S, FinInts(S), NEW stored, NEW R, NEW v, StaysAt(R, S, stored, v)
    PROVE  \A p \in R : points[p].near = v
<1>a. IsFiniteSet(S) /\ \A z \in S : z \in Int
  BY DEF FinInts
<1> USE <1>a
<1> DEFINE bad == {p \in R : points[p].near # v}
           m == Min(bad)
<1> SUFFICES ASSUME bad # {} PROVE FALSE
  OBVIOUS
<1>0. R \subseteq S
  BY DEF StaysAt
<1>1. m \in bad /\ \A p \in bad : m <= p
  <2>1. IsFiniteSet(bad) /\ \A z \in bad : z \in Int
    BY <1>0, FS_Subset
  <2> HIDE DEF bad
  <2> QED
    BY <2>1, MinIs
<1> HIDE DEF m
<1>2. m \in R /\ points[m].near # v /\ m \in Int
  BY <1>0, <1>1
<1>3. points[m].near = Before(m, S, stored)
  BY <1>0, <1>2 DEF Changes, StaysAt
<1>4. PICK q \in R : q < m /\ points[m].near = points[q].near
  BY <1>2, <1>3 DEF Precedes, StaysAt
<1>5. q \notin bad
  BY <1>1, <1>2, <1>4
<1> QED
  BY <1>0, <1>2, <1>4, <1>5

\* The last change, or none, tells the state at the newest point.
LEMMA LastChange ==
    ASSUME NEW S, FinInts(S), S # {}, NEW stored
    PROVE  /\ Changes(S, stored) = {} => points[Max(S)].near = stored
           /\ Changes(S, stored) # {} => points[Max(Changes(S, stored))].near = points[Max(S)].near
<1>a. IsFiniteSet(S) /\ \A z \in S : z \in Int
  BY DEF FinInts
<1> USE <1>a
<1>1. Max(S) \in S /\ \A y \in S : Max(S) >= y
  BY MaxIs
<1>2. ASSUME Changes(S, stored) = {} PROVE points[Max(S)].near = stored
  <2>1. \A p \in S : \/ Before(p, S, stored) = stored
                     \/ \E q \in S : Precedes(q, p, S) /\ Before(p, S, stored) = points[q].near
    BY Finds
  <2>3. StaysAt(S, S, stored, stored)
    BY <1>2, <2>1 DEF StaysAt
  <2>2. \A p \in S : points[p].near = stored
    BY <2>3, NoChange
  <2> QED
    BY <1>1, <2>2
<1>3. ASSUME Changes(S, stored) # {}
      PROVE  points[Max(Changes(S, stored))].near = points[Max(S)].near
  <2> DEFINE C == Changes(S, stored)
             m == Max(C)
             R == {p \in S : p > m}
  <2>1. C \subseteq S
    BY DEF Changes
  <2>2. m \in C /\ \A y \in C : m >= y
    <3>1. IsFiniteSet(C) /\ \A z \in C : z \in Int
      BY <2>1, FS_Subset
    <3> HIDE DEF C
    <3> QED
      BY <1>3, <3>1, MaxIs DEF C
  <2> HIDE DEF m
  <2>3. \A p \in R : p \notin C
    BY <2>1, <2>2
  <2>4. ASSUME NEW p \in R
        PROVE  \/ Before(p, S, stored) = points[m].near
               \/ \E q \in R : Precedes(q, p, S) /\ Before(p, S, stored) = points[q].near
    <3>1. p \in S /\ p > m /\ m \in S /\ m \in Int /\ p \in Int
      BY <2>1, <2>2
    <3>5. \/ IsFirst(p, S)
          \/ \E q \in S : Precedes(q, p, S) /\ Before(p, S, stored) = points[q].near
      BY <3>1, Finds
    <3>6. ~IsFirst(p, S)
      BY <3>1 DEF IsFirst
    <3>2. PICK q \in S : Precedes(q, p, S) /\ Before(p, S, stored) = points[q].near
      BY <3>5, <3>6
    <3>3. q \in Int /\ m <= q
      BY <3>1, <3>2 DEF Precedes
    <3>4. q = m \/ q > m
      BY <3>1, <3>3
    <3> QED
      BY <3>2, <3>4
  <2>5. R \in SUBSET S
    OBVIOUS
  <2>6. \A p \in R : points[p].near = points[m].near
    <3>1. \A p \in R : p \notin Changes(S, stored)
      BY <2>3
    <3> HIDE DEF R, C
    <3>2. StaysAt(R, S, stored, points[m].near)
      BY <2>4, <2>5, <3>1 DEF StaysAt
    <3> QED
      BY <3>2, NoChange
  <2>7. Max(S) = m \/ Max(S) \in R
    BY <1>1, <2>1, <2>2
  <2> QED
    BY <2>6, <2>7 DEF m
<1> QED
  BY <1>2, <1>3

\* The inside-set a track leaves behind.
LeftAt(seq, stored) == stored = IF seq = <<>> THEN FALSE ELSE points[seq[Len(seq)]].near

\* The batch adds the entries it counts to those of the track.
LEMMA EntriesAdd ==
    ASSUME NEW S, FinInts(S), NEW s, s = InOrderOf(S),
           \A p \in S : points[p].near \in BOOLEAN,
           NEW prev \in Seq(Captured), \A i \in 1..Len(prev) : points[prev[i]].near \in BOOLEAN,
           NEW stored, LeftAt(prev, stored)
    PROVE  /\ IsFiniteSet(Enters(prev))
           /\ Cardinality(Enters(prev \o s))
                 = Cardinality(Enters(prev)) + Cardinality({p \in Changes(S, stored) : points[p].near})
<1>a. IsFiniteSet(S) /\ \A z \in S : z \in Int
  BY DEF FinInts
<1> USE <1>a
<1> DEFINE n == Cardinality(S)
           seq == prev \o s
           new == {p \in Changes(S, stored) : points[p].near}
           fresh == {i \in DOMAIN seq : i > Len(prev) /\ i \in Enters(seq)}
<1>0. n = Cardinality(S)
  OBVIOUS
<1> HIDE DEF n, seq, new, fresh
<1>1. /\ n \in Nat /\ s \in Seq(S) /\ Len(s) = n
      /\ \A i, j \in 1..n : i < j => s[i] < s[j]
      /\ \A i, j \in 1..n : s[i] = s[j] => i = j
      /\ \A p \in S : \E i \in 1..n : s[i] = p
  <2>1. ListsInOrder(s, S, n)
    BY <1>0, InOrderIs
  <2> QED
    BY <2>1 DEF ListsInOrder
<1>2. PICK k \in Nat : k = Len(prev)
  OBVIOUS
<1>3. /\ DOMAIN seq = 1..(k + n)
      /\ \A i \in 1..k : seq[i] = prev[i]
      /\ \A j \in 1..n : seq[k + j] = s[j]
      /\ DOMAIN prev = 1..k /\ (prev = <<>> <=> k = 0)
  <2>1. DOMAIN prev = 1..k /\ (prev = <<>> <=> k = 0)
    BY <1>2
  <2>2. DOMAIN seq = 1..(k + n) /\ \A i \in 1..(k + n) : seq[i] = IF i <= k THEN prev[i] ELSE s[i - k]
    BY <1>1, <1>2 DEF seq
  <2>3. ASSUME NEW j \in 1..n PROVE seq[k + j] = s[j]
    <3>1. k + j \in 1..(k + n) /\ ~(k + j <= k) /\ k + j - k = j
      BY <1>1, <1>2
    <3> QED
      BY <2>2, <3>1
  <2>4. ASSUME NEW i \in 1..k PROVE seq[i] = prev[i]
    <3>1. i \in 1..(k + n) /\ i <= k
      BY <1>1, <1>2
    <3> QED
      BY <2>2, <3>1
  <2> QED
    BY <2>1, <2>2, <2>3, <2>4
<1>4. \A j \in 1..n : s[j] \in S /\ s[j] \in Int
  BY <1>1
\* A point finds what stands before it in the track.
<1>5. ASSUME NEW j \in 1..n
      PROVE  /\ j = 1 => Before(s[j], S, stored) = stored
             /\ j # 1 => j - 1 \in 1..n /\ Before(s[j], S, stored) = points[s[j - 1]].near
  <2>1. ASSUME j = 1 PROVE Before(s[j], S, stored) = stored
    <3>1. ASSUME NEW q \in S PROVE s[j] <= q
      <4>1. PICK i \in 1..n : s[i] = q
        BY <1>1
      <4>2. i = j \/ j < i
        BY <1>1, <2>1
      <4>3. s[j] \in Int /\ s[i] \in Int /\ (j < i => s[j] < s[i])
        BY <1>1, <1>4
      <4> QED
        BY <4>1, <4>2, <4>3
    <3>2. PICK p \in S : p = s[j]
      BY <1>4
    <3>3. IsFirst(p, S)
      BY <3>1, <3>2 DEF IsFirst
    <3>4. Before(p, S, stored) = stored
      BY <3>3, FirstFinds
    <3> QED
      BY <3>2, <3>4
  <2>2. ASSUME j # 1
        PROVE  j - 1 \in 1..n /\ Before(s[j], S, stored) = points[s[j - 1]].near
    <3>1. j - 1 \in 1..n /\ j - 1 < j
      BY <1>1, <2>2
    <3>2. PICK i \in 1..n : i = j - 1
      BY <3>1
    <3>3. s[i] \in S /\ s[i] < s[j] /\ s[j] \in S
      BY <1>1, <1>4, <3>1, <3>2
    <3>4. ASSUME NEW r \in S, r < s[j] PROVE r <= s[i]
      <4>1. PICK l \in 1..n : s[l] = r
        BY <1>1
      <4>2. l < j
        BY <1>1, <1>4, <3>4, <4>1
      <4>3. l <= i
        BY <3>2, <4>2
      <4> QED
        BY <1>1, <1>4, <4>1, <4>3
    <3>6. PICK p \in S, q \in S : p = s[j] /\ q = s[i]
      BY <3>3
    <3>5. Precedes(q, p, S)
      BY <3>3, <3>4, <3>6 DEF Precedes
    <3>7. Before(p, S, stored) = points[q].near
      BY <3>5, NextFinds
    <3> QED
      BY <3>1, <3>2, <3>6, <3>7
  <2> QED
    BY <2>1, <2>2
<1>6. ASSUME NEW j \in 1..n PROVE k + j \in Enters(seq) <=> s[j] \in new
  <2>1. k + j \in DOMAIN seq /\ k + j >= 1
    BY <1>1, <1>3
  <2>2. seq[k + j] = s[j] /\ s[j] \in S /\ points[s[j]].near \in BOOLEAN
    BY <1>3, <1>4
  <2>3. s[j] \in new <=> points[s[j]].near /\ points[s[j]].near # Before(s[j], S, stored)
    BY <2>2 DEF Changes, new
  <2>4. k + j \in Enters(seq) <=>
            points[s[j]].near /\ (k + j = 1 \/ ~points[seq[k + j - 1]].near)
    BY <2>1, <2>2 DEF Enters
  <2>5. CASE j # 1
    <3>1. PICK i \in 1..n : i = j - 1 /\ k + j - 1 = k + i
      BY <1>5, <2>5
    <3>2. seq[k + j - 1] = s[i] /\ k + j # 1 /\ points[s[i]].near \in BOOLEAN
      BY <1>1, <1>3, <1>4, <2>5, <3>1
    <3>3. Before(s[j], S, stored) = points[s[i]].near
      BY <1>5, <2>5, <3>1
    <3> QED
      BY <2>2, <2>3, <2>4, <3>2, <3>3
  <2>6. CASE j = 1 /\ k = 0
    <3>1. k + j = 1 /\ prev = <<>> /\ stored = FALSE
      BY <1>2, <1>3, <2>6 DEF LeftAt
    <3>2. Before(s[j], S, stored) = FALSE
      BY <1>5, <2>6, <3>1
    <3> QED
      BY <2>2, <2>3, <2>4, <3>1, <3>2
  <2>7. CASE j = 1 /\ k # 0
    <3>1. k \in 1..k /\ k + j - 1 = k /\ k + j # 1
      BY <1>2, <2>7
    <3>4. stored = points[prev[k]].near
      BY <1>2, <1>3, <2>7 DEF LeftAt
    <3>2. Before(s[j], S, stored) = points[prev[k]].near
      BY <1>5, <2>7, <3>4
    <3>3. seq[k + j - 1] = prev[k] /\ points[prev[k]].near \in BOOLEAN
      BY <1>2, <1>3, <3>1
    <3> QED
      BY <2>2, <2>3, <2>4, <3>1, <3>2, <3>3
  <2> QED
    BY <1>2, <2>5, <2>6, <2>7
<1>7. ASSUME NEW i \in 1..k PROVE i \in Enters(seq) <=> i \in Enters(prev)
  <2>1. i \in DOMAIN seq /\ i \in DOMAIN prev /\ seq[i] = prev[i]
    BY <1>1, <1>2, <1>3
  <2>2. i # 1 => seq[i - 1] = prev[i - 1]
    <3> SUFFICES ASSUME i # 1 PROVE seq[i - 1] = prev[i - 1]
      OBVIOUS
    <3>1. i - 1 \in 1..k
      BY <1>2
    <3> QED
      BY <1>3, <3>1
  <2> QED
    BY <2>1, <2>2 DEF Enters
<1>8. Enters(seq) = Enters(prev) \cup fresh /\ Enters(prev) \cap fresh = {}
  <2>1. Enters(prev) \subseteq 1..k /\ Enters(seq) \subseteq 1..(k + n)
    BY <1>3 DEF Enters
  <2>2. \A i \in 1..(k + n) : i \in 1..k \/ i > k
    BY <1>1, <1>2
  <2>3. \A i \in 1..k : i \in 1..(k + n) /\ ~(i > k)
    BY <1>1, <1>2
  <2>4. \A i : i \in fresh <=> i \in 1..(k + n) /\ i > k /\ i \in Enters(seq)
    BY <1>2, <1>3 DEF fresh
  <2>5. ASSUME NEW i PROVE i \in Enters(seq) <=> i \in Enters(prev) \cup fresh
    BY <1>7, <2>1, <2>2, <2>3, <2>4
  <2>6. ASSUME NEW i \in Enters(prev), i \in fresh PROVE FALSE
    BY <2>1, <2>3, <2>4, <2>6
  <2> QED
    BY <2>5, <2>6
<1>9. IsFiniteSet(Enters(prev)) /\ IsFiniteSet(fresh)
  <2>1. IsFiniteSet(1..k) /\ IsFiniteSet(1..(k + n))
    BY <1>1, FS_Interval
  <2>2. Enters(prev) \subseteq 1..k /\ fresh \subseteq 1..(k + n)
    BY <1>3 DEF Enters, fresh
  <2> QED
    BY <2>1, <2>2, FS_Subset
<1>10. Cardinality(new) = Cardinality(fresh)
  <2> DEFINE f == [i \in fresh |-> seq[i]]
  <2>1. ASSUME NEW i \in fresh PROVE \E j \in 1..n : i = k + j /\ seq[i] = s[j] /\ s[j] \in new
    <3>1. i \in 1..(k + n) /\ i > k /\ i \in Enters(seq)
      BY <1>2, <1>3 DEF fresh
    <3>2. PICK j \in 1..n : i = k + j
      <4>1. i - k \in 1..n /\ i = k + (i - k)
        BY <1>1, <1>2, <3>1
      <4> QED
        BY <4>1
    <3> QED
      BY <1>3, <1>6, <3>1, <3>2
  <2>2. ASSUME NEW p \in new PROVE \E i \in fresh : seq[i] = p
    <3>1. p \in S
      BY DEF Changes, new
    <3>2. PICK j \in 1..n : s[j] = p
      BY <1>1, <3>1
    <3>3. k + j \in Enters(seq)
      BY <1>6, <3>2
    <3>4. k + j \in DOMAIN seq /\ k + j > k
      BY <1>1, <1>2, <1>3
    <3>5. k + j \in fresh
      BY <1>2, <3>3, <3>4 DEF fresh
    <3> QED
      BY <1>3, <3>2, <3>5
  <2>3. f \in [fresh -> new]
    BY <2>1
  <2>4. ASSUME NEW i \in fresh, NEW j \in fresh, f[i] = f[j] PROVE i = j
    BY <1>1, <2>1, <2>4
  <2>5. f \in Bijection(fresh, new)
    BY <2>2, <2>3, <2>4 DEF Bijection, Injection, Surjection, IsInjective
  <2>6. ExistsBijection(fresh, new)
    BY <2>5 DEF ExistsBijection
  <2> QED
    BY <1>9, <2>6, FS_Bijection
<1>11. Cardinality(Enters(seq)) = Cardinality(Enters(prev)) + Cardinality(fresh)
  <2>1. Cardinality(Enters(prev) \cap fresh) = 0
    BY <1>8, FS_EmptySet
  <2>2. Cardinality(Enters(prev)) \in Nat /\ Cardinality(fresh) \in Nat
    BY <1>9, FS_CardinalityType
  <2>3. Cardinality(Enters(prev) \cup fresh)
          = Cardinality(Enters(prev)) + Cardinality(fresh) - Cardinality(Enters(prev) \cap fresh)
    BY <1>9, FS_Union
  <2> QED
    BY <1>8, <2>1, <2>2, <2>3
<1> QED
  BY <1>9, <1>10, <1>11 DEF seq, new

-----------------------------------------------------------------------------
(* Types *)

CallStates ==
    {"free", "asked", "taken", "persist", "publish", "remember", "accepted", "outside", "failed"}

PointRow(n) == [shift : 1..MaxShifts, batch : 0..n, near : BOOLEAN]
UpRow(n) == [at : {"idle", "calling", "stopping"}, batch : 0..n, call : Calls \cup {Nothing}]
CallRow(n, P) ==
    [at : CallStates, batch : 0..n, points : SUBSET P, near : BOOLEAN \cup {Nothing},
     entries : Nat, heard : BOOLEAN]

ShiftTypes ==
    /\ open \in 0..shifts /\ shifts \in 0..MaxShifts
    /\ tracking \in 0..shifts /\ refresh \in {NoRefresh} \cup 0..shifts
    /\ trouble \in 0..MaxTrouble

PhoneTypes ==
    /\ batches \in Nat
    /\ points \in Seq(PointRow(batches))
    /\ queued \subseteq Captured /\ refused \subseteq Captured
    /\ up \in [Runtimes -> UpRow(batches)]

ServerTypes ==
    /\ call \in [Calls -> CallRow(batches, Captured)]
    /\ track \in Seq(Captured)
    /\ remembered \subseteq 1..batches /\ raced \subseteq 1..batches
    /\ inside \in BOOLEAN /\ presence \in 0..Len(points) /\ arrivals \in Nat

LEMMA TypesAre == TelemetryTypeOK <=> ShiftTypes /\ PhoneTypes /\ ServerTypes
  BY DEF TelemetryTypeOK, ShiftTypes, PhoneTypes, ServerTypes, PointRow, UpRow, CallRow,
         CallStates

\* What the types say of the rows.
LEMMA RowsAre ==
    ASSUME PhoneTypes, ServerTypes
    PROVE  /\ batches \in Nat /\ Len(points) \in Nat
           /\ Captured = 1..Len(points) /\ DOMAIN points = Captured
           /\ \A p \in Captured : /\ p \in Int /\ points[p].batch \in 0..batches
                                  /\ points[p].near \in BOOLEAN
                                  /\ points[p] \in PointRow(batches)
           /\ \A c \in Calls : /\ call[c].at \in CallStates /\ call[c].batch \in 0..batches
                               /\ call[c].points \subseteq Captured
                               /\ call[c].near \in BOOLEAN \cup {Nothing}
                               /\ call[c].entries \in Nat
<1>1. batches \in Nat /\ Len(points) \in Nat /\ Captured = 1..Len(points) /\ DOMAIN points = Captured
  BY DEF PhoneTypes, Captured
<1>2. \A p \in Captured : points[p] \in PointRow(batches)
  <2> DEFINE row == PointRow(batches)
  <2>1. points \in Seq(row)
    BY DEF PhoneTypes
  <2> HIDE DEF row
  <2>2. \A p \in Captured : points[p] \in row
    BY <1>1, <2>1
  <2> QED
    BY <2>2 DEF row
<1>3. \A p \in Captured : p \in Int /\ points[p].batch \in 0..batches /\ points[p].near \in BOOLEAN
  BY <1>1, <1>2 DEF PointRow
<1>4. ASSUME NEW c \in Calls
      PROVE  /\ call[c].at \in CallStates /\ call[c].batch \in 0..batches
             /\ call[c].points \subseteq Captured
             /\ call[c].near \in BOOLEAN \cup {Nothing}
             /\ call[c].entries \in Nat
  <2>1. call[c] \in CallRow(batches, Captured)
    BY DEF ServerTypes
  <2> QED
    BY <2>1 DEF CallRow
<1> QED
  BY <1>1, <1>2, <1>3, <1>4

\* The types of the server last while points are captured and sealed.
LEMMA ServerTypesGrow ==
    ASSUME ServerTypes, batches \in Nat, batches' \in Nat, batches <= batches',
           Len(points) \in Nat, Len(points)' \in Nat, Len(points) <= Len(points)',
           call' = call \/ call' \in [Calls -> CallRow(batches', Captured')],
           UNCHANGED <<track, remembered, inside, presence, arrivals>>, raced' \subseteq 1..batches'
    PROVE  ServerTypes'
<1>1. Captured \subseteq Captured'
  BY DEF Captured
<1>2. 0..batches \subseteq 0..batches' /\ 1..batches \subseteq 1..batches'
  OBVIOUS
<1>3. track' \in Seq(Captured')
  BY <1>1 DEF ServerTypes
<1>4. CallRow(batches, Captured) \subseteq CallRow(batches', Captured')
  BY <1>1, <1>2 DEF CallRow
<1>5. call' \in [Calls -> CallRow(batches', Captured')]
  BY <1>4 DEF ServerTypes
<1>6. presence' \in 0..Len(points)'
  BY DEF ServerTypes
<1>7. remembered' \subseteq 1..batches' /\ inside' \in BOOLEAN /\ arrivals' \in Nat
  BY <1>2 DEF ServerTypes
<1> QED
  BY <1>3, <1>5, <1>6, <1>7 DEF ServerTypes

LEMMA TypesStart == TelemetryInit => TelemetryTypeOK
<1> SUFFICES ASSUME TelemetryInit PROVE TelemetryTypeOK
  OBVIOUS
<1>1. ShiftTypes
  BY TelemetryAssumption DEF TelemetryInit, ShiftTypes, TelemetryAssumption
<1>2. PhoneTypes
  <2>1. Waiting \in UpRow(0)
    BY DEF Waiting, UpRow
  <2> QED
    BY <2>1 DEF TelemetryInit, PhoneTypes
<1>3. ServerTypes
  <2>1. NoCall \in CallRow(0, {})
    BY DEF NoCall, CallRow, CallStates
  <2>2. Captured = {} /\ Len(points) = 0
    BY DEF TelemetryInit, Captured
  <2>3. call \in [Calls -> CallRow(batches, Captured)]
    BY <2>1, <2>2 DEF TelemetryInit
  <2>4. track \in Seq(Captured) /\ presence \in 0..Len(points)
    BY <2>2 DEF TelemetryInit
  <2>5. remembered = {} /\ raced = {} /\ inside = FALSE /\ arrivals = 0
    BY DEF TelemetryInit
  <2> QED
    BY <2>3, <2>4, <2>5 DEF ServerTypes
<1> QED
  BY <1>1, <1>2, <1>3, TypesAre

\* Next1 is a part of the queue that is not empty.
LEMMA Next1Is ==
    ASSUME PhoneTypes, ServerTypes, queued # {}
    PROVE  Next1 \subseteq queued /\ Next1 # {}
<1>1. (\A p \in queued : p \in Int) /\ IsFiniteSet(queued)
  <2>1. queued \subseteq 1..Len(points) /\ Len(points) \in Nat
    BY RowsAre DEF PhoneTypes
  <2>2. IsFiniteSet(1..Len(points))
    BY <2>1, FS_Interval
  <2>3. IsFiniteSet(queued)
    BY <2>1, <2>2, FS_Subset
  <2> QED
    BY <2>1, <2>3
<1> DEFINE m == Min(queued)
           same == {p \in queued : points[p].shift = points[m].shift}
           upTo(p) == {q \in same : q <= p}
<1>2. m \in queued /\ \A p \in queued : m <= p
  BY <1>1, MinIs
<1>3. Next1 = {p \in same : Cardinality(upTo(p)) <= MaxBatch}
  BY DEF Next1
<1> HIDE DEF m
<1>4. upTo(m) = {m}
  BY <1>1, <1>2
<1>5. Cardinality({m}) = 1
  BY FS_Singleton
<1>6. m \in Next1
  BY <1>2, <1>3, <1>4, <1>5, TelemetryAssumption DEF TelemetryAssumption
<1> QED
  BY <1>3, <1>6

\* What an upload sends: a batch that waits for its answer, whole, or new points.
Again == Sealed # {}
BatchSent == IF Again THEN points[Min(Sealed)].batch ELSE batches + 1
PointsSent == IF Again THEN PointsOf(BatchSent) ELSE Next1

UploadAs(u, c, b, sent) ==
    /\ b = BatchSent /\ sent = PointsSent /\ call[c] = NoCall
    /\ b \in 1..batches' /\ sent # {}
    /\ up[u] = Waiting
    /\ batches' \in Nat /\ batches <= batches'
    /\ points' = [p \in Captured |->
                   IF p \in sent THEN [points[p] EXCEPT !.batch = b] ELSE points[p]]
    /\ up' = [up EXCEPT ![u] = [at |-> "calling", batch |-> b, call |-> c]]
    /\ call' = [call EXCEPT ![c] =
                 [NoCall EXCEPT !.at = "asked", !.batch = b, !.points = sent, !.heard = TRUE]]
    /\ raced' = IF \E d \in Calls : call[d].at # "free" /\ call[d].batch = b
                THEN raced \cup {b} ELSE raced
    /\ UNCHANGED <<shiftVars, queued, tracking, refresh, track, remembered, inside,
                   presence, arrivals, refused, trouble>>
    /\ \/ /\ Again /\ batches' = batches /\ b \in 1..batches /\ sent = PointsOf(b)
          /\ \E p \in queued : points[p].batch = b
       \/ /\ ~Again /\ batches' = batches + 1 /\ b = batches + 1 /\ sent \subseteq queued
          /\ \A p \in queued : points[p].batch = 0

LEMMA UploadSends ==
    ASSUME PhoneTypes, ServerTypes, NEW u \in Runtimes, Upload(u)
    PROVE  \E c \in Calls, b \in Nat, sent \in SUBSET Captured : UploadAs(u, c, b, sent)
<1> DEFINE c == CHOOSE d \in Calls : call[d] = NoCall
           b == BatchSent
           sent == PointsSent
<1>1. c \in Calls /\ call[c] = NoCall
  BY DEF Upload
<1>2. /\ up[u] = Waiting /\ queued # {}
      /\ batches' = IF Again THEN batches ELSE batches + 1
      /\ points' = [p \in Captured |->
                     IF p \in sent THEN [points[p] EXCEPT !.batch = b] ELSE points[p]]
      /\ up' = [up EXCEPT ![u] = [at |-> "calling", batch |-> b, call |-> c]]
      /\ call' = [call EXCEPT ![c] =
                   [NoCall EXCEPT !.at = "asked", !.batch = b, !.points = sent, !.heard = TRUE]]
      /\ raced' = IF \E d \in Calls : call[d].at # "free" /\ call[d].batch = b
                  THEN raced \cup {b} ELSE raced
      /\ UNCHANGED <<shiftVars, queued, tracking, refresh, track, remembered, inside,
                     presence, arrivals, refused, trouble>>
  BY DEF Upload, Again, BatchSent, PointsSent
<1> HIDE DEF c
<1>3. /\ batches \in Nat /\ queued \subseteq Captured
      /\ \A p \in Captured : p \in Int /\ points[p].batch \in 0..batches
  BY RowsAre DEF PhoneTypes
<1>4. CASE Again
  <2> DEFINE p == Min(Sealed)
  <2>1. p \in Sealed
    <3>1. Sealed \subseteq queued /\ \A q \in Sealed : q \in Int
      BY <1>3 DEF Sealed
    <3>2. IsFiniteSet(Sealed)
      <4>1. Sealed \subseteq 1..Len(points) /\ Len(points) \in Nat
        BY <1>3, <3>1, RowsAre
      <4>2. IsFiniteSet(1..Len(points))
        BY <4>1, FS_Interval
      <4> QED
        BY <4>1, <4>2, FS_Subset
    <3> QED
      BY <1>4, <3>1, <3>2, MinIs DEF Again
  <2>2. b = points[p].batch /\ sent = PointsOf(b)
    BY <1>4 DEF BatchSent, PointsSent
  <2> HIDE DEF p, b, sent
  <2>3. p \in queued /\ p \in Captured /\ points[p].batch # 0
    BY <1>3, <2>1 DEF Sealed
  <2>4. b \in 1..batches /\ b \in Nat
    BY <1>3, <2>2, <2>3
  <2>5. sent \subseteq Captured /\ p \in sent
    BY <2>2, <2>3 DEF PointsOf
  <2>6. batches' = batches
    BY <1>2, <1>4
  <2>7. \E q \in queued : points[q].batch = b
    BY <2>2, <2>3
  <2>8. sent \in SUBSET Captured /\ sent # {} /\ b = BatchSent /\ sent = PointsSent
    BY <2>5 DEF b, sent
  <2>9. batches' \in Nat /\ batches <= batches' /\ b \in 1..batches'
    BY <1>3, <2>4, <2>6
  <2>10. UploadAs(u, c, b, sent)
    BY <1>1, <1>2, <1>4, <2>2, <2>4, <2>6, <2>7, <2>8, <2>9 DEF UploadAs
  <2> QED
    BY <1>1, <2>4, <2>8, <2>10
<1>5. CASE ~Again
  <2>1. b = batches + 1 /\ sent = Next1 /\ batches' = batches + 1
    BY <1>2, <1>5 DEF BatchSent, PointsSent
  <2>2. sent \subseteq queued /\ sent # {}
    BY <1>2, <2>1, Next1Is
  <2>3. \A p \in queued : points[p].batch = 0
    BY <1>5 DEF Again, Sealed
  <2>4. b = BatchSent /\ sent = PointsSent
    OBVIOUS
  <2> HIDE DEF b, sent
  <2>5. b \in Nat /\ b \in 1..batches' /\ batches' \in Nat /\ batches <= batches'
    BY <1>3, <2>1
  <2>6. sent \in SUBSET Captured
    BY <1>3, <2>2
  <2>7. UploadAs(u, c, b, sent)
    BY <1>1, <1>2, <1>5, <2>1, <2>2, <2>3, <2>4, <2>5 DEF UploadAs
  <2> QED
    BY <1>1, <2>5, <2>6, <2>7
<1> QED
  BY <1>4, <1>5

-----------------------------------------------------------------------------
(* The inductive invariant *)

Stored(p) == \E i \in DOMAIN track : track[i] = p
StoredOnce(p) == \A i, j \in DOMAIN track : track[i] = p /\ track[j] = p => i = j

Working == {"taken", "persist", "publish", "remember"}
Busy(c) == call[c].at # "free"

\* A runtime that waits for an answer has a call of its own, which nobody frees.
Linked ==
    /\ \A u \in Runtimes :
        /\ up[u].at = "calling" =>
              /\ up[u].call \in Calls /\ Busy(up[u].call)
              /\ call[up[u].call].heard
              /\ call[up[u].call].batch = up[u].batch
        /\ up[u].at # "calling" => up[u].call = Nothing
    /\ \A u, v \in Runtimes :
        up[u].at = "calling" /\ up[v].at = "calling" /\ up[u].call = up[v].call => u = v

\* A call carries a batch, whole.
CallsOfBatches ==
    \A c \in Calls : Busy(c) =>
        /\ call[c].batch # 0 /\ call[c].points # {}
        /\ call[c].points = PointsOf(call[c].batch)

AnsweredIsRemembered ==
    \A c \in Calls : call[c].at = "accepted" => call[c].batch \in remembered

TakenIsStored ==
    \A c \in Calls : call[c].at \in Working => \A p \in call[c].points : Stored(p)

RememberedIsStored == \A p \in Captured : points[p].batch \in remembered => Stored(p)

StoredIsSealed == \A p \in Captured : Stored(p) => points[p].batch # 0

KeptSomewhere == \A p \in Captured : p \in queued \cup refused \/ Stored(p)

\* A batch that was not raced has one call at most, ...
OneCallEach ==
    \A c, d \in Calls :
        Busy(c) /\ Busy(d) /\ call[c].batch = call[d].batch /\ call[c].batch \notin raced => c = d

\* ... was taken by one that is still at work or has remembered it, ...
StillWorking ==
    \A p \in Captured :
        Stored(p) /\ points[p].batch \notin raced /\ points[p].batch \notin remembered =>
            \E c \in Calls : call[c].at \in Working /\ call[c].batch = points[p].batch

\* ... and is stored once.
OnceUnlessRaced ==
    \A p \in Captured : points[p].batch \notin raced => StoredOnce(p)

TInv ==
    /\ ShiftTypes /\ PhoneTypes /\ ServerTypes
    /\ Linked /\ CallsOfBatches
    /\ AnsweredIsRemembered /\ TakenIsStored /\ RememberedIsStored
    /\ StoredIsSealed /\ KeptSomewhere
    /\ OneCallEach /\ StillWorking /\ OnceUnlessRaced

\* A batch leaves the queue whole, and waits in it alone.
WholeBatches ==
    \A p, q \in Captured :
        points[p].batch # 0 /\ points[p].batch = points[q].batch /\ p \in queued => q \in queued

OneSealed ==
    \A p, q \in queued :
        points[p].batch # 0 /\ points[q].batch # 0 => points[p].batch = points[q].batch

\* As long as none was raced, what is at the server is in the queue: it is one
\* call, and nothing fails.
InHand ==
    raced = {} => \A c \in Calls : /\ Busy(c) => call[c].points \subseteq queued
                                    /\ call[c].at # "failed"

\* The live state is that of a track.
Settled(seq, arrived_, inside_, presence_) ==
    /\ arrived_ = Cardinality(Enters(seq))
    /\ LeftAt(seq, inside_)
    /\ seq # <<>> => presence_ = seq[Len(seq)]

Behind(c) == call[c].at \in {"taken", "persist", "publish"}

AtRest ==
    (\A c \in Calls : ~Behind(c)) => Settled(track, arrivals, inside, presence)

\* Between the taking of a batch and its arrivals the state is that of the track
\* before it, and what the call holds makes up the difference.
AtTaken ==
    \A c \in Calls : call[c].at = "taken" =>
        \E prev \in Seq(Captured) :
            /\ track = prev \o InOrderOf(call[c].points)
            /\ Settled(prev, arrivals, inside, presence)

AtPersist ==
    \A c \in Calls : call[c].at = "persist" =>
        Settled(track, arrivals + call[c].entries,
                IF call[c].near = Nothing THEN inside ELSE call[c].near, presence)

AtPublish ==
    \A c \in Calls : call[c].at = "publish" =>
        Settled(track, arrivals + call[c].entries, inside, presence)

Follow == raced = {} => AtRest /\ AtTaken /\ AtPersist /\ AtPublish


LEMMA TInvStarts == TelemetryInit => TInv
<1> SUFFICES ASSUME TelemetryInit PROVE TInv
  OBVIOUS
<1>1. ShiftTypes /\ PhoneTypes /\ ServerTypes
  BY TypesStart, TypesAre
<1>2. \A c \in Calls : call[c] = NoCall /\ call[c].at = "free"
  BY DEF TelemetryInit, NoCall
<1>3. \A u \in Runtimes : up[u].at = "idle" /\ up[u].call = Nothing
  BY DEF TelemetryInit, Waiting
<1>4. Captured = {} /\ \A p : ~Stored(p)
  BY DEF TelemetryInit, Captured, Stored
<1>5. Linked
  BY <1>3 DEF Linked
<1>6. CallsOfBatches /\ AnsweredIsRemembered /\ TakenIsStored /\ OneCallEach
  BY <1>2 DEF CallsOfBatches, AnsweredIsRemembered, TakenIsStored, OneCallEach, Busy, Working
<1>7. RememberedIsStored /\ StoredIsSealed /\ KeptSomewhere /\ StillWorking /\ OnceUnlessRaced
  BY <1>4 DEF RememberedIsStored, StoredIsSealed, KeptSomewhere, StillWorking, OnceUnlessRaced
<1> QED
  BY <1>1, <1>5, <1>6, <1>7 DEF TInv

\* The parts of the invariant that speak of calls and batches.
BatchInv ==
    /\ CallsOfBatches /\ AnsweredIsRemembered /\ TakenIsStored /\ RememberedIsStored
    /\ StoredIsSealed /\ OneCallEach /\ StillWorking /\ OnceUnlessRaced

LEMMA TInvIs ==
    TInv <=> ShiftTypes /\ PhoneTypes /\ ServerTypes /\ Linked /\ KeptSomewhere /\ BatchInv
  BY DEF TInv, BatchInv

\* They last where the calls stay where they are with what they carry.
LEMMA SameCalls ==
    ASSUME BatchInv, UNCHANGED <<points, track, remembered, raced>>,
           \A c \in Calls : /\ call'[c].at = call[c].at /\ call'[c].batch = call[c].batch
                            /\ call'[c].points = call[c].points
    PROVE  BatchInv'
<1>1. Captured' = Captured
  BY DEF Captured
<1>2. \A p : (Stored(p)' <=> Stored(p)) /\ (StoredOnce(p)' <=> StoredOnce(p))
  BY DEF Stored, StoredOnce
<1>3. \A b : PointsOf(b)' = PointsOf(b)
  BY <1>1 DEF PointsOf
<1>4. \A c \in Calls : Busy(c)' <=> Busy(c)
  BY DEF Busy
<1>5. CallsOfBatches'
  <2>1. ASSUME NEW c \in Calls, Busy(c)'
        PROVE  /\ call'[c].batch # 0 /\ call'[c].points # {}
               /\ call'[c].points = PointsOf(call[c].batch)'
    BY <1>3, <1>4, <2>1 DEF BatchInv, CallsOfBatches
  <2> QED
    BY <2>1 DEF CallsOfBatches, PointsOf
<1>6. AnsweredIsRemembered' /\ TakenIsStored' /\ OneCallEach'
  BY <1>2, <1>4 DEF BatchInv, AnsweredIsRemembered, TakenIsStored, OneCallEach
<1>7. RememberedIsStored' /\ StoredIsSealed' /\ OnceUnlessRaced'
  BY <1>1, <1>2 DEF BatchInv, RememberedIsStored, StoredIsSealed, OnceUnlessRaced
<1>8. StillWorking'
  BY <1>1, <1>2 DEF BatchInv, StillWorking
<1> QED
  BY <1>5, <1>6, <1>7, <1>8 DEF BatchInv

\* Steps of the shift and the refresh.
LEMMA ShiftKeeps ==
    ASSUME TInv, ShiftTypes', UNCHANGED <<points, queued, up, batches, serverVars, refused>>
    PROVE  TInv'
<1>1. PhoneTypes' /\ ServerTypes'
  BY DEF TInv, PhoneTypes, ServerTypes, Captured, serverVars
<1>2. BatchInv'
  BY TInvIs, SameCalls DEF serverVars
<1>3. Linked'
  BY DEF TInv, Linked, Busy, serverVars
<1>4. KeptSomewhere'
  BY DEF TInv, KeptSomewhere, Stored, Captured, serverVars
<1> QED
  BY <1>1, <1>2, <1>3, <1>4 DEF TInv, BatchInv

LEMMA ShiftsKeep ==
    ASSUME TInv,
           \/ \E phoneToo \in BOOLEAN : StartShift(phoneToo) \/ EndShift(phoneToo)
           \/ RefreshShift \/ Reconcile
    PROVE  /\ TInv'
           /\ UNCHANGED <<points, queued, up, batches, serverVars, refused>>
<1>1. UNCHANGED <<points, queued, up, batches, serverVars, refused>>
  BY DEF StartShift, EndShift, RefreshShift, Reconcile, shiftVars
<1>2. ShiftTypes'
  <2>1. ShiftTypes /\ MaxShifts \in Nat
    BY TelemetryAssumption DEF TInv, TelemetryAssumption
  <2>2. ASSUME NEW phoneToo \in BOOLEAN, StartShift(phoneToo) PROVE ShiftTypes'
    BY <2>1, <2>2 DEF StartShift, ShiftTypes
  <2>3. ASSUME NEW phoneToo \in BOOLEAN, EndShift(phoneToo) PROVE ShiftTypes'
    BY <2>1, <2>3 DEF EndShift, ShiftTypes
  <2>4. CASE RefreshShift
    BY <2>1, <2>4 DEF RefreshShift, ShiftTypes, shiftVars
  <2>5. CASE Reconcile
    BY <2>1, <2>5 DEF Reconcile, Follows, ShiftTypes, shiftVars
  <2> QED
    BY <2>2, <2>3, <2>4, <2>5
<1> QED
  BY <1>1, <1>2, ShiftKeeps

\* A runtime lets go of its upload, and perhaps of its call.
LEMMA LetsGo ==
    ASSUME TInv, NEW u \in Runtimes, up' = [up EXCEPT ![u] = Waiting], ShiftTypes',
           call' = IF up[u].call = Nothing THEN call
                   ELSE [call EXCEPT ![up[u].call].heard = FALSE],
           UNCHANGED <<points, queued, batches, track, remembered, inside, presence, arrivals,
                       raced, refused>>
    PROVE  /\ TInv'
           /\ \A c \in Calls : call'[c] = [call[c] EXCEPT !.heard = call'[c].heard]
<1>0. /\ \A c \in Calls : call[c] \in CallRow(batches, Captured)
      /\ call \in [Calls -> CallRow(batches, Captured)]
      /\ up \in [Runtimes -> UpRow(batches)] /\ batches \in Nat
  BY DEF TInv, PhoneTypes, ServerTypes
<1>1. up[u].call # Nothing =>
        up[u].at = "calling" /\ up[u].call \in Calls
  BY DEF TInv, Linked
<1>2. ASSUME NEW c \in Calls
      PROVE  /\ call'[c] = [call[c] EXCEPT !.heard = call'[c].heard]
             /\ call'[c].heard \in BOOLEAN
             /\ call'[c].heard # call[c].heard => up[u].at = "calling" /\ up[u].call = c
  BY <1>0, <1>1 DEF CallRow
<1>3. ASSUME NEW c \in Calls
      PROVE  /\ call'[c].at = call[c].at /\ call'[c].batch = call[c].batch
             /\ call'[c].points = call[c].points
             /\ call'[c] \in CallRow(batches, Captured)
  <2>1. PICK h \in BOOLEAN : call'[c] = [call[c] EXCEPT !.heard = h]
    BY <1>2
  <2>2. call[c] \in CallRow(batches, Captured)
    BY <1>0
  <2> QED
    BY <2>1, <2>2 DEF CallRow
<1>4. call' \in [Calls -> CallRow(batches, Captured)]
  <2>1. call' = [c \in Calls |-> call'[c]]
    BY <1>0, <1>1
  <2> QED
    BY <1>3, <2>1
<1>5. PhoneTypes' /\ ServerTypes'
  <2>1. Captured' = Captured
    BY DEF Captured
  <2>2. Waiting \in UpRow(batches)
    BY <1>0 DEF Waiting, UpRow
  <2>3. up' \in [Runtimes -> UpRow(batches)]
    BY <1>0, <2>2
  <2>4. PhoneTypes'
    BY <2>1, <2>3 DEF TInv, PhoneTypes
  <2>5. ServerTypes'
    BY <1>4, <2>1 DEF TInv, ServerTypes
  <2> QED
    BY <2>4, <2>5
<1>6. BatchInv'
  BY <1>3, TInvIs, SameCalls
<1>7. Linked'
  <2>1. up'[u] = Waiting /\ \A v \in Runtimes : v # u => up'[v] = up[v]
    BY <1>0
  <2>2. up'[u].at = "idle" /\ up'[u].call = Nothing
    BY <2>1 DEF Waiting
  <2>3. ASSUME NEW v \in Runtimes, v # u, up[v].at = "calling"
        PROVE  /\ up[v].call \in Calls /\ call'[up[v].call].at # "free"
               /\ call'[up[v].call].heard
               /\ call'[up[v].call].batch = up[v].batch
    <3>1. up[v].call \in Calls /\ Busy(up[v].call) /\ call[up[v].call].heard
          /\ call[up[v].call].batch = up[v].batch
      BY <2>3 DEF TInv, Linked
    <3>2. call'[up[v].call].heard = call[up[v].call].heard
      BY <1>2, <2>3, <3>1 DEF TInv, Linked
    <3> QED
      BY <1>3, <3>1, <3>2 DEF Busy
  <2>4. \A v \in Runtimes : v # u /\ up[v].at # "calling" => up[v].call = Nothing
    BY DEF TInv, Linked
  <2>5. \A v, w \in Runtimes : up'[v].at = "calling" /\ up'[w].at = "calling"
                               /\ up'[v].call = up'[w].call => v = w
    BY <2>1, <2>2 DEF TInv, Linked
  <2>6. ASSUME NEW v \in Runtimes
        PROVE  /\ up'[v].at = "calling" =>
                     /\ up'[v].call \in Calls /\ call'[up'[v].call].at # "free"
                     /\ call'[up'[v].call].heard
                     /\ call'[up'[v].call].batch = up'[v].batch
               /\ up'[v].at # "calling" => up'[v].call = Nothing
    BY <2>1, <2>2, <2>3, <2>4
  <2> QED
    BY <2>5, <2>6 DEF Linked, Busy
<1>8. KeptSomewhere'
  BY DEF TInv, KeptSomewhere, Stored, Captured
<1> QED
  BY <1>2, <1>5, <1>6, <1>7, <1>8 DEF TInv, BatchInv

LEMMA StopTrackingKeeps ==
    ASSUME TInv, NEW u \in Runtimes, StopTracking(u)
    PROVE  /\ TInv' /\ call' = call
           /\ UNCHANGED <<points, queued, batches, track, remembered, inside, presence,
                          arrivals, raced, refused>>
<1>1. up[u].call = Nothing
  BY DEF TInv, Linked, StopTracking
<1>2. /\ call' = call /\ up' = [up EXCEPT ![u] = Waiting]
      /\ UNCHANGED <<points, queued, batches, track, remembered, inside, presence, arrivals,
                     raced, refused>>
  BY DEF StopTracking, serverVars
<1>3. ShiftTypes'
  BY DEF TInv, ShiftTypes, StopTracking, shiftVars
<1> QED
  BY <1>1, <1>2, <1>3, LetsGo

LEMMA GiveUpKeeps ==
    ASSUME TInv, NEW u \in Runtimes, GiveUp(u)
    PROVE  /\ TInv'
           /\ \A c \in Calls : call'[c] = [call[c] EXCEPT !.heard = call'[c].heard]
           /\ UNCHANGED <<points, queued, batches, track, remembered, inside, presence,
                          arrivals, raced, refused>>
<1>1. /\ up' = [up EXCEPT ![u] = Waiting]
      /\ call' = IF up[u].call = Nothing THEN call
                 ELSE [call EXCEPT ![up[u].call].heard = FALSE]
      /\ UNCHANGED <<points, queued, batches, track, remembered, inside, presence, arrivals,
                     raced, refused>>
  BY DEF GiveUp
<1>2. ShiftTypes'
  BY TelemetryAssumption DEF TInv, ShiftTypes, GiveUp, shiftVars, TelemetryAssumption
<1> QED
  BY <1>1, <1>2, LetsGo

LEMMA CaptureIs ==
    ASSUME TInv, NEW near \in BOOLEAN, Capture(near)
    PROVE  \E n \in Nat :
             /\ n = Len(points) + 1 /\ n \notin Captured /\ Captured' = Captured \cup {n}
             /\ Len(points)' = n
             /\ points' = Append(points, [shift |-> tracking, batch |-> 0, near |-> near])
             /\ \A p \in Captured : points'[p] = points[p]
             /\ points'[n].batch = 0
             /\ queued' = queued \cup {n}
             /\ UNCHANGED <<shiftVars, tracking, refresh, up, batches, serverVars, refused, trouble>>
<1>1. PICK n \in Nat : n = Len(points) + 1
  BY RowsAre DEF TInv
<1>2. /\ points' = Append(points, [shift |-> tracking, batch |-> 0, near |-> near])
      /\ queued' = queued \cup {n}
      /\ UNCHANGED <<shiftVars, tracking, refresh, up, batches, serverVars, refused, trouble>>
  BY <1>1 DEF Capture, JoinedBatch
<1> DEFINE row == [shift |-> tracking, batch |-> 0, near |-> near]
<1>3. row.batch = 0
  OBVIOUS
<1> HIDE DEF row
<1>4. points' = Append(points, row)
  BY <1>2 DEF row
<1>5. PICK any : points \in Seq(any)
  BY DEF TInv, PhoneTypes
<1>6. /\ Len(points)' = n /\ points'[n] = row
      /\ \A p \in 1..Len(points) : points'[p] = points[p]
  BY <1>1, <1>4, <1>5
<1>7. n \notin Captured /\ Captured' = Captured \cup {n}
  BY <1>1, <1>6 DEF Captured
<1> QED
  BY <1>1, <1>2, <1>3, <1>6, <1>7 DEF Captured

LEMMA CaptureKeeps ==
    ASSUME TInv, NEW near \in BOOLEAN, Capture(near)
    PROVE  TInv'
<1>1. PICK n \in Nat :
             /\ n = Len(points) + 1 /\ n \notin Captured /\ Captured' = Captured \cup {n}
             /\ Len(points)' = n
             /\ points' = Append(points, [shift |-> tracking, batch |-> 0, near |-> near])
             /\ \A p \in Captured : points'[p] = points[p]
             /\ points'[n].batch = 0
             /\ queued' = queued \cup {n}
             /\ UNCHANGED <<shiftVars, tracking, refresh, up, batches, serverVars, refused, trouble>>
  BY CaptureIs
<1>2. UNCHANGED <<up, batches, call, track, remembered, inside, presence, arrivals, raced, refused>>
  BY <1>1 DEF serverVars
<1>3. ShiftTypes'
  BY <1>1 DEF TInv, ShiftTypes, shiftVars
<1>4. PhoneTypes'
  <2> DEFINE Row == PointRow(batches)
             row == [shift |-> tracking, batch |-> 0, near |-> near]
  <2>1. row \in Row
    <3>1. tracking \in 1..MaxShifts /\ batches \in Nat
      BY TelemetryAssumption DEF TInv, ShiftTypes, PhoneTypes, Capture, TelemetryAssumption
    <3> QED
      BY <3>1 DEF PointRow
  <2>2. points \in Seq(Row) /\ queued \subseteq Captured /\ refused \subseteq Captured
        /\ batches \in Nat /\ up \in [Runtimes -> UpRow(batches)]
    BY DEF TInv, PhoneTypes
  <2>3. points' = Append(points, row)
    BY <1>1
  <2> HIDE DEF row, Row
  <2>4. points' \in Seq(Row)
    BY <2>1, <2>2, <2>3
  <2> QED
    BY <1>1, <1>2, <2>2, <2>4 DEF PhoneTypes, Row
<1>5. ServerTypes'
  <2>1. Len(points) \in Nat /\ batches \in Nat /\ Len(points) <= Len(points)' /\ batches <= batches'
    BY <1>1, <1>2, RowsAre DEF TInv
  <2>2. raced' \subseteq 1..batches'
    BY <1>2 DEF TInv, ServerTypes
  <2> QED
    BY <1>1, <1>2, <2>1, <2>2, ServerTypesGrow DEF TInv
<1>6. Linked'
  BY <1>2 DEF TInv, Linked, Busy
<1>7. \A p : (Stored(p)' <=> Stored(p)) /\ (StoredOnce(p)' <=> StoredOnce(p))
  BY <1>2 DEF Stored, StoredOnce
<1>8. ~Stored(n) /\ n \in queued'
  <2>1. \A i \in DOMAIN track : track[i] \in Captured
    BY DEF TInv, ServerTypes
  <2> QED
    BY <1>1, <2>1 DEF Stored
<1>9. KeptSomewhere'
  BY <1>1, <1>2, <1>7, <1>8 DEF TInv, KeptSomewhere
<1>10. ASSUME NEW b, b # 0 PROVE {p \in Captured' : points'[p].batch = b} = PointsOf(b)
  BY <1>1, <1>10 DEF PointsOf
<1>11. \A c \in Calls : Busy(c)' <=> Busy(c)
  BY <1>2 DEF Busy
<1>12. CallsOfBatches'
  <2>1. ASSUME NEW c \in Calls, Busy(c)
        PROVE  /\ call'[c].batch # 0 /\ call'[c].points # {}
               /\ call'[c].points = {p \in Captured' : points'[p].batch = call'[c].batch}
    <3>1. call[c].batch # 0 /\ call[c].points # {} /\ call[c].points = PointsOf(call[c].batch)
      BY <2>1 DEF TInv, CallsOfBatches
    <3>2. PICK b : b = call[c].batch
      OBVIOUS
    <3>3. {p \in Captured' : points'[p].batch = b} = PointsOf(b)
      BY <1>10, <3>1, <3>2
    <3> QED
      BY <1>2, <3>1, <3>2, <3>3
  <2> QED
    BY <1>11, <2>1 DEF CallsOfBatches, PointsOf
<1>13. AnsweredIsRemembered' /\ TakenIsStored' /\ OneCallEach'
  BY <1>2, <1>7, <1>11 DEF TInv, AnsweredIsRemembered, TakenIsStored, OneCallEach
<1>14. RememberedIsStored'
  <2>1. 0 \notin remembered
    BY RowsAre DEF TInv, ServerTypes
  <2> QED
    BY <1>1, <1>2, <1>7, <2>1 DEF TInv, RememberedIsStored
<1>15. StoredIsSealed' /\ StillWorking'
  <2>1. \A p \in Captured' : Stored(p) => p \in Captured /\ points'[p] = points[p]
    BY <1>1, <1>8
  <2>2. StoredIsSealed'
    BY <1>7, <2>1 DEF TInv, StoredIsSealed
  <2>3. ASSUME NEW p \in Captured', Stored(p)', points'[p].batch \notin raced',
               points'[p].batch \notin remembered'
        PROVE  \E c \in Calls : call'[c].at \in Working /\ call'[c].batch = points'[p].batch
    <3>1. p \in Captured /\ points'[p] = points[p] /\ Stored(p)
      BY <1>7, <2>1, <2>3
    <3> QED
      BY <1>2, <2>3, <3>1 DEF TInv, StillWorking
  <2> QED
    BY <2>2, <2>3 DEF StillWorking
<1>16. OnceUnlessRaced'
  <2>1. StoredOnce(n)
    BY <1>8 DEF Stored, StoredOnce
  <2> QED
    BY <1>1, <1>2, <1>7, <2>1 DEF TInv, OnceUnlessRaced
<1> QED
  BY <1>3, <1>4, <1>5, <1>6, <1>9, <1>12, <1>13, <1>14, <1>15, <1>16 DEF TInv

\* A call that was answered, or failed, is freed.
LEMMA CallEnds ==
    ASSUME TInv, NEW c \in Calls, call[c].at \in {"accepted", "outside", "failed"},
           call' = [call EXCEPT ![c] = NoCall], UNCHANGED <<points, track, remembered, raced>>
    PROVE  BatchInv'
<1>1. /\ \A d \in Calls : d # c => call'[d] = call[d]
      /\ call'[c].at = "free" /\ call[c].at \notin Working
  BY DEF TInv, ServerTypes, NoCall, Working
<1>2. Captured' = Captured
  BY DEF Captured
<1>3. \A p : (Stored(p)' <=> Stored(p)) /\ (StoredOnce(p)' <=> StoredOnce(p))
  BY DEF Stored, StoredOnce
<1>4. ASSUME NEW d \in Calls PROVE Busy(d)' <=> d # c /\ Busy(d)
  BY <1>1 DEF Busy
<1>5. CallsOfBatches'
  <2>1. ASSUME NEW d \in Calls, Busy(d)'
        PROVE  /\ call'[d].batch # 0 /\ call'[d].points # {}
               /\ call'[d].points = {p \in Captured' : points'[p].batch = call'[d].batch}
    BY <1>1, <1>2, <1>4, <2>1 DEF TInv, CallsOfBatches, PointsOf
  <2> QED
    BY <2>1 DEF CallsOfBatches, PointsOf
<1>6. AnsweredIsRemembered' /\ TakenIsStored'
  BY <1>1, <1>3 DEF TInv, AnsweredIsRemembered, TakenIsStored, Working
<1>7. OneCallEach'
  BY <1>1, <1>4 DEF TInv, OneCallEach
<1>8. RememberedIsStored' /\ StoredIsSealed' /\ OnceUnlessRaced'
  BY <1>2, <1>3 DEF TInv, RememberedIsStored, StoredIsSealed, OnceUnlessRaced
<1>9. StillWorking'
  <2>1. ASSUME NEW p \in Captured, Stored(p), points[p].batch \notin raced,
               points[p].batch \notin remembered
        PROVE  \E d \in Calls : call'[d].at \in Working /\ call'[d].batch = points[p].batch
    <3>1. PICK d \in Calls : call[d].at \in Working /\ call[d].batch = points[p].batch
      BY <2>1 DEF TInv, StillWorking
    <3> QED
      BY <1>1, <3>1
  <2> QED
    BY <1>2, <1>3, <2>1 DEF StillWorking
<1> QED
  BY <1>5, <1>6, <1>7, <1>8, <1>9 DEF BatchInv

LEMMA HeardKeeps ==
    ASSUME TInv, NEW u \in Runtimes, Heard(u)
    PROVE  TInv'
<1> DEFINE c == up[u].call
           w == IF call[c].at = "outside" THEN [Waiting EXCEPT !.at = "stopping"] ELSE Waiting
<1>1. /\ up[u].at = "calling" /\ call[c].at \in {"accepted", "outside", "failed"}
      /\ queued' = IF call[c].at = "failed" THEN queued
                   ELSE queued \ PointsOf(up[u].batch)
      /\ refused' = IF call[c].at = "outside" THEN refused \cup call[c].points ELSE refused
      /\ up' = [up EXCEPT ![u] = w]
      /\ call' = [call EXCEPT ![c] = NoCall]
      /\ UNCHANGED <<shiftVars, points, tracking, refresh, batches, track, remembered,
                     inside, presence, arrivals, raced, trouble>>
  BY DEF Heard
<1>2. /\ c \in Calls /\ Busy(c) /\ call[c].batch = up[u].batch
      /\ call[c].points = PointsOf(up[u].batch)
  BY <1>1 DEF TInv, Linked, CallsOfBatches
<1>3. w.at # "calling" /\ w.call = Nothing /\ w \in UpRow(batches)
  BY DEF Waiting, UpRow, TInv, PhoneTypes
<1> HIDE DEF c, w
<1>4. Captured' = Captured /\ batches' = batches /\ Len(points)' = Len(points)
  BY <1>1 DEF Captured
<1>5. ShiftTypes'
  BY <1>1 DEF TInv, ShiftTypes, shiftVars
<1>6. PhoneTypes'
  <2>1. PointsOf(up[u].batch) \subseteq Captured
    BY DEF PointsOf
  <2>2. queued' \subseteq Captured /\ refused' \subseteq Captured
    BY <1>1, <1>2, <2>1 DEF TInv, PhoneTypes
  <2>3. up' \in [Runtimes -> UpRow(batches)]
    BY <1>1, <1>3 DEF TInv, PhoneTypes
  <2> QED
    BY <1>1, <1>4, <2>2, <2>3 DEF TInv, PhoneTypes
<1>7. ServerTypes'
  <2>1. NoCall \in CallRow(batches, Captured)
    BY DEF NoCall, CallRow, CallStates, TInv, PhoneTypes
  <2>2. call' \in [Calls -> CallRow(batches, Captured)]
    BY <1>1, <2>1 DEF TInv, ServerTypes
  <2> QED
    BY <1>1, <1>4, <2>2 DEF TInv, ServerTypes
<1>8. BatchInv'
  BY <1>1, <1>2, CallEnds
<1>9. KeptSomewhere'
  <2>1. ASSUME NEW p \in Captured PROVE p \in queued' \cup refused' \/ Stored(p)
    <3>1. p \in queued \cup refused \/ Stored(p)
      BY DEF TInv, KeptSomewhere
    <3>2. CASE p \in PointsOf(up[u].batch) /\ call[c].at = "accepted"
      <4>1. points[p].batch \in remembered
        BY <1>1, <1>2, <3>2 DEF TInv, AnsweredIsRemembered, PointsOf
      <4> QED
        BY <4>1 DEF TInv, RememberedIsStored
    <3>3. CASE p \in PointsOf(up[u].batch) /\ call[c].at = "outside"
      BY <1>1, <1>2, <3>3
    <3> QED
      BY <1>1, <3>1, <3>2, <3>3
  <2> QED
    BY <1>1, <1>4, <2>1 DEF KeptSomewhere, Stored
<1>10. Linked'
  <2>1. up'[u] = w /\ \A v \in Runtimes : v # u => up'[v] = up[v]
    BY <1>1 DEF TInv, PhoneTypes
  <2>2. \A d \in Calls : d # c => call'[d] = call[d]
    BY <1>1 DEF TInv, ServerTypes
  <2>3. ASSUME NEW v \in Runtimes, v # u, up[v].at = "calling"
        PROVE  up[v].call \in Calls /\ up[v].call # c
    BY <1>1, <2>3 DEF TInv, Linked, c
  <2>4. ASSUME NEW v \in Runtimes
        PROVE  /\ up'[v].at = "calling" =>
                     /\ up'[v].call \in Calls /\ call'[up'[v].call].at # "free"
                     /\ call'[up'[v].call].heard
                     /\ call'[up'[v].call].batch = up'[v].batch
               /\ up'[v].at # "calling" => up'[v].call = Nothing
    <3>1. CASE v = u
      BY <1>3, <2>1, <3>1
    <3>2. CASE v # u
      BY <2>1, <2>2, <2>3, <3>2 DEF TInv, Linked, Busy
    <3> QED
      BY <3>1, <3>2
  <2>5. \A v, z \in Runtimes : up'[v].at = "calling" /\ up'[z].at = "calling"
                               /\ up'[v].call = up'[z].call => v = z
    BY <1>3, <2>1 DEF TInv, Linked
  <2> QED
    BY <2>4, <2>5 DEF Linked, Busy
<1> QED
  BY <1>5, <1>6, <1>7, <1>8, <1>9, <1>10 DEF TInv, BatchInv

LEMMA AskedRow ==
    ASSUME NEW n \in Nat, NEW P, NEW b \in 0..n, NEW sent \in SUBSET P
    PROVE  [NoCall EXCEPT !.at = "asked", !.batch = b, !.points = sent, !.heard = TRUE]
             \in CallRow(n, P)
<1> DEFINE at == [NoCall EXCEPT !.at = "asked"]
           batch == [at EXCEPT !.batch = b]
           carried == [batch EXCEPT !.points = sent]
           r == [carried EXCEPT !.heard = TRUE]
<1>1. NoCall \in CallRow(n, P)
  BY DEF NoCall, CallRow, CallStates
<1>2. at \in CallRow(n, P)
  BY <1>1 DEF CallRow, CallStates
<1> HIDE DEF at
<1>3. batch \in CallRow(n, P)
  BY <1>2 DEF CallRow
<1> HIDE DEF batch
<1>4. carried \in CallRow(n, P)
  BY <1>3 DEF CallRow
<1> HIDE DEF carried
<1>5. r \in CallRow(n, P)
  BY <1>4 DEF CallRow
<1> QED
  BY <1>5 DEF r, carried, batch, at

\* What an upload does to the points, ...
SealsPoints(b, sent) ==
    /\ Captured' = Captured /\ Len(points)' = Len(points)
    /\ \A p \in Captured : points'[p].batch = IF p \in sent THEN b ELSE points[p].batch
    /\ \A p \in Captured : points'[p].near = points[p].near
    /\ \A p \in Captured :
         \/ points'[p].batch = points[p].batch
         \/ /\ ~Stored(p) /\ points[p].batch = 0 /\ points'[p].batch = b
            /\ b \notin 1..batches /\ ~Again
    /\ {p \in Captured' : points'[p].batch = b} = sent
    /\ \A x \in 1..batches : {p \in Captured' : points'[p].batch = x} = PointsOf(x)

\* ... and to the call and the runtime.
Calling(u, c, b, sent) ==
    /\ \A d \in Calls : d # c => call'[d] = call[d]
    /\ call'[c].at = "asked" /\ call'[c].batch = b /\ call'[c].points = sent
    /\ call'[c].heard /\ call[c].at = "free"
    /\ up'[u].at = "calling" /\ up'[u].batch = b /\ up'[u].call = c
    /\ \A v \in Runtimes : v # u => up'[v] = up[v]

LEMMA UploadIs ==
    ASSUME TInv, NEW u \in Runtimes, NEW c \in Calls, NEW b \in Nat, NEW sent \in SUBSET Captured,
           UploadAs(u, c, b, sent)
    PROVE  SealsPoints(b, sent) /\ Calling(u, c, b, sent)
<1>1. /\ batches \in Nat /\ queued \subseteq Captured /\ sent \subseteq Captured
      /\ Captured = 1..Len(points) /\ Len(points) \in Nat
      /\ \A p \in Captured : points[p].batch \in 0..batches /\ points[p] \in PointRow(batches)
  BY RowsAre DEF TInv, PhoneTypes
<1>2. /\ points' = [p \in Captured |->
                     IF p \in sent THEN [points[p] EXCEPT !.batch = b] ELSE points[p]]
      /\ up' = [up EXCEPT ![u] = [at |-> "calling", batch |-> b, call |-> c]]
      /\ call' = [call EXCEPT ![c] =
                   [NoCall EXCEPT !.at = "asked", !.batch = b, !.points = sent, !.heard = TRUE]]
      /\ call[c] = NoCall
  BY DEF UploadAs
<1>3. \/ /\ Again /\ batches' = batches /\ b \in 1..batches /\ sent = PointsOf(b)
      \/ /\ ~Again /\ batches' = batches + 1 /\ b = batches + 1 /\ sent \subseteq queued
         /\ \A p \in queued : points[p].batch = 0
  BY DEF UploadAs
<1>4. Len(points)' = Len(points) /\ Captured' = Captured
  BY <1>1, <1>2 DEF Captured
<1>5. ASSUME NEW p \in Captured
      PROVE  /\ points'[p].batch = IF p \in sent THEN b ELSE points[p].batch
             /\ points'[p].near = points[p].near
  <2>1. points'[p] = IF p \in sent THEN [points[p] EXCEPT !.batch = b] ELSE points[p]
    BY <1>2
  <2>2. points[p] \in PointRow(batches)
    BY <1>1
  <2> QED
    BY <2>1, <2>2 DEF PointRow
<1>6. ASSUME NEW p \in Captured
      PROVE  \/ points'[p].batch = points[p].batch
             \/ /\ ~Stored(p) /\ points[p].batch = 0 /\ points'[p].batch = b
                /\ b \notin 1..batches /\ ~Again
  <2>1. CASE p \notin sent
    BY <1>5, <2>1
  <2>2. CASE p \in sent /\ Again
    BY <1>3, <1>5, <2>2 DEF PointsOf
  <2>3. CASE p \in sent /\ ~Again
    <3>1. points[p].batch = 0 /\ b \notin 1..batches
      BY <1>1, <1>3, <2>3
    <3>2. ~Stored(p)
      BY <3>1 DEF TInv, StoredIsSealed
    <3> QED
      BY <1>5, <2>3, <3>1, <3>2
  <2> QED
    BY <2>1, <2>2, <2>3
<1>7. {p \in Captured' : points'[p].batch = b} = sent
  <2>1. ASSUME NEW p \in Captured, p \notin sent PROVE points[p].batch # b
    BY <1>1, <1>3, <2>1 DEF PointsOf
  <2> QED
    BY <1>1, <1>4, <1>5, <2>1
<1>8. ASSUME NEW x \in 1..batches PROVE {p \in Captured' : points'[p].batch = x} = PointsOf(x)
  <2>1. ASSUME NEW p \in Captured PROVE points'[p].batch = x <=> points[p].batch = x
    BY <1>1, <1>6
  <2> QED
    BY <1>4, <2>1 DEF PointsOf
<1>9. /\ \A d \in Calls : d # c => call'[d] = call[d]
      /\ call'[c].at = "asked" /\ call'[c].batch = b /\ call'[c].points = sent
      /\ call'[c].heard /\ call[c].at = "free"
  BY <1>2 DEF TInv, ServerTypes, NoCall
<1>10. /\ up'[u].at = "calling" /\ up'[u].batch = b /\ up'[u].call = c
       /\ \A v \in Runtimes : v # u => up'[v] = up[v]
  BY <1>2 DEF TInv, PhoneTypes
<1> QED
  BY <1>4, <1>5, <1>6, <1>7, <1>8, <1>9, <1>10 DEF SealsPoints, Calling

LEMMA UploadKeeps ==
    ASSUME TInv, NEW u \in Runtimes, NEW c \in Calls, NEW b \in Nat, NEW sent \in SUBSET Captured,
           UploadAs(u, c, b, sent)
    PROVE  TInv'
<1>0. SealsPoints(b, sent) /\ Calling(u, c, b, sent)
  BY UploadIs
<1>1. /\ Captured' = Captured /\ Len(points)' = Len(points)
      /\ \A p \in Captured : points'[p].batch = IF p \in sent THEN b ELSE points[p].batch
      /\ \A p \in Captured :
           \/ points'[p].batch = points[p].batch
           \/ /\ ~Stored(p) /\ points[p].batch = 0 /\ points'[p].batch = b
              /\ b \notin 1..batches /\ ~Again
      /\ {p \in Captured' : points'[p].batch = b} = sent
      /\ \A x \in 1..batches : {p \in Captured' : points'[p].batch = x} = PointsOf(x)
  BY <1>0 DEF SealsPoints
<1>2. /\ \A d \in Calls : d # c => call'[d] = call[d]
      /\ call'[c].at = "asked" /\ call'[c].batch = b /\ call'[c].points = sent
      /\ call'[c].heard /\ call[c].at = "free"
  BY <1>0 DEF Calling
<1>3. /\ up'[u].at = "calling" /\ up'[u].batch = b /\ up'[u].call = c
      /\ \A v \in Runtimes : v # u => up'[v] = up[v]
  BY <1>0 DEF Calling
<1>4. /\ b \in 1..batches' /\ sent # {} /\ up[u] = Waiting
      /\ batches' \in Nat /\ batches <= batches'
      /\ raced' = IF \E d \in Calls : call[d].at # "free" /\ call[d].batch = b
                  THEN raced \cup {b} ELSE raced
      /\ UNCHANGED <<shiftVars, queued, tracking, refresh, track, remembered, inside,
                     presence, arrivals, refused, trouble>>
  BY DEF UploadAs
<1>5. /\ points' = [p \in Captured |->
                     IF p \in sent THEN [points[p] EXCEPT !.batch = b] ELSE points[p]]
      /\ up' = [up EXCEPT ![u] = [at |-> "calling", batch |-> b, call |-> c]]
      /\ call' = [call EXCEPT ![c] =
                   [NoCall EXCEPT !.at = "asked", !.batch = b, !.points = sent, !.heard = TRUE]]
  BY DEF UploadAs
<1>6. /\ batches \in Nat /\ Len(points) \in Nat /\ Captured = 1..Len(points)
      /\ \A p \in Captured : points[p] \in PointRow(batches)
      /\ \A p \in Captured : points[p].batch \in 0..batches
      /\ \A d \in Calls : call[d].batch \in 0..batches
  BY RowsAre DEF TInv
<1>7. ShiftTypes'
  BY <1>4 DEF TInv, ShiftTypes, shiftVars
<1>8. PhoneTypes'
  <2>1. ASSUME NEW p \in Captured PROVE points'[p] \in PointRow(batches')
    <3>1. points'[p] = IF p \in sent THEN [points[p] EXCEPT !.batch = b] ELSE points[p]
      BY <1>5
    <3>2. points[p] \in PointRow(batches) /\ b \in 0..batches'
      BY <1>4, <1>6
    <3>3. 0..batches \subseteq 0..batches'
      BY <1>4, <1>6
    <3>4. [points[p] EXCEPT !.batch = b] \in PointRow(batches') /\ points[p] \in PointRow(batches')
      BY <3>2, <3>3 DEF PointRow
    <3> QED
      BY <3>1, <3>4
  <2>2. points' \in Seq(PointRow(batches'))
    <3> DEFINE Row == PointRow(batches')
    <3>1. \A p \in 1..Len(points) : points'[p] \in Row
      BY <1>6, <2>1
    <3>2. points' = [p \in 1..Len(points) |-> points'[p]]
      BY <1>5, <1>6
    <3> HIDE DEF Row
    <3>3. points' \in Seq(Row)
      BY <1>6, <3>1, <3>2
    <3> QED
      BY <3>3 DEF Row
  <2>3. up' \in [Runtimes -> UpRow(batches')]
    <3>1. UpRow(batches) \subseteq UpRow(batches')
      BY <1>4, <1>6 DEF UpRow
    <3>2. [at |-> "calling", batch |-> b, call |-> c] \in UpRow(batches')
      BY <1>4 DEF UpRow
    <3> QED
      BY <1>5, <3>1, <3>2 DEF TInv, PhoneTypes
  <2> QED
    BY <1>1, <1>4, <2>2, <2>3 DEF TInv, PhoneTypes
<1>9. ServerTypes'
  <2>1. [NoCall EXCEPT !.at = "asked", !.batch = b, !.points = sent, !.heard = TRUE]
          \in CallRow(batches', Captured')
    <3>1. PICK n \in Nat : n = batches'
      BY <1>4
    <3>4. PICK P : P = Captured'
      OBVIOUS
    <3>2. sent \in SUBSET P /\ b \in 0..n
      BY <1>1, <1>4, <3>1, <3>4
    <3>3. [NoCall EXCEPT !.at = "asked", !.batch = b, !.points = sent, !.heard = TRUE]
            \in CallRow(n, P)
      BY <3>2, AskedRow
    <3> QED
      BY <3>1, <3>3, <3>4
  <2>2. CallRow(batches, Captured) \subseteq CallRow(batches', Captured')
    BY <1>1, <1>4, <1>6 DEF CallRow
  <2>3. call' \in [Calls -> CallRow(batches', Captured')]
    BY <1>5, <2>1, <2>2 DEF TInv, ServerTypes
  <2>4. raced' \subseteq 1..batches'
    BY <1>4, <1>6 DEF TInv, ServerTypes
  <2> QED
    BY <1>1, <1>4, <1>6, <2>3, <2>4, ServerTypesGrow DEF TInv
<1>10. \A p : (Stored(p)' <=> Stored(p)) /\ (StoredOnce(p)' <=> StoredOnce(p))
  BY <1>4 DEF Stored, StoredOnce
<1>11. ASSUME NEW d \in Calls PROVE Busy(d)' <=> d = c \/ Busy(d)
  BY <1>2 DEF Busy
<1>12. ~Busy(c)
  BY <1>2 DEF Busy
<1>13. Linked'
  <2>1. up[u].at = "idle"
    BY <1>4 DEF Waiting
  <2>2. \A v \in Runtimes : up[v].at = "calling" => up[v].call # c /\ up[v].call \in Calls
    BY <1>12 DEF TInv, Linked
  <2>3. ASSUME NEW v \in Runtimes
        PROVE  /\ up'[v].at = "calling" =>
                     /\ up'[v].call \in Calls /\ call'[up'[v].call].at # "free"
                     /\ call'[up'[v].call].heard
                     /\ call'[up'[v].call].batch = up'[v].batch
               /\ up'[v].at # "calling" => up'[v].call = Nothing
    <3>1. CASE v = u
      BY <1>2, <1>3, <3>1
    <3>2. CASE v # u
      BY <1>2, <1>3, <2>2, <3>2 DEF TInv, Linked, Busy
    <3> QED
      BY <3>1, <3>2
  <2>4. \A v, z \in Runtimes : up'[v].at = "calling" /\ up'[z].at = "calling"
                               /\ up'[v].call = up'[z].call => v = z
    BY <1>3, <2>2 DEF TInv, Linked
  <2> QED
    BY <2>3, <2>4 DEF Linked, Busy
<1>14. KeptSomewhere'
  BY <1>1, <1>4, <1>10 DEF TInv, KeptSomewhere
<1>15. CallsOfBatches'
  <2>1. ASSUME NEW d \in Calls, Busy(d)'
        PROVE  /\ call'[d].batch # 0 /\ call'[d].points # {}
               /\ call'[d].points = {p \in Captured' : points'[p].batch = call'[d].batch}
    <3>1. CASE d = c
      BY <1>1, <1>2, <1>4, <3>1
    <3>2. CASE d # c
      <4>1. call[d].batch # 0 /\ call[d].points # {} /\ call[d].points = PointsOf(call[d].batch)
        BY <1>11, <2>1, <3>2 DEF TInv, CallsOfBatches
      <4>2. PICK x \in 1..batches : x = call[d].batch
        BY <1>6, <4>1
      <4>3. {p \in Captured' : points'[p].batch = x} = PointsOf(x)
        BY <1>1
      <4> QED
        BY <1>2, <3>2, <4>1, <4>2, <4>3
    <3> QED
      BY <3>1, <3>2
  <2> QED
    BY <2>1 DEF CallsOfBatches, PointsOf
<1>16. AnsweredIsRemembered' /\ TakenIsStored'
  <2>1. "asked" \notin Working /\ call'[c].at \notin Working /\ call'[c].at # "accepted"
    BY <1>2 DEF Working
  <2> QED
    BY <1>2, <1>4, <1>10, <2>1 DEF TInv, AnsweredIsRemembered, TakenIsStored
<1>17. RememberedIsStored'
  <2>1. remembered \subseteq 1..batches
    BY DEF TInv, ServerTypes
  <2> QED
    BY <1>1, <1>4, <1>10, <2>1 DEF TInv, RememberedIsStored
<1>18. StoredIsSealed'
  BY <1>1, <1>10 DEF TInv, StoredIsSealed
<1>19. OneCallEach'
  <2>1. ASSUME NEW d \in Calls, NEW e \in Calls, Busy(d)', Busy(e)',
               call'[d].batch = call'[e].batch, call'[d].batch \notin raced'
        PROVE  d = e
    <3>1. CASE d # c /\ e # c
      BY <1>2, <1>4, <1>11, <2>1, <3>1 DEF TInv, OneCallEach
    <3>2. CASE d = c /\ e # c
      BY <1>2, <1>4, <1>11, <2>1, <3>2 DEF Busy
    <3>3. CASE d # c /\ e = c
      BY <1>2, <1>4, <1>11, <2>1, <3>3 DEF Busy
    <3> QED
      BY <3>1, <3>2, <3>3
  <2> QED
    BY <2>1 DEF OneCallEach
<1>20. StillWorking'
  <2>1. ASSUME NEW p \in Captured, Stored(p), points'[p].batch \notin raced',
               points'[p].batch \notin remembered
        PROVE  \E d \in Calls : call'[d].at \in Working /\ call'[d].batch = points'[p].batch
    <3>1. points'[p].batch = points[p].batch /\ points[p].batch \notin raced
      BY <1>1, <1>4, <2>1
    <3>2. PICK d \in Calls : call[d].at \in Working /\ call[d].batch = points[p].batch
      BY <2>1, <3>1 DEF TInv, StillWorking
    <3>3. d # c
      BY <1>2, <3>2 DEF Working
    <3> QED
      BY <1>2, <3>1, <3>2, <3>3
  <2> QED
    BY <1>1, <1>4, <1>10, <2>1 DEF StillWorking
<1>21. OnceUnlessRaced'
  <2>1. ASSUME NEW p \in Captured, points'[p].batch \notin raced' PROVE StoredOnce(p)
    <3>1. CASE points'[p].batch = points[p].batch
      BY <1>4, <2>1, <3>1 DEF TInv, OnceUnlessRaced
    <3>2. CASE ~Stored(p)
      BY <3>2 DEF Stored, StoredOnce
    <3> QED
      BY <1>1, <3>1, <3>2
  <2> QED
    BY <1>1, <1>10, <2>1 DEF OnceUnlessRaced
<1> QED
  BY <1>7, <1>8, <1>9, <1>13, <1>14, <1>15, <1>16, <1>17, <1>18, <1>19, <1>20, <1>21 DEF TInv

\* A step of the server moves one call on and leaves the phone alone.
LEMMA CallMoves ==
    ASSUME TInv, NEW c \in Calls, Busy(c), NEW r \in CallRow(batches, Captured),
           call' = [call EXCEPT ![c] = r],
           r.at # "free", r.batch = call[c].batch, r.points = call[c].points,
           r.heard = call[c].heard,
           OnlyCall, trouble' \in 0..MaxTrouble,
           track' \in Seq(Captured), remembered' \subseteq 1..batches,
           raced' \subseteq 1..batches, raced \subseteq raced', inside' \in BOOLEAN,
           presence' \in 0..Len(points), arrivals' \in Nat,
           \A p : Stored(p) => Stored(p)'
    PROVE  /\ ShiftTypes' /\ PhoneTypes' /\ ServerTypes' /\ Linked' /\ KeptSomewhere'
           /\ CallsOfBatches' /\ OneCallEach'
           /\ Captured' = Captured /\ call'[c] = r
           /\ \A d \in Calls : d # c => call'[d] = call[d]
           /\ \A d \in Calls : /\ call'[d].batch = call[d].batch
                               /\ call'[d].points = call[d].points
                               /\ Busy(d)' <=> Busy(d)
<1>1. UNCHANGED <<open, shifts, points, queued, tracking, refresh, up, batches, refused>>
  BY DEF OnlyCall, shiftVars, phoneVars
<1>2. Captured' = Captured
  BY <1>1 DEF Captured
<1>3. call'[c] = r /\ \A d \in Calls : d # c => call'[d] = call[d]
  BY DEF TInv, ServerTypes
<1>4. ASSUME NEW d \in Calls
      PROVE  /\ call'[d].batch = call[d].batch /\ call'[d].points = call[d].points
             /\ call'[d].heard = call[d].heard /\ (call'[d].at # "free" <=> call[d].at # "free")
  BY <1>3 DEF Busy
<1>5. \A d \in Calls : Busy(d)' <=> Busy(d)
  BY <1>4 DEF Busy
<1>6. ShiftTypes' /\ PhoneTypes'
  BY <1>1, <1>2 DEF TInv, ShiftTypes, PhoneTypes
<1>7. ServerTypes'
  <2>1. call' \in [Calls -> CallRow(batches, Captured)]
    BY DEF TInv, ServerTypes
  <2> QED
    BY <1>1, <1>2, <2>1 DEF ServerTypes
<1>8. Linked'
  BY <1>1, <1>4 DEF TInv, Linked, Busy
<1>9. KeptSomewhere'
  BY <1>1, <1>2 DEF TInv, KeptSomewhere
<1>10. CallsOfBatches'
  <2>1. ASSUME NEW d \in Calls, Busy(d)'
        PROVE  /\ call'[d].batch # 0 /\ call'[d].points # {}
               /\ call'[d].points = {p \in Captured' : points'[p].batch = call'[d].batch}
    BY <1>1, <1>2, <1>4, <1>5, <2>1 DEF TInv, CallsOfBatches, PointsOf
  <2> QED
    BY <2>1 DEF CallsOfBatches, PointsOf
<1>11. OneCallEach'
  BY <1>4, <1>5 DEF TInv, OneCallEach
<1> QED
  BY <1>2, <1>3, <1>4, <1>5, <1>6, <1>7, <1>8, <1>9, <1>10, <1>11

\* A call at work goes on with it.
LEMMA WorkGoesOn ==
    ASSUME TInv, NEW c \in Calls, NEW r \in CallRow(batches, Captured),
           call' = [call EXCEPT ![c] = r], call[c].at \in Working, r.at \in Working,
           r.batch = call[c].batch, r.points = call[c].points, r.heard = call[c].heard,
           OnlyCall, UNCHANGED <<track, remembered, raced, trouble>>, inside' \in BOOLEAN,
           presence' \in 0..Len(points), arrivals' \in Nat
    PROVE  TInv' /\ Captured' = Captured /\ call'[c] = r
                 /\ \A d \in Calls : d # c => call'[d] = call[d]
<1>1. Busy(c) /\ r.at # "free" /\ r.at # "accepted" /\ call[c].at # "accepted"
  BY DEF Busy, Working
<1>2. \A p : (Stored(p)' <=> Stored(p)) /\ (StoredOnce(p)' <=> StoredOnce(p))
  BY DEF Stored, StoredOnce
<1>3. /\ ShiftTypes' /\ PhoneTypes' /\ ServerTypes' /\ Linked' /\ KeptSomewhere'
      /\ CallsOfBatches' /\ OneCallEach'
      /\ Captured' = Captured /\ call'[c] = r
      /\ \A d \in Calls : d # c => call'[d] = call[d]
      /\ \A d \in Calls : /\ call'[d].batch = call[d].batch
                          /\ call'[d].points = call[d].points
                          /\ Busy(d)' <=> Busy(d)
  <2>1. /\ track' \in Seq(Captured) /\ remembered' \subseteq 1..batches
        /\ raced' \subseteq 1..batches /\ raced \subseteq raced' /\ trouble' \in 0..MaxTrouble
    BY DEF TInv, ServerTypes, ShiftTypes
  <2>2. \A p : Stored(p) => Stored(p)'
    BY <1>2
  <2> QED
    BY <1>1, <2>1, <2>2, CallMoves
<1>4. points' = points
  BY DEF OnlyCall, phoneVars
<1>5. AnsweredIsRemembered' /\ TakenIsStored'
  BY <1>1, <1>2, <1>3 DEF TInv, AnsweredIsRemembered, TakenIsStored
<1>6. RememberedIsStored' /\ StoredIsSealed' /\ OnceUnlessRaced'
  BY <1>2, <1>3, <1>4 DEF TInv, RememberedIsStored, StoredIsSealed, OnceUnlessRaced
<1>7. StillWorking'
  <2>1. \A d \in Calls : call[d].at \in Working => call'[d].at \in Working
    BY <1>3
  <2> QED
    BY <1>2, <1>3, <1>4, <2>1 DEF TInv, StillWorking
<1> QED
  BY <1>3, <1>5, <1>6, <1>7 DEF TInv

LEMMA PresentIs ==
    ASSUME TInv, NEW c \in Calls, Present(c)
    PROVE  \E r \in CallRow(batches, Captured) :
             /\ r.at = "persist" /\ r.batch = call[c].batch /\ r.points = call[c].points
             /\ r.heard = call[c].heard
             /\ r.near = AfterTrack(call[c].points, inside)
             /\ r.entries = Cardinality({p \in Changes(call[c].points, inside) : points[p].near})
             /\ call' = [call EXCEPT ![c] = r]
<1> DEFINE S == call[c].points
           v == AfterTrack(S, inside)
           n == Cardinality({p \in Changes(S, inside) : points[p].near})
<1>1. /\ S \subseteq Captured /\ call[c] \in CallRow(batches, Captured)
      /\ Captured = 1..Len(points) /\ Len(points) \in Nat
      /\ \A p \in Captured : p \in Int /\ points[p].near \in BOOLEAN
  BY RowsAre DEF TInv, ServerTypes
<1>2. IsFiniteSet(S) /\ \A z \in S : z \in Int
  <2>1. IsFiniteSet(Captured)
    BY <1>1, FS_Interval
  <2> QED
    BY <1>1, <2>1, FS_Subset
<1> HIDE DEF S
<1>3. v \in BOOLEAN \cup {Nothing}
  <2> DEFINE C == Changes(S, inside)
  <2>1. C \subseteq S
    BY DEF Changes
  <2>2. C # {} => Max(C) \in C
    <3>1. IsFiniteSet(C) /\ \A z \in C : z \in Int
      BY <1>2, <2>1, FS_Subset
    <3> HIDE DEF C
    <3> QED
      BY <3>1, MaxIs
  <2> HIDE DEF C
  <2>3. C # {} => points[Max(C)].near \in BOOLEAN
    BY <1>1, <2>1, <2>2
  <2> QED
    BY <2>3 DEF AfterTrack, C
<1>4. n \in Nat
  <2> DEFINE E == {p \in Changes(S, inside) : points[p].near}
  <2>1. E \subseteq S
    BY DEF Changes
  <2>2. IsFiniteSet(E)
    <3> HIDE DEF E
    <3> QED
      BY <1>2, <2>1, FS_Subset
  <2> HIDE DEF E
  <2>3. Cardinality(E) \in Nat
    BY <2>2, FS_CardinalityType
  <2> QED
    BY <2>3 DEF E
<1> HIDE DEF v, n
<1> DEFINE r1 == [call[c] EXCEPT !.at = "persist"]
           r2 == [r1 EXCEPT !.near = v]
           r3 == [r2 EXCEPT !.entries = n]
<1>5. call' = [call EXCEPT ![c].at = "persist", ![c].near = v, ![c].entries = n]
  BY DEF Present, v, n, S
<1>6. call' = [call EXCEPT ![c] = r3]
  <2>1. call \in [Calls -> CallRow(batches, Captured)]
    BY DEF TInv, ServerTypes
  <2> QED
    BY <1>5, <2>1
<1>7. r1 \in CallRow(batches, Captured) /\ r1.at = "persist" /\ r1.batch = call[c].batch
      /\ r1.points = call[c].points /\ r1.heard = call[c].heard
  BY <1>1 DEF CallRow, CallStates
<1> HIDE DEF r1
<1>8. r2 \in CallRow(batches, Captured) /\ r2.at = "persist" /\ r2.batch = call[c].batch
      /\ r2.points = call[c].points /\ r2.heard = call[c].heard /\ r2.near = v
  BY <1>3, <1>7 DEF CallRow
<1> HIDE DEF r2
<1>9. r3 \in CallRow(batches, Captured) /\ r3.at = "persist" /\ r3.batch = call[c].batch
      /\ r3.points = call[c].points /\ r3.heard = call[c].heard /\ r3.near = v /\ r3.entries = n
  BY <1>4, <1>8 DEF CallRow
<1> HIDE DEF r3
<1> QED
  BY <1>6, <1>9 DEF v, n, S

\* A step that moves the call no further than to another state.
LEMMA MovesIs ==
    ASSUME TInv, NEW c \in Calls, NEW at \in CallStates, ServerMoves(c, at)
    PROVE  \E r \in CallRow(batches, Captured) :
             /\ r.at = at /\ r.batch = call[c].batch /\ r.points = call[c].points
             /\ r.heard = call[c].heard /\ r.near = call[c].near /\ r.entries = call[c].entries
             /\ call' = [call EXCEPT ![c] = r]
<1> DEFINE r == [call[c] EXCEPT !.at = at]
<1>1. call \in [Calls -> CallRow(batches, Captured)] /\ call[c] \in CallRow(batches, Captured)
  BY DEF TInv, ServerTypes
<1>2. call' = [call EXCEPT ![c] = r]
  BY DEF ServerMoves
<1>3. /\ r \in CallRow(batches, Captured) /\ r.at = at /\ r.batch = call[c].batch
      /\ r.points = call[c].points /\ r.heard = call[c].heard /\ r.near = call[c].near
      /\ r.entries = call[c].entries
  BY <1>1 DEF CallRow
<1> HIDE DEF r
<1> QED
  BY <1>2, <1>3

LEMMA PresentKeeps ==
    ASSUME TInv, NEW c \in Calls, Present(c)
    PROVE  TInv'
<1>1. PICK r \in CallRow(batches, Captured) :
             /\ r.at = "persist" /\ r.batch = call[c].batch /\ r.points = call[c].points
             /\ r.heard = call[c].heard
             /\ call' = [call EXCEPT ![c] = r]
  BY PresentIs
<1>2. /\ call[c].at = "taken" /\ presence' = Max(call[c].points) /\ OnlyCall
      /\ UNCHANGED <<track, remembered, inside, arrivals, raced, trouble>>
  BY DEF Present
<1>3. presence' \in 0..Len(points)
  <2>1. call[c].points # {} /\ call[c].points \subseteq Captured
        /\ Captured = 1..Len(points) /\ Len(points) \in Nat /\ \A p \in Captured : p \in Int
    BY <1>2, RowsAre DEF TInv, CallsOfBatches, Busy
  <2>2. IsFiniteSet(call[c].points)
    <3>1. IsFiniteSet(Captured)
      BY <2>1, FS_Interval
    <3> QED
      BY <2>1, <3>1, FS_Subset
  <2>3. Max(call[c].points) \in call[c].points
    BY <2>1, <2>2, MaxIs
  <2> QED
    BY <1>2, <2>1, <2>3
<1>4. inside' \in BOOLEAN /\ arrivals' \in Nat
  BY <1>2 DEF TInv, ServerTypes
<1>5. call[c].at \in Working /\ r.at \in Working
  BY <1>1, <1>2 DEF Working
<1> QED
  BY <1>1, <1>2, <1>3, <1>4, <1>5, WorkGoesOn

LEMMA PersistInsideKeeps ==
    ASSUME TInv, NEW c \in Calls, PersistInside(c)
    PROVE  TInv'
<1>1. /\ call[c].at = "persist" /\ ServerMoves(c, "publish") /\ OnlyCall
      /\ inside' = IF call[c].near = Nothing THEN inside ELSE call[c].near
      /\ UNCHANGED <<track, remembered, presence, arrivals, raced, trouble>>
  BY DEF PersistInside
<1>2. "publish" \in CallStates /\ "publish" \in Working /\ call[c].at \in Working
  BY <1>1 DEF CallStates, Working
<1>3. PICK r \in CallRow(batches, Captured) :
             /\ r.at = "publish" /\ r.batch = call[c].batch /\ r.points = call[c].points
             /\ r.heard = call[c].heard
             /\ call' = [call EXCEPT ![c] = r]
  BY <1>1, <1>2, MovesIs
<1>4. inside' \in BOOLEAN /\ presence' \in 0..Len(points) /\ arrivals' \in Nat
  <2>1. call[c].near \in BOOLEAN \cup {Nothing}
    BY RowsAre DEF TInv
  <2> QED
    BY <1>1, <2>1 DEF TInv, ServerTypes
<1> QED
  BY <1>1, <1>2, <1>3, <1>4, WorkGoesOn

LEMMA PublishArrivalsKeeps ==
    ASSUME TInv, NEW c \in Calls, PublishArrivals(c)
    PROVE  TInv'
<1>1. /\ call[c].at = "publish" /\ ServerMoves(c, "remember") /\ OnlyCall
      /\ arrivals' = arrivals + call[c].entries
      /\ UNCHANGED <<track, remembered, inside, presence, raced, trouble>>
  BY DEF PublishArrivals
<1>2. "remember" \in CallStates /\ "remember" \in Working /\ call[c].at \in Working
  BY <1>1 DEF CallStates, Working
<1>3. PICK r \in CallRow(batches, Captured) :
             /\ r.at = "remember" /\ r.batch = call[c].batch /\ r.points = call[c].points
             /\ r.heard = call[c].heard
             /\ call' = [call EXCEPT ![c] = r]
  BY <1>1, <1>2, MovesIs
<1>4. inside' \in BOOLEAN /\ presence' \in 0..Len(points) /\ arrivals' \in Nat
  <2>1. call[c].entries \in Nat
    BY RowsAre DEF TInv
  <2> QED
    BY <1>1, <2>1 DEF TInv, ServerTypes
<1> QED
  BY <1>1, <1>2, <1>3, <1>4, WorkGoesOn

LEMMA RememberKeeps ==
    ASSUME TInv, NEW c \in Calls, Remember(c)
    PROVE  TInv'
<1>1. /\ call[c].at = "remember" /\ ServerMoves(c, "accepted") /\ OnlyCall
      /\ remembered' = remembered \cup {call[c].batch}
      /\ UNCHANGED <<track, inside, presence, arrivals, raced, trouble>>
  BY DEF Remember
<1>2. PICK r \in CallRow(batches, Captured) :
             /\ r.at = "accepted" /\ r.batch = call[c].batch /\ r.points = call[c].points
             /\ r.heard = call[c].heard
             /\ call' = [call EXCEPT ![c] = r]
  <2>1. "accepted" \in CallStates
    BY DEF CallStates
  <2> QED
    BY <1>1, <2>1, MovesIs
<1>3. Busy(c) /\ call[c].at \in Working /\ "accepted" \notin Working
  BY <1>1 DEF Busy, Working
<1>4. call[c].points = PointsOf(call[c].batch) /\ call[c].batch \in 1..batches
  <2>1. call[c].points = PointsOf(call[c].batch) /\ call[c].batch # 0
    BY <1>3 DEF TInv, CallsOfBatches
  <2> QED
    BY <2>1, RowsAre DEF TInv
<1>5. \A p : (Stored(p)' <=> Stored(p)) /\ (StoredOnce(p)' <=> StoredOnce(p))
  BY <1>1 DEF Stored, StoredOnce
<1>6. /\ ShiftTypes' /\ PhoneTypes' /\ ServerTypes' /\ Linked' /\ KeptSomewhere'
      /\ CallsOfBatches' /\ OneCallEach'
      /\ Captured' = Captured /\ call'[c] = r
      /\ \A d \in Calls : d # c => call'[d] = call[d]
      /\ \A d \in Calls : /\ call'[d].batch = call[d].batch
                          /\ call'[d].points = call[d].points
                          /\ Busy(d)' <=> Busy(d)
  <2>1. /\ track' \in Seq(Captured) /\ remembered' \subseteq 1..batches
        /\ raced' \subseteq 1..batches /\ raced \subseteq raced' /\ trouble' \in 0..MaxTrouble
        /\ inside' \in BOOLEAN /\ presence' \in 0..Len(points) /\ arrivals' \in Nat
    BY <1>1, <1>4 DEF TInv, ServerTypes, ShiftTypes
  <2>2. \A p : Stored(p) => Stored(p)'
    BY <1>5
  <2> QED
    BY <1>1, <1>2, <1>3, <2>1, <2>2, CallMoves
<1>7. points' = points
  BY <1>1 DEF OnlyCall, phoneVars
<1>8. AnsweredIsRemembered'
  BY <1>1, <1>6 DEF TInv, AnsweredIsRemembered
<1>9. TakenIsStored'
  BY <1>2, <1>3, <1>5, <1>6 DEF TInv, TakenIsStored
<1>10. RememberedIsStored'
  <2>1. \A p \in PointsOf(call[c].batch) : Stored(p)
    BY <1>3, <1>4 DEF TInv, TakenIsStored
  <2> QED
    BY <1>1, <1>5, <1>6, <1>7, <2>1 DEF TInv, RememberedIsStored, PointsOf
<1>11. StoredIsSealed' /\ OnceUnlessRaced'
  BY <1>1, <1>5, <1>6, <1>7 DEF TInv, StoredIsSealed, OnceUnlessRaced
<1>12. StillWorking'
  <2>1. ASSUME NEW p \in Captured, Stored(p), points[p].batch \notin raced,
               points[p].batch \notin remembered'
        PROVE  \E d \in Calls : call'[d].at \in Working /\ call'[d].batch = points[p].batch
    <3>1. PICK d \in Calls : call[d].at \in Working /\ call[d].batch = points[p].batch
      BY <1>1, <2>1 DEF TInv, StillWorking
    <3>2. d # c
      BY <1>1, <2>1, <3>1
    <3> QED
      BY <1>6, <3>1, <3>2
  <2> QED
    BY <1>1, <1>5, <1>6, <1>7, <2>1 DEF StillWorking
<1> QED
  BY <1>6, <1>8, <1>9, <1>10, <1>11, <1>12 DEF TInv

LEMMA FailKeeps ==
    ASSUME TInv, NEW c \in Calls, Fail(c)
    PROVE  TInv'
<1>1. /\ call[c].at \in {"asked", "taken", "persist", "publish", "remember"}
      /\ trouble < MaxTrouble /\ trouble' = trouble + 1
      /\ ServerMoves(c, "failed") /\ OnlyCall
      /\ raced' = raced \cup {call[c].batch}
      /\ UNCHANGED <<track, remembered, inside, presence, arrivals>>
  BY DEF Fail
<1>2. PICK r \in CallRow(batches, Captured) :
             /\ r.at = "failed" /\ r.batch = call[c].batch /\ r.points = call[c].points
             /\ r.heard = call[c].heard
             /\ call' = [call EXCEPT ![c] = r]
  <2>1. "failed" \in CallStates
    BY DEF CallStates
  <2> QED
    BY <1>1, <2>1, MovesIs
<1>3. Busy(c) /\ "failed" \notin Working
  BY <1>1 DEF Busy, Working
<1>4. call[c].batch \in 1..batches
  <2>1. call[c].batch # 0
    BY <1>3 DEF TInv, CallsOfBatches
  <2> QED
    BY <2>1, RowsAre DEF TInv
<1>5. \A p : (Stored(p)' <=> Stored(p)) /\ (StoredOnce(p)' <=> StoredOnce(p))
  BY <1>1 DEF Stored, StoredOnce
<1>6. /\ ShiftTypes' /\ PhoneTypes' /\ ServerTypes' /\ Linked' /\ KeptSomewhere'
      /\ CallsOfBatches' /\ OneCallEach'
      /\ Captured' = Captured /\ call'[c] = r
      /\ \A d \in Calls : d # c => call'[d] = call[d]
      /\ \A d \in Calls : /\ call'[d].batch = call[d].batch
                          /\ call'[d].points = call[d].points
                          /\ Busy(d)' <=> Busy(d)
  <2>1. /\ track' \in Seq(Captured) /\ remembered' \subseteq 1..batches
        /\ raced' \subseteq 1..batches /\ raced \subseteq raced'
        /\ inside' \in BOOLEAN /\ presence' \in 0..Len(points) /\ arrivals' \in Nat
    BY <1>1, <1>4 DEF TInv, ServerTypes
  <2>2. trouble' \in 0..MaxTrouble
    BY <1>1, TelemetryAssumption DEF TInv, ShiftTypes, TelemetryAssumption
  <2>3. \A p : Stored(p) => Stored(p)'
    BY <1>5
  <2> QED
    BY <1>1, <1>2, <1>3, <2>1, <2>2, <2>3, CallMoves
<1>7. points' = points
  BY <1>1 DEF OnlyCall, phoneVars
<1>8. AnsweredIsRemembered' /\ TakenIsStored'
  BY <1>1, <1>2, <1>3, <1>5, <1>6 DEF TInv, AnsweredIsRemembered, TakenIsStored
<1>9. RememberedIsStored' /\ StoredIsSealed' /\ OnceUnlessRaced'
  BY <1>1, <1>5, <1>6, <1>7 DEF TInv, RememberedIsStored, StoredIsSealed, OnceUnlessRaced
<1>10. StillWorking'
  <2>1. ASSUME NEW p \in Captured, Stored(p), points[p].batch \notin raced',
               points[p].batch \notin remembered
        PROVE  \E d \in Calls : call'[d].at \in Working /\ call'[d].batch = points[p].batch
    <3>1. PICK d \in Calls : call[d].at \in Working /\ call[d].batch = points[p].batch
      BY <1>1, <2>1 DEF TInv, StillWorking
    <3>2. d # c
      BY <1>1, <2>1, <3>1
    <3> QED
      BY <1>6, <3>1, <3>2
  <2> QED
    BY <1>1, <1>5, <1>6, <1>7, <2>1 DEF StillWorking
<1> QED
  BY <1>6, <1>8, <1>9, <1>10 DEF TInv

LEMMA UnheardKeeps ==
    ASSUME TInv, NEW c \in Calls, Unheard(c)
    PROVE  TInv'
<1>1. /\ call[c].at \in {"accepted", "outside", "failed"} /\ ~call[c].heard
      /\ call' = [call EXCEPT ![c] = NoCall] /\ OnlyCall
      /\ UNCHANGED <<track, remembered, inside, presence, arrivals, raced, trouble>>
  BY DEF Unheard
<1>2. UNCHANGED <<open, shifts, points, queued, tracking, refresh, up, batches, refused>>
  BY <1>1 DEF OnlyCall, shiftVars, phoneVars
<1>3. Captured' = Captured
  BY <1>2 DEF Captured
<1>4. BatchInv'
  BY <1>1, <1>2, CallEnds
<1>5. ShiftTypes' /\ PhoneTypes'
  BY <1>1, <1>2, <1>3 DEF TInv, ShiftTypes, PhoneTypes
<1>6. ServerTypes'
  <2>1. NoCall \in CallRow(batches, Captured)
    BY DEF NoCall, CallRow, CallStates, TInv, PhoneTypes
  <2>2. call' \in [Calls -> CallRow(batches, Captured)]
    BY <1>1, <2>1 DEF TInv, ServerTypes
  <2> QED
    BY <1>1, <1>2, <1>3, <2>2 DEF TInv, ServerTypes
<1>7. KeptSomewhere'
  BY <1>1, <1>2, <1>3 DEF TInv, KeptSomewhere, Stored
<1>8. Linked'
  <2>1. \A d \in Calls : d # c => call'[d] = call[d]
    BY <1>1 DEF TInv, ServerTypes
  <2>2. \A v \in Runtimes : up[v].at = "calling" => up[v].call # c
    BY <1>1 DEF TInv, Linked
  <2> QED
    BY <1>2, <2>1, <2>2 DEF TInv, Linked, Busy
<1> QED
  BY <1>4, <1>5, <1>6, <1>7, <1>8 DEF TInv, BatchInv

Holds(seq, p) == \E i \in DOMAIN seq : seq[i] = p
HoldsOnce(seq, p) == \A i, j \in DOMAIN seq : seq[i] = p /\ seq[j] = p => i = j
Lists(seq, S) ==
    /\ seq \in Seq(S)
    /\ \A i, j \in 1..Len(seq) : seq[i] = seq[j] => i = j
    /\ \A p \in S : \E i \in 1..Len(seq) : seq[i] = p

\* What the track holds once a list of points is put behind it.
LEMMA Appended ==
    ASSUME NEW P, NEW t, t \in Seq(P), NEW S, NEW s, Lists(s, S), NEW p
    PROVE  /\ Holds(t \o s, p) <=> Holds(t, p) \/ p \in S
           /\ (p \notin S \/ ~Holds(t, p)) /\ HoldsOnce(t, p) => HoldsOnce(t \o s, p)
<1>0. /\ s \in Seq(S)
      /\ \A i, j \in 1..Len(s) : s[i] = s[j] => i = j
      /\ \A x \in S : \E i \in 1..Len(s) : s[i] = x
  BY DEF Lists
<1> DEFINE q == t \o s
<1>1. PICK k \in Nat, n \in Nat : k = Len(t) /\ n = Len(s)
  BY <1>0
<1>2. /\ DOMAIN t = 1..k /\ DOMAIN s = 1..n /\ DOMAIN q = 1..(k + n)
      /\ \A i \in 1..(k + n) : q[i] = IF i <= k THEN t[i] ELSE s[i - k]
      /\ \A i \in 1..n : s[i] \in S
  BY <1>0, <1>1
<1> HIDE DEF q
<1>3. ASSUME NEW i \in 1..(k + n)
      PROVE  \/ i \in 1..k /\ q[i] = t[i]
             \/ i - k \in 1..n /\ q[i] = s[i - k] /\ i \notin 1..k
  <2>1. CASE i <= k
    BY <1>2, <2>1
  <2>2. CASE ~(i <= k)
    <3>1. i - k \in 1..n /\ i \notin 1..k
      BY <2>2
    <3> QED
      BY <1>2, <2>2, <3>1
  <2> QED
    BY <2>1, <2>2
<1>4. ASSUME NEW i \in 1..k PROVE i \in 1..(k + n) /\ q[i] = t[i]
  <2>1. i \in 1..(k + n) /\ i <= k
    OBVIOUS
  <2> QED
    BY <1>2, <2>1
<1>5. ASSUME NEW i \in 1..n PROVE k + i \in 1..(k + n) /\ q[k + i] = s[i]
  <2>1. k + i \in 1..(k + n) /\ ~(k + i <= k) /\ (k + i) - k = i
    OBVIOUS
  <2> QED
    BY <1>2, <2>1
<1>6. (\E i \in 1..(k + n) : q[i] = p) <=> (\E i \in 1..k : t[i] = p) \/ p \in S
  <2>1. ASSUME NEW i \in 1..(k + n), q[i] = p PROVE (\E j \in 1..k : t[j] = p) \/ p \in S
    BY <1>2, <1>3, <2>1
  <2>2. ASSUME NEW i \in 1..k, t[i] = p PROVE \E j \in 1..(k + n) : q[j] = p
    BY <1>4, <2>2
  <2>3. ASSUME p \in S PROVE \E j \in 1..(k + n) : q[j] = p
    <3>1. PICK i \in 1..n : s[i] = p
      BY <1>0, <1>1, <2>3
    <3> QED
      BY <1>5, <3>1
  <2> QED
    BY <2>1, <2>2, <2>3
<1>7. ASSUME p \notin S \/ ~\E i \in 1..k : t[i] = p,
             \A i, j \in 1..k : t[i] = p /\ t[j] = p => i = j,
             NEW i \in 1..(k + n), NEW j \in 1..(k + n), q[i] = p, q[j] = p
      PROVE  i = j
  <2>1. CASE p \notin S
    <3>1. i \in 1..k /\ t[i] = p /\ j \in 1..k /\ t[j] = p
      BY <1>2, <1>3, <1>7, <2>1
    <3> QED
      BY <1>7, <3>1
  <2>2. CASE ~\E l \in 1..k : t[l] = p
    <3>1. i - k \in 1..n /\ s[i - k] = p /\ j - k \in 1..n /\ s[j - k] = p
      BY <1>3, <1>7, <2>2
    <3>2. i - k = j - k
      BY <1>0, <1>1, <3>1
    <3> QED
      BY <3>2
  <2> QED
    BY <1>7, <2>1, <2>2
<1> QED
  <2>1. /\ Holds(q, p) <=> \E i \in 1..(k + n) : q[i] = p
        /\ Holds(t, p) <=> \E i \in 1..k : t[i] = p
    BY <1>2 DEF Holds
  <2>2. /\ HoldsOnce(q, p) <=> \A i, j \in 1..(k + n) : q[i] = p /\ q[j] = p => i = j
        /\ HoldsOnce(t, p) <=> \A i, j \in 1..k : t[i] = p /\ t[j] = p => i = j
    BY <1>2 DEF HoldsOnce
  <2> QED
    BY <1>6, <1>7, <2>1, <2>2 DEF q

\* A call that takes its batch.
Takes(c) ==
    /\ ServerMoves(c, "taken")
    /\ call[c].batch \notin remembered
    /\ track' = track \o InOrderOf(call[c].points)

LEMMA GateIs ==
    ASSUME TInv, NEW c \in Calls, Gate(c)
    PROVE  /\ call[c].at = "asked" /\ OnlyCall
           /\ UNCHANGED <<remembered, inside, presence, arrivals, raced, trouble>>
           /\ \/ /\ ServerMoves(c, "accepted") /\ call[c].batch \in remembered
                 /\ track' = track
              \/ /\ ServerMoves(c, "outside") /\ track' = track
              \/ Takes(c)
<1>1. /\ call[c].at = "asked" /\ OnlyCall
      /\ UNCHANGED <<remembered, inside, presence, arrivals, raced, trouble>>
  BY DEF Gate
<1> DEFINE at == IF call[c].batch \in remembered THEN "accepted"
                 ELSE IF open = 0 THEN "outside" ELSE "taken"
<1>2. ServerMoves(c, at)
  BY DEF Gate
<1>3. track' = IF call'[c].at = "taken" THEN track \o InOrderOf(call[c].points) ELSE track
  BY DEF Gate
<1>4. call'[c].at = at
  BY <1>2 DEF ServerMoves, TInv, ServerTypes, CallRow
<1>5. \/ at = "accepted" /\ call[c].batch \in remembered
      \/ at = "outside"
      \/ at = "taken" /\ call[c].batch \notin remembered
  OBVIOUS
<1> HIDE DEF at
<1> QED
  BY <1>1, <1>2, <1>3, <1>4, <1>5 DEF Takes

LEMMA TakesKeeps ==
    ASSUME TInv, NEW c \in Calls, call[c].at = "asked", Takes(c), OnlyCall,
           UNCHANGED <<remembered, inside, presence, arrivals, raced, trouble>>
    PROVE  TInv'
<1> DEFINE S == call[c].points
           s == InOrderOf(S)
           b == call[c].batch
<1>1. /\ S \subseteq Captured /\ Captured = 1..Len(points) /\ Len(points) \in Nat
      /\ \A p \in Captured : p \in Int
  BY RowsAre DEF TInv
<1>2. IsFiniteSet(S) /\ \A z \in S : z \in Int
  <2>1. IsFiniteSet(Captured)
    BY <1>1, FS_Interval
  <2> QED
    BY <1>1, <2>1, FS_Subset
<1>3. Busy(c) /\ S = PointsOf(b) /\ b # 0 /\ b \notin remembered
  BY DEF TInv, CallsOfBatches, Busy, Takes
<1> HIDE DEF S, b
<1>4. /\ s \in Seq(S)
      /\ \A i, j \in 1..Len(s) : s[i] = s[j] => i = j
      /\ \A p \in S : \E i \in 1..Len(s) : s[i] = p
  <2>1. PICK n : n = Cardinality(S)
    OBVIOUS
  <2>2. ListsInOrder(s, S, n)
    BY <1>2, <2>1, InOrderIs DEF FinInts
  <2> QED
    BY <2>2 DEF ListsInOrder
<1>5. track \in Seq(Captured) /\ track' = track \o s
  BY DEF TInv, ServerTypes, Takes, S
<1> HIDE DEF s
<1>6. track' \in Seq(Captured)
  <2>1. PICK P : P = Captured
    OBVIOUS
  <2>2. Len(s) \in Nat /\ s \in [1..Len(s) -> S] /\ S \subseteq P
    BY <1>1, <1>4, <2>1
  <2>3. s \in [1..Len(s) -> P]
    BY <2>2
  <2>4. s \in Seq(P)
    BY <2>2, <2>3
  <2> QED
    BY <1>5, <2>1, <2>4
<1>7. ASSUME NEW p
      PROVE  /\ Stored(p)' <=> Stored(p) \/ p \in S
             /\ (p \notin S \/ ~Stored(p)) /\ StoredOnce(p) => StoredOnce(p)'
  <2>1. PICK P, T, t, q : P = Captured /\ T = S /\ t = track /\ q = s
    OBVIOUS
  <2>2. t \in Seq(P) /\ Lists(q, T)
    BY <1>4, <1>5, <2>1 DEF Lists
  <2>3. /\ Holds(t \o q, p) <=> Holds(t, p) \/ p \in T
        /\ (p \notin T \/ ~Holds(t, p)) /\ HoldsOnce(t, p) => HoldsOnce(t \o q, p)
    BY <2>2, Appended
  <2>4. track' = t \o q
    BY <1>5, <2>1
  <2> QED
    BY <2>1, <2>3, <2>4 DEF Stored, StoredOnce, Holds, HoldsOnce
<1>8. PICK r \in CallRow(batches, Captured) :
             /\ r.at = "taken" /\ r.batch = call[c].batch /\ r.points = call[c].points
             /\ r.heard = call[c].heard
             /\ call' = [call EXCEPT ![c] = r]
  <2>1. "taken" \in CallStates
    BY DEF CallStates
  <2> QED
    BY <2>1, MovesIs DEF Takes
<1>9. /\ ShiftTypes' /\ PhoneTypes' /\ ServerTypes' /\ Linked' /\ KeptSomewhere'
      /\ CallsOfBatches' /\ OneCallEach'
      /\ Captured' = Captured /\ call'[c] = r
      /\ \A d \in Calls : d # c => call'[d] = call[d]
      /\ \A d \in Calls : /\ call'[d].batch = call[d].batch
                          /\ call'[d].points = call[d].points
                          /\ Busy(d)' <=> Busy(d)
  <2>1. /\ remembered' \subseteq 1..batches
        /\ raced' \subseteq 1..batches /\ raced \subseteq raced' /\ trouble' \in 0..MaxTrouble
        /\ inside' \in BOOLEAN /\ presence' \in 0..Len(points) /\ arrivals' \in Nat
    BY DEF TInv, ServerTypes, ShiftTypes
  <2>2. \A p : Stored(p) => Stored(p)'
    BY <1>7
  <2> QED
    BY <1>3, <1>6, <1>8, <2>1, <2>2, CallMoves
<1>10. points' = points
  BY DEF OnlyCall, phoneVars
\* Nobody stored a point of this batch, unless the batch is raced.
<1>11. ASSUME b \notin raced, NEW p \in S PROVE ~Stored(p)
  <2> SUFFICES ASSUME Stored(p) PROVE FALSE
    OBVIOUS
  <2>1. p \in Captured /\ points[p].batch = b
    BY <1>3 DEF PointsOf
  <2>2. PICK d \in Calls : call[d].at \in Working /\ call[d].batch = b
    BY <1>3, <1>11, <2>1 DEF TInv, StillWorking
  <2>3. d = c
    BY <1>3, <1>11, <2>2 DEF TInv, OneCallEach, Busy, Working, b
  <2> QED
    BY <2>2, <2>3 DEF Working
<1>12. AnsweredIsRemembered'
  BY <1>8, <1>9 DEF TInv, AnsweredIsRemembered
<1>13. TakenIsStored'
  <2>1. \A p \in call'[c].points : Stored(p)'
    BY <1>7, <1>8, <1>9 DEF S
  <2>2. ASSUME NEW d \in Calls, d # c, call'[d].at \in Working, NEW p \in call'[d].points
        PROVE  Stored(p)'
    BY <1>7, <1>9, <2>2 DEF TInv, TakenIsStored
  <2> QED
    BY <2>1, <2>2 DEF TakenIsStored
<1>14. RememberedIsStored'
  BY <1>7, <1>9, <1>10 DEF TInv, RememberedIsStored
<1>15. StoredIsSealed'
  BY <1>3, <1>7, <1>9, <1>10 DEF TInv, StoredIsSealed, PointsOf
<1>16. StillWorking'
  <2>1. ASSUME NEW p \in Captured, Stored(p)', points[p].batch \notin raced,
               points[p].batch \notin remembered
        PROVE  \E d \in Calls : call'[d].at \in Working /\ call'[d].batch = points[p].batch
    <3>1. CASE p \in S
      <4>1. points[p].batch = b
        BY <1>3, <3>1 DEF PointsOf
      <4>2. call'[c].at \in Working /\ call'[c].batch = b
        BY <1>8, <1>9 DEF Working, b
      <4> QED
        BY <4>1, <4>2
    <3>2. CASE p \notin S
      <4>1. PICK d \in Calls : call[d].at \in Working /\ call[d].batch = points[p].batch
        BY <1>7, <2>1, <3>2 DEF TInv, StillWorking
      <4>2. d # c
        BY <4>1 DEF Working
      <4> QED
        BY <1>9, <4>1, <4>2
    <3> QED
      BY <3>1, <3>2
  <2> QED
    BY <1>9, <1>10, <2>1 DEF StillWorking
<1>17. OnceUnlessRaced'
  <2>1. ASSUME NEW p \in Captured, points[p].batch \notin raced PROVE StoredOnce(p)'
    <3>1. StoredOnce(p)
      BY <2>1 DEF TInv, OnceUnlessRaced
    <3>2. p \in S => ~Stored(p)
      BY <1>3, <1>11, <2>1 DEF PointsOf
    <3> QED
      BY <1>7, <3>1, <3>2
  <2> QED
    BY <1>9, <1>10, <2>1 DEF OnceUnlessRaced
<1> QED
  BY <1>9, <1>12, <1>13, <1>14, <1>15, <1>16, <1>17 DEF TInv

\* A call that is answered at the gate.
LEMMA AnsweredKeeps ==
    ASSUME TInv, NEW c \in Calls, call[c].at = "asked", NEW at \in {"accepted", "outside"},
           at = "accepted" => call[c].batch \in remembered, ServerMoves(c, at),
           OnlyCall, UNCHANGED <<track, remembered, inside, presence, arrivals, raced, trouble>>
    PROVE  TInv'
<1>1. at \in CallStates /\ at # "free" /\ at \notin Working /\ call[c].at \notin Working /\ Busy(c)
  BY DEF CallStates, Working, Busy
<1>2. PICK r \in CallRow(batches, Captured) :
             /\ r.at = at /\ r.batch = call[c].batch /\ r.points = call[c].points
             /\ r.heard = call[c].heard
             /\ call' = [call EXCEPT ![c] = r]
  BY <1>1, MovesIs
<1>3. \A p : (Stored(p)' <=> Stored(p)) /\ (StoredOnce(p)' <=> StoredOnce(p))
  BY DEF Stored, StoredOnce
<1>4. /\ ShiftTypes' /\ PhoneTypes' /\ ServerTypes' /\ Linked' /\ KeptSomewhere'
      /\ CallsOfBatches' /\ OneCallEach'
      /\ Captured' = Captured /\ call'[c] = r
      /\ \A d \in Calls : d # c => call'[d] = call[d]
      /\ \A d \in Calls : /\ call'[d].batch = call[d].batch
                          /\ call'[d].points = call[d].points
                          /\ Busy(d)' <=> Busy(d)
  <2>1. /\ track' \in Seq(Captured) /\ remembered' \subseteq 1..batches
        /\ raced' \subseteq 1..batches /\ raced \subseteq raced' /\ trouble' \in 0..MaxTrouble
        /\ inside' \in BOOLEAN /\ presence' \in 0..Len(points) /\ arrivals' \in Nat
    BY DEF TInv, ServerTypes, ShiftTypes
  <2>2. \A p : Stored(p) => Stored(p)'
    BY <1>3
  <2> QED
    BY <1>1, <1>2, <2>1, <2>2, CallMoves
<1>5. points' = points
  BY DEF OnlyCall, phoneVars
<1>6. AnsweredIsRemembered' /\ TakenIsStored'
  BY <1>1, <1>2, <1>3, <1>4 DEF TInv, AnsweredIsRemembered, TakenIsStored
<1>7. RememberedIsStored' /\ StoredIsSealed' /\ OnceUnlessRaced'
  BY <1>3, <1>4, <1>5 DEF TInv, RememberedIsStored, StoredIsSealed, OnceUnlessRaced
<1>8. StillWorking'
  <2>1. \A d \in Calls : call[d].at \in Working => call'[d] = call[d]
    BY <1>1, <1>4
  <2> QED
    BY <1>3, <1>4, <1>5, <2>1 DEF TInv, StillWorking
<1> QED
  BY <1>4, <1>6, <1>7, <1>8 DEF TInv

LEMMA GateKeeps ==
    ASSUME TInv, NEW c \in Calls, Gate(c)
    PROVE  TInv'
<1>1. /\ call[c].at = "asked" /\ OnlyCall
      /\ UNCHANGED <<remembered, inside, presence, arrivals, raced, trouble>>
      /\ \/ /\ ServerMoves(c, "accepted") /\ call[c].batch \in remembered
            /\ track' = track
         \/ /\ ServerMoves(c, "outside") /\ track' = track
         \/ Takes(c)
  BY GateIs
<1>2. CASE Takes(c)
  BY <1>1, <1>2, TakesKeeps
<1>3. CASE ServerMoves(c, "accepted") /\ call[c].batch \in remembered /\ track' = track
  BY <1>1, <1>3, AnsweredKeeps
<1>4. CASE ServerMoves(c, "outside") /\ track' = track
  BY <1>1, <1>4, AnsweredKeeps
<1> QED
  BY <1>1, <1>2, <1>3, <1>4

\* Every step keeps the invariant.
LEMMA TInvKept ==
    ASSUME TInv, [TelemetryNext]_telemetryVars
    PROVE  TInv'
<1>1. CASE UNCHANGED telemetryVars
  <2>1. ShiftTypes' /\ UNCHANGED <<points, queued, up, batches, serverVars, refused>>
    BY <1>1 DEF TInv, ShiftTypes, telemetryVars, shiftVars, phoneVars, NoRefresh
  <2> QED
    BY <2>1, ShiftKeeps
<1>2. CASE \/ \E phoneToo \in BOOLEAN : StartShift(phoneToo) \/ EndShift(phoneToo)
           \/ RefreshShift \/ Reconcile
  BY <1>2, ShiftsKeep
<1>3. CASE \E near \in BOOLEAN : Capture(near)
  BY <1>3, CaptureKeeps
<1>4. ASSUME NEW u \in Runtimes, Upload(u) PROVE TInv'
  <2>1. PICK c \in Calls, b \in Nat, sent \in SUBSET Captured : UploadAs(u, c, b, sent)
    BY <1>4, UploadSends DEF TInv
  <2> QED
    BY <2>1, UploadKeeps
<1>5. ASSUME NEW u \in Runtimes, Heard(u) \/ StopTracking(u) \/ GiveUp(u) PROVE TInv'
  BY <1>5, HeardKeeps, StopTrackingKeeps, GiveUpKeeps
<1>6. ASSUME NEW c \in Calls, IngestStep(c) \/ Fail(c) PROVE TInv'
  BY <1>6, GateKeeps, PresentKeeps, PersistInsideKeeps, PublishArrivalsKeeps, RememberKeeps,
     UnheardKeeps, FailKeeps DEF IngestStep
<1> QED
  BY <1>1, <1>2, <1>3, <1>4, <1>5, <1>6 DEF TelemetryNext

LEMMA TInvHolds == TelemetrySafety => []TInv
<1>1. TelemetryInit => TInv
  BY TInvStarts
<1>2. TInv /\ [TelemetryNext]_telemetryVars => TInv'
  BY TInvKept
<1> QED
  BY <1>1, <1>2, PTL DEF TelemetrySafety

\* Points, uploads and calls have their types.
THEOREM TelemetryTypes == TelemetrySafety => []TelemetryTypeOK
<1>1. TInv => TelemetryTypeOK
  BY TypesAre DEF TInv
<1> QED
  BY <1>1, TInvHolds, PTL

\* How often a point is stored, counted.
LEMMA TimesIs ==
    ASSUME ServerTypes, NEW p
    PROVE  /\ Times(p) \in Nat
           /\ Times(p) > 0 <=> Stored(p)
           /\ StoredOnce(p) => Times(p) <= 1
<1> DEFINE At == {i \in DOMAIN track : track[i] = p}
<1>1. Len(track) \in Nat /\ DOMAIN track = 1..Len(track)
  BY DEF ServerTypes
<1>2. IsFiniteSet(At)
  <2>1. IsFiniteSet(DOMAIN track)
    BY <1>1, FS_Interval
  <2> QED
    BY <2>1, FS_Subset
<1>3. Times(p) = Cardinality(At) /\ (Stored(p) <=> At # {})
  BY DEF Times, Stored
<1>4. StoredOnce(p) => \A i, j \in At : i = j
  BY DEF StoredOnce
<1> HIDE DEF At
<1>5. Cardinality(At) \in Nat /\ (Cardinality(At) = 0 <=> At = {})
  BY <1>2, FS_CardinalityType, FS_EmptySet
<1>6. ASSUME StoredOnce(p), At # {} PROVE Cardinality(At) = 1
  <2>1. PICK i \in At : TRUE
    BY <1>6
  <2>2. At = {i}
    BY <1>4, <1>6, <2>1
  <2> QED
    BY <2>2, FS_Singleton
<1> QED
  BY <1>3, <1>5, <1>6

\* telemetry.ts, "loses nothing already captured": a point is on the phone, or it
\* was stored, or the server said that no shift is open for it.
THEOREM NothingCapturedIsLost == TelemetrySafety => []NoPointIsLost
<1>1. TInv => NoPointIsLost
  BY TimesIs DEF TInv, KeptSomewhere, NoPointIsLost
<1> QED
  BY <1>1, TInvHolds, PTL

\* The batch id and the replay guard store a point once as long as no two calls
\* were at work on its batch and none gave up on it.
THEOREM TwiceOnlyIfRaced == TelemetrySafety => []TakenTwiceOnlyIfRaced
<1>1. TInv => TakenTwiceOnlyIfRaced
  <2> SUFFICES ASSUME TInv, NEW p \in Captured, Times(p) > 1, points[p].batch \notin raced
               PROVE  FALSE
    BY DEF TakenTwiceOnlyIfRaced
  <2>1. StoredOnce(p)
    BY DEF TInv, OnceUnlessRaced
  <2>2. Times(p) \in Nat /\ Times(p) <= 1
    BY <2>1, TimesIs DEF TInv
  <2> QED
    BY <2>2
<1> QED
  BY <1>1, TInvHolds, PTL

QueueInv == WholeBatches /\ OneSealed /\ InHand

\* A step that seals nothing, takes no point out of the queue and starts no call.
LEMMA QueueStays ==
    ASSUME QueueInv, UNCHANGED <<points, queued>>, raced \subseteq raced',
           raced' = {} => \A c \in Calls :
               /\ call'[c].at # "failed"
               /\ call'[c].at # "free" => Busy(c) /\ call'[c].points = call[c].points
    PROVE  QueueInv'
<1>1. WholeBatches' /\ OneSealed'
  BY DEF QueueInv, WholeBatches, OneSealed, Captured
<1>2. InHand'
  <2>1. ASSUME raced' = {}, NEW c \in Calls
        PROVE  /\ call'[c].at # "failed"
               /\ call'[c].at # "free" => call'[c].points \subseteq queued'
    <3>1. raced = {}
      BY <2>1
    <3> QED
      BY <2>1, <3>1 DEF QueueInv, InHand, Busy
  <2> QED
    BY <2>1 DEF InHand, Busy
<1> QED
  BY <1>1, <1>2 DEF QueueInv

\* As long as none was raced, there is one call.
LEMMA OneAtOnce ==
    ASSUME TInv, QueueInv, raced = {}, NEW c \in Calls, NEW d \in Calls, Busy(c), Busy(d)
    PROVE  c = d
<1>1. /\ call[c].batch # 0 /\ call[c].points # {} /\ call[c].points = PointsOf(call[c].batch)
      /\ call[d].batch # 0 /\ call[d].points # {} /\ call[d].points = PointsOf(call[d].batch)
  BY DEF TInv, CallsOfBatches
<1>2. call[c].points \subseteq queued /\ call[d].points \subseteq queued
  BY DEF QueueInv, InHand
<1>3. PICK p \in queued, q \in queued : points[p].batch = call[c].batch /\ points[q].batch = call[d].batch
  BY <1>1, <1>2 DEF PointsOf
<1>4. call[c].batch = call[d].batch
  BY <1>1, <1>3 DEF QueueInv, OneSealed
<1> QED
  BY <1>4 DEF TInv, OneCallEach

LEMMA QueueCaptures ==
    ASSUME TInv, QueueInv, NEW near \in BOOLEAN, Capture(near)
    PROVE  QueueInv'
<1>1. PICK n \in Nat :
        /\ n \notin Captured /\ Captured' = Captured \cup {n}
        /\ \A p \in Captured : points'[p] = points[p]
        /\ points'[n].batch = 0
        /\ queued' = queued \cup {n}
        /\ call' = call /\ raced' = raced
  BY CaptureIs DEF serverVars
<1>2. queued \subseteq Captured
  BY DEF TInv, PhoneTypes
<1>3. WholeBatches'
  BY <1>1, <1>2 DEF QueueInv, WholeBatches
<1>4. OneSealed'
  BY <1>1, <1>2 DEF QueueInv, OneSealed
<1>5. InHand'
  BY <1>1 DEF QueueInv, InHand, Busy
<1> QED
  BY <1>3, <1>4, <1>5 DEF QueueInv

LEMMA QueueUploads ==
    ASSUME TInv, QueueInv, NEW u \in Runtimes, NEW c \in Calls, NEW b \in Nat,
           NEW sent \in SUBSET Captured, UploadAs(u, c, b, sent)
    PROVE  QueueInv'
<1>1. /\ Captured' = Captured /\ queued' = queued /\ raced \subseteq raced'
      /\ \A p \in Captured :
            \/ points'[p].batch = points[p].batch
            \/ points'[p].batch = b /\ points[p].batch = 0 /\ ~Again
      /\ \A p \in Captured : points'[p].batch = b <=> p \in sent
      /\ \A d \in Calls : d # c => call'[d] = call[d]
      /\ call'[c].at = "asked" /\ call'[c].points = sent
  <2>1. /\ Captured' = Captured
        /\ \A p \in Captured :
            \/ points'[p].batch = points[p].batch
            \/ points'[p].batch = b /\ points[p].batch = 0 /\ ~Again
        /\ {p \in Captured' : points'[p].batch = b} = sent
        /\ \A d \in Calls : d # c => call'[d] = call[d]
        /\ call'[c].at = "asked" /\ call'[c].points = sent
    <3>1. SealsPoints(b, sent) /\ Calling(u, c, b, sent)
      BY UploadIs
    <3> QED
      BY <3>1 DEF SealsPoints, Calling
  <2>2. queued' = queued /\ raced \subseteq raced'
    BY DEF UploadAs
  <2>3. \A p \in Captured : points'[p].batch = b <=> p \in {q \in Captured' : points'[q].batch = b}
    BY <2>1
  <2> QED
    BY <2>1, <2>2, <2>3
<1>2. \/ Again /\ \E p \in queued : points[p].batch = b /\ b # 0 /\ sent = PointsOf(b)
      \/ ~Again /\ sent \subseteq queued /\ \A p \in queued : points[p].batch = 0
  BY DEF UploadAs
<1>3. queued \subseteq Captured
  BY DEF TInv, PhoneTypes
<1>4. sent \subseteq queued
  <2>1. CASE Again
    <3>1. PICK p \in queued : points[p].batch = b /\ b # 0 /\ sent = PointsOf(b)
      BY <1>2, <2>1
    <3>2. ASSUME NEW q \in sent PROVE q \in queued
      BY <1>3, <3>1 DEF PointsOf, QueueInv, WholeBatches
    <3> QED
      BY <3>2
  <2> QED
    BY <1>2, <2>1
<1>5. ASSUME NEW p \in Captured, NEW q \in Captured, points'[p].batch # 0,
             points'[p].batch = points'[q].batch, p \in queued
      PROVE  q \in queued
  <2>1. CASE points'[q].batch = b
    BY <1>1, <1>4, <2>1
  <2>2. CASE points'[q].batch # b
    BY <1>1, <1>5, <2>2 DEF QueueInv, WholeBatches
  <2> QED
    BY <2>1, <2>2
<1>6. WholeBatches'
  BY <1>1, <1>5 DEF WholeBatches
<1>7. OneSealed'
  <2>1. CASE Again
    BY <1>1, <1>3, <2>1 DEF QueueInv, OneSealed
  <2>2. CASE ~Again
    BY <1>1, <1>2, <1>3, <2>2 DEF OneSealed
  <2> QED
    BY <2>1, <2>2
<1>8. InHand'
  <2>1. ASSUME raced' = {}, NEW d \in Calls
        PROVE  /\ call'[d].at # "free" => call'[d].points \subseteq queued
               /\ call'[d].at # "failed"
    <3>1. CASE d = c
      BY <1>1, <1>4, <3>1
    <3>2. CASE d # c
      BY <1>1, <2>1, <3>2 DEF QueueInv, InHand, Busy
    <3> QED
      BY <3>1, <3>2
  <2> QED
    BY <1>1, <2>1 DEF InHand, Busy
<1> QED
  BY <1>6, <1>7, <1>8 DEF QueueInv

LEMMA QueueHears ==
    ASSUME TInv, QueueInv, NEW u \in Runtimes, Heard(u)
    PROVE  QueueInv'
<1> DEFINE c == up[u].call
           b == up[u].batch
<1>1. /\ up[u].at = "calling"
      /\ queued' = IF call[c].at = "failed" THEN queued ELSE queued \ PointsOf(b)
      /\ call' = [call EXCEPT ![c] = NoCall]
      /\ points' = points /\ raced' = raced
  BY DEF Heard
<1>2. c \in Calls /\ Busy(c) /\ call[c].batch = b /\ Captured' = Captured
  BY <1>1 DEF TInv, Linked, Captured
<1> HIDE DEF c, b
<1>3. queued' = queued \/ queued' = queued \ PointsOf(b)
  BY <1>1
<1>4. call'[c] = NoCall /\ \A d \in Calls : d # c => call'[d] = call[d]
  BY <1>1, <1>2 DEF TInv, ServerTypes
<1>5. WholeBatches'
  <2>1. CASE queued' = queued
    BY <1>1, <1>2, <2>1 DEF QueueInv, WholeBatches
  <2>2. CASE queued' = queued \ PointsOf(b)
    BY <1>1, <1>2, <2>2 DEF QueueInv, WholeBatches, PointsOf
  <2> QED
    BY <1>3, <2>1, <2>2
<1>6. OneSealed'
  BY <1>1, <1>3 DEF QueueInv, OneSealed
<1>7. InHand'
  <2>1. ASSUME raced = {}, NEW d \in Calls, d # c, Busy(d)
        PROVE  call[d].points \subseteq queued'
    <3>1. call[d].batch # b
      BY <1>2, <2>1 DEF TInv, OneCallEach
    <3>2. call[d].points = PointsOf(call[d].batch) /\ call[d].points \subseteq queued
      BY <2>1 DEF TInv, CallsOfBatches, QueueInv, InHand
    <3> QED
      BY <1>3, <3>1, <3>2 DEF PointsOf
  <2>2. ASSUME raced' = {}, NEW d \in Calls
        PROVE  /\ call'[d].at # "free" => call'[d].points \subseteq queued'
               /\ call'[d].at # "failed"
    <3>1. CASE d = c
      BY <1>4, <3>1 DEF NoCall
    <3>2. CASE d # c
      BY <1>1, <1>4, <2>1, <2>2, <3>2 DEF QueueInv, InHand, Busy
    <3> QED
      BY <3>1, <3>2
  <2> QED
    BY <2>2 DEF InHand, Busy
<1> QED
  BY <1>5, <1>6, <1>7 DEF QueueInv

LEMMA QueueKept ==
    ASSUME TInv, QueueInv, [TelemetryNext]_telemetryVars
    PROVE  QueueInv'
<1>1. CASE UNCHANGED <<points, queued, call, raced>>
  BY <1>1, QueueStays DEF QueueInv, InHand, Busy
<1>2. CASE UNCHANGED telemetryVars
  BY <1>1, <1>2 DEF telemetryVars, phoneVars, serverVars
<1>3. CASE \/ \E phoneToo \in BOOLEAN : StartShift(phoneToo) \/ EndShift(phoneToo)
           \/ RefreshShift \/ Reconcile
  BY <1>1, <1>3, ShiftsKeep DEF serverVars
<1>4. CASE \E near \in BOOLEAN : Capture(near)
  BY <1>4, QueueCaptures
<1>5. ASSUME NEW u \in Runtimes, Upload(u) PROVE QueueInv'
  <2>1. PICK c \in Calls, b \in Nat, sent \in SUBSET Captured : UploadAs(u, c, b, sent)
    BY <1>5, UploadSends DEF TInv
  <2> QED
    BY <2>1, QueueUploads
<1>6. ASSUME NEW u \in Runtimes, Heard(u) PROVE QueueInv'
  BY <1>6, QueueHears
<1>7. ASSUME NEW u \in Runtimes, StopTracking(u) PROVE QueueInv'
  BY <1>1, <1>7, StopTrackingKeeps
<1>8. ASSUME NEW u \in Runtimes, GiveUp(u) PROVE QueueInv'
  <2>1. /\ \A c \in Calls : call'[c] = [call[c] EXCEPT !.heard = call'[c].heard]
        /\ UNCHANGED <<points, queued, raced>>
    BY <1>8, GiveUpKeeps
  <2>2. \A c \in Calls : call'[c].at = call[c].at /\ call'[c].points = call[c].points
    <3>1. \A c \in Calls : call[c] \in CallRow(batches, Captured)
      BY DEF TInv, ServerTypes
    <3> QED
      BY <2>1, <3>1 DEF CallRow
  <2>3. raced' = {} => \A c \in Calls :
               /\ call'[c].at # "failed"
               /\ call'[c].at # "free" => Busy(c) /\ call'[c].points = call[c].points
    BY <2>1, <2>2 DEF QueueInv, InHand, Busy
  <2> QED
    BY <2>1, <2>3, QueueStays
<1>9. ASSUME NEW c \in Calls, IngestStep(c) \/ Fail(c) PROVE QueueInv'
  <2>1. UNCHANGED <<points, queued>> /\ raced \subseteq raced'
    BY <1>9 DEF IngestStep, Fail, Gate, Present, PersistInside, PublishArrivals, Remember, Unheard,
                OnlyCall, phoneVars
  <2>2. CASE Fail(c)
    <3>1. raced' # {}
      BY <2>2 DEF Fail
    <3> QED
      BY <2>1, <3>1, QueueStays
  <2>3. ASSUME NEW r, call' = [call EXCEPT ![c] = r], r.at # "failed",
               r.at # "free" => Busy(c) /\ r.points = call[c].points
        PROVE  QueueInv'
    <3>1. call'[c] = r /\ \A d \in Calls : d # c => call'[d] = call[d]
      BY <2>3 DEF TInv, ServerTypes
    <3>2. raced' = {} => \A d \in Calls :
               /\ call'[d].at # "failed"
               /\ call'[d].at # "free" => Busy(d) /\ call'[d].points = call[d].points
      BY <2>1, <2>3, <3>1 DEF QueueInv, InHand, Busy
    <3> QED
      BY <2>1, <3>2, QueueStays
  <2>4. CASE Unheard(c)
    <3>1. NoCall.at = "free"
      BY DEF NoCall
    <3>2. call' = [call EXCEPT ![c] = NoCall]
      BY <2>4 DEF Unheard
    <3> QED
      BY <2>3, <3>1, <3>2
  <2>5. CASE Present(c)
    <3>1. PICK r : /\ r.at = "persist" /\ r.points = call[c].points
                   /\ call' = [call EXCEPT ![c] = r]
      BY <2>5, PresentIs
    <3>2. Busy(c)
      BY <2>5 DEF Present, Busy
    <3> QED
      BY <2>3, <3>1, <3>2
  <2>6. ASSUME NEW at \in CallStates, ServerMoves(c, at), at # "failed", Busy(c)
        PROVE  QueueInv'
    <3>1. PICK r : r.at = at /\ r.points = call[c].points /\ call' = [call EXCEPT ![c] = r]
      BY <2>6, MovesIs
    <3> QED
      BY <2>3, <2>6, <3>1
  <2>7. CASE Gate(c)
    <3>1. /\ Busy(c)
          /\ ServerMoves(c, "accepted") \/ ServerMoves(c, "outside") \/ ServerMoves(c, "taken")
      BY <2>7, GateIs DEF Takes, Busy
    <3> QED
      BY <2>6, <3>1 DEF CallStates
  <2>8. CASE PersistInside(c)
    BY <2>6, <2>8 DEF PersistInside, Busy, CallStates
  <2>9. CASE PublishArrivals(c)
    BY <2>6, <2>9 DEF PublishArrivals, Busy, CallStates
  <2>10. CASE Remember(c)
    BY <2>6, <2>10 DEF Remember, Busy, CallStates
  <2> QED
    BY <1>9, <2>2, <2>4, <2>5, <2>7, <2>8, <2>9, <2>10 DEF IngestStep
<1> QED
  BY <1>2, <1>3, <1>4, <1>5, <1>6, <1>7, <1>8, <1>9 DEF TelemetryNext

\* The points that are there stay near or far, so what a track says stays.
LEMMA SettledStays ==
    ASSUME NEW P, NEW seq \in Seq(P), \A p \in P : points'[p].near = points[p].near,
           NEW a, NEW i, NEW q, Settled(seq, a, i, q)
    PROVE  Settled(seq, a, i, q)'
<1>1. /\ DOMAIN seq = 1..Len(seq) /\ Len(seq) \in Nat
      /\ \A j \in DOMAIN seq : seq[j] \in P
  OBVIOUS
<1>2. \A j \in DOMAIN seq : points'[seq[j]].near = points[seq[j]].near
  BY <1>1
<1>3. \A j \in DOMAIN seq : j = 1 \/ j - 1 \in DOMAIN seq
  BY <1>1
<1>4. {j \in DOMAIN seq : points'[seq[j]].near /\ (j = 1 \/ ~points'[seq[j - 1]].near)} = Enters(seq)
  BY <1>2, <1>3 DEF Enters
<1>5. Enters(seq)' = Enters(seq)
  BY <1>4 DEF Enters
<1>6. seq # <<>> => Len(seq) \in DOMAIN seq
  BY <1>1
<1>7. LeftAt(seq, i)'
  BY <1>2, <1>6 DEF Settled, LeftAt
<1> QED
  BY <1>5, <1>7 DEF Settled

\* A step at which no call takes, presents, persists or publishes.
LEMMA FollowStays ==
    ASSUME TInv, Follow, raced \subseteq raced', UNCHANGED <<track, inside, presence, arrivals>>,
           Captured \subseteq Captured',
           \A p \in Captured : points'[p].near = points[p].near,
           \A c \in Calls :
               \/ ~Behind(c) /\ call'[c].at \notin {"taken", "persist", "publish"}
               \/ /\ call'[c].at = call[c].at /\ call'[c].points = call[c].points
                  /\ call'[c].near = call[c].near /\ call'[c].entries = call[c].entries
    PROVE  Follow'
<1>1. PICK P, t, a, i, q : P = Captured /\ t = track /\ a = arrivals /\ i = inside /\ q = presence
  OBVIOUS
<1>2. t \in Seq(P) /\ track' = t /\ arrivals' = a /\ inside' = i /\ presence' = q
  BY <1>1 DEF TInv, ServerTypes
<1>3. ASSUME NEW seq \in Seq(P), NEW a1, NEW i1, NEW q1, Settled(seq, a1, i1, q1)
      PROVE  Settled(seq, a1, i1, q1)'
  BY <1>1, <1>3, SettledStays
<1> SUFFICES ASSUME raced' = {} PROVE (AtRest /\ AtTaken /\ AtPersist /\ AtPublish)'
  BY DEF Follow
<1>4. AtRest /\ AtTaken /\ AtPersist /\ AtPublish
  BY DEF Follow
<1>5. ASSUME NEW c \in Calls
      PROVE  /\ call'[c].at \in {"taken", "persist", "publish"} <=> Behind(c)
             /\ Behind(c) =>
                  /\ call'[c].at = call[c].at /\ call'[c].points = call[c].points
                  /\ call'[c].near = call[c].near /\ call'[c].entries = call[c].entries
  BY DEF Behind
<1>6. AtRest'
  <2>1. ASSUME \A c \in Calls : ~Behind(c) PROVE Settled(t, a, i, q)'
    <3>1. Settled(t, a, i, q)
      BY <1>1, <1>4, <2>1 DEF AtRest
    <3> QED
      BY <1>2, <1>3, <3>1
  <2> QED
    BY <1>2, <1>5, <2>1 DEF AtRest, Behind
<1>7. AtTaken'
  <2>1. ASSUME NEW c \in Calls, call'[c].at = "taken"
        PROVE  \E prev \in Seq(Captured') :
                  /\ t = prev \o InOrderOf(call'[c].points)
                  /\ Settled(prev, a, i, q)'
    <3>1. call[c].at = "taken" /\ call'[c].points = call[c].points
      BY <1>5, <2>1
    <3>2. PICK prev \in Seq(P) : t = prev \o InOrderOf(call[c].points) /\ Settled(prev, a, i, q)
      BY <1>1, <1>4, <3>1 DEF AtTaken
    <3>3. prev \in Seq(Captured')
      <4>1. PICK P2 : P2 = Captured'
        OBVIOUS
      <4>2. P \subseteq P2
        BY <1>1, <4>1
      <4>3. Len(prev) \in Nat /\ prev \in [1..Len(prev) -> P2]
        BY <4>2
      <4> QED
        BY <4>1, <4>3
    <3>4. Settled(prev, a, i, q)'
      BY <1>3, <3>2
    <3> QED
      BY <3>1, <3>2, <3>3, <3>4
  <2> QED
    BY <1>2, <2>1 DEF AtTaken
<1>8. AtPersist'
  <2>1. ASSUME NEW c \in Calls, call'[c].at = "persist"
        PROVE  \E s, r : /\ s = a + call'[c].entries
                         /\ r = IF call'[c].near = Nothing THEN i ELSE call'[c].near
                         /\ Settled(t, s, r, q)'
    <3>1. PICK s, r : /\ s = a + call[c].entries
                      /\ r = IF call[c].near = Nothing THEN i ELSE call[c].near
      OBVIOUS
    <3>2. call[c].at = "persist" /\ call'[c].near = call[c].near /\ call'[c].entries = call[c].entries
      BY <1>5, <2>1
    <3>3. Settled(t, s, r, q)
      BY <1>1, <1>4, <3>1, <3>2 DEF AtPersist
    <3>4. Settled(t, s, r, q)'
      BY <1>2, <1>3, <3>3
    <3> QED
      BY <3>1, <3>2, <3>4
  <2> QED
    BY <1>2, <2>1 DEF AtPersist
<1>9. AtPublish'
  <2>1. ASSUME NEW c \in Calls, call'[c].at = "publish"
        PROVE  \E s : s = a + call'[c].entries /\ Settled(t, s, i, q)'
    <3>1. PICK s : s = a + call[c].entries
      OBVIOUS
    <3>2. call[c].at = "publish" /\ call'[c].entries = call[c].entries
      BY <1>5, <2>1
    <3>3. Settled(t, s, i, q)
      BY <1>1, <1>4, <3>1, <3>2 DEF AtPublish
    <3>4. Settled(t, s, i, q)'
      BY <1>2, <1>3, <3>3
    <3> QED
      BY <3>1, <3>2, <3>4
  <2> QED
    BY <1>2, <2>1 DEF AtPublish
<1> QED
  BY <1>6, <1>7, <1>8, <1>9

\* What holds of the one call that is there when none was raced.
LEMMA Alone ==
    ASSUME TInv, QueueInv, Follow, NEW c \in Calls, Busy(c), raced = {}
    PROVE  /\ \A d \in Calls : d # c => call[d].at = "free"
           /\ AtRest /\ AtTaken /\ AtPersist /\ AtPublish
  BY OneAtOnce DEF Follow, Busy

LEMMA TakesFollows ==
    ASSUME TInv, QueueInv, Follow, NEW c \in Calls, call[c].at = "asked", Takes(c), OnlyCall,
           UNCHANGED <<remembered, inside, presence, arrivals, raced, trouble>>
    PROVE  Follow'
<1> SUFFICES ASSUME raced = {} PROVE (AtRest /\ AtTaken /\ AtPersist /\ AtPublish)'
  BY DEF Follow
<1>1. PICK r : /\ r.at = "taken" /\ r.points = call[c].points
               /\ call' = [call EXCEPT ![c] = r]
  <2>1. "taken" \in CallStates
    BY DEF CallStates
  <2> QED
    BY <2>1, MovesIs DEF Takes
<1>2. call'[c] = r /\ \A d \in Calls : d # c => call'[d] = call[d]
  BY <1>1 DEF TInv, ServerTypes
<1>3. Busy(c)
  BY DEF Busy
<1>4. /\ \A d \in Calls : d # c => call[d].at = "free"
      /\ AtRest
  BY <1>3, Alone
<1>5. \A d \in Calls : d # c => call'[d].at = "free"
  BY <1>2, <1>4
<1>6. Settled(track, arrivals, inside, presence)
  BY <1>4 DEF AtRest, Behind
<1>7. Captured' = Captured /\ points' = points
  BY DEF OnlyCall, phoneVars, Captured
<1>8. AtRest'
  BY <1>1, <1>2 DEF AtRest, Behind
<1>9. AtTaken'
  <2>1. PICK P, t, a, i, q : P = Captured /\ t = track /\ a = arrivals /\ i = inside /\ q = presence
    OBVIOUS
  <2>2. /\ t \in Seq(P) /\ Captured' = P /\ arrivals' = a /\ inside' = i /\ presence' = q
        /\ track' = t \o InOrderOf(call[c].points) /\ call'[c].points = call[c].points
    BY <1>1, <1>2, <1>7, <2>1 DEF TInv, ServerTypes, Takes
  <2>3. Settled(t, a, i, q)'
    <3>1. Settled(t, a, i, q)
      BY <1>6, <2>1
    <3> QED
      BY <1>7, <2>1, <2>2, <3>1, SettledStays
  <2>4. ASSUME NEW d \in Calls, call'[d].at = "taken"
        PROVE  \E prev \in Seq(P) : /\ track' = prev \o InOrderOf(call'[d].points)
                                    /\ Settled(prev, a, i, q)'
    <3>1. d = c
      BY <1>5, <2>4
    <3> QED
      BY <2>2, <2>3, <3>1
  <2> QED
    BY <2>2, <2>4 DEF AtTaken
<1>10. AtPersist' /\ AtPublish'
  BY <1>1, <1>2, <1>5 DEF AtPersist, AtPublish
<1> QED
  BY <1>8, <1>9, <1>10

\* The last of the points put in order is the newest.
LEMMA LastIsMax ==
    ASSUME NEW S, FinInts(S), NEW n, n = Cardinality(S), NEW s, s = InOrderOf(S)
    PROVE  /\ n \in Nat /\ s \in Seq(S) /\ Len(s) = n
           /\ S # {} => n # 0 /\ s[n] = Max(S)
<1>1. /\ n \in Nat /\ (n = 0 <=> S = {})
      /\ s \in Seq(S) /\ Len(s) = n
      /\ \A i, j \in 1..n : i < j => s[i] < s[j]
      /\ \A i, j \in 1..n : s[i] = s[j] => i = j
      /\ \A p \in S : \E i \in 1..n : s[i] = p
  <2>1. ListsInOrder(s, S, n)
    BY InOrderIs
  <2> QED
    BY <2>1 DEF ListsInOrder
<1> SUFFICES ASSUME S # {} PROVE n # 0 /\ s[n] = Max(S)
  BY <1>1
<1>2. Max(S) \in S /\ \A y \in S : Max(S) >= y
  BY MaxIs DEF FinInts
<1>3. PICK m : m = Max(S)
  OBVIOUS
<1>4. n \in 1..n /\ s[n] \in S
  BY <1>1
<1>5. PICK i \in 1..n : s[i] = m
  BY <1>1, <1>2, <1>3
<1>6. i = n \/ i < n
  BY <1>1
<1>7. CASE i < n
  <2>1. s[i] < s[n]
    BY <1>1, <1>4, <1>7
  <2>2. m >= s[n] /\ m \in Int /\ s[n] \in Int
    BY <1>2, <1>3, <1>4 DEF FinInts
  <2> QED
    BY <1>5, <2>1, <2>2
<1> QED
  BY <1>1, <1>3, <1>5, <1>6, <1>7

LEMMA LastIsNewest ==
    ASSUME NEW P, NEW prev, prev \in Seq(P), NEW S, FinInts(S), S # {}
    PROVE  LET t == prev \o InOrderOf(S)
           IN t # <<>> /\ t[Len(t)] = Max(S)
<1>1. PICK s, n, m : s = InOrderOf(S) /\ n = Cardinality(S) /\ m = Max(S)
  OBVIOUS
<1>2. n \in Nat \ {0} /\ s \in Seq(S) /\ Len(s) = n /\ s[n] = m
  <2>1. /\ n \in Nat /\ s \in Seq(S) /\ Len(s) = n
        /\ S # {} => n # 0 /\ s[n] = Max(S)
    BY <1>1, LastIsMax
  <2> QED
    BY <1>1, <2>1
<1>3. PICK k \in Nat : k = Len(prev)
  OBVIOUS
<1>4. Len(prev \o s) = k + n
  BY <1>2, <1>3
<1>5. \A i \in 1..(k + n) : (prev \o s)[i] = IF i <= k THEN prev[i] ELSE s[i - k]
  BY <1>2, <1>3
<1>6. PICK last : last = k + n
  OBVIOUS
<1>7. last \in 1..(k + n) /\ ~(last <= k) /\ last - k = n
  BY <1>2, <1>6
<1>8. (prev \o s)[last] = s[n]
  BY <1>5, <1>7
<1>9. prev \o s # <<>>
  <2>1. k + n # 0
    BY <1>2
  <2> QED
    BY <1>4, <2>1
<1> QED
  BY <1>1, <1>2, <1>4, <1>6, <1>8, <1>9

LEMMA PresentFollows ==
    ASSUME TInv, QueueInv, Follow, NEW c \in Calls, Present(c)
    PROVE  Follow'
<1>1. /\ call[c].at = "taken" /\ presence' = Max(call[c].points)
      /\ UNCHANGED <<track, remembered, inside, arrivals, raced, trouble>>
      /\ OnlyCall
  BY DEF Present
<1> SUFFICES ASSUME raced = {} PROVE (AtRest /\ AtTaken /\ AtPersist /\ AtPublish)'
  BY <1>1 DEF Follow
<1>2. PICK S : S = call[c].points
  OBVIOUS
<1>3. PICK r : /\ r.at = "persist"
               /\ r.near = AfterTrack(S, inside)
               /\ r.entries = Cardinality({p \in Changes(S, inside) : points[p].near})
               /\ call' = [call EXCEPT ![c] = r]
  BY <1>2, PresentIs
<1>4. call'[c] = r /\ \A d \in Calls : d # c => call'[d] = call[d]
  BY <1>3 DEF TInv, ServerTypes
<1>5. /\ \A d \in Calls : d # c => call'[d].at = "free"
      /\ AtTaken
  BY <1>1, <1>4, Alone DEF Busy
<1>6. AtRest' /\ AtTaken' /\ AtPublish'
  BY <1>3, <1>4, <1>5 DEF AtRest, AtTaken, AtPublish, Behind
<1>7. PICK prev \in Seq(Captured) :
        /\ track = prev \o InOrderOf(S)
        /\ Settled(prev, arrivals, inside, presence)
  BY <1>1, <1>2, <1>5 DEF AtTaken
<1>8. /\ S \subseteq Captured /\ FinInts(S) /\ S # {}
      /\ \A p \in Captured : points[p].near \in BOOLEAN
      /\ \A p \in Captured : p \in Int
  <2>1. /\ Captured = 1..Len(points) /\ Len(points) \in Nat /\ S \subseteq Captured
        /\ \A p \in Captured : p \in Int /\ points[p].near \in BOOLEAN
    BY <1>2, RowsAre DEF TInv
  <2>2. IsFiniteSet(S)
    <3>1. IsFiniteSet(Captured)
      BY <2>1, FS_Interval
    <3> QED
      BY <2>1, <3>1, FS_Subset
  <2>3. S # {}
    BY <1>1, <1>2 DEF TInv, CallsOfBatches, Busy
  <2> QED
    BY <2>1, <2>2, <2>3 DEF FinInts
<1>9. PICK s, x, n : s = InOrderOf(S) /\ x = inside /\ n = Cardinality({p \in Changes(S, x) : points[p].near})
  OBVIOUS
<1>10. Cardinality(Enters(track)) = Cardinality(Enters(prev)) + n
  <2>1. \A i \in 1..Len(prev) : points[prev[i]].near \in BOOLEAN
    BY <1>8
  <2>2. LeftAt(prev, x)
    BY <1>7, <1>9 DEF Settled
  <2>3. Cardinality(Enters(prev \o s)) = Cardinality(Enters(prev)) + n
    BY <1>8, <1>9, <2>1, <2>2, EntriesAdd
  <2> QED
    BY <1>7, <1>9, <2>3
<1>11. track # <<>> /\ track[Len(track)] = Max(S)
  BY <1>7, <1>8, LastIsNewest
<1>12. points[Max(S)].near = IF r.near = Nothing THEN inside ELSE r.near
  <2>1. CASE Changes(S, x) = {}
    <3>1. points[Max(S)].near = x
      BY <1>8, <2>1, LastChange
    <3>2. r.near = Nothing
      BY <1>3, <1>9, <2>1 DEF AfterTrack
    <3> QED
      BY <1>9, <3>1, <3>2
  <2>2. CASE Changes(S, x) # {}
    <3>1. points[Max(Changes(S, x))].near = points[Max(S)].near
      BY <1>8, <2>2, LastChange
    <3>2. r.near = points[Max(Changes(S, x))].near
      BY <1>3, <1>9, <2>2 DEF AfterTrack
    <3>3. points[Max(S)].near \in BOOLEAN
      <4>1. Max(S) \in S
        BY <1>8, MaxIs DEF FinInts
      <4> QED
        BY <1>8, <4>1
    <3>4. r.near # Nothing
      BY <3>1, <3>2, <3>3, TelemetryAssumption
    <3> QED
      BY <3>1, <3>2, <3>4
  <2> QED
    BY <2>1, <2>2
<1>13. PICK P, t, a, e, i, q : /\ P = Captured /\ t = track /\ e = arrivals + r.entries /\ q = Max(S)
                               /\ i = IF r.near = Nothing THEN inside ELSE r.near
  OBVIOUS
<1>14. Settled(t, e, i, q)
  <2>1. e = Cardinality(Enters(t))
    BY <1>3, <1>7, <1>9, <1>10, <1>13 DEF Settled
  <2>2. LeftAt(t, i)
    BY <1>11, <1>12, <1>13 DEF LeftAt
  <2>3. q = t[Len(t)]
    BY <1>11, <1>13
  <2> QED
    BY <2>1, <2>2, <2>3 DEF Settled
<1>15. Captured' = Captured /\ points' = points
  BY <1>1 DEF OnlyCall, phoneVars, Captured
<1>16. Settled(t, e, i, q)'
  <2>1. t \in Seq(P) /\ \A p \in P : points'[p].near = points[p].near
    BY <1>13, <1>15 DEF TInv, ServerTypes
  <2> QED
    BY <1>14, <2>1, SettledStays
<1>17. AtPersist'
  <2>1. /\ track' = t /\ presence' = q /\ e = arrivals' + call'[c].entries
        /\ i = IF call'[c].near = Nothing THEN inside' ELSE call'[c].near
    BY <1>1, <1>2, <1>4, <1>13
  <2>2. ASSUME NEW d \in Calls, call'[d].at = "persist" PROVE d = c
    BY <1>5, <2>2
  <2> QED
    BY <1>16, <2>1, <2>2 DEF AtPersist
<1> QED
  BY <1>6, <1>17

LEMMA PersistFollows ==
    ASSUME TInv, QueueInv, Follow, NEW c \in Calls, PersistInside(c)
    PROVE  Follow'
<1>1. /\ call[c].at = "persist" /\ ServerMoves(c, "publish")
      /\ inside' = IF call[c].near = Nothing THEN inside ELSE call[c].near
      /\ UNCHANGED <<track, remembered, presence, arrivals, raced, trouble>>
      /\ OnlyCall
  BY DEF PersistInside
<1> SUFFICES ASSUME raced = {} PROVE (AtRest /\ AtTaken /\ AtPersist /\ AtPublish)'
  BY <1>1 DEF Follow
<1>2. PICK r : /\ r.at = "publish" /\ r.entries = call[c].entries
               /\ call' = [call EXCEPT ![c] = r]
  BY <1>1, MovesIs DEF CallStates
<1>3. call'[c] = r /\ \A d \in Calls : d # c => call'[d] = call[d]
  BY <1>2 DEF TInv, ServerTypes
<1>4. /\ \A d \in Calls : d # c => call'[d].at = "free"
      /\ AtPersist
  BY <1>1, <1>3, Alone DEF Busy
<1>5. AtRest' /\ AtTaken' /\ AtPersist'
  BY <1>2, <1>3, <1>4 DEF AtRest, AtTaken, AtPersist, Behind
<1>6. PICK P, t, e, i, q : /\ P = Captured /\ t = track /\ e = arrivals + call[c].entries
                           /\ q = presence
                           /\ i = IF call[c].near = Nothing THEN inside ELSE call[c].near
  OBVIOUS
<1>7. Settled(t, e, i, q)
  BY <1>1, <1>4, <1>6 DEF AtPersist
<1>8. Settled(t, e, i, q)'
  <2>1. t \in Seq(P) /\ \A p \in P : points'[p].near = points[p].near
    BY <1>1, <1>6 DEF TInv, ServerTypes, OnlyCall, phoneVars
  <2> QED
    BY <1>7, <2>1, SettledStays
<1>9. AtPublish'
  <2>1. /\ track' = t /\ presence' = q /\ e = arrivals' + call'[c].entries /\ i = inside'
    BY <1>1, <1>2, <1>3, <1>6
  <2>2. ASSUME NEW d \in Calls, call'[d].at = "publish" PROVE d = c
    BY <1>4, <2>2
  <2> QED
    BY <1>8, <2>1, <2>2 DEF AtPublish
<1> QED
  BY <1>5, <1>9

LEMMA PublishFollows ==
    ASSUME TInv, QueueInv, Follow, NEW c \in Calls, PublishArrivals(c)
    PROVE  Follow'
<1>1. /\ call[c].at = "publish" /\ ServerMoves(c, "remember")
      /\ arrivals' = arrivals + call[c].entries
      /\ UNCHANGED <<track, remembered, inside, presence, raced, trouble>>
      /\ OnlyCall
  BY DEF PublishArrivals
<1> SUFFICES ASSUME raced = {} PROVE (AtRest /\ AtTaken /\ AtPersist /\ AtPublish)'
  BY <1>1 DEF Follow
<1>2. PICK r : r.at = "remember" /\ call' = [call EXCEPT ![c] = r]
  BY <1>1, MovesIs DEF CallStates
<1>3. call'[c] = r /\ \A d \in Calls : d # c => call'[d] = call[d]
  BY <1>2 DEF TInv, ServerTypes
<1>4. /\ \A d \in Calls : d # c => call'[d].at = "free"
      /\ AtPublish
  BY <1>1, <1>3, Alone DEF Busy
<1>5. AtTaken' /\ AtPersist' /\ AtPublish'
  BY <1>2, <1>3, <1>4 DEF AtTaken, AtPersist, AtPublish
<1>6. PICK P, t, e, i, q : /\ P = Captured /\ t = track /\ e = arrivals + call[c].entries
                           /\ q = presence /\ i = inside
  OBVIOUS
<1>7. Settled(t, e, i, q)
  BY <1>1, <1>4, <1>6 DEF AtPublish
<1>8. Settled(t, e, i, q)'
  <2>1. t \in Seq(P) /\ \A p \in P : points'[p].near = points[p].near
    BY <1>1, <1>6 DEF TInv, ServerTypes, OnlyCall, phoneVars
  <2> QED
    BY <1>7, <2>1, SettledStays
<1>9. AtRest'
  <2>1. track' = t /\ presence' = q /\ e = arrivals' /\ i = inside'
    BY <1>1, <1>6
  <2> QED
    BY <1>8, <2>1 DEF AtRest
<1> QED
  BY <1>5, <1>9

LEMMA FollowKept ==
    ASSUME TInv, QueueInv, Follow, [TelemetryNext]_telemetryVars
    PROVE  Follow'
<1>1. ASSUME UNCHANGED <<points, track, inside, presence, arrivals>>, raced \subseteq raced',
             NEW c \in Calls, NEW r, call' = [call EXCEPT ![c] = r],
             call[c].at \notin {"taken", "persist", "publish"},
             r.at \notin {"taken", "persist", "publish"}
      PROVE  Follow'
  <2>1. call'[c] = r /\ \A d \in Calls : d # c => call'[d] = call[d]
    BY <1>1 DEF TInv, ServerTypes
  <2>2. \A d \in Calls :
               \/ ~Behind(d) /\ call'[d].at \notin {"taken", "persist", "publish"}
               \/ /\ call'[d].at = call[d].at /\ call'[d].points = call[d].points
                  /\ call'[d].near = call[d].near /\ call'[d].entries = call[d].entries
    BY <1>1, <2>1 DEF Behind
  <2>3. Captured' = Captured
    BY <1>1 DEF Captured
  <2> QED
    BY <1>1, <2>2, <2>3, FollowStays
<1>2. ASSUME UNCHANGED <<points, track, inside, presence, arrivals, raced>>,
             \A c \in Calls : call'[c] = [call[c] EXCEPT !.heard = call'[c].heard]
      PROVE  Follow'
  <2>1. \A c \in Calls : call[c] \in CallRow(batches, Captured)
    BY DEF TInv, ServerTypes
  <2>2. \A c \in Calls :
          /\ call'[c].at = call[c].at /\ call'[c].points = call[c].points
          /\ call'[c].near = call[c].near /\ call'[c].entries = call[c].entries
    BY <1>2, <2>1 DEF CallRow
  <2>3. Captured' = Captured
    BY <1>2 DEF Captured
  <2> QED
    BY <1>2, <2>2, <2>3, FollowStays
<1>3. CASE UNCHANGED <<points, serverVars>>
  <2>1. Captured' = Captured /\ call' = call
    BY <1>3 DEF Captured, serverVars
  <2> QED
    BY <1>3, <2>1, FollowStays DEF serverVars
<1>4. CASE UNCHANGED telemetryVars
  BY <1>3, <1>4 DEF telemetryVars, phoneVars
<1>5. CASE \/ \E phoneToo \in BOOLEAN : StartShift(phoneToo) \/ EndShift(phoneToo)
           \/ RefreshShift \/ Reconcile
  BY <1>3, <1>5, ShiftsKeep
<1>6. ASSUME NEW near \in BOOLEAN, Capture(near) PROVE Follow'
  <2>1. PICK n \in Nat :
          /\ Captured' = Captured \cup {n}
          /\ \A p \in Captured : points'[p] = points[p]
          /\ UNCHANGED serverVars
    BY <1>6, CaptureIs
  <2> QED
    BY <2>1, FollowStays DEF serverVars
<1>7. ASSUME NEW u \in Runtimes, Upload(u) PROVE Follow'
  <2>1. PICK c \in Calls, b \in Nat, sent \in SUBSET Captured : UploadAs(u, c, b, sent)
    BY <1>7, UploadSends DEF TInv
  <2>2. /\ Captured' = Captured
        /\ \A p \in Captured : points'[p].near = points[p].near
        /\ \A d \in Calls : d # c => call'[d] = call[d]
        /\ call'[c].at = "asked" /\ call[c].at = "free"
    <3>1. SealsPoints(b, sent) /\ Calling(u, c, b, sent)
      BY <2>1, UploadIs
    <3> QED
      BY <3>1 DEF SealsPoints, Calling
  <2>3. UNCHANGED <<track, inside, presence, arrivals>> /\ raced \subseteq raced'
    BY <2>1 DEF UploadAs
  <2>4. \A d \in Calls :
               \/ ~Behind(d) /\ call'[d].at \notin {"taken", "persist", "publish"}
               \/ call'[d] = call[d]
    BY <2>2 DEF Behind
  <2> QED
    BY <2>2, <2>3, <2>4, FollowStays
<1>8. ASSUME NEW u \in Runtimes, Heard(u) PROVE Follow'
  <2>1. PICK c : c = up[u].call
    OBVIOUS
  <2>2. /\ up[u].at = "calling" /\ call[c].at \in {"accepted", "outside", "failed"}
        /\ call' = [call EXCEPT ![c] = NoCall]
        /\ UNCHANGED <<points, track, inside, presence, arrivals, raced>>
    BY <1>8, <2>1 DEF Heard
  <2>3. c \in Calls
    BY <2>1, <2>2 DEF TInv, Linked
  <2>4. NoCall.at = "free"
    BY DEF NoCall
  <2> QED
    BY <1>1, <2>2, <2>3, <2>4
<1>9. ASSUME NEW u \in Runtimes, StopTracking(u) PROVE Follow'
  BY <1>3, <1>9, StopTrackingKeeps DEF serverVars, StopTracking
<1>10. ASSUME NEW u \in Runtimes, GiveUp(u) PROVE Follow'
  BY <1>2, <1>10, GiveUpKeeps
<1>11. ASSUME NEW c \in Calls, Gate(c) PROVE Follow'
  <2>1. /\ call[c].at = "asked" /\ OnlyCall
        /\ UNCHANGED <<remembered, inside, presence, arrivals, raced, trouble>>
    BY <1>11, GateIs
  <2>2. CASE Takes(c)
    BY <2>1, <2>2, TakesFollows
  <2>3. ASSUME NEW at \in {"accepted", "outside"}, ServerMoves(c, at), track' = track
        PROVE  Follow'
    <3>1. at \in CallStates
      BY DEF CallStates
    <3>2. PICK r : r.at = at /\ call' = [call EXCEPT ![c] = r]
      BY <2>3, <3>1, MovesIs
    <3> QED
      BY <1>1, <2>1, <2>3, <3>2 DEF OnlyCall, phoneVars
  <2> QED
    BY <1>11, <2>2, <2>3, GateIs
<1>12. ASSUME NEW c \in Calls, Remember(c) PROVE Follow'
  <2>1. /\ call[c].at = "remember" /\ ServerMoves(c, "accepted") /\ OnlyCall
        /\ UNCHANGED <<track, inside, presence, arrivals, raced, trouble>>
    BY <1>12 DEF Remember
  <2>2. PICK r : r.at = "accepted" /\ call' = [call EXCEPT ![c] = r]
    BY <2>1, MovesIs DEF CallStates
  <2> QED
    BY <1>1, <2>1, <2>2 DEF OnlyCall, phoneVars
<1>13. ASSUME NEW c \in Calls, Unheard(c) PROVE Follow'
  <2>1. /\ call[c].at \in {"accepted", "outside", "failed"} /\ OnlyCall
        /\ call' = [call EXCEPT ![c] = NoCall]
        /\ UNCHANGED <<track, inside, presence, arrivals, raced, trouble>>
    BY <1>13 DEF Unheard
  <2>2. NoCall.at = "free"
    BY DEF NoCall
  <2> QED
    BY <1>1, <2>1, <2>2 DEF OnlyCall, phoneVars
<1>14. ASSUME NEW c \in Calls, Fail(c) PROVE Follow'
  <2>1. raced' # {}
    BY <1>14 DEF Fail
  <2> QED
    BY <2>1 DEF Follow
<1>15. ASSUME NEW c \in Calls, IngestStep(c) PROVE Follow'
  BY <1>11, <1>12, <1>13, <1>15, PresentFollows, PersistFollows, PublishFollows DEF IngestStep
<1> QED
  BY <1>4, <1>5, <1>6, <1>7, <1>8, <1>9, <1>10, <1>14, <1>15 DEF TelemetryNext

\* telemetry.service.ts compares each batch with the state the one before it left:
\* point by point the live state arrives at what the whole track says, as long as
\* no two calls worked on one batch and none gave up half-way.
THEOREM LiveStateFollowsTheTrack == TelemetrySafety => []LiveStateIsTheTrack
<1>1. TelemetryInit => QueueInv /\ Follow
  <2> SUFFICES ASSUME TelemetryInit PROVE QueueInv /\ Follow
    OBVIOUS
  <2>1. queued = {} /\ track = <<>> /\ arrivals = 0 /\ inside = FALSE
        /\ \A c \in Calls : call[c] = NoCall
    BY DEF TelemetryInit
  <2>2. NoCall.at = "free"
    BY DEF NoCall
  <2>3. \A c \in Calls : ~Busy(c) /\ ~Behind(c) /\ call[c].at = "free"
    BY <2>1, <2>2 DEF Busy, Behind
  <2>4. QueueInv
    BY <2>1, <2>3 DEF QueueInv, WholeBatches, OneSealed, InHand
  <2>5. Settled(track, arrivals, inside, presence)
    <3>1. Enters(<<>>) = {}
      BY DEF Enters
    <3>2. Cardinality(Enters(<<>>)) = 0
      BY <3>1, FS_EmptySet
    <3> QED
      BY <2>1, <3>2 DEF Settled, LeftAt
  <2> QED
    BY <2>3, <2>4, <2>5 DEF Follow, AtRest, AtTaken, AtPersist, AtPublish
<1>2. TInv /\ QueueInv /\ Follow /\ [TelemetryNext]_telemetryVars => (QueueInv /\ Follow)'
  BY QueueKept, FollowKept
<1>3. TInv /\ QueueInv /\ Follow => LiveStateIsTheTrack
  <2> SUFFICES ASSUME Follow, Quiet, raced = {}, track # <<>>
               PROVE  /\ arrivals = Cardinality(Enters(track))
                      /\ inside = points[track[Len(track)]].near
                      /\ presence = track[Len(track)]
    BY DEF LiveStateIsTheTrack
  <2>1. Settled(track, arrivals, inside, presence)
    BY DEF Follow, AtRest, Behind, Quiet
  <2> QED
    BY <2>1 DEF Settled, LeftAt
<1> QED
  BY <1>1, <1>2, <1>3, TInvHolds, PTL DEF TelemetrySafety

-----------------------------------------------------------------------------
(* The position writer *)

Ended == written \cup dropped \cup failed

\* A write that is not in flight holds nothing: with nothing buffered either,
\* every position has its outcome.
WriterInv ==
    /\ WriterTypeOK
    /\ NothingSlips
    /\ inFlight \/ flushing = {}
    /\ FlushDrains

USE WriterAssumption DEF WriterAssumption

LEMMA WriterStarts == WriterInit => WriterInv
  <1> SUFFICES ASSUME WriterInit PROVE WriterInv
    OBVIOUS
  <1>1. WriterTypeOK
    <2>1. due \in [Flushers -> SUBSET (1..arrived)]
      BY DEF WriterInit
    <2>2. pc \in [Flushers -> {"idle", "loop", "awaiting", "returned"}]
      BY DEF WriterInit
    <2>3. /\ arrived \in 0..MaxPositions
          /\ buffer \cup flushing \cup written \cup dropped \cup failed \subseteq 1..arrived
      BY DEF WriterInit
    <2> QED
      BY <2>1, <2>2, <2>3 DEF WriterInit, WriterTypeOK
  <1>2. NothingSlips
    BY DEF WriterInit, NothingSlips
  <1>3. (inFlight \/ flushing = {}) /\ FlushDrains
    BY DEF WriterInit, FlushDrains
  <1> QED
    BY <1>1, <1>2, <1>3 DEF WriterInv

\* What a call of flush leaves of the calls, whoever makes it.
LEMMA CallKeeps ==
  ASSUME WriterInv, NEW f \in Flushers, NEW unwritten \in SUBSET (1..arrived'),
         arrived' \in Nat, arrived <= arrived', Call(f, unwritten)
  PROVE  /\ pc' \in [Flushers -> {"idle", "loop", "awaiting", "returned"}]
         /\ due' \in [Flushers -> SUBSET (1..arrived')]
         /\ FlushDrains'
  <1>1. due \in [Flushers -> SUBSET (1..arrived')]
    <2>1. 1..arrived \subseteq 1..arrived'
      BY DEF WriterInv, WriterTypeOK
    <2> QED
      BY <2>1 DEF WriterInv, WriterTypeOK
  <1> QED
    BY <1>1 DEF WriterInv, WriterTypeOK, FlushDrains, Call

LEMMA NoCallKeeps ==
  ASSUME WriterInv, arrived' \in Nat, arrived <= arrived', NoMoreCalls
  PROVE  /\ pc' \in [Flushers -> {"idle", "loop", "awaiting", "returned"}]
         /\ due' \in [Flushers -> SUBSET (1..arrived')]
         /\ FlushDrains'
  <1>1. 1..arrived \subseteq 1..arrived'
    BY DEF WriterInv, WriterTypeOK
  <1> QED
    BY <1>1 DEF WriterInv, WriterTypeOK, FlushDrains, NoMoreCalls

LEMMA EnqueueKeeps ==
  ASSUME WriterInv, NEW n \in 1..MaxUpload, Enqueue(n)
  PROVE  WriterInv'
  <1> DEFINE new == (arrived + 1)..(arrived + n)
             full == buffer \cup new
             kept == full \ Shed(full)
  <1>1. /\ arrived \in 0..MaxPositions /\ arrived' = arrived + n
        /\ arrived' \in 0..MaxPositions /\ n \in Nat
    BY DEF WriterInv, WriterTypeOK, Enqueue
  <1>2. /\ buffer' = kept /\ dropped' = dropped \cup Shed(full)
        /\ UNCHANGED <<flushing, inFlight, written, failed, shuttingDown>>
    BY DEF Enqueue
  <1>3. Shed(full) \subseteq full
    BY DEF Shed
  <1>4. 1..arrived' = 1..arrived \cup new /\ 1..arrived \cap new = {}
    BY <1>1
  <1> HIDE DEF new
  <1>5. NothingSlips'
    BY <1>2, <1>3, <1>4 DEF WriterInv, NothingSlips
  <1>6. kept \cup flushing \in SUBSET (1..arrived')
    BY <1>2, <1>3, <1>4 DEF WriterInv, NothingSlips
  <1>7. /\ timer' \in BOOLEAN
        /\ \/ \E f \in Flushers : Call(f, kept \cup flushing)
           \/ NoMoreCalls
    BY DEF new, Enqueue, CallFlush, ScheduleFlush, WriterInv, WriterTypeOK
  <1>8. /\ pc' \in [Flushers -> {"idle", "loop", "awaiting", "returned"}]
        /\ due' \in [Flushers -> SUBSET (1..arrived')]
        /\ FlushDrains'
    <2>1. arrived' \in Nat /\ arrived <= arrived'
      BY <1>1
    <2>2. CASE NoMoreCalls
      BY <2>1, <2>2, NoCallKeeps
    <2>3. CASE \E f \in Flushers : Call(f, kept \cup flushing)
      <3>1. PICK f \in Flushers : Call(f, kept \cup flushing)
        BY <2>3
      <3> QED
        BY <1>6, <2>1, <3>1, CallKeeps
    <2> QED
      BY <1>7, <2>2, <2>3
  <1>9. WriterTypeOK'
    BY <1>1, <1>2, <1>5, <1>7, <1>8 DEF WriterTypeOK, NothingSlips, WriterInv
  <1> QED
    BY <1>2, <1>5, <1>8, <1>9 DEF WriterInv

LEMMA StartKeeps ==
  ASSUME WriterInv, (\E f \in Flushers : TimerFires(f)) \/ OnShutdown
  PROVE  WriterInv'
  <1>1. PICK f \in Flushers : Call(f, buffer \cup flushing)
    BY DEF TimerFires, OnShutdown
  <1>2. /\ UNCHANGED <<arrived, buffer, flushing, inFlight, outcome>>
        /\ timer' \in BOOLEAN /\ shuttingDown' \in BOOLEAN
    BY DEF TimerFires, OnShutdown, WriterInv, WriterTypeOK
  <1>3. buffer \cup flushing \in SUBSET (1..arrived')
    BY <1>2 DEF WriterInv, NothingSlips
  <1>4. arrived' \in Nat /\ arrived <= arrived'
    BY <1>2 DEF WriterInv, WriterTypeOK
  <1>5. /\ pc' \in [Flushers -> {"idle", "loop", "awaiting", "returned"}]
        /\ due' \in [Flushers -> SUBSET (1..arrived')]
        /\ FlushDrains'
    BY <1>1, <1>3, <1>4, CallKeeps
  <1> QED
    BY <1>2, <1>5 DEF WriterInv, WriterTypeOK, NothingSlips, outcome

LEMMA AwaitKeeps ==
  ASSUME WriterInv, NEW f \in Flushers, Await(f)
  PROVE  WriterInv'
  BY DEF WriterInv, WriterTypeOK, NothingSlips, FlushDrains, Await, outcome

\* The call returns only when every position has ended, its own among them.
LEMMA ReturnKeeps ==
  ASSUME WriterInv, NEW f \in Flushers, Return(f)
  PROVE  WriterInv'
  <1>1. Ended = 1..arrived
    BY DEF WriterInv, NothingSlips, Return, MayReturn, Ended
  <1>2. due'[f] = {}
    BY <1>1 DEF WriterInv, WriterTypeOK, Return, Ended
  <1>3. FlushDrains'
    BY <1>2 DEF WriterInv, WriterTypeOK, FlushDrains, Return
  <1>4. WriterTypeOK'
    BY DEF WriterInv, WriterTypeOK, Return, outcome
  <1> QED
    BY <1>3, <1>4 DEF WriterInv, NothingSlips, Return, outcome

LEMMA DrainKeeps ==
  ASSUME WriterInv, NEW f \in Flushers, Drain(f)
  PROVE  WriterInv'
  <1>1. flushing = {}
    BY DEF WriterInv, Drain, MayDrain
  <1>2. NothingSlips'
    BY <1>1 DEF WriterInv, NothingSlips, Drain, outcome
  <1>3. WriterTypeOK' /\ FlushDrains'
    BY <1>1 DEF WriterInv, WriterTypeOK, FlushDrains, Drain, outcome
  <1> QED
    BY <1>2, <1>3 DEF WriterInv, Drain

LEMMA WriteGroupKeeps ==
  ASSUME WriterInv, NEW t \in Tenants, WriteGroup(t)
  PROVE  WriterInv'
  <1>1. Group(t) \subseteq flushing
    BY DEF Group
  <1>2. NothingSlips'
    BY <1>1 DEF WriterInv, NothingSlips, WriteGroup
  <1>3. WriterTypeOK' /\ FlushDrains'
    BY <1>1 DEF WriterInv, WriterTypeOK, FlushDrains, WriteGroup
  <1> QED
    BY <1>1, <1>2, <1>3 DEF WriterInv, WriteGroup

LEMMA WriteEndsKeeps ==
  ASSUME WriterInv, WriteEnds
  PROVE  WriterInv'
  BY DEF WriterInv, WriterTypeOK, NothingSlips, FlushDrains, WriteEnds, outcome

LEMMA WriterStepKeeps == WriterInv /\ [WriterNext]_writerVars => WriterInv'
  <1> SUFFICES ASSUME WriterInv, [WriterNext]_writerVars PROVE WriterInv'
    OBVIOUS
  <1>1. CASE \E n \in 1..MaxUpload : Enqueue(n)
    BY <1>1, EnqueueKeeps
  <1>2. CASE (\E f \in Flushers : TimerFires(f)) \/ OnShutdown
    BY <1>2, StartKeeps
  <1>3. CASE \E f \in Flushers : FlusherStep(f)
    BY <1>3, AwaitKeeps, ReturnKeeps, DrainKeeps DEF FlusherStep
  <1>4. CASE (\E t \in Tenants : WriteGroup(t)) \/ WriteEnds
    BY <1>4, WriteGroupKeeps, WriteEndsKeeps
  <1>5. CASE UNCHANGED writerVars
    BY <1>5 DEF WriterInv, WriterTypeOK, NothingSlips, FlushDrains, writerVars, outcome
  <1> QED
    BY <1>1, <1>2, <1>3, <1>4, <1>5 DEF WriterNext

LEMMA WriterInvHolds == WriterSafety => []WriterInv
  BY WriterStarts, WriterStepKeeps, PTL DEF WriterSafety

\* A flush that returned left nothing behind of what waited when it was called:
\* after the shutdown's flush every position accepted before it has been written,
\* shed or reported.
THEOREM FlushesDrain == WriterSafety => []FlushDrains
  <1>1. WriterInv => FlushDrains
    BY DEF WriterInv
  <1> QED
    BY <1>1, WriterInvHolds, PTL

\* Every position is buffered, in flight or at exactly one outcome: none is lost
\* in memory and none is written twice.
THEOREM PositionsAreKept == WriterSafety => []NothingSlips
  <1>1. WriterInv => NothingSlips
    BY DEF WriterInv
  <1> QED
    BY <1>1, WriterInvHolds, PTL
=============================================================================
