---------------------------- MODULE FinanceProofs ----------------------------
(***************************************************************************)
(* The finance office, for any parcels, documents, people, amounts and     *)
(* rates.  The ledger: every document moves the money exactly once, the    *)
(* cached balance of every account is the sum of its entries, and a        *)
(* parcel's cash is paid out at most once and in full.  The invoices: the  *)
(* numbers have no gap, what was issued never changes, and every document  *)
(* is the sum of its lines.  Both rest on a few lemmas on finite sums.     *)
(***************************************************************************)
EXTENDS CashLedger, Invoices, FunctionTheorems, FiniteSetTheorems, TLAPS

-----------------------------------------------------------------------------
(* Finite sums *)

Pick(S) == CHOOSE x \in S : TRUE

\* g sums f over every subset of S, one element at a time.
Sums(g, f, S) ==
    g = [T \in SUBSET S |-> IF T = {} THEN 0 ELSE f[Pick(T)] + g[T \ {Pick(T)}]]

\* A set of finite sets that is not empty has a smallest one.
LEMMA SmallestSet ==
    ASSUME NEW S, IsFiniteSet(S), NEW F \in SUBSET SUBSET S, F # {}
    PROVE  \E T \in F : \A U \in F : U \subseteq T => U = T
<1> DEFINE R == StrictSubsetOrdering(S)
<1>1. IsWellFoundedOn(R, FiniteSubsetsOf(S))
  BY FS_StrictSubsetOrderingWellFounded
<1>2. F \subseteq FiniteSubsetsOf(S)
  BY FS_Subset DEF FiniteSubsetsOf
<1>3. PICK T \in F : \A U \in F : <<U, T>> \notin R
  <2> HIDE DEF R
  <2> QED
    BY <1>1, <1>2, WFMin
<1>4. ASSUME NEW U \in F, U \subseteq T PROVE U = T
  <2> SUFFICES ASSUME U # T PROVE FALSE
    OBVIOUS
  <2>1. <<U, T>> \in R
    BY <1>4 DEF StrictSubsetOrdering
  <2> QED
    BY <1>3, <2>1
<1> QED
  BY <1>4

LEMMA PickIn == ASSUME NEW S, S # {} PROVE Pick(S) \in S
BY DEF Pick

LEMMA SumsUnfold ==
    ASSUME NEW g, NEW f, NEW S, Sums(g, f, S), NEW T \in SUBSET S
    PROVE  g[T] = IF T = {} THEN 0 ELSE f[Pick(T)] + g[T \ {Pick(T)}]
<1>1. g = [U \in SUBSET S |-> IF U = {} THEN 0 ELSE f[Pick(U)] + g[U \ {Pick(U)}]]
  BY DEF Sums
<1> QED
  BY <1>1

\* Two such functions agree where both are defined and sum the same values.
LEMMA SumsAgree ==
    ASSUME NEW g, NEW f, NEW S, Sums(g, f, S),
           NEW h, NEW e, NEW R, Sums(h, e, R),
           NEW T, T \subseteq S, T \subseteq R, IsFiniteSet(T),
           \A x \in T : f[x] = e[x]
    PROVE  g[T] = h[T]
<1> DEFINE Bad == {U \in SUBSET T : g[U] # h[U]}
<1> SUFFICES ASSUME Bad # {} PROVE FALSE
  OBVIOUS
<1>1. PICK U \in Bad : \A V \in Bad : V \subseteq U => V = U
  <2>1. Bad \in SUBSET SUBSET T
    OBVIOUS
  <2> HIDE DEF Bad
  <2> QED
    BY <2>1, SmallestSet
<1>2. U \in SUBSET S /\ U \in SUBSET R
  OBVIOUS
<1> DEFINE x == Pick(U)
           V == U \ {x}
<1>3. g[U] = (IF U = {} THEN 0 ELSE f[x] + g[V])
  <2>1. g[U] = IF U = {} THEN 0 ELSE f[Pick(U)] + g[U \ {Pick(U)}]
    <3> HIDE DEF x, V, Bad
    <3> QED
      BY <1>2, SumsUnfold
  <2> QED
    BY <2>1
<1>4. h[U] = (IF U = {} THEN 0 ELSE e[x] + h[V])
  <2>1. h[U] = IF U = {} THEN 0 ELSE e[Pick(U)] + h[U \ {Pick(U)}]
    <3> HIDE DEF x, V, Bad
    <3> QED
      BY <1>2, SumsUnfold
  <2> QED
    BY <2>1
<1>5. U # {}
  BY <1>3, <1>4
<1>6. x \in U
  BY <1>5, PickIn
<1>7. f[x] = e[x]
  BY <1>6
<1>8. g[V] = h[V]
  BY <1>1, <1>6
<1> QED
  BY <1>3, <1>4, <1>5, <1>7, <1>8

LEMMA SumsExist ==
    ASSUME NEW f, NEW S, IsFiniteSet(S)
    PROVE  \E g : Sums(g, f, S)
<1> DEFINE G(U) == CHOOSE g : Sums(g, f, U)
           Bad == {T \in SUBSET S : ~\E g : Sums(g, f, T)}
<1> SUFFICES ASSUME Bad # {} PROVE FALSE
  OBVIOUS
<1>1. PICK T \in Bad : \A U \in Bad : U \subseteq T => U = T
  <2>1. Bad \in SUBSET SUBSET S
    OBVIOUS
  <2> HIDE DEF Bad
  <2> QED
    BY <2>1, SmallestSet
<1>2. ASSUME NEW U \in SUBSET T, U # T PROVE Sums(G(U), f, U) /\ IsFiniteSet(U)
  <2>1. U \notin Bad /\ U \in SUBSET S
    BY <1>1, <1>2
  <2>2. \E g : Sums(g, f, U)
    BY <2>1
  <2>3. IsFiniteSet(U)
    BY <2>1, FS_Subset
  <2> QED
    BY <2>2, <2>3
<1> DEFINE Rest(U) == U \ {Pick(U)}
           h == [U \in SUBSET T |-> IF U = {} THEN 0 ELSE f[Pick(U)] + G(Rest(U))[Rest(U)]]
<1>3. ASSUME NEW U \in SUBSET T, U # {}
      PROVE  Pick(U) \in U /\ Rest(U) \in SUBSET T /\ Rest(U) # T
  BY <1>3, PickIn
<1> HIDE DEF Bad, G
<1>4. ASSUME NEW U \in SUBSET T, U # T PROVE h[U] = G(U)[U]
  <2>1. Sums(G(U), f, U) /\ IsFiniteSet(U) /\ U \in SUBSET U
    BY <1>2, <1>4
  <2>2. G(U)[U] = IF U = {} THEN 0 ELSE f[Pick(U)] + G(U)[Rest(U)]
    BY <2>1, SumsUnfold
  <2>3. CASE U = {}
    BY <2>2, <2>3
  <2>4. CASE U # {}
    <3>1. Rest(U) \in SUBSET T /\ Rest(U) # T /\ Rest(U) \subseteq U
      BY <1>3, <2>4
    <3>2. Sums(G(Rest(U)), f, Rest(U)) /\ IsFiniteSet(Rest(U))
      BY <1>2, <3>1
    <3> HIDE DEF Rest
    <3>3. G(U)[Rest(U)] = G(Rest(U))[Rest(U)]
      BY <2>1, <3>1, <3>2, SumsAgree
    <3> QED
      BY <2>2, <2>4, <3>3
  <2> QED
    BY <2>3, <2>4
<1>5. ASSUME NEW U \in SUBSET T
      PROVE  h[U] = IF U = {} THEN 0 ELSE f[Pick(U)] + h[Rest(U)]
  <2>1. h[U] = IF U = {} THEN 0 ELSE f[Pick(U)] + G(Rest(U))[Rest(U)]
    OBVIOUS
  <2>2. CASE U = {}
    BY <2>1, <2>2
  <2>3. CASE U # {}
    <3>1. Rest(U) \in SUBSET T /\ Rest(U) # T
      BY <1>3, <2>3
    <3> HIDE DEF h, Rest
    <3>2. h[Rest(U)] = G(Rest(U))[Rest(U)]
      BY <1>4, <3>1
    <3> QED
      BY <2>1, <2>3, <3>2
  <2> QED
    BY <2>2, <2>3
<1>6. h = [U \in SUBSET T |-> h[U]]
  OBVIOUS
<1> HIDE DEF h
<1>7. Sums(h, f, T)
  BY <1>5, <1>6 DEF Sums
<1>8. T \notin Bad
  BY <1>7 DEF Bad
<1> QED
  BY <1>8

LEMMA SumIs ==
    ASSUME NEW f, NEW S
    PROVE  SumFunctionOnSet(f, S) = (CHOOSE g : Sums(g, f, S))[S]
BY DEF SumFunctionOnSet, FoldFunctionOnSet, MapThenFoldSet, Sums, Pick

\* The first element and the rest of a sum.
LEMMA SumUnfold ==
    ASSUME NEW f, NEW S, IsFiniteSet(S)
    PROVE  SumFunctionOnSet(f, S) =
                (IF S = {} THEN 0 ELSE f[Pick(S)] + SumFunctionOnSet(f, S \ {Pick(S)}))
<1> DEFINE G(T) == CHOOSE g : Sums(g, f, T)
           R == S \ {Pick(S)}
<1>1. Sums(G(S), f, S) /\ Sums(G(R), f, R) /\ IsFiniteSet(R)
  <2>1. IsFiniteSet(R)
    BY FS_Subset
  <2> QED
    BY <2>1, SumsExist
<1>2. SumFunctionOnSet(f, S) = G(S)[S] /\ SumFunctionOnSet(f, R) = G(R)[R]
  BY SumIs
<1>3. G(S)[S] = IF S = {} THEN 0 ELSE f[Pick(S)] + G(S)[R]
  <2> HIDE DEF G
  <2> QED
    BY <1>1, SumsUnfold
<1>4. G(S)[R] = G(R)[R]
  <2>1. R \subseteq S
    OBVIOUS
  <2> HIDE DEF G, R
  <2> QED
    BY <1>1, <2>1, SumsAgree
<1> HIDE DEF G
<1> QED
  BY <1>2, <1>3, <1>4

\* A sum depends on the values it adds only.
LEMMA SumSame ==
    ASSUME NEW f, NEW e, NEW S, IsFiniteSet(S), \A x \in S : f[x] = e[x]
    PROVE  SumFunctionOnSet(f, S) = SumFunctionOnSet(e, S)
<1> DEFINE G(h) == CHOOSE g : Sums(g, h, S)
<1>1. Sums(G(f), f, S) /\ Sums(G(e), e, S)
  BY SumsExist
<1>2. SumFunctionOnSet(f, S) = G(f)[S] /\ SumFunctionOnSet(e, S) = G(e)[S]
  BY SumIs
<1> HIDE DEF G
<1>3. G(f)[S] = G(e)[S]
  BY <1>1, SumsAgree
<1> QED
  BY <1>2, <1>3

LEMMA SumEmpty == ASSUME NEW f PROVE SumFunctionOnSet(f, {}) = 0
BY SumUnfold, FS_EmptySet

\* What holds of 0 and of the values and is closed under addition holds of the sum.
LEMMA SumType ==
    ASSUME NEW f, NEW S, IsFiniteSet(S), NEW D, 0 \in D, \A a, b \in D : a + b \in D,
           \A x \in S : f[x] \in D
    PROVE  SumFunctionOnSet(f, S) \in D
<1> DEFINE Bad == {T \in SUBSET S : SumFunctionOnSet(f, T) \notin D}
<1> SUFFICES ASSUME Bad # {} PROVE FALSE
  OBVIOUS
<1>1. PICK T \in Bad : \A U \in Bad : U \subseteq T => U = T
  <2>1. Bad \in SUBSET SUBSET S
    OBVIOUS
  <2> HIDE DEF Bad
  <2> QED
    BY <2>1, SmallestSet
<1>2. IsFiniteSet(T) /\ T \in SUBSET S /\ SumFunctionOnSet(f, T) \notin D
  BY FS_Subset
<1>3. T # {}
  BY <1>2, SumEmpty
<1> DEFINE x == Pick(T)
           R == T \ {x}
<1>4. x \in T /\ R \in SUBSET S /\ R \subseteq T /\ R # T
  BY <1>2, <1>3, PickIn
<1>5. SumFunctionOnSet(f, R) \in D
  BY <1>1, <1>4
<1>6. SumFunctionOnSet(f, T) = f[x] + SumFunctionOnSet(f, R)
  <2>1. SumFunctionOnSet(f, T) = (IF T = {} THEN 0 ELSE f[Pick(T)] + SumFunctionOnSet(f, T \ {Pick(T)}))
    <3> HIDE DEF Bad, x, R
    <3> QED
      BY <1>2, SumUnfold
  <2> QED
    BY <2>1, <1>3
<1>7. f[x] \in D
  BY <1>2, <1>4
<1> HIDE DEF x, R, Bad
<1> QED
  BY <1>2, <1>5, <1>6, <1>7

LEMMA SumInt ==
    ASSUME NEW f, NEW S, IsFiniteSet(S), \A x \in S : f[x] \in Int
    PROVE  SumFunctionOnSet(f, S) \in Int
BY SumType

LEMMA SumNat ==
    ASSUME NEW f, NEW S, IsFiniteSet(S), \A x \in S : f[x] \in Nat
    PROVE  SumFunctionOnSet(f, S) \in Nat
<1>1. 0 \in Nat /\ \A a, b \in Nat : a + b \in Nat
  OBVIOUS
<1> QED
  BY <1>1, SumType

\* Any element may be the first.
LEMMA SumRemove ==
    ASSUME NEW f, NEW S, IsFiniteSet(S), \A z \in S : f[z] \in Int, NEW x \in S
    PROVE  SumFunctionOnSet(f, S) = f[x] + SumFunctionOnSet(f, S \ {x})
<1> DEFINE Bad == {T \in SUBSET S : \E z \in T :
                        SumFunctionOnSet(f, T) # f[z] + SumFunctionOnSet(f, T \ {z})}
<1> SUFFICES ASSUME Bad # {} PROVE FALSE
  OBVIOUS
<1>1. PICK T \in Bad : \A U \in Bad : U \subseteq T => U = T
  <2>1. Bad \in SUBSET SUBSET S
    OBVIOUS
  <2> HIDE DEF Bad
  <2> QED
    BY <2>1, SmallestSet
<1>2. PICK z \in T : SumFunctionOnSet(f, T) # f[z] + SumFunctionOnSet(f, T \ {z})
  OBVIOUS
<1>3. ASSUME NEW U \in SUBSET T, U # T, NEW w \in U
      PROVE  SumFunctionOnSet(f, U) = f[w] + SumFunctionOnSet(f, U \ {w})
  BY <1>1, <1>3
<1>4. ASSUME NEW U \in SUBSET T PROVE SumFunctionOnSet(f, U) \in Int /\ IsFiniteSet(U)
  <2>1. U \in SUBSET S
    BY <1>1
  <2>2. IsFiniteSet(U)
    BY <2>1, FS_Subset
  <2> QED
    BY <2>1, <2>2, SumInt
<1> DEFINE y == Pick(T)
<1>5. y \in T
  BY PickIn
<1>6. SumFunctionOnSet(f, T) = f[y] + SumFunctionOnSet(f, T \ {y})
  <2>1. IsFiniteSet(T)
    BY <1>4
  <2>2. SumFunctionOnSet(f, T) = (IF T = {} THEN 0 ELSE f[Pick(T)] + SumFunctionOnSet(f, T \ {Pick(T)}))
    <3> HIDE DEF Bad, y
    <3> QED
      BY <2>1, SumUnfold
  <2> QED
    BY <2>2
<1>7. y # z
  BY <1>2, <1>6
<1>8. f[y] \in Int /\ f[z] \in Int
  BY <1>1, <1>5
<1> HIDE DEF Bad, y
<1>9. /\ SumFunctionOnSet(f, T \ {y}) = f[z] + SumFunctionOnSet(f, (T \ {y}) \ {z})
      /\ SumFunctionOnSet(f, T \ {z}) = f[y] + SumFunctionOnSet(f, (T \ {z}) \ {y})
  <2>1. /\ T \ {y} \in SUBSET T /\ T \ {y} # T /\ z \in T \ {y}
        /\ T \ {z} \in SUBSET T /\ T \ {z} # T /\ y \in T \ {z}
    BY <1>5, <1>7
  <2> QED
    BY <1>3, <2>1
<1>10. (T \ {y}) \ {z} = (T \ {z}) \ {y} /\ (T \ {y}) \ {z} \in SUBSET T
  OBVIOUS
<1>11. SumFunctionOnSet(f, (T \ {y}) \ {z}) \in Int
  BY <1>4, <1>10
<1> DEFINE c == SumFunctionOnSet(f, (T \ {y}) \ {z})
           fy == f[y]
           fz == f[z]
<1>12. /\ SumFunctionOnSet(f, T) = fy + (fz + c)
       /\ SumFunctionOnSet(f, T \ {z}) = fy + c
  BY <1>6, <1>9, <1>10
<1>13. fy \in Int /\ fz \in Int /\ c \in Int
  BY <1>8, <1>11
<1> HIDE DEF c, fy, fz
<1>14. fy + (fz + c) = fz + (fy + c)
  BY <1>13
<1> QED
  BY <1>2, <1>12, <1>14 DEF fz

\* One more element.
LEMMA SumAdd ==
    ASSUME NEW f, NEW S, IsFiniteSet(S), NEW x, x \notin S,
           f[x] \in Int, \A z \in S : f[z] \in Int
    PROVE  SumFunctionOnSet(f, S \cup {x}) = f[x] + SumFunctionOnSet(f, S)
<1>1. IsFiniteSet(S \cup {x})
  BY FS_AddElement
<1>2. SumFunctionOnSet(f, S \cup {x}) = f[x] + SumFunctionOnSet(f, (S \cup {x}) \ {x})
  BY <1>1, SumRemove
<1>3. (S \cup {x}) \ {x} = S
  OBVIOUS
<1> QED
  BY <1>2, <1>3

-----------------------------------------------------------------------------
(* The tables, as far as the argument needs their shape: which rows there   *)
(* are and which columns.                                                   *)

Table(table, ids, columns) ==
    /\ table = [i \in ids |-> table[i]]
    /\ \A i \in ids : table[i] = [k \in columns |-> table[i][k]]

\* A clerk who decides has read an expense.
ClerkShape ==
    /\ clerk = [u \in Clerks |-> clerk[u]]
    /\ \A u \in Clerks :
        /\ clerk[u] = [k \in {"does", "of", "parcels"} |-> clerk[u][k]]
        /\ clerk[u].does \in {"APPROVED", "REJECTED"} => clerk[u].of \in Expenses
        /\ clerk[u].does = "draft" => clerk[u].parcels \subseteq Parcels

LedgerShapes ==
    /\ Table(collection, Parcels, {"state", "driver", "payee", "amount"})
    /\ Table(remittance, Remittances,
             {"status", "driver", "hub", "expected", "counted", "variance"})
    /\ Table(settlement, Settlements, {"status", "merchant", "gross", "fees", "drafter"})
    /\ Table(expense, Expenses, {"status", "source", "amount"})
    /\ Table(complaint, Complaints, {"status", "type", "parcel", "reversed", "keys"})
    /\ \A c \in Complaints : complaint[c].reversed \in BOOLEAN
    /\ covers \subseteq [settlement : Settlements, parcel : Parcels]
    /\ ClerkShape
    /\ posted = [d \in Documents |-> posted[d]]

\* What is proved, with the shape of the tables it rests on.
LedgerInv == LedgerShapes /\ PostedOnceIfSettled /\ CoveredOnce

-----------------------------------------------------------------------------
(* Documents *)

LEMMA DocIsDocument ==
  /\ \A p \in Parcels : Doc("collection", p) \in Documents
  /\ \A r \in Remittances : Doc("remittance", r) \in Documents
  /\ \A s \in Settlements : Doc("settlement", s) \in Documents
  /\ \A x \in Expenses : Doc("expense", x) \in Documents
  /\ \A c \in Complaints : Doc("reversal", c) \in Documents
  BY DEF Doc, Documents

LEMMA DocumentIsDoc ==
  ASSUME NEW d \in Documents
  PROVE  \/ d.of \in Parcels /\ d = Doc("collection", d.of)
         \/ d.of \in Remittances /\ d = Doc("remittance", d.of)
         \/ d.of \in Settlements /\ d = Doc("settlement", d.of)
         \/ d.of \in Expenses /\ d = Doc("expense", d.of)
         \/ d.of \in Complaints /\ d = Doc("reversal", d.of)
  BY DEF Doc, Documents

LEMMA DocFields ==
  ASSUME NEW k, NEW x
  PROVE  Doc(k, x).kind = k /\ Doc(k, x).of = x
  BY DEF Doc

\* What a document's own record says, kind by kind.
Posted(p) == collection[p].state = "posted"
Handed(r) == remittance[r].status = "CONFIRMED" /\ remittance[r].counted > 0
Paid(s) == settlement[s].status = "PAID"
Approved(x) == expense[x].status = "APPROVED"
Reversed(c) == complaint[c].reversed

LEMMA SettledByKind ==
  ASSUME NEW i
  PROVE  /\ Settled(Doc("collection", i)) <=> Posted(i)
         /\ Settled(Doc("remittance", i)) <=> Handed(i)
         /\ Settled(Doc("settlement", i)) <=> Paid(i)
         /\ Settled(Doc("expense", i)) <=> Approved(i)
         /\ Settled(Doc("reversal", i)) <=> Reversed(i)
  <1>1. Settled(Doc("collection", i)) <=> Posted(i)
    BY SMT DEF Settled, Doc, Posted
  <1>2. Settled(Doc("remittance", i)) <=> Handed(i)
    BY SMT DEF Settled, Doc, Handed
  <1>3. Settled(Doc("settlement", i)) <=> Paid(i)
    BY SMT DEF Settled, Doc, Paid
  <1>4. Settled(Doc("expense", i)) <=> Approved(i)
    BY SMT DEF Settled, Doc, Approved
  <1>5. Settled(Doc("reversal", i)) <=> Reversed(i)
    BY SMT DEF Settled, Doc, Reversed
  <1> QED
    BY <1>1, <1>2, <1>3, <1>4, <1>5

LEMMA SettledByKindNext ==
  ASSUME NEW CONSTANT i
  PROVE  /\ Settled(Doc("collection", i))' <=> Posted(i)'
         /\ Settled(Doc("remittance", i))' <=> Handed(i)'
         /\ Settled(Doc("settlement", i))' <=> Paid(i)'
         /\ Settled(Doc("expense", i))' <=> Approved(i)'
         /\ Settled(Doc("reversal", i))' <=> Reversed(i)'
  <1>1. Settled(Doc("collection", i))' <=> Posted(i)'
    BY SMT DEF Settled, Doc, Posted
  <1>2. Settled(Doc("remittance", i))' <=> Handed(i)'
    BY SMT DEF Settled, Doc, Handed
  <1>3. Settled(Doc("settlement", i))' <=> Paid(i)'
    BY SMT DEF Settled, Doc, Paid
  <1>4. Settled(Doc("expense", i))' <=> Approved(i)'
    BY SMT DEF Settled, Doc, Approved
  <1>5. Settled(Doc("reversal", i))' <=> Reversed(i)'
    BY SMT DEF Settled, Doc, Reversed
  <1> QED
    BY <1>1, <1>2, <1>3, <1>4, <1>5

\* The records say of every document outside of docs what they said.
UnmovedBut(docs) ==
    /\ \A p \in Parcels : Doc("collection", p) \notin docs => (Posted(p)' <=> Posted(p))
    /\ \A r \in Remittances : Doc("remittance", r) \notin docs => (Handed(r)' <=> Handed(r))
    /\ \A s \in Settlements : Doc("settlement", s) \notin docs => (Paid(s)' <=> Paid(s))
    /\ \A x \in Expenses : Doc("expense", x) \notin docs => (Approved(x)' <=> Approved(x))
    /\ \A c \in Complaints : Doc("reversal", c) \notin docs => (Reversed(c)' <=> Reversed(c))

LEMMA UnmovedSettled ==
  ASSUME NEW CONSTANT docs, UnmovedBut(docs), NEW CONSTANT e \in Documents, e \notin docs
  PROVE  Settled(e)' <=> Settled(e)
  <1> DEFINE i == e.of
  <1>1. CASE i \in Parcels /\ e = Doc("collection", i)
    <2>1. Posted(i)' <=> Posted(i)
      BY <1>1, Zenon DEF UnmovedBut
    <2>2. (Settled(Doc("collection", i)) <=> Posted(i)) /\ (Settled(Doc("collection", i))' <=> Posted(i)')
      BY SettledByKind, SettledByKindNext
    <2> QED
      BY <1>1, <2>1, <2>2, Zenon
  <1>2. CASE i \in Remittances /\ e = Doc("remittance", i)
    <2>1. Handed(i)' <=> Handed(i)
      BY <1>2, Zenon DEF UnmovedBut
    <2>2. (Settled(Doc("remittance", i)) <=> Handed(i)) /\ (Settled(Doc("remittance", i))' <=> Handed(i)')
      BY SettledByKind, SettledByKindNext
    <2> QED
      BY <1>2, <2>1, <2>2, Zenon
  <1>3. CASE i \in Settlements /\ e = Doc("settlement", i)
    <2>1. Paid(i)' <=> Paid(i)
      BY <1>3, Zenon DEF UnmovedBut
    <2>2. (Settled(Doc("settlement", i)) <=> Paid(i)) /\ (Settled(Doc("settlement", i))' <=> Paid(i)')
      BY SettledByKind, SettledByKindNext
    <2> QED
      BY <1>3, <2>1, <2>2, Zenon
  <1>4. CASE i \in Expenses /\ e = Doc("expense", i)
    <2>1. Approved(i)' <=> Approved(i)
      BY <1>4, Zenon DEF UnmovedBut
    <2>2. (Settled(Doc("expense", i)) <=> Approved(i)) /\ (Settled(Doc("expense", i))' <=> Approved(i)')
      BY SettledByKind, SettledByKindNext
    <2> QED
      BY <1>4, <2>1, <2>2, Zenon
  <1>5. CASE i \in Complaints /\ e = Doc("reversal", i)
    <2>1. Reversed(i)' <=> Reversed(i)
      BY <1>5, Zenon DEF UnmovedBut
    <2>2. (Settled(Doc("reversal", i)) <=> Reversed(i)) /\ (Settled(Doc("reversal", i))' <=> Reversed(i)')
      BY SettledByKind, SettledByKindNext
    <2> QED
      BY <1>5, <2>1, <2>2, Zenon
  <1> QED
    BY <1>1, <1>2, <1>3, <1>4, <1>5, DocumentIsDoc

\* A posting for a document that was not settled and now is.
LEMMA OnePosting ==
  ASSUME LedgerInv, NEW d \in Documents, UnmovedBut({d}), ~Settled(d), Settled(d)',
         posted' = [posted EXCEPT ![d] = @ + 1]
  PROVE  PostedOnceIfSettled'
  <1>1. posted' = [e \in Documents |-> IF e = d THEN posted[d] + 1 ELSE posted[e]]
    BY DEF LedgerInv, LedgerShapes
  <1>2. posted[d] = 0
    BY DEF LedgerInv, PostedOnceIfSettled
  <1>3. ASSUME NEW e \in Documents PROVE posted'[e] = IF Settled(e)' THEN 1 ELSE 0
    <2>1. CASE e = d
      BY <1>1, <1>2, <2>1
    <2>2. CASE e # d
      <3>1. Settled(e)' <=> Settled(e)
        BY <2>2, UnmovedSettled
      <3> QED
        BY <1>1, <2>2, <3>1 DEF LedgerInv, PostedOnceIfSettled
    <2> QED
      BY <2>1, <2>2
  <1> QED
    BY <1>3 DEF PostedOnceIfSettled

\* No posting, and no record says anything new.
LEMMA NoPosting ==
  ASSUME LedgerInv, posted' = posted, UnmovedBut({})
  PROVE  PostedOnceIfSettled'
  <1>1. ASSUME NEW e \in Documents PROVE posted'[e] = IF Settled(e)' THEN 1 ELSE 0
    <2>1. Settled(e)' <=> Settled(e)
      BY UnmovedSettled
    <2> QED
      BY <2>1 DEF LedgerInv, PostedOnceIfSettled
  <1> QED
    BY <1>1 DEF PostedOnceIfSettled

-----------------------------------------------------------------------------
(* Tables *)

\* What a table that is left alone says.
LEMMA Untouched ==
  /\ collection' = collection => \A p \in Parcels : Posted(p)' <=> Posted(p)
  /\ remittance' = remittance => \A r \in Remittances : Handed(r)' <=> Handed(r)
  /\ settlement' = settlement => \A s \in Settlements : Paid(s)' <=> Paid(s)
  /\ expense' = expense => \A x \in Expenses : Approved(x)' <=> Approved(x)
  /\ complaint' = complaint => \A c \in Complaints : Reversed(c)' <=> Reversed(c)
  BY DEF Posted, Handed, Paid, Approved, Reversed

\* What an idle or busy clerk that is left alone keeps.
LEMMA ShapesUntouched ==
  ASSUME LedgerShapes
  PROVE  /\ collection' = collection =>
                Table(collection, Parcels, {"state", "driver", "payee", "amount"})'
         /\ remittance' = remittance =>
                Table(remittance, Remittances,
                      {"status", "driver", "hub", "expected", "counted", "variance"})'
         /\ settlement' = settlement =>
                Table(settlement, Settlements,
                      {"status", "merchant", "gross", "fees", "drafter"})'
         /\ expense' = expense => Table(expense, Expenses, {"status", "source", "amount"})'
         /\ complaint' = complaint =>
                /\ Table(complaint, Complaints,
                         {"status", "type", "parcel", "reversed", "keys"})'
                /\ (\A c \in Complaints : complaint[c].reversed \in BOOLEAN)'
         /\ clerk' = clerk => ClerkShape'
         /\ posted' = posted => (posted = [d \in Documents |-> posted[d]])'
  <1>1. clerk' = clerk => ClerkShape'
    BY DEF LedgerShapes, ClerkShape
  <1>2. posted' = posted => (posted = [d \in Documents |-> posted[d]])'
    BY DEF LedgerShapes
  <1>3. complaint' = complaint => (\A c \in Complaints : complaint[c].reversed \in BOOLEAN)'
    BY DEF LedgerShapes
  <1>4. /\ Table(collection, Parcels, {"state", "driver", "payee", "amount"})
        /\ Table(remittance, Remittances,
                 {"status", "driver", "hub", "expected", "counted", "variance"})
        /\ Table(settlement, Settlements, {"status", "merchant", "gross", "fees", "drafter"})
        /\ Table(expense, Expenses, {"status", "source", "amount"})
        /\ Table(complaint, Complaints, {"status", "type", "parcel", "reversed", "keys"})
    BY DEF LedgerShapes
  <1> QED
    BY <1>1, <1>2, <1>3, <1>4, Zenon

-----------------------------------------------------------------------------
(* Collected cash *)

LEMMA CollectKeeps ==
  ASSUME LedgerInv, NEW p \in Parcels, NEW d \in Drivers, NEW payee \in Merchants \cup {Tenant},
         NEW n \in Amounts, Collect(p, d, payee, n)
  PROVE  LedgerInv'
  <1> DEFINE row == [state |-> "sent", driver |-> d, payee |-> payee, amount |-> n]
             columns == {"state", "driver", "payee", "amount"}
  <1>1. collection' = [collection EXCEPT ![p] = row]
    BY DEF Collect
  <1>2. /\ Table(collection', Parcels, columns)
        /\ collection'[p] = row
        /\ \A q \in Parcels : q # p => collection'[q] = collection[q]
    BY <1>1 DEF LedgerInv, LedgerShapes, Table
  <1>3. LedgerShapes'
    BY <1>2, ShapesUntouched DEF LedgerInv, LedgerShapes, Collect, books
  <1>4. UnmovedBut({})
    <2>1. \A q \in Parcels : Posted(q)' <=> Posted(q)
      BY <1>2 DEF Posted, Collect
    <2> QED
      BY <2>1, Untouched DEF UnmovedBut, Collect
  <1>5. PostedOnceIfSettled'
    BY <1>4, NoPosting DEF Collect, books
  <1> QED
    BY <1>3, <1>5 DEF LedgerInv, CoveredOnce, Collect

LEMMA HandleCollectedKeeps ==
  ASSUME LedgerInv, NEW p \in Parcels, HandleCollected(p)
  PROVE  LedgerInv'
  <1> DEFINE columns == {"state", "driver", "payee", "amount"}
             doc == Doc("collection", p)
  <1>1. /\ collection' = [collection EXCEPT ![p].state = "posted"]
        /\ posted' = [posted EXCEPT ![doc] = @ + 1]
    BY DEF HandleCollected, PostTransaction
  <1>2. /\ Table(collection', Parcels, columns)
        /\ collection'[p].state = "posted"
        /\ \A q \in Parcels : q # p => collection'[q] = collection[q]
    BY <1>1 DEF LedgerInv, LedgerShapes, Table
  <1>3. LedgerShapes'
    BY <1>1, <1>2, ShapesUntouched DEF LedgerInv, LedgerShapes, HandleCollected
  <1>4. doc \in Documents
    BY DocIsDocument
  <1>5. UnmovedBut({doc})
    <2>1. \A q \in Parcels : Doc("collection", q) # doc => (Posted(q)' <=> Posted(q))
      BY <1>2 DEF Posted
    <2> QED
      BY <2>1, Untouched DEF UnmovedBut, HandleCollected
  <1>6. ~Settled(doc) /\ Settled(doc)'
    BY <1>2, <1>4, SettledByKind, SettledByKindNext
       DEF HandleCollected, HasPostedForEvent, Posted, LedgerInv, PostedOnceIfSettled
  <1>7. PostedOnceIfSettled'
    BY <1>1, <1>4, <1>5, <1>6, OnePosting
  <1> QED
    BY <1>3, <1>7 DEF LedgerInv, CoveredOnce, HandleCollected

-----------------------------------------------------------------------------
(* Remittances *)

RemittanceColumns == {"status", "driver", "hub", "expected", "counted", "variance"}

\* A remittance that is not confirmed, before and after.
LEMMA RemittanceUnmoved ==
  ASSUME LedgerInv, NEW r \in Remittances, Table(remittance', Remittances, RemittanceColumns),
         \A q \in Remittances : q # r => remittance'[q] = remittance[q],
         remittance[r].status # "CONFIRMED", remittance'[r].status # "CONFIRMED",
         UNCHANGED <<collection, settlement, covers, expense, complaint, clerk, books>>
  PROVE  LedgerInv'
  <1>1. LedgerShapes'
    BY ShapesUntouched DEF LedgerInv, LedgerShapes, books, RemittanceColumns
  <1>2. UnmovedBut({})
    <2>1. \A q \in Remittances : Handed(q)' <=> Handed(q)
      BY DEF Handed
    <2> QED
      BY <2>1, Untouched DEF UnmovedBut
  <1>3. PostedOnceIfSettled'
    BY <1>2, NoPosting DEF books
  <1> QED
    BY <1>1, <1>3 DEF LedgerInv, CoveredOnce

LEMMA SubmitKeeps ==
  ASSUME LedgerInv, NEW r \in Remittances, NEW d \in Drivers, NEW h \in Hubs,
         SubmitRemittance(r, d, h)
  PROVE  LedgerInv'
  <1>1. /\ Table(remittance', Remittances, RemittanceColumns)
        /\ \A q \in Remittances : q # r => remittance'[q] = remittance[q]
        /\ remittance'[r].status = "SUBMITTED"
    BY DEF LedgerInv, LedgerShapes, Table, SubmitRemittance, RemittanceColumns
  <1> QED
    BY <1>1, RemittanceUnmoved DEF SubmitRemittance

LEMMA MoveRemittanceKeeps ==
  ASSUME LedgerInv, NEW r \in Remittances, DisputeRemittance(r) \/ ResolveRemittance(r)
  PROVE  LedgerInv'
  <1>1. PICK from \in {"SUBMITTED", "DISPUTED"}, to \in {"DISPUTED", "RESOLVED"} :
            MoveRemittance(r, from, to)
    BY DEF DisputeRemittance, ResolveRemittance
  <1>2. /\ Table(remittance', Remittances, RemittanceColumns)
        /\ \A q \in Remittances : q # r => remittance'[q] = remittance[q]
        /\ remittance'[r].status = to
    BY <1>1 DEF LedgerInv, LedgerShapes, Table, MoveRemittance, RemittanceColumns
  <1> QED
    BY <1>1, <1>2, RemittanceUnmoved DEF MoveRemittance

LEMMA ConfirmKeeps ==
  ASSUME LedgerInv, NEW r \in Remittances, NEW n \in Amounts, ConfirmRemittance(r, n)
  PROVE  LedgerInv'
  <1> DEFINE doc == Doc("remittance", r)
  <1>1. /\ Table(remittance', Remittances, RemittanceColumns)
        /\ \A q \in Remittances : q # r => remittance'[q] = remittance[q]
        /\ remittance'[r].status = "CONFIRMED" /\ remittance'[r].counted = n
    <2>1. PICK row : row = [remittance[r] EXCEPT !.status = "CONFIRMED", !.counted = n,
                                                 !.variance = n - remittance[r].expected]
      OBVIOUS
    <2>2. remittance' = [remittance EXCEPT ![r] = row]
      BY <2>1, Zenon DEF ConfirmRemittance
    <2>3. Table(remittance, Remittances, RemittanceColumns)
      BY DEF LedgerInv, LedgerShapes, RemittanceColumns
    <2>4. /\ row = [k \in RemittanceColumns |-> row[k]]
          /\ row.status = "CONFIRMED" /\ row.counted = n
      BY <2>1, <2>3 DEF Table, RemittanceColumns
    <2> QED
      BY <2>2, <2>3, <2>4 DEF Table
  <1>2. /\ UNCHANGED <<collection, settlement, covers, expense, complaint, clerk>>
        /\ n > 0 => posted' = [posted EXCEPT ![doc] = @ + 1]
        /\ ~(n > 0) => posted' = posted
    <2>1. UNCHANGED <<collection, settlement, covers, expense, complaint, clerk>>
      BY DEF ConfirmRemittance
    <2>2. CASE n > 0
      BY <2>1, <2>2 DEF ConfirmRemittance, PostTransaction
    <2>3. CASE ~(n > 0)
      BY <2>1, <2>3 DEF ConfirmRemittance, books
    <2> QED
      BY <2>2, <2>3
  <1>3. posted' = [d \in Documents |-> posted'[d]]
    BY <1>2 DEF LedgerInv, LedgerShapes
  <1>4. LedgerShapes'
    BY <1>1, <1>2, <1>3, ShapesUntouched DEF LedgerInv, LedgerShapes, RemittanceColumns
  <1>5. doc \in Documents
    BY DocIsDocument
  <1>6. ~Settled(doc)
    BY SettledByKind DEF Handed, ConfirmRemittance, Confirmable
  <1>7. CASE n > 0
    <2>1. Settled(doc)'
      BY <1>1, <1>7, SettledByKindNext DEF Handed
    <2>2. UnmovedBut({doc})
      <3>1. \A q \in Remittances : Doc("remittance", q) # doc => (Handed(q)' <=> Handed(q))
        BY <1>1 DEF Handed
      <3> QED
        BY <1>2, <3>1, Untouched DEF UnmovedBut
    <2>3. PostedOnceIfSettled'
      BY <1>2, <1>5, <1>6, <1>7, <2>1, <2>2, OnePosting
    <2> QED
      BY <1>2, <1>4, <2>3 DEF LedgerInv, CoveredOnce
  <1>8. CASE ~(n > 0)
    <2>1. UnmovedBut({})
      <3>1. \A q \in Remittances : Handed(q)' <=> Handed(q)
        BY <1>1, <1>8 DEF Handed, ConfirmRemittance, Confirmable
      <3> QED
        BY <1>2, <3>1, Untouched DEF UnmovedBut
    <2>2. PostedOnceIfSettled'
      BY <1>2, <1>8, <2>1, NoPosting
    <2> QED
      BY <1>2, <1>4, <2>2 DEF LedgerInv, CoveredOnce
  <1> QED
    BY <1>7, <1>8

-----------------------------------------------------------------------------
(* Settlements *)

SettlementColumns == {"status", "merchant", "gross", "fees", "drafter"}

\* A clerk reads, or gives up: no row is touched.
LEMMA DraftReadsKeeps ==
  ASSUME LedgerInv, NEW u \in Clerks, (\E m \in Merchants : DraftReads(u, m)) \/ DraftAborts(u)
  PROVE  LedgerInv'
  <1>1. /\ UNCHANGED <<collection, remittance, settlement, covers, expense, complaint, books>>
        /\ \/ \E m \in Merchants : clerk' = [clerk EXCEPT ![u] =
                    [does |-> "draft", of |-> m, parcels |-> Settleable(m)]]
           \/ clerk' = [clerk EXCEPT ![u] = Idle]
    BY DEF DraftReads, DraftAborts
  <1>2. \A m \in Merchants : Settleable(m) \subseteq Parcels
    BY DEF Settleable
  <1>3. ClerkShape'
    <2>1. CASE clerk' = [clerk EXCEPT ![u] = Idle]
      BY <2>1 DEF LedgerInv, LedgerShapes, ClerkShape, Idle
    <2>2. ASSUME NEW m \in Merchants, NEW parcels \in SUBSET Parcels,
                 clerk' = [clerk EXCEPT ![u] =
                            [does |-> "draft", of |-> m, parcels |-> parcels]]
          PROVE  ClerkShape'
      BY <2>2 DEF LedgerInv, LedgerShapes, ClerkShape
    <2> QED
      BY <1>1, <1>2, <2>1, <2>2
  <1>4. LedgerShapes'
    BY <1>1, <1>3, ShapesUntouched DEF LedgerInv, LedgerShapes, books
  <1>5. UnmovedBut({})
    BY <1>1, Untouched DEF UnmovedBut
  <1>6. PostedOnceIfSettled'
    BY <1>1, <1>5, NoPosting DEF books
  <1> QED
    BY <1>1, <1>4, <1>6 DEF LedgerInv, CoveredOnce

\* The unique index refuses a parcel that has a line: the new lines are of
\* parcels that have none, and of one settlement.
LEMMA DraftWritesKeeps ==
  ASSUME LedgerInv, NEW u \in Clerks, NEW s \in Settlements, NEW fees \in Amounts,
         DraftWrites(u, s, fees)
  PROVE  LedgerInv'
  <1> DEFINE parcels == clerk[u].parcels
             lines == {[settlement |-> s, parcel |-> p] : p \in parcels}
  <1>1. /\ Table(settlement', Settlements, SettlementColumns)
        /\ \A q \in Settlements : q # s => settlement'[q] = settlement[q]
        /\ settlement'[s].status = "DRAFT" /\ settlement[s].status = "none"
    BY DEF LedgerInv, LedgerShapes, Table, DraftWrites, SettlementColumns
  <1>2. /\ UNCHANGED <<collection, remittance, expense, complaint, books>>
        /\ covers' = covers \cup lines /\ clerk' = [clerk EXCEPT ![u] = Idle]
        /\ parcels \cap Covered = {}
    BY DEF DraftWrites, NoLineTaken
  <1>3. parcels \subseteq Parcels
    BY DEF DraftWrites, LedgerInv, LedgerShapes, ClerkShape
  <1>4. ClerkShape'
    BY <1>2 DEF LedgerInv, LedgerShapes, ClerkShape, Idle
  <1>5. covers' \subseteq [settlement : Settlements, parcel : Parcels]
    BY <1>2, <1>3 DEF LedgerInv, LedgerShapes
  <1>6. LedgerShapes'
    BY <1>1, <1>2, <1>4, <1>5, ShapesUntouched DEF LedgerInv, LedgerShapes, books, SettlementColumns
  <1>7. UnmovedBut({})
    <2>1. \A q \in Settlements : Paid(q)' <=> Paid(q)
      BY <1>1 DEF Paid
    <2> QED
      BY <1>2, <2>1, Untouched DEF UnmovedBut
  <1>8. PostedOnceIfSettled'
    BY <1>2, <1>7, NoPosting DEF books
  <1>9. CoveredOnce'
    BY <1>2 DEF LedgerInv, CoveredOnce, Covered
  <1> QED
    BY <1>6, <1>8, <1>9 DEF LedgerInv

\* A settlement that is not paid, before and after; it may lose its lines.
LEMMA SettlementUnmoved ==
  ASSUME LedgerInv, NEW s \in Settlements, Table(settlement', Settlements, SettlementColumns),
         \A q \in Settlements : q # s => settlement'[q] = settlement[q],
         settlement[s].status # "PAID", settlement'[s].status # "PAID",
         covers' \subseteq covers,
         UNCHANGED <<collection, remittance, expense, complaint, clerk, books>>
  PROVE  LedgerInv'
  <1>1. LedgerShapes'
    BY ShapesUntouched DEF LedgerInv, LedgerShapes, books, SettlementColumns
  <1>2. UnmovedBut({})
    <2>1. \A q \in Settlements : Paid(q)' <=> Paid(q)
      BY DEF Paid
    <2> QED
      BY <2>1, Untouched DEF UnmovedBut
  <1>3. PostedOnceIfSettled'
    BY <1>2, NoPosting DEF books
  <1> QED
    BY <1>1, <1>3 DEF LedgerInv, CoveredOnce

LEMMA DecideSettlementKeeps ==
  ASSUME LedgerInv, NEW s \in Settlements,
         (\E u \in Clerks : ApproveSettlement(u, s)) \/ CancelSettlement(s)
  PROVE  LedgerInv'
  <1>1. PICK to \in {"APPROVED", "CANCELLED"} :
            settlement' = [settlement EXCEPT ![s].status = to]
    BY DEF ApproveSettlement, CancelSettlement
  <1>2. /\ covers' \subseteq covers /\ settlement[s].status # "PAID"
        /\ UNCHANGED <<collection, remittance, expense, complaint, clerk, books>>
    BY DEF ApproveSettlement, CancelSettlement, Cancellable
  <1>3. /\ Table(settlement', Settlements, SettlementColumns)
        /\ \A q \in Settlements : q # s => settlement'[q] = settlement[q]
        /\ settlement'[s].status = to
    BY <1>1 DEF LedgerInv, LedgerShapes, Table, SettlementColumns
  <1> QED
    BY <1>2, <1>3, SettlementUnmoved

LEMMA PayKeeps ==
  ASSUME LedgerInv, NEW s \in Settlements, PaySettlement(s)
  PROVE  LedgerInv'
  <1> DEFINE doc == Doc("settlement", s)
  <1>1. /\ Table(settlement', Settlements, SettlementColumns)
        /\ \A q \in Settlements : q # s => settlement'[q] = settlement[q]
        /\ settlement'[s].status = "PAID" /\ settlement[s].status = "APPROVED"
    BY DEF LedgerInv, LedgerShapes, Table, PaySettlement, SettlementColumns
  <1>2. /\ UNCHANGED <<collection, remittance, covers, expense, complaint, clerk>>
        /\ posted' = [posted EXCEPT ![doc] = @ + 1]
    BY DEF PaySettlement, PostTransaction
  <1>3. LedgerShapes'
    BY <1>1, <1>2, ShapesUntouched DEF LedgerInv, LedgerShapes, SettlementColumns
  <1>4. doc \in Documents
    BY DocIsDocument
  <1>5. UnmovedBut({doc})
    <2>1. \A q \in Settlements : Doc("settlement", q) # doc => (Paid(q)' <=> Paid(q))
      BY <1>1 DEF Paid
    <2> QED
      BY <1>2, <2>1, Untouched DEF UnmovedBut
  <1>6. ~Settled(doc) /\ Settled(doc)'
    BY <1>1, SettledByKind, SettledByKindNext DEF Paid
  <1>7. PostedOnceIfSettled'
    BY <1>2, <1>4, <1>5, <1>6, OnePosting
  <1> QED
    BY <1>2, <1>3, <1>7 DEF LedgerInv, CoveredOnce

-----------------------------------------------------------------------------
(* Expenses *)

ExpenseColumns == {"status", "source", "amount"}

LEMMA CreateExpenseKeeps ==
  ASSUME LedgerInv, NEW x \in Expenses, NEW source, NEW n \in Amounts, CreateExpense(x, source, n)
  PROVE  LedgerInv'
  <1>1. /\ Table(expense', Expenses, ExpenseColumns)
        /\ \A q \in Expenses : q # x => expense'[q] = expense[q]
        /\ expense'[x].status = "DRAFT" /\ expense[x].status = "none"
    BY DEF LedgerInv, LedgerShapes, Table, CreateExpense, ExpenseColumns
  <1>2. LedgerShapes'
    BY <1>1, ShapesUntouched DEF LedgerInv, LedgerShapes, CreateExpense, books, ExpenseColumns
  <1>3. UnmovedBut({})
    <2>1. \A q \in Expenses : Approved(q)' <=> Approved(q)
      BY <1>1 DEF Approved
    <2> QED
      BY <2>1, Untouched DEF UnmovedBut, CreateExpense
  <1>4. PostedOnceIfSettled'
    BY <1>3, NoPosting DEF CreateExpense, books
  <1> QED
    BY <1>2, <1>4 DEF LedgerInv, CoveredOnce, CreateExpense

LEMMA ReviewKeeps ==
  ASSUME LedgerInv, NEW u \in Clerks, NEW x \in Expenses, NEW verdict \in {"APPROVED", "REJECTED"},
         ReviewExpense(u, x, verdict)
  PROVE  LedgerInv'
  <1>1. ClerkShape'
    BY DEF LedgerInv, LedgerShapes, ClerkShape, ReviewExpense
  <1>2. LedgerShapes'
    BY <1>1, ShapesUntouched DEF LedgerInv, LedgerShapes, ReviewExpense, books
  <1>3. UnmovedBut({})
    BY Untouched DEF UnmovedBut, ReviewExpense
  <1>4. PostedOnceIfSettled'
    BY <1>3, NoPosting DEF ReviewExpense, books
  <1> QED
    BY <1>2, <1>4 DEF LedgerInv, CoveredOnce, ReviewExpense

\* The UPDATE finds the draft, or another decision came first and nothing is
\* posted.
LEMMA DecideExpenseKeeps ==
  ASSUME LedgerInv, NEW u \in Clerks, DecideExpense(u)
  PROVE  LedgerInv'
  <1>1. PICK x \in Expenses, verdict \in {"APPROVED", "REJECTED"} :
            clerk[u].of = x /\ clerk[u].does = verdict
    BY DEF LedgerInv, LedgerShapes, ClerkShape, DecideExpense
  <1> DEFINE doc == Doc("expense", x)
  <1>2. /\ UNCHANGED <<collection, remittance, settlement, covers, complaint>>
        /\ clerk' = [clerk EXCEPT ![u] = Idle]
    BY DEF DecideExpense
  <1>3. ClerkShape'
    BY <1>2 DEF LedgerInv, LedgerShapes, ClerkShape, Idle
  <1>4. CASE ~StillDraft(x)
    <2>1. expense' = expense /\ posted' = posted
      BY <1>1, <1>4 DEF DecideExpense, books
    <2>2. LedgerShapes'
      BY <1>2, <1>3, <2>1, ShapesUntouched DEF LedgerInv, LedgerShapes
    <2>3. UnmovedBut({})
      BY <1>2, <2>1, Untouched DEF UnmovedBut
    <2>4. PostedOnceIfSettled'
      BY <2>1, <2>3, NoPosting
    <2> QED
      BY <1>2, <2>2, <2>4 DEF LedgerInv, CoveredOnce
  <1>5. CASE StillDraft(x)
    <2>1. /\ Table(expense', Expenses, ExpenseColumns)
          /\ \A q \in Expenses : q # x => expense'[q] = expense[q]
          /\ expense'[x].status = verdict /\ expense[x].status = "DRAFT"
      <3>1. /\ expense' = [expense EXCEPT ![x].status = verdict]
            /\ expense[x].status = "DRAFT"
        BY <1>1, <1>5 DEF DecideExpense, StillDraft
      <3> QED
        BY <3>1 DEF LedgerInv, LedgerShapes, Table, ExpenseColumns
    <2>2. doc \in Documents
      BY <1>1, DocIsDocument
    <2>3. CASE verdict = "APPROVED"
      <3>1. posted' = [posted EXCEPT ![doc] = @ + 1]
        BY <1>1, <1>5, <2>3 DEF DecideExpense, PostTransaction
      <3>2. posted' = [d \in Documents |-> posted'[d]]
        BY <3>1 DEF LedgerInv, LedgerShapes
      <3>3. LedgerShapes'
        BY <1>2, <1>3, <2>1, <3>2, ShapesUntouched DEF LedgerInv, LedgerShapes, ExpenseColumns
      <3>4. UnmovedBut({doc})
        <4>1. \A q \in Expenses : Doc("expense", q) # doc => (Approved(q)' <=> Approved(q))
          BY <2>1 DEF Approved
        <4> QED
          BY <1>2, <4>1, Untouched DEF UnmovedBut
      <3>5. ~Settled(doc) /\ Settled(doc)'
        BY <2>1, <2>3, SettledByKind, SettledByKindNext DEF Approved
      <3>6. PostedOnceIfSettled'
        BY <2>2, <3>1, <3>4, <3>5, OnePosting
      <3> QED
        BY <1>2, <3>3, <3>6 DEF LedgerInv, CoveredOnce
    <2>4. CASE verdict # "APPROVED"
      <3>1. posted' = posted
        BY <1>1, <1>5, <2>4 DEF DecideExpense, books
      <3>2. LedgerShapes'
        BY <1>2, <1>3, <2>1, <3>1, ShapesUntouched DEF LedgerInv, LedgerShapes, ExpenseColumns
      <3>3. UnmovedBut({})
        <4>1. \A q \in Expenses : Approved(q)' <=> Approved(q)
          BY <2>1, <2>4 DEF Approved
        <4> QED
          BY <1>2, <4>1, Untouched DEF UnmovedBut
      <3>4. PostedOnceIfSettled'
        BY <3>1, <3>3, NoPosting
      <3> QED
        BY <1>2, <3>2, <3>4 DEF LedgerInv, CoveredOnce
    <2> QED
      BY <2>3, <2>4
  <1> QED
    BY <1>4, <1>5

-----------------------------------------------------------------------------
(* Complaints *)

ComplaintColumns == {"status", "type", "parcel", "reversed", "keys"}

LEMMA RaiseKeeps ==
  ASSUME LedgerInv, NEW c \in Complaints, NEW type, NEW p, RaiseComplaint(c, type, p)
  PROVE  LedgerInv'
  <1>1. /\ Table(complaint', Complaints, ComplaintColumns)
        /\ \A d \in Complaints : d # c => complaint'[d] = complaint[d]
        /\ complaint'[c].reversed = complaint[c].reversed
    <2>1. PICK row : row = [complaint[c] EXCEPT !.status = "OPEN", !.type = type, !.parcel = p]
      OBVIOUS
    <2>2. complaint' = [complaint EXCEPT ![c] = row]
      BY <2>1, Zenon DEF RaiseComplaint
    <2>3. Table(complaint, Complaints, ComplaintColumns)
      BY DEF LedgerInv, LedgerShapes, ComplaintColumns
    <2>4. row = [k \in ComplaintColumns |-> row[k]] /\ row.reversed = complaint[c].reversed
      BY <2>1, <2>3 DEF Table, ComplaintColumns
    <2> QED
      BY <2>2, <2>3, <2>4 DEF Table
  <1>2. \A d \in Complaints : complaint'[d].reversed = complaint[d].reversed
    BY <1>1
  <1>3. LedgerShapes'
    BY <1>1, <1>2, ShapesUntouched DEF LedgerInv, LedgerShapes, RaiseComplaint, books, ComplaintColumns
  <1>4. UnmovedBut({})
    <2>1. \A d \in Complaints : Reversed(d)' <=> Reversed(d)
      BY <1>2 DEF Reversed
    <2> QED
      BY <2>1, Untouched DEF UnmovedBut, RaiseComplaint
  <1>5. PostedOnceIfSettled'
    BY <1>4, NoPosting DEF RaiseComplaint, books
  <1> QED
    BY <1>3, <1>5 DEF LedgerInv, CoveredOnce, RaiseComplaint

LEMMA MoveComplaintKeeps ==
  ASSUME LedgerInv, NEW c \in Complaints, NEW to, NEW reverse \in BOOLEAN, NEW key,
         MoveComplaint(c, to, reverse, key)
  PROVE  LedgerInv'
  <1> DEFINE doc == Doc("reversal", c)
  <1>1. /\ Table(complaint', Complaints, ComplaintColumns)
        /\ \A d \in Complaints : d # c => complaint'[d] = complaint[d]
        /\ complaint'[c].reversed = (complaint[c].reversed \/ reverse)
    <2> DEFINE row == Decided(complaint[c], to, reverse, key)
    <2>2. complaint' = [complaint EXCEPT ![c] = row]
      BY Zenon DEF MoveComplaint
    <2>3. Table(complaint, Complaints, ComplaintColumns)
      BY DEF LedgerInv, LedgerShapes, ComplaintColumns
    <2>4. /\ row = [k \in ComplaintColumns |-> row[k]]
          /\ row.reversed = (complaint[c].reversed \/ reverse)
      BY <2>3 DEF Table, ComplaintColumns, Decided
    <2> HIDE DEF row
    <2> QED
      BY <2>2, <2>3, <2>4 DEF Table
  <1>2. \A d \in Complaints : complaint'[d].reversed \in BOOLEAN
    BY <1>1 DEF LedgerInv, LedgerShapes
  <1>3. UNCHANGED <<collection, remittance, settlement, covers, expense, clerk>>
    BY DEF MoveComplaint
  <1>4. \A d \in Complaints : d # c => (Reversed(d)' <=> Reversed(d))
    BY <1>1 DEF Reversed
  <1>5. CASE reverse
    <2>1. /\ posted' = [posted EXCEPT ![doc] = @ + 1]
          /\ ~Reversed(c)
      BY <1>5 DEF MoveComplaint, ReverseCod, Reversible, PostTransaction, Reversed
    <2>2. posted' = [d \in Documents |-> posted'[d]]
      BY <2>1 DEF LedgerInv, LedgerShapes
    <2>3. LedgerShapes'
      BY <1>1, <1>2, <1>3, <2>2, ShapesUntouched DEF LedgerInv, LedgerShapes, ComplaintColumns
    <2>4. doc \in Documents
      BY DocIsDocument
    <2>5. UnmovedBut({doc})
      <3>1. \A d \in Complaints : Doc("reversal", d) # doc => (Reversed(d)' <=> Reversed(d))
        BY <1>4
      <3> QED
        BY <1>3, <3>1, Untouched DEF UnmovedBut
    <2>6. Reversed(c)'
      BY <1>1, <1>5 DEF Reversed
    <2>7. ~Settled(doc) /\ Settled(doc)'
      BY <2>1, <2>6, SettledByKind, SettledByKindNext
    <2>8. PostedOnceIfSettled'
      BY <2>1, <2>4, <2>5, <2>7, OnePosting
    <2> QED
      BY <1>3, <2>3, <2>8 DEF LedgerInv, CoveredOnce
  <1>6. CASE ~reverse
    <2>1. posted' = posted
      BY <1>6 DEF MoveComplaint, books
    <2>2. LedgerShapes'
      BY <1>1, <1>2, <1>3, <2>1, ShapesUntouched DEF LedgerInv, LedgerShapes, ComplaintColumns
    <2>3. Reversed(c)' <=> Reversed(c)
      BY <1>1, <1>6 DEF Reversed, LedgerInv, LedgerShapes
    <2>4. UnmovedBut({})
      BY <1>3, <1>4, <2>3, Untouched DEF UnmovedBut
    <2>5. PostedOnceIfSettled'
      BY <2>1, <2>4, NoPosting
    <2> QED
      BY <1>3, <2>2, <2>5 DEF LedgerInv, CoveredOnce
  <1> QED
    BY <1>5, <1>6

-----------------------------------------------------------------------------
(* The specification *)

LEMMA LedgerStarts == LedgerInit => LedgerInv
  <1> SUFFICES ASSUME LedgerInit PROVE LedgerInv
    OBVIOUS
  <1>1. /\ Table(collection, Parcels, {"state", "driver", "payee", "amount"})
        /\ Table(remittance, Remittances, RemittanceColumns)
        /\ Table(settlement, Settlements, SettlementColumns)
        /\ Table(expense, Expenses, ExpenseColumns)
        /\ Table(complaint, Complaints, ComplaintColumns)
    BY DEF LedgerInit, Table, NoCollection, NoRemittance, NoSettlement, NoExpense, NoComplaint,
           RemittanceColumns, SettlementColumns, ExpenseColumns, ComplaintColumns
  <1>2. LedgerShapes
    BY <1>1 DEF LedgerInit, LedgerShapes, ClerkShape, NoComplaint, Idle,
           RemittanceColumns, SettlementColumns, ExpenseColumns, ComplaintColumns
  <1>3. /\ \A p \in Parcels : ~Posted(p)
        /\ \A r \in Remittances : ~Handed(r)
        /\ \A s \in Settlements : ~Paid(s)
        /\ \A x \in Expenses : ~Approved(x)
        /\ \A c \in Complaints : ~Reversed(c)
    BY DEF LedgerInit, NoCollection, NoRemittance, NoSettlement, NoExpense, NoComplaint,
           Posted, Handed, Paid, Approved, Reversed
  <1>4. ASSUME NEW d \in Documents PROVE ~Settled(d)
    <2>1. \/ d.of \in Parcels /\ d = Doc("collection", d.of)
          \/ d.of \in Remittances /\ d = Doc("remittance", d.of)
          \/ d.of \in Settlements /\ d = Doc("settlement", d.of)
          \/ d.of \in Expenses /\ d = Doc("expense", d.of)
          \/ d.of \in Complaints /\ d = Doc("reversal", d.of)
      BY DocumentIsDoc
    <2>2. /\ Settled(Doc("collection", d.of)) <=> Posted(d.of)
          /\ Settled(Doc("remittance", d.of)) <=> Handed(d.of)
          /\ Settled(Doc("settlement", d.of)) <=> Paid(d.of)
          /\ Settled(Doc("expense", d.of)) <=> Approved(d.of)
          /\ Settled(Doc("reversal", d.of)) <=> Reversed(d.of)
      BY SettledByKind
    <2> QED
      BY <1>3, <2>1, <2>2, Zenon
  <1>5. PostedOnceIfSettled
    BY <1>4 DEF PostedOnceIfSettled, LedgerInit
  <1> QED
    BY <1>2, <1>5 DEF LedgerInv, CoveredOnce, LedgerInit

LEMMA LedgerStepKeeps == LedgerInv /\ [LedgerNext]_ledgerVars => LedgerInv'
  <1> SUFFICES ASSUME LedgerInv, [LedgerNext]_ledgerVars PROVE LedgerInv'
    OBVIOUS
  <1>1. CASE \/ \E p \in Parcels, d \in Drivers, payee \in Merchants \cup {Tenant}, n \in Amounts :
                    Collect(p, d, payee, n)
             \/ \E p \in Parcels : HandleCollected(p)
    BY <1>1, CollectKeeps, HandleCollectedKeeps
  <1>2. CASE \/ \E r \in Remittances, d \in Drivers, h \in Hubs : SubmitRemittance(r, d, h)
             \/ \E r \in Remittances, n \in Amounts : ConfirmRemittance(r, n)
             \/ \E r \in Remittances : DisputeRemittance(r) \/ ResolveRemittance(r)
    BY <1>2, SubmitKeeps, ConfirmKeeps, MoveRemittanceKeeps
  <1>3. CASE \/ \E u \in Clerks, m \in Merchants : DraftReads(u, m)
             \/ \E u \in Clerks, s \in Settlements, n \in Amounts : DraftWrites(u, s, n)
             \/ \E u \in Clerks : DraftAborts(u)
    BY <1>3, DraftReadsKeeps, DraftWritesKeeps
  <1>4. CASE \/ \E u \in Clerks, s \in Settlements : ApproveSettlement(u, s)
             \/ \E s \in Settlements : PaySettlement(s) \/ CancelSettlement(s)
    BY <1>4, DecideSettlementKeeps, PayKeeps
  <1>5. CASE \/ \E x \in Expenses, source \in Hubs \cup {Tenant}, n \in Amounts :
                    CreateExpense(x, source, n)
             \/ \E u \in Clerks, x \in Expenses, v \in {"APPROVED", "REJECTED"} :
                    ReviewExpense(u, x, v)
             \/ \E u \in Clerks : DecideExpense(u)
    BY <1>5, CreateExpenseKeeps, ReviewKeeps, DecideExpenseKeeps
  <1>6. CASE \/ \E c \in Complaints, t \in {"COD_DISPUTE", "OTHER"}, p \in Parcels \cup {Nothing} :
                    RaiseComplaint(c, t, p)
             \/ \E c \in Complaints, to \in {"INVESTIGATING", "ESCALATED"} \cup ClosedStatuses,
                  reverse \in BOOLEAN, k \in Keys : MoveComplaint(c, to, reverse, k)
    BY <1>6, RaiseKeeps, MoveComplaintKeeps
  <1>7. CASE UNCHANGED ledgerVars
    <2>1. /\ UNCHANGED <<collection, remittance, settlement, covers, expense, complaint, clerk>>
          /\ posted' = posted
      BY <1>7 DEF ledgerVars, books
    <2>2. LedgerShapes'
      BY <2>1, ShapesUntouched DEF LedgerInv, LedgerShapes
    <2>3. UnmovedBut({})
      BY <2>1, Untouched DEF UnmovedBut
    <2>4. PostedOnceIfSettled'
      BY <2>1, <2>3, NoPosting
    <2> QED
      BY <2>1, <2>2, <2>4 DEF LedgerInv, CoveredOnce
  <1> QED
    BY <1>1, <1>2, <1>3, <1>4, <1>5, <1>6, <1>7 DEF LedgerNext

LEMMA LedgerAlways == LedgerSpec => []LedgerInv
  BY LedgerStarts, LedgerStepKeeps, PTL DEF LedgerSpec

\* A collection, remittance, settlement, expense or reversal has posted exactly
\* once if its record says it is settled, and never if not: redelivery, retries and
\* two people who decide at once change nothing of it.
THEOREM DocumentsPostOnce == LedgerSpec => []PostedOnceIfSettled
  <1>1. LedgerInv => PostedOnceIfSettled
    BY DEF LedgerInv
  <1> QED
    BY <1>1, LedgerAlways, PTL

\* No parcel is on two settlements that stand, however many drafts read the same
\* parcels: the first half of PaidOutOnce.
THEOREM ParcelsAreCoveredOnce == LedgerSpec => []CoveredOnce
  <1>1. LedgerInv => CoveredOnce
    BY DEF LedgerInv
  <1> QED
    BY <1>1, LedgerAlways, PTL

-----------------------------------------------------------------------------
(* The balances and the sums: a second invariant, on top of the first *)

Effects(a) == [d \in Documents |-> Effect(EntriesOf(d), a)]
BookedDocs == {d \in Documents : posted[d] > 0}
Standing(s) == settlement[s].status \in {"DRAFT", "APPROVED", "PAID"}
ParcelsOf(s) == {c.parcel : c \in {k \in covers : k.settlement = s}}

\* The amounts are numbers.
Amounted ==
    /\ \A p \in Parcels : collection[p].amount \in Nat
    /\ \A r \in Remittances : remittance[r].counted \in Nat
    /\ \A s \in Settlements : settlement[s].gross \in Int /\ settlement[s].fees \in Int
    /\ \A x \in Expenses : expense[x].amount \in Nat

\* What refers to a collection refers to one that has posted.
CitedByComplaints ==
    \A c \in Complaints :
        /\ complaint[c].parcel \in Parcels \cup {Nothing}
        /\ complaint[c].status = "none" => ~Reversed(c)
        /\ Reversed(c) => complaint[c].parcel \in Parcels /\ Posted(complaint[c].parcel)
CitedByClerks ==
    \A u \in Clerks : clerk[u].does = "draft" => \A p \in clerk[u].parcels : Posted(p)
CitedByCovers == \A c \in covers : Posted(c.parcel) /\ Standing(c.settlement)
Cited == CitedByComplaints /\ CitedByClerks /\ CitedByCovers

\* A settlement that was not cancelled pays what its parcels collected.
Totalled == \A s \in Settlements : Standing(s) => settlement[s].gross = Gross(ParcelsOf(s))

\* The balances, the finitely many documents that have posted, and the sums.
Summed ==
    /\ balance \in [Accounts -> Int]
    /\ IsFiniteSet(BookedDocs)
    /\ \A a \in Accounts :
        /\ \A d \in BookedDocs : Effect(EntriesOf(d), a) \in Int
        /\ balance[a] = SumFunctionOnSet(Effects(a), BookedDocs)

BooksInv == LedgerInv /\ Amounted /\ Cited /\ Totalled /\ Summed

\* What a document that has settled says of the money stays as it is.
SettledKept ==
    /\ \A p \in Parcels : Posted(p) =>
        /\ Posted(p)'
        /\ collection'[p].driver = collection[p].driver
        /\ collection'[p].payee = collection[p].payee
        /\ collection'[p].amount = collection[p].amount
    /\ \A r \in Remittances : Handed(r) =>
        /\ remittance'[r].hub = remittance[r].hub
        /\ remittance'[r].driver = remittance[r].driver
        /\ remittance'[r].counted = remittance[r].counted
    /\ \A s \in Settlements : Paid(s) =>
        /\ settlement'[s].merchant = settlement[s].merchant
        /\ settlement'[s].gross = settlement[s].gross
        /\ settlement'[s].fees = settlement[s].fees
    /\ \A x \in Expenses : Approved(x) =>
        expense'[x].source = expense[x].source /\ expense'[x].amount = expense[x].amount
    /\ \A c \in Complaints : Reversed(c) => complaint'[c].parcel = complaint[c].parcel

LEMMA KeptUntouched ==
  /\ collection' = collection =>
        \A p \in Parcels : Posted(p) =>
            /\ Posted(p)'
            /\ collection'[p].driver = collection[p].driver
            /\ collection'[p].payee = collection[p].payee
            /\ collection'[p].amount = collection[p].amount
  /\ remittance' = remittance =>
        \A r \in Remittances : Handed(r) =>
            /\ remittance'[r].hub = remittance[r].hub
            /\ remittance'[r].driver = remittance[r].driver
            /\ remittance'[r].counted = remittance[r].counted
  /\ settlement' = settlement =>
        \A s \in Settlements : Paid(s) =>
            /\ settlement'[s].merchant = settlement[s].merchant
            /\ settlement'[s].gross = settlement[s].gross
            /\ settlement'[s].fees = settlement[s].fees
  /\ expense' = expense =>
        \A x \in Expenses : Approved(x) =>
            expense'[x].source = expense[x].source /\ expense'[x].amount = expense[x].amount
  /\ complaint' = complaint =>
        \A c \in Complaints : Reversed(c) => complaint'[c].parcel = complaint[c].parcel
  BY DEF Posted

-----------------------------------------------------------------------------
(* Entries *)

LEMMA EntriesByKind ==
  ASSUME NEW i
  PROVE  /\ EntriesOf(Doc("collection", i)) = CollectionLines(i)
         /\ EntriesOf(Doc("remittance", i)) = RemittanceLines(i, remittance[i].counted)
         /\ EntriesOf(Doc("settlement", i)) = SettlementLines(i)
         /\ EntriesOf(Doc("expense", i)) = ExpenseLines(i)
         /\ EntriesOf(Doc("reversal", i)) = {Flip(l) : l \in CollectionLines(complaint[i].parcel)}
  <1>1. EntriesOf(Doc("collection", i)) = CollectionLines(i)
    BY SMT DEF EntriesOf, Doc
  <1>2. EntriesOf(Doc("remittance", i)) = RemittanceLines(i, remittance[i].counted)
    BY SMT DEF EntriesOf, Doc
  <1>3. EntriesOf(Doc("settlement", i)) = SettlementLines(i)
    BY SMT DEF EntriesOf, Doc
  <1>4. EntriesOf(Doc("expense", i)) = ExpenseLines(i)
    BY SMT DEF EntriesOf, Doc
  <1>5. EntriesOf(Doc("reversal", i)) = {Flip(l) : l \in CollectionLines(complaint[i].parcel)}
    BY SMT DEF EntriesOf, Doc
  <1> QED
    BY <1>1, <1>2, <1>3, <1>4, <1>5

LEMMA EntriesByKindNext ==
  ASSUME NEW CONSTANT i
  PROVE  /\ EntriesOf(Doc("collection", i))' = CollectionLines(i)'
         /\ EntriesOf(Doc("remittance", i))' = RemittanceLines(i, remittance[i].counted)'
         /\ EntriesOf(Doc("settlement", i))' = SettlementLines(i)'
         /\ EntriesOf(Doc("expense", i))' = ExpenseLines(i)'
         /\ EntriesOf(Doc("reversal", i))' = {Flip(l) : l \in CollectionLines(complaint[i].parcel)}'
  <1>1. EntriesOf(Doc("collection", i))' = CollectionLines(i)'
    BY SMT DEF EntriesOf, Doc
  <1>2. EntriesOf(Doc("remittance", i))' = RemittanceLines(i, remittance[i].counted)'
    BY SMT DEF EntriesOf, Doc
  <1>3. EntriesOf(Doc("settlement", i))' = SettlementLines(i)'
    BY SMT DEF EntriesOf, Doc
  <1>4. EntriesOf(Doc("expense", i))' = ExpenseLines(i)'
    BY SMT DEF EntriesOf, Doc
  <1>5. EntriesOf(Doc("reversal", i))' = {Flip(l) : l \in CollectionLines(complaint[i].parcel)}'
    BY SMT DEF EntriesOf, Doc
  <1> QED
    BY <1>1, <1>2, <1>3, <1>4, <1>5

LEMMA EntriesKept ==
  ASSUME BooksInv, SettledKept, NEW CONSTANT e \in Documents, posted[e] > 0
  PROVE  EntriesOf(e)' = EntriesOf(e)
  <1>1. Settled(e)
    BY DEF BooksInv, LedgerInv, PostedOnceIfSettled
  <1> DEFINE i == e.of
  <1>2. CASE i \in Parcels /\ e = Doc("collection", i)
    <2>1. Posted(i)
      BY <1>1, <1>2, SettledByKind
    <2>2. CollectionLines(i)' = CollectionLines(i)
      BY <1>2, <2>1 DEF SettledKept, CollectionLines
    <2> QED
      BY <1>2, <2>2, EntriesByKind, EntriesByKindNext, Zenon
  <1>3. CASE i \in Remittances /\ e = Doc("remittance", i)
    <2>1. Handed(i)
      BY <1>1, <1>3, SettledByKind
    <2>2. RemittanceLines(i, remittance[i].counted)' = RemittanceLines(i, remittance[i].counted)
      BY <1>3, <2>1 DEF SettledKept, RemittanceLines
    <2> QED
      BY <1>3, <2>2, EntriesByKind, EntriesByKindNext, Zenon
  <1>4. CASE i \in Settlements /\ e = Doc("settlement", i)
    <2>1. Paid(i)
      BY <1>1, <1>4, SettledByKind
    <2>2. SettlementLines(i)' = SettlementLines(i)
      BY <1>4, <2>1 DEF SettledKept, SettlementLines
    <2> QED
      BY <1>4, <2>2, EntriesByKind, EntriesByKindNext, Zenon
  <1>5. CASE i \in Expenses /\ e = Doc("expense", i)
    <2>1. Approved(i)
      BY <1>1, <1>5, SettledByKind
    <2>2. ExpenseLines(i)' = ExpenseLines(i)
      BY <1>5, <2>1 DEF SettledKept, ExpenseLines
    <2> QED
      BY <1>5, <2>2, EntriesByKind, EntriesByKindNext, Zenon
  <1>6. CASE i \in Complaints /\ e = Doc("reversal", i)
    <2>1. Reversed(i)
      BY <1>1, <1>6, SettledByKind
    <2>2. /\ complaint[i].parcel \in Parcels /\ Posted(complaint[i].parcel)
          /\ complaint'[i].parcel = complaint[i].parcel
      BY <1>6, <2>1 DEF SettledKept, BooksInv, Cited, CitedByComplaints
    <2>3. CollectionLines(complaint[i].parcel)' = CollectionLines(complaint[i].parcel)
      BY <2>2 DEF SettledKept, CollectionLines
    <2>4. {Flip(l) : l \in CollectionLines(complaint[i].parcel)}'
            = {Flip(l) : l \in CollectionLines(complaint[i].parcel)}
      BY <2>3
    <2> QED
      BY <1>6, <2>4, EntriesByKind, EntriesByKindNext, Zenon
  <1> QED
    BY <1>2, <1>3, <1>4, <1>5, <1>6, DocumentIsDoc

-----------------------------------------------------------------------------
(* What a step does to the sums *)

LEMMA PairIsFinite == ASSUME NEW x, NEW y PROVE IsFiniteSet({x, y})
  <1>1. IsFiniteSet({x} \cup {y})
    BY FS_Singleton, FS_AddElement
  <1>2. {x} \cup {y} = {x, y}
    OBVIOUS
  <1> QED
    BY <1>1, <1>2

LEMMA EffectIsInt ==
  ASSUME NEW lines, IsFiniteSet(lines), \A l \in lines : l.amount \in Int, NEW a
  PROVE  Effect(lines, a) \in Int
  <1> DEFINE f == [l \in lines |-> BalanceDelta(l)]
             S == {l \in lines : l.account = a}
  <1>1. IsFiniteSet(S)
    BY FS_Subset
  <1>2. \A l \in S : f[l] \in Int
    BY DEF BalanceDelta
  <1> HIDE DEF f, S
  <1>3. SumFunctionOnSet(f, S) \in Int
    BY <1>1, <1>2, SumInt
  <1> QED
    BY <1>3 DEF Effect, f, S

\* A step that posts nothing.
LEMMA SumsStand ==
  ASSUME BooksInv, SettledKept, posted' = posted, balance' = balance
  PROVE  Summed'
  <1>1. BookedDocs' = BookedDocs
    BY DEF BookedDocs
  <1>2. \A d \in BookedDocs : EntriesOf(d)' = EntriesOf(d)
    BY EntriesKept DEF BookedDocs
  <1>3. ASSUME NEW CONSTANT a \in Accounts
        PROVE  /\ (\A d \in BookedDocs : Effect(EntriesOf(d), a) \in Int)'
               /\ (balance[a] = SumFunctionOnSet(Effects(a), BookedDocs))'
    <2>1. \A d \in BookedDocs : Effects(a)'[d] = Effects(a)[d]
      BY <1>2 DEF Effects, Effect, BookedDocs
    <2>2. SumFunctionOnSet(Effects(a)', BookedDocs) = SumFunctionOnSet(Effects(a), BookedDocs)
      BY <2>1, SumSame DEF BooksInv, Summed
    <2>3. \A d \in BookedDocs : Effects(a)'[d] \in Int
      BY <2>1 DEF BooksInv, Summed, Effects, BookedDocs
    <2>4. (balance[a] = SumFunctionOnSet(Effects(a), BookedDocs))'
      BY <1>1, <2>2 DEF BooksInv, Summed
    <2>5. (\A d \in BookedDocs : Effect(EntriesOf(d), a) \in Int)'
      BY <1>1, <2>3 DEF Effects, BookedDocs
    <2> QED
      BY <2>4, <2>5
  <1> QED
    BY <1>1, <1>3 DEF BooksInv, Summed

\* A step that posts the entries of a document that had none.
LEMMA SumsGrow ==
  ASSUME BooksInv, SettledKept, NEW CONSTANT d \in Documents, NEW lines, ~Settled(d),
         posted' = [posted EXCEPT ![d] = @ + 1],
         balance' = [a \in Accounts |-> Moved(a, lines)],
         EntriesOf(d)' = lines, IsFiniteSet(lines), \A l \in lines : l.amount \in Int
  PROVE  Summed'
  <1>1. /\ BookedDocs' = BookedDocs \cup {d}
        /\ d \notin BookedDocs
    <2>1. \A e \in Documents : posted'[e] = IF e = d THEN posted[d] + 1 ELSE posted[e]
      BY DEF BooksInv, LedgerInv, LedgerShapes
    <2>2. posted[d] = 0
      BY DEF BooksInv, LedgerInv, PostedOnceIfSettled
    <2> QED
      BY <2>1, <2>2 DEF BookedDocs
  <1>2. \A e \in BookedDocs : EntriesOf(e)' = EntriesOf(e)
    BY EntriesKept DEF BookedDocs
  <1>3. IsFiniteSet(BookedDocs')
    BY <1>1, FS_AddElement DEF BooksInv, Summed
  <1>4. ASSUME NEW CONSTANT a \in Accounts
        PROVE  /\ (\A e \in BookedDocs : Effect(EntriesOf(e), a) \in Int)'
               /\ (balance[a] = SumFunctionOnSet(Effects(a), BookedDocs))'
               /\ balance'[a] \in Int
    <2>1. \A e \in BookedDocs : Effects(a)'[e] = Effects(a)[e]
      BY <1>2 DEF Effects, Effect, BookedDocs
    <2>2. \A e \in BookedDocs : Effects(a)[e] \in Int
      BY DEF BooksInv, Summed, Effects, BookedDocs
    <2>3. Effects(a)'[d] = Effect(lines, a) /\ Effect(lines, a) \in Int
      BY EffectIsInt DEF Effects, Effect
    <2>4. SumFunctionOnSet(Effects(a)', BookedDocs) = SumFunctionOnSet(Effects(a), BookedDocs)
      BY <2>1, SumSame DEF BooksInv, Summed
    <2>5. SumFunctionOnSet(Effects(a)', BookedDocs \cup {d})
            = Effects(a)'[d] + SumFunctionOnSet(Effects(a)', BookedDocs)
      BY <1>1, <2>1, <2>2, <2>3, SumAdd DEF BooksInv, Summed
    <2>6. balance[a] = SumFunctionOnSet(Effects(a), BookedDocs) /\ balance[a] \in Int
      BY DEF BooksInv, Summed
    <2>7. balance'[a] = balance[a] + Effect(lines, a)
      BY DEF Moved
    <2>8. balance'[a] = SumFunctionOnSet(Effects(a)', BookedDocs') /\ balance'[a] \in Int
      BY <1>1, <2>3, <2>4, <2>5, <2>6, <2>7
    <2>9. \A e \in BookedDocs' : Effects(a)'[e] \in Int
      BY <1>1, <2>1, <2>2, <2>3
    <2>10. (\A e \in BookedDocs : Effect(EntriesOf(e), a) \in Int)'
      BY <2>9 DEF Effects, BookedDocs
    <2> QED
      BY <2>8, <2>10
  <1>5. (balance \in [Accounts -> Int])'
    BY <1>4
  <1> QED
    BY <1>3, <1>4, <1>5 DEF Summed

LEMMA GrossKept ==
  ASSUME BooksInv, SettledKept, NEW CONSTANT P \in SUBSET Parcels, \A p \in P : Posted(p)
  PROVE  Gross(P)' = Gross(P)
  <1> DEFINE f == [p \in Parcels |-> collection[p].amount]
             g == [p \in Parcels |-> collection'[p].amount]
  <1>1. IsFiniteSet(P)
    BY LedgerAssumption, FS_Subset
  <1>2. \A p \in P : g[p] = f[p]
    BY DEF SettledKept
  <1> HIDE DEF f, g
  <1>3. SumFunctionOnSet(g, P) = SumFunctionOnSet(f, P)
    BY <1>1, <1>2, SumSame
  <1> QED
    BY <1>3 DEF Gross, f, g

LEMMA CoveredParcels ==
  ASSUME BooksInv, NEW s
  PROVE  ParcelsOf(s) \in SUBSET Parcels /\ \A p \in ParcelsOf(s) : Posted(p)
  BY DEF BooksInv, LedgerInv, LedgerShapes, Cited, CitedByCovers, ParcelsOf

\* The settlements that stand, and the parcels of each, are those from before.
LEMMA TotalsStand ==
  ASSUME BooksInv, SettledKept,
         \A s \in Settlements : Standing(s)' =>
            /\ Standing(s) /\ settlement'[s].gross = settlement[s].gross
            /\ ParcelsOf(s)' = ParcelsOf(s)
  PROVE  Totalled'
  <1>1. ASSUME NEW CONSTANT s \in Settlements, Standing(s)'
        PROVE  (settlement[s].gross = Gross(ParcelsOf(s)))'
    <2>1. \A P \in SUBSET Parcels : (\A p \in P : Posted(p)) => Gross(P)' = Gross(P)
      BY GrossKept
    <2>2. PICK P : P = ParcelsOf(s)
      OBVIOUS
    <2>3. P \in SUBSET Parcels /\ \A p \in P : Posted(p)
      BY <2>2, CoveredParcels
    <2>4. Gross(P)' = Gross(P)
      BY <2>1, <2>3
    <2>5. Gross(P)' = Gross(ParcelsOf(s))'
      BY <1>1, <2>2 DEF Gross
    <2> QED
      BY <1>1, <2>2, <2>4, <2>5 DEF BooksInv, Totalled
  <1> QED
    BY <1>1 DEF Totalled

LEMMA CitationsStand ==
  ASSUME BooksInv, SettledKept
  PROVE  /\ complaint' = complaint => CitedByComplaints'
         /\ clerk' = clerk => CitedByClerks'
         /\ covers' = covers /\ settlement' = settlement => CitedByCovers'
  <1>1. ASSUME complaint' = complaint PROVE CitedByComplaints'
    BY <1>1 DEF BooksInv, Cited, CitedByComplaints, SettledKept, Reversed
  <1>2. ASSUME clerk' = clerk PROVE CitedByClerks'
    BY <1>2 DEF BooksInv, Cited, CitedByClerks, SettledKept, LedgerInv, LedgerShapes, ClerkShape
  <1>3. ASSUME covers' = covers, settlement' = settlement PROVE CitedByCovers'
    BY <1>3 DEF BooksInv, Cited, CitedByCovers, SettledKept, LedgerInv, LedgerShapes, Standing
  <1> QED
    BY <1>1, <1>2, <1>3

\* The settlements and their covers are left alone.
LEMMA TotalsUntouched ==
  ASSUME BooksInv, SettledKept, covers' = covers, settlement' = settlement
  PROVE  Totalled'
  BY TotalsStand DEF Standing, ParcelsOf

LEMMA CollectBooks ==
  ASSUME BooksInv, NEW p \in Parcels, NEW d \in Drivers, NEW payee \in Merchants \cup {Tenant},
         NEW n \in Amounts, Collect(p, d, payee, n)
  PROVE  BooksInv'
  <1> DEFINE row == [state |-> "sent", driver |-> d, payee |-> payee, amount |-> n]
  <1>1. LedgerInv'
    BY CollectKeeps DEF BooksInv
  <1>2. /\ collection' = [collection EXCEPT ![p] = row]
        /\ collection[p].state = "none"
        /\ UNCHANGED <<remittance, settlement, covers, expense, complaint, clerk, posted, balance>>
    BY DEF Collect, books
  <1>3. /\ collection'[p] = row
        /\ \A q \in Parcels : q # p => collection'[q] = collection[q]
    BY <1>2 DEF BooksInv, LedgerInv, LedgerShapes, Table
  <1>4. SettledKept
    <2>1. \A q \in Parcels : Posted(q) => collection'[q] = collection[q] /\ Posted(q)'
      BY <1>2, <1>3 DEF Posted
    <2> QED
      BY <1>2, <2>1, KeptUntouched DEF SettledKept
  <1>5. Amounted'
    <2>1. n \in Nat
      BY LedgerAssumption
    <2> QED
      BY <1>2, <1>3, <2>1 DEF BooksInv, Amounted
  <1> QED
    BY <1>1, <1>2, <1>4, <1>5, CitationsStand, TotalsUntouched, SumsStand DEF BooksInv, Cited

LEMMA TwoLines ==
  ASSUME NEW a, NEW b, NEW j, NEW k, NEW n \in Int
  PROVE  /\ IsFiniteSet({Line(a, j, n), Line(b, k, n)})
         /\ \A l \in {Line(a, j, n), Line(b, k, n)} : l.amount \in Int
  <1>1. IsFiniteSet({Line(a, j, n), Line(b, k, n)})
    BY PairIsFinite
  <1>2. \A l \in {Line(a, j, n), Line(b, k, n)} : l.amount \in Int
    BY DEF Line
  <1> QED
    BY <1>1, <1>2

LEMMA CollectionLinesAreInts ==
  ASSUME BooksInv, NEW p \in Parcels
  PROVE  /\ IsFiniteSet(CollectionLines(p))
         /\ \A l \in CollectionLines(p) : l.amount \in Int
  <1>1. collection[p].amount \in Int
    BY DEF BooksInv, Amounted
  <1> QED
    BY <1>1, TwoLines, Zenon DEF CollectionLines

LEMMA HandleCollectedBooks ==
  ASSUME BooksInv, NEW p \in Parcels, HandleCollected(p)
  PROVE  BooksInv'
  <1> DEFINE doc == Doc("collection", p)
  <1>1. LedgerInv'
    BY HandleCollectedKeeps DEF BooksInv
  <1>2. /\ collection' = [collection EXCEPT ![p].state = "posted"]
        /\ posted' = [posted EXCEPT ![doc] = @ + 1]
        /\ balance' = [a \in Accounts |-> Moved(a, CollectionLines(p))]
        /\ UNCHANGED <<remittance, settlement, covers, expense, complaint, clerk>>
    BY DEF HandleCollected, PostTransaction
  <1>3. /\ \A q \in Parcels : Posted(q) => Posted(q)'
        /\ \A q \in Parcels : /\ collection'[q].driver = collection[q].driver
                              /\ collection'[q].payee = collection[q].payee
                              /\ collection'[q].amount = collection[q].amount
    BY <1>2 DEF BooksInv, LedgerInv, LedgerShapes, Table, Posted
  <1>4. SettledKept
    BY <1>2, <1>3, KeptUntouched DEF SettledKept
  <1>5. Amounted'
    BY <1>2, <1>3 DEF BooksInv, Amounted
  <1>6. doc \in Documents
    BY DocIsDocument
  <1>7. ~Settled(doc)
    BY <1>6, SettledByKind
       DEF HandleCollected, HasPostedForEvent, BooksInv, LedgerInv, PostedOnceIfSettled
  <1>8. EntriesOf(doc)' = CollectionLines(p)
    <2>1. CollectionLines(p)' = CollectionLines(p)
      BY <1>3 DEF CollectionLines
    <2> QED
      BY <2>1, EntriesByKindNext
  <1>9. Summed'
    <2>1. PICK lines : lines = CollectionLines(p)
      OBVIOUS
    <2>2. IsFiniteSet(lines) /\ \A l \in lines : l.amount \in Int
      BY <2>1, CollectionLinesAreInts
    <2>3. balance' = [a \in Accounts |-> Moved(a, lines)] /\ EntriesOf(doc)' = lines
      BY <1>2, <1>8, <2>1
    <2> HIDE DEF doc
    <2> QED
      BY <1>2, <1>4, <1>6, <1>7, <2>2, <2>3, SumsGrow
  <1> QED
    BY <1>1, <1>2, <1>4, <1>5, <1>9, CitationsStand, TotalsUntouched DEF BooksInv, Cited

-----------------------------------------------------------------------------
(* Remittances, with their money *)

\* A remittance that is not confirmed, before and after.
LEMMA RemittanceBooks ==
  ASSUME BooksInv, LedgerInv', NEW r \in Remittances,
         \A q \in Remittances : q # r => remittance'[q] = remittance[q],
         remittance'[r].counted \in Nat, ~Handed(r),
         UNCHANGED <<collection, settlement, covers, expense, complaint, clerk, books>>
  PROVE  BooksInv'
  <1>1. SettledKept
    <2>1. \A q \in Remittances : Handed(q) => remittance'[q] = remittance[q]
      OBVIOUS
    <2> QED
      BY <2>1, KeptUntouched DEF SettledKept
  <1>2. Amounted'
    BY DEF BooksInv, Amounted
  <1> QED
    BY <1>1, <1>2, CitationsStand, TotalsUntouched, SumsStand DEF BooksInv, Cited, books

LEMMA SubmitBooks ==
  ASSUME BooksInv, NEW r \in Remittances, NEW d \in Drivers, NEW h \in Hubs,
         SubmitRemittance(r, d, h)
  PROVE  BooksInv'
  <1>1. LedgerInv'
    BY SubmitKeeps DEF BooksInv
  <1>2. /\ \A q \in Remittances : q # r => remittance'[q] = remittance[q]
        /\ remittance'[r].counted = remittance[r].counted
        /\ remittance[r].status = "none"
    <2>1. PICK row : row = [remittance[r] EXCEPT !.status = "SUBMITTED", !.driver = d, !.hub = h,
                                !.expected = balance[Account("DRIVER_CASH", d)]]
      OBVIOUS
    <2>2. remittance' = [remittance EXCEPT ![r] = row] /\ remittance[r].status = "none"
      BY <2>1, Zenon DEF SubmitRemittance
    <2>3. Table(remittance, Remittances, RemittanceColumns)
      BY DEF BooksInv, LedgerInv, LedgerShapes, RemittanceColumns
    <2>4. row.counted = remittance[r].counted
      BY <2>1, <2>3 DEF Table, RemittanceColumns
    <2> QED
      BY <2>2, <2>3, <2>4 DEF Table
  <1>3. ~Handed(r) /\ remittance'[r].counted \in Nat
    BY <1>2 DEF Handed, BooksInv, Amounted
  <1> QED
    BY <1>1, <1>2, <1>3, RemittanceBooks DEF SubmitRemittance

LEMMA MoveRemittanceBooks ==
  ASSUME BooksInv, NEW r \in Remittances, DisputeRemittance(r) \/ ResolveRemittance(r)
  PROVE  BooksInv'
  <1>1. LedgerInv'
    BY MoveRemittanceKeeps DEF BooksInv
  <1>2. PICK from \in {"SUBMITTED", "DISPUTED"}, to \in {"DISPUTED", "RESOLVED"} :
            MoveRemittance(r, from, to)
    BY DEF DisputeRemittance, ResolveRemittance
  <1>3. /\ \A q \in Remittances : q # r => remittance'[q] = remittance[q]
        /\ remittance'[r].counted = remittance[r].counted
        /\ remittance[r].status = from
    BY <1>2 DEF BooksInv, LedgerInv, LedgerShapes, Table, MoveRemittance
  <1>4. ~Handed(r) /\ remittance'[r].counted \in Nat
    BY <1>3 DEF Handed, BooksInv, Amounted
  <1> QED
    BY <1>1, <1>2, <1>3, <1>4, RemittanceBooks DEF MoveRemittance

LEMMA ConfirmBooks ==
  ASSUME BooksInv, NEW r \in Remittances, NEW n \in Amounts, ConfirmRemittance(r, n)
  PROVE  BooksInv'
  <1> DEFINE doc == Doc("remittance", r)
  <1>1. LedgerInv'
    BY ConfirmKeeps DEF BooksInv
  <1>2. /\ \A q \in Remittances : q # r => remittance'[q] = remittance[q]
        /\ remittance'[r].counted = n
        /\ remittance'[r].hub = remittance[r].hub
        /\ remittance'[r].driver = remittance[r].driver
    <2>1. PICK row : row = [remittance[r] EXCEPT !.status = "CONFIRMED", !.counted = n,
                                                 !.variance = n - remittance[r].expected]
      OBVIOUS
    <2>2. remittance' = [remittance EXCEPT ![r] = row]
      BY <2>1, Zenon DEF ConfirmRemittance
    <2>3. Table(remittance, Remittances, RemittanceColumns)
      BY DEF BooksInv, LedgerInv, LedgerShapes, RemittanceColumns
    <2>4. row.counted = n /\ row.hub = remittance[r].hub /\ row.driver = remittance[r].driver
      BY <2>1, <2>3 DEF Table, RemittanceColumns
    <2> QED
      BY <2>2, <2>3, <2>4 DEF Table
  <1>3. ~Handed(r) /\ n \in Nat
    BY LedgerAssumption DEF Handed, ConfirmRemittance, Confirmable
  <1>4. CASE ~(n > 0)
    <2>1. UNCHANGED <<collection, settlement, covers, expense, complaint, clerk, books>>
      BY <1>4 DEF ConfirmRemittance
    <2> QED
      BY <1>1, <1>2, <1>3, <2>1, RemittanceBooks
  <1>5. CASE n > 0
    <2>1. /\ posted' = [posted EXCEPT ![doc] = @ + 1]
          /\ balance' = [a \in Accounts |-> Moved(a, RemittanceLines(r, n))]
          /\ UNCHANGED <<collection, settlement, covers, expense, complaint, clerk>>
      BY <1>5 DEF ConfirmRemittance, PostTransaction
    <2>2. SettledKept
      <3>1. \A q \in Remittances : Handed(q) => remittance'[q] = remittance[q]
        BY <1>2, <1>3
      <3> QED
        BY <2>1, <3>1, KeptUntouched DEF SettledKept
    <2>3. Amounted'
      BY <1>2, <1>3, <2>1 DEF BooksInv, Amounted
    <2>4. doc \in Documents /\ ~Settled(doc)
      BY <1>3, DocIsDocument, SettledByKind
    <2>5. EntriesOf(doc)' = RemittanceLines(r, n)
      <3>1. RemittanceLines(r, remittance[r].counted)' = RemittanceLines(r, n)
        BY <1>2 DEF RemittanceLines
      <3> QED
        BY <3>1, EntriesByKindNext
    <2>6. Summed'
      <3>1. PICK lines : lines = RemittanceLines(r, n)
        OBVIOUS
      <3>2. IsFiniteSet(lines) /\ \A l \in lines : l.amount \in Int
        <4>1. n \in Int
          BY <1>3
        <4> QED
          BY <3>1, <4>1, TwoLines, Zenon DEF RemittanceLines
      <3>3. balance' = [a \in Accounts |-> Moved(a, lines)] /\ EntriesOf(doc)' = lines
        BY <2>1, <2>5, <3>1
      <3> HIDE DEF doc
      <3> QED
        BY <2>1, <2>2, <2>4, <3>2, <3>3, SumsGrow
    <2> QED
      BY <1>1, <2>1, <2>2, <2>3, <2>6, CitationsStand, TotalsUntouched DEF BooksInv, Cited
  <1> QED
    BY <1>4, <1>5

\* A clerk reads, reviews or gives up: no row is touched.
LEMMA ClerkBooks ==
  ASSUME BooksInv, LedgerInv', CitedByClerks',
         UNCHANGED <<collection, remittance, settlement, covers, expense, complaint, books>>
  PROVE  BooksInv'
  <1>1. SettledKept
    BY KeptUntouched DEF SettledKept
  <1>2. Amounted'
    BY DEF BooksInv, Amounted
  <1> QED
    BY <1>1, <1>2, CitationsStand, TotalsUntouched, SumsStand DEF BooksInv, Cited, books

LEMMA DraftReadsBooks ==
  ASSUME BooksInv, NEW u \in Clerks, (\E m \in Merchants : DraftReads(u, m)) \/ DraftAborts(u)
  PROVE  BooksInv'
  <1>1. LedgerInv'
    BY DraftReadsKeeps DEF BooksInv
  <1>2. /\ UNCHANGED <<collection, remittance, settlement, covers, expense, complaint, books>>
        /\ \/ \E m \in Merchants : clerk' = [clerk EXCEPT ![u] =
                    [does |-> "draft", of |-> m, parcels |-> Settleable(m)]]
           \/ clerk' = [clerk EXCEPT ![u] = Idle]
    BY DEF DraftReads, DraftAborts
  <1>3. ASSUME NEW m \in Merchants PROVE \A p \in Settleable(m) : Posted(p)
    BY DocIsDocument, SettledByKind
       DEF Settleable, BooksInv, LedgerInv, PostedOnceIfSettled
  <1>4. CitedByClerks'
    <2>1. \A v \in Clerks : v # u => clerk'[v] = clerk[v]
      BY <1>2 DEF BooksInv, LedgerInv, LedgerShapes, ClerkShape
    <2>2. clerk'[u].does = "draft" => \A p \in clerk'[u].parcels : Posted(p)
      BY <1>2, <1>3 DEF BooksInv, LedgerInv, LedgerShapes, ClerkShape, Idle
    <2>3. \A p : Posted(p)' <=> Posted(p)
      BY <1>2 DEF Posted
    <2> QED
      BY <2>1, <2>2, <2>3 DEF CitedByClerks, BooksInv, Cited
  <1> QED
    BY <1>1, <1>2, <1>4, ClerkBooks

LEMMA ReviewBooks ==
  ASSUME BooksInv, NEW u \in Clerks, NEW x \in Expenses, NEW verdict \in {"APPROVED", "REJECTED"},
         ReviewExpense(u, x, verdict)
  PROVE  BooksInv'
  <1>1. LedgerInv'
    BY ReviewKeeps DEF BooksInv
  <1>2. CitedByClerks'
    <2>1. \A v \in Clerks : v # u => clerk'[v] = clerk[v]
      BY DEF ReviewExpense, BooksInv, LedgerInv, LedgerShapes, ClerkShape
    <2>2. clerk'[u].does # "draft"
      BY DEF ReviewExpense, BooksInv, LedgerInv, LedgerShapes, ClerkShape
    <2>3. \A p : Posted(p)' <=> Posted(p)
      BY DEF Posted, ReviewExpense
    <2> QED
      BY <2>1, <2>2, <2>3 DEF CitedByClerks, BooksInv, Cited
  <1> QED
    BY <1>1, <1>2, ClerkBooks DEF ReviewExpense

-----------------------------------------------------------------------------
(* Settlements, with their money *)

\* Approving and cancelling move no money; a cancelled settlement loses its lines.
LEMMA DecideSettlementBooks ==
  ASSUME BooksInv, NEW s \in Settlements,
         (\E u \in Clerks : ApproveSettlement(u, s)) \/ CancelSettlement(s)
  PROVE  BooksInv'
  <1>1. LedgerInv'
    BY DecideSettlementKeeps DEF BooksInv
  <1>2. PICK to \in {"APPROVED", "CANCELLED"} :
            /\ settlement' = [settlement EXCEPT ![s].status = to]
            /\ to = "APPROVED" => covers' = covers /\ settlement[s].status = "DRAFT"
            /\ to = "CANCELLED" => /\ covers' = {c \in covers : c.settlement # s}
                                   /\ settlement[s].status \in {"DRAFT", "APPROVED"}
    BY DEF ApproveSettlement, CancelSettlement, Cancellable
  <1>3. UNCHANGED <<collection, remittance, expense, complaint, clerk, posted, balance>>
    BY DEF ApproveSettlement, CancelSettlement, books
  <1>4. /\ \A q \in Settlements : q # s => settlement'[q] = settlement[q]
        /\ settlement'[s].status = to
        /\ settlement'[s].gross = settlement[s].gross
        /\ settlement'[s].fees = settlement[s].fees
    BY <1>2 DEF BooksInv, LedgerInv, LedgerShapes, Table
  <1>5. SettledKept
    <2>1. \A q \in Settlements : Paid(q) => settlement'[q] = settlement[q]
      BY <1>2, <1>4 DEF Paid
    <2> QED
      BY <1>3, <2>1, KeptUntouched DEF SettledKept
  <1>6. Amounted'
    BY <1>3, <1>4 DEF BooksInv, Amounted
  <1>7. CitedByCovers'
    <2>1. \A c \in covers' : /\ c \in covers /\ c.settlement \in Settlements
                             /\ to = "CANCELLED" => c.settlement # s
      BY <1>2 DEF BooksInv, LedgerInv, LedgerShapes
    <2>2. \A c \in covers' : Standing(c.settlement)'
      BY <1>4, <2>1 DEF BooksInv, Cited, CitedByCovers, Standing
    <2> QED
      BY <1>3, <2>1, <2>2 DEF BooksInv, Cited, CitedByCovers, Posted
  <1>8. Totalled'
    <2>1. ASSUME NEW q \in Settlements, Standing(q)'
          PROVE  /\ Standing(q) /\ settlement'[q].gross = settlement[q].gross
                 /\ ParcelsOf(q)' = ParcelsOf(q)
      <3>1. CASE q = s
        BY <1>2, <1>4, <2>1, <3>1 DEF Standing, ParcelsOf
      <3>2. CASE q # s
        <4>1. {k \in covers' : k.settlement = q} = {k \in covers : k.settlement = q}
          BY <1>2, <3>2
        <4> QED
          BY <1>4, <2>1, <3>2, <4>1 DEF Standing, ParcelsOf
      <3> QED
        BY <3>1, <3>2
    <2> QED
      BY <1>5, <2>1, TotalsStand
  <1> QED
    BY <1>1, <1>3, <1>5, <1>6, <1>7, <1>8, CitationsStand, SumsStand DEF BooksInv, Cited

\* The draft is written with the total of the parcels it covers.
LEMMA DraftWritesBooks ==
  ASSUME BooksInv, NEW u \in Clerks, NEW s \in Settlements, NEW fees \in Amounts,
         DraftWrites(u, s, fees)
  PROVE  BooksInv'
  <1>1. LedgerInv'
    BY DraftWritesKeeps DEF BooksInv
  <1>2. PICK parcels : parcels = clerk[u].parcels
    OBVIOUS
  <1>3. /\ clerk[u].does = "draft" /\ settlement[s].status = "none"
        /\ covers' = covers \cup {[settlement |-> s, parcel |-> p] : p \in parcels}
        /\ clerk' = [clerk EXCEPT ![u] = Idle]
        /\ UNCHANGED <<collection, remittance, expense, complaint, posted, balance>>
        /\ settlement' = [settlement EXCEPT ![s] =
                [status |-> "DRAFT", merchant |-> clerk[u].of, gross |-> Gross(parcels),
                 fees |-> fees, drafter |-> u]]
    BY <1>2 DEF DraftWrites, books
  <1>4. parcels \in SUBSET Parcels /\ \A p \in parcels : Posted(p)
    BY <1>2, <1>3 DEF BooksInv, LedgerInv, LedgerShapes, ClerkShape, Cited, CitedByClerks
  <1>5. /\ \A q \in Settlements : q # s => settlement'[q] = settlement[q]
        /\ settlement'[s].status = "DRAFT"
        /\ settlement'[s].gross = Gross(parcels)
        /\ settlement'[s].fees = fees
    BY <1>3 DEF BooksInv, LedgerInv, LedgerShapes, Table
  <1>6. \A c \in covers : c.settlement # s
    BY <1>3 DEF BooksInv, Cited, CitedByCovers, Standing
  <1>7. SettledKept
    <2>1. \A q \in Settlements : Paid(q) => settlement'[q] = settlement[q]
      BY <1>3, <1>5 DEF Paid
    <2> QED
      BY <1>3, <2>1, KeptUntouched DEF SettledKept
  <1>8. Gross(parcels)' = Gross(parcels) /\ Gross(parcels) \in Int
    <2>1. Gross(parcels)' = Gross(parcels)
      BY <1>3 DEF Gross
    <2>2. IsFiniteSet(parcels)
      BY <1>4, LedgerAssumption, FS_Subset
    <2> DEFINE f == [p \in Parcels |-> collection[p].amount]
    <2>3. \A p \in parcels : f[p] \in Int
      BY <1>4 DEF BooksInv, Amounted
    <2> HIDE DEF f
    <2>4. SumFunctionOnSet(f, parcels) \in Int
      BY <2>2, <2>3, SumInt
    <2> QED
      BY <2>1, <2>4 DEF Gross, f
  <1>9. Amounted'
    <2>1. fees \in Int
      BY LedgerAssumption
    <2> QED
      BY <1>3, <1>5, <1>8, <2>1 DEF BooksInv, Amounted
  <1>10. CitedByClerks'
    <2>1. /\ \A v \in Clerks : v # u => clerk'[v] = clerk[v]
          /\ clerk'[u].does # "draft"
      BY <1>3 DEF BooksInv, LedgerInv, LedgerShapes, ClerkShape, Idle
    <2> QED
      BY <1>3, <2>1 DEF BooksInv, Cited, CitedByClerks, Posted
  <1>11. CitedByCovers'
    <2>1. ASSUME NEW c \in covers' PROVE Posted(c.parcel)' /\ Standing(c.settlement)'
      <3>1. CASE c \in covers
        <4>1. c.settlement \in Settlements /\ c.settlement # s
          BY <1>6, <3>1 DEF BooksInv, LedgerInv, LedgerShapes
        <4> QED
          BY <1>3, <1>5, <3>1, <4>1 DEF BooksInv, Cited, CitedByCovers, Posted, Standing
      <3>2. CASE c \notin covers
        <4>1. c.parcel \in parcels /\ c.settlement = s
          BY <1>3, <3>2
        <4> QED
          BY <1>3, <1>4, <1>5, <4>1 DEF Posted, Standing
      <3> QED
        BY <3>1, <3>2
    <2> QED
      BY <2>1 DEF CitedByCovers
  <1>12. Totalled'
    <2>1. ASSUME NEW CONSTANT q \in Settlements, Standing(q)', q # s
          PROVE  (settlement[q].gross = Gross(ParcelsOf(q)))'
      <3>1. {k \in covers' : k.settlement = q} = {k \in covers : k.settlement = q}
        BY <1>3, <2>1
      <3>2. ParcelsOf(q)' = ParcelsOf(q)
        BY <3>1 DEF ParcelsOf
      <3>3. Standing(q)
        BY <1>5, <2>1 DEF Standing
      <3>4. settlement[q].gross = Gross(ParcelsOf(q))
        BY <3>3 DEF BooksInv, Totalled
      <3> QED
        BY <1>3, <1>5, <2>1, <3>2, <3>4 DEF Gross
    <2>2. (settlement[s].gross = Gross(ParcelsOf(s)))'
      <3> DEFINE lines == {[settlement |-> s, parcel |-> p] : p \in parcels}
      <3>1. {k \in covers' : k.settlement = s} = lines
        <4>1. \A k \in lines : k.settlement = s
          OBVIOUS
        <4>2. covers' = covers \cup lines
          BY <1>3
        <4> HIDE DEF lines
        <4> QED
          BY <1>6, <4>1, <4>2
      <3>2. ParcelsOf(s)' = parcels
        <4>1. \A c \in lines : c.parcel \in parcels
          OBVIOUS
        <4>2. ASSUME NEW p \in parcels PROVE \E c \in lines : c.parcel = p
          <5>1. [settlement |-> s, parcel |-> p] \in lines
            OBVIOUS
          <5> QED
            BY <5>1
        <4>3. {c.parcel : c \in lines} = parcels
          <5> HIDE DEF lines
          <5> QED
            BY <4>1, <4>2
        <4> QED
          BY <3>1, <4>3 DEF ParcelsOf
      <3> QED
        BY <1>3, <1>5, <3>2 DEF Gross
    <2> QED
      BY <2>1, <2>2 DEF Totalled
  <1> QED
    BY <1>1, <1>3, <1>7, <1>9, <1>10, <1>11, <1>12, CitationsStand, SumsStand DEF BooksInv, Cited

LEMMA PayBooks ==
  ASSUME BooksInv, NEW s \in Settlements, PaySettlement(s)
  PROVE  BooksInv'
  <1> DEFINE doc == Doc("settlement", s)
  <1>1. LedgerInv'
    BY PayKeeps DEF BooksInv
  <1>2. /\ settlement' = [settlement EXCEPT ![s].status = "PAID"]
        /\ settlement[s].status = "APPROVED"
        /\ posted' = [posted EXCEPT ![doc] = @ + 1]
        /\ balance' = [a \in Accounts |-> Moved(a, SettlementLines(s))]
        /\ UNCHANGED <<collection, remittance, covers, expense, complaint, clerk>>
    BY DEF PaySettlement, PostTransaction
  <1>3. /\ \A q \in Settlements : q # s => settlement'[q] = settlement[q]
        /\ settlement'[s].status = "PAID"
        /\ settlement'[s].merchant = settlement[s].merchant
        /\ settlement'[s].gross = settlement[s].gross
        /\ settlement'[s].fees = settlement[s].fees
    BY <1>2 DEF BooksInv, LedgerInv, LedgerShapes, Table
  <1>4. SettledKept
    <2>1. \A q \in Settlements : Paid(q) => settlement'[q] = settlement[q]
      BY <1>2, <1>3 DEF Paid
    <2> QED
      BY <1>2, <2>1, KeptUntouched DEF SettledKept
  <1>5. Amounted'
    BY <1>2, <1>3 DEF BooksInv, Amounted
  <1>6. \A q \in Settlements : Standing(q)' <=> Standing(q)
    BY <1>2, <1>3 DEF Standing
  <1>7. CitedByCovers'
    BY <1>2, <1>6 DEF BooksInv, LedgerInv, LedgerShapes, Cited, CitedByCovers, Posted
  <1>8. Totalled'
    BY <1>2, <1>3, <1>4, <1>6, TotalsStand DEF ParcelsOf
  <1>9. doc \in Documents /\ ~Settled(doc)
    BY <1>2, DocIsDocument, SettledByKind DEF Paid
  <1>10. Summed'
    <2>1. PICK lines : lines = SettlementLines(s)
      OBVIOUS
    <2>2. EntriesOf(doc)' = lines
      <3>1. SettlementLines(s)' = SettlementLines(s)
        BY <1>3 DEF SettlementLines
      <3> QED
        BY <2>1, <3>1, EntriesByKindNext
    <2>3. IsFiniteSet(lines) /\ \A l \in lines : l.amount \in Int
      <3> DEFINE n == settlement[s].gross
                 f == settlement[s].fees
                 payable == Line(Account("MERCHANT_PAYABLE", settlement[s].merchant), "DEBIT", n)
                 bank == Line(Account("BANK", Tenant), "CREDIT", n - f)
                 kept == Line(Account("PLATFORM_REVENUE", Tenant), "CREDIT", f)
      <3>1. lines \subseteq {payable, bank} \cup {kept}
        BY <2>1 DEF SettlementLines
      <3>2. payable.amount \in Int /\ bank.amount \in Int /\ kept.amount \in Int
        BY DEF BooksInv, Amounted, Line
      <3> HIDE DEF payable, bank, kept
      <3>3. IsFiniteSet({payable, bank} \cup {kept})
        BY PairIsFinite, FS_AddElement
      <3> QED
        BY <3>1, <3>2, <3>3, FS_Subset
    <2>4. balance' = [a \in Accounts |-> Moved(a, lines)]
      BY <1>2, <2>1
    <2> HIDE DEF doc
    <2> QED
      BY <1>2, <1>4, <1>9, <2>2, <2>3, <2>4, SumsGrow
  <1> QED
    BY <1>1, <1>2, <1>4, <1>5, <1>7, <1>8, <1>10, CitationsStand DEF BooksInv, Cited

LEMMA CreateExpenseBooks ==
  ASSUME BooksInv, NEW x \in Expenses, NEW source, NEW n \in Amounts, CreateExpense(x, source, n)
  PROVE  BooksInv'
  <1>1. LedgerInv'
    BY CreateExpenseKeeps DEF BooksInv
  <1>2. /\ \A q \in Expenses : q # x => expense'[q] = expense[q]
        /\ expense'[x].amount = n /\ expense[x].status = "none"
        /\ UNCHANGED <<collection, remittance, settlement, covers, complaint, clerk, posted, balance>>
    BY DEF CreateExpense, BooksInv, LedgerInv, LedgerShapes, Table, books
  <1>3. SettledKept
    <2>1. \A q \in Expenses : Approved(q) => expense'[q] = expense[q]
      BY <1>2 DEF Approved
    <2> QED
      BY <1>2, <2>1, KeptUntouched DEF SettledKept
  <1>4. Amounted'
    BY <1>2, LedgerAssumption DEF BooksInv, Amounted
  <1> QED
    BY <1>1, <1>2, <1>3, <1>4, CitationsStand, TotalsUntouched, SumsStand DEF BooksInv, Cited

LEMMA DecideExpenseBooks ==
  ASSUME BooksInv, NEW u \in Clerks, DecideExpense(u)
  PROVE  BooksInv'
  <1>1. LedgerInv'
    BY DecideExpenseKeeps DEF BooksInv
  <1>2. PICK x \in Expenses, verdict \in {"APPROVED", "REJECTED"} :
            clerk[u].of = x /\ clerk[u].does = verdict
    BY DEF BooksInv, LedgerInv, LedgerShapes, ClerkShape, DecideExpense
  <1> DEFINE doc == Doc("expense", x)
  <1>3. /\ UNCHANGED <<collection, remittance, settlement, covers, complaint>>
        /\ clerk' = [clerk EXCEPT ![u] = Idle]
    BY DEF DecideExpense
  <1>4. CASE ~StillDraft(x)
    <2>1. UNCHANGED <<expense, posted, balance>>
      BY <1>2, <1>4 DEF DecideExpense, books
    <2>2. SettledKept
      BY <1>3, <2>1, KeptUntouched DEF SettledKept
    <2>3. CitedByClerks'
      <3>1. /\ \A v \in Clerks : v # u => clerk'[v] = clerk[v]
            /\ clerk'[u].does # "draft"
        BY <1>3 DEF BooksInv, LedgerInv, LedgerShapes, ClerkShape, Idle
      <3> QED
        BY <1>3, <3>1 DEF BooksInv, Cited, CitedByClerks, Posted
    <2>4. Amounted'
      BY <1>3, <2>1 DEF BooksInv, Amounted
    <2> QED
      BY <1>1, <1>3, <2>1, <2>2, <2>3, <2>4, CitationsStand, TotalsUntouched, SumsStand
         DEF BooksInv, Cited
  <1>5. CASE StillDraft(x)
    <2>1. /\ \A q \in Expenses : q # x => expense'[q] = expense[q]
          /\ expense'[x].amount = expense[x].amount
          /\ expense'[x].source = expense[x].source
          /\ expense[x].status = "DRAFT"
      <3>1. /\ expense' = [expense EXCEPT ![x].status = verdict]
            /\ expense[x].status = "DRAFT"
        BY <1>2, <1>5 DEF DecideExpense, StillDraft
      <3> QED
        BY <3>1 DEF BooksInv, LedgerInv, LedgerShapes, Table
    <2>2. SettledKept
      <3>1. \A q \in Expenses : Approved(q) => expense'[q] = expense[q]
        BY <2>1 DEF Approved
      <3> QED
        BY <1>3, <3>1, KeptUntouched DEF SettledKept
    <2>3. CitedByClerks'
      <3>1. /\ \A v \in Clerks : v # u => clerk'[v] = clerk[v]
            /\ clerk'[u].does # "draft"
        BY <1>3 DEF BooksInv, LedgerInv, LedgerShapes, ClerkShape, Idle
      <3> QED
        BY <1>3, <3>1 DEF BooksInv, Cited, CitedByClerks, Posted
    <2>4. Amounted'
      BY <1>3, <2>1 DEF BooksInv, Amounted
    <2>5. Summed'
      <3>1. CASE verdict # "APPROVED"
        <4>1. posted' = posted /\ balance' = balance
          BY <1>2, <1>5, <3>1 DEF DecideExpense, books
        <4> QED
          BY <2>2, <4>1, SumsStand
      <3>2. CASE verdict = "APPROVED"
        <4>1. /\ posted' = [posted EXCEPT ![doc] = @ + 1]
              /\ balance' = [a \in Accounts |-> Moved(a, ExpenseLines(x))]
          BY <1>2, <1>5, <3>2 DEF DecideExpense, PostTransaction
        <4>2. doc \in Documents /\ ~Settled(doc)
          BY <2>1, DocIsDocument, SettledByKind DEF Approved
        <4>3. PICK lines : lines = ExpenseLines(x)
          OBVIOUS
        <4>4. EntriesOf(doc)' = lines
          <5>1. ExpenseLines(x)' = ExpenseLines(x)
            BY <2>1 DEF ExpenseLines
          <5> QED
            BY <4>3, <5>1, EntriesByKindNext
        <4>5. IsFiniteSet(lines) /\ \A l \in lines : l.amount \in Int
          <5>1. expense[x].amount \in Int
            BY DEF BooksInv, Amounted
          <5> QED
            BY <4>3, <5>1, TwoLines, Zenon DEF ExpenseLines
        <4>6. balance' = [a \in Accounts |-> Moved(a, lines)]
          BY <4>1, <4>3
        <4> HIDE DEF doc
        <4> QED
          BY <2>2, <4>1, <4>2, <4>4, <4>5, <4>6, SumsGrow
      <3> QED
        BY <3>1, <3>2
    <2> QED
      BY <1>1, <1>3, <2>2, <2>3, <2>4, <2>5, CitationsStand, TotalsUntouched DEF BooksInv, Cited
  <1> QED
    BY <1>4, <1>5

-----------------------------------------------------------------------------
(* Complaints, with their money *)

LEMMA RaiseBooks ==
  ASSUME BooksInv, NEW c \in Complaints, NEW type, NEW p \in Parcels \cup {Nothing},
         RaiseComplaint(c, type, p)
  PROVE  BooksInv'
  <1>1. LedgerInv'
    BY RaiseKeeps DEF BooksInv
  <1>2. /\ UNCHANGED <<collection, remittance, settlement, covers, expense, clerk, posted, balance>>
        /\ complaint[c].status = "none"
    BY DEF RaiseComplaint, books
  <1>3. /\ \A d \in Complaints : d # c => complaint'[d] = complaint[d]
        /\ complaint'[c].parcel = p
        /\ complaint'[c].reversed = complaint[c].reversed
    <2>1. PICK row : row = [complaint[c] EXCEPT !.status = "OPEN", !.type = type, !.parcel = p]
      OBVIOUS
    <2>2. complaint' = [complaint EXCEPT ![c] = row]
      BY <2>1, Zenon DEF RaiseComplaint
    <2>3. Table(complaint, Complaints, ComplaintColumns)
      BY DEF BooksInv, LedgerInv, LedgerShapes, ComplaintColumns
    <2>4. row.parcel = p /\ row.reversed = complaint[c].reversed
      BY <2>1, <2>3 DEF Table, ComplaintColumns
    <2> QED
      BY <2>2, <2>3, <2>4 DEF Table
  <1>4. ~Reversed(c) /\ ~Reversed(c)'
    BY <1>2, <1>3 DEF BooksInv, Cited, CitedByComplaints, Reversed
  <1>5. SettledKept
    <2>1. \A d \in Complaints : Reversed(d) => complaint'[d] = complaint[d]
      BY <1>3, <1>4
    <2> QED
      BY <1>2, <2>1, KeptUntouched DEF SettledKept
  <1>6. CitedByComplaints'
    <2>1. \A d \in Complaints : d # c => (Reversed(d)' <=> Reversed(d))
      BY <1>3 DEF Reversed
    <2> QED
      BY <1>2, <1>3, <1>4, <2>1 DEF BooksInv, Cited, CitedByComplaints, Posted
  <1>7. Amounted'
    BY <1>2 DEF BooksInv, Amounted
  <1> QED
    BY <1>1, <1>2, <1>5, <1>6, <1>7, CitationsStand, TotalsUntouched, SumsStand DEF BooksInv, Cited

LEMMA MoveComplaintBooks ==
  ASSUME BooksInv, NEW c \in Complaints, NEW reverse \in BOOLEAN, NEW key,
         NEW to \in {"INVESTIGATING", "ESCALATED"} \cup ClosedStatuses,
         MoveComplaint(c, to, reverse, key)
  PROVE  BooksInv'
  <1> DEFINE doc == Doc("reversal", c)
             q == complaint[c].parcel
  <1>1. LedgerInv'
    BY MoveComplaintKeeps DEF BooksInv
  <1>2. /\ UNCHANGED <<collection, remittance, settlement, covers, expense, clerk>>
        /\ complaint[c].status # "none"
    BY DEF MoveComplaint
  <1>3. /\ \A d \in Complaints : d # c => complaint'[d] = complaint[d]
        /\ complaint'[c].parcel = complaint[c].parcel
        /\ complaint'[c].reversed = (complaint[c].reversed \/ reverse)
        /\ complaint'[c].status = to
    <2> DEFINE row == Decided(complaint[c], to, reverse, key)
    <2>1. complaint' = [complaint EXCEPT ![c] = row]
      BY Zenon DEF MoveComplaint
    <2>2. Table(complaint, Complaints, ComplaintColumns)
      BY DEF BooksInv, LedgerInv, LedgerShapes, ComplaintColumns
    <2>3. /\ row.parcel = complaint[c].parcel
          /\ row.reversed = (complaint[c].reversed \/ reverse)
          /\ row.status = to
      BY <2>2 DEF Table, ComplaintColumns, Decided
    <2> HIDE DEF row
    <2> QED
      BY <2>1, <2>2, <2>3 DEF Table
  <1>4. SettledKept
    <2>1. \A d \in Complaints : Reversed(d) => complaint'[d].parcel = complaint[d].parcel
      BY <1>3
    <2> QED
      BY <1>2, <2>1, KeptUntouched DEF SettledKept
  <1>5. Amounted'
    BY <1>2 DEF BooksInv, Amounted
  <1>6. reverse => ~Reversed(c) /\ q \in Parcels /\ Posted(q)
    <2> SUFFICES ASSUME reverse PROVE ~Reversed(c) /\ q \in Parcels /\ Posted(q)
      OBVIOUS
    <2>1. /\ ~Reversed(c) /\ q # Nothing
          /\ posted[Doc("collection", q)] > 0
      BY DEF MoveComplaint, ReverseCod, Reversible, Reversed
    <2>2. q \in Parcels
      BY <2>1 DEF BooksInv, Cited, CitedByComplaints
    <2>3. Doc("collection", q) \in Documents
      BY <2>2, DocIsDocument
    <2>4. Settled(Doc("collection", q))
      BY <2>1, <2>3 DEF BooksInv, LedgerInv, PostedOnceIfSettled
    <2> QED
      BY <2>1, <2>2, <2>4, SettledByKind
  <1>7. CitedByComplaints'
    <2>1. ASSUME NEW d \in Complaints
          PROVE  (/\ complaint[d].parcel \in Parcels \cup {Nothing}
                  /\ complaint[d].status = "none" => ~Reversed(d)
                  /\ Reversed(d) => complaint[d].parcel \in Parcels /\ Posted(complaint[d].parcel))'
      <3>1. CASE d # c
        BY <1>2, <1>3, <3>1 DEF BooksInv, Cited, CitedByComplaints, Posted, Reversed
      <3>2. CASE d = c
        <4>1. to # "none"
          BY DEF ClosedStatuses
        <4>2. complaint'[c].reversed => q \in Parcels /\ Posted(q)
          BY <1>3, <1>6 DEF BooksInv, Cited, CitedByComplaints, Reversed
        <4>3. q \in Parcels \cup {Nothing}
          BY DEF BooksInv, Cited, CitedByComplaints
        <4> QED
          BY <1>2, <1>3, <3>2, <4>1, <4>2, <4>3 DEF Posted, Reversed
      <3> QED
        BY <3>1, <3>2
    <2> QED
      BY <2>1 DEF CitedByComplaints
  <1>8. Summed'
    <2>1. CASE ~reverse
      <3>1. posted' = posted /\ balance' = balance
        BY <2>1 DEF MoveComplaint, books
      <3> QED
        BY <1>4, <3>1, SumsStand
    <2>2. CASE reverse
      <3>1. PICK lines : lines = {Flip(l) : l \in CollectionLines(q)}
        OBVIOUS
      <3>2. /\ posted' = [posted EXCEPT ![doc] = @ + 1]
            /\ balance' = [a \in Accounts |-> Moved(a, lines)]
        BY <2>2, <3>1 DEF MoveComplaint, ReverseCod, PostTransaction
      <3>3. doc \in Documents /\ ~Settled(doc)
        BY <1>6, <2>2, DocIsDocument, SettledByKind
      <3>4. EntriesOf(doc)' = lines
        <4>1. CollectionLines(complaint[c].parcel)' = CollectionLines(q)
          BY <1>2, <1>3 DEF CollectionLines
        <4>2. {Flip(l) : l \in CollectionLines(complaint[c].parcel)}' = lines
          BY <3>1, <4>1
        <4> QED
          BY <4>2, EntriesByKindNext
      <3>5. IsFiniteSet(lines) /\ \A l \in lines : l.amount \in Int
        <4> DEFINE n == collection[q].amount
                   x == Line(Account("DRIVER_CASH", collection[q].driver), "DEBIT", n)
                   y == Line(Account("MERCHANT_PAYABLE", collection[q].payee), "CREDIT", n)
        <4>1. lines = {Flip(x), Flip(y)}
          BY <3>1 DEF CollectionLines
        <4>2. n \in Int
          BY <1>6, <2>2 DEF BooksInv, Amounted
        <4>3. Flip(x).amount \in Int /\ Flip(y).amount \in Int
          BY <4>2 DEF Flip, Line
        <4> HIDE DEF x, y
        <4> QED
          BY <4>1, <4>3, PairIsFinite
      <3> HIDE DEF doc
      <3> QED
        BY <1>4, <3>2, <3>3, <3>4, <3>5, SumsGrow
    <2> QED
      BY <2>1, <2>2
  <1> QED
    BY <1>1, <1>2, <1>4, <1>5, <1>7, <1>8, CitationsStand, TotalsUntouched DEF BooksInv, Cited

-----------------------------------------------------------------------------
(* The specification, with the money *)

LEMMA BooksStart == LedgerInit => BooksInv
  <1> SUFFICES ASSUME LedgerInit PROVE BooksInv
    OBVIOUS
  <1>1. LedgerInv
    BY LedgerStarts
  <1>2. Amounted
    BY DEF LedgerInit, Amounted, NoCollection, NoRemittance, NoSettlement, NoExpense
  <1>3. Cited
    BY DEF LedgerInit, Cited, CitedByComplaints, CitedByClerks, CitedByCovers, NoComplaint,
           Idle, Reversed
  <1>4. Totalled
    BY DEF LedgerInit, Totalled, Standing, NoSettlement
  <1>5. Summed
    <2>1. BookedDocs = {}
      BY DEF LedgerInit, BookedDocs
    <2>2. \A a : SumFunctionOnSet(Effects(a), BookedDocs) = 0
      BY <2>1, SumEmpty
    <2> QED
      BY <2>1, <2>2, FS_EmptySet DEF LedgerInit, Summed
  <1> QED
    BY <1>1, <1>2, <1>3, <1>4, <1>5 DEF BooksInv

LEMMA BooksStepKeeps == BooksInv /\ [LedgerNext]_ledgerVars => BooksInv'
  <1> SUFFICES ASSUME BooksInv, [LedgerNext]_ledgerVars PROVE BooksInv'
    OBVIOUS
  <1>1. CASE \/ \E p \in Parcels, d \in Drivers, payee \in Merchants \cup {Tenant}, n \in Amounts :
                    Collect(p, d, payee, n)
             \/ \E p \in Parcels : HandleCollected(p)
    BY <1>1, CollectBooks, HandleCollectedBooks
  <1>2. CASE \/ \E r \in Remittances, d \in Drivers, h \in Hubs : SubmitRemittance(r, d, h)
             \/ \E r \in Remittances, n \in Amounts : ConfirmRemittance(r, n)
             \/ \E r \in Remittances : DisputeRemittance(r) \/ ResolveRemittance(r)
    BY <1>2, SubmitBooks, ConfirmBooks, MoveRemittanceBooks
  <1>3. CASE \/ \E u \in Clerks, m \in Merchants : DraftReads(u, m)
             \/ \E u \in Clerks, s \in Settlements, n \in Amounts : DraftWrites(u, s, n)
             \/ \E u \in Clerks : DraftAborts(u)
    BY <1>3, DraftReadsBooks, DraftWritesBooks
  <1>4. CASE \/ \E u \in Clerks, s \in Settlements : ApproveSettlement(u, s)
             \/ \E s \in Settlements : PaySettlement(s) \/ CancelSettlement(s)
    BY <1>4, DecideSettlementBooks, PayBooks
  <1>5. CASE \/ \E x \in Expenses, source \in Hubs \cup {Tenant}, n \in Amounts :
                    CreateExpense(x, source, n)
             \/ \E u \in Clerks, x \in Expenses, v \in {"APPROVED", "REJECTED"} :
                    ReviewExpense(u, x, v)
             \/ \E u \in Clerks : DecideExpense(u)
    BY <1>5, CreateExpenseBooks, ReviewBooks, DecideExpenseBooks
  <1>6. CASE \/ \E c \in Complaints, t \in {"COD_DISPUTE", "OTHER"}, p \in Parcels \cup {Nothing} :
                    RaiseComplaint(c, t, p)
             \/ \E c \in Complaints, to \in {"INVESTIGATING", "ESCALATED"} \cup ClosedStatuses,
                  reverse \in BOOLEAN, k \in Keys : MoveComplaint(c, to, reverse, k)
    BY <1>6, RaiseBooks, MoveComplaintBooks
  <1>7. CASE UNCHANGED ledgerVars
    <2>1. UNCHANGED <<collection, remittance, settlement, covers, expense, complaint, clerk,
                      posted, balance>>
      BY <1>7 DEF ledgerVars, books
    <2>2. LedgerInv'
      BY <1>7, LedgerStepKeeps DEF BooksInv
    <2>3. SettledKept
      BY <2>1, KeptUntouched DEF SettledKept
    <2>4. Amounted'
      BY <2>1 DEF BooksInv, Amounted
    <2> QED
      BY <2>1, <2>2, <2>3, <2>4, CitationsStand, TotalsUntouched, SumsStand DEF BooksInv, Cited
  <1> QED
    BY <1>1, <1>2, <1>3, <1>4, <1>5, <1>6, <1>7 DEF LedgerNext

LEMMA BooksAlways == LedgerSpec => []BooksInv
  BY BooksStart, BooksStepKeeps, PTL DEF LedgerSpec

\* The cached balance of an account is the sum of the entries of every document
\* that has posted, whatever is redelivered, retried, reversed or decided twice:
\* what ledger.service calls the truth.
THEOREM BalancesAreSums == LedgerSpec => []BalanceIsTheSum
  <1>1. BooksInv => BalanceIsTheSum
    BY DEF BooksInv, Summed, BalanceIsTheSum, Effects, BookedDocs
  <1> QED
    BY <1>1, BooksAlways, PTL

\* A parcel is on one settlement at most that stands, and what a settlement pays
\* is what its parcels collected: settlement.service drafts from entries that were
\* posted, and nothing changes the amount of a posted collection.
THEOREM CashIsPaidOutOnce == LedgerSpec => []PaidOutOnce
  <1>1. BooksInv => PaidOutOnce
    BY DEF BooksInv, LedgerInv, Totalled, Standing, ParcelsOf, PaidOutOnce
  <1> QED
    BY <1>1, BooksAlways, PTL

-----------------------------------------------------------------------------
(* The inductive invariant *)

InvoiceColumns ==
    {"kind", "status", "number", "year", "lines", "rate", "duty", "totals", "corrects"}
CallColumns == {"does", "invoice", "lines", "number", "year"}

InvoiceShapes ==
    /\ invoice = [i \in Invoices |-> invoice[i]]
    /\ \A i \in Invoices :
        /\ invoice[i] = [k \in InvoiceColumns |-> invoice[i][k]]
        /\ invoice[i].status # "none" => invoice[i].kind \in Kinds
    /\ counter \in [Kinds \X Years -> Nat]
    /\ year \in Years
    /\ call = [u \in Accountants |-> call[u]]
    /\ \A u \in Accountants :
        call[u] # NoCall =>
            /\ call[u] = [k \in CallColumns |-> call[u][k]]
            /\ call[u].invoice \in Invoices /\ call[u].year \in Years
            /\ invoice[call[u].invoice].status # "none"

\* The counter that a call that issues has taken its number from.
CounterOf(u) == <<invoice[call[u].invoice].kind, call[u].year>>

\* One call at a time holds a counter, and it has the next number; a document
\* that is being paid was issued.
Held ==
    /\ \A u \in Accountants :
        Doing(u, "issue") => call[u].number = counter[CounterOf(u)] + 1
    /\ \A u, v \in Accountants :
        Doing(u, "issue") /\ Doing(v, "issue") /\ CounterOf(u) = CounterOf(v) => u = v
    /\ \A u \in Accountants : Doing(u, "pay") => Issued(call[u].invoice)

Numbered(i, k, y, n) ==
    /\ Issued(i) /\ invoice[i].kind = k /\ invoice[i].year = y /\ invoice[i].number = n

\* Every number up to the counter is that of exactly one issued document.
Series ==
    /\ \A i \in Invoices :
        Issued(i) => /\ invoice[i].year \in Years
                     /\ invoice[i].number \in 1 .. counter[<<invoice[i].kind, invoice[i].year>>]
    /\ \A k \in Kinds, y \in Years : \A n \in 1 .. counter[<<k, y>>] :
        \E i \in Invoices : Numbered(i, k, y, n)
    /\ \A k \in Kinds, y \in Years, i, j \in Invoices :
        \A n : Numbered(i, k, y, n) /\ Numbered(j, k, y, n) => i = j

SeriesInv == InvoiceShapes /\ Held /\ Series

-----------------------------------------------------------------------------
(* From the invariant to the property *)

LEMMA SeriesIsCounted == SeriesInv => SeriesHasNoGap
  <1> SUFFICES ASSUME SeriesInv, NEW k \in Kinds, NEW y \in Years
               PROVE  LET series == {i \in Invoices :
                                Issued(i) /\ invoice[i].kind = k /\ invoice[i].year = y}
                      IN /\ {invoice[i].number : i \in series} = 1 .. counter[<<k, y>>]
                         /\ Cardinality(series) = counter[<<k, y>>]
    BY DEF SeriesHasNoGap
  <1> DEFINE series == {i \in Invoices :
                            Issued(i) /\ invoice[i].kind = k /\ invoice[i].year = y}
             last == counter[<<k, y>>]
             number == [i \in series |-> invoice[i].number]
  <1>1. last \in Nat
    BY DEF SeriesInv, InvoiceShapes
  <1>2. \A i \in series : invoice[i].number \in 1 .. last
    BY DEF SeriesInv, Series
  <1>3. \A n \in 1 .. last : \E i \in series : invoice[i].number = n
    BY DEF SeriesInv, Series, Numbered
  <1>4. \A i, j \in series : invoice[i].number = invoice[j].number => i = j
    BY DEF SeriesInv, Series, Numbered
  <1> HIDE DEF series, last
  <1>5. {invoice[i].number : i \in series} = 1 .. last
    BY <1>2, <1>3
  <1>6. number \in Bijection(series, 1 .. last)
    BY <1>2, <1>3, <1>4 DEF Bijection, Injection, Surjection, IsInjective
  <1>7. Cardinality(series) = last
    <2>1. ExistsBijection(series, 1 .. last)
      BY <1>6 DEF ExistsBijection
    <2>2. ExistsBijection(1 .. last, series)
      BY <2>1, Fun_ExistsBijSymmetric
    <2> QED
      BY <1>1, <2>2, FS_CountingElements
  <1> QED
    BY <1>5, <1>7 DEF series, last

-----------------------------------------------------------------------------
(* Steps that number nothing *)

\* Documents and calls change, but no document is issued or loses its face, the
\* counters stay, and no call takes a number.
SameSeries ==
    /\ counter' = counter
    /\ \A i \in Invoices :
        /\ Issued(i)' <=> Issued(i)
        /\ Issued(i) => Face(i)' = Face(i)
    /\ \A u \in Accountants : Doing(u, "issue")' =>
        /\ Doing(u, "issue") /\ call'[u] = call[u]
        /\ invoice'[call[u].invoice].kind = invoice[call[u].invoice].kind
    /\ \A u \in Accountants : Doing(u, "pay")' => Issued(call'[u].invoice)

\* The face of a document has its kind, number and year.
LEMMA FaceShows ==
  ASSUME InvoiceShapes, InvoiceShapes', NEW i \in Invoices, Face(i)' = Face(i)
  PROVE  /\ invoice'[i].kind = invoice[i].kind
         /\ invoice'[i].year = invoice[i].year
         /\ invoice'[i].number = invoice[i].number
  <1> DEFINE new == invoice'[i]
             old == invoice[i]
  <1>1. /\ new = [k \in InvoiceColumns |-> new[k]]
        /\ old = [k \in InvoiceColumns |-> old[k]]
    BY DEF InvoiceShapes
  <1>2. [new EXCEPT !.lines = <<>>, !.status = "ISSUED"] = [old EXCEPT !.lines = <<>>, !.status = "ISSUED"]
    BY DEF Face
  <1> HIDE DEF new, old
  <1>3. PICK face : /\ face = [new EXCEPT !.lines = <<>>, !.status = "ISSUED"]
                    /\ face = [old EXCEPT !.lines = <<>>, !.status = "ISSUED"]
    BY <1>2, Zenon
  <1>4. face.kind = new.kind /\ face.year = new.year /\ face.number = new.number
    BY <1>1, <1>3 DEF InvoiceColumns
  <1>5. face.kind = old.kind /\ face.year = old.year /\ face.number = old.number
    BY <1>1, <1>3 DEF InvoiceColumns
  <1> QED
    BY <1>4, <1>5 DEF new, old

LEMMA SameSeriesKeeps ==
  ASSUME SeriesInv, InvoiceShapes', SameSeries
  PROVE  SeriesInv'
  <1>1. \A i \in Invoices : Issued(i) =>
            /\ invoice'[i].kind = invoice[i].kind
            /\ invoice'[i].year = invoice[i].year
            /\ invoice'[i].number = invoice[i].number
    BY FaceShows DEF SeriesInv, SameSeries
  <1>2. ASSUME NEW i \in Invoices, NEW k, NEW y, NEW n
        PROVE  Numbered(i, k, y, n)' <=> Numbered(i, k, y, n)
    BY <1>1 DEF Numbered, SameSeries
  <1>3. Series'
    BY <1>1, <1>2 DEF Series, SeriesInv, SameSeries
  <1>4. Held'
    <2>1. \A u \in Accountants : Doing(u, "issue")' => CounterOf(u)' = CounterOf(u)
      BY DEF SameSeries, CounterOf
    <2>2. ASSUME NEW u \in Accountants, Doing(u, "issue")'
          PROVE  call'[u].number = counter'[CounterOf(u)'] + 1
      BY <2>1, <2>2 DEF Held, SeriesInv, SameSeries
    <2>3. ASSUME NEW u \in Accountants, NEW v \in Accountants, Doing(u, "issue")',
                 Doing(v, "issue")', CounterOf(u)' = CounterOf(v)'
          PROVE  u = v
      BY <2>1, <2>3 DEF Held, SeriesInv, SameSeries
    <2>4. ASSUME NEW u \in Accountants, Doing(u, "pay")' PROVE Issued(call[u].invoice)'
      <3>1. call'[u].invoice \in Invoices /\ Issued(call'[u].invoice)
        BY <2>4 DEF InvoiceShapes, Doing, SameSeries
      <3>2. \A i \in Invoices : Issued(i) => Issued(i)'
        BY DEF SameSeries
      <3> QED
        BY <3>1, <3>2 DEF Issued
    <2> QED
      BY <2>2, <2>3, <2>4 DEF Held
  <1> QED
    BY <1>3, <1>4 DEF SeriesInv

-----------------------------------------------------------------------------
(* The operations *)

\* A draft is written where no document is.
LEMMA DraftKeeps ==
  ASSUME SeriesInv, NEW i \in Invoices, Free(i), NEW kind \in Kinds, NEW lines, NEW rate, NEW duty,
         NEW corrects, invoice' = [invoice EXCEPT ![i] = Draft(kind, lines, rate, duty, corrects)],
         UNCHANGED <<counter, settings, year, call>>
  PROVE  SeriesInv' /\ SameSeries
  <1> DEFINE row == Draft(kind, lines, rate, duty, corrects)
  <1>1. /\ row = [k \in InvoiceColumns |-> row[k]]
        /\ row.kind = kind /\ row.status = "DRAFT"
    BY DEF Draft, InvoiceColumns
  <1> HIDE DEF row
  <1>2. invoice' = [invoice EXCEPT ![i] = row]
    BY DEF row
  <1>3. /\ invoice' = [j \in Invoices |-> IF j = i THEN row ELSE invoice[j]]
        /\ invoice[i].status = "none"
    BY <1>2 DEF SeriesInv, InvoiceShapes, Free
  <1>4. InvoiceShapes'
    BY <1>1, <1>3 DEF SeriesInv, InvoiceShapes
  <1>5. SameSeries
    <2>1. \A j \in Invoices : (Issued(j)' <=> Issued(j)) /\ (Issued(j) => Face(j)' = Face(j))
      BY <1>1, <1>3 DEF Issued, Face
    <2>2. \A u \in Accountants : Doing(u, "pay")' => Issued(call'[u].invoice)
      BY DEF SeriesInv, Held, Doing
    <2>3. \A u \in Accountants : Doing(u, "issue") => call[u].invoice # i
      BY <1>3 DEF SeriesInv, InvoiceShapes, Doing
    <2>4. \A u \in Accountants : Doing(u, "issue") => call[u].invoice \in Invoices
      BY DEF SeriesInv, InvoiceShapes, Doing
    <2>5. \A u \in Accountants : Doing(u, "issue") =>
                invoice'[call[u].invoice].kind = invoice[call[u].invoice].kind
      BY <1>3, <2>3, <2>4
    <2> QED
      BY <2>1, <2>2, <2>5 DEF SameSeries, Doing
  <1> QED
    BY <1>4, <1>5, SameSeriesKeeps

LEMMA CreateKeeps ==
  ASSUME SeriesInv, NEW i \in Invoices, NEW o \in Invoices, NEW lines,
         CreateDraft(i, lines) \/ CreateCreditNote(i, o, lines)
  PROVE  SeriesInv' /\ SameSeries
  <1>1. CASE CreateDraft(i, lines)
    BY <1>1, DraftKeeps DEF CreateDraft, Kinds
  <1>2. CASE CreateCreditNote(i, o, lines)
    BY <1>2, DraftKeeps DEF CreateCreditNote, Kinds
  <1> QED
    BY <1>1, <1>2

\* No document and no counter changes; a call begins, ends or goes on, and only
\* one that did so issues.
LEMMA CallsKeep ==
  ASSUME SeriesInv, UNCHANGED <<invoice, counter>>, InvoiceShapes',
         \A u \in Accountants : Doing(u, "issue")' => call'[u] = call[u],
         \A u \in Accountants : Doing(u, "pay")' => Issued(call'[u].invoice)
  PROVE  SeriesInv' /\ SameSeries
  <1>1. SameSeries
    <2>1. \A i \in Invoices : (Issued(i)' <=> Issued(i)) /\ Face(i)' = Face(i)
      BY DEF Issued, Face
    <2>2. \A u \in Accountants : Doing(u, "issue")' => Doing(u, "issue")
      BY DEF Doing
    <2> QED
      BY <2>1, <2>2 DEF SameSeries
  <1> QED
    BY <1>1, SameSeriesKeeps

LEMMA BeginKeeps ==
  ASSUME SeriesInv, NEW u \in Accountants, NEW i \in Invoices, NEW lines,
         SetLinesReads(u, i, lines) \/ IssueReads(u, i) \/ PayReads(u, i) \/ CancelReads(u, i)
  PROVE  SeriesInv' /\ SameSeries
  <1>1. PICK does, l :
            /\ does \in {"rewrite", "number", "pay", "cancel"}
            /\ call' = [call EXCEPT ![u] = Call(does, i, l, 0, year)]
            /\ does = "pay" => Issued(i)
    BY DEF SetLinesReads, IssueReads, PayReads, CancelReads, Begin, Issued
  <1>2. UNCHANGED <<invoice, counter, settings, year>> /\ invoice[i].status # "none"
    BY DEF SetLinesReads, IssueReads, PayReads, CancelReads, Begin
  <1>3. PICK new : new = Call(does, i, l, 0, year)
    OBVIOUS
  <1>4. /\ new = [k \in CallColumns |-> new[k]]
        /\ new.does = does /\ new.invoice = i /\ new.year = year
    BY <1>3 DEF Call, CallColumns
  <1>5. call' = [v \in Accountants |-> IF v = u THEN new ELSE call[v]]
    BY <1>1, <1>3 DEF SeriesInv, InvoiceShapes
  <1>6. InvoiceShapes'
    BY <1>2, <1>4, <1>5 DEF SeriesInv, InvoiceShapes
  <1>7. \A v \in Accountants : Doing(v, "issue")' => call'[v] = call[v]
    BY <1>1, <1>4, <1>5 DEF Doing
  <1>8. \A v \in Accountants : Doing(v, "pay")' => Issued(call'[v].invoice)
    BY <1>1, <1>4, <1>5 DEF Doing, SeriesInv, Held
  <1> QED
    BY <1>2, <1>6, <1>7, <1>8, CallsKeep

LEMMA EndKeeps ==
  ASSUME SeriesInv, NEW u \in Accountants, RollBack(u) \/ ReplaceLines(u)
  PROVE  SeriesInv' /\ SameSeries
  <1>1. UNCHANGED <<invoice, counter, settings, year>>
    BY DEF RollBack, ReplaceLines
  <1>2. /\ InvoiceShapes'
        /\ \A v \in Accountants : v # u => call'[v] = call[v]
        /\ ~Doing(u, "issue")' /\ ~Doing(u, "pay")'
    <2>1. CASE RollBack(u)
      BY <1>1, <2>1 DEF RollBack, SeriesInv, InvoiceShapes, Doing
    <2>2. CASE ReplaceLines(u)
      <3>1. PICK new : new = [call[u] EXCEPT !.does = "total"]
        OBVIOUS
      <3>2. call' = [v \in Accountants |-> IF v = u THEN new ELSE call[v]]
        BY <2>2, <3>1 DEF ReplaceLines, SeriesInv, InvoiceShapes
      <3>3. /\ new = [k \in CallColumns |-> new[k]] /\ new.does = "total"
            /\ new.invoice = call[u].invoice /\ new.year = call[u].year
            /\ call[u] # NoCall
        BY <2>2, <3>1 DEF ReplaceLines, SeriesInv, InvoiceShapes, Doing, CallColumns
      <3> QED
        BY <1>1, <3>2, <3>3 DEF SeriesInv, InvoiceShapes, Doing
    <2> QED
      BY <2>1, <2>2
  <1>3. \A v \in Accountants : Doing(v, "issue")' => call'[v] = call[v]
    BY <1>2
  <1>4. \A v \in Accountants : Doing(v, "pay")' => Issued(call'[v].invoice)
    BY <1>2 DEF Doing, SeriesInv, Held
  <1> QED
    BY <1>1, <1>2, <1>3, <1>4, CallsKeep

\* One document changes and the call that changes it ends; what was issued stays
\* issued and keeps its face, and what was not is not issued now.
LEMMA CommitKeeps ==
  ASSUME SeriesInv, NEW u \in Accountants, NEW i \in Invoices, NEW row,
         call[u] # NoCall, call[u].invoice = i,
         row = [k \in InvoiceColumns |-> row[k]],
         row.kind = invoice[i].kind, row.status # "none",
         row.status \in {"ISSUED", "PAID"} <=> Issued(i),
         Issued(i) => [row EXCEPT !.lines = <<>>, !.status = "ISSUED"] = Face(i),
         invoice' = [invoice EXCEPT ![i] = row],
         call' = [call EXCEPT ![u] = NoCall],
         UNCHANGED <<counter, settings, year>>
  PROVE  SeriesInv' /\ SameSeries
  <1>1. /\ invoice' = [j \in Invoices |-> IF j = i THEN row ELSE invoice[j]]
        /\ call' = [v \in Accountants |-> IF v = u THEN NoCall ELSE call[v]]
    BY DEF SeriesInv, InvoiceShapes
  <1>2. invoice[i].kind \in Kinds
    BY DEF SeriesInv, InvoiceShapes
  <1>3. InvoiceShapes'
    <2>1. /\ invoice' = [j \in Invoices |-> invoice'[j]]
          /\ call' = [v \in Accountants |-> call'[v]]
      BY <1>1
    <2>2. \A j \in Invoices :
            /\ invoice'[j] = [k \in InvoiceColumns |-> invoice'[j][k]]
            /\ invoice'[j].status # "none" => invoice'[j].kind \in Kinds
      BY <1>1, <1>2 DEF SeriesInv, InvoiceShapes
    <2>3. \A j \in Invoices : invoice[j].status # "none" => invoice'[j].status # "none"
      BY <1>1
    <2>4. \A v \in Accountants : call'[v] # NoCall => call'[v] = call[v]
      BY <1>1
    <2> QED
      BY <2>1, <2>2, <2>3, <2>4 DEF SeriesInv, InvoiceShapes
  <1>4. SameSeries
    <2>1. \A j \in Invoices : Issued(j)' <=> Issued(j)
      BY <1>1 DEF Issued
    <2>2. ASSUME NEW j \in Invoices, Issued(j) PROVE Face(j)' = Face(j)
      <3>1. CASE j = i
        <4>1. invoice'[i] = row
          BY <1>1
        <4> QED
          BY <2>2, <3>1, <4>1, Zenon DEF Face
      <3>2. CASE j # i
        <4>1. invoice'[j] = invoice[j]
          BY <1>1, <3>2
        <4> QED
          BY <4>1, Zenon DEF Face
      <3> QED
        BY <3>1, <3>2
    <2>3. \A v \in Accountants : Doing(v, "issue")' =>
            /\ Doing(v, "issue") /\ call'[v] = call[v]
            /\ invoice'[call[v].invoice].kind = invoice[call[v].invoice].kind
      BY <1>1 DEF Doing, SeriesInv, InvoiceShapes
    <2>4. \A v \in Accountants : Doing(v, "pay")' => Issued(call'[v].invoice)
      BY <1>1 DEF Doing, SeriesInv, Held
    <2> QED
      BY <2>1, <2>2, <2>3, <2>4 DEF SameSeries
  <1> QED
    BY <1>3, <1>4, SameSeriesKeeps

\* Lines and totals: of an issued document the same totals only.
LEMMA SetLinesKeeps ==
  ASSUME SeriesInv, NEW u \in Accountants, SetLinesCommits(u)
  PROVE  SeriesInv' /\ SameSeries
  <1>1. PICK i, lines, totals :
            /\ i \in Invoices /\ call[u] # NoCall /\ call[u].invoice = i
            /\ invoice' = [invoice EXCEPT ![i] =
                            [@ EXCEPT !.lines = lines, !.totals = totals]]
            /\ NotDraft(i) => totals = invoice[i].totals
            /\ call' = [call EXCEPT ![u] = NoCall]
    BY Zenon DEF SetLinesCommits, SeriesInv, InvoiceShapes, Doing
  <1> DEFINE row == [invoice[i] EXCEPT !.lines = lines, !.totals = totals]
             old == invoice[i]
  <1>2. old = [k \in InvoiceColumns |-> old[k]] /\ old.status # "none"
    BY <1>1 DEF SeriesInv, InvoiceShapes
  <1>3. /\ row = [k \in InvoiceColumns |-> row[k]]
        /\ row.kind = old.kind /\ row.status = old.status
    BY <1>2 DEF InvoiceColumns
  <1>4. Issued(i) => [row EXCEPT !.lines = <<>>, !.status = "ISSUED"] = Face(i)
    BY <1>1, <1>2 DEF Issued, NotDraft, Face, InvoiceColumns
  <1>5. UNCHANGED <<counter, settings, year>>
    BY DEF SetLinesCommits
  <1>6. invoice' = [invoice EXCEPT ![i] = row]
    BY <1>1, Zenon
  <1>7. /\ row.status \in {"ISSUED", "PAID"} <=> Issued(i)
        /\ row.kind = invoice[i].kind /\ row.status # "none"
    BY <1>2, <1>3 DEF Issued
  <1> HIDE DEF row, old
  <1>8. /\ i \in Invoices /\ call[u] # NoCall /\ call[u].invoice = i
        /\ call' = [call EXCEPT ![u] = NoCall]
        /\ row = [k \in InvoiceColumns |-> row[k]]
    BY <1>1, <1>3
  <1> QED
    BY <1>4, <1>5, <1>6, <1>7, <1>8, CommitKeeps

\* A status that is one of the issued ones, or none of them, stays so.
LEMMA StatusKeeps ==
  ASSUME SeriesInv, NEW u \in Accountants, PayCommits(u) \/ CancelCommits(u)
  PROVE  SeriesInv' /\ SameSeries
  <1>1. PICK i \in Invoices, status \in {"PAID", "CANCELLED"} :
            /\ call[u] # NoCall /\ call[u].invoice = i
            /\ invoice' = [invoice EXCEPT ![i] = [@ EXCEPT !.status = status]]
            /\ call' = [call EXCEPT ![u] = NoCall]
            /\ status = "PAID" <=> Issued(i)
    <2>1. CASE PayCommits(u)
      <3>1. Issued(call[u].invoice) /\ call[u].invoice \in Invoices /\ call[u] # NoCall
        BY <2>1 DEF PayCommits, SeriesInv, Held, InvoiceShapes, Doing
      <3> QED
        BY <2>1, <3>1 DEF PayCommits
    <2>2. CASE CancelCommits(u)
      <3>1. ~Issued(call[u].invoice) /\ call[u].invoice \in Invoices /\ call[u] # NoCall
        BY <2>2 DEF CancelCommits, SeriesInv, InvoiceShapes, Doing, Issued, NotDraft
      <3> QED
        BY <2>2, <3>1 DEF CancelCommits
    <2> QED
      BY <2>1, <2>2
  <1> DEFINE row == [invoice[i] EXCEPT !.status = status]
             old == invoice[i]
  <1>2. old = [k \in InvoiceColumns |-> old[k]] /\ old.status # "none"
    BY <1>1 DEF SeriesInv, InvoiceShapes
  <1>3. /\ row = [k \in InvoiceColumns |-> row[k]]
        /\ row.kind = old.kind /\ row.status = status
    BY <1>2 DEF InvoiceColumns
  <1>4. [row EXCEPT !.lines = <<>>, !.status = "ISSUED"] = Face(i)
    BY <1>2 DEF Face, InvoiceColumns
  <1>5. UNCHANGED <<counter, settings, year>>
    BY DEF PayCommits, CancelCommits
  <1>6. invoice' = [invoice EXCEPT ![i] = row]
    BY <1>1, Zenon
  <1>7. row.status \in {"ISSUED", "PAID"} <=> Issued(i)
    BY <1>1, <1>3
  <1> HIDE DEF row
  <1> QED
    BY <1>1, <1>2, <1>3, <1>4, <1>5, <1>6, <1>7, CommitKeeps

\* Neither the settings nor the calendar touch a document.
LEMMA SettingsKeep ==
  ASSUME SeriesInv, \/ \E r \in VatRates, d \in Duties : UpdateSettings(r, d)
               \/ NewYear
               \/ UNCHANGED invoiceVars
  PROVE  SeriesInv' /\ SameSeries
  <1>1. UNCHANGED <<invoice, counter, call>> /\ year' \in Years
    BY DEF UpdateSettings, NewYear, invoiceVars, SeriesInv, InvoiceShapes
  <1>2. InvoiceShapes'
    BY <1>1 DEF SeriesInv, InvoiceShapes
  <1>3. \A v \in Accountants : Doing(v, "pay")' => Issued(call'[v].invoice)
    BY <1>1 DEF Doing, SeriesInv, Held
  <1> QED
    BY <1>1, <1>2, <1>3, CallsKeep

\* The next number of a counter that no other call holds.
LEMMA NumberKeeps ==
  ASSUME SeriesInv, NEW u \in Accountants, NextSequence(u)
  PROVE  SeriesInv' /\ (\A i \in Invoices : Issued(i) => Face(i)' = Face(i) /\ Issued(i)')
  <1>1. UNCHANGED <<invoice, counter, settings, year>>
    BY DEF NextSequence
  <1> DEFINE next == counter[CounterOf(u)] + 1
  <1>2. PICK new : new = [call[u] EXCEPT !.does = "issue", !.number = next]
    OBVIOUS
  <1>3. call[u] # NoCall /\ call[u] = [k \in CallColumns |-> call[u][k]]
    BY DEF NextSequence, Doing, SeriesInv, InvoiceShapes
  <1>4. /\ new = [k \in CallColumns |-> new[k]] /\ new.does = "issue"
        /\ new.number = next /\ new.invoice = call[u].invoice /\ new.year = call[u].year
    BY <1>2, <1>3 DEF CallColumns
  <1>5. call' = [v \in Accountants |-> IF v = u THEN new ELSE call[v]]
    BY <1>2 DEF NextSequence, CounterOf, SeriesInv, InvoiceShapes
  <1>6. \A v \in Accountants : Doing(v, "issue") => CounterOf(v) # CounterOf(u)
    BY DEF NextSequence, CounterFree, CounterOf
  <1>7. \A v \in Accountants : CounterOf(v)' = CounterOf(v)
    BY <1>1, <1>4, <1>5 DEF CounterOf
  <1>8. InvoiceShapes'
    BY <1>1, <1>3, <1>4, <1>5 DEF SeriesInv, InvoiceShapes
  <1>9. \A i \in Invoices : (Issued(i)' <=> Issued(i)) /\ Face(i)' = Face(i)
    BY <1>1 DEF Issued, Face
  <1>10. Held'
    <2>1. ASSUME NEW v \in Accountants, Doing(v, "issue")'
          PROVE  call'[v].number = counter'[CounterOf(v)'] + 1
      <3>1. CASE v = u
        BY <1>1, <1>4, <1>5, <1>7, <3>1
      <3>2. CASE v # u
        BY <1>1, <1>5, <1>7, <2>1, <3>2 DEF SeriesInv, Held, Doing
      <3> QED
        BY <3>1, <3>2
    <2>2. \A v, w \in Accountants :
            Doing(v, "issue")' /\ Doing(w, "issue")' /\ CounterOf(v)' = CounterOf(w)' => v = w
      <3>1. \A v \in Accountants : v # u /\ Doing(v, "issue")' => Doing(v, "issue")
        BY <1>5 DEF Doing
      <3> QED
        BY <1>6, <1>7, <3>1 DEF SeriesInv, Held
    <2>3. \A v \in Accountants : Doing(v, "pay")' => Issued(call[v].invoice)'
      BY <1>1, <1>4, <1>5 DEF SeriesInv, Held, Doing, Issued
    <2> QED
      BY <2>1, <2>2, <2>3 DEF Held
  <1>11. Series'
    BY <1>1 DEF SeriesInv, Series, Numbered, Issued
  <1> QED
    BY <1>8, <1>9, <1>10, <1>11 DEF SeriesInv

\* The draft becomes the document after the last of its counter.
LEMMA IssueKeeps ==
  ASSUME SeriesInv, NEW u \in Accountants, IssueCommits(u)
  PROVE  SeriesInv' /\ (\A i \in Invoices : Issued(i) => Face(i)' = Face(i) /\ Issued(i)')
  <1>1. PICK i \in Invoices, number \in Nat, in \in Years, kind \in Kinds :
            /\ call[u] # NoCall /\ call[u].does = "issue" /\ call[u].invoice = i
            /\ call[u].number = number /\ call[u].year = in /\ kind = invoice[i].kind
    <2>1. /\ call[u] # NoCall /\ call[u].does = "issue"
          /\ call[u].invoice \in Invoices /\ call[u].year \in Years
          /\ invoice[call[u].invoice].kind \in Kinds
          /\ call[u].number = counter[CounterOf(u)] + 1
      BY DEF IssueCommits, Doing, SeriesInv, InvoiceShapes, Held
    <2>2. counter[CounterOf(u)] \in Nat
      BY <2>1 DEF SeriesInv, InvoiceShapes, CounterOf
    <2> QED
      BY <2>1, <2>2
  <1> DEFINE row == [invoice[i] EXCEPT !.status = "ISSUED", !.number = number, !.year = in]
  <1>2. /\ invoice[i].status = "DRAFT"
        /\ number = counter[<<kind, in>>] + 1
    BY <1>1 DEF IssueCommits, NotDraft, SeriesInv, Held, Doing, CounterOf
  <1>3. /\ row = [k \in InvoiceColumns |-> row[k]] /\ row.kind = kind
        /\ row.status = "ISSUED" /\ row.number = number /\ row.year = in
    <2> DEFINE old == invoice[i]
    <2>1. old = [k \in InvoiceColumns |-> old[k]] /\ kind = old.kind
      BY <1>1 DEF SeriesInv, InvoiceShapes
    <2> HIDE DEF old
    <2>2. PICK new : new = [old EXCEPT !.status = "ISSUED", !.number = number, !.year = in]
      OBVIOUS
    <2>3. /\ new = [k \in InvoiceColumns |-> new[k]] /\ new.kind = kind
          /\ new.status = "ISSUED" /\ new.number = number /\ new.year = in
      BY <2>1, <2>2 DEF InvoiceColumns
    <2>4. new = row
      BY <2>2, Zenon DEF old
    <2> HIDE DEF row
    <2> QED
      BY <2>3, <2>4
  <1>4. /\ invoice' = [invoice EXCEPT ![i] = row]
        /\ counter' = [counter EXCEPT ![<<kind, in>>] = number]
        /\ call' = [call EXCEPT ![u] = NoCall]
        /\ UNCHANGED <<settings, year>>
    BY <1>1 DEF IssueCommits
  <1> HIDE DEF row
  <1>5. invoice' = [j \in Invoices |-> IF j = i THEN row ELSE invoice[j]]
    BY <1>4 DEF SeriesInv, InvoiceShapes
  <1>6. call' = [v \in Accountants |-> IF v = u THEN NoCall ELSE call[v]]
    BY <1>4 DEF SeriesInv, InvoiceShapes
  <1>7. /\ counter' \in [Kinds \X Years -> Nat]
        /\ counter'[<<kind, in>>] = number
        /\ \A c \in Kinds \X Years : c # <<kind, in>> => counter'[c] = counter[c]
        /\ counter[<<kind, in>>] \in Nat
    BY <1>2, <1>4 DEF SeriesInv, InvoiceShapes
  <1>8. InvoiceShapes'
    <2>1. \A j \in Invoices :
            /\ invoice'[j] = [k \in InvoiceColumns |-> invoice'[j][k]]
            /\ invoice'[j].status # "none" => invoice'[j].kind \in Kinds
      BY <1>3, <1>5 DEF SeriesInv, InvoiceShapes
    <2>2. \A j \in Invoices : invoice[j].status # "none" => invoice'[j].status # "none"
      BY <1>3, <1>5
    <2>3. \A v \in Accountants : call'[v] # NoCall => call'[v] = call[v]
      BY <1>6
    <2>4. \A v \in Accountants : call'[v] # NoCall =>
            /\ call'[v] = [k \in CallColumns |-> call'[v][k]]
            /\ call'[v].invoice \in Invoices /\ call'[v].year \in Years
            /\ invoice'[call'[v].invoice].status # "none"
      BY <2>2, <2>3 DEF SeriesInv, InvoiceShapes
    <2>5. counter' \in [Kinds \X Years -> Nat] /\ year' \in Years
      BY <1>4, <1>7 DEF SeriesInv, InvoiceShapes
    <2> QED
      BY <1>5, <1>6, <2>1, <2>4, <2>5 DEF InvoiceShapes
  <1>9. \A j \in Invoices : Issued(j) => Face(j)' = Face(j) /\ Issued(j)'
    <2> SUFFICES ASSUME NEW j \in Invoices, Issued(j) PROVE Face(j)' = Face(j) /\ Issued(j)'
      OBVIOUS
    <2>1. invoice'[j] = invoice[j]
      BY <1>2, <1>5 DEF Issued
    <2> QED
      BY <2>1 DEF Face, Issued
  <1>10. Held'
    <2>1. \A v \in Accountants : Doing(v, "issue")' =>
            /\ v # u /\ Doing(v, "issue") /\ call'[v] = call[v]
            /\ call[v].invoice \in Invoices /\ call[v].year \in Years
            /\ invoice[call[v].invoice].status # "none"
      BY <1>6 DEF Doing, SeriesInv, InvoiceShapes
    <2>2. \A v \in Accountants : Doing(v, "issue")' =>
            CounterOf(v)' = CounterOf(v) /\ CounterOf(v) \in Kinds \X Years
      BY <1>1, <1>3, <1>5, <2>1 DEF CounterOf, SeriesInv, InvoiceShapes
    <2>3. \A v \in Accountants : Doing(v, "issue")' => CounterOf(v) # <<kind, in>>
      BY <1>1, <2>1 DEF SeriesInv, Held, CounterOf, Doing
    <2>4. \A v \in Accountants :
            Doing(v, "issue")' => call'[v].number = counter'[CounterOf(v)'] + 1
      BY <1>7, <2>1, <2>2, <2>3 DEF SeriesInv, Held
    <2>5. \A v, w \in Accountants :
            Doing(v, "issue")' /\ Doing(w, "issue")' /\ CounterOf(v)' = CounterOf(w)' => v = w
      BY <2>1, <2>2 DEF SeriesInv, Held
    <2>6. \A v \in Accountants : Doing(v, "pay")' => Issued(call[v].invoice)'
      <3>1. \A v \in Accountants : Doing(v, "pay")' =>
                /\ call'[v] = call[v] /\ call[v].invoice \in Invoices
                /\ Issued(call[v].invoice)
        BY <1>6 DEF Doing, SeriesInv, InvoiceShapes, Held
      <3> QED
        BY <1>9, <3>1 DEF Issued
    <2> QED
      BY <2>4, <2>5, <2>6 DEF Held
  <1>11. Series'
    <2>1. \A n : \A k \in Kinds, y \in Years, j \in Invoices :
            Numbered(j, k, y, n)' <=>
                \/ j # i /\ Numbered(j, k, y, n)
                \/ j = i /\ k = kind /\ y = in /\ n = number
      BY <1>3, <1>5 DEF Numbered, Issued
    <2>2. ~Issued(i)
      BY <1>2 DEF Issued
    <2>3. ASSUME NEW j \in Invoices, Issued(j)'
          PROVE  /\ invoice'[j].year \in Years
                 /\ invoice'[j].number
                        \in 1 .. counter'[<<invoice'[j].kind, invoice'[j].year>>]
      <3>1. CASE j = i
        BY <1>2, <1>3, <1>5, <1>7, <3>1
      <3>2. CASE j # i
        <4>1. invoice'[j] = invoice[j] /\ Issued(j)
          BY <1>5, <2>3, <3>2 DEF Issued
        <4>2. /\ invoice[j].year \in Years /\ invoice[j].kind \in Kinds
              /\ invoice[j].number \in 1 .. counter[<<invoice[j].kind, invoice[j].year>>]
          BY <4>1 DEF SeriesInv, Series, InvoiceShapes, Issued
        <4> DEFINE c == <<invoice[j].kind, invoice[j].year>>
        <4>3. c \in Kinds \X Years /\ counter[c] \in Nat /\ counter'[c] \in Nat
          BY <1>7, <4>2 DEF SeriesInv, InvoiceShapes
        <4>4. counter[c] <= counter'[c]
          BY <1>2, <1>7, <4>3
        <4> QED
          BY <4>1, <4>2, <4>3, <4>4
      <3> QED
        BY <3>1, <3>2
    <2>4. ASSUME NEW k \in Kinds, NEW y \in Years, NEW n \in 1 .. counter'[<<k, y>>]
          PROVE  \E j \in Invoices : Numbered(j, k, y, n)'
      <3>1. CASE k = kind /\ y = in /\ n = number
        BY <2>1, <3>1
      <3>2. CASE ~(k = kind /\ y = in /\ n = number)
        <4>1. n \in 1 .. counter[<<k, y>>]
          BY <1>2, <1>7, <3>2
        <4>2. PICK j \in Invoices : Numbered(j, k, y, n)
          BY <4>1 DEF SeriesInv, Series
        <4> QED
          BY <2>1, <2>2, <4>2 DEF Numbered
      <3> QED
        BY <3>1, <3>2
    <2>5. ASSUME NEW k \in Kinds, NEW y \in Years, NEW j \in Invoices, NEW l \in Invoices,
                 NEW n, Numbered(j, k, y, n)', Numbered(l, k, y, n)'
          PROVE  j = l
      <3>1. \A m \in Invoices : ~Numbered(m, kind, in, number)
        BY <1>2, <1>7 DEF SeriesInv, Series, Numbered
      <3> QED
        BY <2>1, <2>5, <3>1 DEF SeriesInv, Series
    <2> QED
      BY <2>3, <2>4, <2>5 DEF Series
  <1> QED
    BY <1>8, <1>9, <1>10, <1>11 DEF SeriesInv

-----------------------------------------------------------------------------
(* The theorems *)

LEMMA InvoiceStarts == InvoiceInit => SeriesInv
  <1> SUFFICES ASSUME InvoiceInit PROVE SeriesInv
    OBVIOUS
  <1>1. \A i \in Invoices : invoice[i] = NoInvoice /\ invoice[i].status = "none"
    BY DEF InvoiceInit, NoInvoice
  <1>2. NoInvoice = [k \in InvoiceColumns |-> NoInvoice[k]]
    BY DEF NoInvoice, InvoiceColumns
  <1>3. InvoiceShapes
    BY <1>1, <1>2 DEF InvoiceShapes, InvoiceInit
  <1>4. Held
    BY DEF Held, Doing, InvoiceInit
  <1>5. Series
    BY <1>1 DEF Series, Numbered, Issued, InvoiceInit
  <1> QED
    BY <1>3, <1>4, <1>5 DEF SeriesInv

LEMMA InvoiceStep ==
  ASSUME SeriesInv, [InvoiceNext]_invoiceVars
  PROVE  SeriesInv' /\ (\A i \in Invoices : Issued(i) => Face(i)' = Face(i) /\ Issued(i)')
  <1>1. SameSeries => \A i \in Invoices : Issued(i) => Face(i)' = Face(i) /\ Issued(i)'
    BY DEF SameSeries
  <1>2. CASE \E i \in Invoices, lines \in LineLists : CreateDraft(i, lines)
    BY <1>1, <1>2, CreateKeeps
  <1>3. CASE \E i, o \in Invoices, lines \in LineLists : CreateCreditNote(i, o, lines)
    BY <1>1, <1>3, CreateKeeps
  <1>4. CASE \/ \E r \in VatRates, d \in Duties : UpdateSettings(r, d)
             \/ NewYear
             \/ UNCHANGED invoiceVars
    BY <1>1, <1>4, SettingsKeep
  <1>5. CASE \E u \in Accountants, i \in Invoices, lines \in LineLists :
                SetLinesReads(u, i, lines)
    BY <1>1, <1>5, BeginKeeps
  <1>6. CASE \E u \in Accountants, i \in Invoices :
                IssueReads(u, i) \/ PayReads(u, i) \/ CancelReads(u, i)
    BY <1>1, <1>6, BeginKeeps
  <1>7. ASSUME NEW u \in Accountants,
               \/ ReplaceLines(u) \/ SetLinesCommits(u) \/ NextSequence(u) \/ IssueCommits(u)
               \/ PayCommits(u) \/ CancelCommits(u) \/ RollBack(u)
        PROVE  SeriesInv' /\ (\A i \in Invoices : Issued(i) => Face(i)' = Face(i) /\ Issued(i)')
    <2>1. CASE ReplaceLines(u) \/ RollBack(u)
      BY <1>1, <2>1, EndKeeps
    <2>2. CASE SetLinesCommits(u)
      BY <1>1, <2>2, SetLinesKeeps
    <2>3. CASE NextSequence(u)
      BY <2>3, NumberKeeps
    <2>4. CASE IssueCommits(u)
      BY <2>4, IssueKeeps
    <2>5. CASE PayCommits(u) \/ CancelCommits(u)
      BY <1>1, <2>5, StatusKeeps
    <2> QED
      BY <1>7, <2>1, <2>2, <2>3, <2>4, <2>5
  <1> QED
    BY <1>2, <1>3, <1>4, <1>5, <1>6, <1>7 DEF InvoiceNext

LEMMA InvoiceInvariant == InvoiceSpec => []SeriesInv
  <1>1. SeriesInv /\ [InvoiceNext]_invoiceVars => SeriesInv'
    BY InvoiceStep
  <1> QED
    BY InvoiceStarts, <1>1, PTL DEF InvoiceSpec

\* The numbers of a kind and a year are 1, 2, ... without a gap or a repeat,
\* whatever issues of invoice.service race for a document or a counter.
THEOREM SeriesIsGapless == InvoiceSpec => []SeriesHasNoGap
  BY InvoiceInvariant, SeriesIsCounted, PTL

\* What an issued document says never changes: the row trigger of migration 0032
\* with the guards of invoice.service.
THEOREM IssuedStaysAsIssued == InvoiceSpec => IssuedIsFrozen
  <1>1. SeriesInv /\ [InvoiceNext]_invoiceVars =>
            [\A i \in Invoices : Issued(i) => Face(i)' = Face(i) /\ Issued(i)']_invoiceVars
    BY InvoiceStep
  <1> QED
    BY InvoiceInvariant, <1>1, PTL DEF InvoiceSpec, IssuedIsFrozen

-----------------------------------------------------------------------------
(* The sums of invoices: a second invariant, on top of the first *)

\* A row is the sum of its lines, and taxes as the document it corrects.
AddsUp(i) ==
    /\ invoice[i].lines \in Seq(Nat) /\ invoice[i].rate \in Nat /\ invoice[i].duty \in Nat
    /\ invoice[i].totals =
            ComputeInvoiceTotals(invoice[i].lines, invoice[i].rate, invoice[i].duty)
    /\ invoice[i].corrects # NoDocument =>
        LET original == invoice[invoice[i].corrects]
        IN /\ invoice[i].corrects \in Invoices /\ original.status # "none"
           /\ invoice[i].rate = original.rate /\ invoice[i].duty = original.duty

SumsInv ==
    /\ SeriesInv
    /\ \A i \in Invoices : AddsUp(i)
    /\ \A u \in Accountants : call[u] # NoCall => call[u].lines \in Seq(Nat)
    /\ settings.rate \in Nat /\ settings.duty \in Nat

LEMMA RatesAreNumbers == (\A r \in VatRates : r \in Nat) /\ (\A d \in Duties : d \in Nat)
  <1>1. ASSUME NEW r \in VatRates PROVE r \in Nat
    <2>1. r \in 0 .. 10000
      BY InvoiceAssumption
    <2>2. \A n \in 0 .. 10000 : n \in Nat
      OBVIOUS
    <2> QED
      BY <2>1, <2>2
  <1>2. \A d \in Duties : d \in Nat
    BY InvoiceAssumption
  <1> QED
    BY <1>1, <1>2

LEMMA ListsAreLines == <<>> \in LineLists /\ \A lines \in LineLists : lines \in Seq(Nat)
  <1>1. <<>> \in LineLists
    BY InvoiceAssumption
  <1>2. \A lines \in LineLists : lines \in Seq(Nat)
    BY InvoiceAssumption
  <1> QED
    BY <1>1, <1>2

LEMMA SubtotalIsNat ==
  ASSUME NEW lines \in Seq(Nat)
  PROVE  Subtotal(lines) \in Nat
  <1>1. DOMAIN lines = 1 .. Len(lines) /\ Len(lines) \in Nat
    OBVIOUS
  <1>2. IsFiniteSet(DOMAIN lines)
    BY <1>1, FS_Interval
  <1>3. \A n \in DOMAIN lines : lines[n] \in Nat
    OBVIOUS
  <1>4. SumFunctionOnSet(lines, DOMAIN lines) \in Nat
    BY <1>2, <1>3, SumNat
  <1> QED
    BY <1>4 DEF Subtotal, SumFunction

\* Rounding is off by half a unit at most.
LEMMA RoundingError ==
  ASSUME NEW x \in Nat
  PROVE  LET charged == RoundHalfUp(x, BasisPoints) * BasisPoints
         IN charged - x <= 5000 /\ x - charged <= 5000
  BY DEF RoundHalfUp, BasisPoints

LEMMA ProductIsNat ==
  ASSUME NEW m \in Nat, NEW n \in Nat
  PROVE  m * n \in Nat
  OBVIOUS

LEMMA SumsAddUp == SumsInv => DocumentsAddUp
  <1> SUFFICES ASSUME SumsInv, NEW i \in Invoices
               PROVE  /\ invoice[i].totals =
                            ComputeInvoiceTotals(invoice[i].lines, invoice[i].rate, invoice[i].duty)
                      /\ LET exact == invoice[i].totals.subtotal * invoice[i].rate
                             charged == invoice[i].totals.vat * BasisPoints
                         IN charged - exact <= 5000 /\ exact - charged <= 5000
                      /\ invoice[i].corrects # NoDocument =>
                            LET original == invoice[invoice[i].corrects]
                            IN invoice[i].lines = original.lines =>
                                    invoice[i].totals = original.totals
    BY DEF DocumentsAddUp
  <1>1. invoice[i].totals =
            ComputeInvoiceTotals(invoice[i].lines, invoice[i].rate, invoice[i].duty)
    BY DEF SumsInv, AddsUp
  <1>2. LET exact == invoice[i].totals.subtotal * invoice[i].rate
            charged == invoice[i].totals.vat * BasisPoints
        IN charged - exact <= 5000 /\ exact - charged <= 5000
    <2> DEFINE s == Subtotal(invoice[i].lines)
               x == s * invoice[i].rate
    <2>1. invoice[i].totals.subtotal = s /\ invoice[i].totals.vat = RoundHalfUp(x, BasisPoints)
      BY <1>1 DEF ComputeInvoiceTotals, Vat
    <2>2. x \in Nat
      BY SubtotalIsNat, ProductIsNat DEF SumsInv, AddsUp
    <2>3. LET charged == RoundHalfUp(x, BasisPoints) * BasisPoints
          IN charged - x <= 5000 /\ x - charged <= 5000
      <3> HIDE DEF x
      <3> QED
        BY <2>2, RoundingError
    <2> QED
      BY <2>1, <2>3
  <1>3. ASSUME invoice[i].corrects # NoDocument,
               invoice[i].lines = invoice[invoice[i].corrects].lines
        PROVE  invoice[i].totals = invoice[invoice[i].corrects].totals
    BY <1>3 DEF SumsInv, AddsUp
  <1> QED
    BY <1>1, <1>2, <1>3

-----------------------------------------------------------------------------
(* The operations, with the sums *)

\* One row is written, with the totals of its lines.
LEMMA RowAddsUp ==
  ASSUME SumsInv, NEW i \in Invoices, NEW row, invoice' = [invoice EXCEPT ![i] = row],
         row.lines \in Seq(Nat), row.rate \in Nat, row.duty \in Nat, row.status # "none",
         row.totals = ComputeInvoiceTotals(row.lines, row.rate, row.duty),
         invoice[i].status # "none" =>
            row.rate = invoice[i].rate /\ row.duty = invoice[i].duty,
         row.corrects # NoDocument =>
            /\ row.corrects \in Invoices /\ invoice[row.corrects].status # "none"
            /\ row.rate = invoice[row.corrects].rate /\ row.duty = invoice[row.corrects].duty
  PROVE  \A j \in Invoices : AddsUp(j)'
  <1>1. /\ invoice'[i] = row
        /\ \A j \in Invoices : j # i => invoice'[j] = invoice[j]
    BY DEF SumsInv, SeriesInv, InvoiceShapes
  <1>2. \A j \in Invoices : invoice[j].status # "none" =>
            /\ invoice'[j].status # "none"
            /\ invoice'[j].rate = invoice[j].rate /\ invoice'[j].duty = invoice[j].duty
    BY <1>1
  <1>3. ASSUME NEW j \in Invoices PROVE AddsUp(j)'
    <2>1. CASE j = i
      BY <1>1, <1>2, <2>1 DEF AddsUp
    <2>2. CASE j # i
      BY <1>1, <1>2, <2>2 DEF AddsUp, SumsInv
    <2> QED
      BY <2>1, <2>2
  <1> QED
    BY <1>3

\* The rows are left alone.
LEMMA RowsAddUp ==
  ASSUME SumsInv, invoice' = invoice
  PROVE  \A j \in Invoices : AddsUp(j)'
  BY DEF SumsInv, AddsUp

LEMMA CallsHaveLines ==
  ASSUME SumsInv, NEW u \in Accountants,
         \A v \in Accountants : v # u => call'[v] = call[v],
         call'[u] = NoCall \/ call'[u].lines \in Seq(Nat)
  PROVE  (\A v \in Accountants : call[v] # NoCall => call[v].lines \in Seq(Nat))'
  BY DEF SumsInv

LEMMA DraftAddsUp ==
  ASSUME SumsInv, NEW i \in Invoices, Free(i), NEW kind, NEW lines \in Seq(Nat),
         NEW rate \in Nat, NEW duty \in Nat, NEW corrects,
         invoice' = [invoice EXCEPT ![i] = Draft(kind, lines, rate, duty, corrects)],
         corrects # NoDocument =>
            /\ corrects \in Invoices /\ invoice[corrects].status # "none"
            /\ rate = invoice[corrects].rate /\ duty = invoice[corrects].duty
  PROVE  \A j \in Invoices : AddsUp(j)'
  <1> DEFINE row == Draft(kind, lines, rate, duty, corrects)
  <1>1. /\ row.lines = lines /\ row.rate = rate /\ row.duty = duty /\ row.status = "DRAFT"
        /\ row.totals = ComputeInvoiceTotals(lines, rate, duty)
        /\ row.corrects = corrects
    BY DEF Draft
  <1>2. invoice' = [invoice EXCEPT ![i] = row] /\ invoice[i].status = "none"
    BY DEF Free
  <1> HIDE DEF row
  <1> QED
    BY <1>1, <1>2, RowAddsUp

LEMMA CreateAddsUp ==
  ASSUME SumsInv, NEW i \in Invoices, NEW o \in Invoices, NEW lines \in LineLists,
         CreateDraft(i, lines) \/ CreateCreditNote(i, o, lines)
  PROVE  SumsInv'
  <1>1. SeriesInv' /\ lines \in Seq(Nat) /\ UNCHANGED <<settings, call>>
    BY CreateKeeps, ListsAreLines DEF SumsInv, CreateDraft, CreateCreditNote
  <1>2. CASE CreateDraft(i, lines)
    <2>1. /\ invoice' = [invoice EXCEPT ![i] =
                Draft("INVOICE", lines, settings.rate, settings.duty, NoDocument)]
          /\ Free(i) /\ settings.rate \in Nat /\ settings.duty \in Nat
      BY <1>2 DEF CreateDraft, SumsInv
    <2>2. \A j \in Invoices : AddsUp(j)'
      BY <1>1, <2>1, DraftAddsUp
    <2> QED
      BY <1>1, <2>2 DEF SumsInv
  <1>3. CASE CreateCreditNote(i, o, lines)
    <2>1. /\ invoice' = [invoice EXCEPT ![i] =
                Draft("CREDIT_NOTE", lines, invoice[o].rate, invoice[o].duty, o)]
          /\ Free(i) /\ invoice[o].status \in {"ISSUED", "PAID"}
      BY <1>3 DEF CreateCreditNote, Credited
    <2>2. invoice[o].rate \in Nat /\ invoice[o].duty \in Nat
      BY DEF SumsInv, AddsUp
    <2>3. \A j \in Invoices : AddsUp(j)'
      BY <1>1, <2>1, <2>2, DraftAddsUp
    <2> QED
      BY <1>1, <2>3 DEF SumsInv
  <1> QED
    BY <1>2, <1>3

LEMMA BeginAddsUp ==
  ASSUME SumsInv, NEW u \in Accountants, NEW i \in Invoices, NEW lines \in LineLists,
         SetLinesReads(u, i, lines) \/ IssueReads(u, i) \/ PayReads(u, i) \/ CancelReads(u, i)
  PROVE  SumsInv'
  <1>1. SeriesInv' /\ UNCHANGED <<invoice, settings>>
    BY BeginKeeps DEF SumsInv, SetLinesReads, IssueReads, PayReads, CancelReads, Begin
  <1>2. PICK l \in LineLists : \E does : call' = [call EXCEPT ![u] = Call(does, i, l, 0, year)]
    <2>1. <<>> \in LineLists
      BY ListsAreLines
    <2>2. \/ Begin(u, "rewrite", i, lines) \/ Begin(u, "number", i, <<>>)
          \/ Begin(u, "pay", i, <<>>) \/ Begin(u, "cancel", i, <<>>)
      BY DEF SetLinesReads, IssueReads, PayReads, CancelReads
    <2>3. PICK does : \E l \in LineLists : Begin(u, does, i, l)
      BY <2>1, <2>2, Zenon
    <2>4. PICK l \in LineLists : Begin(u, does, i, l)
      BY <2>3
    <2> QED
      BY <2>4, Zenon DEF Begin
  <1>3. /\ \A v \in Accountants : v # u => call'[v] = call[v]
        /\ call'[u].lines \in Seq(Nat)
    BY <1>2, ListsAreLines DEF SumsInv, SeriesInv, InvoiceShapes, Call
  <1>4. (\A v \in Accountants : call[v] # NoCall => call[v].lines \in Seq(Nat))'
    BY <1>3, CallsHaveLines
  <1> QED
    BY <1>1, <1>4, RowsAddUp DEF SumsInv

LEMMA WorkAddsUp ==
  ASSUME SumsInv, NEW u \in Accountants, ReplaceLines(u) \/ RollBack(u) \/ NextSequence(u)
  PROVE  SumsInv'
  <1>1. SeriesInv' /\ UNCHANGED <<invoice, settings>>
    BY EndKeeps, NumberKeeps DEF SumsInv, ReplaceLines, RollBack, NextSequence
  <1>2. /\ \A v \in Accountants : v # u => call'[v] = call[v]
        /\ call'[u] = NoCall \/ call'[u].lines \in Seq(Nat)
    <2>1. CASE RollBack(u)
      BY <2>1 DEF RollBack, SumsInv, SeriesInv, InvoiceShapes
    <2>2. CASE ReplaceLines(u) \/ NextSequence(u)
      <3>1. PICK number : call' = [call EXCEPT ![u] = [@ EXCEPT !.does = "total"]]
                          \/ call' = [call EXCEPT ![u] = [@ EXCEPT !.does = "issue",
                                                                 !.number = number]]
        BY <2>2, Zenon DEF ReplaceLines, NextSequence
      <3>2. call[u] # NoCall
        BY <2>2 DEF ReplaceLines, NextSequence, Doing
      <3>3. PICK row : /\ call' = [call EXCEPT ![u] = row]
                       /\ \/ row = [call[u] EXCEPT !.does = "total"]
                          \/ row = [call[u] EXCEPT !.does = "issue", !.number = number]
        BY <3>1
      <3>4. call[u] = [k \in CallColumns |-> call[u][k]] /\ call[u].lines \in Seq(Nat)
        BY <3>2 DEF SumsInv, SeriesInv, InvoiceShapes
      <3>5. row.lines = call[u].lines
        BY <3>3, <3>4 DEF CallColumns
      <3> QED
        BY <3>3, <3>4, <3>5 DEF SumsInv, SeriesInv, InvoiceShapes
    <2> QED
      BY <2>1, <2>2
  <1>3. (\A v \in Accountants : call[v] # NoCall => call[v].lines \in Seq(Nat))'
    BY <1>2, CallsHaveLines
  <1> QED
    BY <1>1, <1>3, RowsAddUp DEF SumsInv

\* A call writes its row and ends.
LEMMA CommitAddsUp ==
  ASSUME SumsInv, NEW u \in Accountants,
         SetLinesCommits(u) \/ IssueCommits(u) \/ PayCommits(u) \/ CancelCommits(u)
  PROVE  SumsInv'
  <1> DEFINE i == call[u].invoice
             old == invoice[i]
  <1>1. /\ SeriesInv' /\ settings' = settings
        /\ call' = [call EXCEPT ![u] = NoCall]
        /\ call[u] # NoCall
    BY SetLinesKeeps, IssueKeeps, StatusKeeps
       DEF SumsInv, SetLinesCommits, IssueCommits, PayCommits, CancelCommits, Doing
  <1>2. /\ i \in Invoices /\ call[u].lines \in Seq(Nat)
        /\ old.status # "none" /\ old = [k \in InvoiceColumns |-> old[k]]
        /\ AddsUp(i)
    BY <1>1 DEF SumsInv, SeriesInv, InvoiceShapes
  <1>3. PICK row :
            /\ invoice' = [invoice EXCEPT ![i] = row]
            /\ row.rate = old.rate /\ row.duty = old.duty /\ row.corrects = old.corrects
            /\ row.status # "none"
            /\ \/ row.lines = old.lines /\ row.totals = old.totals
               \/ /\ row.lines = call[u].lines
                  /\ row.totals = ComputeInvoiceTotals(row.lines, row.rate, row.duty)
    <2>1. CASE SetLinesCommits(u)
      <3> DEFINE totals == ComputeInvoiceTotals(call[u].lines, invoice[i].rate, invoice[i].duty)
      <3>1. invoice' = [invoice EXCEPT ![i] = [@ EXCEPT !.lines = call[u].lines, !.totals = totals]]
        BY <2>1, Zenon DEF SetLinesCommits
      <3> HIDE DEF totals
      <3>2. PICK row : row = [old EXCEPT !.lines = call[u].lines, !.totals = totals]
        OBVIOUS
      <3>3. /\ row.rate = old.rate /\ row.duty = old.duty /\ row.corrects = old.corrects
            /\ row.status = old.status /\ row.lines = call[u].lines /\ row.totals = totals
        <4> HIDE DEF old
        <4> QED
          BY <1>2, <3>2 DEF InvoiceColumns
      <3>4. invoice' = [invoice EXCEPT ![i] = row]
        BY <3>1, <3>2, Zenon
      <3> QED
        BY <1>2, <3>3, <3>4 DEF totals
    <2>2. CASE IssueCommits(u)
      <3>1. invoice' = [invoice EXCEPT ![i] = [@ EXCEPT !.status = "ISSUED",
                                !.number = call[u].number, !.year = call[u].year]]
        BY <2>2, Zenon DEF IssueCommits
      <3>2. PICK row : row = [old EXCEPT !.status = "ISSUED",
                                !.number = call[u].number, !.year = call[u].year]
        OBVIOUS
      <3>3. /\ row.rate = old.rate /\ row.duty = old.duty /\ row.corrects = old.corrects
            /\ row.status = "ISSUED" /\ row.lines = old.lines /\ row.totals = old.totals
        <4> HIDE DEF old
        <4> QED
          BY <1>2, <3>2 DEF InvoiceColumns
      <3>4. invoice' = [invoice EXCEPT ![i] = row]
        BY <3>1, <3>2, Zenon
      <3> QED
        BY <3>3, <3>4
    <2>3. CASE PayCommits(u) \/ CancelCommits(u)
      <3>1. PICK status \in {"PAID", "CANCELLED"} :
                invoice' = [invoice EXCEPT ![i] = [@ EXCEPT !.status = status]]
        BY <2>3 DEF PayCommits, CancelCommits
      <3>2. PICK row : row = [old EXCEPT !.status = status]
        OBVIOUS
      <3>3. /\ row.rate = old.rate /\ row.duty = old.duty /\ row.corrects = old.corrects
            /\ row.status = status /\ row.lines = old.lines /\ row.totals = old.totals
        <4> HIDE DEF old
        <4> QED
          BY <1>2, <3>2 DEF InvoiceColumns
      <3>4. invoice' = [invoice EXCEPT ![i] = row]
        BY <3>1, <3>2, Zenon
      <3> QED
        BY <3>3, <3>4
    <2> QED
      BY <2>1, <2>2, <2>3
  <1>4. /\ row.lines \in Seq(Nat) /\ row.rate \in Nat /\ row.duty \in Nat
        /\ row.totals = ComputeInvoiceTotals(row.lines, row.rate, row.duty)
        /\ row.corrects # NoDocument =>
            /\ row.corrects \in Invoices /\ invoice[row.corrects].status # "none"
            /\ row.rate = invoice[row.corrects].rate /\ row.duty = invoice[row.corrects].duty
    BY <1>2, <1>3 DEF AddsUp
  <1>5. \A j \in Invoices : AddsUp(j)'
    <2> HIDE DEF i, old
    <2>1. row.rate = invoice[i].rate /\ row.duty = invoice[i].duty
      BY <1>3 DEF old
    <2> QED
      BY <1>2, <1>3, <1>4, <2>1, RowAddsUp
  <1>6. (\A v \in Accountants : call[v] # NoCall => call[v].lines \in Seq(Nat))'
    BY <1>1 DEF SumsInv, SeriesInv, InvoiceShapes
  <1> QED
    BY <1>1, <1>5, <1>6 DEF SumsInv

LEMMA SettingsAddUp ==
  ASSUME SumsInv, \/ \E r \in VatRates, d \in Duties : UpdateSettings(r, d)
                  \/ NewYear
                  \/ UNCHANGED invoiceVars
  PROVE  SumsInv'
  <1>1. SeriesInv' /\ UNCHANGED <<invoice, call>>
    BY SettingsKeep DEF SumsInv, UpdateSettings, NewYear, invoiceVars
  <1>2. (settings.rate \in Nat /\ settings.duty \in Nat)'
    BY RatesAreNumbers DEF SumsInv, UpdateSettings, NewYear, invoiceVars
  <1>3. (\A v \in Accountants : call[v] # NoCall => call[v].lines \in Seq(Nat))'
    BY <1>1 DEF SumsInv
  <1> QED
    BY <1>1, <1>2, <1>3, RowsAddUp DEF SumsInv

LEMMA SumsStart == InvoiceInit => SumsInv
  <1> SUFFICES ASSUME InvoiceInit PROVE SumsInv
    OBVIOUS
  <1>1. ASSUME NEW i \in Invoices PROVE AddsUp(i)
    <2>1. invoice[i] = NoInvoice
      BY DEF InvoiceInit
    <2> DEFINE nothing == ComputeInvoiceTotals(<<>>, 0, 0)
    <2>2. /\ invoice[i].lines = <<>> /\ invoice[i].rate = 0 /\ invoice[i].duty = 0
          /\ invoice[i].totals = nothing /\ invoice[i].corrects = NoDocument
      <3> HIDE DEF nothing
      <3>1. NoInvoice =
                [kind |-> "none", status |-> "none", number |-> 0, year |-> 0, lines |-> <<>>,
                 rate |-> 0, duty |-> 0, totals |-> nothing, corrects |-> NoDocument]
        BY DEF NoInvoice, nothing
      <3> QED
        BY <2>1, <3>1
    <2>3. <<>> \in Seq(Nat)
      OBVIOUS
    <2> QED
      BY <2>2, <2>3 DEF AddsUp
  <1>2. settings.rate \in Nat /\ settings.duty \in Nat
    BY RatesAreNumbers DEF InvoiceInit
  <1> QED
    BY <1>1, <1>2, InvoiceStarts DEF SumsInv, InvoiceInit

LEMMA SumsStep == SumsInv /\ [InvoiceNext]_invoiceVars => SumsInv'
  <1> SUFFICES ASSUME SumsInv, [InvoiceNext]_invoiceVars PROVE SumsInv'
    OBVIOUS
  <1>1. CASE \/ \E i \in Invoices, lines \in LineLists : CreateDraft(i, lines)
             \/ \E i, o \in Invoices, lines \in LineLists : CreateCreditNote(i, o, lines)
    BY <1>1, CreateAddsUp
  <1>2. CASE \/ \E u \in Accountants, i \in Invoices, lines \in LineLists :
                    SetLinesReads(u, i, lines)
             \/ \E u \in Accountants, i \in Invoices :
                    IssueReads(u, i) \/ PayReads(u, i) \/ CancelReads(u, i)
    BY <1>2, BeginAddsUp, ListsAreLines
  <1>3. CASE \E u \in Accountants : ReplaceLines(u) \/ NextSequence(u) \/ RollBack(u)
    BY <1>3, WorkAddsUp
  <1>4. CASE \E u \in Accountants :
                SetLinesCommits(u) \/ IssueCommits(u) \/ PayCommits(u) \/ CancelCommits(u)
    BY <1>4, CommitAddsUp
  <1>5. CASE \/ \E r \in VatRates, d \in Duties : UpdateSettings(r, d)
             \/ NewYear
             \/ UNCHANGED invoiceVars
    BY <1>5, SettingsAddUp
  <1> QED
    BY <1>1, <1>2, <1>3, <1>4, <1>5 DEF InvoiceNext

\* The totals of every document are those of its lines at its own rate, rounded
\* once, and a credit note taxes as the document it corrects, though lines, totals
\* and settings are written by different calls of invoice.service.
THEOREM TotalsAddUp == InvoiceSpec => []DocumentsAddUp
  BY SumsStart, SumsStep, SumsAddUp, PTL DEF InvoiceSpec
=============================================================================
