---------------------------- MODULE WalletProofs ----------------------------
(* Proofs about Wallet, for every set of orders, callers, amounts and      *)
(* correlation ids, on either database.                                    *)
EXTENDS Wallet, FiniteSetTheorems, TLAPS

-----------------------------------------------------------------------------
(* Sums.  A sum over a finite set is a recursive function, and what it     *)
(* computes is shown by induction: a family of subsets of a finite set     *)
(* has a smallest member, so a family of counterexamples has none.         *)

LEMMA Smallest ==
    ASSUME NEW S, IsFiniteSet(S), NEW Bad \in SUBSET SUBSET S, Bad # {}
    PROVE  \E T \in Bad : \A U \in Bad : ~(U \subseteq T /\ U # T)
<1>1. IsWellFoundedOn(StrictSubsetOrdering(S), SUBSET S)
  BY FS_StrictSubsetOrderingWellFounded, FS_FiniteSubsetsOfFinite
<1>2. PICK T \in Bad : \A U \in Bad : ~(<<U, T>> \in StrictSubsetOrdering(S))
  <2>1. Bad \subseteq SUBSET S
    OBVIOUS
  <2> QED
    BY <1>1, <2>1, WFMin
<1> QED
  BY <1>2 DEF StrictSubsetOrdering

Total(e, T) == MapThenSumSet(LAMBDA i : e[i].amount, T)

Some(s) == CHOOSE x \in s : TRUE
Less(s) == s \ {Some(s)}
Sums(e, S, g) ==
    g = [s \in SUBSET S |-> IF s = {} THEN 0 ELSE e[Some(s)].amount + g[Less(s)]]
Summing(e, S) == CHOOSE g : Sums(e, S, g)

LEMMA TotalIsSumming == ASSUME NEW e, NEW S PROVE Total(e, S) = Summing(e, S)[S]
BY DEF Total, MapThenSumSet, MapThenFoldSet, Some, Less, Sums, Summing

LEMMA LessIsSmaller ==
  ASSUME NEW S, NEW s \in SUBSET S, s # {}
  PROVE  Less(s) \in SUBSET S /\ Less(s) \subseteq s /\ Less(s) # s /\ Some(s) \in s
<1>1. Some(s) \in s
  BY DEF Some
<1> QED
  BY <1>1 DEF Less

LEMMA SumsAt ==
  ASSUME NEW e, NEW S, NEW g, Sums(e, S, g), NEW s \in SUBSET S
  PROVE  g[s] = IF s = {} THEN 0 ELSE e[Some(s)].amount + g[Less(s)]
<1> DEFINE f == [t \in SUBSET S |-> IF t = {} THEN 0 ELSE e[Some(t)].amount + g[Less(t)]]
<1>1. g = f
  BY DEF Sums
<1>2. f[s] = IF s = {} THEN 0 ELSE e[Some(s)].amount + g[Less(s)]
  OBVIOUS
<1> HIDE DEF f
<1> QED
  BY <1>1, <1>2

LEMMA SumsAgree ==
  ASSUME NEW e, NEW S, IsFiniteSet(S), NEW T \in SUBSET S,
         NEW g, Sums(e, S, g), NEW h, Sums(e, T, h)
  PROVE  g[T] = h[T]
<1> DEFINE Bad == {U \in SUBSET T : g[U] # h[U]}
<1>1. Bad = {}
  <2> SUFFICES ASSUME Bad # {} PROVE FALSE
    OBVIOUS
  <2>1. PICK U \in Bad : \A V \in Bad : ~(V \subseteq U /\ V # U)
    <3>1. Bad \in SUBSET SUBSET S
      OBVIOUS
    <3> HIDE DEF Bad
    <3> QED
      BY <3>1, Smallest
  <2>2. U \in SUBSET T /\ U \in SUBSET S
    OBVIOUS
  <2>3. CASE U = {}
    BY <2>2, <2>3, SumsAt
  <2>4. CASE U # {}
    <3>1. Less(U) \in SUBSET T /\ Less(U) \subseteq U /\ Less(U) # U
      BY <2>2, <2>4, LessIsSmaller
    <3>2. g[Less(U)] = h[Less(U)]
      BY <2>1, <3>1
    <3>3. g[U] = e[Some(U)].amount + g[Less(U)]
      BY <2>2, <2>4, SumsAt
    <3>4. h[U] = e[Some(U)].amount + h[Less(U)]
      BY <2>2, <2>4, SumsAt
    <3> QED
      BY <3>2, <3>3, <3>4
  <2> QED
    BY <2>3, <2>4
<1> QED
  BY <1>1

LEMMA SummingExists ==
  ASSUME NEW e, NEW S, IsFiniteSet(S)
  PROVE  Sums(e, S, Summing(e, S))
<1> DEFINE Bad == {T \in SUBSET S : ~Sums(e, T, Summing(e, T))}
<1>1. Bad = {}
  <2> SUFFICES ASSUME Bad # {} PROVE FALSE
    OBVIOUS
  <2>1. PICK T \in Bad : \A U \in Bad : ~(U \subseteq T /\ U # T)
    <3>1. Bad \in SUBSET SUBSET S
      OBVIOUS
    <3> HIDE DEF Bad
    <3> QED
      BY <3>1, Smallest
  <2>2. T \in SUBSET S /\ ~Sums(e, T, Summing(e, T))
    OBVIOUS
  <2>3. \A U \in SUBSET T : U # T => Sums(e, U, Summing(e, U))
    BY <2>1, <2>2
  <2> DEFINE g == [s \in SUBSET T |-> IF s = {} THEN 0
                                   ELSE e[Some(s)].amount + Summing(e, Less(s))[Less(s)]]
  <2>4. \A s \in SUBSET T : g[s] = IF s = {} THEN 0
                                   ELSE e[Some(s)].amount + Summing(e, Less(s))[Less(s)]
    OBVIOUS
  <2> DEFINE f == [s \in SUBSET T |-> IF s = {} THEN 0 ELSE e[Some(s)].amount + g[Less(s)]]
  <2>5. \A s \in SUBSET T : f[s] = IF s = {} THEN 0 ELSE e[Some(s)].amount + g[Less(s)]
    OBVIOUS
  <2>6. \A s \in SUBSET T : s # T => g[s] = Summing(e, s)[s]
    <3> SUFFICES ASSUME NEW s \in SUBSET T, s # T PROVE g[s] = Summing(e, s)[s]
      OBVIOUS
    <3> HIDE DEF g, f, Bad
    <3>1. Sums(e, s, Summing(e, s)) /\ IsFiniteSet(s)
      BY <2>2, <2>3, FS_Subset
    <3>2. Summing(e, s)[s] = IF s = {} THEN 0
                             ELSE e[Some(s)].amount + Summing(e, s)[Less(s)]
      BY <3>1, SumsAt
    <3>3. CASE s = {}
      BY <2>4, <3>2, <3>3
    <3>4. CASE s # {}
      <4>1. Less(s) \in SUBSET s /\ Less(s) \in SUBSET T /\ Less(s) # T
        BY <3>4, LessIsSmaller
      <4>2. Sums(e, Less(s), Summing(e, Less(s)))
        BY <2>3, <4>1
      <4>3. Summing(e, s)[Less(s)] = Summing(e, Less(s))[Less(s)]
        BY <3>1, <4>1, <4>2, SumsAgree
      <4> QED
        BY <2>4, <3>2, <3>4, <4>3
    <3> QED
      BY <3>3, <3>4
  <2>7. g = f
    <3>1. \A s \in SUBSET T : g[s] = f[s]
      <4> HIDE DEF g, f, Bad
      <4> TAKE s \in SUBSET T
      <4>1. CASE s = {}
        BY <2>4, <2>5, <4>1
      <4>2. CASE s # {}
        <5>1. Less(s) \in SUBSET T /\ Less(s) # T
          BY <4>2, LessIsSmaller
        <5> QED
          BY <2>4, <2>5, <2>6, <4>2, <5>1
      <4> QED
        BY <4>1, <4>2
    <3>2. DOMAIN g = SUBSET T /\ DOMAIN f = SUBSET T /\ g = [s \in DOMAIN g |-> g[s]] /\ f = [s \in DOMAIN f |-> f[s]]
      OBVIOUS
    <3> HIDE DEF g, f
    <3> QED
      BY <3>1, <3>2
  <2>8. Sums(e, T, g)
    BY <2>7 DEF Sums
  <2>9. Sums(e, T, Summing(e, T))
    <3> HIDE DEF g, f, Bad
    <3> QED
      BY <2>8 DEF Summing
  <2> QED
    BY <2>2, <2>9
<1> QED
  BY <1>1

LEMMA TotalSplits ==
  ASSUME NEW e, NEW S, IsFiniteSet(S)
  PROVE  /\ Total(e, {}) = 0
         /\ S # {} => Total(e, S) = e[Some(S)].amount + Total(e, Less(S))
<1>1. Total(e, {}) = 0
  <2>1. Sums(e, {}, Summing(e, {}))
    BY SummingExists, FS_EmptySet
  <2> QED
    BY <2>1, SumsAt, TotalIsSumming
<1>2. ASSUME S # {} PROVE Total(e, S) = e[Some(S)].amount + Total(e, Less(S))
  <2>1. Less(S) \in SUBSET S /\ IsFiniteSet(Less(S))
    BY <1>2, LessIsSmaller, FS_Subset
  <2>2. Sums(e, S, Summing(e, S)) /\ Sums(e, Less(S), Summing(e, Less(S)))
    BY <2>1, SummingExists
  <2>3. Summing(e, S)[Less(S)] = Summing(e, Less(S))[Less(S)]
    BY <2>1, <2>2, SumsAgree
  <2>4. Summing(e, S)[S] = e[Some(S)].amount + Summing(e, S)[Less(S)]
    BY <1>2, <2>2, SumsAt
  <2> QED
    BY <2>3, <2>4, TotalIsSumming
<1> QED
  BY <1>1, <1>2

(* Any element can be counted first.                                       *)
LEMMA TotalRemove ==
    ASSUME NEW e, NEW S, IsFiniteSet(S), \A i \in S : e[i].amount \in Int
    PROVE  /\ Total(e, S) \in Int
           /\ \A x \in S : Total(e, S) = e[x].amount + Total(e, S \ {x})
<1> DEFINE Good(T) == /\ Total(e, T) \in Int
                      /\ \A x \in T : Total(e, T) = e[x].amount + Total(e, T \ {x})
           Bad == {T \in SUBSET S : ~Good(T)}
<1>1. Bad = {}
  <2> SUFFICES ASSUME Bad # {} PROVE FALSE
    OBVIOUS
  <2>1. PICK T \in Bad : \A U \in Bad : ~(U \subseteq T /\ U # T)
    <3>1. Bad \in SUBSET SUBSET S
      OBVIOUS
    <3> HIDE DEF Bad
    <3> QED
      BY <3>1, Smallest
  <2>2. T \in SUBSET S /\ ~Good(T)
    OBVIOUS
  <2>3. \A U \in SUBSET T : U # T => Good(U)
    BY <2>1, <2>2
  <2> HIDE DEF Bad
  <2>4. IsFiniteSet(T)
    BY <2>2, FS_Subset
  <2>5. CASE T = {}
    <3>1. Total(e, T) = 0
      BY <2>5, FS_EmptySet, TotalSplits
    <3> QED
      BY <2>2, <2>5, <3>1
  <2>6. CASE T # {}
    <3> DEFINE y == Some(T)
               L == T \ {y}
    <3>1. y \in T /\ Total(e, T) = e[y].amount + Total(e, L)
      BY <2>2, <2>4, <2>6, TotalSplits, LessIsSmaller DEF Less
    <3> HIDE DEF y
    <3>2. L \in SUBSET T /\ L # T
      BY <3>1
    <3>3. Good(L) /\ e[y].amount \in Int
      BY <2>2, <2>3, <3>1, <3>2
    <3>4. Total(e, T) \in Int
      BY <3>1, <3>3
    <3>5. ASSUME NEW x \in T, x # y PROVE Total(e, T) = e[x].amount + Total(e, T \ {x})
      <4> DEFINE R == T \ {x}
      <4>1. R \in SUBSET T /\ R # T /\ y \in R /\ x \in L /\ R \ {y} = L \ {x}
        BY <3>1, <3>5
      <4>2. Total(e, L) = e[x].amount + Total(e, L \ {x})
        BY <3>3, <4>1
      <4>3. Total(e, R) = e[y].amount + Total(e, R \ {y})
        BY <2>3, <4>1
      <4>4. Total(e, L \ {x}) \in Int
        <5>1. L \ {x} \in SUBSET T /\ L \ {x} # T
          BY <4>1
        <5> QED
          BY <2>3, <5>1
      <4>5. e[x].amount \in Int
        BY <2>2, <3>5
      <4>6. Total(e, R) = e[y].amount + Total(e, L \ {x})
        BY <4>1, <4>3
      <4> HIDE DEF R, L, Good
      <4>7. Total(e, T) = e[x].amount + Total(e, R)
        BY <3>1, <3>3, <4>2, <4>4, <4>5, <4>6
      <4> QED
        BY <4>7 DEF R
    <3> QED
      BY <2>2, <3>1, <3>4, <3>5
  <2> QED
    BY <2>5, <2>6
<1> QED
  BY <1>1

LEMMA TotalAdd ==
    ASSUME NEW e, NEW S, IsFiniteSet(S), NEW x, x \notin S,
           \A i \in S \cup {x} : e[i].amount \in Int
    PROVE  Total(e, S \cup {x}) = e[x].amount + Total(e, S)
<1>1. IsFiniteSet(S \cup {x}) /\ x \in S \cup {x} /\ (S \cup {x}) \ {x} = S
  BY FS_AddElement
<1> QED
  BY <1>1, TotalRemove

(* Totals of equal amounts are equal.                                      *)
LEMMA TotalSame ==
    ASSUME NEW e, NEW d, NEW S, IsFiniteSet(S), \A i \in S : e[i].amount = d[i].amount
    PROVE  Total(e, S) = Total(d, S)
<1> DEFINE Bad == {T \in SUBSET S : Total(e, T) # Total(d, T)}
<1>1. Bad = {}
  <2> SUFFICES ASSUME Bad # {} PROVE FALSE
    OBVIOUS
  <2>1. PICK T \in Bad : \A U \in Bad : ~(U \subseteq T /\ U # T)
    <3>1. Bad \in SUBSET SUBSET S
      OBVIOUS
    <3> HIDE DEF Bad
    <3> QED
      BY <3>1, Smallest
  <2>2. T \in SUBSET S /\ IsFiniteSet(T) /\ Total(e, T) # Total(d, T)
    BY FS_Subset
  <2>3. CASE T = {}
    BY <2>2, <2>3, TotalSplits
  <2>4. CASE T # {}
    <3>1. Less(T) \in SUBSET T /\ Less(T) # T /\ Some(T) \in T
      BY <2>4, LessIsSmaller
    <3>2. Total(e, Less(T)) = Total(d, Less(T))
      BY <2>1, <2>2, <3>1
    <3>3. e[Some(T)].amount = d[Some(T)].amount
      BY <2>2, <3>1
    <3>4. Total(e, T) = e[Some(T)].amount + Total(e, Less(T))
      BY <2>2, <2>4, TotalSplits
    <3>5. Total(d, T) = d[Some(T)].amount + Total(d, Less(T))
      BY <2>2, <2>4, TotalSplits
    <3> QED
      BY <2>2, <3>2, <3>3, <3>4, <3>5
  <2> QED
    BY <2>3, <2>4
<1> QED
  BY <1>1

(* A part of a set totals no more than the set, when no amount is negative. *)
LEMMA TotalMonotone ==
    ASSUME NEW e, NEW S, IsFiniteSet(S), \A i \in S : e[i].amount \in Nat, NEW T \in SUBSET S
    PROVE  Total(e, T) \in Nat /\ Total(e, S) \in Nat /\ Total(e, T) <= Total(e, S)
<1> DEFINE Good(V) == \A U \in SUBSET V : Total(e, U) \in Nat /\ Total(e, U) <= Total(e, V)
           Bad == {V \in SUBSET S : ~Good(V)}
<1>1. Bad = {}
  <2> SUFFICES ASSUME Bad # {} PROVE FALSE
    OBVIOUS
  <2>1. PICK V \in Bad : \A U \in Bad : ~(U \subseteq V /\ U # V)
    <3>1. Bad \in SUBSET SUBSET S
      OBVIOUS
    <3> HIDE DEF Bad
    <3> QED
      BY <3>1, Smallest
  <2>2. V \in SUBSET S /\ ~Good(V)
    OBVIOUS
  <2>3. \A U \in SUBSET V : U # V => Good(U)
    BY <2>1, <2>2
  <2>4. IsFiniteSet(V) /\ \A i \in V : e[i].amount \in Nat /\ e[i].amount \in Int
    BY <2>2, FS_Subset
  <2> HIDE DEF Bad
  <2>5. Total(e, V) \in Nat
    <3>1. CASE V = {}
      BY <2>4, <3>1, TotalSplits
    <3>2. CASE V # {}
      <4>1. PICK x \in V : TRUE
        BY <3>2
      <4>2. Total(e, V) = e[x].amount + Total(e, V \ {x})
        BY <2>4, TotalRemove
      <4>3. V \ {x} \in SUBSET V /\ V \ {x} # V
        BY <4>1
      <4>4. Total(e, V \ {x}) \in Nat
        BY <2>3, <4>3
      <4> QED
        BY <2>4, <4>2, <4>4
    <3> QED
      BY <3>1, <3>2
  <2>6. ASSUME NEW U \in SUBSET V, U # V PROVE Total(e, U) \in Nat /\ Total(e, U) <= Total(e, V)
    <3>1. PICK x \in V : x \notin U
      BY <2>6
    <3> DEFINE W == V \ {x}
    <3>2. W \in SUBSET V /\ W # V /\ U \in SUBSET W
      BY <3>1
    <3>3. Total(e, V) = e[x].amount + Total(e, W)
      BY <2>4, TotalRemove
    <3>4. Good(W)
      BY <2>3, <3>2
    <3>5. Total(e, U) \in Nat /\ Total(e, U) <= Total(e, W) /\ Total(e, W) \in Nat
      BY <3>2, <3>4
    <3>6. e[x].amount \in Nat
      BY <2>4
    <3> QED
      BY <3>3, <3>5, <3>6
  <2>7. Good(V)
    BY <2>5, <2>6
  <2> QED
    BY <2>2, <2>7
<1>2. Good(S)
  BY <1>1
<1> QED
  BY <1>2
-----------------------------------------------------------------------------
(* The invariant of moves and settlements                                  *)

Line == [kind : Kinds, amount : Int, after : Nat, available : Nat,
         ref : Orders \cup Correlations \cup {NoRef}]

Call == [at : {"idle", "debit", "pay", "refund"}, amount : Nat,
         corr : Correlations \cup {NoRef}, asOf : Nat, held : Nat]

(* An order is claimed only while it is not credited.                      *)
ClaimsAreOpen == \A o \in Orders : claimant[o] # NoOne => o \notin credited

IInv == TypeOK /\ ClaimsAreOpen /\ StatementAddsUp /\ SettledOnce

LEMMA LineFields ==
    ASSUME NEW e \in Seq(Line), NEW i \in DOMAIN e
    PROVE  /\ e[i].amount \in Int /\ e[i].available \in Nat /\ e[i].kind \in Kinds
           /\ DOMAIN e = 1..Len(e) /\ Len(e) \in Nat
<1>1. e[i] \in Line
  OBVIOUS
<1>2. \A l \in Line : l.amount \in Int /\ l.available \in Nat /\ l.kind \in Kinds
  BY DEF Line
<1> QED
  BY <1>1, <1>2

(* Held credits are never negative, which the balance rests on.            *)
LEMMA HeldIsNat ==
    ASSUME TypeOK, NEW t
    PROVE  HeldAt(t) \in Nat
<1> DEFINE held == {i \in DOMAIN entries : entries[i].amount > 0 /\ entries[i].available > t}
<1>1. entries \in Seq(Line)
  BY DEF TypeOK, Line
<1>2. IsFiniteSet(held)
  <2>1. IsFiniteSet(1..Len(entries)) /\ held \in SUBSET (1..Len(entries))
    BY <1>1, FS_Interval
  <2> QED
    BY <2>1, FS_Subset
<1>3. ASSUME NEW i \in held PROVE entries[i].amount \in Nat
  <2>1. entries[i].amount \in Int
    BY <1>1, LineFields
  <2> QED
    BY <2>1
<1> HIDE DEF held
<1>4. Total(entries, held) \in Nat
  BY <1>2, <1>3, TotalMonotone
<1> QED
  BY <1>4 DEF HeldAt, SumOf, Total, held

(* A move keeps the statement adding up.                                   *)
LEMMA ApplyAddsUp ==
    ASSUME TypeOK, StatementAddsUp, NEW delta \in Int, balance + delta \in Nat,
           NEW kind \in Kinds, NEW available \in Nat,
           NEW ref \in Orders \cup Correlations \cup {NoRef},
           Apply(delta, kind, available, ref)
    PROVE  /\ balance' = balance + delta /\ entries' \in Seq(Line) /\ StatementAddsUp'
           /\ DOMAIN entries' = 1..(Len(entries) + 1)
           /\ \A i \in DOMAIN entries : entries'[i] = entries[i]
           /\ entries'[Len(entries) + 1].kind = kind
           /\ entries'[Len(entries) + 1].ref = ref
           /\ entries'[Len(entries) + 1].amount = delta
           /\ entries'[Len(entries) + 1].available = available
<1> DEFINE line == [kind |-> kind, amount |-> delta, after |-> balance + delta,
                    available |-> available, ref |-> ref]
<1>1. /\ balance \in Int /\ entries \in Seq(Line) /\ line \in Line
      /\ balance' = balance + delta /\ entries' = Append(entries, line)
  BY DEF Apply, TypeOK, Line
<1>2. /\ line.after = balance + delta /\ line.amount = delta
      /\ line.kind = kind /\ line.ref = ref /\ line.available = available
  OBVIOUS
<1> HIDE DEF line
<1>3. /\ entries' \in Seq(Line) /\ Len(entries') = Len(entries) + 1 /\ Len(entries) \in Nat
      /\ DOMAIN entries = 1..Len(entries) /\ DOMAIN entries' = 1..(Len(entries) + 1)
      /\ \A i \in 1..Len(entries) : entries'[i] = entries[i]
      /\ entries'[Len(entries) + 1] = line
  BY <1>1
<1>4. \A i \in 1..(Len(entries) + 1) : Previous(i)' = Previous(i)
  BY <1>3 DEF Previous
<1>5. Previous(Len(entries) + 1) = balance
  BY DEF StatementAddsUp
<1>6. \A i \in DOMAIN entries' : entries'[i].after = Previous(i)' + entries'[i].amount
  <2> SUFFICES ASSUME NEW i \in 1..(Len(entries) + 1)
               PROVE  entries'[i].after = Previous(i)' + entries'[i].amount
    BY <1>3
  <2>1. CASE i \in 1..Len(entries)
    BY <1>3, <1>4, <2>1 DEF StatementAddsUp
  <2>2. CASE i = Len(entries) + 1
    BY <1>2, <1>3, <1>4, <1>5, <2>2
  <2> QED
    BY <1>3, <2>1, <2>2
<1>7. balance' = Previous(Len(entries) + 1)'
  <2>1. Len(entries') + 1 # 1 /\ Len(entries') + 1 - 1 = Len(entries')
    BY <1>3
  <2>2. Previous(Len(entries) + 1)' = entries'[Len(entries')].after
    BY <2>1 DEF Previous
  <2> QED
    BY <1>1, <1>2, <1>3, <2>2
<1>8. StatementAddsUp'
  BY <1>6, <1>7 DEF StatementAddsUp
<1> QED
  BY <1>1, <1>2, <1>3, <1>8

(* A line of another kind sells nothing.                                   *)
LEMMA OtherKinds ==
    ASSUME IInv, NEW delta \in Int, balance + delta \in Nat,
           NEW kind \in Kinds \ {"SALE"}, NEW available \in Nat,
           NEW ref \in Orders \cup Correlations \cup {NoRef},
           Apply(delta, kind, available, ref), UNCHANGED orderVars
    PROVE  /\ balance' \in Nat /\ entries' \in Seq(Line)
           /\ StatementAddsUp' /\ SettledOnce' /\ ClaimsAreOpen'
<1>1. /\ balance' \in Nat /\ entries' \in Seq(Line) /\ StatementAddsUp'
      /\ DOMAIN entries' = 1..(Len(entries) + 1)
      /\ \A i \in DOMAIN entries : entries'[i] = entries[i]
      /\ entries'[Len(entries) + 1].kind = kind
  BY ApplyAddsUp DEF IInv
<1>2. DOMAIN entries = 1..Len(entries) /\ Len(entries) \in Nat
  BY DEF IInv, TypeOK
<1>3. ASSUME NEW o \in Orders
      PROVE  {i \in DOMAIN entries' : entries'[i].kind = "SALE" /\ entries'[i].ref = o}
               = {i \in DOMAIN entries : entries[i].kind = "SALE" /\ entries[i].ref = o}
  <2>1. \A i \in DOMAIN entries' : i \in DOMAIN entries \/ entries'[i].kind # "SALE"
    BY <1>1, <1>2
  <2>2. DOMAIN entries \subseteq DOMAIN entries'
    BY <1>1, <1>2
  <2> QED
    BY <1>1, <2>1, <2>2
<1>4. SettledOnce'
  BY <1>3 DEF IInv, SettledOnce, orderVars
<1> QED
  BY <1>1, <1>4 DEF IInv, ClaimsAreOpen, orderVars

(* A call that ends or goes on keeps its type.                             *)
LEMMA CallKept ==
    ASSUME call \in [Withdrawers -> Call], NEW w \in Withdrawers,
           \/ call' = [call EXCEPT ![w] = Idle]
           \/ \E a \in {"pay", "refund"} : call' = [call EXCEPT ![w].at = a]
    PROVE  call' \in [Withdrawers -> Call]
<1>1. Idle \in Call
  BY DEF Idle, Call
<1>2. \A a \in {"pay", "refund"} : [call[w] EXCEPT !.at = a] \in Call
  BY DEF Call
<1> QED
  BY <1>1, <1>2

LEMMA InitIInv == Init => IInv
<1> SUFFICES ASSUME Init PROVE IInv
  OBVIOUS
<1> USE WalletAssumption DEF Init
<1>1. TypeOK
  <2>1. Idle \in Call
    BY DEF Idle, Call
  <2> QED
    BY <2>1 DEF TypeOK, Call
<1>2. ClaimsAreOpen /\ StatementAddsUp /\ SettledOnce
  BY DEF ClaimsAreOpen, StatementAddsUp, Previous, SettledOnce
<1> QED
  BY <1>1, <1>2 DEF IInv

LEMMA NextIInv == IInv /\ [Next]_vars => IInv'
<1> SUFFICES ASSUME IInv, [Next]_vars PROVE IInv'
  OBVIOUS
<1> USE WalletAssumption DEF IInv
<1>0. /\ now \in Nat /\ balance \in Nat /\ entries \in Seq(Line)
      /\ call \in [Withdrawers -> Call]
  BY DEF TypeOK, Line, Call
<1>t. ASSUME engine' = engine, now' \in 0..MaxTime, balance' \in Nat, entries' \in Seq(Line),
             credited' \subseteq Orders, claimant' \in [Orders -> Settlers \cup {NoOne}],
             call' \in [Withdrawers -> Call], paid' \in [Correlations -> Nat]
      PROVE  TypeOK'
  BY <1>t DEF TypeOK, Line, Call
<1>1. ASSUME NEW s \in Settlers, NEW o \in Orders, Claim(s, o) \/ RollBack(s, o)
      PROVE  IInv'
  <2>1. /\ UNCHANGED <<engine, now, walletVars, credited, call, paid>>
        /\ \E x \in Settlers \cup {NoOne} : claimant' = [claimant EXCEPT ![o] = x]
        /\ claimant'[o] # NoOne => o \notin credited
    BY <1>1 DEF Claim, RollBack, TypeOK
  <2>2. TypeOK' /\ ClaimsAreOpen'
    BY <2>1 DEF TypeOK, ClaimsAreOpen, walletVars
  <2> QED
    BY <2>1, <2>2 DEF walletVars, StatementAddsUp, Previous, SettledOnce
<1>2. ASSUME NEW s \in Settlers, NEW o \in Orders, Settle(s, o) PROVE IInv'
  <2>1. /\ claimant[o] = s /\ s # NoOne /\ UNCHANGED <<engine, now, call, paid>>
        /\ credited' = credited \cup {o} /\ claimant' = [claimant EXCEPT ![o] = NoOne]
        /\ Price[o] \in Nat /\ now + Hold[o] \in Nat
        /\ Apply(Price[o], "SALE", now + Hold[o], o)
    BY <1>0, <1>2 DEF Settle
  <2>2. /\ balance' \in Nat /\ entries' \in Seq(Line) /\ StatementAddsUp'
        /\ DOMAIN entries' = 1..(Len(entries) + 1)
        /\ \A i \in DOMAIN entries : entries'[i] = entries[i]
        /\ entries'[Len(entries) + 1].kind = "SALE"
        /\ entries'[Len(entries) + 1].ref = o
    <3>1. balance + Price[o] \in Nat /\ Price[o] \in Int
      BY <1>0, <2>1
    <3> QED
      BY <2>1, <3>1, ApplyAddsUp DEF Kinds
  <2>3. DOMAIN entries = 1..Len(entries) /\ Len(entries) \in Nat
    BY <1>0
  <2>4. TypeOK' /\ ClaimsAreOpen'
    <3>1. ClaimsAreOpen'
      BY <2>1 DEF ClaimsAreOpen, TypeOK
    <3> QED
      BY <1>t, <2>1, <2>2, <3>1 DEF TypeOK, Call
  <2>5. SettledOnce'
    <3> DEFINE Sales(q) == {i \in DOMAIN entries : entries[i].kind = "SALE"
                                                   /\ entries[i].ref = q}
    <3>1. ASSUME NEW q \in Orders, q # o PROVE Sales(q)' = Sales(q)
      <4>1. \A i \in DOMAIN entries' :
               i \in Sales(q)' <=> i \in DOMAIN entries /\ i \in Sales(q)
        BY <2>2, <2>3, <3>1
      <4>2. DOMAIN entries \subseteq DOMAIN entries'
        BY <2>2, <2>3
      <4> QED
        BY <4>1, <4>2
    <3>2. Sales(o) = {}
      BY <2>1 DEF ClaimsAreOpen, SettledOnce
    <3>3. Sales(o)' = {Len(entries) + 1}
      <4>1. \A i \in DOMAIN entries : i \notin Sales(o)'
        BY <2>2, <3>2
      <4>2. Len(entries) + 1 \in Sales(o)'
        BY <2>2, <2>3
      <4>3. \A i \in Sales(o)' : i \in DOMAIN entries \/ i = Len(entries) + 1
        BY <2>2, <2>3
      <4> QED
        BY <4>1, <4>2, <4>3
    <3>4. ASSUME NEW q \in Orders
          PROVE  /\ q \in credited' <=> Sales(q)' # {}
                 /\ \A i, j \in Sales(q)' : i = j
      <4>1. CASE q = o
        <5>1. q \in credited' /\ Sales(q)' = {Len(entries) + 1}
          BY <2>1, <3>3, <4>1
        <5> HIDE DEF Sales
        <5> QED
          BY <5>1
      <4>2. CASE q # o
        <5>1. Sales(q)' = Sales(q) /\ (q \in credited' <=> q \in credited)
          <6> HIDE DEF Sales
          <6> QED
            BY <2>1, <3>1, <4>2
        <5>2. (q \in credited <=> Sales(q) # {}) /\ \A i, j \in Sales(q) : i = j
          BY DEF SettledOnce
        <5> HIDE DEF Sales
        <5> QED
          BY <5>1, <5>2
      <4> QED
        BY <4>1, <4>2
    <3> QED
      BY <3>4 DEF SettledOnce
  <2> QED
    BY <2>2, <2>4, <2>5
<1>3. ASSUME NEW a \in Amounts, Reverse(a) PROVE IInv'
  <2>0. a \in Nat /\ -a \in Int /\ balance + (-a) = balance - a
    BY <1>0
  <2>1. /\ UNCHANGED <<engine, now, orderVars, call, paid>>
        /\ Apply(-a, "REVERSAL", now, NoRef) /\ balance + (-a) \in Nat
    BY <1>0, <1>3, <2>0 DEF Reverse
  <2>2. /\ balance' \in Nat /\ entries' \in Seq(Line)
        /\ StatementAddsUp' /\ SettledOnce' /\ ClaimsAreOpen'
    BY <1>0, <2>0, <2>1, OtherKinds DEF Kinds
  <2> QED
    BY <1>t, <1>0, <2>1, <2>2 DEF TypeOK, orderVars
<1>4. ASSUME NEW w \in Withdrawers, Debit(w) PROVE IInv'
  <2>0. /\ call[w].amount \in Nat /\ call[w].asOf \in Nat /\ call[w].held \in Nat
        /\ call[w].corr \in Correlations \cup {NoRef} /\ -call[w].amount \in Int
        /\ balance + (-call[w].amount) = balance - call[w].amount
    BY <1>0 DEF Call
  <2>1. /\ UNCHANGED <<engine, now, orderVars, paid>>
        /\ Apply(-call[w].amount, "WITHDRAW", call[w].asOf, call[w].corr)
        /\ balance - call[w].amount >= Floor(w) /\ call' = [call EXCEPT ![w].at = "pay"]
    BY <1>4 DEF Debit
  <2>2. balance + (-call[w].amount) \in Nat
    <3>1. Floor(w) \in Nat
      BY <2>0, HeldIsNat DEF Floor
    <3> QED
      BY <1>0, <2>0, <2>1, <3>1
  <2>3. /\ balance' \in Nat /\ entries' \in Seq(Line)
        /\ StatementAddsUp' /\ SettledOnce' /\ ClaimsAreOpen'
    BY <2>0, <2>1, <2>2, OtherKinds DEF Kinds
  <2>4. call' \in [Withdrawers -> Call]
    BY <1>0, <2>1, CallKept
  <2> QED
    BY <1>t, <2>1, <2>3, <2>4 DEF TypeOK, orderVars
<1>5. ASSUME NEW w \in Withdrawers, GiveBack(w) PROVE IInv'
  <2>0. /\ call[w].amount \in Nat /\ call[w].amount \in Int
        /\ call[w].corr \in Correlations \cup {NoRef} /\ balance + call[w].amount \in Nat
    BY <1>0 DEF Call
  <2>1. /\ UNCHANGED <<engine, now, orderVars, paid>>
        /\ Apply(call[w].amount, "WITHDRAW_REFUND", now, call[w].corr)
        /\ call' = [call EXCEPT ![w] = Idle]
    BY <1>5 DEF GiveBack
  <2>2. /\ balance' \in Nat /\ entries' \in Seq(Line)
        /\ StatementAddsUp' /\ SettledOnce' /\ ClaimsAreOpen'
    BY <1>0, <2>0, <2>1, OtherKinds DEF Kinds
  <2>3. call' \in [Withdrawers -> Call]
    BY <1>0, <2>1, CallKept
  <2> QED
    BY <1>t, <2>1, <2>2, <2>3 DEF TypeOK, orderVars
<1>6. ASSUME UNCHANGED <<engine, walletVars, orderVars>>, now' \in 0..MaxTime,
             call' \in [Withdrawers -> Call], paid' \in [Correlations -> Nat]
      PROVE  IInv'
  <2>1. TypeOK'
    BY <1>t, <1>0, <1>6 DEF TypeOK, walletVars, orderVars
  <2> QED
    BY <1>6, <2>1 DEF walletVars, orderVars, ClaimsAreOpen, StatementAddsUp, Previous,
                      SettledOnce
<1>7. CASE Tick
  BY <1>0, <1>6, <1>7 DEF Tick, TypeOK
<1>8. ASSUME NEW w \in Withdrawers, NEW a \in Amounts, NEW c \in Correlations, Withdraw(w, a, c)
      PROVE  IInv'
  <2> DEFINE r == [at |-> "debit", amount |-> a, corr |-> c, asOf |-> now, held |-> HeldAt(now)]
  <2>1. r \in Call
    BY <1>0, HeldIsNat DEF Call
  <2>2. call' = [call EXCEPT ![w] = r]
    BY <1>8 DEF Withdraw
  <2> HIDE DEF r
  <2>3. call' \in [Withdrawers -> Call]
    BY <1>0, <2>1, <2>2
  <2> QED
    BY <1>6, <1>8, <2>3 DEF Withdraw, TypeOK
<1>9. ASSUME NEW w \in Withdrawers, InsufficientBalance(w) \/ Refused(w) \/ GiveUp(w)
      PROVE  IInv'
  <2>1. call' \in [Withdrawers -> Call]
    BY <1>0, <1>9, CallKept DEF InsufficientBalance, Refused, GiveUp
  <2> QED
    BY <1>6, <1>9, <2>1 DEF InsufficientBalance, Refused, GiveUp, TypeOK
<1>10. ASSUME NEW w \in Withdrawers, Transfer(w) PROVE IInv'
  <2>1. call' \in [Withdrawers -> Call]
    BY <1>0, <1>10, CallKept DEF Transfer
  <2>2. paid' \in [Correlations -> Nat]
    <3>1. call[w].amount \in Nat /\ paid' = [paid EXCEPT ![call[w].corr] = call[w].amount]
      BY <1>0, <1>10 DEF Transfer, Call
    <3> QED
      BY <3>1 DEF TypeOK
  <2> QED
    BY <1>6, <1>10, <2>1, <2>2 DEF Transfer, TypeOK
<1>11. CASE UNCHANGED vars
  BY <1>0, <1>6, <1>11 DEF vars, TypeOK, walletVars, orderVars
<1> QED
  BY <1>1, <1>2, <1>3, <1>4, <1>5, <1>7, <1>8, <1>9, <1>10, <1>11 DEF Next

(* The invariant of every execution.                                       *)
THEOREM Invariance == Spec => []IInv
<1> QED
  BY InitIInv, NextIInv, PTL DEF Spec

(* On either database no interleaving of moves takes the balance below     *)
(* zero, and every line carries the balance it left.                       *)
THEOREM NeverOverdrawn == Spec => []TypeOK
<1>1. IInv => TypeOK
  BY DEF IInv
<1> QED
  BY <1>1, Invariance, PTL

(* The statement adds up whatever moves race: no line is lost, none        *)
(* carries a balance that another move had already changed.                *)
THEOREM NoMoveIsLost == Spec => []StatementAddsUp
<1>1. IInv => StatementAddsUp
  BY DEF IInv
<1> QED
  BY <1>1, Invariance, PTL

(* However many callers settle an order, and wherever they fail, it is     *)
(* credited once, exactly when it is marked.                               *)
THEOREM CreditOnce == Spec => []SettledOnce
<1>1. IInv => SettledOnce
  BY DEF IInv
<1> QED
  BY <1>1, Invariance, PTL

-----------------------------------------------------------------------------
(* Held money and payouts                                                  *)

HeldIn(e, t)  == Total(e, {i \in DOMAIN e : e[i].amount > 0 /\ e[i].available > t})
ReversedIn(e) == Total(e, {i \in DOMAIN e : e[i].kind = "REVERSAL"})
MovedIn(e, c) == Total(e, {i \in DOMAIN e : e[i].ref = c})

(* Withdrawals debited and neither paid nor given back yet, and what they  *)
(* come to.                                                                *)
PendingIn(k, c) == {w \in Withdrawers : k[w].at \in {"pay", "refund"} /\ k[w].corr = c}
Owed(k, c)      == Total(k, PendingIn(k, c))

(* The clock a debit read is not ahead.                                    *)
ReadBefore == \A w \in Withdrawers : call[w].asOf <= now

(* A reversal takes.                                                       *)
ReversalsTake ==
    \A i \in DOMAIN entries : entries[i].kind = "REVERSAL" => entries[i].amount <= 0

HoldKeptIn(e) == engine = "sqlite" => balance - ReversedIn(e) >= HeldIn(e, now)

(* What was paid for a correlation id, and what its pending withdrawals    *)
(* may still be paid or given back, stands debited.                        *)
CoveredIn(e) == \A c \in Correlations : paid[c] + Owed(call, c) <= -MovedIn(e, c)

Funds == ReadBefore /\ ReversalsTake /\ HoldKeptIn(entries) /\ CoveredIn(entries)

LEMMA FundsImply ==
    ASSUME IInv, Funds
    PROVE  HoldKeptBySerialWriters /\ PaidIsDebited
<1>1. HoldKeptBySerialWriters
  <2>1. /\ SumOf({i \in DOMAIN entries : entries[i].kind = "REVERSAL"}) = ReversedIn(entries)
        /\ HeldAt(now) = HeldIn(entries, now)
    BY DEF HeldAt, SumOf, Total, ReversedIn, HeldIn
  <2> QED
    BY <2>1 DEF HoldKeptBySerialWriters, HoldKept, Funds, HoldKeptIn
<1>2. ASSUME NEW c \in Correlations
      PROVE  paid[c] <= -SumOf({i \in DOMAIN entries : entries[i].ref = c})
  <2>1. SumOf({i \in DOMAIN entries : entries[i].ref = c}) = MovedIn(entries, c)
    BY DEF SumOf, Total, MovedIn
  <2>2. Owed(call, c) \in Nat
    <3>1. \A w \in Withdrawers : call[w].amount \in Nat
      BY DEF IInv, TypeOK
    <3>2. PendingIn(call, c) \in SUBSET Withdrawers /\ IsFiniteSet(Withdrawers)
      BY WalletAssumption DEF PendingIn
    <3> QED
      BY <3>1, <3>2, TotalMonotone DEF Owed
  <2>3. MovedIn(entries, c) \in Int
    <3> DEFINE lines == {i \in DOMAIN entries : entries[i].ref = c}
    <3>1. entries \in Seq(Line)
      BY DEF IInv, TypeOK, Line
    <3>2. \A i \in DOMAIN entries : entries[i].amount \in Int
      BY <3>1, LineFields
    <3>3. IsFiniteSet(lines)
      <4>1. IsFiniteSet(1..Len(entries)) /\ lines \in SUBSET (1..Len(entries))
        BY <3>1, FS_Interval
      <4> QED
        BY <4>1, FS_Subset
    <3>4. Total(entries, lines) \in Int
      BY <3>2, <3>3, TotalRemove
    <3> QED
      BY <3>4 DEF MovedIn
  <2>4. paid[c] \in Nat /\ paid[c] + Owed(call, c) <= -MovedIn(entries, c)
    BY DEF IInv, TypeOK, Funds, CoveredIn
  <2> QED
    BY <2>1, <2>2, <2>3, <2>4
<1> QED
  BY <1>1, <1>2 DEF PaidIsDebited

(* What a line appended to a ledger adds to a sum over a part of it.       *)
LEMMA OneMore ==
    ASSUME NEW n \in Nat, NEW e, NEW d, \A i \in 1..n : d[i] = e[i],
           \A i \in 1..(n + 1) : d[i].amount \in Int,
           NEW S \in SUBSET (1..n)
    PROVE  /\ Total(e, S) \in Int /\ Total(d, S) = Total(e, S)
           /\ Total(d, S \cup {n + 1}) = Total(e, S) + d[n + 1].amount
<1>1. IsFiniteSet(S) /\ n + 1 \notin S /\ S \cup {n + 1} \subseteq 1..(n + 1)
  <2>1. IsFiniteSet(1..n)
    BY FS_Interval
  <2>2. IsFiniteSet(S)
    BY <2>1, FS_Subset
  <2>3. n + 1 \notin 1..n /\ 1..n \subseteq 1..(n + 1) /\ n + 1 \in 1..(n + 1)
    OBVIOUS
  <2> QED
    BY <2>2, <2>3
<1>2. Total(e, S) = Total(d, S)
  BY <1>1, TotalSame
<1>3. Total(d, S) \in Int
  BY <1>1, TotalRemove
<1>4. Total(d, S \cup {n + 1}) = d[n + 1].amount + Total(d, S)
  BY <1>1, TotalAdd
<1>5. d[n + 1].amount \in Int
  OBVIOUS
<1> QED
  BY <1>2, <1>3, <1>4, <1>5

LEMMA LineTotals ==
    ASSUME NEW n \in Nat, NEW e, NEW d, DOMAIN e = 1..n, DOMAIN d = 1..(n + 1),
           \A i \in 1..n : d[i] = e[i], \A i \in 1..(n + 1) : d[i].amount \in Int
    PROVE  /\ \A t : /\ HeldIn(e, t) \in Int
                     /\ HeldIn(d, t) = IF d[n + 1].amount > 0 /\ d[n + 1].available > t
                                       THEN HeldIn(e, t) + d[n + 1].amount ELSE HeldIn(e, t)
           /\ ReversedIn(e) \in Int
           /\ ReversedIn(d) = IF d[n + 1].kind = "REVERSAL"
                              THEN ReversedIn(e) + d[n + 1].amount ELSE ReversedIn(e)
           /\ \A c : /\ MovedIn(e, c) \in Int
                     /\ MovedIn(d, c) = IF d[n + 1].ref = c
                                        THEN MovedIn(e, c) + d[n + 1].amount ELSE MovedIn(e, c)
<1>0. /\ \A i \in DOMAIN d : i \in DOMAIN e \/ i = n + 1
      /\ \A i \in DOMAIN e : i \in DOMAIN d /\ i # n + 1
      /\ n + 1 \in DOMAIN d
  OBVIOUS
<1>1. ASSUME NEW t
      PROVE  /\ HeldIn(e, t) \in Int
             /\ HeldIn(d, t) = IF d[n + 1].amount > 0 /\ d[n + 1].available > t
                               THEN HeldIn(e, t) + d[n + 1].amount ELSE HeldIn(e, t)
  <2> DEFINE S    == {i \in DOMAIN e : e[i].amount > 0 /\ e[i].available > t}
             more == d[n + 1].amount > 0 /\ d[n + 1].available > t
             T    == {i \in DOMAIN d : d[i].amount > 0 /\ d[i].available > t}
  <2>1. S \in SUBSET (1..n) /\ T = IF more THEN S \cup {n + 1} ELSE S
    BY <1>0
  <2> HIDE DEF S, T, more
  <2>3. /\ Total(e, S) \in Int
        /\ Total(d, T) = IF more THEN Total(e, S) + d[n + 1].amount ELSE Total(e, S)
    <3>1. /\ Total(e, S) \in Int /\ Total(d, S) = Total(e, S)
          /\ Total(d, S \cup {n + 1}) = Total(e, S) + d[n + 1].amount
      BY <2>1, OneMore
    <3>2. (more /\ T = S \cup {n + 1}) \/ (~more /\ T = S)
      BY <2>1
    <3> QED
      BY <3>1, <3>2
  <2> QED
    BY <2>3 DEF HeldIn, S, T, more
<1>2. /\ ReversedIn(e) \in Int
      /\ ReversedIn(d) = IF d[n + 1].kind = "REVERSAL"
                         THEN ReversedIn(e) + d[n + 1].amount ELSE ReversedIn(e)
  <2> DEFINE S    == {i \in DOMAIN e : e[i].kind = "REVERSAL"}
             more == d[n + 1].kind = "REVERSAL"
             T    == {i \in DOMAIN d : d[i].kind = "REVERSAL"}
  <2>1. S \in SUBSET (1..n) /\ T = IF more THEN S \cup {n + 1} ELSE S
    BY <1>0
  <2> HIDE DEF S, T, more
  <2>3. /\ Total(e, S) \in Int
        /\ Total(d, T) = IF more THEN Total(e, S) + d[n + 1].amount ELSE Total(e, S)
    <3>1. /\ Total(e, S) \in Int /\ Total(d, S) = Total(e, S)
          /\ Total(d, S \cup {n + 1}) = Total(e, S) + d[n + 1].amount
      BY <2>1, OneMore
    <3>2. (more /\ T = S \cup {n + 1}) \/ (~more /\ T = S)
      BY <2>1
    <3> QED
      BY <3>1, <3>2
  <2> QED
    BY <2>3 DEF ReversedIn, S, T, more
<1>3. ASSUME NEW c
      PROVE  /\ MovedIn(e, c) \in Int
             /\ MovedIn(d, c) = IF d[n + 1].ref = c
                                THEN MovedIn(e, c) + d[n + 1].amount ELSE MovedIn(e, c)
  <2> DEFINE S    == {i \in DOMAIN e : e[i].ref = c}
             more == d[n + 1].ref = c
             T    == {i \in DOMAIN d : d[i].ref = c}
  <2>1. S \in SUBSET (1..n) /\ T = IF more THEN S \cup {n + 1} ELSE S
    BY <1>0
  <2> HIDE DEF S, T, more
  <2>3. /\ Total(e, S) \in Int
        /\ Total(d, T) = IF more THEN Total(e, S) + d[n + 1].amount ELSE Total(e, S)
    <3>1. /\ Total(e, S) \in Int /\ Total(d, S) = Total(e, S)
          /\ Total(d, S \cup {n + 1}) = Total(e, S) + d[n + 1].amount
      BY <2>1, OneMore
    <3>2. (more /\ T = S \cup {n + 1}) \/ (~more /\ T = S)
      BY <2>1
    <3> QED
      BY <3>1, <3>2
  <2> QED
    BY <2>3 DEF MovedIn, S, T, more
<1> QED
  BY <1>1, <1>2, <1>3

LEMMA LinesAreFinite ==
    ASSUME NEW e \in Seq(Line), NEW S, S \subseteq DOMAIN e
    PROVE  IsFiniteSet(S)
<1>1. Len(e) \in Nat /\ DOMAIN e = 1..Len(e)
  OBVIOUS
<1>2. IsFiniteSet(1..Len(e))
  BY <1>1, FS_Interval
<1> QED
  BY <1>1, <1>2, FS_Subset

(* As time passes less is on hold.                                         *)
LEMMA LaterHoldsLess ==
    ASSUME NEW e \in Seq(Line), NEW t \in Nat, NEW u \in Nat, t <= u
    PROVE  HeldIn(e, u) <= HeldIn(e, t)
<1> DEFINE S == {i \in DOMAIN e : e[i].amount > 0 /\ e[i].available > t}
           T == {i \in DOMAIN e : e[i].amount > 0 /\ e[i].available > u}
<1>1. \A i \in DOMAIN e : e[i].amount \in Int /\ e[i].available \in Nat
  BY LineFields
<1>2. T \in SUBSET S /\ \A i \in S : e[i].amount \in Nat
  BY <1>1
<1>3. IsFiniteSet(S)
  BY LinesAreFinite
<1> HIDE DEF S, T
<1>4. Total(e, T) <= Total(e, S)
  BY <1>2, <1>3, TotalMonotone
<1> QED
  BY <1>4 DEF HeldIn, S, T

(* Reversals only take: their total is not positive.                       *)
LEMMA ReversedTakes ==
    ASSUME entries \in Seq(Line), ReversalsTake
    PROVE  ReversedIn(entries) \in Int /\ ReversedIn(entries) <= 0
<1> DEFINE S == {i \in DOMAIN entries : entries[i].kind = "REVERSAL"}
           Good(T) == Total(entries, T) \in Int /\ Total(entries, T) <= 0
           Bad == {T \in SUBSET S : ~Good(T)}
<1>1. IsFiniteSet(S)
  BY LinesAreFinite
<1>2. \A i \in S : entries[i].amount \in Int /\ entries[i].amount <= 0
  BY LineFields DEF ReversalsTake
<1> HIDE DEF S
<1>3. Bad = {}
  <2> SUFFICES ASSUME Bad # {} PROVE FALSE
    OBVIOUS
  <2>1. PICK T \in Bad : \A U \in Bad : ~(U \subseteq T /\ U # T)
    <3>1. Bad \in SUBSET SUBSET S
      OBVIOUS
    <3> HIDE DEF Bad
    <3> QED
      BY <1>1, <3>1, Smallest
  <2>2. T \in SUBSET S /\ IsFiniteSet(T) /\ ~Good(T)
    BY <1>1, FS_Subset
  <2>3. CASE T = {}
    <3>1. Total(entries, {}) = 0
      BY FS_EmptySet, TotalSplits
    <3> QED
      BY <2>2, <2>3, <3>1
  <2>4. CASE T # {}
    <3>1. Less(T) \in SUBSET T /\ Less(T) # T /\ Some(T) \in T
      BY <2>4, LessIsSmaller
    <3>2. Good(Less(T))
      BY <2>1, <2>2, <3>1
    <3>3. entries[Some(T)].amount \in Int /\ entries[Some(T)].amount <= 0
      BY <1>2, <2>2, <3>1
    <3>4. Total(entries, T) = entries[Some(T)].amount + Total(entries, Less(T))
      BY <2>2, <2>4, TotalSplits
    <3> QED
      BY <2>2, <3>2, <3>3, <3>4
  <2> QED
    BY <2>3, <2>4
<1>4. Good(S)
  BY <1>3
<1> QED
  BY <1>4 DEF ReversedIn, S

(* What a step of one withdrawal does to what is owed.                     *)
LEMMA OwedStep ==
    ASSUME NEW k \in [Withdrawers -> Call], NEW l \in [Withdrawers -> Call],
           NEW w \in Withdrawers, \A v \in Withdrawers : v # w => l[v] = k[v], NEW c
    PROVE  /\ Owed(k, c) \in Nat /\ Owed(l, c) \in Nat
           /\ \/ /\ w \in PendingIn(k, c) /\ w \in PendingIn(l, c)
                 /\ Owed(l, c) = Owed(k, c) - k[w].amount + l[w].amount
              \/ /\ w \in PendingIn(k, c) /\ w \notin PendingIn(l, c)
                 /\ Owed(l, c) = Owed(k, c) - k[w].amount
              \/ /\ w \notin PendingIn(k, c) /\ w \in PendingIn(l, c)
                 /\ Owed(l, c) = Owed(k, c) + l[w].amount
              \/ /\ w \notin PendingIn(k, c) /\ w \notin PendingIn(l, c)
                 /\ Owed(l, c) = Owed(k, c)
<1> DEFINE P == PendingIn(k, c)
           Q == PendingIn(l, c)
           R == P \ {w}
<1>2. R = Q \ {w} /\ P \in SUBSET Withdrawers /\ Q \in SUBSET Withdrawers
  BY DEF PendingIn
<1>3. \A v \in Withdrawers : k[v].amount \in Nat /\ l[v].amount \in Nat
  BY DEF Call
<1> HIDE DEF P, Q
<1>4. IsFiniteSet(Withdrawers) /\ IsFiniteSet(P) /\ IsFiniteSet(Q) /\ IsFiniteSet(R)
  BY <1>2, WalletAssumption, FS_Subset
<1>5. Total(k, P) \in Nat /\ Total(l, Q) \in Nat /\ Total(k, R) \in Nat
  BY <1>2, <1>3, <1>4, TotalMonotone
<1>6. Total(l, R) = Total(k, R)
  <2>1. \A v \in R : l[v].amount = k[v].amount
    BY <1>2
  <2> HIDE DEF R
  <2> QED
    BY <1>4, <2>1, TotalSame
<1>7. Total(k, P) = IF w \in P THEN k[w].amount + Total(k, R) ELSE Total(k, R)
  <2>1. CASE w \in P
    <3>1. \A v \in P : k[v].amount \in Int
      BY <1>2, <1>3
    <3> QED
      BY <1>4, <2>1, <3>1, TotalRemove
  <2>2. CASE w \notin P
    <3>1. R = P
      BY <2>2
    <3> QED
      BY <2>2, <3>1
  <2> QED
    BY <2>1, <2>2
<1>8. Total(l, Q) = IF w \in Q THEN l[w].amount + Total(k, R) ELSE Total(k, R)
  <2>1. CASE w \in Q
    <3>1. \A v \in Q : l[v].amount \in Int
      BY <1>2, <1>3
    <3>2. Total(l, Q) = l[w].amount + Total(l, Q \ {w})
      BY <1>4, <2>1, <3>1, TotalRemove
    <3> QED
      BY <1>2, <1>6, <2>1, <3>2
  <2>2. CASE w \notin Q
    <3>1. R = Q
      BY <1>2, <2>2
    <3> QED
      BY <1>6, <2>2, <3>1
  <2> QED
    BY <2>1, <2>2
<1>9. k[w].amount \in Nat /\ l[w].amount \in Nat
  BY <1>3
<1>10. Owed(k, c) = Total(k, P) /\ Owed(l, c) = Total(l, Q)
  BY DEF Owed, P, Q
<1> HIDE DEF R
<1>11. /\ Owed(k, c) \in Nat /\ Owed(l, c) \in Nat
       /\ \/ w \in P /\ w \in Q /\ Owed(l, c) = Owed(k, c) - k[w].amount + l[w].amount
          \/ w \in P /\ w \notin Q /\ Owed(l, c) = Owed(k, c) - k[w].amount
          \/ w \notin P /\ w \in Q /\ Owed(l, c) = Owed(k, c) + l[w].amount
          \/ w \notin P /\ w \notin Q /\ Owed(l, c) = Owed(k, c)
  BY <1>5, <1>7, <1>8, <1>9, <1>10
<1> QED
  BY <1>11 DEF P, Q

(* What a move does to the sums over the ledger.                           *)
MoveSums(delta, kind, available, ref) ==
    /\ \A t : /\ HeldIn(entries, t) \in Int
              /\ HeldIn(entries', t) = IF delta > 0 /\ available > t
                                       THEN HeldIn(entries, t) + delta
                                       ELSE HeldIn(entries, t)
    /\ ReversedIn(entries) \in Int
    /\ ReversedIn(entries') = IF kind = "REVERSAL" THEN ReversedIn(entries) + delta
                              ELSE ReversedIn(entries)
    /\ \A c : /\ MovedIn(entries, c) \in Int
              /\ MovedIn(entries', c) = IF ref = c THEN MovedIn(entries, c) + delta
                                        ELSE MovedIn(entries, c)

LEMMA MoveTotals ==
    ASSUME IInv, NEW delta \in Int, balance + delta \in Nat,
           NEW kind \in Kinds, NEW available \in Nat,
           NEW ref \in Orders \cup Correlations \cup {NoRef},
           Apply(delta, kind, available, ref)
    PROVE  /\ balance' = balance + delta
           /\ MoveSums(delta, kind, available, ref)
           /\ ReversalsTake /\ (kind = "REVERSAL" => delta <= 0) => ReversalsTake'
<1> DEFINE n == Len(entries)
<1>1. entries \in Seq(Line)
  BY DEF IInv, TypeOK, Line
<1>2. DOMAIN entries = 1..n /\ n \in Nat
  BY <1>1
<1>3. /\ balance' = balance + delta /\ entries' \in Seq(Line)
      /\ DOMAIN entries' = 1..(n + 1)
      /\ \A i \in 1..n : entries'[i] = entries[i]
      /\ entries'[n + 1].kind = kind /\ entries'[n + 1].ref = ref
      /\ entries'[n + 1].amount = delta /\ entries'[n + 1].available = available
  BY <1>2, ApplyAddsUp DEF IInv
<1> HIDE DEF n
<1>4. \A i \in 1..(n + 1) : entries'[i].amount \in Int
  BY <1>3, LineFields
<1>5. /\ \A t : /\ HeldIn(entries, t) \in Int
                /\ HeldIn(entries', t) = IF entries'[n + 1].amount > 0 /\ entries'[n + 1].available > t
                                  THEN HeldIn(entries, t) + entries'[n + 1].amount
                                  ELSE HeldIn(entries, t)
      /\ ReversedIn(entries) \in Int
      /\ ReversedIn(entries') = IF entries'[n + 1].kind = "REVERSAL"
                         THEN ReversedIn(entries) + entries'[n + 1].amount ELSE ReversedIn(entries)
      /\ \A c : /\ MovedIn(entries, c) \in Int
                /\ MovedIn(entries', c) = IF entries'[n + 1].ref = c
                                   THEN MovedIn(entries, c) + entries'[n + 1].amount
                                   ELSE MovedIn(entries, c)
  BY <1>2, <1>3, <1>4, LineTotals
<1>6. ASSUME ReversalsTake, kind = "REVERSAL" => delta <= 0 PROVE ReversalsTake'
  <2>1. \A i \in DOMAIN entries' : i \in DOMAIN entries \/ i = n + 1
    BY <1>2, <1>3
  <2> QED
    BY <1>2, <1>3, <1>6, <2>1 DEF ReversalsTake
<1>7. MoveSums(delta, kind, available, ref)
  BY <1>3, <1>5 DEF MoveSums
<1> QED
  BY <1>3, <1>6, <1>7

(* The invariant of held money and payouts, one step at a time.            *)
LEMMA InitFunds == Init => Funds
<1> SUFFICES ASSUME Init PROVE Funds
  OBVIOUS
<1> USE WalletAssumption DEF Init, Idle
<1>1. ReadBefore /\ ReversalsTake
  BY DEF ReadBefore, ReversalsTake
<1>2. Total(entries, {}) = 0 /\ Total(call, {}) = 0
  BY TotalSplits, FS_EmptySet
<1>3. HoldKeptIn(entries)
  <2>1. {i \in DOMAIN entries : entries[i].kind = "REVERSAL"} = {}
    OBVIOUS
  <2>2. {i \in DOMAIN entries : entries[i].amount > 0 /\ entries[i].available > now} = {}
    OBVIOUS
  <2>3. ReversedIn(entries) = 0 /\ HeldIn(entries, now) = 0
    BY <1>2, <2>1, <2>2 DEF ReversedIn, HeldIn
  <2> QED
    BY <2>3 DEF HoldKeptIn
<1>4. ASSUME NEW c \in Correlations PROVE paid[c] + Owed(call, c) <= -MovedIn(entries, c)
  <2>1. {i \in DOMAIN entries : entries[i].ref = c} = {}
    OBVIOUS
  <2>2. PendingIn(call, c) = {}
    BY DEF PendingIn
  <2>3. MovedIn(entries, c) = 0 /\ Owed(call, c) = 0 /\ paid[c] = 0
    BY <1>2, <2>1, <2>2 DEF MovedIn, Owed
  <2> QED
    BY <2>3
<1> QED
  BY <1>1, <1>3, <1>4 DEF Funds, CoveredIn

LEMMA NextFunds == IInv /\ IInv' /\ Funds /\ [Next]_vars => Funds'
<1> SUFFICES ASSUME IInv, IInv', Funds, [Next]_vars PROVE Funds'
  OBVIOUS
<1> USE WalletAssumption
<1>0. /\ now \in Nat /\ balance \in Nat /\ entries \in Seq(Line)
      /\ call \in [Withdrawers -> Call] /\ paid \in [Correlations -> Nat]
      /\ ReadBefore /\ ReversalsTake /\ HoldKeptIn(entries) /\ CoveredIn(entries)
      /\ IInv
  BY DEF IInv, TypeOK, Line, Call, Funds
<1>z. \A t : HeldIn(entries, t) \in Int
  <2> SUFFICES ASSUME NEW t PROVE HeldIn(entries, t) \in Int
    OBVIOUS
  <2>1. HeldAt(t) \in Nat
    BY HeldIsNat DEF IInv
  <2> QED
    BY <2>1 DEF HeldAt, SumOf, Total, HeldIn
<1>1. ASSUME NEW s \in Settlers, NEW o \in Orders, Settle(s, o) PROVE Funds'
  <2>1. /\ UNCHANGED <<engine, now, call, paid>>
        /\ Price[o] \in Nat \ {0} /\ Price[o] \in Int /\ balance + Price[o] \in Nat
        /\ now + Hold[o] \in Nat /\ Apply(Price[o], "SALE", now + Hold[o], o)
        /\ o \notin Correlations
    BY <1>0, <1>1 DEF Settle
  <2>a. /\ balance' = balance + Price[o] /\ ReversalsTake'
        /\ MoveSums(Price[o], "SALE", now + Hold[o], o)
    BY <1>0, <2>1, MoveTotals DEF Kinds
  <2>2. /\ balance' = balance + Price[o]
        /\ HeldIn(entries, now) \in Int
        /\ HeldIn(entries', now) <= HeldIn(entries, now) + Price[o]
        /\ HeldIn(entries', now) \in Int
        /\ ReversedIn(entries) \in Int /\ ReversedIn(entries') = ReversedIn(entries)
        /\ \A c \in Correlations : MovedIn(entries', c) = MovedIn(entries, c)
        /\ ReversalsTake'
    BY <2>1, <2>a DEF MoveSums
  <2>3. HoldKeptIn(entries)'
    BY <1>0, <2>1, <2>2 DEF HoldKeptIn
  <2> QED
    BY <1>0, <2>1, <2>2, <2>3 DEF Funds, ReadBefore, CoveredIn
<1>2. ASSUME NEW a \in Amounts, Reverse(a) PROVE Funds'
  <2>1. /\ UNCHANGED <<engine, now, call, paid>> /\ a \in Nat \ {0} /\ -a \in Int
        /\ balance + (-a) \in Nat /\ Apply(-a, "REVERSAL", now, NoRef)
        /\ ~(-a > 0) /\ -a <= 0
    BY <1>0, <1>2 DEF Reverse
  <2>a. /\ balance' = balance + (-a) /\ ReversalsTake' /\ MoveSums(-a, "REVERSAL", now, NoRef)
    BY <1>0, <2>1, MoveTotals DEF Kinds
  <2>2. /\ balance' = balance + (-a)
        /\ HeldIn(entries', now) = HeldIn(entries, now) /\ HeldIn(entries, now) \in Int
        /\ ReversedIn(entries) \in Int /\ ReversedIn(entries') = ReversedIn(entries) + (-a)
        /\ \A c \in Correlations : /\ MovedIn(entries, c) \in Int
                                   /\ MovedIn(entries', c) \in Int
                                   /\ MovedIn(entries', c) <= MovedIn(entries, c)
        /\ ReversalsTake'
    BY <2>1, <2>a DEF MoveSums
  <2>3. HoldKeptIn(entries)'
    BY <1>0, <2>1, <2>2 DEF HoldKeptIn
  <2>4. CoveredIn(entries)'
    <3> SUFFICES ASSUME NEW c \in Correlations
                 PROVE  paid[c] + Owed(call, c) <= -MovedIn(entries', c)
      BY <2>1 DEF CoveredIn
    <3>1. paid[c] + Owed(call, c) <= -MovedIn(entries, c) /\ paid[c] \in Nat
      BY <1>0 DEF CoveredIn
    <3>2. Owed(call, c) \in Nat
      <4>1. \A w \in Withdrawers : call[w].amount \in Nat
        BY <1>0 DEF Call
      <4>2. PendingIn(call, c) \in SUBSET Withdrawers
        BY DEF PendingIn
      <4> QED
        BY <4>1, <4>2, TotalMonotone DEF Owed
    <3> QED
      BY <2>2, <3>1, <3>2
  <2> QED
    BY <1>0, <2>1, <2>2, <2>3, <2>4 DEF Funds, ReadBefore
<1>3. ASSUME NEW w \in Withdrawers, NEW r \in Call, UNCHANGED <<engine, now, walletVars>>,
             call' = [call EXCEPT ![w] = r], r.asOf <= now,
             \A c \in Correlations :
                \/ w \notin PendingIn(call', c) /\ paid'[c] = paid[c]
                \/ /\ w \in PendingIn(call, c) /\ w \in PendingIn(call', c)
                   /\ r.amount = call[w].amount /\ paid'[c] = paid[c]
                \/ /\ w \in PendingIn(call, c) /\ w \notin PendingIn(call', c)
                   /\ paid'[c] <= paid[c] + call[w].amount
      PROVE  Funds'
  <2>1. ReadBefore'
    BY <1>0, <1>3 DEF ReadBefore
  <2>2. ReversalsTake' /\ HoldKeptIn(entries)'
    BY <1>0, <1>3 DEF walletVars, ReversalsTake, HoldKeptIn
  <2>3. CoveredIn(entries)'
    <3> SUFFICES ASSUME NEW c \in Correlations
                 PROVE  paid'[c] + Owed(call', c) <= -MovedIn(entries, c)
      BY <1>3 DEF CoveredIn, walletVars
    <3>1. /\ paid[c] + Owed(call, c) <= -MovedIn(entries, c) /\ paid[c] \in Nat
          /\ paid'[c] \in Nat
      BY <1>0 DEF CoveredIn, IInv, TypeOK
    <3>2. /\ Owed(call, c) \in Nat /\ Owed(call', c) \in Nat
          /\ \/ /\ w \in PendingIn(call, c) /\ w \in PendingIn(call', c)
                /\ Owed(call', c) = Owed(call, c) - call[w].amount + call'[w].amount
             \/ /\ w \in PendingIn(call, c) /\ w \notin PendingIn(call', c)
                /\ Owed(call', c) = Owed(call, c) - call[w].amount
             \/ /\ w \notin PendingIn(call, c) /\ w \in PendingIn(call', c)
                /\ Owed(call', c) = Owed(call, c) + call'[w].amount
             \/ /\ w \notin PendingIn(call, c) /\ w \notin PendingIn(call', c)
                /\ Owed(call', c) = Owed(call, c)
      <4>1. /\ call' \in [Withdrawers -> Call]
            /\ \A v \in Withdrawers : v # w => call'[v] = call[v]
        BY <1>0, <1>3
      <4> QED
        BY <1>0, <4>1, OwedStep
    <3>3. MovedIn(entries, c) \in Int
      <4>1. IsFiniteSet({i \in DOMAIN entries : entries[i].ref = c})
        <5>1. IsFiniteSet(1..Len(entries)) /\ DOMAIN entries = 1..Len(entries)
          BY <1>0, FS_Interval
        <5> QED
          BY <5>1, FS_Subset
      <4>2. \A i \in DOMAIN entries : entries[i].amount \in Int
        BY <1>0, LineFields
      <4> QED
        BY <4>1, <4>2, TotalRemove DEF MovedIn
    <3>4. call[w].amount \in Nat /\ r.amount \in Nat /\ call'[w] = r
      BY <1>0, <1>3 DEF Call
    <3>5. \/ w \notin PendingIn(call', c) /\ paid'[c] = paid[c]
          \/ /\ w \in PendingIn(call, c) /\ w \in PendingIn(call', c)
             /\ r.amount = call[w].amount /\ paid'[c] = paid[c]
          \/ /\ w \in PendingIn(call, c) /\ w \notin PendingIn(call', c)
             /\ paid'[c] <= paid[c] + call[w].amount
      BY <1>3
    <3>6. paid'[c] + Owed(call', c) <= paid[c] + Owed(call, c)
      BY <3>1, <3>2, <3>4, <3>5
    <3> QED
      BY <3>1, <3>2, <3>3, <3>6
  <2> QED
    BY <2>1, <2>2, <2>3 DEF Funds
<1>4. CASE Tick
  <2>1. UNCHANGED <<engine, walletVars, call, paid>> /\ now' = now + 1
    BY <1>4 DEF Tick
  <2>2. ReadBefore' /\ ReversalsTake' /\ CoveredIn(entries)'
    <3>1. \A w \in Withdrawers : call[w].asOf \in Nat
      BY <1>0 DEF Call
    <3> QED
      BY <1>0, <2>1, <3>1 DEF ReadBefore, ReversalsTake, CoveredIn, walletVars
  <2>3. HeldIn(entries, now + 1) <= HeldIn(entries, now)
    BY <1>0, LaterHoldsLess
  <2>4. HoldKeptIn(entries)'
    <3>1. ReversedIn(entries) \in Int
      <4>1. IsFiniteSet({i \in DOMAIN entries : entries[i].kind = "REVERSAL"})
        <5>1. IsFiniteSet(1..Len(entries)) /\ DOMAIN entries = 1..Len(entries)
          BY <1>0, FS_Interval
        <5> QED
          BY <5>1, FS_Subset
      <4>2. \A i \in DOMAIN entries : entries[i].amount \in Int
        BY <1>0, LineFields
      <4> QED
        BY <4>1, <4>2, TotalRemove DEF ReversedIn
    <3>2. HeldIn(entries, now) \in Int /\ HeldIn(entries, now + 1) \in Int
      BY <1>z
    <3> QED
      BY <1>0, <2>1, <2>3, <3>1, <3>2 DEF HoldKeptIn, walletVars
  <2> QED
    BY <2>2, <2>4 DEF Funds
<1>5. ASSUME NEW w \in Withdrawers, NEW a \in Amounts, NEW c \in Correlations, Withdraw(w, a, c)
      PROVE  Funds'
  <2> DEFINE r == [at |-> "debit", amount |-> a, corr |-> c, asOf |-> now, held |-> HeldAt(now)]
  <2>1. /\ UNCHANGED <<engine, now, walletVars, paid>> /\ call[w].at = "idle"
        /\ call' = [call EXCEPT ![w] = r]
    BY <1>5 DEF Withdraw
  <2>2. r \in Call /\ r.asOf <= now /\ r.at = "debit"
    BY <1>0, HeldIsNat DEF Call, IInv
  <2> HIDE DEF r
  <2>3. \A d \in Correlations : w \notin PendingIn(call', d)
    BY <1>0, <2>1, <2>2 DEF PendingIn
  <2> QED
    BY <1>3, <2>1, <2>2, <2>3
<1>6. ASSUME NEW w \in Withdrawers, InsufficientBalance(w) \/ GiveUp(w)
      PROVE  Funds'
  <2>1. UNCHANGED <<engine, now, walletVars, paid>> /\ call' = [call EXCEPT ![w] = Idle]
    BY <1>6 DEF InsufficientBalance, GiveUp
  <2>2. Idle \in Call /\ Idle.asOf <= now /\ Idle.at = "idle"
    BY <1>0 DEF Idle, Call
  <2>3. \A c \in Correlations : w \notin PendingIn(call', c)
    BY <1>0, <2>1, <2>2 DEF PendingIn
  <2> QED
    BY <1>3, <2>1, <2>2, <2>3
<1>7. ASSUME NEW w \in Withdrawers, Transfer(w) PROVE Funds'
  <2>1. /\ UNCHANGED <<engine, now, walletVars>> /\ call' = [call EXCEPT ![w] = Idle]
        /\ call[w].at = "pay" /\ paid[call[w].corr] = 0
        /\ paid' = [paid EXCEPT ![call[w].corr] = call[w].amount]
    BY <1>7 DEF Transfer
  <2>2. Idle \in Call /\ Idle.asOf <= now /\ Idle.at = "idle"
    BY <1>0 DEF Idle, Call
  <2>3. call[w].amount \in Nat
    BY <1>0 DEF Call
  <2>4. \A c \in Correlations : w \notin PendingIn(call', c)
    BY <1>0, <2>1, <2>2 DEF PendingIn
  <2>5. ASSUME NEW c \in Correlations
        PROVE  \/ paid'[c] = paid[c]
               \/ w \in PendingIn(call, c) /\ paid'[c] <= paid[c] + call[w].amount
    <3>1. CASE c = call[w].corr
      <4>1. paid'[c] = call[w].amount /\ paid[c] = 0
        BY <1>0, <2>1, <3>1
      <4> QED
        BY <2>1, <2>3, <3>1, <4>1 DEF PendingIn
    <3>2. CASE c # call[w].corr
      BY <1>0, <2>1, <3>2
    <3> QED
      BY <3>1, <3>2
  <2> QED
    BY <1>3, <2>1, <2>2, <2>4, <2>5
<1>8. ASSUME NEW w \in Withdrawers, Refused(w) PROVE Funds'
  <2> DEFINE r == [call[w] EXCEPT !.at = "refund"]
  <2>1. /\ UNCHANGED <<engine, now, walletVars, paid>> /\ call' = [call EXCEPT ![w] = r]
        /\ call[w].at = "pay"
    BY <1>8 DEF Refused
  <2>2. /\ r \in Call /\ r.asOf <= now /\ r.at = "refund"
        /\ r.amount = call[w].amount /\ r.corr = call[w].corr
    BY <1>0 DEF Call, ReadBefore
  <2> HIDE DEF r
  <2>3. ASSUME NEW c \in Correlations
        PROVE  \/ w \notin PendingIn(call', c)
               \/ w \in PendingIn(call, c) /\ w \in PendingIn(call', c)
    BY <1>0, <2>1, <2>2 DEF PendingIn
  <2> QED
    BY <1>3, <2>1, <2>2, <2>3
<1>9. ASSUME NEW w \in Withdrawers, Debit(w) PROVE Funds'
  <2> DEFINE r == [call[w] EXCEPT !.at = "pay"]
  <2>0. /\ call[w].amount \in Nat /\ call[w].asOf \in Nat /\ call[w].held \in Nat
        /\ call[w].corr \in Correlations \cup {NoRef} /\ -call[w].amount \in Int
        /\ ~(-call[w].amount > 0) /\ call[w].asOf <= now
    BY <1>0 DEF Call, ReadBefore
  <2>1. /\ UNCHANGED <<engine, now, paid>> /\ call[w].at = "debit"
        /\ Apply(-call[w].amount, "WITHDRAW", call[w].asOf, call[w].corr)
        /\ balance - call[w].amount >= Floor(w) /\ call' = [call EXCEPT ![w] = r]
    BY <1>9 DEF Debit
  <2>2. Floor(w) \in Nat /\ balance + (-call[w].amount) \in Nat
    <3>1. Floor(w) \in Nat
      BY <2>0, HeldIsNat DEF Floor, IInv
    <3> QED
      BY <1>0, <2>0, <2>1, <3>1
  <2>a. /\ balance' = balance + (-call[w].amount) /\ ReversalsTake'
        /\ MoveSums(-call[w].amount, "WITHDRAW", call[w].asOf, call[w].corr)
    BY <1>0, <2>0, <2>1, <2>2, MoveTotals DEF Kinds
  <2>3. /\ HeldIn(entries', now) = HeldIn(entries, now) /\ HeldIn(entries, now) \in Int
        /\ ReversedIn(entries) \in Int /\ ReversedIn(entries') = ReversedIn(entries)
        /\ \A c : /\ MovedIn(entries, c) \in Int
                  /\ MovedIn(entries', c) = IF call[w].corr = c
                                            THEN MovedIn(entries, c) + (-call[w].amount)
                                            ELSE MovedIn(entries, c)
    BY <2>0, <2>a DEF MoveSums
  <2>4. HoldKeptIn(entries)'
    <3> SUFFICES ASSUME engine = "sqlite"
                 PROVE  balance' - ReversedIn(entries) >= HeldIn(entries, now)
      BY <2>1, <2>3 DEF HoldKeptIn
    <3>1. Floor(w) = HeldIn(entries, call[w].asOf)
      BY DEF Floor, HeldAt, SumOf, Total, HeldIn
    <3>2. HeldIn(entries, now) <= HeldIn(entries, call[w].asOf)
      BY <1>0, <2>0, LaterHoldsLess
    <3>3. ReversedIn(entries) <= 0
      BY <1>0, ReversedTakes
    <3>4. HeldIn(entries, call[w].asOf) \in Int
      BY <1>z
    <3>5. balance' >= Floor(w) /\ balance' \in Int
      BY <1>0, <2>0, <2>1, <2>a
    <3> QED
      BY <2>3, <3>1, <3>2, <3>3, <3>4, <3>5
  <2>5. r \in Call /\ r.asOf <= now /\ r.at = "pay" /\ r.amount = call[w].amount
        /\ r.corr = call[w].corr
    BY <1>0, <2>0 DEF Call
  <2> HIDE DEF r
  <2>6. ReadBefore'
    BY <1>0, <2>1, <2>5 DEF ReadBefore
  <2>7. CoveredIn(entries)'
    <3> SUFFICES ASSUME NEW c \in Correlations
                 PROVE  paid[c] + Owed(call', c) <= -MovedIn(entries', c)
      BY <2>1 DEF CoveredIn
    <3>1. /\ call' \in [Withdrawers -> Call] /\ call'[w] = r
          /\ \A v \in Withdrawers : v # w => call'[v] = call[v]
      BY <1>0, <2>1, <2>5
    <3>2. /\ w \notin PendingIn(call, c)
          /\ w \in PendingIn(call', c) <=> call[w].corr = c
      BY <2>1, <2>5, <3>1 DEF PendingIn
    <3>3. /\ Owed(call, c) \in Nat
          /\ Owed(call', c) = IF call[w].corr = c THEN Owed(call, c) + call[w].amount
                              ELSE Owed(call, c)
      <4>1. /\ Owed(call, c) \in Nat
            /\ \/ /\ w \in PendingIn(call', c)
                  /\ Owed(call', c) = Owed(call, c) + call'[w].amount
               \/ /\ w \notin PendingIn(call', c)
                  /\ Owed(call', c) = Owed(call, c)
        BY <1>0, <3>1, <3>2, OwedStep
      <4> QED
        BY <2>5, <3>1, <3>2, <4>1
    <3>4. paid[c] + Owed(call, c) <= -MovedIn(entries, c) /\ paid[c] \in Nat
      BY <1>0 DEF CoveredIn
    <3>5. /\ MovedIn(entries, c) \in Int
          /\ MovedIn(entries', c) = IF call[w].corr = c
                                    THEN MovedIn(entries, c) + (-call[w].amount)
                                    ELSE MovedIn(entries, c)
      BY <2>3
    <3> QED
      BY <2>0, <3>3, <3>4, <3>5
  <2> QED
    BY <2>a, <2>4, <2>6, <2>7 DEF Funds
<1>10. ASSUME NEW w \in Withdrawers, GiveBack(w) PROVE Funds'
  <2>0. /\ call[w].amount \in Nat /\ call[w].amount \in Int
        /\ call[w].corr \in Correlations \cup {NoRef} /\ balance + call[w].amount \in Nat
    BY <1>0 DEF Call
  <2>1. /\ UNCHANGED <<engine, now, paid>> /\ call[w].at = "refund"
        /\ Apply(call[w].amount, "WITHDRAW_REFUND", now, call[w].corr)
        /\ call' = [call EXCEPT ![w] = Idle]
    BY <1>10 DEF GiveBack
  <2>a. /\ balance' = balance + call[w].amount /\ ReversalsTake'
        /\ MoveSums(call[w].amount, "WITHDRAW_REFUND", now, call[w].corr)
    BY <1>0, <2>0, <2>1, MoveTotals DEF Kinds
  <2>3. /\ HeldIn(entries', now) = HeldIn(entries, now) /\ HeldIn(entries, now) \in Int
        /\ ReversedIn(entries) \in Int /\ ReversedIn(entries') = ReversedIn(entries)
        /\ \A c : /\ MovedIn(entries, c) \in Int
                  /\ MovedIn(entries', c) = IF call[w].corr = c
                                            THEN MovedIn(entries, c) + call[w].amount
                                            ELSE MovedIn(entries, c)
    <3>1. ~(now > now)
      BY <1>0
    <3> QED
      BY <2>a, <3>1 DEF MoveSums
  <2>4. HoldKeptIn(entries)'
    BY <1>0, <2>0, <2>1, <2>a, <2>3 DEF HoldKeptIn
  <2>5. Idle \in Call /\ Idle.asOf <= now /\ Idle.at = "idle"
    BY <1>0 DEF Idle, Call
  <2>6. ReadBefore'
    BY <1>0, <2>1, <2>5 DEF ReadBefore
  <2>7. CoveredIn(entries)'
    <3> SUFFICES ASSUME NEW c \in Correlations
                 PROVE  paid[c] + Owed(call', c) <= -MovedIn(entries', c)
      BY <2>1 DEF CoveredIn
    <3>1. /\ call' \in [Withdrawers -> Call] /\ call'[w] = Idle
          /\ \A v \in Withdrawers : v # w => call'[v] = call[v]
      BY <1>0, <2>1, <2>5
    <3>2. /\ w \notin PendingIn(call', c)
          /\ w \in PendingIn(call, c) <=> call[w].corr = c
      BY <2>1, <2>5, <3>1 DEF PendingIn
    <3>3. /\ Owed(call, c) \in Nat
          /\ Owed(call', c) = IF call[w].corr = c THEN Owed(call, c) - call[w].amount
                              ELSE Owed(call, c)
      BY <1>0, <3>1, <3>2, OwedStep
    <3>4. paid[c] + Owed(call, c) <= -MovedIn(entries, c) /\ paid[c] \in Nat
      BY <1>0 DEF CoveredIn
    <3>5. /\ MovedIn(entries, c) \in Int
          /\ MovedIn(entries', c) = IF call[w].corr = c
                                    THEN MovedIn(entries, c) + call[w].amount
                                    ELSE MovedIn(entries, c)
      BY <2>3
    <3> QED
      BY <2>0, <3>3, <3>4, <3>5
  <2> QED
    BY <2>a, <2>4, <2>6, <2>7 DEF Funds
<1>11. ASSUME UNCHANGED <<engine, now, walletVars, call, paid>> PROVE Funds'
  BY <1>0, <1>11 DEF walletVars, Funds, ReadBefore, ReversalsTake, HoldKeptIn, CoveredIn
<1>12. ASSUME NEW s \in Settlers, NEW o \in Orders, Claim(s, o) \/ RollBack(s, o)
       PROVE  Funds'
  BY <1>11, <1>12 DEF Claim, RollBack
<1>13. CASE UNCHANGED vars
  BY <1>11, <1>13 DEF vars
<1> QED
  BY <1>1, <1>2, <1>4, <1>5, <1>6, <1>7, <1>8, <1>9, <1>10, <1>12, <1>13 DEF Next

(* What the ledger and the calls under way hold is enough at every step:   *)
(* the invariant the next two theorems rest on.                            *)
THEOREM FundsInvariance == Spec => [](IInv /\ Funds)
<1>1. IInv /\ Funds /\ [Next]_vars => (IInv /\ Funds)'
  BY NextIInv, NextFunds
<1> QED
  BY <1>1, InitIInv, InitFunds, PTL DEF Spec

(* On SQLite, which runs one writer at a time, no debit reaches money on   *)
(* hold.                                                                   *)
THEOREM HoldsAreKept == Spec => []HoldKeptBySerialWriters
<1> QED
  BY FundsImply, FundsInvariance, PTL

(* On either database what the provider sent stays debited: no payout is   *)
(* given back, whichever withdrawals share a correlation id.               *)
THEOREM NoPayoutGivenBack == Spec => []PaidIsDebited
<1> QED
  BY FundsImply, FundsInvariance, PTL

=============================================================================
