---------------------------- MODULE LedgerProofs ----------------------------
(***************************************************************************)
(* Sums, and lemmas about the balances of Ledger: the folds of RawBalance  *)
(* and TotalMinted are sums, the balances of all the accounts of a window  *)
(* add up to the supply minted in it, and what one transaction more does   *)
(* to a balance.                                                           *)
(*                                                                         *)
(* A sum over a finite set is what the folds of FiniteSetsExt compute: a   *)
(* function on the subsets, defined by itself, that takes the elements in  *)
(* the order of CHOOSE.  The lemmas show that the order does not matter,   *)
(* that sums add up, and that a table sums to the same both ways.  They    *)
(* are inductions over the subsets of a finite set, with a family of       *)
(* subsets in the place of a predicate, which is the form the provers can  *)
(* instantiate; they rest on the order of the naturals being well founded. *)
(***************************************************************************)
EXTENDS Ledger, FiniteSetTheorems, WellFoundedInduction, TLAPS

(* A set of naturals has a least element. *)
LEMMA Least ==
    ASSUME NEW T \in SUBSET Nat, T # {}
    PROVE  \E m \in T : \A k \in T : m <= k
<1> DEFINE R == {ss \in Nat \X Nat : ss[1] < ss[2]}
<1>1. IsWellFoundedOn(R, Nat)
    BY NatLessThanWellFounded DEF OpToRel
<1>2. PICK m \in T : \A k \in T : ~(<<k, m>> \in R)
    BY <1>1, WFMin
<1>3. \A k \in T : ~(k < m)
    BY <1>2
<1> QED BY <1>3

(* A set that has 0 and passes on from each number to the next. *)
LEMMA UpTo ==
    ASSUME NEW max \in Nat, NEW S \in SUBSET (0 .. max),
           0 \in S, \A i \in S : i < max => i + 1 \in S
    PROVE  S = 0 .. max
<1> SUFFICES ASSUME S # 0 .. max PROVE FALSE
    OBVIOUS
<1> DEFINE T == (0 .. max) \ S
<1>1. PICK m \in T : \A k \in T : m <= k
    <2>1. T \subseteq Nat
        OBVIOUS
    <2>2. \E i \in 0 .. max : i \notin S
        OBVIOUS
    <2> QED BY <2>1, <2>2, Least
<1>2. m \in Nat /\ m <= max /\ m # 0 /\ m - 1 \in 0 .. max
    BY <1>1
<1>3. m - 1 \in S
    BY <1>1, <1>2
<1> QED BY <1>1, <1>2, <1>3

-----------------------------------------------------------------------------
(* F holds the sum of every subset of S, taken element by element. *)
Weighs(w, S, F) ==
    F = [s \in SUBSET S |->
           IF s = {} THEN 0
           ELSE LET x == CHOOSE y \in s : TRUE IN w[x] + F[s \ {x}]]

(* The sum over S of the weights w, as the folds of the ledger take it. *)
Sum(w, S) == (CHOOSE F : Weighs(w, S, F))[S]

(* A family of subsets that has {}, and each set whose smaller sets it has. *)
LEMMA SetInduction ==
    ASSUME NEW S, IsFiniteSet(S), NEW P \in SUBSET (SUBSET S), {} \in P,
           \A s \in SUBSET S : s # {} /\ (\A x \in s : s \ {x} \in P) => s \in P
    PROVE  P = SUBSET S
<1> SUFFICES ASSUME P # SUBSET S PROVE FALSE
    OBVIOUS
<1> DEFINE Rest == (SUBSET S) \ P
<1> DEFINE T == {Cardinality(s) : s \in Rest}
<1>1. Rest # {}
    OBVIOUS
<1>2. \A s \in SUBSET S : IsFiniteSet(s) /\ Cardinality(s) \in Nat
    BY FS_Subset, FS_CardinalityType
<1>3. T \in SUBSET Nat /\ T # {}
    BY <1>1, <1>2
<1>4. PICK m \in T : \A k \in T : m <= k
    BY <1>3, Least
<1>5. PICK s \in Rest : m = Cardinality(s)
    BY <1>4
<1>6. \A x \in s : s \ {x} \in P
    <2> TAKE x \in s
    <2>1. Cardinality(s \ {x}) = m - 1
        BY <1>2, <1>5, FS_RemoveElement
    <2>2. s \ {x} \in SUBSET S
        OBVIOUS
    <2>3. m \in Nat
        BY <1>2, <1>5
    <2>4. ~(m <= m - 1)
        BY <2>3
    <2>5. s \ {x} \notin Rest
        BY <1>4, <2>1, <2>4
    <2> QED BY <2>2, <2>5
<1> QED BY <1>5, <1>6

LEMMA WeighsOnce ==
    ASSUME NEW w, NEW S, IsFiniteSet(S), NEW F, NEW G,
           Weighs(w, S, F), Weighs(w, S, G)
    PROVE  F = G
<1> DEFINE P == {s \in SUBSET S : F[s] = G[s]}
<1>1. {} \in P
    BY DEF Weighs
<1>2. ASSUME NEW s \in SUBSET S, s # {}, \A x \in s : s \ {x} \in P
      PROVE  s \in P
    <2>1. (CHOOSE y \in s : TRUE) \in s
        BY <1>2
    <2>2. PICK c : c = CHOOSE y \in s : TRUE
        OBVIOUS
    <2>3. F[s \ {c}] = G[s \ {c}]
        BY <1>2, <2>1, <2>2
    <2>4. F[s] = w[c] + F[s \ {c}]
        BY <1>2, <2>2, Zenon DEF Weighs
    <2>5. G[s] = w[c] + G[s \ {c}]
        BY <1>2, <2>2, Zenon DEF Weighs
    <2> QED BY <2>3, <2>4, <2>5
<1>3. P = SUBSET S
    <2> HIDE DEF P
    <2>1. P \in SUBSET (SUBSET S)
        BY DEF P
    <2> QED BY <1>1, <1>2, <2>1, SetInduction
<1>4. \A s \in SUBSET S : F[s] = G[s]
    BY <1>3
<1>5. F = [s \in SUBSET S |-> F[s]] /\ G = [s \in SUBSET S |-> G[s]]
    BY Zenon DEF Weighs
<1> QED BY <1>4, <1>5

(* The empty sum, and a sum without the element that CHOOSE takes first. *)
LEMMA SumChosen ==
    ASSUME NEW w, NEW S, IsFiniteSet(S)
    PROVE  /\ Sum(w, {}) = 0
           /\ S # {} => Sum(w, S) = w[CHOOSE y \in S : TRUE]
                                      + Sum(w, S \ {CHOOSE y \in S : TRUE})
<1> DEFINE First(s) == CHOOSE y \in s : TRUE
<1> DEFINE P == {s \in SUBSET S :
                    IF s = {} THEN Sum(w, s) = 0
                    ELSE Sum(w, s) = w[First(s)] + Sum(w, s \ {First(s)})}
<1>f. \A s \in SUBSET S : IsFiniteSet(s)
    BY FS_Subset
<1>0. ASSUME NEW u \in SUBSET S, NEW G, Weighs(w, u, G)
      PROVE  Sum(w, u) = G[u]
    <2>1. Weighs(w, u, CHOOSE F : Weighs(w, u, F))
        BY <1>0
    <2>2. (CHOOSE F : Weighs(w, u, F)) = G
        BY <1>0, <1>f, <2>1, WeighsOnce
    <2> QED BY <2>2 DEF Sum
<1>1. Sum(w, {}) = 0
    <2> DEFINE G == [s \in SUBSET {} |-> 0]
    <2>1. Weighs(w, {}, G)
        BY DEF Weighs
    <2>2. G[{}] = 0
        OBVIOUS
    <2> HIDE DEF G
    <2> QED BY <1>0, <2>1, <2>2
<1>2. ASSUME NEW u \in SUBSET S, u # {}, \A x \in u : u \ {x} \in P,
             \A v \in SUBSET u : v # u => v \in P
      PROVE  u \in P
    <2> DEFINE G == [v \in SUBSET u |->
                       IF v = u THEN w[First(u)] + Sum(w, u \ {First(u)})
                       ELSE Sum(w, v)]
    <2>1. ASSUME NEW v \in SUBSET u
          PROVE  G[v] = IF v = {} THEN 0
                        ELSE w[First(v)] + G[v \ {First(v)}]
        <3>1. v # {} => First(v) \in v
            OBVIOUS
        <3>2. v # {} => v \ {First(v)} \in SUBSET u /\ v \ {First(v)} # u
            BY <3>1
        <3>3. v # {} => G[v \ {First(v)}] = Sum(w, v \ {First(v)})
            BY <3>2
        <3>4. CASE v = u
            BY <1>2, <3>3, <3>4
        <3>5. CASE v # u
            <4>1. v \in P
                BY <1>2, <3>5
            <4>2. G[v] = Sum(w, v)
                BY <3>5
            <4> QED BY <4>1, <4>2, <3>3
        <3> QED BY <3>4, <3>5
    <2>2. G = [v \in SUBSET u |-> G[v]]
        OBVIOUS
    <2>3. Weighs(w, u, G)
        <3> HIDE DEF G
        <3>1. G = [v \in SUBSET u |-> IF v = {} THEN 0
                                     ELSE w[First(v)] + G[v \ {First(v)}]]
            BY <2>1, <2>2
        <3> QED BY <3>1 DEF Weighs
    <2>4. G[u] = w[First(u)] + Sum(w, u \ {First(u)})
        OBVIOUS
    <2>5. Sum(w, u) = G[u]
        <3> HIDE DEF G
        <3> QED BY <1>0, <2>3
    <2> QED BY <1>2, <2>4, <2>5
<1> DEFINE Q == {u \in SUBSET S : \A v \in SUBSET u : v \in P}
<1>3. {} \in Q
    BY <1>1
<1>4. ASSUME NEW u \in SUBSET S, u # {}, \A x \in u : u \ {x} \in Q
      PROVE  u \in Q
    <2>1. \A v \in SUBSET u : v # u => v \in P
        <3> SUFFICES ASSUME NEW v \in SUBSET u, v # u PROVE v \in P
            OBVIOUS
        <3>1. PICK x \in u : x \notin v
            OBVIOUS
        <3>2. v \in SUBSET (u \ {x})
            BY <3>1
        <3>3. u \ {x} \in Q
            BY <1>4
        <3> HIDE DEF P
        <3> QED BY <3>2, <3>3
    <2>2. \A x \in u : u \ {x} \in P
        <3> HIDE DEF P
        <3> QED BY <2>1
    <2>3. u \in P
        <3> HIDE DEF P
        <3> QED BY <1>2, <1>4, <2>1, <2>2
    <2> HIDE DEF P
    <2> QED BY <2>1, <2>3
<1>5. Q = SUBSET S
    <2>1. Q \in SUBSET (SUBSET S)
        OBVIOUS
    <2> HIDE DEF Q
    <2> QED BY <1>3, <1>4, <2>1, SetInduction
<1>6. S \in P
    <2> HIDE DEF P
    <2> QED BY <1>5
<1> QED BY <1>1, <1>6

LEMMA SumEmpty ==
    ASSUME NEW w PROVE Sum(w, {}) = 0
BY SumChosen, FS_EmptySet

LEMMA SumSame ==
    ASSUME NEW S, IsFiniteSet(S), NEW w, NEW v, \A x \in S : w[x] = v[x]
    PROVE  Sum(w, S) = Sum(v, S)
<1> DEFINE P == {s \in SUBSET S : Sum(w, s) = Sum(v, s)}
<1>1. {} \in P
    BY SumEmpty
<1>2. ASSUME NEW s \in SUBSET S, s # {}, \A x \in s : s \ {x} \in P
      PROVE  s \in P
    <2>1. PICK c : c = CHOOSE y \in s : TRUE
        OBVIOUS
    <2>2. c \in s
        BY <1>2, <2>1
    <2>3. IsFiniteSet(s)
        BY FS_Subset
    <2>4. Sum(w, s) = w[c] + Sum(w, s \ {c}) /\ Sum(v, s) = v[c] + Sum(v, s \ {c})
        BY <1>2, <2>1, <2>3, SumChosen
    <2>5. Sum(w, s \ {c}) = Sum(v, s \ {c})
        BY <1>2, <2>2
    <2> QED BY <2>2, <2>4, <2>5
<1>3. P = SUBSET S
    <2>1. P \in SUBSET (SUBSET S)
        OBVIOUS
    <2> HIDE DEF P
    <2> QED BY <1>1, <1>2, <2>1, SetInduction
<1> QED BY <1>3

LEMMA SumType ==
    ASSUME NEW S, IsFiniteSet(S), NEW w, \A x \in S : w[x] \in Int
    PROVE  Sum(w, S) \in Int
<1> DEFINE P == {s \in SUBSET S : Sum(w, s) \in Int}
<1>1. {} \in P
    BY SumEmpty
<1>2. ASSUME NEW s \in SUBSET S, s # {}, \A x \in s : s \ {x} \in P
      PROVE  s \in P
    <2>1. PICK c : c = CHOOSE y \in s : TRUE
        OBVIOUS
    <2>2. c \in s
        BY <1>2, <2>1
    <2>3. IsFiniteSet(s)
        BY FS_Subset
    <2>4. Sum(w, s) = w[c] + Sum(w, s \ {c})
        BY <1>2, <2>1, <2>3, SumChosen
    <2>5. Sum(w, s \ {c}) \in Int /\ w[c] \in Int
        BY <1>2, <2>2
    <2> QED BY <2>4, <2>5
<1>3. P = SUBSET S
    <2>1. P \in SUBSET (SUBSET S)
        OBVIOUS
    <2> HIDE DEF P
    <2> QED BY <1>1, <1>2, <2>1, SetInduction
<1> QED BY <1>3

(* The order of the elements does not matter. *)
LEMMA SumAny ==
    ASSUME NEW S, IsFiniteSet(S), NEW w, \A x \in S : w[x] \in Int, NEW e \in S
    PROVE  Sum(w, S) = w[e] + Sum(w, S \ {e})
<1> DEFINE P == {s \in SUBSET S : \A x \in s : Sum(w, s) = w[x] + Sum(w, s \ {x})}
<1>f. \A s \in SUBSET S : IsFiniteSet(s)
    BY FS_Subset
<1>t. \A s \in SUBSET S : Sum(w, s) \in Int
    BY <1>f, SumType
<1>1. {} \in P
    OBVIOUS
<1>2. ASSUME NEW s \in SUBSET S, s # {}, \A x \in s : s \ {x} \in P
      PROVE  s \in P
    <2>1. PICK c : c = CHOOSE y \in s : TRUE
        OBVIOUS
    <2>2. c \in s
        BY <1>2, <2>1
    <2>3. Sum(w, s) = w[c] + Sum(w, s \ {c})
        BY <1>2, <2>1, <1>f, SumChosen
    <2>4. ASSUME NEW x \in s, x # c
          PROVE  Sum(w, s) = w[x] + Sum(w, s \ {x})
        <3>1. Sum(w, s \ {c}) = w[x] + Sum(w, (s \ {c}) \ {x})
            BY <1>2, <2>2, <2>4
        <3>2. Sum(w, s \ {x}) = w[c] + Sum(w, (s \ {x}) \ {c})
            BY <1>2, <2>2, <2>4
        <3>3. (s \ {c}) \ {x} = (s \ {x}) \ {c}
            OBVIOUS
        <3>4. PICK r : r = Sum(w, (s \ {c}) \ {x})
            OBVIOUS
        <3>5. r \in Int /\ w[x] \in Int /\ w[c] \in Int
            BY <1>t, <2>2, <3>4
        <3>6. Sum(w, s \ {c}) = w[x] + r /\ Sum(w, s \ {x}) = w[c] + r
            BY <3>1, <3>2, <3>3, <3>4
        <3> QED BY <2>3, <3>5, <3>6
    <2> QED BY <2>3, <2>4
<1>3. P = SUBSET S
    <2>1. P \in SUBSET (SUBSET S)
        OBVIOUS
    <2> HIDE DEF P
    <2> QED BY <1>1, <1>2, <2>1, SetInduction
<1> QED BY <1>3

(* Sums over the same elements add up element by element. *)
LEMMA SumPlus ==
    ASSUME NEW S, IsFiniteSet(S), NEW w, NEW v, NEW u,
           \A x \in S : w[x] \in Int /\ v[x] \in Int /\ u[x] = w[x] + v[x]
    PROVE  Sum(u, S) = Sum(w, S) + Sum(v, S)
<1> DEFINE P == {s \in SUBSET S : Sum(u, s) = Sum(w, s) + Sum(v, s)}
<1>f. \A s \in SUBSET S : IsFiniteSet(s)
    BY FS_Subset
<1>1. {} \in P
    BY SumEmpty
<1>2. ASSUME NEW s \in SUBSET S, s # {}, \A x \in s : s \ {x} \in P
      PROVE  s \in P
    <2>1. PICK c \in s : c = CHOOSE y \in s : TRUE
        BY <1>2
    <2>2. /\ Sum(w, s) = w[c] + Sum(w, s \ {c})
          /\ Sum(v, s) = v[c] + Sum(v, s \ {c})
          /\ Sum(u, s) = u[c] + Sum(u, s \ {c})
        <3>1. s # {} /\ IsFiniteSet(s)
            BY <1>2, <1>f
        <3>2. Sum(w, s) = w[c] + Sum(w, s \ {c})
            BY <2>1, <3>1, SumChosen
        <3>3. Sum(v, s) = v[c] + Sum(v, s \ {c})
            BY <2>1, <3>1, SumChosen
        <3>4. Sum(u, s) = u[c] + Sum(u, s \ {c})
            BY <2>1, <3>1, SumChosen
        <3> QED BY <3>2, <3>3, <3>4
    <2>3. Sum(u, s \ {c}) = Sum(w, s \ {c}) + Sum(v, s \ {c})
        BY <1>2
    <2>4. Sum(w, s \ {c}) \in Int /\ Sum(v, s \ {c}) \in Int
        BY <1>f, SumType
    <2>5. w[c] \in Int /\ v[c] \in Int /\ u[c] = w[c] + v[c]
        OBVIOUS
    <2> QED BY <2>2, <2>3, <2>4, <2>5
<1>3. P = SUBSET S
    <2>1. P \in SUBSET (SUBSET S)
        OBVIOUS
    <2> HIDE DEF P
    <2> QED BY <1>1, <1>2, <2>1, SetInduction
<1> QED BY <1>3

(* What weighs nothing adds nothing; what weighs something adds it. *)
LEMMA SumGrows ==
    ASSUME NEW S, IsFiniteSet(S), NEW T \in SUBSET S, NEW w,
           \A x \in S : w[x] \in Int
    PROVE  /\ (\A x \in S \ T : w[x] >= 0) => Sum(w, T) <= Sum(w, S)
           /\ (\A x \in S \ T : w[x] = 0) => Sum(w, T) = Sum(w, S)
<1> DEFINE R == S \ T
<1> DEFINE P == {s \in SUBSET R :
                   /\ (\A x \in R : w[x] >= 0) => Sum(w, T) <= Sum(w, T \cup s)
                   /\ (\A x \in R : w[x] = 0) => Sum(w, T) = Sum(w, T \cup s)}
<1>f. /\ IsFiniteSet(R)
      /\ \A s \in SUBSET R : IsFiniteSet(T \cup s)
    BY FS_Subset
<1>t. \A s \in SUBSET R : Sum(w, T \cup s) \in Int
    BY <1>f, SumType
<1>1. {} \in P
    <2>1. T \cup {} = T
        OBVIOUS
    <2>2. Sum(w, T) \in Int
        BY <1>t, <2>1
    <2> QED BY <2>1, <2>2
<1>2. ASSUME NEW s \in SUBSET R, s # {}, \A x \in s : s \ {x} \in P
      PROVE  s \in P
    <2>1. PICK c \in s : TRUE
        BY <1>2
    <2>2. (T \cup s) \ {c} = T \cup (s \ {c})
        OBVIOUS
    <2>3. \A x \in T \cup s : w[x] \in Int
        OBVIOUS
    <2>4. Sum(w, T \cup s) = w[c] + Sum(w, T \cup (s \ {c}))
        <3>1. PICK u : u = T \cup s
            OBVIOUS
        <3>2. IsFiniteSet(u) /\ c \in u /\ \A x \in u : w[x] \in Int
            BY <1>f, <2>3, <3>1
        <3>3. Sum(w, u) = w[c] + Sum(w, u \ {c})
            BY <3>2, SumAny
        <3> QED BY <2>2, <3>1, <3>3
    <2>5. Sum(w, T) \in Int /\ Sum(w, T \cup (s \ {c})) \in Int /\ w[c] \in Int
        <3>1. Sum(w, T \cup {}) \in Int
            BY <1>t
        <3>2. T \cup {} = T
            OBVIOUS
        <3> QED BY <1>t, <3>1, <3>2
    <2>6. s \ {c} \in P
        BY <1>2
    <2> QED BY <2>4, <2>5, <2>6
<1>3. P = SUBSET R
    <2>1. P \in SUBSET (SUBSET R)
        OBVIOUS
    <2> HIDE DEF P, R
    <2> QED BY <1>1, <1>2, <1>f, <2>1, SetInduction
<1>4. R \in P
    BY <1>3
<1>5. T \cup R = S
    OBVIOUS
<1> QED BY <1>4, <1>5

LEMMA SumPoint ==
    ASSUME NEW S, IsFiniteSet(S), NEW w, NEW e \in S, w[e] \in Int,
           \A x \in S : x # e => w[x] = 0
    PROVE  Sum(w, S) = w[e]
<1>1. \A x \in S : w[x] \in Int
    OBVIOUS
<1>2. Sum(w, {e}) = Sum(w, S)
    BY <1>1, SumGrows
<1>3. Sum(w, {e}) = w[e] + Sum(w, {e} \ {e})
    BY SumAny, FS_Singleton
<1>4. {e} \ {e} = {}
    OBVIOUS
<1> QED BY <1>2, <1>3, <1>4, SumEmpty

LEMMA SumNothing ==
    ASSUME NEW S, IsFiniteSet(S), NEW w, \A x \in S : w[x] = 0
    PROVE  Sum(w, S) = 0
<1>1. Sum(w, {}) = Sum(w, S)
    BY SumGrows
<1> QED BY <1>1, SumEmpty

(* A table sums to the same by rows and by columns. *)
LEMMA SumSwap ==
    ASSUME NEW A, IsFiniteSet(A), NEW B, IsFiniteSet(B),
           NEW m, \A a \in A, b \in B : m[a][b] \in Int
    PROVE  Sum([a \in A |-> Sum(m[a], B)], A)
             = Sum([b \in B |-> Sum([a \in A |-> m[a][b]], A)], B)
<1> DEFINE Row == [a \in A |-> Sum(m[a], B)]
<1> DEFINE Col(b) == [a \in A |-> m[a][b]]
<1> DEFINE Cols(s) == [b \in B |-> Sum(Col(b), s)]
<1> DEFINE P == {s \in SUBSET A : Sum(Row, s) = Sum(Cols(s), B)}
<1>f. \A s \in SUBSET A : IsFiniteSet(s)
    BY FS_Subset
<1>1. {} \in P
    <2>1. \A b \in B : Cols({})[b] = 0
        BY SumEmpty
    <2>2. Sum(Cols({}), B) = 0
        <3> HIDE DEF Cols
        <3> QED BY <2>1, SumNothing
    <2> QED BY <2>2, SumEmpty
<1>2. ASSUME NEW s \in SUBSET A, s # {}, \A x \in s : s \ {x} \in P
      PROVE  s \in P
    <2>1. PICK c \in s : TRUE
        BY <1>2
    <2>2. \A a \in A : Row[a] \in Int
        <3> TAKE a \in A
        <3>1. Sum(m[a], B) \in Int
            BY SumType
        <3> QED BY <3>1
    <2>3. Sum(Row, s) = Row[c] + Sum(Row, s \ {c})
        <3> HIDE DEF Row
        <3> QED BY <1>f, <2>2, SumAny
    <2>4. \A b \in B : /\ Sum(Col(b), s) = m[c][b] + Sum(Col(b), s \ {c})
                       /\ Sum(Col(b), s \ {c}) \in Int
        <3> TAKE b \in B
        <3>1. \A a \in A : Col(b)[a] \in Int
            OBVIOUS
        <3>2. Col(b)[c] = m[c][b]
            OBVIOUS
        <3> HIDE DEF Col
        <3>3. Sum(Col(b), s) = Col(b)[c] + Sum(Col(b), s \ {c})
            BY <1>f, <3>1, SumAny
        <3>4. Sum(Col(b), s \ {c}) \in Int
            BY <1>f, <3>1, SumType
        <3> QED BY <3>2, <3>3, <3>4
    <2>5. Sum(Cols(s), B) = Sum(m[c], B) + Sum(Cols(s \ {c}), B)
        <3>1. \A b \in B : /\ m[c][b] \in Int /\ Cols(s \ {c})[b] \in Int
                           /\ Cols(s)[b] = m[c][b] + Cols(s \ {c})[b]
            BY <2>4
        <3> HIDE DEF Cols
        <3> QED BY <3>1, SumPlus
    <2>6. Sum(Row, s \ {c}) = Sum(Cols(s \ {c}), B)
        BY <1>2
    <2>7. Row[c] = Sum(m[c], B)
        OBVIOUS
    <2> HIDE DEF Row, Cols
    <2> QED BY <2>3, <2>5, <2>6, <2>7
<1>3. P = SUBSET A
    <2>1. P \in SUBSET (SUBSET A)
        OBVIOUS
    <2> HIDE DEF P
    <2> QED BY <1>1, <1>2, <1>f, <2>1, SetInduction
<1>4. A \in P
    <2> HIDE DEF P
    <2> QED BY <1>3
<1> QED BY <1>4

-----------------------------------------------------------------------------
(* Balances. *)

(* The effect of each transaction of a window on one account. *)
EffectsOn(d, a) == [t \in d.win |-> Effect(t, a)]

(* The part of a balance that a checkpoint carries. *)
Refounded(d, a) == IF Listed(d.cp, a) THEN d.cp.dir[a].balance ELSE 0

LEMMA RawBalanceIsSum ==
    ASSUME NEW d, IsFiniteSet(d.win), NEW a
    PROVE  RawBalance(d, a) = Refounded(d, a) + Sum(EffectsOn(d, a), Registry(d))
<1> DEFINE S == Registry(d)
           w == EffectsOn(d, a)
           Fold(F) == F = [s \in SUBSET S |->
                             IF s = {} THEN 0
                             ELSE LET x == CHOOSE y \in s : TRUE
                                  IN  Effect(x, a) + F[s \ {x}]]
<1>1. \A t \in S : w[t] = Effect(t, a)
  BY DEF Registry, EffectsOn
<1> HIDE DEF S, w
<1>2. ASSUME NEW F PROVE Fold(F) <=> Weighs(w, S, F)
  BY <1>1 DEF Weighs
<1>3. (CHOOSE F : Fold(F)) = (CHOOSE F : Weighs(w, S, F))
  <2> HIDE DEF Fold
  <2> QED BY <1>2
<1>4. (CHOOSE F : Fold(F))[S] = Sum(w, S)
  <2> HIDE DEF Fold
  <2> QED BY <1>3 DEF Sum
<1>5. RawBalance(d, a) = Refounded(d, a) + (CHOOSE F : Fold(F))[S]
  BY DEF RawBalance, Refounded, MapThenSumSet, MapThenFoldSet, S
<1> QED BY <1>4, <1>5 DEF S, w

LEMMA RawBalanceType ==
    ASSUME NEW d \in Dag, IsFiniteSet(d.win), NEW a \in Account
    PROVE  RawBalance(d, a) \in Int
<1>1. Registry(d) \subseteq d.win /\ Registry(d) \subseteq Tx
  BY DEF Dag, Registry
<1>2. \A t \in Registry(d) : EffectsOn(d, a)[t] \in Int
  <2> SUFFICES ASSUME NEW t \in Registry(d) PROVE Effect(t, a) \in Int
    BY <1>1 DEF EffectsOn
  <2>1. t.amount \in Nat /\ t.fee \in Nat /\ t.type \in {"MINT", "CLAIM", "TRANSFER"}
    BY <1>1 DEF Tx, TxType
  <2> QED BY <2>1 DEF Effect
<1>3. IsFiniteSet(Registry(d))
  BY <1>1, FS_Subset
<1>4. Sum(EffectsOn(d, a), Registry(d)) \in Int
  BY <1>2, <1>3, SumType
<1>5. Refounded(d, a) \in Int
  BY LedgerAssumption DEF Refounded, Dag, Horizon, Entry
<1> QED BY <1>4, <1>5, RawBalanceIsSum

(* What a transaction adds to the supply, and a checkpoint to start with. *)
MintedBy(d) ==
    [t \in d.win |-> IF \/ t.type = "MINT" /\ IsMintAuthority(t.from)
                        \/ ClaimValid(t)
                     THEN t.amount ELSE 0]

Carried(d) == [a \in d.cp.accounts |-> d.cp.dir[a].balance]

LEMMA TotalMintedIsSum ==
    ASSUME NEW d \in Dag, IsFiniteSet(d.win), IsFiniteSet(Account)
    PROVE  TotalMinted(d) = Sum(Carried(d), d.cp.accounts)
                              + Sum(MintedBy(d), Registry(d))
<1> DEFINE A == d.cp.accounts
           S == Registry(d)
           Minted(t) == IF \/ t.type = "MINT" /\ IsMintAuthority(t.from)
                           \/ ClaimValid(t)
                        THEN t.amount ELSE 0
           FoldA(F) == F = [s \in SUBSET A |->
                             IF s = {} THEN 0
                             ELSE LET x == CHOOSE y \in s : TRUE
                                  IN  d.cp.dir[x].balance + F[s \ {x}]]
           FoldS(F) == F = [s \in SUBSET S |->
                             IF s = {} THEN 0
                             ELSE LET x == CHOOSE y \in s : TRUE
                                  IN  Minted(x) + F[s \ {x}]]
<1>1. /\ \A a \in A : Carried(d)[a] = d.cp.dir[a].balance
      /\ \A t \in S : MintedBy(d)[t] = Minted(t)
  BY DEF Registry, Carried, MintedBy
<1>2. TotalMinted(d) = (CHOOSE F : FoldA(F))[A] + (CHOOSE F : FoldS(F))[S]
  BY DEF TotalMinted, MapThenSumSet, MapThenFoldSet
<1> HIDE DEF A, S, Minted
<1>3. ASSUME NEW F PROVE FoldA(F) <=> Weighs(Carried(d), A, F)
  BY <1>1 DEF Weighs
<1>4. ASSUME NEW F PROVE FoldS(F) <=> Weighs(MintedBy(d), S, F)
  BY <1>1 DEF Weighs
<1> HIDE DEF FoldA, FoldS
<1>5. /\ (CHOOSE F : FoldA(F)) = (CHOOSE F : Weighs(Carried(d), A, F))
      /\ (CHOOSE F : FoldS(F)) = (CHOOSE F : Weighs(MintedBy(d), S, F))
  BY <1>3, <1>4
<1>6. /\ (CHOOSE F : FoldA(F))[A] = Sum(Carried(d), A)
      /\ (CHOOSE F : FoldS(F))[S] = Sum(MintedBy(d), S)
  BY <1>5 DEF Sum
<1> QED BY <1>2, <1>6 DEF A, S

(* What a transaction does to all the accounts together is what it mints. *)
LEMMA EffectsOfOne ==
    ASSUME NEW t \in Tx, IsFiniteSet(Account)
    PROVE  Sum([a \in Account |-> Effect(t, a)], Account)
             = IF \/ t.type = "MINT" /\ IsMintAuthority(t.from)
                  \/ ClaimValid(t)
               THEN t.amount ELSE 0
<1> DEFINE w == [a \in Account |-> Effect(t, a)]
<1>0. /\ t.amount \in Nat /\ t.fee \in Nat /\ t.from \in Account /\ t.to \in Account
      /\ t.type \in {"MINT", "CLAIM", "TRANSFER"} /\ Founder \in Account
  BY LedgerAssumption DEF Tx, TxType
<1>1. CASE t.type \in {"MINT", "CLAIM"}
  <2> DEFINE m == IF \/ t.type = "MINT" /\ IsMintAuthority(t.from)
                     \/ ClaimValid(t)
                  THEN t.amount ELSE 0
  <2>1. \A a \in Account : w[a] = IF a = t.to THEN m ELSE 0
    BY <1>0, <1>1 DEF Effect, ClaimValid
  <2>2. m \in Int
    BY <1>0
  <2> HIDE DEF w, m
  <2>3. w[t.to] = m /\ \A a \in Account : a # t.to => w[a] = 0
    BY <1>0, <2>1
  <2>4. Sum(w, Account) = w[t.to]
    BY <1>0, <2>2, <2>3, SumPoint
  <2> QED BY <2>3, <2>4 DEF w, m
<1>2. CASE t.type = "TRANSFER"
  <2> DEFINE got  == [a \in Account |-> IF a = t.to THEN t.amount ELSE 0]
             paid == [a \in Account |-> IF a = t.from THEN -(t.amount + t.fee) ELSE 0]
             fees == [a \in Account |-> IF a = Founder THEN t.fee ELSE 0]
             net  == [a \in Account |-> got[a] + paid[a]]
  <2>1. \A a \in Account : /\ got[a] \in Int /\ paid[a] \in Int /\ fees[a] \in Int
                           /\ net[a] \in Int
                           /\ net[a] = got[a] + paid[a]
                           /\ w[a] = net[a] + fees[a]
    BY <1>0, <1>2 DEF Effect
  <2>2. /\ got[t.to] = t.amount /\ \A a \in Account : a # t.to => got[a] = 0
        /\ paid[t.from] = -(t.amount + t.fee) /\ \A a \in Account : a # t.from => paid[a] = 0
        /\ fees[Founder] = t.fee /\ \A a \in Account : a # Founder => fees[a] = 0
    BY <1>0
  <2> HIDE DEF w, got, paid, fees, net
  <2>3. Sum(got, Account) = t.amount
    BY <1>0, <2>1, <2>2, SumPoint
  <2>4. Sum(paid, Account) = -(t.amount + t.fee)
    BY <1>0, <2>1, <2>2, SumPoint
  <2>5. Sum(fees, Account) = t.fee
    BY <1>0, <2>1, <2>2, SumPoint
  <2>6. Sum(net, Account) = Sum(got, Account) + Sum(paid, Account)
    BY <2>1, SumPlus
  <2>7. Sum(w, Account) = Sum(net, Account) + Sum(fees, Account)
    BY <2>1, SumPlus
  <2>8. Sum(w, Account) = 0
    BY <1>0, <2>3, <2>4, <2>5, <2>6, <2>7
  <2> QED BY <1>2, <2>8 DEF w, ClaimValid
<1> QED BY <1>0, <1>1, <1>2

(* The genesis state lists nobody. *)
Sound(cp) == cp.gen = 0 => cp.accounts = {}

LEMMA Balanced ==
    ASSUME NEW d \in Dag, IsFiniteSet(d.win), IsFiniteSet(Account), Sound(d.cp)
    PROVE  Sum([a \in Account |-> RawBalance(d, a)], Account) = TotalMinted(d)
<1> DEFINE S == Registry(d)
           raw  == [a \in Account |-> RawBalance(d, a)]
           base == [a \in Account |-> Refounded(d, a)]
           m    == [a \in Account |-> EffectsOn(d, a)]
           flow == [a \in Account |-> Sum(m[a], S)]
           per  == [t \in S |-> Sum([a \in Account |-> m[a][t]], Account)]
<1>1. /\ IsFiniteSet(S) /\ S \subseteq Tx /\ S \subseteq d.win
      /\ d.cp.accounts \subseteq Account /\ IsFiniteSet(d.cp.accounts)
      /\ \A a \in Account : d.cp.dir[a].balance \in Nat
  <2>1. S \in SUBSET d.win /\ S \subseteq Tx
    BY DEF Dag, Registry
  <2>2. d.cp.accounts \in SUBSET Account
    BY DEF Dag, Horizon
  <2>3. \A a \in Account : d.cp.dir[a].balance \in Nat
    BY LedgerAssumption DEF Dag, Horizon, Entry
  <2> QED BY <2>1, <2>2, <2>3, FS_Subset
<1>2. \A t \in S, a \in Account : /\ Effect(t, a) \in Int /\ m[a][t] = Effect(t, a)
  <2> SUFFICES ASSUME NEW t \in S, NEW a \in Account
               PROVE  Effect(t, a) \in Int /\ m[a][t] = Effect(t, a)
    OBVIOUS
  <2>1. /\ t \in Tx /\ t.amount \in Nat /\ t.fee \in Nat
        /\ t.type \in {"MINT", "CLAIM", "TRANSFER"}
    BY <1>1 DEF Tx, TxType
  <2>2. Effect(t, a) \in Int
    BY <2>1 DEF Effect
  <2> QED BY <1>1, <2>2 DEF EffectsOn
<1>3. Sum(raw, Account) = Sum(base, Account) + Sum(flow, Account)
  <2>1. ASSUME NEW a \in Account
        PROVE  base[a] \in Int /\ flow[a] \in Int /\ raw[a] = base[a] + flow[a]
    <3>1. RawBalance(d, a) = Refounded(d, a) + Sum(EffectsOn(d, a), S)
      BY RawBalanceIsSum
    <3>2. Refounded(d, a) \in Int
      BY <1>1 DEF Refounded
    <3>3. \A t \in S : EffectsOn(d, a)[t] \in Int
      BY <1>2
    <3>4. Sum(EffectsOn(d, a), S) \in Int
      <4> HIDE DEF S
      <4> QED BY <1>1, <3>3, SumType
    <3> QED BY <3>1, <3>2, <3>4
  <2> HIDE DEF raw, base, flow
  <2> QED BY <2>1, SumPlus
<1>4. Sum(flow, Account) = Sum(per, S)
  <2>1. \A a \in Account, t \in S : m[a][t] \in Int
    BY <1>2
  <2> HIDE DEF m, S
  <2> QED BY <1>1, <2>1, SumSwap
<1>5. Sum(per, S) = Sum(MintedBy(d), S)
  <2>1. ASSUME NEW t \in S PROVE per[t] = MintedBy(d)[t]
    <3>1. \A a \in Account : m[a][t] = Effect(t, a)
      BY <1>2
    <3>2. [a \in Account |-> m[a][t]] = [a \in Account |-> Effect(t, a)]
      <4> HIDE DEF m
      <4> QED BY <3>1
    <3>3. per[t] = Sum([a \in Account |-> Effect(t, a)], Account)
      <4> HIDE DEF m
      <4> QED BY <3>2
    <3>4. t \in Tx /\ t \in d.win
      BY <1>1
    <3> QED BY <3>3, <3>4, EffectsOfOne DEF MintedBy
  <2> HIDE DEF per, S
  <2> QED BY <1>1, <2>1, SumSame
<1>6. Sum(base, Account) = Sum(Carried(d), d.cp.accounts)
  <2>1. \A a \in Account : base[a] \in Int
    BY <1>1 DEF Refounded
  <2>2. \A a \in Account \ d.cp.accounts : base[a] = 0
    BY DEF Refounded, Listed
  <2>3. \A a \in d.cp.accounts : base[a] = Carried(d)[a]
    BY <1>1 DEF Refounded, Listed, Carried, Sound
  <2> HIDE DEF base
  <2>4. Sum(base, d.cp.accounts) = Sum(base, Account)
    BY <1>1, <2>1, <2>2, SumGrows
  <2>5. Sum(base, d.cp.accounts) = Sum(Carried(d), d.cp.accounts)
    BY <1>1, <2>3, SumSame
  <2> QED BY <2>4, <2>5
<1> QED BY <1>3, <1>4, <1>5, <1>6, TotalMintedIsSum

-----------------------------------------------------------------------------
(* A window without a checkpoint. *)
Flat(win) == [win |-> win, cp |-> NoCheckpoint]

LEMMA EffectType ==
    ASSUME NEW t \in Tx, NEW a \in Account
    PROVE  /\ Effect(t, a) \in Int
           /\ \/ t.type = "TRANSFER" /\ t.from = a
              \/ Effect(t, a) >= 0
<1>1. /\ t.amount \in Nat /\ t.fee \in Nat /\ t.type \in {"MINT", "CLAIM", "TRANSFER"}
  BY DEF Tx, TxType
<1> QED BY <1>1 DEF Effect

LEMMA FlatBalance ==
    ASSUME NEW win \in SUBSET Tx, IsFiniteSet(win), NEW a \in Account
    PROVE  /\ RawBalance(Flat(win), a) = Sum(EffectsOn(Flat(win), a), Registry(Flat(win)))
           /\ RawBalance(Flat(win), a) \in Int
<1> DEFINE d == Flat(win)
           w == EffectsOn(d, a)
           S == Registry(d)
<1>1. d.win = win /\ d.cp.gen = 0
  BY DEF Flat, NoCheckpoint
<1>2. Refounded(d, a) = 0
  BY <1>1 DEF Refounded, Listed
<1>3. RawBalance(d, a) = 0 + Sum(w, S)
  BY <1>1, <1>2, RawBalanceIsSum
<1>4. IsFiniteSet(S) /\ \A t \in S : w[t] \in Int
  <2>1. S \in SUBSET win
    BY <1>1 DEF Registry
  <2>2. IsFiniteSet(S)
    <3> HIDE DEF S
    <3> QED BY <2>1, FS_Subset
  <2> QED BY <1>1, <2>1, <2>2, EffectType DEF EffectsOn
<1>5. Sum(w, S) \in Int
  <2> HIDE DEF w, S
  <2> QED BY <1>4, SumType
<1> QED BY <1>3, <1>5

(* More transactions, none of them a payment of one's own, is no less. *)
LEMMA Richer ==
    ASSUME NEW big \in SUBSET Tx, IsFiniteSet(big), NEW small \in SUBSET big,
           NEW a \in Account,
           \A t \in big \ small : ~(t.type = "TRANSFER" /\ t.from = a)
    PROVE  RawBalance(Flat(small), a) <= RawBalance(Flat(big), a)
<1> DEFINE w == EffectsOn(Flat(big), a)
           v == EffectsOn(Flat(small), a)
           S == Registry(Flat(big))
           T == Registry(Flat(small))
<1>1. /\ S \in SUBSET big /\ T \in SUBSET small /\ T \in SUBSET S
      /\ S \ T \subseteq big \ small
  BY DEF Registry, Flat
<1>2. IsFiniteSet(small)
  BY FS_Subset
<1>3. IsFiniteSet(S) /\ IsFiniteSet(T)
  <2> HIDE DEF S, T
  <2> QED BY <1>1, <1>2, FS_Subset
<1>4. \A t \in S : w[t] = Effect(t, a) /\ t \in Tx
  BY <1>1 DEF EffectsOn, Flat
<1>5. \A t \in T : v[t] = w[t]
  BY <1>1 DEF EffectsOn, Flat
<1>6. \A t \in S : w[t] \in Int
  BY <1>4, EffectType
<1>7. \A t \in S \ T : w[t] >= 0
  BY <1>1, <1>4, EffectType
<1> HIDE DEF w, v, S, T
<1>8. Sum(w, T) <= Sum(w, S)
  BY <1>1, <1>3, <1>6, <1>7, SumGrows
<1>9. Sum(v, T) = Sum(w, T)
  BY <1>3, <1>5, SumSame
<1> QED
  BY <1>2, <1>8, <1>9, FlatBalance DEF w, v, S, T

(* One more transaction of the registry has its effect. *)
LEMMA OneMore ==
    ASSUME NEW win \in SUBSET Tx, IsFiniteSet(win), NEW t \in Tx \ win,
           t.cur = Currency, NEW a \in Account
    PROVE  RawBalance(Flat(win \cup {t}), a) = RawBalance(Flat(win), a) + Effect(t, a)
<1> DEFINE big == win \cup {t}
           w == EffectsOn(Flat(big), a)
           v == EffectsOn(Flat(win), a)
           S == Registry(Flat(big))
           T == Registry(Flat(win))
<1>1. S \in SUBSET big /\ T \in SUBSET win /\ t \in S /\ T = S \ {t}
  BY DEF Registry, Flat
<1>2. IsFiniteSet(big)
  BY FS_AddElement
<1>3. IsFiniteSet(S) /\ IsFiniteSet(T)
  <2> HIDE DEF S, T, big
  <2> QED BY <1>1, <1>2, FS_Subset
<1>4. \A u \in S : w[u] = Effect(u, a) /\ u \in Tx
  BY <1>1 DEF EffectsOn, Flat
<1>5. \A u \in T : v[u] = w[u]
  BY <1>1 DEF EffectsOn, Flat
<1>6. \A u \in S : w[u] \in Int
  BY <1>4, EffectType
<1>7. big \in SUBSET Tx
  OBVIOUS
<1> HIDE DEF w, v, S, T
<1>8. Sum(w, S) = w[t] + Sum(w, S \ {t})
  BY <1>1, <1>3, <1>6, SumAny
<1>9. Sum(v, T) = Sum(w, T) /\ w[t] = Effect(t, a) /\ w[t] \in Int
  BY <1>1, <1>3, <1>4, <1>5, <1>6, SumSame
<1> HIDE DEF big
<1>10. RawBalance(Flat(win), a) = Sum(v, T) /\ RawBalance(Flat(win), a) \in Int
  BY FlatBalance DEF v, T
<1>11. RawBalance(Flat(big), a) = Sum(w, S)
  BY <1>2, <1>7, FlatBalance DEF w, S
<1>12. RawBalance(Flat(big), a) = RawBalance(Flat(win), a) + Effect(t, a)
  BY <1>1, <1>8, <1>9, <1>10, <1>11
<1> QED BY <1>12 DEF big

=============================================================================
