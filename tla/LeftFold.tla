------------------------------ MODULE LeftFold ------------------------------
(***************************************************************************)
(* What a left fold of a sequence computes, for a sequence of any length   *)
(* and any step.  The loops of the code are folds here (the list of an     *)
(* order, the adapters of the validation script), so what is proved of     *)
(* them rests on this module.  The step is a CONSTANT: a module that has   *)
(* a fold to reason about instantiates this one with its own.              *)
(*                                                                         *)
(* Induction is had from the library's theorem that a nonempty subset of a *)
(* well-founded set has a minimal member, the naturals being one.          *)
(***************************************************************************)
EXTENDS Integers, SequencesExt, WellFoundedInduction, TLAPS

CONSTANT Step(_, _)

----------------------------------------------------------------------------
(* A nonempty set of natural numbers has a least member.                   *)
LEMMA LeastNumber ==
    ASSUME NEW T \in SUBSET Nat, T # {}
    PROVE  \E n \in T : \A m \in T : n <= m
  <1> DEFINE R == OpToRel(<, Nat)
  <1>1. IsWellFoundedOn(R, Nat)
    BY NatLessThanWellFounded
  <1>2. \A m, n \in Nat : m < n => <<m, n>> \in R
    BY DEF OpToRel
  <1> HIDE DEF R
  <1>3. PICK n \in T : \A m \in T : <<m, n>> \notin R
    BY <1>1, WFMin
  <1>4. ASSUME NEW m \in T PROVE n <= m
    <2>1. n \in Nat /\ m \in Nat
      OBVIOUS
    <2>2. ~ (m < n)
      BY <1>2, <1>3, <2>1
    <2> QED BY <2>1, <2>2
  <1> QED BY <1>4

(* A set that holds 0 and the successors of what it holds holds them all.  *)
LEMMA Induction ==
    ASSUME NEW S, 0 \in S, \A n \in Nat : n \in S => n + 1 \in S
    PROVE  Nat \subseteq S
  <1>1. SUFFICES ASSUME Nat \ S # {} PROVE FALSE
    OBVIOUS
  <1>2. PICK n \in Nat \ S : \A m \in Nat \ S : n <= m
    BY <1>1, LeastNumber
  <1>3. n - 1 \in Nat /\ n - 1 \in S
    BY <1>2
  <1> QED BY <1>2, <1>3

(* One sequence after another.                                             *)
IsList(s, n) == s = [k \in 1 .. n |-> s[k]]

IsJoined(z, s, m, t, n) ==
    /\ DOMAIN z = 1 .. m + n /\ Len(z) = m + n
    /\ \A k \in 1 .. m : z[k] = s[k]
    /\ \A k \in 1 .. n : z[m + k] = t[k]

LEMMA Joined ==
    ASSUME NEW s, NEW t, NEW m \in Nat, NEW n \in Nat, IsList(s, m), IsList(t, n)
    PROVE  IsJoined(s \o t, s, m, t, n)
  <1> USE DEF IsList
  <1> DEFINE S == {s[k] : k \in 1 .. m} \cup {t[k] : k \in 1 .. n}
  <1>1. s \in Seq(S) /\ t \in Seq(S)
    <2>1. (\A k \in 1 .. m : s[k] \in S) /\ (\A k \in 1 .. n : t[k] \in S)
      OBVIOUS
    <2> HIDE DEF S
    <2>2. [k \in 1 .. m |-> s[k]] \in Seq(S)
      BY <2>1
    <2>3. [k \in 1 .. n |-> t[k]] \in Seq(S)
      BY <2>1
    <2> QED BY <2>2, <2>3
  <1> HIDE DEF S
  <1>2. Len(s) = m /\ Len(t) = n
    <2>1. DOMAIN s = 1 .. m /\ DOMAIN t = 1 .. n
      OBVIOUS
    <2> QED BY <1>1, <2>1
  <1>3. Len(s \o t) = m + n
    BY <1>1, <1>2
  <1>4. s \o t \in Seq(S)
    BY <1>1
  <1>5. DOMAIN (s \o t) = 1 .. m + n
    BY <1>3, <1>4
  <1>6. \A k \in 1 .. m : (s \o t)[k] = s[k]
    BY <1>1, <1>2
  <1>7. ASSUME NEW k \in 1 .. n PROVE (s \o t)[m + k] = t[k]
    <2>1. m + k \in 1 .. m + n /\ ~ (m + k <= m) /\ (m + k) - m = k
      OBVIOUS
    <2> QED BY <1>1, <1>2, <2>1
  <1> QED BY <1>3, <1>5, <1>6, <1>7 DEF IsJoined

----------------------------------------------------------------------------
(* The values a fold goes through that skips the positions outside T.      *)
IsTrace(f, base, s, T, n) ==
    /\ f[0] = base
    /\ \A k \in 1 .. n : f[k] = IF k \in T THEN Step(f[k - 1], s[k]) ELSE f[k - 1]

(* A loop can always take one more step.                                   *)
LEMMA TraceExists ==
    ASSUME NEW base, NEW s, NEW T, NEW n \in Nat
    PROVE  \E f : IsTrace(f, base, s, T, n)
  <1> DEFINE S == {k \in Nat : \E f : IsTrace(f, base, s, T, k)}
  <1>1. 0 \in S
    <2>1. IsTrace([k \in 0 .. 0 |-> base], base, s, T, 0)
      BY DEF IsTrace
    <2> QED BY <2>1
  <1>2. ASSUME NEW k \in Nat, k \in S PROVE k + 1 \in S
    <2>1. PICK f : IsTrace(f, base, s, T, k)
      BY <1>2
    <2> DEFINE last == IF k + 1 \in T THEN Step(f[k], s[k + 1]) ELSE f[k]
               g == [i \in 0 .. k + 1 |-> IF i = k + 1 THEN last ELSE f[i]]
    <2>2. g[k + 1] = last /\ \A i \in 0 .. k : g[i] = f[i]
      OBVIOUS
    <2> HIDE DEF g
    <2>3. g[0] = base
      BY <2>1, <2>2 DEF IsTrace
    <2>4. ASSUME NEW i \in 1 .. k + 1
          PROVE  g[i] = IF i \in T THEN Step(g[i - 1], s[i]) ELSE g[i - 1]
      <3>1. CASE i = k + 1
        <4>1. i - 1 = k /\ g[i - 1] = f[k]
          BY <2>2, <3>1
        <4> QED BY <2>2, <3>1, <4>1
      <3>2. CASE i \in 1 .. k
        <4>1. g[i] = f[i] /\ g[i - 1] = f[i - 1]
          BY <2>2, <3>2
        <4> QED BY <2>1, <3>2, <4>1 DEF IsTrace
      <3> QED BY <3>1, <3>2
    <2>5. IsTrace(g, base, s, T, k + 1)
      BY <2>3, <2>4 DEF IsTrace
    <2> QED BY <2>5
  <1> HIDE DEF S
  <1>3. Nat \subseteq S
    BY <1>1, <1>2, Induction
  <1> QED BY <1>3 DEF S

(* Two folds that meet the same elements go through the same values.       *)
LEMMA TraceUnique ==
    ASSUME NEW base, NEW n \in Nat, NEW f, NEW g, NEW s, NEW z, NEW T, NEW U,
           IsTrace(f, base, s, T, n), IsTrace(g, base, z, U, n),
           \A k \in 1 .. n : k \in T <=> k \in U,
           \A k \in 1 .. n : s[k] = z[k]
    PROVE  f[n] = g[n]
  <1> DEFINE S == {k \in Nat : k <= n => f[k] = g[k]}
  <1>1. 0 \in S
    BY DEF IsTrace
  <1>2. ASSUME NEW k \in Nat, k \in S PROVE k + 1 \in S
    <2>1. SUFFICES ASSUME k + 1 <= n PROVE f[k + 1] = g[k + 1]
      OBVIOUS
    <2>2. k + 1 \in 1 .. n /\ (k + 1) - 1 = k /\ f[k] = g[k]
      BY <1>2, <2>1
    <2>3. f[k + 1] = IF k + 1 \in T THEN Step(f[k], s[k + 1]) ELSE f[k]
      BY <2>2 DEF IsTrace
    <2>4. g[k + 1] = IF k + 1 \in U THEN Step(g[k], z[k + 1]) ELSE g[k]
      BY <2>2 DEF IsTrace
    <2> QED BY <2>2, <2>3, <2>4
  <1> HIDE DEF S
  <1>3. Nat \subseteq S
    BY <1>1, <1>2, Induction
  <1> QED BY <1>3 DEF S

(* Nothing happens where no element is taken.                              *)
LEMMA TraceIdle ==
    ASSUME NEW base, NEW n \in Nat, NEW m \in 0 .. n, NEW f, NEW s, NEW T,
           IsTrace(f, base, s, T, n), \A k \in m + 1 .. n : k \notin T
    PROVE  f[n] = f[m]
  <1> DEFINE S == {k \in Nat : m + k <= n => f[m + k] = f[m]}
  <1>1. 0 \in S
    OBVIOUS
  <1>2. ASSUME NEW k \in Nat, k \in S PROVE k + 1 \in S
    <2>1. SUFFICES ASSUME m + (k + 1) <= n PROVE f[m + (k + 1)] = f[m]
      OBVIOUS
    <2> DEFINE i == m + (k + 1)
    <2>2. i \in 1 .. n /\ i \in m + 1 .. n /\ i - 1 = m + k /\ f[m + k] = f[m]
      BY <1>2, <2>1
    <2> HIDE DEF i
    <2>3. f[i] = f[i - 1]
      BY <2>2 DEF IsTrace
    <2> QED BY <2>2, <2>3 DEF i
  <1> HIDE DEF S
  <1>3. n - m \in S
    BY <1>1, <1>2, Induction
  <1> QED BY <1>3 DEF S

----------------------------------------------------------------------------
(* Max, by which FoldLeft takes the last element, is what it says.         *)
LEMMA LargestNumber ==
    ASSUME NEW n \in Nat, NEW T \in SUBSET (1 .. n), T # {}
    PROVE  Max(T) \in T /\ \A k \in T : k <= Max(T)
  <1> DEFINE U == {n - k : k \in T}
  <1>1. U \in SUBSET Nat /\ U # {}
    OBVIOUS
  <1> HIDE DEF U
  <1>2. PICK u \in U : \A k \in U : u <= k
    BY <1>1, LeastNumber
  <1>3. PICK m \in T : u = n - m
    BY <1>2 DEF U
  <1>4. ASSUME NEW k \in T PROVE m >= k
    <2>1. n - k \in U
      BY DEF U
    <2>2. n - m <= n - k
      BY <1>2, <1>3, <2>1
    <2> QED BY <2>2
  <1>5. Max(T) \in T /\ \A k \in T : Max(T) >= k
    BY <1>4 DEF Max
  <1> QED BY <1>5

(* The recursion FoldLeft is defined by has a solution.                    *)
Iter(base, s, it) ==
    it = [T \in SUBSET DOMAIN s |->
            IF T = {} THEN base ELSE Step(it[T \ {Max(T)}], s[Max(T)])]

(* It is the last value of a fold that skips.                              *)
LEMMA IterExists ==
    ASSUME NEW base, NEW s, NEW n \in Nat, DOMAIN s = 1 .. n
    PROVE  \E it : Iter(base, s, it)
  <1> DEFINE f(T) == CHOOSE f : IsTrace(f, base, s, T, n)
             it == [T \in SUBSET (1 .. n) |-> f(T)[n]]
  <1>1. ASSUME NEW T PROVE IsTrace(f(T), base, s, T, n)
    BY TraceExists
  <1> HIDE DEF f
  <1>2. it[{}] = base
    <2>1. f({})[n] = f({})[0]
      BY <1>1, TraceIdle
    <2> QED BY <1>1, <2>1 DEF IsTrace
  <1>3. ASSUME NEW T \in SUBSET (1 .. n), T # {}
        PROVE  it[T] = Step(it[T \ {Max(T)}], s[Max(T)])
    <2> DEFINE m == Max(T)
               R == T \ {m}
    <2>0. m \in T /\ \A k \in T : k <= m
      BY <1>3, LargestNumber
    <2> HIDE DEF m
    <2>1. m \in T /\ m \in 1 .. n /\ m \in 0 .. n /\ m - 1 \in 0 .. n /\ \A k \in T : k <= m
      BY <2>0
    <2>2. IsTrace(f(T), base, s, T, n) /\ IsTrace(f(R), base, s, R, n)
      BY <1>1
    <2>3. f(T)[n] = f(T)[m]
      <3>1. \A k \in m + 1 .. n : k \notin T
        BY <2>1
      <3> HIDE DEF f
      <3> QED BY <2>1, <2>2, <3>1, TraceIdle
    <2>4. f(T)[m] = Step(f(T)[m - 1], s[m])
      BY <2>1, <2>2 DEF IsTrace
    <2>5. f(R)[n] = f(R)[m - 1]
      <3>1. \A k \in (m - 1) + 1 .. n : k \notin R
        BY <2>1
      <3> QED BY <2>1, <2>2, <3>1, TraceIdle
    <2>6. f(T)[m - 1] = f(R)[m - 1]
      <3>1. \A k \in 1 .. m - 1 : k \in 1 .. n /\ (k \in T <=> k \in R)
        BY <2>1
      <3>2. IsTrace(f(T), base, s, T, m - 1) /\ IsTrace(f(R), base, s, R, m - 1)
        BY <2>2, <3>1 DEF IsTrace
      <3> QED BY <2>1, <3>1, <3>2, TraceUnique
    <2>7. it[T] = f(T)[n] /\ it[R] = f(R)[n]
      BY <1>3
    <2>8. it[T] = Step(it[R], s[m])
      BY <2>3, <2>4, <2>5, <2>6, <2>7
    <2> QED BY <2>8 DEF m
  <1>4. it = [T \in SUBSET (1 .. n) |->
                IF T = {} THEN base ELSE Step(it[T \ {Max(T)}], s[Max(T)])]
    <2>1. \A T \in SUBSET (1 .. n) :
             it[T] = IF T = {} THEN base ELSE Step(it[T \ {Max(T)}], s[Max(T)])
      BY <1>2, <1>3
    <2> HIDE DEF it
    <2>2. it = [T \in SUBSET (1 .. n) |-> it[T]]
      BY DEF it
    <2> QED BY <2>1, <2>2
  <1> HIDE DEF it
  <1> QED BY <1>4 DEF Iter

(* The fold itself, as a name of its own: the provers take no operator for *)
(* an argument.                                                            *)
Fold(base, s) == FoldLeft(Step, base, s)

(* FoldLeft is that solution at the whole domain.                          *)
LEMMA FoldIsIter ==
    ASSUME NEW base, NEW s, NEW n \in Nat, DOMAIN s = 1 .. n
    PROVE  \E it : Iter(base, s, it) /\ Fold(base, s) = it[1 .. n]
  <1> DEFINE it == CHOOSE i : Iter(base, s, i)
  <1>1. Iter(base, s, it)
    BY IterExists
  <1>2. Fold(base, s) = it[DOMAIN s]
    BY DEF Fold, FoldLeft, MapThenFoldSet, Iter
  <1> HIDE DEF it
  <1> QED BY <1>1, <1>2

----------------------------------------------------------------------------
Values(f, base, s, n) ==
    /\ f[0] = base
    /\ \A k \in 1 .. n : f[k] = Step(f[k - 1], s[k])

(* A fold is the last of the values of a loop from the left to the right.  *)
LEMMA FoldValues ==
    ASSUME NEW base, NEW s, NEW n \in Nat, DOMAIN s = 1 .. n
    PROVE  \E f : Values(f, base, s, n) /\ Fold(base, s) = f[n]
  <1>1. PICK it : Iter(base, s, it) /\ Fold(base, s) = it[1 .. n]
    BY FoldIsIter
  <1> DEFINE f == [k \in 0 .. n |-> it[1 .. k]]
  <1>2. f[0] = base
    <2>1. f[0] = it[1 .. 0] /\ 1 .. 0 = {}
      OBVIOUS
    <2> HIDE DEF f
    <2> QED BY <1>1, <2>1 DEF Iter
  <1>3. ASSUME NEW k \in 1 .. n PROVE f[k] = Step(f[k - 1], s[k])
    <2> DEFINE T == 1 .. k
    <2>1. T \in SUBSET (1 .. n) /\ T # {} /\ k \in T
      <3>1. k \in T /\ \A i \in T : i \in 1 .. n
        OBVIOUS
      <3> QED BY <3>1
    <2>2. Max(T) = k
      <3> HIDE DEF T
      <3>1. Max(T) \in T /\ \A i \in T : i <= Max(T)
        BY <2>1, LargestNumber
      <3>2. Max(T) <= k /\ k <= Max(T) /\ Max(T) \in Int
        BY <2>1, <3>1 DEF T
      <3> QED BY <3>2
    <2>3. T \ {k} = 1 .. k - 1
      OBVIOUS
    <2>4. f[k] = it[T] /\ f[k - 1] = it[T \ {k}]
      <3>1. k \in 0 .. n /\ k - 1 \in 0 .. n
        OBVIOUS
      <3>2. f[k] = it[1 .. k] /\ f[k - 1] = it[1 .. k - 1]
        BY <3>1
      <3> QED BY <2>3, <3>2
    <2> HIDE DEF f, T
    <2>5. it[T] = Step(it[T \ {Max(T)}], s[Max(T)])
      BY <1>1, <2>1 DEF Iter
    <2> QED BY <2>2, <2>4, <2>5
  <1>4. Fold(base, s) = f[n]
    BY <1>1
  <1> HIDE DEF f
  <1> QED BY <1>2, <1>3, <1>4 DEF Values

(* Nothing happens to the base of an empty fold.                           *)
THEOREM FoldEmpty == \A base : Fold(base, <<>>) = base
  <1> TAKE base
  <1>1. DOMAIN <<>> = 1 .. 0
    OBVIOUS
  <1>2. PICK f : Values(f, base, <<>>, 0) /\ Fold(base, <<>>) = f[0]
    BY <1>1, FoldValues
  <1> QED BY <1>2 DEF Values

(* One more element is one more step, after all the others.                *)
THEOREM FoldAppend ==
    ASSUME NEW base, NEW E, NEW s \in Seq(E), NEW e \in E
    PROVE  Fold(base, Append(s, e)) = Step(Fold(base, s), e)
  <1> DEFINE n == Len(s)
             z == Append(s, e)
  <1>1. /\ n \in Nat /\ DOMAIN s = 1 .. n /\ DOMAIN z = 1 .. n + 1
        /\ \A k \in 1 .. n : z[k] = s[k]
        /\ z[n + 1] = e
    OBVIOUS
  <1> HIDE DEF n, z
  <1>2. PICK f : Values(f, base, s, n) /\ Fold(base, s) = f[n]
    BY <1>1, FoldValues
  <1>3. PICK g : Values(g, base, z, n + 1) /\ Fold(base, z) = g[n + 1]
    <2>1. n + 1 \in Nat
      BY <1>1
    <2> QED BY <1>1, <2>1, FoldValues
  <1>4. IsTrace(f, base, s, 1 .. n, n) /\ IsTrace(g, base, z, 1 .. n, n)
    BY <1>1, <1>2, <1>3 DEF IsTrace, Values
  <1>5. f[n] = g[n]
    BY <1>1, <1>4, TraceUnique
  <1>6. g[n + 1] = Step(g[n], e)
    BY <1>1, <1>3 DEF Values
  <1> QED BY <1>2, <1>3, <1>5, <1>6 DEF z

(* What every step keeps, the fold keeps: P is the set of what is kept     *)
(* after k elements.                                                       *)
THEOREM FoldInvariant ==
    ASSUME NEW base, NEW s, NEW n \in Nat, DOMAIN s = 1 .. n, NEW P,
           base \in P[0],
           \A k \in 1 .. n : \A x \in P[k - 1] : Step(x, s[k]) \in P[k]
    PROVE  Fold(base, s) \in P[n]
  <1>1. PICK f : Values(f, base, s, n) /\ Fold(base, s) = f[n]
    BY FoldValues
  <1> DEFINE S == {k \in Nat : k <= n => f[k] \in P[k]}
  <1>2. 0 \in S
    BY <1>1 DEF Values
  <1>3. ASSUME NEW k \in Nat, k \in S PROVE k + 1 \in S
    <2>1. SUFFICES ASSUME k + 1 <= n PROVE f[k + 1] \in P[k + 1]
      OBVIOUS
    <2>2. k + 1 \in 1 .. n /\ (k + 1) - 1 = k /\ f[k] \in P[k]
      BY <1>3, <2>1
    <2> QED BY <1>1, <2>2 DEF Values
  <1> HIDE DEF S
  <1>4. n \in S
    BY <1>2, <1>3, Induction
  <1> QED BY <1>1, <1>4 DEF S
=============================================================================
