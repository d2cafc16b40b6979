---------------------------- MODULE PolicyProofs ----------------------------
(***************************************************************************)
(* Selectors and policies, for every set of keys, every depth of values    *)
(* and nesting of statements, every policy and every value that was        *)
(* decoded, and whatever the order in which the run time iterates over     *)
(* maps, chosen anew at each iteration.  An evaluation is therefore the    *)
(* set of its outcomes: what is stated of an evaluation is stated of every *)
(* outcome in the set.                                                     *)
(***************************************************************************)
EXTENDS Policy, SequenceTheorems, FiniteSetTheorems, WellFoundedInduction, TLAPS

-----------------------------------------------------------------------------
(***************************************************************************)
(* Recursive functions: they are the solution of their defining equation   *)
(* when the body only looks at arguments of lower rank.                    *)
(***************************************************************************)
\* A set of natural numbers that is not empty has a least one.
LEMMA LeastOf ==
    ASSUME NEW T, T \subseteq Nat, T # {}
    PROVE  \E r \in T : \A j \in T : r <= j
<1>1. PICK r \in T : \A j \in T : <<j, r>> \notin OpToRel(<, Nat)
  BY NatLessThanWellFounded, WFMin, Zenon
<1>2. ASSUME NEW j \in T, j < r PROVE FALSE
  <2>1. <<j, r>> \in OpToRel(<, Nat)
    BY <1>2 DEF OpToRel
  <2> QED  BY <1>1, <2>1
<1>3. \A j \in T : r <= j
  BY <1>2
<1> QED  BY <1>3

\* Induction over a set whose elements have a rank: a set that has every
\* element of which it has all those of lower rank has them all.
LEMMA RankInduction ==
    ASSUME NEW D, NEW rank, \A x \in D : rank[x] \in Nat, NEW T,
           \A x \in D : (\A y \in D : rank[y] < rank[x] => y \in T) => x \in T
    PROVE  D \subseteq T
<1> SUFFICES ASSUME NEW z \in D, z \notin T PROVE FALSE
  OBVIOUS
<1> DEFINE Out == {rank[x] : x \in D \ T}
<1>1. PICK r \in Out : \A j \in Out : r <= j
  <2>1. Out \subseteq Nat /\ Out # {}
    OBVIOUS
  <2> HIDE DEF Out
  <2> QED  BY <2>1, LeastOf
<1>2. PICK x \in D \ T : r = rank[x]
  OBVIOUS
<1>3. \A y \in D : rank[y] < rank[x] => y \in T
  <2> SUFFICES ASSUME NEW y \in D, rank[y] < rank[x], y \notin T PROVE FALSE
    OBVIOUS
  <2>1. rank[y] \in Out
    OBVIOUS
  <2>2. rank[x] <= rank[y]
    BY <1>1, <1>2, <2>1
  <2> QED  BY <2>2
<1> QED  BY <1>2, <1>3

\* What 0 has, and a number passes on to the next, all the numbers have.
LEMMA AllNat ==
    ASSUME NEW T, 0 \in T, \A n \in Nat : n \in T => n + 1 \in T
    PROVE  Nat \subseteq T
<1> DEFINE id == [n \in Nat |-> n]
<1>1. \A x \in Nat : id[x] \in Nat
  OBVIOUS
<1>2. ASSUME NEW x \in Nat, \A y \in Nat : id[y] < id[x] => y \in T PROVE x \in T
  <2>1. CASE x = 0
    BY <2>1
  <2>2. CASE x # 0
    <3>1. x - 1 \in Nat /\ id[x - 1] < id[x] /\ (x - 1) + 1 = x
      BY <2>2
    <3>2. x - 1 \in T
      BY <1>2, <3>1
    <3> QED  BY <3>1, <3>2
  <2> QED  BY <2>1, <2>2
<1> HIDE DEF id
<1> QED  BY <1>1, <1>2, RankInduction

\* The same up to a number.
LEMMA UpTo ==
    ASSUME NEW n \in Nat, NEW T, 0 \in T,
           \A m \in 0 .. n : m \in T /\ m < n => m + 1 \in T
    PROVE  \A m \in 0 .. n : m \in T
<1> DEFINE U == {m \in Nat : m <= n => m \in T}
<1>1. 0 \in U
  OBVIOUS
<1>2. \A m \in Nat : m \in U => m + 1 \in U
  OBVIOUS
<1> HIDE DEF U
<1>3. Nat \subseteq U
  BY <1>1, <1>2, AllNat
<1> QED  BY <1>3 DEF U

\* There is a function that is what G makes of it and of each element, when G
\* only looks at what the function is on the elements of lower rank.
Ranked(D, rank) == \A x \in D : rank[x] \in Nat

Yields(D, R, G) == \A x \in D : \A g \in [D -> R] : G[x][g] \in R

LooksDown(D, R, rank, G) ==
    \A x \in D : \A g, h \in [D -> R] :
        (\A y \in D : rank[y] < rank[x] => g[y] = h[y]) => G[x][g] = G[x][h]

FixedPoint(D, R, G, f) == f \in [D -> R] /\ \A x \in D : f[x] = G[x][f]

Solves(D, R, rank, G, n, g) ==
    g \in [D -> R] /\ \A x \in D : rank[x] < n => g[x] = G[x][g]

\* Solutions agree where both of them are solutions.
LEMMA SolutionsAgree ==
    ASSUME NEW D, NEW R, NEW rank, \A x \in D : rank[x] \in Nat, NEW G,
           \A x \in D : \A g, h \in [D -> R] :
              (\A y \in D : rank[y] < rank[x] => g[y] = h[y]) => G[x][g] = G[x][h],
           NEW n \in Nat, NEW g, NEW h,
           Solves(D, R, rank, G, n, g), Solves(D, R, rank, G, n, h)
    PROVE  \A x \in D : rank[x] < n => g[x] = h[x]
<1> DEFINE T == {x \in D : rank[x] < n => g[x] = h[x]}
<1>1. ASSUME NEW x \in D, \A y \in D : rank[y] < rank[x] => y \in T PROVE x \in T
  <2> SUFFICES ASSUME rank[x] < n PROVE g[x] = h[x]
    OBVIOUS
  <2>1. \A y \in D : rank[y] < rank[x] => g[y] = h[y]
    BY <1>1
  <2>2. g[x] = G[x][g] /\ h[x] = G[x][h] /\ g \in [D -> R] /\ h \in [D -> R]
    BY DEF Solves
  <2>3. G[x][g] = G[x][h]
    BY <2>1, <2>2, Zenon
  <2> QED  BY <2>2, <2>3
<1>2. D \subseteq T
  <2> HIDE DEF T
  <2> QED  BY <1>1, RankInduction
<1> QED  BY <1>2

\* There is a solution up to every rank.
LEMMA SolutionUpTo ==
    ASSUME NEW D, NEW R, R # {}, NEW rank, \A x \in D : rank[x] \in Nat,
           NEW G, \A x \in D : \A g \in [D -> R] : G[x][g] \in R,
           \A x \in D : \A g, h \in [D -> R] :
              (\A y \in D : rank[y] < rank[x] => g[y] = h[y]) => G[x][g] = G[x][h]
    PROVE  \A n \in Nat : \E g : Solves(D, R, rank, G, n, g)
<1> DEFINE T == {n \in Nat : \E g : Solves(D, R, rank, G, n, g)}
<1>1. 0 \in T
  <2>1. PICK r \in R : TRUE
    OBVIOUS
  <2>2. Solves(D, R, rank, G, 0, [x \in D |-> r])
    BY DEF Solves
  <2> QED  BY <2>2
<1>2. ASSUME NEW n \in T PROVE n + 1 \in T
  <2>1. PICK g : Solves(D, R, rank, G, n, g)
    OBVIOUS
  <2> DEFINE h == [x \in D |-> G[x][g]]
  <2>2. g \in [D -> R] /\ h \in [D -> R]
    BY <2>1 DEF Solves
  <2>3. ASSUME NEW x \in D, rank[x] < n + 1 PROVE h[x] = G[x][h]
    <3>1. \A y \in D : rank[y] < rank[x] => g[y] = h[y]
      BY <2>1, <2>3 DEF Solves
    <3>2. h[x] = G[x][g]
      OBVIOUS
    <3> HIDE DEF h
    <3>3. G[x][g] = G[x][h]
      BY <2>2, <3>1, Zenon
    <3> QED  BY <3>2, <3>3
  <2>4. Solves(D, R, rank, G, n + 1, h)
    <3> HIDE DEF h
    <3> QED  BY <2>2, <2>3 DEF Solves
  <2> HIDE DEF h
  <2> QED  BY <2>4
<1> HIDE DEF T
<1>3. Nat \subseteq T
  BY <1>1, <1>2, AllNat
<1> QED  BY <1>3 DEF T

\* A recursive function whose body only looks down the ranks exists.
LEMMA Recursion ==
    ASSUME NEW D, NEW R, R # {}, NEW rank, Ranked(D, rank),
           NEW G, Yields(D, R, G), LooksDown(D, R, rank, G)
    PROVE  \E f : FixedPoint(D, R, G, f)
<1> DEFINE F(n) == CHOOSE g : Solves(D, R, rank, G, n, g)
           f == [x \in D |-> F(rank[x] + 1)[x]]
<1>0. /\ \A x \in D : rank[x] \in Nat
      /\ \A x \in D : \A g \in [D -> R] : G[x][g] \in R
      /\ \A x \in D : \A g, h \in [D -> R] :
            (\A y \in D : rank[y] < rank[x] => g[y] = h[y]) => G[x][g] = G[x][h]
  BY Zenon DEF Ranked, Yields, LooksDown
<1>1. ASSUME NEW n \in Nat PROVE Solves(D, R, rank, G, n, F(n))
  <2>1. \E g : Solves(D, R, rank, G, n, g)
    BY <1>0, SolutionUpTo
  <2> QED  BY <2>1, Zenon
<1>2. \A x \in D : f[x] = F(rank[x] + 1)[x]
  OBVIOUS
<1>3. f \in [D -> R]
  <2>1. ASSUME NEW x \in D PROVE F(rank[x] + 1)[x] \in R
    <3>1. rank[x] + 1 \in Nat
      BY <1>0
    <3>2. Solves(D, R, rank, G, rank[x] + 1, F(rank[x] + 1))
      BY <1>1, <3>1
    <3> HIDE DEF F
    <3> QED  BY <3>2 DEF Solves
  <2> HIDE DEF F
  <2> QED  BY <2>1
<1>4. ASSUME NEW x \in D PROVE f[x] = G[x][f]
  <2> DEFINE g == F(rank[x] + 1)
  <2>1. Solves(D, R, rank, G, rank[x] + 1, g) /\ rank[x] \in Nat
    BY <1>0, <1>1
  <2> HIDE DEF f, F
  <2>2. ASSUME NEW y \in D, rank[y] < rank[x] PROVE f[y] = g[y]
    <3>1. Solves(D, R, rank, G, rank[y] + 1, g) /\ rank[y] \in Nat
      BY <1>0, <2>1, <2>2 DEF Solves
    <3>2. Solves(D, R, rank, G, rank[y] + 1, F(rank[y] + 1))
      BY <1>1, <3>1
    <3> HIDE DEF g
    <3>3. rank[y] + 1 \in Nat /\ rank[y] < rank[y] + 1
      BY <3>1
    <3>4. \A z \in D : rank[z] < rank[y] + 1 => F(rank[y] + 1)[z] = g[z]
      BY <1>0, <3>1, <3>2, <3>3, SolutionsAgree
    <3> QED  BY <1>2, <3>3, <3>4
  <2>3. g[x] = G[x][g] /\ g \in [D -> R]
    BY <2>1 DEF Solves
  <2> HIDE DEF g
  <2>4. G[x][g] = G[x][f]
    BY <1>0, <1>3, <2>2, <2>3, Zenon
  <2>5. f[x] = g[x]
    BY <1>2 DEF g
  <2> QED  BY <2>3, <2>4, <2>5
<1> HIDE DEF f
<1>5. FixedPoint(D, R, G, f)
  BY <1>3, <1>4 DEF FixedPoint
<1> QED  BY <1>5

-----------------------------------------------------------------------------
(***************************************************************************)
(* Values: built level by level, which gives induction and recursion over  *)
(* their structure.                                                        *)
(***************************************************************************)
\* What the values over W are.
LEMMA NestElim ==
    ASSUME NEW W, NEW v \in Nest(W)
    PROVE  /\ v = <<TypeOf(v), Data(v)>>
           /\ Kind(v) \in {"nil", "int", "byte", "string", "list", "map"}
           /\ Kind(v) = "nil" <=> v = Nil
           /\ Kind(v) = "int" => TypeOf(v) = <<"int">> /\ Data(v) \in Int
           /\ Kind(v) = "byte" => TypeOf(v) = <<"byte">> /\ Data(v) \in 0 .. 255
           /\ Kind(v) = "string" => TypeOf(v) = <<"string">> /\ Data(v) \in Seq(STRING)
           /\ Kind(v) = "list" => TypeOf(v) \in ListTypes /\ Data(v) \in Seq(W)
           /\ Kind(v) = "map" => TypeOf(v) = <<"map">> /\ Data(v) \in [Field -> W \cup {None}]
<1>1. CASE v = Nil
  BY <1>1 DEF Nil, Kind, TypeOf, Data
<1>2. CASE v \in {<<"int">>} \X Int
  BY <1>2 DEF Nil, Kind, TypeOf, Data
<1>3. CASE v \in {<<"string">>} \X Seq(STRING)
  BY <1>3 DEF Nil, Kind, TypeOf, Data
<1>4. CASE v \in ListTypes \X Seq(W)
  BY <1>4 DEF Nil, Kind, TypeOf, Data, ListTypes
<1>5. CASE v \in {<<"map">>} \X [Field -> W \cup {None}]
  BY <1>5 DEF Nil, Kind, TypeOf, Data
<1>6. CASE v \in {<<"byte">>} \X (0 .. 255)
  BY <1>6 DEF Nil, Kind, TypeOf, Data
<1> QED  BY <1>1, <1>2, <1>3, <1>4, <1>5, <1>6 DEF Nest

\* The ways to build a value over W.
LEMMA NestIntro ==
    ASSUME NEW W
    PROVE  /\ Nil \in Nest(W)
           /\ \A d \in Int : <<<<"int">>, d>> \in Nest(W)
           /\ \A d \in 0 .. 255 : <<<<"byte">>, d>> \in Nest(W)
           /\ \A s \in Seq(STRING) : Str(s) \in Nest(W)
           /\ \A t \in ListTypes, s \in Seq(W) : <<t, s>> \in Nest(W)
           /\ \A f \in [Field -> W \cup {None}] : <<<<"map">>, f>> \in Nest(W)
  BY DEF Nest, Str

\* Values over fewer parts are values over more.
LEMMA NestGrows ==
    ASSUME NEW W, NEW X, W \subseteq X
    PROVE  Nest(W) \subseteq Nest(X)
<1>1. Seq(W) \subseteq Seq(X)
  OBVIOUS
<1>2. [Field -> W \cup {None}] \subseteq [Field -> X \cup {None}]
  OBVIOUS
<1> QED  BY <1>1, <1>2 DEF Nest

\* Every value is a type and data, so types are sequences of names.
LEMMA TypeOfValue ==
    ASSUME NEW W, NEW v \in Nest(W)
    PROVE  TypeOf(v) \in Seq(TypeNames) /\ Len(TypeOf(v)) > 0 /\ TypeOf(v)[1] = Kind(v)
<1> DEFINE Names == {"nil", "int", "byte", "string", "map"}
<1>1. \A name \in Names : <<name>> \in Seq(TypeNames) /\ Len(<<name>>) > 0
  BY DEF TypeNames
<1>2. \A t \in ListTypes : t \in Seq(TypeNames) /\ Len(t) > 0
  BY DEF ListTypes, TypeNames
<1>3. TypeOf(v) \in ListTypes \/ \E name \in Names : TypeOf(v) = <<name>>
  <2>1. v = Nil => TypeOf(v) = <<"nil">>
    BY DEF Nil, TypeOf
  <2> QED  BY <2>1, NestElim
<1>4. TypeOf(v)[1] = Kind(v)
  BY DEF TypeOf, Kind
<1> DEFINE t == TypeOf(v)
<1> HIDE DEF t, Names
<1>5. t \in Seq(TypeNames) /\ Len(t) > 0
  BY <1>1, <1>2, <1>3 DEF t
<1> QED  BY <1>4, <1>5 DEF t

\* The type of a list over items of type t.
LEMMA ListTypeIntro ==
    ASSUME NEW t \in Seq(TypeNames)
    PROVE  /\ <<"list">> \o t \in ListTypes
           /\ Len(<<"list">> \o t) = Len(t) + 1
           /\ (<<"list">> \o t)[1] = "list"
           /\ \A k \in 1 .. Len(t) : (<<"list">> \o t)[k + 1] = t[k]
<1> DEFINE l == <<"list">>
           r == l \o t
<1>1. l \in Seq(TypeNames) /\ Len(l) = 1 /\ l[1] = "list"
  BY DEF TypeNames
<1> HIDE DEF l
<1>2. /\ r \in Seq(TypeNames) /\ Len(r) = Len(l) + Len(t)
      /\ \A k \in 1 .. Len(l) + Len(t) : r[k] = IF k <= Len(l) THEN l[k] ELSE t[k - Len(l)]
  BY <1>1, ConcatProperties, Zenon
<1>3. r[1] = "list" /\ \A k \in 1 .. Len(t) : r[k + 1] = t[k]
  <2>1. Len(t) \in Nat
    OBVIOUS
  <2> HIDE DEF r
  <2> QED  BY <1>1, <1>2, <2>1
<1> HIDE DEF r
<1>4. r # <<>> /\ Len(r) = Len(t) + 1
  BY <1>1, <1>2, <1>3
<1>5. r \in ListTypes
  BY <1>2, <1>3, <1>4 DEF ListTypes, TypeNames
<1> QED  BY <1>3, <1>4, <1>5 DEF r, l

-----------------------------------------------------------------------------
\* The values of bounded depth exist, level by level.
IsTower(n, g) == g = [m \in 0 .. n |-> IF m = 0 THEN {} ELSE Nest(g[m - 1])]

\* The levels of values are the same however many there are.
LEMMA TowersAgree ==
    ASSUME NEW n \in Nat, NEW m \in Nat, n <= m, NEW g, NEW h, IsTower(n, g), IsTower(m, h)
    PROVE  \A k \in 0 .. n : g[k] = h[k]
<1> DEFINE T == {k \in 0 .. n : g[k] = h[k]}
<1>1. 0 \in T
  BY DEF IsTower
<1>2. \A k \in 0 .. n : k \in T /\ k < n => k + 1 \in T
  <2> SUFFICES ASSUME NEW k \in 0 .. n, g[k] = h[k], k < n PROVE g[k + 1] = h[k + 1]
    OBVIOUS
  <2>1. k + 1 \in 0 .. n /\ k + 1 \in 0 .. m /\ k + 1 # 0 /\ (k + 1) - 1 = k
    OBVIOUS
  <2>2. g[k + 1] = Nest(g[k]) /\ h[k + 1] = Nest(h[k])
    BY <2>1 DEF IsTower
  <2> QED  BY <2>2
<1> HIDE DEF T
<1>3. \A k \in 0 .. n : k \in T
  BY <1>1, <1>2, UpTo
<1> QED  BY <1>3 DEF T

\* There is a level of values for every depth.
LEMMA TowerExists == \A n \in Nat : \E g : IsTower(n, g)
<1> DEFINE T == {n \in Nat : \E g : IsTower(n, g)}
<1>1. 0 \in T
  <2>1. IsTower(0, [m \in 0 .. 0 |-> {}])
    BY DEF IsTower
  <2> QED  BY <2>1
<1>2. ASSUME NEW n \in Nat, n \in T PROVE n + 1 \in T
  <2>1. PICK g : IsTower(n, g)
    BY <1>2
  <2> DEFINE h == [m \in 0 .. n + 1 |-> IF m = n + 1 THEN Nest(g[n]) ELSE g[m]]
  <2>2. ASSUME NEW m \in 0 .. n + 1 PROVE h[m] = IF m = 0 THEN {} ELSE Nest(h[m - 1])
    <3>1. CASE m = n + 1
      <4>1. m - 1 = n /\ m - 1 # n + 1 /\ m - 1 \in 0 .. n + 1 /\ m # 0
        BY <3>1
      <4> QED  BY <3>1, <4>1
    <3>2. CASE m # n + 1
      <4>1. m \in 0 .. n /\ (m # 0 => m - 1 # n + 1 /\ m - 1 \in 0 .. n + 1)
        BY <3>2
      <4>2. g[m] = IF m = 0 THEN {} ELSE Nest(g[m - 1])
        BY <2>1, <4>1 DEF IsTower
      <4> QED  BY <3>2, <4>1, <4>2
    <3> QED  BY <3>1, <3>2
  <2>3. h = [m \in 0 .. n + 1 |-> h[m]]
    OBVIOUS
  <2> HIDE DEF h
  <2>4. IsTower(n + 1, h)
    BY <2>2, <2>3 DEF IsTower
  <2> QED  BY <2>4
<1> HIDE DEF T
<1>3. Nat \subseteq T
  BY <1>1, <1>2, AllNat
<1> QED  BY <1>3 DEF T

\* ValuesTo is what its definition says.
LEMMA ValuesToUnfolds ==
    ValuesTo = [n \in Nat |-> IF n = 0 THEN {} ELSE Nest(ValuesTo[n - 1])]
<1> DEFINE F(n) == CHOOSE g : IsTower(n, g)
           f == [n \in Nat |-> F(n)[n]]
<1>1. ASSUME NEW n \in Nat PROVE IsTower(n, F(n))
  BY TowerExists, Zenon
<1>2. ASSUME NEW n \in Nat PROVE f[n] = IF n = 0 THEN {} ELSE Nest(f[n - 1])
  <2>1. IsTower(n, F(n)) /\ f[n] = F(n)[n]
    BY <1>1
  <2>2. CASE n = 0
    <3> HIDE DEF F, f
    <3> QED  BY <2>1, <2>2 DEF IsTower
  <2>3. CASE n # 0
    <3>1. n - 1 \in Nat /\ n - 1 <= n /\ n - 1 \in 0 .. n - 1
      BY <2>3
    <3>2. IsTower(n - 1, F(n - 1)) /\ f[n - 1] = F(n - 1)[n - 1]
      BY <1>1, <3>1
    <3> HIDE DEF F, f
    <3>3. F(n - 1)[n - 1] = F(n)[n - 1]
      BY <2>1, <3>1, <3>2, TowersAgree
    <3>4. F(n)[n] = Nest(F(n)[n - 1])
      <4> DEFINE g == F(n)
      <4>1. IsTower(n, g) /\ n \in 0 .. n
        BY <2>1
      <4> HIDE DEF g
      <4>2. g[n] = Nest(g[n - 1])
        BY <2>3, <4>1 DEF IsTower
      <4> QED  BY <4>2 DEF g
    <3> QED  BY <2>1, <2>3, <3>2, <3>3, <3>4
  <2> QED  BY <2>2, <2>3
<1>3. f = [n \in Nat |-> f[n]]
  OBVIOUS
<1> HIDE DEF f
<1>4. f = [n \in Nat |-> IF n = 0 THEN {} ELSE Nest(f[n - 1])]
  BY <1>2, <1>3
<1> QED  BY <1>4, Zenon DEF ValuesTo

\* A level of values is within the next.
LEMMA ValuesToGrow == \A n \in Nat : ValuesTo[n] \subseteq ValuesTo[n + 1]
<1> DEFINE T == {n \in Nat : ValuesTo[n] \subseteq ValuesTo[n + 1]}
<1>1. ASSUME NEW n \in Nat PROVE ValuesTo[n + 1] = Nest(ValuesTo[n])
  <2>1. n + 1 \in Nat /\ n + 1 # 0 /\ (n + 1) - 1 = n
    OBVIOUS
  <2> QED  BY <2>1, ValuesToUnfolds
<1>2. 0 \in T
  BY ValuesToUnfolds
<1>3. ASSUME NEW n \in Nat, n \in T PROVE n + 1 \in T
  <2>1. Nest(ValuesTo[n]) \subseteq Nest(ValuesTo[n + 1])
    BY <1>3, NestGrows
  <2> QED  BY <1>1, <2>1
<1> HIDE DEF T
<1>4. Nat \subseteq T
  BY <1>2, <1>3, AllNat
<1> QED  BY <1>4 DEF T

\* The first level is empty, and any other is built over the one before.
LEMMA ValuesToStep ==
    /\ ValuesTo[0] = {}
    /\ \A n \in Nat : n # 0 => n - 1 \in Nat /\ ValuesTo[n] = Nest(ValuesTo[n - 1])
<1>1. \A n \in Nat : ValuesTo[n] = IF n = 0 THEN {} ELSE Nest(ValuesTo[n - 1])
  BY ValuesToUnfolds, Zenon
<1> QED  BY <1>1

\* A level of values is within all later ones.
LEMMA ValuesToIncrease ==
    ASSUME NEW m \in Nat, NEW n \in Nat, m <= n
    PROVE  ValuesTo[m] \subseteq ValuesTo[n]
<1> DEFINE T == {k \in Nat : ValuesTo[m] \subseteq ValuesTo[m + k]}
<1>1. 0 \in T
  OBVIOUS
<1>2. ASSUME NEW k \in Nat, k \in T PROVE k + 1 \in T
  <2>1. m + k \in Nat /\ m + (k + 1) = (m + k) + 1
    OBVIOUS
  <2> QED  BY <1>2, <2>1, ValuesToGrow
<1> HIDE DEF T
<1>3. Nat \subseteq T
  BY <1>1, <1>2, AllNat
<1>4. n - m \in Nat /\ m + (n - m) = n
  OBVIOUS
<1> QED  BY <1>3, <1>4 DEF T

\* The parts of a value are one level down.
LEMMA NestParts ==
    ASSUME NEW W, NEW v \in Nest(W), NEW k \in Places(v)
    PROVE  Data(v)[k] \in W
<1>1. CASE Kind(v) = "list"
  BY <1>1, NestElim DEF Places
<1>2. CASE Kind(v) = "map"
  BY <1>2, NestElim DEF Places
<1>3. CASE Kind(v) # "list" /\ Kind(v) # "map"
  BY <1>3 DEF Places
<1> QED  BY <1>1, <1>2, <1>3

RankOf(v) == CHOOSE n \in Nat : v \in ValuesTo[n] /\ \A m \in Nat : v \in ValuesTo[m] => n <= m

\* The rank of a value is the first level that has it.
LEMMA RankOfValue ==
    ASSUME NEW n \in Nat, NEW v \in ValuesTo[n]
    PROVE  /\ RankOf(v) \in Nat /\ RankOf(v) # 0 /\ RankOf(v) <= n
           /\ v \in ValuesTo[RankOf(v)]
<1> DEFINE T == {m \in Nat : v \in ValuesTo[m]}
<1>1. PICK r \in T : \A m \in T : r <= m
  <2>1. T \subseteq Nat /\ T # {}
    OBVIOUS
  <2> HIDE DEF T
  <2> QED  BY <2>1, LeastOf
<1>2. \E m \in Nat : v \in ValuesTo[m] /\ \A l \in Nat : v \in ValuesTo[l] => m <= l
  BY <1>1
<1>3. /\ RankOf(v) \in Nat /\ v \in ValuesTo[RankOf(v)]
      /\ \A l \in Nat : v \in ValuesTo[l] => RankOf(v) <= l
  BY <1>2, Zenon DEF RankOf
<1> QED  BY <1>3, ValuesToStep

\* The parts of a value are values, of lower rank.
LEMMA ValueParts ==
    ASSUME NEW v \in Values, NEW k \in Places(v)
    PROVE  Data(v)[k] \in Values /\ RankOf(Data(v)[k]) < RankOf(v)
<1> DEFINE n == RankOf(v)
<1>1. n \in Nat /\ n # 0 /\ n <= Depth /\ v \in ValuesTo[n]
  BY RankOfValue, SelectorAssumption DEF Values
<1> HIDE DEF n
<1>2. n - 1 \in Nat /\ n - 1 <= Depth /\ v \in Nest(ValuesTo[n - 1])
  BY <1>1, ValuesToStep, SelectorAssumption
<1>3. Data(v)[k] \in ValuesTo[n - 1]
  BY <1>2, NestParts
<1>4. Data(v)[k] \in Values
  BY <1>2, <1>3, ValuesToIncrease, SelectorAssumption DEF Values
<1>5. RankOf(Data(v)[k]) <= n - 1 /\ RankOf(Data(v)[k]) \in Nat
  BY <1>2, <1>3, RankOfValue
<1> QED  BY <1>1, <1>4, <1>5 DEF n

\* Induction over the structure of values.
LEMMA ValueInduction ==
    ASSUME NEW T,
           \A v \in Values : (\A k \in Places(v) : Data(v)[k] \in T) => v \in T
    PROVE  Values \subseteq T
<1> DEFINE rank == [v \in Values |-> RankOf(v)]
<1>1. \A v \in Values : rank[v] \in Nat
  BY RankOfValue, SelectorAssumption DEF Values
<1>2. ASSUME NEW v \in Values, \A w \in Values : rank[w] < rank[v] => w \in T
      PROVE  v \in T
  <2>1. ASSUME NEW k \in Places(v) PROVE Data(v)[k] \in T
    BY <1>2, ValueParts
  <2> QED  BY <2>1
<1> HIDE DEF rank
<1> QED  BY <1>1, <1>2, RankInduction

\* What is defined by recursion over the structure of values exists.
LooksInside(R, G) ==
    \A v \in Values : \A g, h \in [Values -> R] :
        (\A k \in Places(v) : g[Data(v)[k]] = h[Data(v)[k]]) => G[v][g] = G[v][h]

\* Recursion over the structure of values.
LEMMA ValueRecursion ==
    ASSUME NEW R, R # {}, NEW G, Yields(Values, R, G), LooksInside(R, G)
    PROVE  \E f : FixedPoint(Values, R, G, f)
<1> DEFINE rank == [v \in Values |-> RankOf(v)]
<1>1. Ranked(Values, rank)
  BY RankOfValue, SelectorAssumption DEF Values, Ranked
<1>2. ASSUME NEW v \in Values, NEW g \in [Values -> R], NEW h \in [Values -> R],
             \A w \in Values : rank[w] < rank[v] => g[w] = h[w]
      PROVE  G[v][g] = G[v][h]
  <2>1. \A k \in Places(v) : g[Data(v)[k]] = h[Data(v)[k]]
    BY <1>2, ValueParts
  <2> HIDE DEF rank
  <2> QED  BY <2>1 DEF LooksInside
<1> HIDE DEF rank
<1>3. LooksDown(Values, R, rank, G)
  BY <1>2 DEF LooksDown
<1> QED  BY <1>1, <1>3, Recursion

\* A list with the type that the decoder leaves it, or no bytes.
TypedOrBytes(v) == Typed(List(AnyType, Data(v))) = Value(v) \/ v = Octets(<<>>)

OnlyInBytes(v, k) == Kind(Data(v)[k]) = "byte" <=> IsBytes(v)

\* AsDecoded is what its definition says.
LEMMA AsDecodedUnfolds ==
    \A v \in Values :
        AsDecoded[v] = /\ Kind(v) = "list" => TypedOrBytes(v)
                       /\ \A k \in Places(v) : OnlyInBytes(v, k) /\ AsDecoded[Data(v)[k]]
<1> DEFINE R == BOOLEAN
           G == [v \in Values |-> [g \in [Values -> R] |->
                    /\ Kind(v) = "list" => TypedOrBytes(v)
                    /\ \A k \in Places(v) : OnlyInBytes(v, k) /\ g[Data(v)[k]]]]
<1>1. R # {} /\ Yields(Values, R, G) /\ LooksInside(R, G)
  BY DEF Yields, LooksInside
<1>2. \A v \in Values : \A g \in [Values -> R] :
          G[v][g] = /\ Kind(v) = "list" => TypedOrBytes(v)
                    /\ \A k \in Places(v) : OnlyInBytes(v, k) /\ g[Data(v)[k]]
  OBVIOUS
<1> HIDE DEF G, R
<1>3. PICK f : FixedPoint(Values, R, G, f)
  BY <1>1, ValueRecursion
<1>4. f = [v \in Values |-> /\ Kind(v) = "list" => TypedOrBytes(v)
                            /\ \A k \in Places(v) : OnlyInBytes(v, k) /\ f[Data(v)[k]]]
  BY <1>2, <1>3 DEF FixedPoint
<1>5. AsDecoded = [v \in Values |-> /\ Kind(v) = "list" => TypedOrBytes(v)
                                    /\ \A k \in Places(v) : OnlyInBytes(v, k) /\ AsDecoded[Data(v)[k]]]
  BY <1>4, Zenon DEF AsDecoded, TypedOrBytes, OnlyInBytes
<1> QED  BY <1>5, Zenon

-----------------------------------------------------------------------------
(***************************************************************************)
(* Collecting and enumerating.                                             *)
(***************************************************************************)
\* What Collect appends.
Spliced(r) == IF Kind(r) = "nil" THEN <<>> ELSE IF Kind(r) = "list" THEN Data(r) ELSE <<r>>

\* To collect is to append what the result is spliced to.
LEMMA CollectSplices ==
    ASSUME NEW X, NEW many \in Seq(X), NEW r, Spliced(r) \in Seq(X)
    PROVE  Collect(many, r) = many \o Spliced(r) /\ Collect(many, r) \in Seq(X)
<1>1. CASE Kind(r) = "nil"
  BY <1>1, ConcatEmptySeq DEF Collect, Spliced
<1>2. CASE Kind(r) # "nil" /\ Kind(r) = "list"
  BY <1>2, ConcatProperties DEF Collect, Spliced
<1>3. CASE Kind(r) # "nil" /\ Kind(r) # "list"
  <2>1. <<r>> \in Seq(X)
    BY <1>3 DEF Spliced
  <2>2. r \in X
    BY <2>1
  <2> QED  BY <1>3, <2>2, AppendProperties, AppendIsConcat DEF Collect, Spliced
<1> QED  BY <1>1, <1>2, <1>3

Collecting(s, f) ==
    /\ f[0] = <<>>
    /\ \A n \in 1 .. Len(s) : f[n] = Collect(f[n - 1], s[n])

\* CollectAll is the last of a sequence of collections.
LEMMA CollectAllUnfolds ==
    ASSUME NEW X, NEW s, Len(s) \in Nat, \A k \in 1 .. Len(s) : Spliced(s[k]) \in Seq(X)
    PROVE  \E f \in [0 .. Len(s) -> Seq(X)] : Collecting(s, f) /\ CollectAll(s) = f[Len(s)]
<1> DEFINE D == 0 .. Len(s)
           R == Seq(X)
           rank == [n \in D |-> n]
           G == [n \in D |-> [g \in [D -> R] |->
                    IF n = 0 THEN <<>> ELSE Collect(g[n - 1], s[n])]]
<1>1. Ranked(D, rank)
  BY DEF Ranked
<1>2. R # {}
  BY EmptySeq
<1>3. Yields(D, R, G)
  <2> SUFFICES ASSUME NEW n \in D, NEW g \in [D -> R] PROVE G[n][g] \in R
    BY DEF Yields
  <2>1. CASE n = 0
    BY <2>1
  <2>2. CASE n # 0
    <3>1. n - 1 \in D /\ n \in 1 .. Len(s)
      BY <2>2
    <3>2. g[n - 1] \in Seq(X) /\ Spliced(s[n]) \in Seq(X)
      BY <3>1
    <3>3. Collect(g[n - 1], s[n]) \in Seq(X)
      BY <3>2, CollectSplices
    <3> QED  BY <2>2, <3>3
  <2> QED  BY <2>1, <2>2
<1>4. LooksDown(D, R, rank, G)
  <2> SUFFICES ASSUME NEW n \in D, NEW g \in [D -> R], NEW h \in [D -> R],
                      \A m \in D : rank[m] < rank[n] => g[m] = h[m]
               PROVE  G[n][g] = G[n][h]
    BY DEF LooksDown
  <2>1. CASE n = 0
    BY <2>1
  <2>2. CASE n # 0
    <3>1. n - 1 \in D /\ rank[n - 1] < rank[n]
      BY <2>2
    <3> QED  BY <2>2, <3>1
  <2> QED  BY <2>1, <2>2
<1>5. \A n \in D : \A g \in [D -> R] :
          G[n][g] = IF n = 0 THEN <<>> ELSE Collect(g[n - 1], s[n])
  OBVIOUS
<1> HIDE DEF G, rank
<1>6. PICK f : FixedPoint(D, R, G, f)
  <2> HIDE DEF D, R
  <2> QED  BY <1>1, <1>2, <1>3, <1>4, Recursion
<1>7. f = [n \in D |-> IF n = 0 THEN <<>> ELSE Collect(f[n - 1], s[n])] /\ f \in [D -> R]
  <2> HIDE DEF D, R
  <2> QED  BY <1>5, <1>6 DEF FixedPoint
<1> DEFINE many == CHOOSE m : m = [n \in D |-> IF n = 0 THEN <<>> ELSE Collect(m[n - 1], s[n])]
<1>8. /\ many = [n \in D |-> IF n = 0 THEN <<>> ELSE Collect(many[n - 1], s[n])]
      /\ CollectAll(s) = many[Len(s)]
  BY <1>7, Zenon DEF CollectAll
<1>9. ASSUME NEW m, m = [n \in D |-> IF n = 0 THEN <<>> ELSE Collect(m[n - 1], s[n])]
      PROVE  \A n \in 0 .. Len(s) : m[n] = f[n]
  <2> DEFINE T == {n \in 0 .. Len(s) : m[n] = f[n]}
  <2>1. 0 \in T
    BY <1>7, <1>9
  <2>2. \A n \in 0 .. Len(s) : n \in T /\ n < Len(s) => n + 1 \in T
    <3> SUFFICES ASSUME NEW n \in 0 .. Len(s), m[n] = f[n], n < Len(s) PROVE m[n + 1] = f[n + 1]
      OBVIOUS
    <3>1. n + 1 \in D /\ n + 1 # 0 /\ (n + 1) - 1 = n
      OBVIOUS
    <3> QED  BY <1>7, <1>9, <3>1
  <2> HIDE DEF T
  <2>3. \A n \in 0 .. Len(s) : n \in T
    BY <2>1, <2>2, UpTo
  <2> QED  BY <2>3 DEF T
<1>10. many[Len(s)] = f[Len(s)]
  <2> HIDE DEF many
  <2> QED  BY <1>8, <1>9
<1>11. Collecting(s, f)
  <2>1. \A n \in 1 .. Len(s) : n \in D /\ n # 0
    OBVIOUS
  <2> QED  BY <1>7, <2>1 DEF Collecting
<1> QED  BY <1>7, <1>8, <1>10, <1>11

\* Everything collected comes from some item.
LEMMA CollectAllType ==
    ASSUME NEW X, NEW s, Len(s) \in Nat, \A k \in 1 .. Len(s) : Spliced(s[k]) \in Seq(X)
    PROVE  CollectAll(s) \in Seq(X)
<1>1. PICK f \in [0 .. Len(s) -> Seq(X)] : Collecting(s, f) /\ CollectAll(s) = f[Len(s)]
  BY CollectAllUnfolds
<1> QED  BY <1>1

\* What is appended decides what is collected.
LEMMA CollectAllSame ==
    ASSUME NEW X, NEW s, NEW t, Len(s) \in Nat, Len(t) = Len(s),
           \A k \in 1 .. Len(s) : Spliced(s[k]) \in Seq(X) /\ Spliced(t[k]) = Spliced(s[k])
    PROVE  CollectAll(t) = CollectAll(s)
<1>1. PICK f \in [0 .. Len(s) -> Seq(X)] : Collecting(s, f) /\ CollectAll(s) = f[Len(s)]
  BY CollectAllUnfolds
<1>2. PICK g \in [0 .. Len(t) -> Seq(X)] : Collecting(t, g) /\ CollectAll(t) = g[Len(t)]
  BY CollectAllUnfolds
<1> DEFINE T == {n \in 0 .. Len(s) : g[n] = f[n]}
<1>3. 0 \in T
  BY <1>1, <1>2 DEF Collecting
<1>4. \A n \in 0 .. Len(s) : n \in T /\ n < Len(s) => n + 1 \in T
  <2> SUFFICES ASSUME NEW n \in 0 .. Len(s), g[n] = f[n], n < Len(s) PROVE g[n + 1] = f[n + 1]
    OBVIOUS
  <2>1. n + 1 \in 1 .. Len(s) /\ (n + 1) - 1 = n
    OBVIOUS
  <2>2. f[n + 1] = Collect(f[n], s[n + 1]) /\ g[n + 1] = Collect(f[n], t[n + 1])
    BY <1>1, <1>2, <2>1 DEF Collecting
  <2>5. f[n] \in Seq(X) /\ Spliced(s[n + 1]) \in Seq(X) /\ Spliced(t[n + 1]) = Spliced(s[n + 1])
    BY <2>1
  <2>3. f[n + 1] = f[n] \o Spliced(s[n + 1])
    BY <2>2, <2>5, CollectSplices
  <2>4. g[n + 1] = f[n] \o Spliced(t[n + 1])
    BY <2>2, <2>5, CollectSplices
  <2> QED  BY <2>3, <2>4, <2>5
<1> HIDE DEF T
<1>5. \A n \in 0 .. Len(s) : n \in T
  BY <1>3, <1>4, UpTo
<1> QED  BY <1>1, <1>2, <1>5 DEF T

-----------------------------------------------------------------------------
\* What a choice is.
LEMMA OneOfEachElim ==
    ASSUME NEW f, NEW g \in OneOfEach(f)
    PROVE  DOMAIN g = DOMAIN f /\ g = [k \in DOMAIN f |-> g[k]] /\ \A k \in DOMAIN f : g[k] \in f[k]
  BY DEF OneOfEach

\* A function that chooses is a choice.
LEMMA OneOfEachIntro ==
    ASSUME NEW f, NEW g, g = [k \in DOMAIN f |-> g[k]], \A k \in DOMAIN f : g[k] \in f[k]
    PROVE  g \in OneOfEach(f)
<1>1. \A k \in DOMAIN f : g[k] \in UNION {f[l] : l \in DOMAIN f}
  OBVIOUS
<1>2. g \in [DOMAIN f -> UNION {f[l] : l \in DOMAIN f}]
  BY <1>1
<1> QED  BY <1>2 DEF OneOfEach

\* There is a choice where there is something to choose from.
LEMMA OneOfEachSome ==
    ASSUME NEW f, \A k \in DOMAIN f : f[k] # {}
    PROVE  \E g : g \in OneOfEach(f)
<1> DEFINE g == [k \in DOMAIN f |-> CHOOSE x \in f[k] : TRUE]
<1>1. \A k \in DOMAIN f : g[k] \in f[k]
  OBVIOUS
<1>2. g = [k \in DOMAIN f |-> g[k]]
  OBVIOUS
<1> HIDE DEF g
<1> QED  BY <1>1, <1>2, OneOfEachIntro

\* A choice that has x at k.
LEMMA OneOfEachWith ==
    ASSUME NEW f, \A k \in DOMAIN f : f[k] # {}, NEW k \in DOMAIN f, NEW x \in f[k]
    PROVE  \E g \in OneOfEach(f) : g[k] = x
<1> DEFINE g == [l \in DOMAIN f |-> IF l = k THEN x ELSE CHOOSE y \in f[l] : TRUE]
<1>1. \A l \in DOMAIN f : g[l] \in f[l]
  OBVIOUS
<1>2. g = [l \in DOMAIN f |-> g[l]] /\ g[k] = x
  OBVIOUS
<1> HIDE DEF g
<1> QED  BY <1>1, <1>2, OneOfEachIntro

\* The items of a collection are the values at its places, all of them.
LEMMA ItemsOf ==
    ASSUME NEW W, NEW v \in Nest(W), IsCollection(v), NEW items \in Enumerated(v)
    PROVE  /\ items \in Seq(W)
           /\ Len(items) \in Nat
           /\ DOMAIN items = 1 .. Len(items)
           /\ \A k \in DOMAIN items : \E p \in Places(v) : items[k] = Data(v)[p]
           /\ \A p \in Places(v) : \E k \in DOMAIN items : items[k] = Data(v)[p]
<1>1. CASE Kind(v) = "list"
  <2>1. items = Data(v) /\ Data(v) \in Seq(W) /\ Places(v) = DOMAIN Data(v)
    BY <1>1, NestElim DEF Enumerated, Places
  <2> QED  BY <2>1
<1>2. CASE Kind(v) = "map"
  <2> DEFINE P == Places(v)
  <2>1. P \in SUBSET Field
    BY <1>2 DEF Places
  <2>2. PICK keys \in Orders(P) : items = [k \in DOMAIN keys |-> Data(v)[keys[k]]]
    BY <1>2 DEF Enumerated
  <2>3. IsFiniteSet(P) /\ Cardinality(P) \in Nat
    BY <2>1, FS_Subset, FS_CardinalityType, SelectorAssumption
  <2>4. \A p \in P : Data(v)[p] \in W
    BY NestParts
  <2> HIDE DEF P
  <2>5. /\ keys \in [1 .. Cardinality(P) -> P]
        /\ \A p \in P : \E k \in 1 .. Cardinality(P) : keys[k] = p
    BY <2>2 DEF Orders
  <2>6. /\ items \in [1 .. Cardinality(P) -> W]
        /\ \A k \in 1 .. Cardinality(P) : items[k] = Data(v)[keys[k]]
    BY <2>2, <2>4, <2>5
  <2>7. items \in Seq(W) /\ Len(items) = Cardinality(P) /\ DOMAIN items = 1 .. Cardinality(P)
    BY <2>3, <2>6
  <2>8. \A k \in DOMAIN items : \E p \in P : items[k] = Data(v)[p]
    BY <2>5, <2>6, <2>7
  <2>9. \A p \in P : \E k \in DOMAIN items : items[k] = Data(v)[p]
    BY <2>5, <2>6, <2>7
  <2> QED  BY <2>3, <2>7, <2>8, <2>9 DEF P
<1> QED  BY <1>1, <1>2 DEF IsCollection

\* There is an order of the keys of a map, and so a sequence of the items.
LEMMA ItemsExist == ASSUME NEW v PROVE Enumerated(v) # {}
<1>1. CASE Kind(v) = "list"
  BY <1>1 DEF Enumerated
<1>2. CASE Kind(v) # "list"
  <2> DEFINE P == Places(v)
             I == 1 .. Cardinality(P)
  <2>1. P \subseteq Field
    BY <1>2 DEF Places
  <2>2. IsFiniteSet(P)
    BY <2>1, FS_Subset, SelectorAssumption
  <2>3. PICK keys : keys \in Bijection(I, P)
    BY <2>2, FS_CardinalityType DEF ExistsBijection
  <2>4. keys \in [I -> P] /\ \A p \in P : \E k \in I : keys[k] = p
    BY <2>3 DEF Bijection, Surjection
  <2>5. keys \in Orders(P)
    <3> HIDE DEF P
    <3> QED  BY <2>4 DEF Orders
  <2> QED  BY <1>2, <2>5 DEF Enumerated
<1> QED  BY <1>1, <1>2

-----------------------------------------------------------------------------
(***************************************************************************)
(* The conversion of lists, outcomes and segments.                         *)
(***************************************************************************)
\* The items of a list have one type, and none of them is nil.
OneType(s) == s # <<>> /\ \A k \in DOMAIN s : s[k] # Nil /\ TypeOf(s[k]) = TypeOf(s[1])

\* The conversion of a list gives its items' type, leaves it or panics.
LEMMA TypedList ==
    ASSUME NEW W, W \subseteq Nest(W), NEW v, Kind(v) = "list", Data(v) \in Seq(W)
    PROVE  /\ OneType(Data(v)) => Typed(v) = Value(List(TypeOf(Data(v)[1]), Data(v)))
           /\ ~OneType(Data(v)) =>
                 \/ Typed(v) = Value(v)
                 \/ Typed(v) = Panic /\ Data(v) # <<>> /\ Data(v)[1] = Nil
<1> DEFINE s == Data(v)
           named == {k \in DOMAIN s : s[k] # Nil}
           first == CHOOSE k \in named : \A l \in named : k <= l
           common == \A k \in first .. Len(s) : TypeOf(s[k]) = TypeOf(s[first])
<1>0. s \in Seq(W) /\ Len(s) \in Nat /\ DOMAIN s = 1 .. Len(s)
  OBVIOUS
<1>1. Typed(v) = IF named = {} THEN Value(v)
                 ELSE IF ~common THEN Value(v)
                 ELSE IF first = 1 THEN Value(List(TypeOf(s[1]), s)) ELSE Panic
  BY DEF Typed
<1>2. named # {} => first \in named /\ \A l \in named : first <= l
  <2> SUFFICES ASSUME named # {} PROVE first \in named /\ \A l \in named : first <= l
    OBVIOUS
  <2>1. named \subseteq Nat
    BY <1>0
  <2> HIDE DEF named
  <2>2. \E k \in named : \A l \in named : k <= l
    BY <2>1, LeastOf
  <2> QED  BY <2>2
<1> HIDE DEF first
<1>3. ASSUME OneType(s) PROVE Typed(v) = Value(List(TypeOf(s[1]), s))
  <2>1. 1 \in DOMAIN s /\ \A k \in DOMAIN s : s[k] # Nil /\ TypeOf(s[k]) = TypeOf(s[1])
    BY <1>0, <1>3 DEF OneType
  <2>2. 1 \in named /\ named # {}
    BY <2>1
  <2>3. first = 1
    BY <1>0, <1>2, <2>2
  <2>4. common
    BY <1>0, <2>1, <2>3
  <2> QED  BY <1>1, <2>2, <2>3, <2>4
<1>4. ASSUME ~OneType(s)
      PROVE  Typed(v) = Value(v) \/ (Typed(v) = Panic /\ s # <<>> /\ s[1] = Nil)
  <2> SUFFICES ASSUME named # {}, common PROVE Typed(v) = Panic /\ s # <<>> /\ s[1] = Nil
    BY <1>1
  <2>1. first \in DOMAIN s /\ s # <<>> /\ 1 \in DOMAIN s
    BY <1>0, <1>2
  <2>2. ASSUME first = 1 PROVE FALSE
    <3>1. \A k \in DOMAIN s : TypeOf(s[k]) = TypeOf(s[1])
      BY <1>0, <2>2
    <3>2. s[1] # Nil /\ s[1] \in Nest(W)
      BY <1>0, <1>2, <2>1, <2>2
    <3>3. Kind(s[1]) # "nil"
      BY <3>2, NestElim
    <3>4. \A k \in DOMAIN s : Kind(s[k]) # "nil"
      BY <3>1, <3>3 DEF Kind, TypeOf
    <3>5. \A k \in DOMAIN s : s[k] # Nil
      BY <3>4 DEF Kind, Nil
    <3> QED  BY <1>4, <2>1, <3>1, <3>5 DEF OneType
  <2>3. 1 \notin named
    <3>1. 1 \in named => first <= 1
      BY <1>2
    <3> QED  BY <1>0, <2>1, <2>2, <3>1
  <2> QED  BY <1>1, <2>1, <2>2, <2>3
<1> QED  BY <1>3, <1>4

\* The conversion leaves what is no list.
LEMMA TypedOther == ASSUME NEW v, Kind(v) # "list" PROVE Typed(v) = Value(v)
  BY DEF Typed

\* The three sorts of outcomes differ.
LEMMA OutcomeParts ==
    /\ \A v : Status(Value(v)) = "value" /\ Result(Value(v)) = v
    /\ Status(ResolutionError) = "error" /\ Status(Panic) = "panic"
    /\ \A v, w : Value(v) = Value(w) => v = w
    /\ \A v : Value(v) # Panic /\ Value(v) # ResolutionError
    /\ Panic # ResolutionError
<1>1. \A v : Status(Value(v)) = "value" /\ Result(Value(v)) = v
  BY DEF Status, Result, Value
<1>2. Status(ResolutionError) = "error" /\ Status(Panic) = "panic"
  BY DEF Status, ResolutionError, Panic
<1>3. \A v, w : Value(v) = Value(w) => v = w
  <2> SUFFICES ASSUME NEW v, NEW w, Value(v) = Value(w) PROVE v = w
    OBVIOUS
  <2>1. Result(Value(v)) = v /\ Result(Value(w)) = w
    BY <1>1
  <2> QED  BY <2>1
<1>4. \A v : Value(v) # Panic /\ Value(v) # ResolutionError
  BY <1>1, <1>2
<1> QED  BY <1>1, <1>2, <1>3, <1>4

\* The kind, type and data of a list.
LEMMA ListParts ==
    ASSUME NEW t, NEW s PROVE Kind(<<t, s>>) = t[1] /\ TypeOf(<<t, s>>) = t /\ Data(<<t, s>>) = s
  BY DEF Kind, TypeOf, Data

\* An untyped list is a value.
LEMMA ListOfAny ==
    ASSUME NEW W, NEW s \in Seq(W)
    PROVE  /\ List(AnyType, s) \in Nest(W) /\ Kind(List(AnyType, s)) = "list"
           /\ TypeOf(List(AnyType, s)) = <<"list">> \o AnyType /\ Data(List(AnyType, s)) = s
<1> DEFINE t == <<"list">> \o AnyType
<1>1. List(AnyType, s) = <<t, s>>
  BY Zenon DEF List
<1>2. AnyType \in Seq(TypeNames)
  BY DEF AnyType, TypeNames
<1>3. t \in ListTypes /\ t[1] = "list"
  BY <1>2, ListTypeIntro, Zenon
<1> HIDE DEF t
<1>4. <<t, s>> \in Nest(W)
  BY <1>3, NestIntro
<1>5. Kind(<<t, s>>) = "list" /\ TypeOf(<<t, s>>) = t /\ Data(<<t, s>>) = s
  BY <1>3, ListParts
<1> QED  BY <1>1, <1>4, <1>5 DEF t

\* The nil slice is a value.
LEMMA NilSliceValue ==
    /\ Kind(NilSlice) = "list" /\ Data(NilSlice) = <<>>
    /\ \A W : NilSlice \in Nest(W)
<1>1. <<"list", "any", "nil">> \in ListTypes
  BY DEF ListTypes, TypeNames
<1>2. \A W : <<>> \in Seq(W)
  OBVIOUS
<1>3. \A W : <<<<"list", "any", "nil">>, <<>>>> \in Nest(W)
  BY <1>1, <1>2, NestIntro
<1> QED  BY <1>3 DEF NilSlice, Kind, Data

\* The conversion keeps the data.
LEMMA TypedKeeps ==
    ASSUME NEW W, W \subseteq Nest(W), NEW v \in Nest(W)
    PROVE  \/ Typed(v) = Panic /\ Kind(v) = "list"
           \/ \E x \in Nest(W) : Typed(v) = Value(x) /\ Kind(x) = Kind(v) /\ Data(x) = Data(v)
<1>1. CASE Kind(v) # "list"
  BY <1>1, TypedOther
<1>2. CASE Kind(v) = "list"
  <2>1. Data(v) \in Seq(W)
    BY <1>2, NestElim
  <2>2. CASE ~OneType(Data(v))
    BY <1>2, <2>1, <2>2, TypedList
  <2>3. CASE OneType(Data(v))
    <3> DEFINE t == TypeOf(Data(v)[1])
               x == <<<<"list">> \o t, Data(v)>>
    <3>1. Typed(v) = Value(x)
      BY <1>2, <2>1, <2>3, TypedList DEF List
    <3>2. Data(v)[1] \in Nest(W)
      BY <2>1, <2>3 DEF OneType
    <3>3. t \in Seq(TypeNames)
      BY <3>2, TypeOfValue
    <3> HIDE DEF t
    <3>4. <<"list">> \o t \in ListTypes /\ (<<"list">> \o t)[1] = "list"
      BY <3>3, ListTypeIntro
    <3>5. x \in Nest(W) /\ Kind(x) = "list" /\ Data(x) = Data(v)
      BY <2>1, <3>4, NestIntro, ListParts
    <3> HIDE DEF x
    <3> QED  BY <1>2, <3>1, <3>5
  <2> QED  BY <2>2, <2>3
<1> QED  BY <1>1, <1>2

\* What a selector may resolve to over the values in V.
Outs(V) == ({"value"} \X V) \cup {ResolutionError, Panic}

\* What an outcome is.
LEMMA OutsElim ==
    ASSUME NEW V, NEW o \in Outs(V)
    PROVE  /\ Status(o) \in {"value", "error", "panic"}
           /\ Status(o) = "value" => Result(o) \in V /\ o = Value(Result(o))
           /\ Status(o) = "error" => o = ResolutionError
           /\ Status(o) = "panic" => o = Panic
<1>1. CASE o = ResolutionError
  BY <1>1, OutcomeParts
<1>2. CASE o = Panic
  BY <1>2, OutcomeParts
<1>3. CASE o \in {"value"} \X V
  BY <1>3 DEF Status, Result, Value
<1> QED  BY <1>1, <1>2, <1>3 DEF Outs

\* The ways to build an outcome.
LEMMA OutsIntro ==
    ASSUME NEW V
    PROVE  /\ \A v \in V : Value(v) \in Outs(V)
           /\ ResolutionError \in Outs(V) /\ Panic \in Outs(V)
           /\ \A X : V \subseteq X => Outs(V) \subseteq Outs(X)
  BY DEF Outs, Value

\* The forms of segments.
LEMMA SegmentForms ==
    ASSUME NEW seg \in Segments
    PROVE  /\ seg[1] \in {"identity", "iterator", "field", "index", "slice"}
           /\ seg[1] = "field" => seg[3] \in Field
           /\ seg[1] = "index" => seg[3] \in Int
           /\ seg[1] = "slice" => seg[3] \in Seq(Int) /\ Len(seg[3]) \in {1, 2}
           /\ seg[1] = "identity" => seg = <<"identity">>
<1>1. CASE seg = <<"identity">>
  BY <1>1
<1>2. CASE seg \in {"iterator"} \X BOOLEAN
  BY <1>2
<1>3. CASE seg \in {"field"} \X BOOLEAN \X Field
  BY <1>3
<1>4. CASE seg \in {"index"} \X BOOLEAN \X Int
  BY <1>4
<1>5. CASE seg \in {"slice"} \X BOOLEAN \X {r \in Seq(Int) : Len(r) \in {1, 2}}
  BY <1>5
<1> QED  BY <1>1, <1>2, <1>3, <1>4, <1>5 DEF Segments

-----------------------------------------------------------------------------
(***************************************************************************)
(* One turn of the loop over the segments.                                 *)
(***************************************************************************)
\* What a segment that is no iterator may yield.
Yielded(seg, v, x) ==
    \/ x = v
    \/ x = Nil
    \/ \E p \in Places(v) : x = Data(v)[p]
    \/ \E c \in STRING : x = Str(<<c>>)
    \/ /\ seg[1] = "slice"
       /\ IsIndexed(v)
       /\ \E lo, hi \in Int : /\ 1 <= lo /\ hi <= Len(Data(v))
                              /\ x = <<TypeOf(v), SubSeq(Data(v), lo, hi)>>

\* A sequence of one item.
LEMMA OneItem == \A S : \A c \in S : <<c>> \in Seq(S) /\ Len(<<c>>) = 1 /\ <<c>>[1] = c
  OBVIOUS

\* A segment that does not fit yields nil or an error.
LEMMA MissingIs == ASSUME NEW seg PROVE Missing(seg) \in {Value(Nil), ResolutionError}
  BY DEF Missing

\* A turn of the loop, by the form of its segment.
LEMMA StepIs ==
    ASSUME NEW seg, NEW v, NEW rest
    PROVE  /\ seg[1] = "identity" => Step(seg, v, rest) = {Value(v)}
           /\ seg[1] = "iterator" => Step(seg, v, rest) = ResolveIterator(seg, v, rest)
           /\ seg[1] = "field" => Step(seg, v, rest) = {ResolveField(seg, v)}
           /\ seg[1] = "slice" => Step(seg, v, rest) = {ResolveSlice(seg, v)}
           /\ seg[1] = "index" => Step(seg, v, rest) = {ResolveIndex(seg, v)}
  BY DEF Step

\* What a segment that is no iterator yields; only a cut panics.
LEMMA StepYields ==
    ASSUME NEW W, NEW v \in Nest(W), NEW seg \in Segments, ~IsIterator(seg), NEW rest,
           NEW o \in Step(seg, v, rest)
    PROVE  \/ o = ResolutionError
           \/ seg[1] = "slice" /\ o = Panic
           \/ \E x : o = Value(x) /\ Yielded(seg, v, x)
<1>1. CASE seg[1] = "identity"
  BY <1>1, StepIs DEF Yielded
<1>2. CASE seg[1] = "field"
  <2>1. o = ResolveField(seg, v)
    BY <1>2, StepIs
  <2>2. CASE Kind(v) = "map" /\ seg[3] \in Places(v)
    BY <2>1, <2>2 DEF ResolveField, Yielded
  <2>3. CASE ~(Kind(v) = "map" /\ seg[3] \in Places(v))
    BY <2>1, <2>3, MissingIs DEF ResolveField, Yielded
  <2> QED  BY <2>2, <2>3
<1>3. CASE seg[1] = "index"
  <2>1. o = ResolveIndex(seg, v)
    BY <1>3, StepIs
  <2> DEFINE k == IF seg[3] < 0 THEN Len(Data(v)) + seg[3] ELSE seg[3]
             bad == ~IsIndexed(v) \/ k \notin 0 .. Len(Data(v)) - 1
  <2>2. o = IF bad THEN Missing(seg)
            ELSE Value(IF Kind(v) = "list" THEN Data(v)[k + 1] ELSE Str(<<Data(v)[k + 1]>>))
    BY <2>1 DEF ResolveIndex
  <2>3. CASE bad
    BY <2>2, <2>3, MissingIs DEF Yielded
  <2>4. CASE ~bad
    <3>1. IsIndexed(v) /\ k \in 0 .. Len(Data(v)) - 1
      BY <2>4
    <3> HIDE DEF k
    <3>2. CASE Kind(v) = "list"
      <4>1. Data(v) \in Seq(W) /\ Places(v) = DOMAIN Data(v)
        BY <3>2, NestElim DEF Places
      <4>2. k + 1 \in Places(v)
        BY <3>1, <4>1
      <4> QED  BY <2>2, <2>4, <3>2, <4>2 DEF Yielded
    <3>3. CASE Kind(v) # "list"
      <4>1. Kind(v) = "string"
        BY <3>1, <3>3 DEF IsIndexed
      <4>2. Data(v) \in Seq(STRING)
        BY <4>1, NestElim
      <4>3. Data(v)[k + 1] \in STRING
        BY <3>1, <4>2
      <4> QED  BY <2>2, <2>4, <3>3, <4>3 DEF Yielded
    <3> QED  BY <3>2, <3>3
  <2> QED  BY <2>3, <2>4
<1>4. CASE seg[1] = "slice"
  <2>1. o = ResolveSlice(seg, v)
    BY <1>4, StepIs
  <2> DEFINE lo == seg[3][1]
             hi == IF Len(seg[3]) = 1 THEN Len(Data(v)) ELSE seg[3][2]
  <2>2. o = IF ~IsIndexed(v) THEN Missing(seg)
            ELSE IF hi > Len(Data(v)) THEN ResolutionError
            ELSE IF lo < 0 \/ hi < lo THEN Panic
            ELSE Value(<<TypeOf(v), SubSeq(Data(v), lo + 1, hi)>>)
    BY <2>1 DEF ResolveSlice
  <2>3. CASE ~IsIndexed(v)
    BY <2>2, <2>3, MissingIs DEF Yielded
  <2>4. CASE IsIndexed(v) /\ ~(hi > Len(Data(v))) /\ ~(lo < 0 \/ hi < lo)
    <3>1. seg[3] \in Seq(Int) /\ Len(seg[3]) \in {1, 2}
      BY <1>4, SegmentForms
    <3>2. Len(Data(v)) \in Int
      BY <2>4, NestElim DEF IsIndexed
    <3>3. lo \in Int /\ hi \in Int
      BY <3>1, <3>2
    <3> HIDE DEF lo, hi
    <3>4. 1 <= lo + 1 /\ hi <= Len(Data(v)) /\ lo + 1 \in Int
      BY <2>4, <3>2, <3>3
    <3>5. o = Value(<<TypeOf(v), SubSeq(Data(v), lo + 1, hi)>>)
      BY <2>2, <2>4
    <3> QED  BY <1>4, <2>4, <3>3, <3>4, <3>5 DEF Yielded
  <2>5. CASE IsIndexed(v) /\ (hi > Len(Data(v)) \/ lo < 0 \/ hi < lo)
    BY <1>4, <2>2, <2>5
  <2> QED  BY <2>3, <2>4, <2>5
<1> QED  BY <1>1, <1>2, <1>3, <1>4, SegmentForms DEF IsIterator

\* What a segment yields is a value again, as deep as the one it is from.
LEMMA YieldedType ==
    ASSUME NEW W, W \subseteq Nest(W), NEW v \in Nest(W), NEW seg, NEW x, Yielded(seg, v, x)
    PROVE  x \in Nest(W)
<1>1. CASE x = v \/ x = Nil
  BY <1>1, NestIntro
<1>2. CASE \E p \in Places(v) : x = Data(v)[p]
  BY <1>2, NestParts
<1>3. CASE \E c \in STRING : x = Str(<<c>>)
  <2>1. PICK c \in STRING : x = Str(<<c>>)
    BY <1>3
  <2>2. <<c>> \in Seq(STRING)
    BY <2>1, OneItem
  <2> QED  BY <2>1, <2>2, NestIntro
<1>4. CASE /\ IsIndexed(v)
           /\ \E lo, hi \in Int : /\ 1 <= lo /\ hi <= Len(Data(v))
                                  /\ x = <<TypeOf(v), SubSeq(Data(v), lo, hi)>>
  <2>1. PICK lo, hi \in Int : /\ 1 <= lo /\ hi <= Len(Data(v))
                              /\ x = <<TypeOf(v), SubSeq(Data(v), lo, hi)>>
    BY <1>4
  <2>2. CASE Kind(v) = "list"
    <3>1. TypeOf(v) \in ListTypes /\ Data(v) \in Seq(W)
      BY <2>2, NestElim
    <3>2. SubSeq(Data(v), lo, hi) \in Seq(W)
      BY <2>1, <3>1, SubSeqProperties
    <3> QED  BY <2>1, <3>1, <3>2, NestIntro
  <2>3. CASE Kind(v) = "string"
    <3>1. TypeOf(v) = <<"string">> /\ Data(v) \in Seq(STRING)
      BY <2>3, NestElim
    <3>2. SubSeq(Data(v), lo, hi) \in Seq(STRING)
      BY <2>1, <3>1, SubSeqProperties
    <3> QED  BY <2>1, <3>1, <3>2, NestIntro DEF Str
  <2> QED  BY <1>4, <2>2, <2>3 DEF IsIndexed
<1> QED  BY <1>1, <1>2, <1>3, <1>4 DEF Yielded

\* What an iterator collects of its results.
Collected(results) == CollectAll([k \in DOMAIN results |-> Result(results[k])])

ListOf(many) == IF many = <<>> THEN NilSlice ELSE List(AnyType, many)

\* The results of an iterator for its items.
ResultsFor(items, rest, results) ==
    /\ DOMAIN results = DOMAIN items /\ results = [k \in DOMAIN items |-> results[k]]
    /\ \A k \in DOMAIN items : results[k] \in rest[items[k]]

\* Results fail with one of them, or all of them are collected.
LEMMA IteratedIs ==
    ASSUME NEW results, DOMAIN results \subseteq Nat
    PROVE  \/ \E k \in DOMAIN results :
                 Status(results[k]) # "value" /\ Iterated(results) = results[k]
           \/ /\ \A k \in DOMAIN results : Status(results[k]) = "value"
              /\ Iterated(results) = Value(ListOf(Collected(results)))
<1> DEFINE failed == {k \in DOMAIN results : Status(results[k]) # "value"}
           first == CHOOSE k \in failed : \A l \in failed : k <= l
           many == Collected(results)
<1>1. Iterated(results) =
        IF failed # {} THEN results[first]
        ELSE Value(IF many = <<>> THEN NilSlice ELSE List(AnyType, many))
  BY DEF Iterated, Collected
<1> HIDE DEF many
<1>3. CASE failed = {}
  BY <1>1, <1>3 DEF ListOf, many
<1>4. CASE failed # {}
  <2>1. failed \subseteq Nat
    OBVIOUS
  <2>2. first \in failed
    <3> HIDE DEF failed
    <3>1. \E k \in failed : \A l \in failed : k <= l
      BY <1>4, <2>1, LeastOf
    <3> QED  BY <3>1
  <2> HIDE DEF first
  <2> QED  BY <1>1, <1>4, <2>2
<1> QED  BY <1>3, <1>4

\* An iterator fails with one of its items, or collects all of them, in some
\* order.
LEMMA IteratorIs ==
    ASSUME NEW W, NEW v \in Nest(W), IsCollection(v), NEW seg, NEW rest,
           NEW o \in ResolveIterator(seg, v, rest)
    PROVE  \E items \in Enumerated(v) : \E results :
              /\ ResultsFor(items, rest, results)
              /\ \/ \E k \in DOMAIN items : Status(results[k]) # "value" /\ o = results[k]
                 \/ /\ \A k \in DOMAIN items : Status(results[k]) = "value"
                    /\ o = Value(ListOf(Collected(results)))
<1> DEFINE C(items) == OneOfEach([k \in DOMAIN items |-> rest[items[k]]])
<1>1. PICK items \in Enumerated(v) : \E results \in C(items) : o = Iterated(results)
  BY DEF ResolveIterator
<1> DEFINE f == [k \in DOMAIN items |-> rest[items[k]]]
<1>2. PICK results : results \in OneOfEach(f) /\ o = Iterated(results)
  BY <1>1
<1>3. DOMAIN f = DOMAIN items /\ \A k \in DOMAIN items : f[k] = rest[items[k]]
  OBVIOUS
<1> HIDE DEF f
<1>4. ResultsFor(items, rest, results)
  BY <1>2, <1>3, OneOfEachElim DEF ResultsFor
<1>5. DOMAIN results \subseteq Nat
  BY <1>4, ItemsOf DEF ResultsFor
<1>6. \/ \E k \in DOMAIN results : Status(results[k]) # "value" /\ o = results[k]
      \/ /\ \A k \in DOMAIN results : Status(results[k]) = "value"
         /\ o = Value(ListOf(Collected(results)))
  BY <1>2, <1>5, IteratedIs
<1>7. DOMAIN results = DOMAIN items
  BY <1>4 DEF ResultsFor
<1> QED  BY <1>4, <1>6, <1>7

\* Sets of values that hold the parts of their values, as the levels do.
Closed(W) == W \subseteq Nest(W) /\ \A r \in W : Spliced(r) \in Seq(W)

\* A result is spliced to values one level down.
LEMMA SplicedType ==
    ASSUME NEW U, NEW W, U \subseteq W, NEW r \in W, r \in Nest(U)
    PROVE  Spliced(r) \in Seq(W)
<1>2. CASE Kind(r) = "nil"
  BY <1>2 DEF Spliced
<1>3. CASE Kind(r) = "list"
  <2>1. Data(r) \in Seq(U)
    BY <1>3, NestElim
  <2>2. Seq(U) \subseteq Seq(W)
    OBVIOUS
  <2> QED  BY <1>3, <2>1, <2>2 DEF Spliced
<1>4. CASE Kind(r) # "nil" /\ Kind(r) # "list"
  BY <1>4, OneItem DEF Spliced
<1> QED  BY <1>2, <1>3, <1>4

\* Every level of values has the parts of its values.
LEMMA LevelsClosed == \A n \in Nat : Closed(ValuesTo[n])
<1> SUFFICES ASSUME NEW n \in Nat PROVE Closed(ValuesTo[n])
  OBVIOUS
<1>1. CASE n = 0
  BY <1>1, ValuesToStep DEF Closed
<1>2. CASE n # 0
  <2> DEFINE U == ValuesTo[n - 1]
             W == ValuesTo[n]
  <2>1. n - 1 \in Nat /\ W = Nest(U) /\ U \subseteq W
    BY <1>2, ValuesToStep, ValuesToIncrease
  <2> HIDE DEF U, W
  <2>2. W \subseteq Nest(W)
    BY <2>1, NestGrows
  <2>3. \A r \in W : Spliced(r) \in Seq(W)
    BY <2>1, SplicedType
  <2> QED  BY <2>2, <2>3 DEF Closed, W
<1> QED  BY <1>1, <1>2

\* What an iterator collects are values of the same level as the items.
LEMMA CollectedType ==
    ASSUME NEW W, Closed(W), NEW v \in Nest(W), IsCollection(v), NEW items \in Enumerated(v),
           NEW results, DOMAIN results = DOMAIN items, \A k \in DOMAIN items : Result(results[k]) \in W
    PROVE  Collected(results) \in Seq(W)
<1> DEFINE s == [k \in DOMAIN results |-> Result(results[k])]
<1>1. Len(items) \in Nat /\ DOMAIN items = 1 .. Len(items)
  BY ItemsOf
<1>2. \A k \in DOMAIN items : s[k] \in W
  OBVIOUS
<1>3. Len(s) = Len(items)
  BY <1>1
<1> HIDE DEF s
<1>4. \A k \in 1 .. Len(s) : Spliced(s[k]) \in Seq(W)
  BY <1>1, <1>2, <1>3 DEF Closed
<1>5. CollectAll(s) \in Seq(W)
  BY <1>1, <1>3, <1>4, CollectAllType
<1> QED  BY <1>5 DEF Collected, s

\* The list of what was collected is a value.
LEMMA ListOfType ==
    ASSUME NEW W, NEW many \in Seq(W)
    PROVE  ListOf(many) \in Nest(W) /\ Kind(ListOf(many)) = "list" /\ Data(ListOf(many)) = many
  BY ListOfAny, NilSliceValue DEF ListOf

\* A turn of the loop stays within the level of its value.
LEMMA StepType ==
    ASSUME NEW W, Closed(W), NEW v \in Nest(W), NEW seg \in Segments,
           NEW rest, \A w \in W : rest[w] \subseteq Outs(W), NEW o \in Step(seg, v, rest)
    PROVE  o \in Outs(Nest(W))
<1>0. W \subseteq Nest(W)
  BY DEF Closed
<1>1. CASE ~IsIterator(seg)
  <2>1. CASE o = ResolutionError \/ o = Panic
    BY <2>1, OutsIntro
  <2>2. CASE \E x : o = Value(x) /\ Yielded(seg, v, x)
    BY <1>0, <2>2, YieldedType, OutsIntro
  <2> QED  BY <1>1, <2>1, <2>2, StepYields
<1>2. CASE IsIterator(seg) /\ ~IsCollection(v)
  <2>1. o = Missing(seg)
    BY <1>2, StepIs DEF IsIterator, ResolveIterator
  <2>2. Missing(seg) \in {Value(Nil), ResolutionError} /\ Nil \in Nest(W)
    BY MissingIs, NestIntro
  <2> QED  BY <2>1, <2>2, OutsIntro
<1>3. CASE IsIterator(seg) /\ IsCollection(v)
  <2>1. o \in ResolveIterator(seg, v, rest)
    BY <1>3, StepIs DEF IsIterator
  <2>2. PICK items, results :
           /\ items \in Enumerated(v)
           /\ ResultsFor(items, rest, results)
           /\ \/ \E k \in DOMAIN items : Status(results[k]) # "value" /\ o = results[k]
              \/ /\ \A k \in DOMAIN items : Status(results[k]) = "value"
                 /\ o = Value(ListOf(Collected(results)))
    BY <1>3, <2>1, IteratorIs
  <2>3. DOMAIN results = DOMAIN items /\ \A k \in DOMAIN items : results[k] \in Outs(W)
    BY <1>3, <2>2, ItemsOf DEF ResultsFor
  <2>4. CASE \E k \in DOMAIN items : o = results[k]
    <3>1. Outs(W) \subseteq Outs(Nest(W))
      BY <1>0, OutsIntro
    <3> QED  BY <2>3, <2>4, <3>1
  <2>5. CASE /\ \A k \in DOMAIN items : Status(results[k]) = "value"
             /\ o = Value(ListOf(Collected(results)))
    <3>1. \A k \in DOMAIN items : Result(results[k]) \in W
      BY <2>3, <2>5, OutsElim
    <3>2. Collected(results) \in Seq(W)
      BY <2>2, <1>3, <2>3, <3>1, CollectedType
    <3> QED  BY <2>5, <3>2, ListOfType, OutsIntro
  <2> QED  BY <2>2, <2>4, <2>5
<1> QED  BY <1>1, <1>2, <1>3

-----------------------------------------------------------------------------
(***************************************************************************)
(* Selectors: recursion over the segments, and what Resolve is.            *)
(***************************************************************************)
\* The first segment of a selector and the rest of it.
LEMMA SelectorParts ==
    ASSUME NEW sel \in Selectors, sel # <<>>
    PROVE  /\ Head(sel) \in Segments /\ Head(sel) = sel[1]
           /\ Tail(sel) \in Selectors /\ Len(Tail(sel)) = Len(sel) - 1
           /\ Len(sel) \in Nat \ {0} /\ DOMAIN sel = 1 .. Len(sel)
           /\ \A k \in 1 .. Len(sel) - 1 : Tail(sel)[k] = sel[k + 1]
  BY HeadTailProperties DEF Selectors

\* Induction over the segments of a selector.
LEMMA SelectorInduction ==
    ASSUME NEW T, <<>> \in T,
           \A sel \in Selectors : sel # <<>> /\ Tail(sel) \in T => sel \in T
    PROVE  Selectors \subseteq T
<1> DEFINE rank == [sel \in Selectors |-> Len(sel)]
<1>1. \A sel \in Selectors : rank[sel] \in Nat
  BY DEF Selectors
<1>2. ASSUME NEW sel \in Selectors, \A t \in Selectors : rank[t] < rank[sel] => t \in T
      PROVE  sel \in T
  <2>1. CASE sel # <<>>
    <3>1. Tail(sel) \in Selectors /\ rank[Tail(sel)] < rank[sel]
      BY <2>1, SelectorParts
    <3> QED  BY <1>2, <2>1, <3>1
  <2> QED  BY <2>1
<1> HIDE DEF rank
<1> QED  BY <1>1, <1>2, RankInduction

LooksAtTail(R, G) ==
    \A sel \in Selectors : \A g, h \in [Selectors -> R] :
        (sel # <<>> => g[Tail(sel)] = h[Tail(sel)]) => G[sel][g] = G[sel][h]

\* Recursion over the segments of a selector.
LEMMA SelectorRecursion ==
    ASSUME NEW R, R # {}, NEW G, Yields(Selectors, R, G), LooksAtTail(R, G)
    PROVE  \E f : FixedPoint(Selectors, R, G, f)
<1> DEFINE rank == [sel \in Selectors |-> Len(sel)]
<1>1. Ranked(Selectors, rank)
  BY DEF Selectors, Ranked
<1>2. ASSUME NEW sel \in Selectors, NEW g \in [Selectors -> R], NEW h \in [Selectors -> R],
             \A t \in Selectors : rank[t] < rank[sel] => g[t] = h[t]
      PROVE  G[sel][g] = G[sel][h]
  <2>1. ASSUME sel # <<>> PROVE g[Tail(sel)] = h[Tail(sel)]
    <3>1. Tail(sel) \in Selectors /\ rank[Tail(sel)] < rank[sel]
      BY <2>1, SelectorParts
    <3> QED  BY <1>2, <3>1
  <2> HIDE DEF rank
  <2> QED  BY <2>1 DEF LooksAtTail
<1> HIDE DEF rank
<1>3. LooksDown(Selectors, R, rank, G)
  BY <1>2 DEF LooksDown
<1> QED  BY <1>1, <1>3, Recursion

\* The values of a selector are no deeper than the one it is resolved against.
Resolvers ==
    {f \in [Values -> SUBSET Outcomes] :
        \A n \in 0 .. Depth : \A v \in ValuesTo[n] : f[v] \subseteq Outs(ValuesTo[n])}

Turn(sel, v, rest) == UNION {Then(o, rest) : o \in Step(Head(sel), v, rest)}

\* A turn is a step, and then the rest of the selector on what it yields.
LEMMA TurnIs ==
    ASSUME NEW sel, NEW v, NEW rest, NEW o \in Turn(sel, v, rest)
    PROVE  \E x \in Step(Head(sel), v, rest) :
              \/ Status(x) = "value" /\ o \in rest[Result(x)]
              \/ Status(x) # "value" /\ o = x
<1>1. PICK x \in Step(Head(sel), v, rest) : o \in Then(x, rest)
  BY DEF Turn
<1> QED  BY <1>1 DEF Then

\* The levels that make up the values.
LEMMA LevelsOfValues ==
    /\ \A n \in 0 .. Depth : n \in Nat /\ ValuesTo[n] \subseteq Values /\ Closed(ValuesTo[n])
    /\ \A v \in Values : \E n \in 0 .. Depth : n # 0 /\ v \in ValuesTo[n]
    /\ Values \subseteq Nest(Values) /\ Outcomes = Outs(Values)
<1>1. \A n \in 0 .. Depth : n \in Nat /\ ValuesTo[n] \subseteq Values /\ Closed(ValuesTo[n])
  BY LevelsClosed, ValuesToIncrease, SelectorAssumption DEF Values
<1>2. \A v \in Values : \E n \in 0 .. Depth : n # 0 /\ v \in ValuesTo[n]
  BY ValuesToStep, SelectorAssumption DEF Values
<1>3. Closed(Values)
  BY <1>1, SelectorAssumption DEF Values
<1> QED  BY <1>1, <1>2, <1>3 DEF Closed, Outcomes, Outs

\* The conversion stays within its level.
LEMMA TypedType ==
    ASSUME NEW n \in 0 .. Depth, NEW v \in ValuesTo[n]
    PROVE  Typed(v) \in Outs(ValuesTo[n])
<1>1. n \in Nat /\ n # 0
  BY ValuesToStep, SelectorAssumption
<1> DEFINE W == ValuesTo[n - 1]
<1>2. n - 1 \in 0 .. Depth /\ v \in Nest(W) /\ Nest(W) = ValuesTo[n]
  BY <1>1, ValuesToStep, SelectorAssumption
<1>3. W \subseteq Nest(W)
  BY <1>2, LevelsOfValues DEF Closed
<1> HIDE DEF W
<1>4. Typed(v) \in Outs(Nest(W))
  BY <1>2, <1>3, TypedKeeps, OutsIntro
<1> QED  BY <1>2, <1>4

\* A turn, with what the rest makes of it, stays within its level.
LEMMA TurnType ==
    ASSUME NEW n \in 0 .. Depth, NEW v \in ValuesTo[n],
           NEW sel \in Selectors, sel # <<>>, NEW rest \in Resolvers
    PROVE  Turn(sel, v, rest) \subseteq Outs(ValuesTo[n])
<1> SUFFICES ASSUME NEW x \in Turn(sel, v, rest) PROVE x \in Outs(ValuesTo[n])
  OBVIOUS
<1>1. n \in Nat /\ n # 0
  BY ValuesToStep, SelectorAssumption
<1> DEFINE W == ValuesTo[n - 1]
<1>2. n - 1 \in 0 .. Depth /\ v \in Nest(W) /\ Nest(W) = ValuesTo[n]
  BY <1>1, ValuesToStep, SelectorAssumption
<1>3. Closed(W) /\ \A w \in W : rest[w] \subseteq Outs(W)
  BY <1>2, LevelsOfValues DEF Resolvers
<1>4. Head(sel) \in Segments
  BY SelectorParts
<1> HIDE DEF W
<1>5. PICK o \in Step(Head(sel), v, rest) :
         \/ Status(o) = "value" /\ x \in rest[Result(o)]
         \/ Status(o) # "value" /\ x = o
  BY TurnIs
<1>6. o \in Outs(Nest(W))
  BY <1>2, <1>3, <1>4, StepType
<1>7. CASE Status(o) = "value" /\ x \in rest[Result(o)]
  <2>1. Result(o) \in ValuesTo[n]
    BY <1>2, <1>6, <1>7, OutsElim
  <2>2. rest[Result(o)] \subseteq Outs(ValuesTo[n])
    BY <2>1 DEF Resolvers
  <2> QED  BY <1>7, <2>2
<1>8. CASE Status(o) # "value" /\ x = o
  BY <1>2, <1>6, <1>8
<1> QED  BY <1>5, <1>7, <1>8

\* What resolving a selector is: one turn, and the rest of the selector.
LEMMA ResolveUnfolds ==
    \A sel \in Selectors :
        /\ Resolve[sel] \in Resolvers
        /\ \A v \in Values :
              Resolve[sel][v] =
                 IF sel = <<>> THEN {Typed(v)} ELSE Turn(sel, v, Resolve[Tail(sel)])
<1> DEFINE R == Resolvers
           H(sel, g) == [v \in Values |->
                            IF sel = <<>> THEN {Typed(v)} ELSE Turn(sel, v, g[Tail(sel)])]
           G == [sel \in Selectors |-> [g \in [Selectors -> R] |-> H(sel, g)]]
<1>1. ASSUME NEW sel \in Selectors, NEW g \in [Selectors -> R] PROVE H(sel, g) \in R
  <2> DEFINE f == H(sel, g)
  <2>1. ASSUME NEW n \in 0 .. Depth, NEW v \in ValuesTo[n] PROVE f[v] \subseteq Outs(ValuesTo[n])
    <3>1. v \in Values
      BY LevelsOfValues
    <3>2. CASE sel = <<>>
      BY <3>1, <3>2, TypedType
    <3>3. CASE sel # <<>>
      <4>1. g[Tail(sel)] \in Resolvers
        BY <3>3, SelectorParts
      <4> QED  BY <3>1, <3>3, <4>1, TurnType
    <3> QED  BY <3>2, <3>3
  <2>2. \A v \in Values : f[v] \subseteq Outcomes
    BY <2>1, LevelsOfValues, SelectorAssumption DEF Values
  <2>3. f = [v \in Values |-> f[v]]
    OBVIOUS
  <2> HIDE DEF f
  <2>4. f \in [Values -> SUBSET Outcomes]
    BY <2>2, <2>3
  <2>5. f \in Resolvers
    BY <2>1, <2>4 DEF Resolvers
  <2> QED  BY <2>5 DEF f
<1>2. Yields(Selectors, R, G)
  <2> HIDE DEF H, R
  <2> QED  BY <1>1 DEF Yields
<1>3. LooksAtTail(R, G)
  BY DEF LooksAtTail
<1>4. R # {}
  <2>1. [v \in Values |-> {ResolutionError}] \in Resolvers
    BY OutsIntro, LevelsOfValues DEF Resolvers
  <2> QED  BY <2>1
<1>5. \A sel \in Selectors : \A g \in [Selectors -> R] : G[sel][g] = H(sel, g)
  BY Zenon
<1> HIDE DEF G
<1>6. PICK f : FixedPoint(Selectors, R, G, f)
  <2> HIDE DEF H, R
  <2> QED  BY <1>2, <1>3, <1>4, SelectorRecursion
<1>7. f = [sel \in Selectors |-> H(sel, f)] /\ f \in [Selectors -> R]
  <2> HIDE DEF H, R
  <2> QED  BY <1>5, <1>6 DEF FixedPoint
<1>8. \E h : h = [sel \in Selectors |-> H(sel, h)]
  BY <1>7, Zenon
<1> DEFINE res == Resolve
<1>9. res = [sel \in Selectors |-> H(sel, res)]
  BY <1>8, Zenon DEF Resolve, Turn
<1> HIDE DEF res
<1>10. ASSUME NEW sel \in Selectors PROVE res[sel] = H(sel, res)
  <2> HIDE DEF H
  <2> QED  BY <1>9
<1> DEFINE T == {sel \in Selectors : res[sel] = f[sel]}
<1>11. Selectors \subseteq T
  <2>1. H(<<>>, res) = H(<<>>, f)
    OBVIOUS
  <2>2. <<>> \in T
    <3>1. <<>> \in Selectors
      BY DEF Selectors
    <3> HIDE DEF H
    <3> QED  BY <1>7, <1>10, <2>1, <3>1
  <2>3. ASSUME NEW sel \in Selectors, sel # <<>>, Tail(sel) \in T PROVE sel \in T
    <3>1. H(sel, res) = H(sel, f)
      BY <2>3
    <3> HIDE DEF H
    <3> QED  BY <1>7, <1>10, <3>1
  <2> HIDE DEF T
  <2> QED  BY <2>2, <2>3, SelectorInduction
<1>12. ASSUME NEW sel \in Selectors
       PROVE  /\ res[sel] \in Resolvers
              /\ \A v \in Values : res[sel][v] =
                    IF sel = <<>> THEN {Typed(v)} ELSE Turn(sel, v, res[Tail(sel)])
  <2>1. res[sel] \in Resolvers
    BY <1>7, <1>11
  <2>2. \A v \in Values : H(sel, res)[v] =
           IF sel = <<>> THEN {Typed(v)} ELSE Turn(sel, v, res[Tail(sel)])
    OBVIOUS
  <2> HIDE DEF H
  <2> QED  BY <1>10, <2>1, <2>2
<1> QED  BY <1>12 DEF res

-----------------------------------------------------------------------------
(***************************************************************************)
(* A selector stays within a set of values that its segments stay within.  *)
(***************************************************************************)
\* Sets of values with the parts of their values, and with the scalars but for
\* single bytes.
PartsIn(V) == V \subseteq Values /\ \A v \in V : \A p \in Places(v) : Data(v)[p] \in V
ScalarsIn(V) == \A x \in Values : ~IsCollection(x) /\ Kind(x) # "byte" => x \in V

\* What a segment makes of a value of V.
IsCut(seg, v, x) ==
    /\ seg[1] = "slice" /\ Kind(v) = "list"
    /\ \E lo, hi \in Int : /\ 1 <= lo /\ hi <= Len(Data(v))
                           /\ x = <<TypeOf(v), SubSeq(Data(v), lo, hi)>>

\* An outcome in a set V of values, but for cuts and for lists of values of V.
StaysWithin(V, seg, v, rest, o) ==
    \/ o = ResolutionError
    \/ seg[1] = "slice" /\ o = Panic
    \/ \E x \in Values : o = Value(x) /\ (x \in V \/ IsCut(seg, v, x))
    \/ /\ IsIterator(seg)
       /\ \E w \in V : Status(o) # "value" /\ o \in rest[w]
    \/ /\ IsIterator(seg) /\ IsCollection(v)
       /\ \E items \in Seq(V) : \E results :
             /\ ResultsFor(items, rest, results)
             /\ \A k \in DOMAIN items : Status(results[k]) = "value"
             /\ ListOf(Collected(results)) \in Values
             /\ o = Value(ListOf(Collected(results)))

\* A turn stays within a set that has its values' parts.
LEMMA StepWithin ==
    ASSUME NEW V, PartsIn(V), ScalarsIn(V), NEW v \in V, NEW seg \in Segments,
           NEW rest \in Resolvers, NEW o \in Step(seg, v, rest)
    PROVE  StaysWithin(V, seg, v, rest, o)
<1> SUFFICES
    \/ o = ResolutionError
    \/ seg[1] = "slice" /\ o = Panic
    \/ \E x \in Values : o = Value(x) /\ (x \in V \/ IsCut(seg, v, x))
    \/ /\ IsIterator(seg)
       /\ \E w \in V : Status(o) # "value" /\ o \in rest[w]
    \/ /\ IsIterator(seg) /\ IsCollection(v)
       /\ \E items \in Seq(V) : \E results :
             /\ ResultsFor(items, rest, results)
             /\ \A k \in DOMAIN items : Status(results[k]) = "value"
             /\ ListOf(Collected(results)) \in Values
             /\ o = Value(ListOf(Collected(results)))
  BY Zenon DEF StaysWithin
<1>0. /\ v \in Values /\ V \subseteq Values /\ Values \subseteq Nest(Values)
      /\ \A p \in Places(v) : Data(v)[p] \in V
  BY LevelsOfValues DEF PartsIn
<1>1. PICK n \in 0 .. Depth : n # 0 /\ v \in ValuesTo[n]
  BY <1>0, LevelsOfValues
<1> DEFINE W == ValuesTo[n - 1]
<1>2. n - 1 \in 0 .. Depth /\ v \in Nest(W) /\ Nest(W) = ValuesTo[n] /\ ValuesTo[n] \subseteq Values
  BY <1>1, ValuesToStep, LevelsOfValues, SelectorAssumption
<1>3. Closed(W) /\ (\A w \in W : rest[w] \subseteq Outs(W)) /\ W \subseteq Nest(W)
  BY <1>2, LevelsOfValues DEF Resolvers, Closed
<1> HIDE DEF W
<1>4. CASE ~IsIterator(seg)
  <2>1. SUFFICES ASSUME NEW x, o = Value(x), Yielded(seg, v, x)
                 PROVE  x \in Values /\ (x \in V \/ IsCut(seg, v, x))
    BY <1>2, <1>4, StepYields
  <2>2. x \in Values
    BY <1>2, <1>3, <2>1, YieldedType
  <2>3. CASE x = Nil
    BY <2>2, <2>3 DEF ScalarsIn, IsCollection, Kind, Nil
  <2>4. CASE \E c \in STRING : x = Str(<<c>>)
    BY <2>2, <2>4 DEF ScalarsIn, IsCollection, Kind, Str
  <2>5. CASE /\ seg[1] = "slice"
             /\ IsIndexed(v)
             /\ \E lo, hi \in Int : /\ 1 <= lo /\ hi <= Len(Data(v))
                                    /\ x = <<TypeOf(v), SubSeq(Data(v), lo, hi)>>
    <3>1. CASE Kind(v) = "list"
      BY <2>2, <2>5, <3>1 DEF IsCut
    <3>2. CASE Kind(v) = "string"
      <4>1. Kind(x) = "string"
        BY <2>5, <3>2 DEF Kind, TypeOf
      <4> QED  BY <2>2, <4>1 DEF ScalarsIn, IsCollection
    <3> QED  BY <2>5, <3>1, <3>2 DEF IsIndexed
  <2> QED  BY <1>0, <2>1, <2>2, <2>3, <2>4, <2>5 DEF Yielded
<1>5. CASE IsIterator(seg) /\ ~IsCollection(v)
  <2>1. o = Missing(seg)
    BY <1>5, StepIs DEF IsIterator, ResolveIterator
  <2>2. Nil \in V
    BY <1>2, NestIntro DEF ScalarsIn, IsCollection, Kind, Nil
  <2> QED  BY <1>0, <2>1, <2>2, MissingIs
<1>6. CASE IsIterator(seg) /\ IsCollection(v)
  <2>1. o \in ResolveIterator(seg, v, rest)
    BY <1>6, StepIs DEF IsIterator
  <2>c. IsCollection(v) /\ v \in Nest(W) /\ Closed(W) /\ \A w \in W : rest[w] \subseteq Outs(W)
    BY <1>2, <1>3, <1>6
  <2>a. PICK items, results :
           /\ items \in Enumerated(v)
           /\ ResultsFor(items, rest, results)
           /\ \/ \E k \in DOMAIN items : Status(results[k]) # "value" /\ o = results[k]
              \/ /\ \A k \in DOMAIN items : Status(results[k]) = "value"
                 /\ o = Value(ListOf(Collected(results)))
    BY <2>1, <2>c, IteratorIs
  <2>2. items \in Seq(W) /\ Len(items) \in Nat /\ DOMAIN items = 1 .. Len(items)
    BY <2>a, <1>2, <1>6, ItemsOf
  <2>3. \A k \in DOMAIN items : items[k] \in V /\ items[k] \in W
    <3>1. \A k \in DOMAIN items : \E p \in Places(v) : items[k] = Data(v)[p]
      BY <2>a, <1>2, <1>6, ItemsOf
    <3> QED  BY <1>0, <2>2, <3>1
  <2>b. DOMAIN results = DOMAIN items /\ \A k \in DOMAIN items : results[k] \in rest[items[k]]
    BY <2>a DEF ResultsFor
  <2>4. CASE \E k \in DOMAIN items : Status(results[k]) # "value" /\ o = results[k]
    BY <1>6, <2>3, <2>4, <2>b
  <2>5. CASE /\ \A k \in DOMAIN items : Status(results[k]) = "value"
             /\ o = Value(ListOf(Collected(results)))
    <3>1. \A k \in DOMAIN items : Result(results[k]) \in W
      BY <1>3, <2>3, <2>5, <2>b, OutsElim
    <3>2. Collected(results) \in Seq(W)
      BY <2>a, <1>2, <1>3, <1>6, <2>b, <3>1, CollectedType
    <3>3. ListOf(Collected(results)) \in Values
      BY <1>2, <3>2, ListOfType
    <3>4. items \in Seq(V)
      BY <2>2, <2>3
    <3> QED  BY <1>6, <2>5, <2>a, <3>3, <3>4
  <2> QED  BY <2>a, <2>4, <2>5
<1> QED  BY <1>4, <1>5, <1>6

\* Outcomes O to which the segments of K lead from the values of V.
TypesInto(V, O) == \A v \in V : Typed(v) \in O

StepsWithin(K, V, O) ==
    \A seg \in K : \A v \in V : \A rest \in Resolvers :
        (\A w \in V : rest[w] \subseteq O) =>
            \A o \in Step(seg, v, rest) : IF Status(o) = "value" THEN Result(o) \in V ELSE o \in O

\* So does a selector, if its segments do.
LEMMA ResolveWithin ==
    ASSUME NEW V, V \subseteq Values, NEW O, NEW K, TypesInto(V, O), StepsWithin(K, V, O),
           NEW sel \in Selectors, \A k \in DOMAIN sel : sel[k] \in K
    PROVE  \A v \in V : Resolve[sel][v] \subseteq O
<1> DEFINE T == {t \in Selectors :
                    (\A k \in DOMAIN t : t[k] \in K) => \A v \in V : Resolve[t][v] \subseteq O}
<1>1. <<>> \in T
  <2>1. <<>> \in Selectors
    BY DEF Selectors
  <2>2. \A v \in V : Resolve[<<>>][v] = {Typed(v)}
    BY <2>1, ResolveUnfolds
  <2> QED  BY <2>1, <2>2 DEF TypesInto
<1>2. ASSUME NEW t \in Selectors, t # <<>>, Tail(t) \in T PROVE t \in T
  <2> SUFFICES ASSUME \A k \in DOMAIN t : t[k] \in K, NEW v \in V, NEW x \in Resolve[t][v]
               PROVE  x \in O
    OBVIOUS
  <2> DEFINE rest == Resolve[Tail(t)]
  <2>1. /\ Head(t) \in K
        /\ \A k \in DOMAIN Tail(t) : Tail(t)[k] \in K
    <3>1. 1 \in DOMAIN t /\ DOMAIN Tail(t) = 1 .. Len(t) - 1
      BY <1>2, SelectorParts DEF Selectors
    <3>2. \A k \in 1 .. Len(t) - 1 : Tail(t)[k] = t[k + 1] /\ k + 1 \in DOMAIN t
      BY <1>2, SelectorParts
    <3> QED  BY <1>2, <3>1, <3>2, SelectorParts
  <2>2. rest \in Resolvers /\ \A w \in V : rest[w] \subseteq O
    BY <1>2, <2>1, SelectorParts, ResolveUnfolds
  <2>3. x \in Turn(t, v, rest)
    BY <1>2, ResolveUnfolds
  <2> HIDE DEF rest
  <2>4. PICK o \in Step(Head(t), v, rest) :
           \/ Status(o) = "value" /\ x \in rest[Result(o)]
           \/ Status(o) # "value" /\ x = o
    BY <2>3, TurnIs
  <2>5. IF Status(o) = "value" THEN Result(o) \in V ELSE o \in O
    BY <2>1, <2>2 DEF StepsWithin
  <2> QED  BY <2>2, <2>4, <2>5
<1> HIDE DEF T
<1>3. Selectors \subseteq T
  BY <1>1, <1>2, SelectorInduction
<1> QED  BY <1>3 DEF T

-----------------------------------------------------------------------------
(***************************************************************************)
(* Which selectors do not panic on which values.                           *)
(***************************************************************************)
\* HoldsNull is what its definition says.
LEMMA HoldsNullUnfolds ==
    \A v \in Values :
        HoldsNull[v] = \E k \in Places(v) :
            (Kind(v) = "list" /\ Data(v)[k] = Nil) \/ HoldsNull[Data(v)[k]]
<1> DEFINE R == BOOLEAN
           G == [v \in Values |-> [g \in [Values -> R] |->
                    \E k \in Places(v) : (Kind(v) = "list" /\ Data(v)[k] = Nil) \/ g[Data(v)[k]]]]
<1>1. R # {} /\ Yields(Values, R, G) /\ LooksInside(R, G)
  BY DEF Yields, LooksInside
<1>2. \A v \in Values : \A g \in [Values -> R] :
          G[v][g] = \E k \in Places(v) : (Kind(v) = "list" /\ Data(v)[k] = Nil) \/ g[Data(v)[k]]
  OBVIOUS
<1> HIDE DEF G, R
<1>3. PICK f : FixedPoint(Values, R, G, f)
  BY <1>1, ValueRecursion
<1>4. f = [v \in Values |->
              \E k \in Places(v) : (Kind(v) = "list" /\ Data(v)[k] = Nil) \/ f[Data(v)[k]]]
  BY <1>2, <1>3 DEF FixedPoint
<1>5. HoldsNull = [v \in Values |->
          \E k \in Places(v) : (Kind(v) = "list" /\ Data(v)[k] = Nil) \/ HoldsNull[Data(v)[k]]]
  BY <1>4, Zenon DEF HoldsNull
<1> QED  BY <1>5, Zenon

Clear == {v \in Values : ~HoldsNull[v]}
Canonic == {v \in Values : AsDecoded[v]}

Only(V) == {Value(x) : x \in V} \cup {ResolutionError}

\* The places are those of the data.
LEMMA SamePlaces ==
    ASSUME NEW v, NEW x, Kind(x) = Kind(v), Data(x) = Data(v)
    PROVE  Places(x) = Places(v)
  BY DEF Places

\* Values are built over values.
LEMMA ValuesAreNested ==
    ASSUME NEW v \in Values
    PROVE  /\ v \in Nest(Values)
           /\ Kind(v) = "list" => Data(v) \in Seq(Values)
           /\ Kind(v) = "list" => Places(v) = 1 .. Len(Data(v)) /\ Len(Data(v)) \in Nat
           /\ ~IsCollection(v) => Places(v) = {}
<1>1. v \in Nest(Values)
  BY LevelsOfValues
<1>2. Kind(v) = "list" => Data(v) \in Seq(Values)
  BY <1>1, NestElim
<1>3. Kind(v) = "list" => Places(v) = 1 .. Len(Data(v)) /\ Len(Data(v)) \in Nat
  BY <1>2 DEF Places
<1>4. ~IsCollection(v) => Places(v) = {}
  BY DEF IsCollection, Places
<1> QED  BY <1>1, <1>2, <1>3, <1>4

\* The conversion of a value keeps its data, or panics.
LEMMA TypedValue ==
    ASSUME NEW v \in Values
    PROVE  \/ Typed(v) = Panic /\ Kind(v) = "list"
           \/ \E x \in Values : Typed(v) = Value(x) /\ Kind(x) = Kind(v) /\ Data(x) = Data(v)
<1>1. PICK n \in 0 .. Depth : n # 0 /\ v \in ValuesTo[n]
  BY LevelsOfValues
<1> DEFINE W == ValuesTo[n - 1]
<1>2. n - 1 \in 0 .. Depth /\ v \in Nest(W) /\ Nest(W) \subseteq Values /\ W \subseteq Nest(W)
  BY <1>1, ValuesToStep, LevelsOfValues, SelectorAssumption DEF Closed
<1> HIDE DEF W
<1> QED  BY <1>2, TypedKeeps

\* The conversion of a value without nil in a list does not panic.
LEMMA TypedClear ==
    ASSUME NEW v \in Clear
    PROVE  Typed(v) \in Only(Clear)
<1>1. ASSUME NEW x \in Values, Typed(v) = Value(x), Kind(x) = Kind(v), Data(x) = Data(v)
      PROVE  x \in Clear
  <2>1. Places(x) = Places(v)
    BY <1>1, SamePlaces
  <2>2. \A k \in Places(v) : ~(Kind(v) = "list" /\ Data(v)[k] = Nil) /\ ~HoldsNull[Data(v)[k]]
    BY HoldsNullUnfolds DEF Clear
  <2>3. ~HoldsNull[x]
    <3>1. \A k \in Places(x) : ~((Kind(x) = "list" /\ Data(x)[k] = Nil) \/ HoldsNull[Data(x)[k]])
      BY <1>1, <2>1, <2>2
    <3>2. HoldsNull[x] = \E k \in Places(x) :
             (Kind(x) = "list" /\ Data(x)[k] = Nil) \/ HoldsNull[Data(x)[k]]
      BY HoldsNullUnfolds
    <3> QED  BY <3>1, <3>2
  <2> QED  BY <2>3 DEF Clear
<1>2. ASSUME Typed(v) = Panic, Kind(v) = "list" PROVE FALSE
  <2>1. Data(v) \in Seq(Values) /\ Values \subseteq Nest(Values) /\ Places(v) = 1 .. Len(Data(v))
    BY <1>2, LevelsOfValues, ValuesAreNested DEF Clear
  <2>2. Data(v) # <<>> /\ Data(v)[1] = Nil
    BY <1>2, <2>1, TypedList, OutcomeParts
  <2>3. 1 \in Places(v)
    BY <2>1, <2>2
  <2> QED  BY <1>2, <2>2, <2>3, HoldsNullUnfolds DEF Clear
<1> QED  BY <1>1, <1>2, TypedValue DEF Clear, Only

\* The conversion leaves a decoded value as it is.
LEMMA TypedCanonic ==
    ASSUME NEW v \in Canonic
    PROVE  Typed(v) = Value(v)
<1>1. CASE Kind(v) # "list"
  BY <1>1, TypedOther
<1>2. CASE Kind(v) = "list"
  <2> DEFINE s == Data(v)
             l == List(AnyType, s)
  <2>1. s \in Seq(Values) /\ Values \subseteq Nest(Values)
    BY <1>2, LevelsOfValues, ValuesAreNested DEF Canonic
  <2>2. Typed(l) = Value(v) \/ v = Octets(<<>>)
    BY <1>2, AsDecodedUnfolds DEF Canonic, TypedOrBytes
  <2>3. Kind(l) = "list" /\ Data(l) = s
    BY <2>1, ListOfAny
  <2> HIDE DEF l
  <2>4. CASE v = Octets(<<>>)
    <3>1. Data(v) = <<>>
      BY <2>4 DEF Octets, Data
    <3> QED  BY <1>2, <3>1, OutcomeParts, <2>1, TypedList DEF OneType
  <2>5. CASE Typed(l) = Value(v) /\ OneType(s)
    BY <1>2, <2>1, <2>3, <2>5, TypedList
  <2>6. CASE Typed(l) = Value(v) /\ ~OneType(s)
    <3>1. Typed(l) = Value(l)
      BY <2>1, <2>3, <2>6, TypedList, OutcomeParts
    <3>2. v = l
      BY <2>6, <3>1, OutcomeParts
    <3> QED  BY <2>6, <3>2
  <2> QED  BY <2>2, <2>4, <2>5, <2>6
<1> QED  BY <1>1, <1>2

\* The parts of values without nil in a list are such values.
LEMMA ClearSet == PartsIn(Clear) /\ ScalarsIn(Clear)
  BY HoldsNullUnfolds, ValueParts, ValuesAreNested DEF Clear, PartsIn, ScalarsIn

\* The parts of decoded values are decoded values.
LEMMA CanonicSet == PartsIn(Canonic) /\ ScalarsIn(Canonic)
<1>1. PartsIn(Canonic)
  BY AsDecodedUnfolds, ValueParts DEF Canonic, PartsIn
<1>2. ASSUME NEW x \in Values, ~IsCollection(x) PROVE AsDecoded[x]
  <2>1. Kind(x) # "list" /\ Places(x) = {}
    BY <1>2, ValuesAreNested DEF IsCollection
  <2> QED  BY <2>1, AsDecodedUnfolds
<1> QED  BY <1>1, <1>2 DEF Canonic, ScalarsIn

\* Outcomes that are values of V or errors.
LEMMA OnlyParts ==
    ASSUME NEW V, NEW o \in Only(V)
    PROVE  /\ o # Panic
           /\ Status(o) = "value" => Result(o) \in V
           /\ Status(o) # "value" => o = ResolutionError
           /\ Status(o) \in {"value", "error"}
  BY OutcomeParts DEF Only

WholeSegments == {seg \in Segments : seg[1] \notin {"iterator", "slice"}}
UncutSegments == {seg \in Segments : seg[1] # "slice"}

\* A selector that neither iterates nor cuts finds decoded values in decoded ones.
LEMMA WholeResolves ==
    ASSUME NEW sel \in Selectors, Whole(sel)
    PROVE  \A v \in Canonic : Resolve[sel][v] \subseteq Only(Canonic)
<1>1. Canonic \subseteq Values
  BY DEF Canonic
<1>2. TypesInto(Canonic, Only(Canonic))
  BY TypedCanonic DEF TypesInto, Only
<1>3. StepsWithin(WholeSegments, Canonic, Only(Canonic))
  <2> SUFFICES ASSUME NEW seg \in WholeSegments, NEW v \in Canonic, NEW rest \in Resolvers,
                      NEW o \in Step(seg, v, rest)
               PROVE  IF Status(o) = "value" THEN Result(o) \in Canonic ELSE o \in Only(Canonic)
    BY Zenon DEF StepsWithin
  <2>1. seg \in Segments /\ seg[1] # "slice" /\ ~IsIterator(seg)
    BY DEF WholeSegments, IsIterator
  <2>2. o = ResolutionError \/ \E x \in Canonic : o = Value(x)
    <3>1. StaysWithin(Canonic, seg, v, rest, o)
      BY <2>1, CanonicSet, StepWithin
    <3> QED  BY <2>1, <3>1 DEF IsCut, StaysWithin
  <2> QED  BY <2>2, OutcomeParts DEF Only
<1>4. \A k \in DOMAIN sel : sel[k] \in WholeSegments
  BY DEF Whole, Selectors, WholeSegments
<1> QED  BY <1>1, <1>2, <1>3, <1>4, ResolveWithin

\* What is collected is made of what the results are spliced to.
LEMMA CollectedFrom ==
    ASSUME NEW X, NEW results, NEW n \in Nat, DOMAIN results = 1 .. n,
           \A k \in DOMAIN results : Spliced(Result(results[k])) \in Seq(X)
    PROVE  Collected(results) \in Seq(X)
<1> DEFINE s == [k \in DOMAIN results |-> Result(results[k])]
<1>1. Len(s) = n /\ \A k \in 1 .. n : Spliced(s[k]) \in Seq(X)
  OBVIOUS
<1> HIDE DEF s
<1>2. CollectAll(s) \in Seq(X)
  BY <1>1, CollectAllType
<1> QED  BY <1>2 DEF Collected, s

\* No nil is spliced from a value without nil in a list.
LEMMA ClearSpliced ==
    ASSUME NEW r \in Clear
    PROVE  Spliced(r) \in Seq({w \in Clear : w # Nil})
<1> DEFINE X == {w \in Clear : w # Nil}
<1>0. r \in Values /\ r \in Nest(Values)
  BY ValuesAreNested DEF Clear
<1>1. CASE Kind(r) = "nil"
  BY <1>1 DEF Spliced
<1>2. CASE Kind(r) = "list"
  <2>1. Data(r) \in Seq(Values) /\ Places(r) = 1 .. Len(Data(r))
    BY <1>0, <1>2, ValuesAreNested
  <2>2. \A k \in 1 .. Len(Data(r)) : Data(r)[k] \in X
    BY <1>0, <1>2, <2>1, HoldsNullUnfolds, ClearSet DEF Clear, PartsIn
  <2> HIDE DEF X
  <2>3. Data(r) \in Seq(X)
    BY <2>1, <2>2
  <2> QED  BY <1>2, <2>3 DEF Spliced, X
<1>3. CASE Kind(r) # "nil" /\ Kind(r) # "list"
  <2>1. r \in X
    BY <1>0, <1>3, NestElim
  <2> HIDE DEF X
  <2> QED  BY <1>3, <2>1, OneItem DEF Spliced, X
<1> QED  BY <1>1, <1>2, <1>3

\* A selector that does not cut does not panic on a value without nil in a list.
LEMMA UncutResolves ==
    ASSUME NEW sel \in Selectors, \A k \in DOMAIN sel : sel[k][1] # "slice"
    PROVE  \A v \in Clear : Resolve[sel][v] \subseteq Only(Clear)
<1>1. Clear \subseteq Values
  BY DEF Clear
<1>2. TypesInto(Clear, Only(Clear))
  BY TypedClear DEF TypesInto
<1>3. StepsWithin(UncutSegments, Clear, Only(Clear))
  <2> SUFFICES ASSUME NEW seg \in UncutSegments, NEW v \in Clear, NEW rest \in Resolvers,
                      \A w \in Clear : rest[w] \subseteq Only(Clear), NEW o \in Step(seg, v, rest)
               PROVE  IF Status(o) = "value" THEN Result(o) \in Clear ELSE o \in Only(Clear)
    BY Zenon DEF StepsWithin
  <2>1. seg \in Segments /\ seg[1] # "slice"
    BY DEF UncutSegments
  <2>2. CASE o = ResolutionError
    BY <2>2, OutcomeParts DEF Only
  <2>3. CASE \E x \in Clear : o = Value(x)
    BY <2>3, OutcomeParts DEF Only
  <2>4. CASE \E w \in Clear : Status(o) # "value" /\ o \in rest[w]
    BY <2>4
  <2>5. ASSUME NEW items \in Seq(Clear), NEW results, ResultsFor(items, rest, results),
               \A k \in DOMAIN items : Status(results[k]) = "value",
               ListOf(Collected(results)) \in Values, o = Value(ListOf(Collected(results)))
        PROVE  o \in Only(Clear) /\ Status(o) = "value" /\ Result(o) \in Clear
    <3> DEFINE X == {w \in Clear : w # Nil}
               l == ListOf(Collected(results))
    <3>1. Len(items) \in Nat /\ DOMAIN results = 1 .. Len(items) /\ DOMAIN items = 1 .. Len(items)
      BY <2>5 DEF ResultsFor
    <3>2. \A k \in DOMAIN results : Spliced(Result(results[k])) \in Seq(X)
      <4>1. \A k \in DOMAIN results : items[k] \in Clear /\ results[k] \in rest[items[k]]
        BY <2>5, <3>1 DEF ResultsFor
      <4>2. \A k \in DOMAIN results : Result(results[k]) \in Clear
        BY <2>5, <3>1, <4>1, OnlyParts
      <4> QED  BY <4>2, ClearSpliced
    <3> HIDE DEF X
    <3>3. Collected(results) \in Seq(X)
      BY <3>1, <3>2, CollectedFrom
    <3>4. Kind(l) = "list" /\ Data(l) \in Seq(X) /\ l \in Values
      BY <2>5, <3>3, ListOfType
    <3> HIDE DEF l
    <3>5. \A k \in Places(l) : Data(l)[k] \in X
      BY <3>4, ValuesAreNested
    <3>6. \A k \in Places(l) : Data(l)[k] # Nil /\ ~HoldsNull[Data(l)[k]]
      BY <3>5 DEF X, Clear
    <3>7. l \in Clear
      BY <3>4, <3>6, HoldsNullUnfolds DEF Clear
    <3>8. o = Value(l)
      BY <2>5 DEF l
    <3> QED  BY <3>7, <3>8, OutcomeParts DEF Only
  <2>6. \/ o = ResolutionError \/ \E x \in Clear : o = Value(x)
        \/ \E w \in Clear : Status(o) # "value" /\ o \in rest[w]
        \/ \E items \in Seq(Clear) : \E results :
              /\ ResultsFor(items, rest, results)
              /\ \A k \in DOMAIN items : Status(results[k]) = "value"
              /\ ListOf(Collected(results)) \in Values
              /\ o = Value(ListOf(Collected(results)))
    <3>0. PartsIn(Clear) /\ ScalarsIn(Clear) /\ v \in Clear /\ seg \in Segments
          /\ rest \in Resolvers /\ o \in Step(seg, v, rest)
      BY <2>1, ClearSet
    <3>1. StaysWithin(Clear, seg, v, rest, o)
      BY <3>0, StepWithin
    <3> QED  BY <2>1, <3>1 DEF IsCut, StaysWithin
  <2> QED  BY <2>2, <2>3, <2>4, <2>5, <2>6, OutcomeParts
<1>4. \A k \in DOMAIN sel : sel[k] \in UncutSegments
  BY DEF Selectors, UncutSegments
<1> QED  BY <1>1, <1>2, <1>3, <1>4, ResolveWithin

-----------------------------------------------------------------------------
(***************************************************************************)
(* Statements: built level by level as values are.                         *)
(***************************************************************************)
Operators == Comparison \cup {"like"} \cup Connective \cup Quantifier

\* What the statements over X are.
LEMMA OverElim ==
    ASSUME NEW X, NEW s \in StatementsOver(X)
    PROVE  /\ Op(s) \in Operators
           /\ Sel(s) \in Selectors
           /\ Op(s) \in Comparison => Arg(s) \in Canonic
           /\ Op(s) = "like" => Arg(s) \subseteq Seq(STRING)
           /\ Op(s) = "not" => Arg(s) \in X
           /\ Op(s) \in {"and", "or"} => Arg(s) \in Seq(X)
           /\ Op(s) \in Quantifier => Arg(s) \in X
           /\ Op(s) \in Connective => Sel(s) = <<>>
<1>0. <<>> \in Selectors
  BY DEF Selectors
<1> USE DEF Op, Sel, Arg, Operators
<1>1. CASE s \in Comparison \X Selectors \X {v \in Values : AsDecoded[v]}
  BY <1>1 DEF Comparison, Ordering, Canonic, Connective, Quantifier
<1>2. CASE s \in {"like"} \X Selectors \X SUBSET Seq(STRING)
  BY <1>2 DEF Comparison, Ordering, Connective, Quantifier
<1>3. CASE s \in {"not"} \X {<<>>} \X X
  BY <1>0, <1>3 DEF Comparison, Ordering, Connective, Quantifier
<1>4. CASE s \in {"and", "or"} \X {<<>>} \X Seq(X)
  BY <1>0, <1>4 DEF Comparison, Ordering, Connective, Quantifier
<1>5. CASE s \in Quantifier \X Selectors \X X
  BY <1>5 DEF Comparison, Ordering, Connective, Quantifier
<1> QED  BY <1>1, <1>2, <1>3, <1>4, <1>5 DEF StatementsOver

\* Statements over fewer parts are statements over more.
LEMMA OverGrows ==
    ASSUME NEW W, NEW X, W \subseteq X
    PROVE  StatementsOver(W) \subseteq StatementsOver(X)
<1>1. Seq(W) \subseteq Seq(X)
  OBVIOUS
<1> QED  BY <1>1 DEF StatementsOver

IsStack(n, g) == g = [m \in 0 .. n |-> IF m = 0 THEN {} ELSE StatementsOver(g[m - 1])]

\* The levels of statements are the same however many there are.
LEMMA StacksAgree ==
    ASSUME NEW n \in Nat, NEW m \in Nat, n <= m, NEW g, NEW h, IsStack(n, g), IsStack(m, h)
    PROVE  \A k \in 0 .. n : g[k] = h[k]
<1> DEFINE T == {k \in 0 .. n : g[k] = h[k]}
<1>1. 0 \in T
  BY DEF IsStack
<1>2. \A k \in 0 .. n : k \in T /\ k < n => k + 1 \in T
  <2> SUFFICES ASSUME NEW k \in 0 .. n, g[k] = h[k], k < n PROVE g[k + 1] = h[k + 1]
    OBVIOUS
  <2>1. k + 1 \in 0 .. n /\ k + 1 \in 0 .. m /\ k + 1 # 0 /\ (k + 1) - 1 = k
    OBVIOUS
  <2>2. g[k + 1] = StatementsOver(g[k]) /\ h[k + 1] = StatementsOver(h[k])
    BY <2>1 DEF IsStack
  <2> QED  BY <2>2
<1> HIDE DEF T
<1>3. \A k \in 0 .. n : k \in T
  BY <1>1, <1>2, UpTo
<1> QED  BY <1>3 DEF T

\* There is a level of statements for every nesting.
LEMMA StackExists == \A n \in Nat : \E g : IsStack(n, g)
<1> DEFINE T == {n \in Nat : \E g : IsStack(n, g)}
<1>1. 0 \in T
  <2>1. IsStack(0, [m \in 0 .. 0 |-> {}])
    BY DEF IsStack
  <2> QED  BY <2>1
<1>2. ASSUME NEW n \in Nat, n \in T PROVE n + 1 \in T
  <2>1. PICK g : IsStack(n, g)
    BY <1>2
  <2> DEFINE h == [m \in 0 .. n + 1 |-> IF m = n + 1 THEN StatementsOver(g[n]) ELSE g[m]]
  <2>2. ASSUME NEW m \in 0 .. n + 1 PROVE h[m] = IF m = 0 THEN {} ELSE StatementsOver(h[m - 1])
    <3>1. CASE m = n + 1
      <4>1. m - 1 = n /\ m - 1 # n + 1 /\ m - 1 \in 0 .. n + 1 /\ m # 0
        BY <3>1
      <4> QED  BY <3>1, <4>1
    <3>2. CASE m # n + 1
      <4>1. m \in 0 .. n /\ (m # 0 => m - 1 # n + 1 /\ m - 1 \in 0 .. n + 1)
        BY <3>2
      <4>2. g[m] = IF m = 0 THEN {} ELSE StatementsOver(g[m - 1])
        BY <2>1, <4>1 DEF IsStack
      <4> QED  BY <3>2, <4>1, <4>2
    <3> QED  BY <3>1, <3>2
  <2>3. h = [m \in 0 .. n + 1 |-> h[m]]
    OBVIOUS
  <2> HIDE DEF h
  <2>4. IsStack(n + 1, h)
    BY <2>2, <2>3 DEF IsStack
  <2> QED  BY <2>4
<1> HIDE DEF T
<1>3. Nat \subseteq T
  BY <1>1, <1>2, AllNat
<1> QED  BY <1>3 DEF T

\* StatementsTo is what its definition says.
LEMMA StatementsToUnfolds ==
    StatementsTo = [n \in Nat |-> IF n = 0 THEN {} ELSE StatementsOver(StatementsTo[n - 1])]
<1> DEFINE F(n) == CHOOSE g : IsStack(n, g)
           f == [n \in Nat |-> F(n)[n]]
<1>1. ASSUME NEW n \in Nat PROVE IsStack(n, F(n))
  BY StackExists, Zenon
<1>2. ASSUME NEW n \in Nat PROVE f[n] = IF n = 0 THEN {} ELSE StatementsOver(f[n - 1])
  <2>1. IsStack(n, F(n)) /\ f[n] = F(n)[n]
    BY <1>1
  <2>2. CASE n = 0
    <3> HIDE DEF F, f
    <3> QED  BY <2>1, <2>2 DEF IsStack
  <2>3. CASE n # 0
    <3>1. n - 1 \in Nat /\ n - 1 <= n /\ n - 1 \in 0 .. n - 1
      BY <2>3
    <3>2. IsStack(n - 1, F(n - 1)) /\ f[n - 1] = F(n - 1)[n - 1]
      BY <1>1, <3>1
    <3> HIDE DEF F, f
    <3>3. F(n - 1)[n - 1] = F(n)[n - 1]
      BY <2>1, <3>1, <3>2, StacksAgree
    <3>4. F(n)[n] = StatementsOver(F(n)[n - 1])
      <4> DEFINE g == F(n)
      <4>1. IsStack(n, g) /\ n \in 0 .. n
        BY <2>1
      <4> HIDE DEF g
      <4>2. g[n] = StatementsOver(g[n - 1])
        BY <2>3, <4>1 DEF IsStack
      <4> QED  BY <4>2 DEF g
    <3> QED  BY <2>1, <2>3, <3>2, <3>3, <3>4
  <2> QED  BY <2>2, <2>3
<1>3. f = [n \in Nat |-> f[n]]
  OBVIOUS
<1> HIDE DEF f
<1>4. f = [n \in Nat |-> IF n = 0 THEN {} ELSE StatementsOver(f[n - 1])]
  BY <1>2, <1>3
<1> QED  BY <1>4, Zenon DEF StatementsTo

\* A level of statements is within the next.
LEMMA StatementsToGrow == \A n \in Nat : StatementsTo[n] \subseteq StatementsTo[n + 1]
<1> DEFINE T == {n \in Nat : StatementsTo[n] \subseteq StatementsTo[n + 1]}
<1>1. ASSUME NEW n \in Nat PROVE StatementsTo[n + 1] = StatementsOver(StatementsTo[n])
  <2>1. n + 1 \in Nat /\ n + 1 # 0 /\ (n + 1) - 1 = n
    OBVIOUS
  <2> QED  BY <2>1, StatementsToUnfolds
<1>2. 0 \in T
  BY StatementsToUnfolds
<1>3. ASSUME NEW n \in Nat, n \in T PROVE n + 1 \in T
  <2>1. StatementsOver(StatementsTo[n]) \subseteq StatementsOver(StatementsTo[n + 1])
    BY <1>3, OverGrows
  <2> QED  BY <1>1, <2>1
<1> HIDE DEF T
<1>4. Nat \subseteq T
  BY <1>2, <1>3, AllNat
<1> QED  BY <1>4 DEF T

\* The first level is empty, and any other is built over the one before.
LEMMA StatementsToStep ==
    /\ StatementsTo[0] = {}
    /\ \A n \in Nat : n # 0 => n - 1 \in Nat /\ StatementsTo[n] = StatementsOver(StatementsTo[n - 1])
<1>1. \A n \in Nat : StatementsTo[n] = IF n = 0 THEN {} ELSE StatementsOver(StatementsTo[n - 1])
  BY StatementsToUnfolds, Zenon
<1> QED  BY <1>1

\* A level of statements is within all later ones.
LEMMA StatementsToIncrease ==
    ASSUME NEW m \in Nat, NEW n \in Nat, m <= n
    PROVE  StatementsTo[m] \subseteq StatementsTo[n]
<1> DEFINE T == {k \in Nat : StatementsTo[m] \subseteq StatementsTo[m + k]}
<1>1. 0 \in T
  OBVIOUS
<1>2. ASSUME NEW k \in Nat, k \in T PROVE k + 1 \in T
  <2>1. m + k \in Nat /\ m + (k + 1) = (m + k) + 1
    OBVIOUS
  <2> QED  BY <1>2, <2>1, StatementsToGrow
<1> HIDE DEF T
<1>3. Nat \subseteq T
  BY <1>1, <1>2, AllNat
<1>4. n - m \in Nat /\ m + (n - m) = n
  OBVIOUS
<1> QED  BY <1>3, <1>4 DEF T

NestingOf(s) ==
    CHOOSE n \in Nat : s \in StatementsTo[n] /\ \A m \in Nat : s \in StatementsTo[m] => n <= m

\* The nesting of a statement is the first level that has it.
LEMMA NestingOfStatement ==
    ASSUME NEW n \in Nat, NEW s \in StatementsTo[n]
    PROVE  /\ NestingOf(s) \in Nat /\ NestingOf(s) # 0 /\ NestingOf(s) <= n
           /\ s \in StatementsTo[NestingOf(s)]
<1> DEFINE T == {m \in Nat : s \in StatementsTo[m]}
<1>1. PICK r \in T : \A m \in T : r <= m
  <2>1. T \subseteq Nat /\ T # {}
    OBVIOUS
  <2> HIDE DEF T
  <2> QED  BY <2>1, LeastOf
<1>2. \E m \in Nat : s \in StatementsTo[m] /\ \A l \in Nat : s \in StatementsTo[l] => m <= l
  BY <1>1
<1>3. /\ NestingOf(s) \in Nat /\ s \in StatementsTo[NestingOf(s)]
      /\ \A l \in Nat : s \in StatementsTo[l] => NestingOf(s) <= l
  BY <1>2, Zenon DEF NestingOf
<1> QED  BY <1>3, StatementsToStep

\* The statements a statement is directly made of.
Direct(s) ==
    IF Op(s) \in Connective THEN {Children(s)[k] : k \in DOMAIN Children(s)}
    ELSE IF Op(s) \in Quantifier THEN {Arg(s)} ELSE {}

\* What statements are; their parts are less nested.
LEMMA StatementShape ==
    ASSUME NEW s \in Statements
    PROVE  /\ Op(s) \in Operators
           /\ Sel(s) \in Selectors
           /\ Op(s) \in Comparison => Arg(s) \in Canonic
           /\ Op(s) \in Quantifier => Arg(s) \in Statements
           /\ Op(s) \in Connective => Children(s) \in Seq(Statements) /\ Sel(s) = <<>>
           /\ Op(s) = "not" => Arg(s) \in Statements /\ Children(s) = <<Arg(s)>>
           /\ Op(s) \in {"and", "or"} => Children(s) = Arg(s)
           /\ \A c \in Direct(s) : c \in Statements /\ NestingOf(c) < NestingOf(s)
<1> DEFINE n == NestingOf(s)
<1>1. n \in Nat /\ n # 0 /\ n <= Nesting /\ s \in StatementsTo[n]
  BY NestingOfStatement, PolicyAssumption DEF Statements
<1> DEFINE X == StatementsTo[n - 1]
<1>2. n - 1 \in Nat /\ n - 1 <= Nesting /\ s \in StatementsOver(X)
  BY <1>1, StatementsToStep, PolicyAssumption
<1>3. X \subseteq Statements
  BY <1>2, StatementsToIncrease, PolicyAssumption DEF Statements
<1>4. \A c \in X : NestingOf(c) < n
  <2>1. ASSUME NEW c \in X PROVE NestingOf(c) <= n - 1 /\ NestingOf(c) \in Nat
    BY <1>2, NestingOfStatement
  <2> HIDE DEF X
  <2> QED  BY <1>1, <2>1
<1> HIDE DEF n, X
<1>5. /\ Op(s) = "not" => Children(s) = <<Arg(s)>>
      /\ Op(s) \in {"and", "or"} => Children(s) = Arg(s)
  BY DEF Children
<1>6. Op(s) \in Connective => Children(s) \in Seq(X)
  <2>1. CASE Op(s) = "not"
    BY <1>2, <1>5, <2>1, OverElim, OneItem
  <2>2. CASE Op(s) \in {"and", "or"}
    BY <1>2, <1>5, <2>2, OverElim
  <2> QED  BY <2>1, <2>2 DEF Connective
<1>7. Direct(s) \subseteq X
  <2>1. CASE Op(s) \in Connective
    BY <1>6, <2>1 DEF Direct
  <2>2. CASE Op(s) \in Quantifier
    BY <1>2, <2>2, OverElim DEF Direct, Quantifier, Connective
  <2>3. CASE Op(s) \notin Connective /\ Op(s) \notin Quantifier
    BY <2>3 DEF Direct
  <2> QED  BY <2>1, <2>2, <2>3
<1>8. Op(s) \in Connective => Children(s) \in Seq(Statements)
  <2>1. Seq(X) \subseteq Seq(Statements)
    BY <1>3
  <2> QED  BY <1>6, <2>1
<1>9. (Op(s) \in Quantifier => Arg(s) \in Statements) /\ (Op(s) = "not" => Arg(s) \in Statements)
  BY <1>2, <1>3, OverElim
<1>10. /\ Op(s) \in Operators /\ Sel(s) \in Selectors
       /\ Op(s) \in Comparison => Arg(s) \in Canonic
       /\ Op(s) \in Connective => Sel(s) = <<>>
  BY <1>2, OverElim
<1>11. \A c \in Direct(s) : c \in Statements /\ NestingOf(c) < NestingOf(s)
  BY <1>3, <1>4, <1>7 DEF n
<1> QED  BY <1>5, <1>8, <1>9, <1>10, <1>11

\* Induction and recursion over the structure of statements.
LEMMA StatementInduction ==
    ASSUME NEW T,
           \A s \in Statements : (\A c \in Direct(s) : c \in T) => s \in T
    PROVE  Statements \subseteq T
<1> DEFINE rank == [s \in Statements |-> NestingOf(s)]
<1>1. \A s \in Statements : rank[s] \in Nat
  BY NestingOfStatement, PolicyAssumption DEF Statements
<1>2. ASSUME NEW s \in Statements, \A c \in Statements : rank[c] < rank[s] => c \in T
      PROVE  s \in T
  <2>1. ASSUME NEW c \in Direct(s) PROVE c \in T
    BY <1>2, StatementShape
  <2> QED  BY <2>1
<1> HIDE DEF rank
<1> QED  BY <1>1, <1>2, RankInduction

LooksBelow(R, G) ==
    \A s \in Statements : \A g, h \in [Statements -> R] :
        (\A c \in Direct(s) : g[c] = h[c]) => G[s][g] = G[s][h]

\* Recursion over the structure of statements.
LEMMA StatementRecursion ==
    ASSUME NEW R, R # {}, NEW G, Yields(Statements, R, G), LooksBelow(R, G)
    PROVE  \E f : FixedPoint(Statements, R, G, f)
<1> DEFINE rank == [s \in Statements |-> NestingOf(s)]
<1>1. Ranked(Statements, rank)
  BY NestingOfStatement, PolicyAssumption DEF Statements, Ranked
<1>2. ASSUME NEW s \in Statements, NEW g \in [Statements -> R], NEW h \in [Statements -> R],
             \A c \in Statements : rank[c] < rank[s] => g[c] = h[c]
      PROVE  G[s][g] = G[s][h]
  <2>1. \A c \in Direct(s) : g[c] = h[c]
    BY <1>2, StatementShape
  <2> HIDE DEF rank
  <2> QED  BY <2>1 DEF LooksBelow
<1> HIDE DEF rank
<1>3. LooksDown(Statements, R, rank, G)
  BY <1>2 DEF LooksDown
<1> QED  BY <1>1, <1>3, Recursion

\* A loop ends, or stops with one of its outcomes.
LEMMA FirstOfIs ==
    ASSUME NEW outcomes, DOMAIN outcomes \subseteq Nat, NEW stop, NEW end
    PROVE  \/ /\ \A k \in DOMAIN outcomes : outcomes[k] \notin stop
              /\ FirstOf(outcomes, stop, end) = end
           \/ \E k \in DOMAIN outcomes :
                 outcomes[k] \in stop /\ FirstOf(outcomes, stop, end) = outcomes[k]
<1> DEFINE stops == {k \in DOMAIN outcomes : outcomes[k] \in stop}
           first == CHOOSE k \in stops : \A l \in stops : k <= l
<1>1. FirstOf(outcomes, stop, end) = IF stops = {} THEN end ELSE outcomes[first]
  BY DEF FirstOf
<1>2. CASE stops = {}
  BY <1>1, <1>2
<1>3. CASE stops # {}
  <2>1. stops \subseteq Nat
    OBVIOUS
  <2>2. first \in stops
    <3> HIDE DEF stops
    <3>1. \E k \in stops : \A l \in stops : k <= l
      BY <1>3, <2>1, LeastOf
    <3> QED  BY <3>1
  <2> HIDE DEF first
  <2> QED  BY <1>1, <1>3, <2>2
<1> QED  BY <1>2, <1>3

-----------------------------------------------------------------------------
(***************************************************************************)
(* The parts of statements, and building them anew.                        *)
(***************************************************************************)
\* The statements of a connective are direct parts of it.
LEMMA ChildIsDirect ==
    ASSUME NEW s \in Statements, Op(s) \in Connective
    PROVE  /\ DOMAIN Children(s) \subseteq Nat
           /\ \A k \in DOMAIN Children(s) :
                 Children(s)[k] \in Direct(s) /\ Children(s)[k] \in Statements
<1>1. Children(s) \in Seq(Statements)
  BY StatementShape
<1> QED  BY <1>1 DEF Direct

\* The statement of a quantifier is a direct part of it.
LEMMA BodyIsDirect ==
    ASSUME NEW s \in Statements, Op(s) \in Quantifier
    PROVE  Arg(s) \in Direct(s) /\ Arg(s) \in Statements /\ Op(s) \notin Connective
  BY StatementShape DEF Direct, Quantifier, Connective

\* The parts are the statement and those of its direct parts.
LEMMA PartsUnfolds ==
    \A s \in Statements :
        Parts[s] \subseteq Statements /\ Parts[s] = {s} \cup UNION {Parts[c] : c \in Direct(s)}
<1> DEFINE R == SUBSET Statements
           H(s, g) == {s} \cup CASE Op(s) \in Connective ->
                                     UNION {g[Children(s)[k]] : k \in DOMAIN Children(s)}
                                [] Op(s) \in Quantifier -> g[Arg(s)]
                                [] OTHER -> {}
           G == [s \in Statements |-> [g \in [Statements -> R] |-> H(s, g)]]
<1>1. ASSUME NEW s \in Statements, NEW g PROVE H(s, g) = {s} \cup UNION {g[c] : c \in Direct(s)}
  <2>1. CASE Op(s) \in Connective
    <3>1. Op(s) \notin Quantifier
      BY <2>1 DEF Connective, Quantifier
    <3>2. UNION {g[Children(s)[k]] : k \in DOMAIN Children(s)} = UNION {g[c] : c \in Direct(s)}
      BY <2>1 DEF Direct
    <3> QED  BY <2>1, <3>1, <3>2
  <2>2. CASE Op(s) \in Quantifier
    <3>1. Op(s) \notin Connective /\ Direct(s) = {Arg(s)}
      BY <2>2, BodyIsDirect DEF Direct
    <3> QED  BY <2>2, <3>1
  <2>3. CASE Op(s) \notin Connective /\ Op(s) \notin Quantifier
    BY <2>3 DEF Direct
  <2> QED  BY <2>1, <2>2, <2>3
<1> HIDE DEF H
<1>2. ASSUME NEW s \in Statements, NEW g \in [Statements -> R] PROVE H(s, g) \in R
  <2>1. \A c \in Direct(s) : g[c] \in SUBSET Statements
    BY StatementShape
  <2> QED  BY <1>1, <2>1
<1>3. Yields(Statements, R, G)
  BY <1>2 DEF Yields
<1>4. ASSUME NEW s \in Statements, NEW g \in [Statements -> R], NEW h \in [Statements -> R],
             \A c \in Direct(s) : g[c] = h[c]
      PROVE  H(s, g) = H(s, h)
  <2>1. UNION {g[c] : c \in Direct(s)} = UNION {h[c] : c \in Direct(s)}
    BY <1>4
  <2> HIDE DEF R, G
  <2>2. H(s, g) = {s} \cup UNION {g[c] : c \in Direct(s)}
    BY <1>1
  <2>3. H(s, h) = {s} \cup UNION {h[c] : c \in Direct(s)}
    BY <1>1
  <2> QED  BY <2>1, <2>2, <2>3
<1>5. LooksBelow(R, G)
  BY <1>4 DEF LooksBelow
<1>6. \A s \in Statements : \A g \in [Statements -> R] : G[s][g] = H(s, g)
  BY Zenon
<1> HIDE DEF G
<1>7. PICK f : FixedPoint(Statements, R, G, f)
  <2>1. R # {}
    OBVIOUS
  <2> HIDE DEF R
  <2> QED  BY <1>3, <1>5, <2>1, StatementRecursion
<1>8. f = [s \in Statements |-> H(s, f)]
  <2> HIDE DEF R
  <2> QED  BY <1>6, <1>7 DEF FixedPoint
<1>9. Parts = [s \in Statements |-> H(s, Parts)]
  BY <1>8, Zenon DEF Parts, H
<1>10. \A s \in Statements : Parts[s] = H(s, Parts)
  BY <1>9
<1>11. \A s \in Statements : Parts[s] = {s} \cup UNION {Parts[c] : c \in Direct(s)}
  BY <1>1, <1>10
<1> DEFINE T == {s \in Statements : Parts[s] \subseteq Statements}
<1>12. ASSUME NEW s \in Statements, \A c \in Direct(s) : c \in T PROVE s \in T
  BY <1>11, <1>12
<1> HIDE DEF T
<1>13. Statements \subseteq T
  BY <1>12, StatementInduction
<1> QED  BY <1>11, <1>13 DEF T

\* A statement is part of itself, and the parts of its parts are parts of it.
LEMMA PartsOf ==
    ASSUME NEW s \in Statements
    PROVE  s \in Parts[s] /\ \A c \in Direct(s) : Parts[c] \subseteq Parts[s]
  BY PartsUnfolds

\* Argument ends as a statement does.
LEMMA ArgumentVerdict == ASSUME NEW s PROVE Argument(s) \in Verdicts
  BY DEF Argument, Verdicts

\* Rebuild is what its definition says.
LEMMA RebuildUnfolds ==
    \A s \in Statements :
        /\ Rebuild[s] \in Verdicts
        /\ Rebuild[s] = IF Op(s) \in Connective
                        THEN FirstOf([k \in DOMAIN Children(s) |-> Rebuild[Children(s)[k]]],
                                     {"no", "panic"}, "match")
                        ELSE Argument(s)
<1> DEFINE R == Verdicts
           H(s, g) == IF Op(s) \in Connective
                      THEN FirstOf([k \in DOMAIN Children(s) |-> g[Children(s)[k]]],
                                   {"no", "panic"}, "match")
                      ELSE Argument(s)
           G == [s \in Statements |-> [g \in [Statements -> R] |-> H(s, g)]]
<1>1. ASSUME NEW s \in Statements, NEW g \in [Statements -> R] PROVE H(s, g) \in R
  <2>1. CASE Op(s) \in Connective
    <3> DEFINE outcomes == [k \in DOMAIN Children(s) |-> g[Children(s)[k]]]
    <3>1. DOMAIN outcomes \subseteq Nat /\ \A k \in DOMAIN outcomes : outcomes[k] \in Verdicts
      BY <2>1, ChildIsDirect
    <3>2. H(s, g) = FirstOf(outcomes, {"no", "panic"}, "match")
      BY <2>1
    <3> HIDE DEF outcomes, H
    <3> QED  BY <3>1, <3>2, FirstOfIs DEF Verdicts
  <2>2. CASE Op(s) \notin Connective
    BY <2>2, ArgumentVerdict
  <2> QED  BY <2>1, <2>2
<1>2. ASSUME NEW s \in Statements, NEW g \in [Statements -> R], NEW h \in [Statements -> R],
             \A c \in Direct(s) : g[c] = h[c]
      PROVE  H(s, g) = H(s, h)
  <2>1. CASE Op(s) \in Connective
    <3>1. [k \in DOMAIN Children(s) |-> g[Children(s)[k]]] =
             [k \in DOMAIN Children(s) |-> h[Children(s)[k]]]
      BY <1>2, <2>1, ChildIsDirect
    <3> QED  BY <3>1
  <2>2. CASE Op(s) \notin Connective
    BY <2>2
  <2> QED  BY <2>1, <2>2
<1> HIDE DEF H
<1>3. Yields(Statements, R, G) /\ LooksBelow(R, G)
  BY <1>1, <1>2 DEF Yields, LooksBelow
<1>6. \A s \in Statements : \A g \in [Statements -> R] : G[s][g] = H(s, g)
  BY Zenon
<1> HIDE DEF G
<1>7. PICK f : FixedPoint(Statements, R, G, f)
  <2>1. R # {}
    BY DEF Verdicts
  <2> HIDE DEF R
  <2> QED  BY <1>3, <2>1, StatementRecursion
<1>8. f = [s \in Statements |-> H(s, f)]
  <2> HIDE DEF R
  <2> QED  BY <1>6, <1>7 DEF FixedPoint
<1>9. Rebuild = [s \in Statements |-> H(s, Rebuild)]
  BY <1>8, Zenon DEF Rebuild, H
<1>10. \A s \in Statements : Rebuild[s] = H(s, Rebuild)
  BY <1>9
<1> DEFINE T == {s \in Statements : Rebuild[s] = f[s]}
<1>11. ASSUME NEW s \in Statements, \A c \in Direct(s) : c \in T PROVE s \in T
  <2>1. H(s, Rebuild) = H(s, f)
    <3>1. \A c \in Direct(s) : Rebuild[c] = f[c]
      BY <1>11
    <3>2. CASE Op(s) \in Connective
      <4>1. [k \in DOMAIN Children(s) |-> Rebuild[Children(s)[k]]] =
               [k \in DOMAIN Children(s) |-> f[Children(s)[k]]]
        BY <3>1, <3>2, ChildIsDirect
      <4> QED  BY <4>1 DEF H
    <3>3. CASE Op(s) \notin Connective
      BY <3>3 DEF H
    <3> QED  BY <3>2, <3>3
  <2> QED  BY <1>8, <1>10, <2>1
<1> HIDE DEF T
<1>12. Statements \subseteq T
  BY <1>11, StatementInduction
<1>13. \A s \in Statements : Rebuild[s] \in Verdicts
  BY <1>7, <1>12 DEF T, FixedPoint
<1> QED  BY <1>10, <1>13 DEF H

-----------------------------------------------------------------------------
(***************************************************************************)
(* The outcomes of statements.                                             *)
(***************************************************************************)
\* A comparison does not panic.
LEMMA CompareVerdict ==
    ASSUME NEW s, Op(s) \in Comparison \cup {"like"}, NEW v
    PROVE  Compare(s, v) \in {"match", "no"}
  BY DEF Compare, Comparison, Ordering, Verdict

\* A connective has an outcome.
LEMMA ConnectVerdict ==
    ASSUME NEW s \in Statements, Op(s) \in Connective, NEW outcomes,
           DOMAIN outcomes = DOMAIN Children(s), \A k \in DOMAIN outcomes : outcomes[k] \in Verdicts
    PROVE  Connect(Op(s), outcomes) \in Verdicts
<1>0. DOMAIN outcomes \subseteq Nat
  BY ChildIsDirect
<1>1. CASE Op(s) = "not"
  BY <1>1 DEF Connect, Verdict, Verdicts
<1>2. CASE Op(s) = "and"
  BY <1>0, <1>2, FirstOfIs DEF Connect, Verdicts
<1>3. CASE Op(s) = "or"
  BY <1>0, <1>3, FirstOfIs DEF Connect, Verdicts
<1> QED  BY <1>1, <1>2, <1>3 DEF Connective

\* A quantifier has an outcome.
LEMMA QuantifiesVerdict ==
    ASSUME NEW op \in Quantifier, NEW outcomes, DOMAIN outcomes \subseteq Nat,
           \A k \in DOMAIN outcomes : outcomes[k] \in Verdicts
    PROVE  Quantifies(op, outcomes) \in Verdicts
<1>2. CASE op = "all"
  BY <1>2, FirstOfIs DEF Quantifies, Verdicts
<1>3. CASE op = "any"
  BY <1>3, FirstOfIs DEF Quantifies, Verdicts
<1> QED  BY <1>2, <1>3 DEF Quantifier

\* The items of a selected collection are its parts.
LEMMA SelectedItems ==
    ASSUME NEW w \in Values, IsCollection(w), NEW items \in Enumerated(w)
    PROVE  /\ DOMAIN items \subseteq Nat
           /\ \A k \in DOMAIN items :
                 items[k] \in Values /\ \E p \in Places(w) : items[k] = Data(w)[p]
           /\ \A p \in Places(w) : \E k \in DOMAIN items : items[k] = Data(w)[p]
<1>1. w \in Nest(Values)
  BY ValuesAreNested
<1>2. /\ items \in Seq(Values) /\ Len(items) \in Nat /\ DOMAIN items = 1 .. Len(items)
      /\ \A k \in DOMAIN items : \E p \in Places(w) : items[k] = Data(w)[p]
      /\ \A p \in Places(w) : \E k \in DOMAIN items : items[k] = Data(w)[p]
  BY <1>1, ItemsOf
<1> QED  BY <1>2

\* What a selector resolves to are values, errors and panics.
LEMMA ResolveType ==
    ASSUME NEW sel \in Selectors, NEW v \in Values
    PROVE  Resolve[sel][v] \subseteq Outs(Values)
<1>1. Resolve[sel] \in [Values -> SUBSET Outcomes]
  BY ResolveUnfolds DEF Resolvers
<1> QED  BY <1>1, LevelsOfValues

\* The outcomes of the statements that a statement is made of.
Pointed(c, v, match) == IF Rebuild[c] # "match" THEN {Rebuild[c]} ELSE match[c][v]

PointedAll(s, v, match) == [k \in DOMAIN Children(s) |-> Pointed(Children(s)[k], v, match)]

\* The sorts of statements.
LEMMA OutcomeIs ==
    ASSUME NEW s, NEW v, NEW match
    PROVE  /\ Op(s) \in Connective =>
                 Outcome(s, v, match) =
                    {Connect(Op(s), outcomes) : outcomes \in OneOfEach(PointedAll(s, v, match))}
           /\ Op(s) \notin Connective =>
                 Outcome(s, v, match) =
                    UNION {Judged(s, selected, match) : selected \in Resolve[Sel(s)][v]}
  BY Zenon DEF Outcome, PointedAll, Pointed

\* A selector that fails decides the outcome.
LEMMA JudgedFails ==
    ASSUME NEW s, NEW selected, NEW match, Status(selected) # "value"
    PROVE  Judged(s, selected, match) = {IF Status(selected) = "panic" THEN "panic" ELSE "no"}
  BY Zenon DEF Judged

\* A comparison looks at what was selected.
LEMMA JudgedCompares ==
    ASSUME NEW s, NEW selected, NEW match,
           Op(s) \in Comparison \cup {"like"}, Status(selected) = "value"
    PROVE  Judged(s, selected, match) = {Compare(s, Result(selected))}
<1>1. Op(s) \notin Quantifier
  BY DEF Comparison, Ordering, Quantifier
<1> QED  BY <1>1 DEF Judged

\* A quantifier looks at the items of what was selected.
LEMMA JudgedQuantifies ==
    ASSUME NEW s, NEW selected, NEW match, Op(s) \in Quantifier, Status(selected) = "value"
    PROVE  Judged(s, selected, match) = Ranges(s, Result(selected), match)
  BY DEF Judged

\* A quantifier's statement does not hold of what is no collection.
LEMMA RangesNone ==
    ASSUME NEW s, NEW w, NEW match, ~IsCollection(w)
    PROVE  Ranges(s, w, match) = {"no"}
  BY DEF Ranges

\* The outcomes of a quantifier on a collection.
LEMMA RangesOver ==
    ASSUME NEW s, NEW w, NEW match, IsCollection(w), NEW x \in Ranges(s, w, match)
    PROVE  \E items \in Enumerated(w) : \E outcomes :
              /\ DOMAIN outcomes = DOMAIN items
              /\ \A k \in DOMAIN items : outcomes[k] \in match[Arg(s)][items[k]]
              /\ x = Quantifies(Op(s), outcomes)
<1> DEFINE F(items) == [k \in DOMAIN items |-> match[Arg(s)][items[k]]]
<1>1. PICK items \in Enumerated(w) :
         \E outcomes \in OneOfEach(F(items)) : x = Quantifies(Op(s), outcomes)
  BY DEF Ranges
<1>2. PICK outcomes : outcomes \in OneOfEach(F(items)) /\ x = Quantifies(Op(s), outcomes)
  BY <1>1, Zenon
<1>3. DOMAIN outcomes = DOMAIN F(items) /\ \A k \in DOMAIN F(items) : outcomes[k] \in F(items)[k]
  <2> HIDE DEF F
  <2> QED  BY <1>2, OneOfEachElim
<1> QED  BY <1>2, <1>3

\* A quantifier has outcomes that are verdicts.
LEMMA RangesVerdict ==
    ASSUME NEW s \in Statements, Op(s) \in Quantifier, NEW w \in Values,
           NEW match \in [Statements -> [Values -> SUBSET Verdicts]]
    PROVE  Ranges(s, w, match) \subseteq Verdicts
<1>1. CASE ~IsCollection(w)
  BY <1>1, RangesNone DEF Verdicts
<1>2. CASE IsCollection(w)
  <2> SUFFICES ASSUME NEW x \in Ranges(s, w, match) PROVE x \in Verdicts
    OBVIOUS
  <2>0. \E items \in Enumerated(w) : \E outcomes :
           /\ DOMAIN outcomes = DOMAIN items
           /\ \A k \in DOMAIN items : outcomes[k] \in match[Arg(s)][items[k]]
           /\ x = Quantifies(Op(s), outcomes)
    BY <1>2, RangesOver
  <2>1. PICK items, outcomes :
           /\ items \in Enumerated(w)
           /\ DOMAIN outcomes = DOMAIN items
           /\ \A k \in DOMAIN items : outcomes[k] \in match[Arg(s)][items[k]]
           /\ x = Quantifies(Op(s), outcomes)
    BY <2>0
  <2>2. DOMAIN items \subseteq Nat /\ \A k \in DOMAIN items : items[k] \in Values
    BY <2>1, <1>2, SelectedItems
  <2>3. match[Arg(s)] \in [Values -> SUBSET Verdicts]
    BY BodyIsDirect
  <2>4. \A k \in DOMAIN outcomes : outcomes[k] \in Verdicts
    BY <2>1, <2>2, <2>3
  <2> QED  BY <2>1, <2>2, <2>4, QuantifiesVerdict
<1> QED  BY <1>1, <1>2

\* Every outcome of a statement is a verdict.
LEMMA OutcomeVerdict ==
    ASSUME NEW s \in Statements, NEW v \in Values,
           NEW match \in [Statements -> [Values -> SUBSET Verdicts]]
    PROVE  Outcome(s, v, match) \subseteq Verdicts
<1>1. CASE Op(s) \in Connective
  <2> DEFINE f == PointedAll(s, v, match)
  <2>1. DOMAIN f = DOMAIN Children(s) /\ \A k \in DOMAIN f : f[k] \subseteq Verdicts
    <3>1. ASSUME NEW k \in DOMAIN Children(s) PROVE f[k] \subseteq Verdicts
      <4>1. match[Children(s)[k]] \in [Values -> SUBSET Verdicts] /\ Rebuild[Children(s)[k]] \in Verdicts
        BY <1>1, ChildIsDirect, RebuildUnfolds
      <4>2. f[k] = Pointed(Children(s)[k], v, match)
        BY DEF PointedAll
      <4> QED  BY <4>1, <4>2 DEF Pointed
    <3> QED  BY <3>1 DEF PointedAll
  <2>2. Outcome(s, v, match) = {Connect(Op(s), outcomes) : outcomes \in OneOfEach(f)}
    BY <1>1, OutcomeIs
  <2> HIDE DEF f
  <2>3. ASSUME NEW outcomes \in OneOfEach(f) PROVE Connect(Op(s), outcomes) \in Verdicts
    <3>1. DOMAIN outcomes = DOMAIN f /\ \A k \in DOMAIN f : outcomes[k] \in f[k]
      BY OneOfEachElim
    <3> QED  BY <1>1, <2>1, <3>1, ConnectVerdict
  <2> QED  BY <2>2, <2>3
<1>2. CASE Op(s) \notin Connective
  <2>1. Outcome(s, v, match) = UNION {Judged(s, selected, match) : selected \in Resolve[Sel(s)][v]}
    BY <1>2, OutcomeIs
  <2>2. ASSUME NEW o \in Resolve[Sel(s)][v] PROVE Judged(s, o, match) \subseteq Verdicts
    <3>1. o \in Outs(Values)
      BY StatementShape, ResolveType
    <3>2. CASE Status(o) # "value"
      BY <3>2, JudgedFails DEF Verdicts
    <3>3. CASE Op(s) \in Comparison \cup {"like"} /\ Status(o) = "value"
      <4>1. Compare(s, Result(o)) \in {"match", "no"}
        BY <3>3, CompareVerdict
      <4> QED  BY <3>3, <4>1, JudgedCompares DEF Verdicts
    <3>4. CASE Op(s) \in Quantifier /\ Status(o) = "value"
      BY <3>1, <3>4, JudgedQuantifies, RangesVerdict, OutsElim
    <3> QED  BY <1>2, <3>2, <3>3, <3>4, StatementShape DEF Operators
  <2> QED  BY <2>1, <2>2
<1> QED  BY <1>1, <1>2

\* The outcomes of a statement only look at those of its parts.
LEMMA OutcomeSame ==
    ASSUME NEW s \in Statements, NEW v, NEW g, NEW h, \A c \in Direct(s) : g[c] = h[c]
    PROVE  Outcome(s, v, g) = Outcome(s, v, h)
<1>1. CASE Op(s) \in Connective
  <2>1. PointedAll(s, v, g) = PointedAll(s, v, h)
    BY <1>1, ChildIsDirect DEF PointedAll, Pointed
  <2>2. Outcome(s, v, g) = {Connect(Op(s), outcomes) : outcomes \in OneOfEach(PointedAll(s, v, g))}
    BY <1>1, OutcomeIs
  <2>3. Outcome(s, v, h) = {Connect(Op(s), outcomes) : outcomes \in OneOfEach(PointedAll(s, v, h))}
    BY <1>1, OutcomeIs
  <2> QED  BY <2>1, <2>2, <2>3
<1>2. CASE Op(s) \notin Connective
  <2>1. ASSUME NEW o PROVE Judged(s, o, g) = Judged(s, o, h)
    <3>1. CASE Op(s) \in Quantifier
      <4>1. g[Arg(s)] = h[Arg(s)]
        BY <3>1, BodyIsDirect
      <4> QED  BY <4>1 DEF Judged, Ranges
    <3>2. CASE Op(s) \notin Quantifier
      BY <3>2, Zenon DEF Judged
    <3> QED  BY <3>1, <3>2
  <2>2. Outcome(s, v, g) = UNION {Judged(s, o, g) : o \in Resolve[Sel(s)][v]}
    BY <1>2, OutcomeIs
  <2>3. Outcome(s, v, h) = UNION {Judged(s, o, h) : o \in Resolve[Sel(s)][v]}
    BY <1>2, OutcomeIs
  <2> QED  BY <2>1, <2>2, <2>3
<1> QED  BY <1>1, <1>2

\* MatchStatement is what its definition says.
LEMMA MatchUnfolds ==
    \A s \in Statements :
        /\ MatchStatement[s] \in [Values -> SUBSET Verdicts]
        /\ \A v \in Values : MatchStatement[s][v] = Outcome(s, v, MatchStatement)
<1> DEFINE R == [Values -> SUBSET Verdicts]
           H(s, g) == [v \in Values |-> Outcome(s, v, g)]
           G == [s \in Statements |-> [g \in [Statements -> R] |-> H(s, g)]]
<1>1. ASSUME NEW s \in Statements, NEW g \in [Statements -> R] PROVE H(s, g) \in R
  BY OutcomeVerdict
<1>2. ASSUME NEW s \in Statements, NEW g, NEW h, \A c \in Direct(s) : g[c] = h[c]
      PROVE  H(s, g) = H(s, h)
  <2>1. \A v \in Values : Outcome(s, v, g) = Outcome(s, v, h)
    BY <1>2, OutcomeSame
  <2> QED  BY <2>1
<1>3. \A s \in Statements : \A g : \A v \in Values : H(s, g)[v] = Outcome(s, v, g)
  OBVIOUS
<1>4. \E g : g = [s \in Statements |-> H(s, g)] /\ g \in [Statements -> R]
  <2> HIDE DEF H
  <2>1. Yields(Statements, R, G) /\ LooksBelow(R, G)
    <3> HIDE DEF R
    <3> QED  BY <1>1, <1>2 DEF Yields, LooksBelow
  <2>2. \A s \in Statements : \A g \in [Statements -> R] : G[s][g] = H(s, g)
    BY Zenon
  <2> HIDE DEF G
  <2>3. R # {}
    <3>1. [v \in Values |-> {}] \in R
      OBVIOUS
    <3> QED  BY <3>1
  <2> HIDE DEF R
  <2>4. PICK f : FixedPoint(Statements, R, G, f)
    BY <2>1, <2>3, StatementRecursion
  <2>5. f = [s \in Statements |-> H(s, f)] /\ f \in [Statements -> R]
    BY <2>2, <2>4 DEF FixedPoint
  <2> QED  BY <2>5
<1>5. PICK f : f = [s \in Statements |-> H(s, f)] /\ f \in [Statements -> R]
  <2> HIDE DEF H, R
  <2> QED  BY <1>4
<1> DEFINE m == MatchStatement
<1>6. m = [s \in Statements |-> H(s, m)]
  <2>1. \E g : g = [s \in Statements |-> H(s, g)]
    BY <1>5, Zenon
  <2> QED  BY <2>1, Zenon DEF MatchStatement
<1> HIDE DEF m
<1>7. \A s \in Statements : m[s] = H(s, m) /\ f[s] = H(s, f) /\ f[s] \in R
  <2> HIDE DEF H, R
  <2> QED  BY <1>5, <1>6
<1> DEFINE T == {s \in Statements : m[s] = f[s]}
<1>8. ASSUME NEW s \in Statements, \A c \in Direct(s) : c \in T PROVE s \in T
  <2>1. H(s, m) = H(s, f)
    <3> HIDE DEF H
    <3> QED  BY <1>2, <1>8
  <2> HIDE DEF H
  <2> QED  BY <1>7, <2>1
<1> HIDE DEF T
<1>9. Statements \subseteq T
  BY <1>8, StatementInduction
<1>10. ASSUME NEW s \in Statements
       PROVE  m[s] \in R /\ \A v \in Values : m[s][v] = Outcome(s, v, m)
  <2>1. m[s] \in R
    <3> HIDE DEF R
    <3> QED  BY <1>7, <1>9 DEF T
  <2>2. \A v \in Values : m[s][v] = Outcome(s, v, m)
    <3> HIDE DEF H
    <3> QED  BY <1>3, <1>7
  <2> QED  BY <2>1, <2>2
<1> QED  BY <1>10 DEF m

-----------------------------------------------------------------------------
(***************************************************************************)
(* Match and its panics.                                                   *)
(***************************************************************************)
\* The parts of a statement are statements.
LEMMA PartsShape ==
    ASSUME NEW s \in Statements
    PROVE  /\ s \in Parts[s] /\ Parts[s] \subseteq Statements
           /\ \A c \in Direct(s) : c \in Statements /\ Parts[c] \subseteq Parts[s]
  BY PartsUnfolds, StatementShape

\* Where the outcomes of a connective come from.
LEMMA ConnectMatch ==
    ASSUME NEW s \in Statements, Op(s) \in Connective, NEW v \in Values,
           NEW x \in MatchStatement[s][v]
    PROVE  \E outcomes :
              /\ DOMAIN outcomes = DOMAIN Children(s)
              /\ \A k \in DOMAIN outcomes :
                    /\ outcomes[k] \in Pointed(Children(s)[k], v, MatchStatement)
                    /\ outcomes[k] \in Verdicts
              /\ Children(s) = <<>> => outcomes = <<>>
              /\ x = Connect(Op(s), outcomes)
<1> DEFINE f == PointedAll(s, v, MatchStatement)
<1>1. MatchStatement[s][v] = {Connect(Op(s), outcomes) : outcomes \in OneOfEach(f)}
  BY MatchUnfolds, OutcomeIs
<1>2. PICK outcomes : outcomes \in OneOfEach(f) /\ x = Connect(Op(s), outcomes)
  BY <1>1
<1>3. /\ DOMAIN f = DOMAIN Children(s)
      /\ \A k \in DOMAIN f : f[k] = Pointed(Children(s)[k], v, MatchStatement)
  BY DEF PointedAll
<1> HIDE DEF f
<1>4. /\ DOMAIN outcomes = DOMAIN f
      /\ outcomes = [k \in DOMAIN f |-> outcomes[k]]
      /\ \A k \in DOMAIN f : outcomes[k] \in f[k]
  BY <1>2, OneOfEachElim
<1>5. \A k \in DOMAIN f : f[k] \subseteq Verdicts
  <2> SUFFICES ASSUME NEW k \in DOMAIN Children(s)
               PROVE  Pointed(Children(s)[k], v, MatchStatement) \subseteq Verdicts
    BY <1>3
  <2>1. Children(s)[k] \in Statements /\ Rebuild[Children(s)[k]] \in Verdicts
    BY ChildIsDirect, RebuildUnfolds
  <2>2. MatchStatement[Children(s)[k]] \in [Values -> SUBSET Verdicts]
    BY <2>1, MatchUnfolds
  <2> QED  BY <2>1, <2>2 DEF Pointed
<1>6. Children(s) = <<>> => outcomes = <<>>
  <2>1. Children(s) = <<>> => DOMAIN f = {}
    BY <1>3
  <2>2. DOMAIN f = {} => outcomes = <<>>
    BY <1>4
  <2> QED  BY <2>1, <2>2
<1> QED  BY <1>2, <1>3, <1>4, <1>5, <1>6

\* Where the outcomes of other statements come from.
LEMMA JudgedMatch ==
    ASSUME NEW s \in Statements, Op(s) \notin Connective, NEW v \in Values,
           NEW x \in MatchStatement[s][v]
    PROVE  \E o \in Resolve[Sel(s)][v] :
              o \in Outs(Values) /\ x \in Judged(s, o, MatchStatement)
<1>1. MatchStatement[s][v] = UNION {Judged(s, o, MatchStatement) : o \in Resolve[Sel(s)][v]}
  BY MatchUnfolds, OutcomeIs
<1>2. Resolve[Sel(s)][v] \subseteq Outs(Values)
  BY StatementShape, ResolveType
<1> QED  BY <1>1, <1>2

\* Where the outcomes of a quantifier on a collection come from.
LEMMA QuantifiesMatch ==
    ASSUME NEW s \in Statements, Op(s) \in Quantifier, NEW w \in Values, IsCollection(w),
           NEW x \in Ranges(s, w, MatchStatement)
    PROVE  \E items \in Enumerated(w) : \E outcomes :
              /\ DOMAIN outcomes = DOMAIN items
              /\ \A k \in DOMAIN outcomes :
                    /\ outcomes[k] \in MatchStatement[Arg(s)][items[k]]
                    /\ outcomes[k] \in Verdicts
              /\ x = Quantifies(Op(s), outcomes)
<1>1. PICK items, outcomes :
         /\ items \in Enumerated(w)
         /\ DOMAIN outcomes = DOMAIN items
         /\ \A k \in DOMAIN items : outcomes[k] \in MatchStatement[Arg(s)][items[k]]
         /\ x = Quantifies(Op(s), outcomes)
  BY RangesOver
<1>2. \A k \in DOMAIN items : items[k] \in Values
  BY <1>1, SelectedItems
<1>3. MatchStatement[Arg(s)] \in [Values -> SUBSET Verdicts]
  BY BodyIsDirect, MatchUnfolds
<1>4. \A k \in DOMAIN outcomes : outcomes[k] \in Verdicts
  BY <1>1, <1>2, <1>3
<1> QED  BY <1>1, <1>4

\* What its selectors do not panic over, a statement does not.
LEMMA NoPanic ==
    ASSUME NEW V, PartsIn(V), NEW Sels,
           \A sel \in Sels : \A v \in V : Resolve[sel][v] \subseteq Only(V)
    PROVE  \A s \in Statements :
              Rebuilds(s) /\ (\A p \in Parts[s] : Sel(p) \in Sels) =>
                 \A v \in V : "panic" \notin MatchStatement[s][v]
<1> DEFINE Good(s) == Rebuilds(s) /\ \A p \in Parts[s] : Sel(p) \in Sels
           T == {s \in Statements : Good(s) => \A v \in V : "panic" \notin MatchStatement[s][v]}
<1>1. ASSUME NEW s \in Statements, \A c \in Direct(s) : c \in T PROVE s \in T
  <2> SUFFICES ASSUME Good(s), NEW v \in V, NEW x \in MatchStatement[s][v] PROVE x # "panic"
    OBVIOUS
  <2>0. v \in Values /\ V \subseteq Values
    BY DEF PartsIn
  <2>1. \A c \in Direct(s) : Good(c)
    BY PartsShape DEF Rebuilds
  <2>2. \A c \in Direct(s) : \A w \in V : "panic" \notin MatchStatement[c][w]
    BY <1>1, <2>1
  <2>3. Resolve[Sel(s)][v] \subseteq Only(V)
    BY PartsShape
  <2>4. CASE Op(s) \in Connective
    <3>1. PICK outcomes :
              /\ DOMAIN outcomes = DOMAIN Children(s)
              /\ \A k \in DOMAIN outcomes :
                    /\ outcomes[k] \in Pointed(Children(s)[k], v, MatchStatement)
                    /\ outcomes[k] \in Verdicts
              /\ x = Connect(Op(s), outcomes)
      BY <2>0, <2>4, ConnectMatch
    <3>2. \A k \in DOMAIN Children(s) : Rebuild[Children(s)[k]] = "match"
      BY <2>4, PartsShape DEF Rebuilds
    <3>3. \A k \in DOMAIN outcomes : outcomes[k] # "panic"
      BY <2>2, <2>4, <3>1, <3>2, ChildIsDirect DEF Pointed
    <3>4. DOMAIN outcomes \subseteq Nat
      BY <2>4, <3>1, ChildIsDirect
    <3>5. CASE Op(s) = "not"
      <4>1. 1 \in DOMAIN outcomes
        BY <3>1, <3>5, StatementShape, OneItem
      <4> QED  BY <3>1, <3>3, <3>5, <4>1 DEF Connect, Verdict
    <3>6. CASE Op(s) = "and"
      BY <3>1, <3>3, <3>4, <3>6, FirstOfIs DEF Connect
    <3>7. CASE Op(s) = "or"
      BY <3>1, <3>3, <3>4, <3>7, FirstOfIs DEF Connect
    <3> QED  BY <2>4, <3>5, <3>6, <3>7 DEF Connective
  <2>5. CASE Op(s) \notin Connective
    <3>1. PICK o \in Resolve[Sel(s)][v] : x \in Judged(s, o, MatchStatement)
      BY <2>0, <2>5, JudgedMatch
    <3>2. /\ o # Panic /\ Status(o) \in {"value", "error"}
          /\ Status(o) = "value" => Result(o) \in V
      BY <2>3, OnlyParts
    <3>3. CASE Status(o) # "value"
      BY <3>1, <3>2, <3>3, JudgedFails
    <3>4. CASE Op(s) \in Comparison \cup {"like"} /\ Status(o) = "value"
      <4>1. Compare(s, Result(o)) \in {"match", "no"}
        BY <3>4, CompareVerdict
      <4> QED  BY <3>1, <3>4, <4>1, JudgedCompares
    <3>5. CASE Op(s) \in Quantifier /\ Status(o) = "value"
      <4> DEFINE w == Result(o)
      <4>1. w \in V /\ w \in Values /\ x \in Ranges(s, w, MatchStatement)
        BY <2>0, <3>1, <3>2, <3>5, JudgedQuantifies
      <4> HIDE DEF w
      <4>2. CASE ~IsCollection(w)
        BY <4>1, <4>2, RangesNone
      <4>3. CASE IsCollection(w)
        <5>1. PICK items, outcomes :
                /\ items \in Enumerated(w)
                /\ DOMAIN outcomes = DOMAIN items
                /\ \A k \in DOMAIN outcomes :
                      /\ outcomes[k] \in MatchStatement[Arg(s)][items[k]]
                      /\ outcomes[k] \in Verdicts
                /\ x = Quantifies(Op(s), outcomes)
          BY <3>5, <4>1, <4>3, QuantifiesMatch
        <5>2. \A k \in DOMAIN outcomes : items[k] \in V
          <6>1. \A k \in DOMAIN items : \E p \in Places(w) : items[k] = Data(w)[p]
            BY <5>1, <4>1, <4>3, SelectedItems
          <6> QED  BY <4>1, <5>1, <6>1 DEF PartsIn
        <5>3. \A k \in DOMAIN outcomes : outcomes[k] # "panic"
          BY <2>2, <3>5, <5>1, <5>2, BodyIsDirect
        <5>4. DOMAIN outcomes \subseteq Nat
          BY <4>1, <4>3, <5>1, SelectedItems
        <5> QED  BY <3>5, <5>1, <5>3, <5>4, FirstOfIs DEF Quantifies, Quantifier
      <4> QED  BY <4>2, <4>3
    <3> QED  BY <2>5, <3>3, <3>4, <3>5, StatementShape DEF Operators
  <2> QED  BY <2>4, <2>5
<1> HIDE DEF T
<1>2. Statements \subseteq T
  BY <1>1, StatementInduction
<1> QED  BY <1>2 DEF T

\* The causes of a panic.
LEMMA PanicsFor ==
    ASSUME NEW s \in Statements, NEW v \in Canonic, "panic" \in MatchStatement[s][v]
    PROVE  \/ ~Rebuilds(s)
           \/ \E p \in Parts[s] : \E k \in DOMAIN Sel(p) :
                 \/ Sel(p)[k][1] = "slice"
                 \/ IsIterator(Sel(p)[k]) /\ HoldsNull[v]
<1> SUFFICES ASSUME Rebuilds(s),
                    \A p \in Parts[s] : \A k \in DOMAIN Sel(p) :
                       /\ Sel(p)[k][1] # "slice"
                       /\ ~(IsIterator(Sel(p)[k]) /\ HoldsNull[v])
             PROVE  FALSE
  OBVIOUS
<1>0. \A p \in Parts[s] : Sel(p) \in Selectors
  BY PartsShape, StatementShape
<1>1. CASE HoldsNull[v]
  <2> DEFINE Sels == {sel \in Selectors : Whole(sel)}
  <2>1. \A p \in Parts[s] : Sel(p) \in Sels
    BY <1>0, <1>1 DEF Whole, IsIterator
  <2>2. \A sel \in Sels : \A w \in Canonic : Resolve[sel][w] \subseteq Only(Canonic)
    BY WholeResolves
  <2> HIDE DEF Sels
  <2> QED  BY <2>1, <2>2, NoPanic, CanonicSet
<1>2. CASE ~HoldsNull[v]
  <2> DEFINE Sels == {sel \in Selectors : \A k \in DOMAIN sel : sel[k][1] # "slice"}
  <2>1. \A p \in Parts[s] : Sel(p) \in Sels
    BY <1>0
  <2>2. \A sel \in Sels : \A w \in Clear : Resolve[sel][w] \subseteq Only(Clear)
    BY UncutResolves
  <2>3. v \in Clear
    BY <1>2 DEF Clear, Canonic
  <2> HIDE DEF Sels
  <2> QED  BY <2>1, <2>2, <2>3, NoPanic, ClearSet
<1> QED  BY <1>1, <1>2

-----------------------------------------------------------------------------
\* The statements the loop has passed can match, in some orders of the maps, and
\* the one it stopped at can do what the verdict says.
Evaluated ==
    /\ policy \in Seq(Statements)
    /\ args \in Canonic
    /\ i \in 1 .. Len(policy) + 1
    /\ verdict \in Verdicts \cup {"pending"}
    /\ \A k \in 1 .. i - 1 : "match" \in MatchStatement[policy[k]][args]
    /\ verdict = "match" => i = Len(policy) + 1
    /\ verdict \in {"no", "panic"} =>
          i \in 1 .. Len(policy) /\ verdict \in MatchStatement[policy[i]][args]

\* The inductive invariant: the loop has come to where every earlier
\* statement of the policy has matched the arguments, and a verdict other than
\* a match is the outcome of the statement it stopped at (match.go 15-23).
THEOREM EvaluatedInductive == Spec => []Evaluated
<1>1. Init => Evaluated
  <2> SUFFICES ASSUME Init PROVE Evaluated
    OBVIOUS
  <2>1. policy \in Seq(Statements) /\ args \in Canonic
    BY PolicyAssumption DEF Init, Canonic
  <2>2. Len(policy) \in Nat /\ i = 1 /\ verdict = "pending"
    BY <2>1 DEF Init
  <2> QED  BY <2>1, <2>2 DEF Evaluated
<1>2. Evaluated /\ [Next]_vars => Evaluated'
  <2> SUFFICES ASSUME Evaluated, [Next]_vars PROVE Evaluated'
    OBVIOUS
  <2>0. Len(policy) \in Nat /\ i \in Nat
    BY DEF Evaluated
  <2>1. CASE MatchNext
    <3>1. PICK outcome \in MatchStatement[policy[i]][args] :
             IF outcome = "match"
             THEN i' = i + 1 /\ UNCHANGED verdict
             ELSE verdict' = outcome /\ UNCHANGED i
      BY <2>1 DEF MatchNext
    <3>2. i \in 1 .. Len(policy) /\ verdict = "pending" /\ policy' = policy /\ args' = args
      BY <2>0, <2>1 DEF MatchNext, Evaluated
    <3>3. policy[i] \in Statements /\ args \in Values
      BY <3>2 DEF Evaluated, Canonic
    <3>4. outcome \in Verdicts
      BY <3>3, MatchUnfolds
    <3>5. CASE outcome = "match"
      <4>1. i' = i + 1 /\ verdict' = verdict
        BY <3>1, <3>5
      <4>2. \A k \in 1 .. i' - 1 : k \in 1 .. i - 1 \/ k = i
        BY <2>0, <4>1
      <4> QED  BY <2>0, <3>2, <3>5, <4>1, <4>2 DEF Evaluated, Verdicts
    <3>6. CASE outcome # "match"
      <4>1. verdict' = outcome /\ i' = i
        BY <3>1, <3>6
      <4> QED  BY <2>0, <3>2, <3>4, <3>6, <4>1 DEF Evaluated, Verdicts
    <3> QED  BY <3>5, <3>6
  <2>2. CASE Matched
    BY <2>0, <2>2 DEF Matched, Evaluated, Verdicts
  <2>3. CASE UNCHANGED vars \/ Terminated
    BY <2>3 DEF Terminated, vars, Evaluated
  <2> QED  BY <2>1, <2>2, <2>3 DEF Next
<1> QED  BY <1>1, <1>2, PTL DEF Spec

\* Match only panics over a statement that cuts a range, one that cannot be
\* built anew, or one that iterates over lists with nulls in them.
THEOREM Panics == Spec => []PanicsForCause
<1>1. Evaluated => PanicsForCause
  <2> SUFFICES ASSUME Evaluated, verdict = "panic"
               PROVE  \/ ~Rebuilds(policy[i])
                      \/ \E p \in Parts[policy[i]] : \E k \in DOMAIN Sel(p) :
                            \/ Sel(p)[k][1] = "slice"
                            \/ IsIterator(Sel(p)[k]) /\ HoldsNull[args]
    BY DEF PanicsForCause
  <2>1. "panic" \in MatchStatement[policy[i]][args]
    BY DEF Evaluated
  <2>2. policy[i] \in Statements /\ args \in Canonic
    BY DEF Evaluated
  <2> QED  BY <2>1, <2>2, PanicsFor
<1> QED  BY <1>1, EvaluatedInductive, PTL

-----------------------------------------------------------------------------
(***************************************************************************)
(* What a selector denotes.                                                *)
(***************************************************************************)
Joined(s, t) == s \o t

Flattening(ss, f) == f[0] = <<>> /\ \A n \in 1 .. Len(ss) : f[n] = Joined(f[n - 1], ss[n])

\* Flat is the last of a sequence of concatenations.
LEMMA FlatUnfolds ==
    ASSUME NEW X, NEW ss, Len(ss) \in Nat, \A k \in 1 .. Len(ss) : ss[k] \in Seq(X)
    PROVE  \E f \in [0 .. Len(ss) -> Seq(X)] : Flattening(ss, f) /\ Flat(ss) = f[Len(ss)]
<1> DEFINE D == 0 .. Len(ss)
           R == Seq(X)
           rank == [n \in D |-> n]
           G == [n \in D |-> [g \in [D -> R] |-> IF n = 0 THEN <<>> ELSE Joined(g[n - 1], ss[n])]]
<1>1. Ranked(D, rank)
  BY DEF Ranked
<1>2. R # {}
  BY EmptySeq
<1>3. Yields(D, R, G)
  <2> SUFFICES ASSUME NEW n \in D, NEW g \in [D -> R] PROVE G[n][g] \in R
    BY DEF Yields
  <2>1. CASE n = 0
    BY <2>1
  <2>2. CASE n # 0
    <3>1. n - 1 \in D /\ n \in 1 .. Len(ss)
      BY <2>2
    <3>2. g[n - 1] \in Seq(X) /\ ss[n] \in Seq(X)
      BY <3>1
    <3>3. Joined(g[n - 1], ss[n]) \in Seq(X)
      BY <3>2, ConcatProperties DEF Joined
    <3> QED  BY <2>2, <3>3
  <2> QED  BY <2>1, <2>2
<1>4. LooksDown(D, R, rank, G)
  <2> SUFFICES ASSUME NEW n \in D, NEW g \in [D -> R], NEW h \in [D -> R],
                      \A m \in D : rank[m] < rank[n] => g[m] = h[m]
               PROVE  G[n][g] = G[n][h]
    BY DEF LooksDown
  <2>1. CASE n = 0
    BY <2>1
  <2>2. CASE n # 0
    <3>1. n - 1 \in D /\ rank[n - 1] < rank[n]
      BY <2>2
    <3> QED  BY <2>2, <3>1
  <2> QED  BY <2>1, <2>2
<1>5. \A n \in D : \A g \in [D -> R] : G[n][g] = IF n = 0 THEN <<>> ELSE Joined(g[n - 1], ss[n])
  OBVIOUS
<1> HIDE DEF G, rank
<1>6. PICK f : FixedPoint(D, R, G, f)
  <2> HIDE DEF D, R
  <2> QED  BY <1>1, <1>2, <1>3, <1>4, Recursion
<1>7. f = [n \in D |-> IF n = 0 THEN <<>> ELSE Joined(f[n - 1], ss[n])] /\ f \in [D -> R]
  <2> HIDE DEF D, R
  <2> QED  BY <1>5, <1>6 DEF FixedPoint
<1> DEFINE flat == CHOOSE m : m = [n \in D |-> IF n = 0 THEN <<>> ELSE Joined(m[n - 1], ss[n])]
<1>8. /\ flat = [n \in D |-> IF n = 0 THEN <<>> ELSE Joined(flat[n - 1], ss[n])]
      /\ Flat(ss) = flat[Len(ss)]
  BY <1>7, Zenon DEF Flat, Joined
<1>9. ASSUME NEW m, m = [n \in D |-> IF n = 0 THEN <<>> ELSE Joined(m[n - 1], ss[n])]
      PROVE  \A n \in 0 .. Len(ss) : m[n] = f[n]
  <2> DEFINE T == {n \in 0 .. Len(ss) : m[n] = f[n]}
  <2>1. 0 \in T
    BY <1>7, <1>9
  <2>2. \A n \in 0 .. Len(ss) : n \in T /\ n < Len(ss) => n + 1 \in T
    <3> SUFFICES ASSUME NEW n \in 0 .. Len(ss), m[n] = f[n], n < Len(ss) PROVE m[n + 1] = f[n + 1]
      OBVIOUS
    <3>1. n + 1 \in D /\ n + 1 # 0 /\ (n + 1) - 1 = n
      OBVIOUS
    <3> QED  BY <1>7, <1>9, <3>1
  <2> HIDE DEF T
  <2>3. \A n \in 0 .. Len(ss) : n \in T
    BY <2>1, <2>2, UpTo
  <2> QED  BY <2>3 DEF T
<1>10. flat[Len(ss)] = f[Len(ss)]
  <2> HIDE DEF flat
  <2> QED  BY <1>8, <1>9
<1>11. Flattening(ss, f)
  <2>1. \A n \in 1 .. Len(ss) : n \in D /\ n # 0
    OBVIOUS
  <2> QED  BY <1>7, <2>1 DEF Flattening
<1> QED  BY <1>7, <1>8, <1>10, <1>11

\* Flat joins sequences over X into one.
LEMMA FlatType ==
    ASSUME NEW X, NEW ss, Len(ss) \in Nat, \A k \in 1 .. Len(ss) : ss[k] \in Seq(X)
    PROVE  Flat(ss) \in Seq(X)
<1>1. PICK f \in [0 .. Len(ss) -> Seq(X)] : Flattening(ss, f) /\ Flat(ss) = f[Len(ss)]
  BY FlatUnfolds
<1> QED  BY <1>1

\* A single sequence is left as it is.
LEMMA FlatOne ==
    ASSUME NEW X, NEW ss, Len(ss) = 1, ss[1] \in Seq(X)
    PROVE  Flat(ss) = ss[1]
<1>1. PICK f \in [0 .. Len(ss) -> Seq(X)] : Flattening(ss, f) /\ Flat(ss) = f[Len(ss)]
  BY FlatUnfolds
<1>2. f[0] = <<>> /\ f[1] = Joined(f[0], ss[1])
  <2>1. 1 \in 1 .. Len(ss) /\ 1 - 1 = 0
    OBVIOUS
  <2> QED  BY <1>1, <2>1 DEF Flattening
<1>3. Joined(<<>>, ss[1]) = ss[1]
  BY ConcatEmptySeq DEF Joined
<1> QED  BY <1>1, <1>2, <1>3

\* Sequences of one item each join into that of the items.
LEMMA FlatSingles ==
    ASSUME NEW X, NEW s \in Seq(X), NEW ss, Len(ss) = Len(s),
           \A k \in 1 .. Len(s) : ss[k] = <<s[k]>>
    PROVE  Flat(ss) = s
<1>0. Len(s) \in Nat /\ \A k \in 1 .. Len(s) : s[k] \in X /\ ss[k] \in Seq(X)
  <2>1. Len(s) \in Nat /\ \A k \in 1 .. Len(s) : s[k] \in X
    OBVIOUS
  <2>2. ASSUME NEW k \in 1 .. Len(s) PROVE ss[k] \in Seq(X)
    <3> DEFINE x == s[k]
    <3>1. x \in X /\ ss[k] = <<x>>
      BY <2>1
    <3> HIDE DEF x
    <3> QED  BY <3>1, OneItem
  <2> QED  BY <2>1, <2>2
<1>1. PICK f \in [0 .. Len(ss) -> Seq(X)] : Flattening(ss, f) /\ Flat(ss) = f[Len(ss)]
  BY <1>0, FlatUnfolds
<1> DEFINE T == {n \in 0 .. Len(s) : Len(f[n]) = n /\ \A k \in 1 .. n : f[n][k] = s[k]}
<1>2. 0 \in T
  BY <1>1 DEF Flattening
<1>3. ASSUME NEW n \in 0 .. Len(s), n \in T, n < Len(s) PROVE n + 1 \in T
  <2> DEFINE a == f[n]
             b == <<s[n + 1]>>
             c == f[n + 1]
  <2>1. n + 1 \in 1 .. Len(s) /\ (n + 1) - 1 = n
    BY <1>3
  <2>2. c = a \o b
    <3>1. c = Joined(f[n], ss[n + 1])
      BY <1>0, <1>1, <2>1 DEF Flattening
    <3>2. ss[n + 1] = b
      BY <2>1
    <3> QED  BY <3>1, <3>2, Zenon DEF Joined
  <2>3. a \in Seq(X) /\ Len(a) = n /\ (\A k \in 1 .. n : a[k] = s[k])
    BY <1>0, <1>1, <1>3
  <2>4. b \in Seq(X) /\ Len(b) = 1 /\ b[1] = s[n + 1]
    BY <1>0, <2>1, OneItem
  <2> HIDE DEF a, b, c
  <2>5. /\ Len(a \o b) = Len(a) + Len(b)
        /\ \A k \in 1 .. Len(a) + Len(b) : (a \o b)[k] = IF k <= Len(a) THEN a[k] ELSE b[k - Len(a)]
    BY <2>3, <2>4, ConcatProperties
  <2>6. Len(c) = n + 1 /\ \A k \in 1 .. n + 1 : c[k] = s[k]
    BY <2>2, <2>3, <2>4, <2>5
  <2> QED  BY <2>1, <2>6 DEF c
<1> HIDE DEF T
<1>4. \A n \in 0 .. Len(s) : n \in T
  BY <1>0, <1>2, <1>3, UpTo
<1>5. Len(s) \in T
  BY <1>0, <1>4
<1>6. f[Len(s)] \in Seq(X) /\ Len(f[Len(s)]) = Len(s) /\ \A k \in 1 .. Len(s) : f[Len(s)][k] = s[k]
  BY <1>0, <1>1, <1>5 DEF T
<1>7. f[Len(s)] = s
  BY <1>6, SeqEqual
<1> QED  BY <1>1, <1>7

-----------------------------------------------------------------------------
Reached == Values \cup {Absent}

\* Absent is no value, and has nothing that nil does not have.
LEMMA AbsentIs ==
    /\ Kind(Absent) = "nil" /\ Kind(Nil) = "nil" /\ Absent \notin Values
    /\ ~IsCollection(Absent) /\ ~IsCollection(Nil) /\ ~IsIndexed(Absent) /\ ~IsIndexed(Nil)
    /\ Values # {} => Nil \in Values
<1>1. Kind(Absent) = "nil" /\ Kind(Nil) = "nil" /\ Absent # Nil
  BY DEF Kind, Absent, Nil
<1>2. Absent \notin Values
  BY <1>1, ValuesAreNested, NestElim
<1>3. Values # {} => Nil \in Values
  <2>1. Values # {} => Depth # 0
    BY ValuesToStep, SelectorAssumption DEF Values
  <2> QED  BY <2>1, ValuesToStep, NestIntro, SelectorAssumption DEF Values
<1> QED  BY <1>1, <1>2, <1>3 DEF IsCollection, IsIndexed

\* The only element of a set of one.
LEMMA SoleOf == \A x : Sole({x}) = x
  BY DEF Sole

\* What Missing yields, and what is reached instead.
Skipped(seg) == IF Optional(seg) THEN {<<Absent>>} ELSE {}

\* What an index picks, as a selector denotes it.
Picked(v, k) ==
    IF Kind(v) = "string" THEN Str(<<Data(v)[k]>>)
    ELSE IF Kind(Data(v)[k]) = "byte" THEN Num(Data(Data(v)[k])) ELSE Data(v)[k]

\* What a segment reaches, by its form.
LEMMA ReachIs ==
    ASSUME NEW seg, NEW v
    PROVE  /\ seg[1] = "identity" => Reach(seg, v) = {{<<v>>}}
           /\ seg[1] = "iterator" => Reach(seg, v) =
                 IF IsIterable(v) THEN {{items} : items \in Enumerated(v)} ELSE {Skipped(seg)}
           /\ seg[1] = "field" => Reach(seg, v) =
                 IF Kind(v) = "map" /\ seg[3] \in Places(v)
                 THEN {{<<Data(v)[seg[3]]>>}} ELSE {Skipped(seg)}
           /\ seg[1] = "index" => Reach(seg, v) =
                 LET at == {k \in 1 .. Len(Data(v)) : seg[3] \in {k - 1, k - 1 - Len(Data(v))}}
                 IN  IF IsIndexed(v) /\ at # {} THEN {{<<Picked(v, k)>> : k \in at}}
                     ELSE {Skipped(seg)}
           /\ seg[1] = "slice" => Reach(seg, v) =
                 LET lo == seg[3][1]
                     hi == Append(seg[3], Len(Data(v)))[2]
                 IN  IF IsIndexed(v)
                     THEN {{<<<<TypeOf(v), SubSeq(Data(v), lo + 1, hi)>>>> :
                              ok \in {TRUE} \cap {0 <= lo /\ lo <= hi /\ hi <= Len(Data(v))}}}
                     ELSE {Skipped(seg)}
  BY DEF Reach, Skipped, Picked

-----------------------------------------------------------------------------
(***************************************************************************)
(* One segment: what it yields and what it reaches.                        *)
(***************************************************************************)
\* What a segment yields and what it reaches.
Agrees(o, reached) ==
    \/ o = ResolutionError /\ reached = {}
    \/ o = Panic /\ reached = {}
    \/ o = Value(Nil) /\ reached = {<<Absent>>}
    \/ \E x : o = Value(x) /\ reached = {<<x>>}

\* A segment that does not fit yields what it reaches.
LEMMA MissingAgrees == ASSUME NEW seg PROVE Agrees(Missing(seg), Skipped(seg))
  BY DEF Agrees, Missing, Skipped

\* The one reading of a segment that does not iterate.
Reading(seg, v) == Sole(Reach(seg, v))

\* It is the only one.
LEMMA ReadingOne ==
    ASSUME NEW seg, NEW v, NEW b, NEW x, NEW y, Reach(seg, v) = IF b THEN {x} ELSE {y}
    PROVE  Reach(seg, v) = {Reading(seg, v)} /\ Reading(seg, v) = IF b THEN x ELSE y
<1>1. CASE b
  BY <1>1, SoleOf DEF Reading
<1>2. CASE ~b
  BY <1>2, SoleOf DEF Reading
<1> QED  BY <1>1, <1>2

\* By the form of the segment.
LEMMA ReadingIs ==
    ASSUME NEW seg \in Segments, ~IsIterator(seg), NEW v
    PROVE  /\ Reach(seg, v) = {Reading(seg, v)}
           /\ seg[1] = "identity" => Reading(seg, v) = {<<v>>}
           /\ seg[1] = "field" => Reading(seg, v) =
                 IF Kind(v) = "map" /\ seg[3] \in Places(v)
                 THEN {<<Data(v)[seg[3]]>>} ELSE Skipped(seg)
           /\ seg[1] = "index" => Reading(seg, v) =
                 LET at == {k \in 1 .. Len(Data(v)) : seg[3] \in {k - 1, k - 1 - Len(Data(v))}}
                 IN  IF IsIndexed(v) /\ at # {} THEN {<<Picked(v, k)>> : k \in at}
                     ELSE Skipped(seg)
           /\ seg[1] = "slice" => Reading(seg, v) =
                 LET lo == seg[3][1]
                     hi == Append(seg[3], Len(Data(v)))[2]
                 IN  IF IsIndexed(v)
                     THEN {<<<<TypeOf(v), SubSeq(Data(v), lo + 1, hi)>>>> :
                             ok \in {TRUE} \cap {0 <= lo /\ lo <= hi /\ hi <= Len(Data(v))}}
                     ELSE Skipped(seg)
<1>1. CASE seg[1] = "identity"
  <2>1. Reach(seg, v) = {{<<v>>}}
    BY <1>1, ReachIs
  <2> QED  BY <1>1, <2>1, SoleOf DEF Reading
<1>2. CASE seg[1] = "field"
  <2>1. Reach(seg, v) = IF Kind(v) = "map" /\ seg[3] \in Places(v)
                        THEN {{<<Data(v)[seg[3]]>>}} ELSE {Skipped(seg)}
    BY <1>2, ReachIs
  <2> QED  BY <1>2, <2>1, ReadingOne
<1>3. CASE seg[1] = "index"
  <2> DEFINE at == {k \in 1 .. Len(Data(v)) : seg[3] \in {k - 1, k - 1 - Len(Data(v))}}
             found == {<<Picked(v, k)>> : k \in at}
  <2>1. Reach(seg, v) = IF IsIndexed(v) /\ at # {} THEN {found} ELSE {Skipped(seg)}
    BY <1>3, ReachIs
  <2> HIDE DEF found
  <2>2. /\ Reach(seg, v) = {Reading(seg, v)}
        /\ Reading(seg, v) = IF IsIndexed(v) /\ at # {} THEN found ELSE Skipped(seg)
    BY <2>1, ReadingOne
  <2> QED  BY <1>3, <2>2 DEF found
<1>4. CASE seg[1] = "slice"
  <2> DEFINE lo == seg[3][1]
             hi == Append(seg[3], Len(Data(v)))[2]
             found == {<<<<TypeOf(v), SubSeq(Data(v), lo + 1, hi)>>>> :
                         ok \in {TRUE} \cap {0 <= lo /\ lo <= hi /\ hi <= Len(Data(v))}}
  <2>1. Reach(seg, v) = IF IsIndexed(v) THEN {found} ELSE {Skipped(seg)}
    BY <1>4, ReachIs
  <2> HIDE DEF found
  <2>2. /\ Reach(seg, v) = {Reading(seg, v)}
        /\ Reading(seg, v) = IF IsIndexed(v) THEN found ELSE Skipped(seg)
    BY <2>1, ReadingOne
  <2> QED  BY <1>4, <2>2 DEF found
<1> QED  BY <1>1, <1>2, <1>3, <1>4, SegmentForms DEF IsIterator

\* Indices that do not pick a single byte.
NoByteAt(seg, v) == seg[1] = "index" => \A k \in Places(v) : Kind(Data(v)[k]) # "byte"

\* A segment that is no iterator yields exactly what it reaches,
\* unless it picks a byte.
LEMMA StepAgrees ==
    ASSUME NEW v \in Values, NEW seg \in Segments, ~IsIterator(seg), NoByteAt(seg, v),
           NEW rest, NEW o \in Step(seg, v, rest)
    PROVE  Agrees(o, Reading(seg, v))
<1> DEFINE reached == Reading(seg, v)
<1>0. v \in Nest(Values)
  BY ValuesAreNested
<1>1. CASE seg[1] = "identity"
  <2>1. o = Value(v) /\ reached = {<<v>>}
    BY <1>1, StepIs, ReadingIs
  <2> QED  BY <2>1 DEF Agrees
<1>2. CASE seg[1] = "field"
  <2>1. o = ResolveField(seg, v)
    BY <1>2, StepIs
  <2>2. reached = IF Kind(v) = "map" /\ seg[3] \in Places(v)
                  THEN {<<Data(v)[seg[3]]>>} ELSE Skipped(seg)
    BY <1>2, ReadingIs
  <2> HIDE DEF reached
  <2>3. CASE Kind(v) = "map" /\ seg[3] \in Places(v)
    <3>1. o = Value(Data(v)[seg[3]])
      BY <2>1, <2>3 DEF ResolveField
    <3>2. reached = {<<Data(v)[seg[3]]>>}
      BY <2>2, <2>3
    <3> QED  BY <3>1, <3>2 DEF Agrees, reached
  <2>4. CASE ~(Kind(v) = "map" /\ seg[3] \in Places(v))
    <3>1. o = Missing(seg) /\ reached = Skipped(seg)
      BY <2>1, <2>2, <2>4 DEF ResolveField
    <3> QED  BY <3>1, MissingAgrees DEF reached
  <2> QED  BY <2>3, <2>4 DEF reached
<1>3. CASE seg[1] = "index"
  <2> DEFINE n == Len(Data(v))
             k == IF seg[3] < 0 THEN n + seg[3] ELSE seg[3]
             at == {l \in 1 .. n : seg[3] \in {l - 1, l - 1 - n}}
             item(l) == IF Kind(v) = "list" THEN Data(v)[l] ELSE Str(<<Data(v)[l]>>)
  <2>0. IsIndexed(v) => \A l \in 1 .. n : Picked(v, l) = item(l)
    <3>1. CASE Kind(v) = "string"
      BY <3>1 DEF Picked
    <3>2. CASE Kind(v) = "list"
      <4>1. \A l \in 1 .. n : Kind(Data(v)[l]) # "byte"
        BY <1>0, <1>3, <3>2, ValuesAreNested DEF NoByteAt
      <4> QED  BY <3>2, <4>1 DEF Picked
    <3> QED  BY <3>1, <3>2 DEF IsIndexed
  <2>1. o = ResolveIndex(seg, v)
    BY <1>3, StepIs
  <2>2. o = IF ~IsIndexed(v) \/ k \notin 0 .. n - 1 THEN Missing(seg) ELSE Value(item(k + 1))
    BY <2>1 DEF ResolveIndex
  <2>3. reached = IF IsIndexed(v) /\ at # {} THEN {<<item(l)>> : l \in at} ELSE Skipped(seg)
    <3>1. reached = IF IsIndexed(v) /\ at # {} THEN {<<Picked(v, l)>> : l \in at} ELSE Skipped(seg)
      BY <1>3, ReadingIs
    <3> HIDE DEF item, reached
    <3>2. IsIndexed(v) => {<<item(l)>> : l \in at} = {<<Picked(v, l)>> : l \in at}
      BY <2>0
    <3> QED  BY <3>1, <3>2
  <2>4. seg[3] \in Int
    BY <1>3, SegmentForms
  <2>5. CASE ~IsIndexed(v)
    <3>1. o = Missing(seg) /\ reached = Skipped(seg)
      BY <2>2, <2>3, <2>5
    <3> QED  BY <3>1, MissingAgrees
  <2>6. CASE IsIndexed(v)
    <3>1. n \in Nat
      BY <1>0, <2>6, NestElim DEF IsIndexed
    <3> HIDE DEF n
    <3>2. CASE k \in 0 .. n - 1
      <4>1. at = {k + 1}
        BY <2>4, <3>1, <3>2
      <4>2. o = Value(item(k + 1)) /\ reached = {<<item(k + 1)>>}
        <5> HIDE DEF reached, item, k
        <5>1. {<<item(l)>> : l \in at} = {<<item(k + 1)>>}
          <6> HIDE DEF at
          <6> QED  BY <4>1
        <5>2. at # {}
          BY <4>1
        <5> HIDE DEF at
        <5> QED  BY <2>2, <2>3, <2>6, <3>2, <5>1, <5>2
      <4> HIDE DEF item, reached
      <4> QED  BY <4>2 DEF Agrees, reached
    <3>3. CASE k \notin 0 .. n - 1
      <4>1. at = {}
        BY <2>4, <3>1, <3>3
      <4>2. o = Missing(seg) /\ reached = Skipped(seg)
        BY <2>2, <2>3, <3>3, <4>1
      <4> QED  BY <4>2, MissingAgrees
    <3> QED  BY <3>2, <3>3
  <2> QED  BY <2>5, <2>6
<1>4. CASE seg[1] = "slice"
  <2> DEFINE n == Len(Data(v))
             lo == seg[3][1]
             hi == IF Len(seg[3]) = 1 THEN n ELSE seg[3][2]
             to == Append(seg[3], n)[2]
             Cut(a, b) == <<TypeOf(v), SubSeq(Data(v), a + 1, b)>>
             oks(a, b) == {TRUE} \cap {0 <= a /\ a <= b /\ b <= n}
  <2>1. o = ResolveSlice(seg, v)
    BY <1>4, StepIs
  <2>2. o = IF ~IsIndexed(v) THEN Missing(seg)
            ELSE IF hi > n THEN ResolutionError
            ELSE IF lo < 0 \/ hi < lo THEN Panic
            ELSE Value(Cut(lo, hi))
    BY <2>1 DEF ResolveSlice
  <2>3. reached = IF IsIndexed(v) THEN {<<Cut(lo, to)>> : ok \in oks(lo, to)} ELSE Skipped(seg)
    BY <1>4, ReadingIs
  <2>4. seg[3] \in Seq(Int) /\ Len(seg[3]) \in {1, 2}
    BY <1>4, SegmentForms
  <2>5. CASE ~IsIndexed(v)
    <3>1. o = Missing(seg) /\ reached = Skipped(seg)
      BY <2>2, <2>3, <2>5
    <3> QED  BY <3>1, MissingAgrees
  <2>6. CASE IsIndexed(v)
    <3>1. n \in Int
      BY <1>0, <2>6, NestElim DEF IsIndexed
    <3>2. to = hi /\ hi \in Int /\ lo \in Int
      <4> DEFINE r == seg[3]
      <4>1. r \in Seq(Int) /\ Len(r) \in {1, 2}
        BY <2>4
      <4> HIDE DEF r, n
      <4>2. /\ \A l \in 1 .. Len(r) : Append(r, n)[l] = r[l]
            /\ Append(r, n)[Len(r) + 1] = n
        BY <3>1, <4>1, AppendProperties
      <4>3. Append(r, n)[2] = IF Len(r) = 1 THEN n ELSE r[2]
        <5>1. CASE Len(r) = 1
          BY <4>2, <5>1
        <5>2. CASE Len(r) = 2
          <6>1. 2 \in 1 .. Len(r)
            BY <5>2
          <6> QED  BY <4>2, <5>2, <6>1
        <5> QED  BY <4>1, <5>1, <5>2
      <4>4. r[1] \in Int /\ (Len(r) = 2 => r[2] \in Int)
        BY <4>1
      <4> QED  BY <3>1, <4>1, <4>3, <4>4 DEF r
    <3> HIDE DEF to, lo, hi, Cut, n
    <3>3. CASE 0 <= lo /\ lo <= hi /\ hi <= n
      <4>1. oks(lo, to) = {TRUE}
        BY <3>2, <3>3
      <4>2. o = Value(Cut(lo, hi))
        BY <2>2, <2>6, <3>1, <3>2, <3>3
      <4> HIDE DEF oks, reached
      <4>3. reached = {<<Cut(lo, hi)>>}
        BY <2>3, <2>6, <3>2, <4>1
      <4> QED  BY <4>2, <4>3 DEF Agrees, reached
    <3>4. CASE ~(0 <= lo /\ lo <= hi /\ hi <= n)
      <4>1. oks(lo, to) = {}
        BY <3>2, <3>4
      <4>2. o = ResolutionError \/ o = Panic
        BY <2>2, <2>6, <3>1, <3>2, <3>4
      <4> HIDE DEF oks, reached
      <4>3. reached = {}
        BY <2>3, <2>6, <4>1
      <4> QED  BY <4>2, <4>3 DEF Agrees, reached
    <3> QED  BY <3>3, <3>4
  <2> QED  BY <2>5, <2>6
<1> QED  BY <1>1, <1>2, <1>3, <1>4, SegmentForms DEF IsIterator

\* Nil and the nil of a segment that reached nothing have no parts.
LEMMA NilReaches ==
    ASSUME NEW seg \in Segments, NEW rest
    PROVE  \/ Step(seg, Nil, rest) = {Value(Nil)} /\ Reach(seg, Absent) = {{<<Absent>>}}
           \/ Step(seg, Nil, rest) = {ResolutionError} /\ Reach(seg, Absent) = {{}}
<1>0. /\ ~IsCollection(Absent) /\ ~IsCollection(Nil) /\ ~IsIndexed(Absent) /\ ~IsIndexed(Nil)
      /\ Kind(Absent) # "map" /\ Kind(Nil) # "map" /\ ~IsIterable(Absent)
  BY AbsentIs DEF IsIterable
<1>1. CASE seg[1] = "identity"
  <2>1. Reach(seg, Absent) = {{<<Absent>>}}
    BY <1>1, ReachIs
  <2> QED  BY <1>1, <2>1, StepIs
<1>2. CASE seg[1] # "identity"
  <2>1. Step(seg, Nil, rest) = {Missing(seg)}
    <3>1. CASE seg[1] = "iterator"
      <4>1. Step(seg, Nil, rest) = ResolveIterator(seg, Nil, rest)
        BY <3>1, StepIs
      <4>2. ResolveIterator(seg, Nil, rest) = {Missing(seg)}
        BY <1>0, Zenon DEF ResolveIterator
      <4> QED  BY <4>1, <4>2
    <3>2. CASE seg[1] = "field"
      <4>1. Step(seg, Nil, rest) = {ResolveField(seg, Nil)}
        BY <3>2, StepIs
      <4>2. ResolveField(seg, Nil) = Missing(seg)
        BY <1>0, Zenon DEF ResolveField
      <4> QED  BY <4>1, <4>2
    <3>3. CASE seg[1] = "index"
      <4>1. Step(seg, Nil, rest) = {ResolveIndex(seg, Nil)}
        BY <3>3, StepIs
      <4>2. ResolveIndex(seg, Nil) = Missing(seg)
        BY <1>0, Zenon DEF ResolveIndex
      <4> QED  BY <4>1, <4>2
    <3>4. CASE seg[1] = "slice"
      <4>1. Step(seg, Nil, rest) = {ResolveSlice(seg, Nil)}
        BY <3>4, StepIs
      <4>2. ResolveSlice(seg, Nil) = Missing(seg)
        BY <1>0, Zenon DEF ResolveSlice
      <4> QED  BY <4>1, <4>2
    <3> QED  BY <1>2, <3>1, <3>2, <3>3, <3>4, SegmentForms
  <2>2. Reach(seg, Absent) = {Skipped(seg)}
    <3>1. CASE seg[1] = "iterator"
      BY <1>0, <3>1, ReachIs
    <3>2. CASE seg[1] = "field"
      BY <1>0, <3>2, ReachIs
    <3>3. CASE seg[1] = "index"
      BY <1>0, <3>3, ReachIs
    <3>4. CASE seg[1] = "slice"
      BY <1>0, <3>4, ReachIs
    <3> QED  BY <1>2, <3>1, <3>2, <3>3, <3>4, SegmentForms
  <2> QED  BY <2>1, <2>2 DEF Missing, Skipped
<1> QED  BY <1>1, <1>2

\* What an index picks is a value.
LEMMA PickedType ==
    ASSUME NEW v \in Values, IsIndexed(v), NEW k \in 1 .. Len(Data(v))
    PROVE  Picked(v, k) \in Values
<1>0. PICK n \in 0 .. Depth : n # 0 /\ v \in ValuesTo[n]
  BY LevelsOfValues
<1> DEFINE W == ValuesTo[n - 1]
<1>1. v \in Nest(W) /\ Nest(W) \subseteq Values /\ W \subseteq Values
  BY <1>0, ValuesToStep, LevelsOfValues, SelectorAssumption DEF Closed
<1> HIDE DEF W
<1>2. CASE Kind(v) = "string"
  <2>1. Data(v)[k] \in STRING
    BY <1>1, <1>2, NestElim
  <2>2. <<Data(v)[k]>> \in Seq(STRING)
    BY <2>1, OneItem
  <2> QED  BY <1>1, <1>2, <2>2, NestIntro DEF Picked
<1>3. CASE Kind(v) = "list"
  <2> DEFINE w == Data(v)[k]
  <2>1. w \in W
    BY <1>1, <1>3, NestElim
  <2> HIDE DEF w
  <2>2. CASE Kind(w) = "byte"
    <3>1. w \in Nest(Values)
      BY <1>1, <2>1, ValuesAreNested
    <3>2. Data(w) \in Int
      <4>1. Data(w) \in 0 .. 255
        BY <2>2, <3>1, NestElim
      <4>2. \A d \in 0 .. 255 : d \in Int
        OBVIOUS
      <4> QED  BY <4>1, <4>2, Zenon
    <3>3. Num(Data(w)) \in Nest(W)
      BY <3>2, NestIntro DEF Num
    <3> QED  BY <1>1, <1>3, <2>2, <3>3 DEF Picked, w
  <2>3. CASE Kind(w) # "byte"
    BY <1>1, <1>3, <2>1, <2>3 DEF Picked, w
  <2> QED  BY <2>2, <2>3
<1> QED  BY <1>2, <1>3 DEF IsIndexed

\* A segment reaches values, or Absent, and no more than one if it does not iterate.
LEMMA ReachType ==
    ASSUME NEW v \in Reached, NEW seg \in Segments
    PROVE  /\ Reach(seg, v) # {}
           /\ \A reached \in Reach(seg, v) : \A s \in reached :
                 s \in Seq(Reached) /\ (~IsIterator(seg) => Len(s) = 1)
<1> DEFINE Fine(s) == s \in Seq(Reached) /\ (~IsIterator(seg) => Len(s) = 1)
<1>0. Fine(<<Absent>>) /\ (\A s \in Skipped(seg) : Fine(s)) /\ (\A x \in Values : Fine(<<x>>))
  BY OneItem DEF Reached, Skipped
<1>1. CASE v = Absent
  <2>1. Reach(seg, Absent) = {{<<Absent>>}} \/ Reach(seg, Absent) = {{}}
    BY NilReaches
  <2> QED  BY <1>0, <1>1, <2>1
<1>2. CASE v \in Values /\ IsIterator(seg)
  <2>1. Reach(seg, v) =
           IF IsIterable(v) THEN {{items} : items \in Enumerated(v)} ELSE {Skipped(seg)}
    BY <1>2, ReachIs DEF IsIterator
  <2>2. CASE IsIterable(v)
    <3>1. ASSUME NEW items \in Enumerated(v) PROVE items \in Seq(Reached)
      <4>1. items \in Seq(Values)
        BY <1>2, <2>2, ValuesAreNested, ItemsOf DEF IsIterable
      <4>2. Seq(Values) \subseteq Seq(Reached)
        BY DEF Reached
      <4> QED  BY <4>1, <4>2
    <3>2. Enumerated(v) # {}
      BY ItemsExist
    <3>3. Reach(seg, v) = {{items} : items \in Enumerated(v)}
      BY <2>1, <2>2
    <3>4. \A reached \in Reach(seg, v) : \A s \in reached : s \in Seq(Reached)
      BY <3>1, <3>3
    <3>5. Reach(seg, v) # {}
      BY <3>2, <3>3
    <3> QED  BY <1>2, <3>4, <3>5
  <2>3. CASE ~IsIterable(v)
    BY <1>0, <2>1, <2>3
  <2> QED  BY <2>2, <2>3
<1>3. CASE v \in Values /\ ~IsIterator(seg) /\ seg[1] = "index"
  <2> DEFINE at == {k \in 1 .. Len(Data(v)) : seg[3] \in {k - 1, k - 1 - Len(Data(v))}}
             found == {<<Picked(v, k)>> : k \in at}
  <2>1. \/ Reach(seg, v) = {found} /\ IsIndexed(v)
        \/ Reach(seg, v) = {Skipped(seg)}
    BY <1>3, ReachIs
  <2>2. ASSUME IsIndexed(v) PROVE \A s \in found : Fine(s)
    <3>1. \A k \in at : Picked(v, k) \in Values
      BY <1>3, <2>2, PickedType
    <3> HIDE DEF Fine, at
    <3> QED  BY <1>0, <3>1
  <2> HIDE DEF found, Fine
  <2>3. Reach(seg, v) # {} /\ \A reached \in Reach(seg, v) : \A s \in reached : Fine(s)
    BY <1>0, <2>1, <2>2
  <2> QED  BY <2>3 DEF Fine
<1>4. CASE v \in Values /\ ~IsIterator(seg) /\ seg[1] # "index"
  <2> DEFINE rest == [w \in Values |-> {}]
  <2>1. rest \in Resolvers
    BY LevelsOfValues DEF Resolvers
  <2> HIDE DEF rest
  <2>2. Reach(seg, v) = {Reading(seg, v)}
    BY <1>4, ReadingIs
  <2>3. PICK o : o \in Step(seg, v, rest)
    <3>1. seg[1] \in {"identity", "field", "slice"}
      BY <1>4, SegmentForms DEF IsIterator
    <3>2. Step(seg, v, rest) # {}
      BY <3>1, StepIs
    <3> QED  BY <3>2
  <2>4. Agrees(o, Reading(seg, v))
    BY <1>4, <2>3, StepAgrees DEF NoByteAt
  <2>5. \A x : o = Value(x) => x \in Values
    <3>1. PICK n \in 0 .. Depth : n # 0 /\ v \in ValuesTo[n]
      BY <1>4, LevelsOfValues
    <3>2. /\ n - 1 \in 0 .. Depth /\ v \in Nest(ValuesTo[n - 1])
          /\ Nest(ValuesTo[n - 1]) \subseteq Values /\ Closed(ValuesTo[n - 1])
      BY <3>1, ValuesToStep, LevelsOfValues, SelectorAssumption
    <3>3. o \in Outs(Nest(ValuesTo[n - 1]))
      BY <2>1, <2>3, <3>2, StepType DEF Resolvers
    <3> QED  BY <3>2, <3>3, OutsElim, OutcomeParts
  <2> HIDE DEF Fine
  <2>6. \A s \in Reading(seg, v) : Fine(s)
    BY <1>0, <2>4, <2>5 DEF Agrees
  <2>7. Reach(seg, v) # {} /\ \A reached \in Reach(seg, v) : \A s \in reached : Fine(s)
    BY <2>2, <2>6
  <2> QED  BY <2>7 DEF Fine
<1> QED  BY <1>1, <1>2, <1>3, <1>4 DEF Reached

\* The readings that were chosen for the values of a sequence, put together.
Joint(r, g) == IF \A k \in DOMAIN r : g[k] # {} THEN {Flat([k \in DOMAIN r |-> Sole(g[k])])} ELSE {}

Joints(r, rest) == {Joint(r, g) : g \in OneOfEach([k \in DOMAIN r |-> rest[r[k]]])}

\* How the rest of a selector goes on.
LEMMA OnwardIs ==
    ASSUME NEW reached, NEW rest
    PROVE  /\ reached = {} => Onward(reached, rest) = {{}}
           /\ reached # {} => Onward(reached, rest) = Joints(Sole(reached), rest)
  BY Zenon DEF Onward, Joints, Joint

\* Readings have at most one sequence each.
AtMostOne == {{}} \cup {{s} : s \in Seq(Reached)}
Readings == {O \in SUBSET AtMostOne : O # {}}

\* The rest of a selector reaches values, or Absent.
LEMMA OnwardType ==
    ASSUME NEW reached, \A s \in reached : s \in Seq(Reached),
           NEW rest, \A w \in Reached : rest[w] \in Readings
    PROVE  Onward(reached, rest) \in Readings
<1>1. CASE reached = {}
  BY <1>1, OnwardIs DEF Readings, AtMostOne
<1>2. CASE reached # {}
  <2> DEFINE r == Sole(reached)
             f == [k \in DOMAIN r |-> rest[r[k]]]
  <2>1. r \in Seq(Reached)
    BY <1>2, Zenon DEF Sole
  <2>2. Onward(reached, rest) = {Joint(r, g) : g \in OneOfEach(f)}
    BY <1>2, OnwardIs DEF Joints
  <2> HIDE DEF r
  <2>3. Len(r) \in Nat /\ DOMAIN r = 1 .. Len(r) /\ \A k \in DOMAIN r : r[k] \in Reached
    BY <2>1
  <2>4. DOMAIN f = DOMAIN r /\ \A k \in DOMAIN r : f[k] = rest[r[k]]
    OBVIOUS
  <2> HIDE DEF f
  <2>5. \E g : g \in OneOfEach(f)
    <3>1. \A k \in DOMAIN f : f[k] # {}
      BY <2>3, <2>4 DEF Readings
    <3> QED  BY <3>1, OneOfEachSome
  <2>6. ASSUME NEW g \in OneOfEach(f) PROVE Joint(r, g) \in AtMostOne
    <3> SUFFICES ASSUME \A k \in DOMAIN r : g[k] # {}
                 PROVE  Flat([k \in DOMAIN r |-> Sole(g[k])]) \in Seq(Reached)
      BY DEF Joint, AtMostOne
    <3> DEFINE ss == [k \in DOMAIN r |-> Sole(g[k])]
    <3>1. ASSUME NEW k \in DOMAIN r PROVE ss[k] \in Seq(Reached)
      <4>1. g[k] \in rest[r[k]] /\ rest[r[k]] \in Readings
        BY <2>3, <2>4, OneOfEachElim
      <4>2. Sole(g[k]) \in g[k]
        BY Zenon DEF Sole
      <4>3. g[k] \in AtMostOne
        BY <4>1 DEF Readings
      <4> QED  BY <4>2, <4>3 DEF AtMostOne
    <3>2. Len(ss) = Len(r)
      BY <2>3
    <3> HIDE DEF ss
    <3>3. Flat(ss) \in Seq(Reached)
      BY <2>3, <3>1, <3>2, FlatType
    <3> QED  BY <3>3 DEF ss
  <2> QED  BY <2>2, <2>5, <2>6 DEF Readings
<1> QED  BY <1>1, <1>2

\* Going on from a single value: the readings of the rest.
LEMMA OnwardFrom ==
    ASSUME NEW x \in Reached, NEW rest, rest[x] \in Readings
    PROVE  Onward({<<x>>}, rest) = rest[x]
<1> DEFINE r == <<x>>
           f == [k \in DOMAIN r |-> rest[r[k]]]
<1>1. DOMAIN r = {1} /\ r[1] = x
  OBVIOUS
<1>2. Onward({r}, rest) = {Joint(r, g) : g \in OneOfEach(f)}
  <2> HIDE DEF r
  <2>1. r = Sole({r}) /\ {r} # {}
    BY SoleOf
  <2>2. Onward({r}, rest) = Joints(r, rest)
    BY <2>1, OnwardIs
  <2> QED  BY <2>2 DEF Joints
<1> HIDE DEF r
<1>3. DOMAIN f = {1} /\ f[1] = rest[x]
  BY <1>1
<1> HIDE DEF f
<1>4. ASSUME NEW g, DOMAIN g = {1}, g[1] \in rest[x] PROVE Joint(r, g) = g[1]
  <2>1. CASE g[1] = {}
    BY <1>1, <2>1 DEF Joint
  <2>2. CASE \E s \in Seq(Reached) : g[1] = {s}
    <3>1. PICK s \in Seq(Reached) : g[1] = {s}
      BY <2>2
    <3> DEFINE ss == [k \in DOMAIN r |-> Sole(g[k])]
    <3>2. DOMAIN ss = {1} /\ ss[1] = s
      BY <1>1, <3>1, SoleOf
    <3>3. Len(ss) = 1
      BY <1>1
    <3>4. Joint(r, g) = {Flat(ss)}
      BY <1>1, <3>1 DEF Joint
    <3> HIDE DEF ss
    <3>5. Flat(ss) = s
      BY <3>2, <3>3, FlatOne
    <3> QED  BY <3>1, <3>4, <3>5
  <2> QED  BY <1>4, <2>1, <2>2 DEF Readings, AtMostOne
<1>5. ASSUME NEW g \in OneOfEach(f) PROVE Joint(r, g) \in rest[x]
  BY <1>3, <1>4, OneOfEachElim
<1>6. ASSUME NEW out \in rest[x] PROVE \E g \in OneOfEach(f) : Joint(r, g) = out
  <2> DEFINE g == [k \in {1} |-> out]
  <2>1. DOMAIN g = {1} /\ g[1] = out /\ g = [k \in {1} |-> g[k]]
    OBVIOUS
  <2> HIDE DEF g
  <2>2. g \in OneOfEach(f)
    BY <1>3, <2>1, OneOfEachIntro
  <2> QED  BY <1>4, <2>1, <2>2 DEF Readings, AtMostOne
<1>7. Onward({r}, rest) = rest[x]
  BY <1>2, <1>5, <1>6
<1> QED  BY <1>7 DEF r

\* Without an iterator nothing multiplies.
LEMMA OnwardOne ==
    ASSUME NEW reached, \A s \in reached : s \in Seq(Reached) /\ Len(s) = 1,
           NEW rest, \A w \in Reached : /\ rest[w] \in Readings
                                       /\ \A out \in rest[w] : \A s \in out : Len(s) = 1
    PROVE  \A out \in Onward(reached, rest) : \A s \in out : Len(s) = 1
<1>1. CASE reached = {}
  BY <1>1, OnwardIs
<1>2. CASE reached # {}
  <2> DEFINE r == Sole(reached)
             x == r[1]
  <2>1. r \in Seq(Reached) /\ Len(r) = 1
    BY <1>2, Zenon DEF Sole
  <2>2. Onward(reached, rest) = Joints(r, rest)
    BY <1>2, OnwardIs
  <2> HIDE DEF r
  <2>3. r = <<x>> /\ x \in Reached
    BY <2>1
  <2> HIDE DEF x
  <2>4. Sole({<<x>>}) = <<x>> /\ {<<x>>} # {}
    BY SoleOf
  <2>5. Onward({<<x>>}, rest) = Joints(<<x>>, rest)
    BY <2>4, OnwardIs
  <2>6. Onward({<<x>>}, rest) = rest[x]
    BY <2>3, OnwardFrom
  <2>7. Onward(reached, rest) = rest[x]
    BY <2>2, <2>3, <2>5, <2>6
  <2> QED  BY <2>3, <2>7
<1> QED  BY <1>1, <1>2

-----------------------------------------------------------------------------
(***************************************************************************)
(* All segments: what a selector reaches.                                  *)
(***************************************************************************)
\* All the readings of a selector, given those of the rest of it.
Further(seg, v, rest) == UNION {Onward(reached, rest) : reached \in Reach(seg, v)}

\* What is among them.
LEMMA FurtherIs ==
    ASSUME NEW seg, NEW v, NEW rest
    PROVE  /\ \A reached \in Reach(seg, v) : Onward(reached, rest) \subseteq Further(seg, v, rest)
           /\ \A out \in Further(seg, v, rest) :
                 \E reached \in Reach(seg, v) : out \in Onward(reached, rest)
           /\ \A reached : Reach(seg, v) = {reached} => Further(seg, v, rest) = Onward(reached, rest)
  BY DEF Further

\* They are readings when those of the rest are.
LEMMA FurtherType ==
    ASSUME NEW seg \in Segments, NEW v \in Reached,
           NEW rest, \A w \in Reached : rest[w] \in Readings
    PROVE  Further(seg, v, rest) \in Readings
<1>1. ASSUME NEW reached \in Reach(seg, v) PROVE Onward(reached, rest) \in Readings
  <2>1. \A s \in reached : s \in Seq(Reached)
    BY ReachType
  <2> QED  BY <2>1, OnwardType
<1>2. Reach(seg, v) # {}
  BY ReachType
<1>3. PICK reached : reached \in Reach(seg, v)
  BY <1>2
<1>4. Onward(reached, rest) # {} /\ Onward(reached, rest) \subseteq Further(seg, v, rest)
  BY <1>1, <1>3, FurtherIs DEF Readings
<1>5. ASSUME NEW out \in Further(seg, v, rest) PROVE out \in AtMostOne
  BY <1>1, FurtherIs DEF Readings
<1> QED  BY <1>4, <1>5 DEF Readings

\* Outputs is what its definition says.
LEMMA OutputsUnfolds ==
    \A sel \in Selectors : \A v \in Reached :
       /\ Outputs[sel][v] \in Readings
       /\ sel = <<>> => Outputs[sel][v] = {{<<v>>}}
       /\ sel # <<>> => Outputs[sel][v] = Further(Head(sel), v, Outputs[Tail(sel)])
<1> DEFINE R == [Reached -> Readings]
           H(sel, g) == [v \in Values \cup {Absent} |->
                            IF sel = <<>> THEN {{<<v>>}}
                            ELSE UNION {Onward(reached, g[Tail(sel)]) : reached \in Reach(Head(sel), v)}]
           G == [sel \in Selectors |-> [g \in [Selectors -> R] |-> H(sel, g)]]
<1>1. ASSUME NEW sel \in Selectors, NEW g \in [Selectors -> R] PROVE H(sel, g) \in R
  <2> DEFINE f == H(sel, g)
  <2>1. ASSUME NEW v \in Reached PROVE f[v] \in Readings
    <3>1. v \in Values \cup {Absent}
      BY DEF Reached
    <3>2. CASE sel = <<>>
      <4>1. f[v] = {{<<v>>}}
        BY <3>1, <3>2
      <4>2. <<v>> \in Seq(Reached)
        BY OneItem
      <4> HIDE DEF f
      <4> QED  BY <4>1, <4>2 DEF Readings, AtMostOne
    <3>3. CASE sel # <<>>
      <4>1. Head(sel) \in Segments /\ g[Tail(sel)] \in R
        BY <3>3, SelectorParts
      <4>2. \A w \in Reached : g[Tail(sel)][w] \in Readings
        BY <4>1
      <4>3. Further(Head(sel), v, g[Tail(sel)]) \in Readings
        BY <4>1, <4>2, FurtherType
      <4>4. f[v] = Further(Head(sel), v, g[Tail(sel)])
        BY <3>1, <3>3 DEF Further
      <4> HIDE DEF f
      <4> QED  BY <4>3, <4>4
    <3> QED  BY <3>2, <3>3
  <2>2. f = [v \in Reached |-> f[v]]
    BY DEF Reached
  <2> HIDE DEF f
  <2>3. f \in R
    BY <2>1, <2>2
  <2> QED  BY <2>3 DEF f
<1>2. Yields(Selectors, R, G)
  <2> HIDE DEF H, R
  <2> QED  BY <1>1 DEF Yields
<1>3. LooksAtTail(R, G)
  <2>1. ASSUME NEW sel \in Selectors, NEW g \in [Selectors -> R], NEW h \in [Selectors -> R],
               sel # <<>> => g[Tail(sel)] = h[Tail(sel)]
        PROVE  H(sel, g) = H(sel, h)
    <3>1. CASE sel = <<>>
      BY <3>1
    <3>2. CASE sel # <<>>
      <4>1. g[Tail(sel)] = h[Tail(sel)]
        BY <2>1, <3>2
      <4> QED  BY <4>1
    <3> QED  BY <3>1, <3>2
  <2>2. \A sel \in Selectors : \A g \in [Selectors -> R] : G[sel][g] = H(sel, g)
    BY Zenon
  <2> HIDE DEF G, H, R
  <2> QED  BY <2>1, <2>2 DEF LooksAtTail
<1>4. R # {}
  <2> DEFINE none == [v \in Reached |-> {{}}]
  <2>1. {{}} \in Readings
    BY DEF Readings, AtMostOne
  <2>2. none \in R
    BY <2>1
  <2> QED  BY <2>2
<1>5. \A sel \in Selectors : \A g \in [Selectors -> R] : G[sel][g] = H(sel, g)
  BY Zenon
<1> HIDE DEF G
<1>6. PICK f : FixedPoint(Selectors, R, G, f)
  <2> HIDE DEF H, R
  <2> QED  BY <1>2, <1>3, <1>4, SelectorRecursion
<1>7. f = [sel \in Selectors |-> H(sel, f)] /\ f \in [Selectors -> R]
  <2> HIDE DEF H, R
  <2> QED  BY <1>5, <1>6 DEF FixedPoint
<1>8. \E h : h = [sel \in Selectors |-> H(sel, h)]
  BY <1>7, Zenon
<1>9. Outputs = [sel \in Selectors |-> H(sel, Outputs)]
  BY <1>8, Zenon DEF Outputs
<1>10. ASSUME NEW sel \in Selectors PROVE Outputs[sel] = H(sel, Outputs)
  <2> HIDE DEF H
  <2> QED  BY <1>9
<1> DEFINE T == {sel \in Selectors : Outputs[sel] = f[sel]}
<1>11. Selectors \subseteq T
  <2>1. H(<<>>, Outputs) = H(<<>>, f)
    OBVIOUS
  <2>2. <<>> \in T
    <3>1. <<>> \in Selectors
      BY DEF Selectors
    <3> HIDE DEF H
    <3> QED  BY <1>7, <1>10, <2>1, <3>1
  <2>3. ASSUME NEW sel \in Selectors, sel # <<>>, Tail(sel) \in T PROVE sel \in T
    <3>1. H(sel, Outputs) = H(sel, f)
      BY <2>3
    <3> HIDE DEF H
    <3> QED  BY <1>7, <1>10, <3>1
  <2> HIDE DEF T
  <2> QED  BY <2>2, <2>3, SelectorInduction
<1>12. ASSUME NEW sel \in Selectors, NEW v \in Reached
       PROVE  /\ Outputs[sel][v] \in Readings
              /\ sel = <<>> => Outputs[sel][v] = {{<<v>>}}
              /\ sel # <<>> => Outputs[sel][v] = Further(Head(sel), v, Outputs[Tail(sel)])
  <2>1. Outputs[sel] \in R
    BY <1>7, <1>11
  <2>2. /\ sel = <<>> => H(sel, Outputs)[v] = {{<<v>>}}
        /\ sel # <<>> => H(sel, Outputs)[v] = Further(Head(sel), v, Outputs[Tail(sel)])
    BY DEF Reached, Further
  <2> HIDE DEF H
  <2> QED  BY <1>10, <2>1, <2>2
<1> QED  BY <1>12

\* A selector that does not iterate reaches one value.
LEMMA OutputsOne ==
    \A sel \in Selectors : ~Iterates(sel) =>
        \A v \in Reached : \A out \in Outputs[sel][v] : \A s \in out : Len(s) = 1
<1> DEFINE One(sel) == \A v \in Reached : \A out \in Outputs[sel][v] : \A s \in out : Len(s) = 1
           T == {sel \in Selectors : ~Iterates(sel) => One(sel)}
<1>1. <<>> \in T
  <2>1. <<>> \in Selectors
    BY DEF Selectors
  <2>2. \A v \in Reached : Outputs[<<>>][v] = {{<<v>>}}
    BY <2>1, OutputsUnfolds
  <2> QED  BY <2>1, <2>2
<1>2. ASSUME NEW sel \in Selectors, sel # <<>>, Tail(sel) \in T PROVE sel \in T
  <2> SUFFICES ASSUME ~Iterates(sel) PROVE One(sel)
    OBVIOUS
  <2>1. /\ Head(sel) \in Segments /\ Tail(sel) \in Selectors /\ ~IsIterator(Head(sel))
        /\ ~Iterates(Tail(sel))
    <3>1. /\ Head(sel) = sel[1] /\ DOMAIN sel = 1 .. Len(sel) /\ Len(sel) \in Nat \ {0}
          /\ Tail(sel) \in Selectors /\ Len(Tail(sel)) = Len(sel) - 1 /\ Head(sel) \in Segments
          /\ \A k \in 1 .. Len(sel) - 1 : Tail(sel)[k] = sel[k + 1]
      BY <1>2, SelectorParts
    <3> DEFINE t == Tail(sel)
    <3>2. DOMAIN t = 1 .. Len(sel) - 1
      BY <3>1 DEF Selectors
    <3>3. ~Iterates(t)
      BY <3>1, <3>2 DEF Iterates
    <3> QED  BY <3>1, <3>3 DEF Iterates
  <2> DEFINE rest == Outputs[Tail(sel)]
  <2>2. \A w \in Reached : /\ rest[w] \in Readings
                           /\ \A out \in rest[w] : \A s \in out : Len(s) = 1
    BY <1>2, <2>1, OutputsUnfolds
  <2>3. \A v \in Reached : Outputs[sel][v] = Further(Head(sel), v, rest)
    BY <1>2, OutputsUnfolds
  <2> HIDE DEF rest
  <2>4. ASSUME NEW v \in Reached, NEW out \in Outputs[sel][v] PROVE \A s \in out : Len(s) = 1
    <3>1. PICK reached \in Reach(Head(sel), v) : out \in Onward(reached, rest)
      BY <2>3, <2>4, FurtherIs
    <3>2. \A s \in reached : s \in Seq(Reached) /\ Len(s) = 1
      BY <2>1, ReachType
    <3> QED  BY <2>2, <3>1, <3>2, OnwardOne
  <2> QED  BY <2>4
<1> HIDE DEF T
<1>3. Selectors \subseteq T
  BY <1>1, <1>2, SelectorInduction
<1> QED  BY <1>3 DEF T

-----------------------------------------------------------------------------
\* Beyond what an optional segment did not find there is nothing.
LEMMA NilRuns ==
    ASSUME Nil \in Values
    PROVE  \A sel \in Selectors :
              \/ Resolve[sel][Nil] = {Value(Nil)} /\ Outputs[sel][Absent] = {{<<Absent>>}}
              \/ Resolve[sel][Nil] = {ResolutionError} /\ Outputs[sel][Absent] = {{}}
<1> DEFINE Nils(sel) ==
               \/ Resolve[sel][Nil] = {Value(Nil)} /\ Outputs[sel][Absent] = {{<<Absent>>}}
               \/ Resolve[sel][Nil] = {ResolutionError} /\ Outputs[sel][Absent] = {{}}
           T == {sel \in Selectors : Nils(sel)}
<1>0. Absent \in Reached /\ <<Absent>> \in Seq(Reached)
  BY OneItem DEF Reached
<1>1. <<>> \in T
  <2>1. <<>> \in Selectors
    BY DEF Selectors
  <2>2. Resolve[<<>>][Nil] = {Typed(Nil)}
    BY <2>1, ResolveUnfolds
  <2>3. Typed(Nil) = Value(Nil)
    BY AbsentIs, TypedOther DEF IsCollection
  <2>4. Outputs[<<>>][Absent] = {{<<Absent>>}}
    BY <1>0, <2>1, OutputsUnfolds
  <2> QED  BY <2>1, <2>2, <2>3, <2>4
<1>2. ASSUME NEW sel \in Selectors, sel # <<>>, Tail(sel) \in T PROVE sel \in T
  <2> DEFINE seg == Head(sel)
             rest == Resolve[Tail(sel)]
             out == Outputs[Tail(sel)]
  <2>1. seg \in Segments /\ Tail(sel) \in Selectors
    BY <1>2, SelectorParts
  <2>2. Resolve[sel][Nil] = Turn(sel, Nil, rest)
    BY <1>2, ResolveUnfolds
  <2>3. Outputs[sel][Absent] = Further(seg, Absent, out)
    BY <1>0, <1>2, OutputsUnfolds
  <2>4. \/ rest[Nil] = {Value(Nil)} /\ out[Absent] = {{<<Absent>>}}
        \/ rest[Nil] = {ResolutionError} /\ out[Absent] = {{}}
    BY <1>2
  <2>7. out[Absent] \in Readings
    BY <1>0, <2>1, OutputsUnfolds
  <2>8. Turn(sel, Nil, rest) = UNION {Then(o, rest) : o \in Step(seg, Nil, rest)}
    BY DEF Turn
  <2> HIDE DEF rest, out, seg
  <2>5. CASE Step(seg, Nil, rest) = {Value(Nil)} /\ Reach(seg, Absent) = {{<<Absent>>}}
    <3>1. Resolve[sel][Nil] = rest[Nil]
      <4>1. Then(Value(Nil), rest) = rest[Nil]
        BY OutcomeParts DEF Then
      <4> QED  BY <2>2, <2>5, <2>8, <4>1
    <3>2. Outputs[sel][Absent] = out[Absent]
      <4>1. Further(seg, Absent, out) = Onward({<<Absent>>}, out)
        BY <2>5, FurtherIs
      <4>2. Onward({<<Absent>>}, out) = out[Absent]
        BY <1>0, <2>7, OnwardFrom
      <4> QED  BY <2>3, <4>1, <4>2
    <3> QED  BY <2>4, <3>1, <3>2
  <2>6. CASE Step(seg, Nil, rest) = {ResolutionError} /\ Reach(seg, Absent) = {{}}
    <3>1. Resolve[sel][Nil] = {ResolutionError}
      <4>1. Then(ResolutionError, rest) = {ResolutionError}
        BY OutcomeParts DEF Then
      <4> QED  BY <2>2, <2>6, <2>8, <4>1
    <3>2. Outputs[sel][Absent] = {{}}
      BY <2>3, <2>6, OnwardIs, FurtherIs
    <3> QED  BY <3>1, <3>2
  <2> QED  BY <2>1, <2>5, <2>6, NilReaches
<1> HIDE DEF T
<1>3. Selectors \subseteq T
  BY <1>1, <1>2, SelectorInduction
<1> QED  BY <1>3 DEF T

-----------------------------------------------------------------------------
(***************************************************************************)
(* Values that hold bytes nowhere, and those whose single bytes are in     *)
(* bytes only, as the decoder leaves them.                                 *)
(***************************************************************************)
\* HoldsBytes is what its definition says.
LEMMA HoldsBytesUnfolds ==
    \A v \in Values :
        HoldsBytes[v] = (Kind(v) = "byte" \/ IsBytes(v) \/ \E k \in Places(v) : HoldsBytes[Data(v)[k]])
<1> DEFINE R == BOOLEAN
           G == [v \in Values |-> [g \in [Values -> R] |->
                    Kind(v) = "byte" \/ IsBytes(v) \/ \E k \in Places(v) : g[Data(v)[k]]]]
<1>1. R # {} /\ Yields(Values, R, G) /\ LooksInside(R, G)
  BY DEF Yields, LooksInside
<1>2. \A v \in Values : \A g \in [Values -> R] :
          G[v][g] = (Kind(v) = "byte" \/ IsBytes(v) \/ \E k \in Places(v) : g[Data(v)[k]])
  OBVIOUS
<1> HIDE DEF G, R
<1>3. PICK f : FixedPoint(Values, R, G, f)
  BY <1>1, ValueRecursion
<1>4. f = [v \in Values |->
              Kind(v) = "byte" \/ IsBytes(v) \/ \E k \in Places(v) : f[Data(v)[k]]]
  BY <1>2, <1>3 DEF FixedPoint
<1>5. HoldsBytes = [v \in Values |->
          Kind(v) = "byte" \/ IsBytes(v) \/ \E k \in Places(v) : HoldsBytes[Data(v)[k]]]
  BY <1>4, Zenon DEF HoldsBytes
<1> QED  BY <1>5, Zenon

\* Nothing but bytes in bytes, and no single bytes elsewhere.
Bytewise[v \in Values] == \A k \in Places(v) : OnlyInBytes(v, k) /\ Bytewise[Data(v)[k]]

\* Bytewise is what its definition says.
LEMMA BytewiseUnfolds ==
    \A v \in Values :
        Bytewise[v] = \A k \in Places(v) : OnlyInBytes(v, k) /\ Bytewise[Data(v)[k]]
<1> DEFINE R == BOOLEAN
           G == [v \in Values |-> [g \in [Values -> R] |->
                    \A k \in Places(v) : OnlyInBytes(v, k) /\ g[Data(v)[k]]]]
<1>1. R # {} /\ Yields(Values, R, G) /\ LooksInside(R, G)
  BY DEF Yields, LooksInside
<1>2. \A v \in Values : \A g \in [Values -> R] :
          G[v][g] = \A k \in Places(v) : OnlyInBytes(v, k) /\ g[Data(v)[k]]
  OBVIOUS
<1> HIDE DEF G, R
<1>3. PICK f : FixedPoint(Values, R, G, f)
  BY <1>1, ValueRecursion
<1>4. f = [v \in Values |-> \A k \in Places(v) : OnlyInBytes(v, k) /\ f[Data(v)[k]]]
  <2>1. f \in [Values -> R] /\ \A v \in Values : f[v] = G[v][f]
    BY <1>3 DEF FixedPoint
  <2>2. \A v \in Values : f[v] = \A k \in Places(v) : OnlyInBytes(v, k) /\ f[Data(v)[k]]
    BY <1>2, <2>1, Zenon
  <2>3. f = [v \in Values |-> f[v]]
    BY <2>1
  <2> QED  BY <2>2, <2>3, Zenon
<1>5. Bytewise = [v \in Values |-> \A k \in Places(v) : OnlyInBytes(v, k) /\ Bytewise[Data(v)[k]]]
  BY <1>4, Zenon DEF Bytewise
<1> QED  BY <1>5, Zenon

Sound == {v \in Values : Bytewise[v]}
Free == {v \in Values : ~HoldsBytes[v]}

\* Decoded values are sound.
LEMMA CanonicSound == Canonic \subseteq Sound
<1> DEFINE T == {v \in Values : AsDecoded[v] => Bytewise[v]}
<1>1. ASSUME NEW v \in Values, \A k \in Places(v) : Data(v)[k] \in T PROVE v \in T
  BY <1>1, AsDecodedUnfolds, BytewiseUnfolds
<1> HIDE DEF T
<1>2. Values \subseteq T
  BY <1>1, ValueInduction
<1> QED  BY <1>2 DEF T, Canonic, Sound

\* Without bytes every value is sound.
LEMMA FreeSound == Free \subseteq Sound
<1> DEFINE T == {v \in Values : ~HoldsBytes[v] => Bytewise[v]}
<1>1. ASSUME NEW v \in Values, \A k \in Places(v) : Data(v)[k] \in T PROVE v \in T
  <2> SUFFICES ASSUME ~HoldsBytes[v] PROVE Bytewise[v]
    OBVIOUS
  <2>1. ~IsBytes(v) /\ \A k \in Places(v) : ~HoldsBytes[Data(v)[k]]
    BY HoldsBytesUnfolds
  <2>2. ASSUME NEW k \in Places(v) PROVE OnlyInBytes(v, k) /\ Bytewise[Data(v)[k]]
    <3>1. Data(v)[k] \in Values /\ ~HoldsBytes[Data(v)[k]]
      BY <2>1, ValueParts
    <3>2. Kind(Data(v)[k]) # "byte"
      BY <3>1, HoldsBytesUnfolds
    <3> QED  BY <1>1, <2>1, <3>1, <3>2 DEF OnlyInBytes
  <2> QED  BY <2>2, BytewiseUnfolds
<1> HIDE DEF T
<1>2. Values \subseteq T
  BY <1>1, ValueInduction
<1> QED  BY <1>2 DEF T, Free, Sound

\* The parts of sound values are sound.
LEMMA SoundSet == PartsIn(Sound) /\ ScalarsIn(Sound)
  BY BytewiseUnfolds, ValueParts, ValuesAreNested DEF Sound, PartsIn, ScalarsIn

\* The parts of values without bytes are without bytes.
LEMMA FreeSet == PartsIn(Free) /\ ScalarsIn(Free)
<1>1. PartsIn(Free)
  BY HoldsBytesUnfolds, ValueParts DEF Free, PartsIn
<1>2. ASSUME NEW x \in Values, ~IsCollection(x), Kind(x) # "byte" PROVE ~HoldsBytes[x]
  <2>1. Kind(x) # "list" /\ Places(x) = {}
    BY <1>2, ValuesAreNested DEF IsCollection
  <2>2. ~IsBytes(x)
    BY <2>1 DEF IsBytes, Kind, TypeOf
  <2> QED  BY <1>2, <2>1, <2>2, HoldsBytesUnfolds
<1> QED  BY <1>1, <1>2 DEF Free, ScalarsIn

\* A cut is a list of some of the items.
LEMMA CutParts ==
    ASSUME NEW v \in Values, NEW seg, NEW x, IsCut(seg, v, x)
    PROVE  /\ TypeOf(x) = TypeOf(v) /\ Kind(x) = "list" /\ Kind(v) = "list"
           /\ IsBytes(x) <=> IsBytes(v)
           /\ \A k \in Places(x) : \E p \in Places(v) : Data(x)[k] = Data(v)[p]
<1>1. PICK lo, hi \in Int : /\ 1 <= lo /\ hi <= Len(Data(v))
                            /\ x = <<TypeOf(v), SubSeq(Data(v), lo, hi)>>
  BY DEF IsCut
<1>2. Kind(v) = "list" /\ Data(v) \in Seq(Values) /\ Places(v) = 1 .. Len(Data(v))
  BY ValuesAreNested DEF IsCut
<1> DEFINE s == Data(v)
           c == SubSeq(s, lo, hi)
<1>3. TypeOf(x) = TypeOf(v) /\ Kind(x) = "list" /\ Data(x) = c
  BY <1>1, <1>2 DEF TypeOf, Kind, Data
<1>4. \A k \in DOMAIN c : \E p \in 1 .. Len(s) : c[k] = s[p]
  <2>1. s \in Seq(Values) /\ Len(s) \in Nat /\ 1 <= lo /\ hi <= Len(s)
    BY <1>1, <1>2
  <2> HIDE DEF s
  <2>2. /\ DOMAIN c = IF lo <= hi THEN 1 .. hi - lo + 1 ELSE {}
        /\ \A k \in DOMAIN c : c[k] = s[lo + k - 1]
    BY <2>1
  <2>3. ASSUME NEW k \in DOMAIN c PROVE lo + k - 1 \in 1 .. Len(s)
    BY <2>1, <2>2
  <2> QED  BY <2>2, <2>3
<1>5. Places(x) = DOMAIN c
  BY <1>3 DEF Places
<1> QED  BY <1>2, <1>3, <1>4, <1>5 DEF IsBytes

\* Cuts of sound values are sound.
LEMMA SoundCut ==
    ASSUME NEW v \in Sound, NEW seg, NEW x \in Values, IsCut(seg, v, x)
    PROVE  x \in Sound
<1>1. v \in Values /\ \A p \in Places(v) : OnlyInBytes(v, p) /\ Bytewise[Data(v)[p]]
  BY BytewiseUnfolds DEF Sound
<1>2. ASSUME NEW k \in Places(x) PROVE OnlyInBytes(x, k) /\ Bytewise[Data(x)[k]]
  <2>1. PICK p \in Places(v) : Data(x)[k] = Data(v)[p]
    BY <1>1, CutParts
  <2> QED  BY <1>1, <2>1, CutParts DEF OnlyInBytes
<1> QED  BY <1>2, BytewiseUnfolds DEF Sound

\* Cuts of values without bytes are without bytes.
LEMMA FreeCut ==
    ASSUME NEW v \in Free, NEW seg, NEW x \in Values, IsCut(seg, v, x)
    PROVE  x \in Free
<1>1. v \in Values /\ ~IsBytes(v) /\ \A p \in Places(v) : ~HoldsBytes[Data(v)[p]]
  BY HoldsBytesUnfolds DEF Free
<1>2. \A k \in Places(x) : ~HoldsBytes[Data(x)[k]]
  BY <1>1, CutParts
<1>3. Kind(x) # "byte" /\ ~IsBytes(x)
  BY <1>1, CutParts
<1> QED  BY <1>2, <1>3, HoldsBytesUnfolds DEF Free

\* What a turn that does not iterate yields is in a set with the parts and the
\* cuts of its values.
LEMMA StepKeeps ==
    ASSUME NEW V, PartsIn(V), ScalarsIn(V),
           \A v \in V, seg \in Segments, x \in Values : IsCut(seg, v, x) => x \in V,
           NEW v \in V, NEW seg \in Segments, ~IsIterator(seg),
           NEW rest \in Resolvers, NEW x, Value(x) \in Step(seg, v, rest)
    PROVE  x \in V
<1> DEFINE o == Value(x)
<1>0. /\ PartsIn(V) /\ ScalarsIn(V) /\ v \in V /\ seg \in Segments /\ rest \in Resolvers
      /\ o \in Step(seg, v, rest) /\ o = Value(x)
  OBVIOUS
<1> HIDE DEF o
<1>1. StaysWithin(V, seg, v, rest, o)
  BY <1>0, StepWithin
<1>2. \E y \in Values : o = Value(y) /\ (y \in V \/ IsCut(seg, v, y))
  BY <1>0, <1>1, OutcomeParts DEF StaysWithin
<1> QED  BY <1>0, <1>2, OutcomeParts

\* The type of a list of bytes.
LEMMA BytesType ==
    ASSUME NEW t \in Seq(TypeNames)
    PROVE  (<<"list">> \o t = <<"list", "byte">>) <=> t = <<"byte">>
<1> DEFINE r == <<"list">> \o t
<1>1. /\ r \in ListTypes /\ Len(r) = Len(t) + 1 /\ r[1] = "list"
      /\ \A k \in 1 .. Len(t) : r[k + 1] = t[k]
  BY ListTypeIntro
<1> HIDE DEF r
<1>2. ASSUME r = <<"list", "byte">> PROVE t = <<"byte">>
  <2>1. Len(r) = 2 /\ r[2] = "byte"
    BY <1>2
  <2>2. Len(t) \in Nat
    OBVIOUS
  <2>5. Len(r) = Len(t) + 1
    BY <1>1, Zenon
  <2>6. Len(r) = 2
    BY <2>1, Zenon
  <2>7. Len(t) = 1
    <3> DEFINE n == Len(t)
               m == Len(r)
    <3>1. n \in Nat /\ m = n + 1 /\ m = 2
      BY <2>2, <2>5, <2>6, Zenon
    <3> HIDE DEF n, m
    <3>2. n = 1
      BY <3>1
    <3> QED  BY <3>2 DEF n
  <2>3. Len(t) = 1 /\ 1 \in 1 .. Len(t) /\ 1 + 1 = 2
    BY <2>7
  <2>4. r[1 + 1] = t[1]
    BY <1>1, <2>3
  <2> QED  BY <2>1, <2>3, <2>4
<1>3. ASSUME t = <<"byte">> PROVE r = <<"list", "byte">>
  <2>1. Len(t) = 1 /\ t[1] = "byte"
    BY <1>3
  <2>2. Len(r) = 2 /\ r[1] = "list" /\ r[2] = "byte" /\ r \in Seq(TypeNames)
    BY <1>1, <2>1 DEF ListTypes
  <2> QED  BY <2>2
<1> QED  BY <1>2, <1>3 DEF r

\* A single byte, by its type.
LEMMA ByteType ==
    ASSUME NEW W, NEW v \in Nest(W) PROVE TypeOf(v) = <<"byte">> <=> Kind(v) = "byte"
<1>1. Kind(v) = "byte" => TypeOf(v) = <<"byte">>
  BY NestElim
<1>2. TypeOf(v) = <<"byte">> => Kind(v) = "byte"
  BY DEF TypeOf, Kind
<1> QED  BY <1>1, <1>2

\* Lists that were collected are no bytes.
LEMMA ListOfNoBytes == ASSUME NEW many PROVE ~IsBytes(ListOf(many))
<1>1. ~IsBytes(NilSlice)
  BY DEF IsBytes, NilSlice, TypeOf
<1>2. ~IsBytes(List(AnyType, many))
  <2>1. TypeOf(List(AnyType, many)) = <<"list">> \o AnyType
    BY Zenon DEF TypeOf, List
  <2>2. AnyType \in Seq(TypeNames) /\ AnyType # <<"byte">>
    BY DEF AnyType, TypeNames
  <2> QED  BY <2>1, <2>2, BytesType DEF IsBytes
<1> QED  BY <1>1, <1>2 DEF ListOf

\* The conversion makes bytes of bytes only.
LEMMA TypedBytes ==
    ASSUME NEW v \in Sound, NEW x, Typed(v) = Value(x)
    PROVE  x \in Values /\ Kind(x) = Kind(v) /\ Data(x) = Data(v) /\ (IsBytes(x) <=> IsBytes(v))
<1>1. v \in Values
  BY DEF Sound
<1>2. x \in Values /\ Kind(x) = Kind(v) /\ Data(x) = Data(v)
  BY <1>1, TypedValue, OutcomeParts
<1>3. CASE Kind(v) # "list"
  BY <1>3, TypedOther, OutcomeParts, <1>2
<1>4. CASE Kind(v) = "list"
  <2> DEFINE s == Data(v)
  <2>1. s \in Seq(Values) /\ Values \subseteq Nest(Values) /\ Places(v) = 1 .. Len(s)
    BY <1>1, <1>4, LevelsOfValues, ValuesAreNested
  <2>2. CASE OneType(s)
    <3>1. x = List(TypeOf(s[1]), s)
      BY <1>4, <2>1, <2>2, TypedList, OutcomeParts
    <3>2. 1 \in Places(v) /\ s[1] \in Nest(Values)
      BY <2>1, <2>2 DEF OneType
    <3>3. TypeOf(x) = <<"list">> \o TypeOf(s[1])
      BY <3>1, Zenon DEF List, TypeOf
    <3>4. Kind(s[1]) = "byte" <=> IsBytes(v)
      BY <1>1, <3>2, BytewiseUnfolds DEF Sound, OnlyInBytes
    <3>5. TypeOf(s[1]) \in Seq(TypeNames)
      BY <3>2, TypeOfValue
    <3>6. IsBytes(x) <=> Kind(s[1]) = "byte"
      BY <3>2, <3>3, <3>5, BytesType, ByteType DEF IsBytes
    <3> QED  BY <1>2, <3>4, <3>6
  <2>3. CASE ~OneType(s)
    <3>1. x = v
      BY <1>4, <2>1, <2>3, TypedList, OutcomeParts
    <3> QED  BY <1>2, <3>1
  <2> QED  BY <2>2, <2>3
<1> QED  BY <1>3, <1>4

\* Values with the same data hold bytes alike.
LEMMA FreeSame ==
    ASSUME NEW v \in Free, NEW x \in Values, Kind(x) = Kind(v), Data(x) = Data(v), ~IsBytes(x)
    PROVE  x \in Free
<1>1. v \in Values /\ Kind(v) # "byte" /\ \A k \in Places(v) : ~HoldsBytes[Data(v)[k]]
  BY HoldsBytesUnfolds DEF Free
<1>2. Places(x) = Places(v)
  BY SamePlaces
<1> QED  BY <1>1, <1>2, HoldsBytesUnfolds DEF Free

\* The conversion finds no bytes where there are none.
LEMMA TypedFree ==
    ASSUME NEW v \in Free, NEW x, Typed(v) = Value(x)
    PROVE  x \in Free
<1>1. ~IsBytes(v) /\ v \in Sound
  BY HoldsBytesUnfolds, FreeSound DEF Free
<1> QED  BY <1>1, TypedBytes, FreeSame

FreeOutcomes == {Value(x) : x \in Free} \cup {ResolutionError, Panic}

\* A value without bytes is spliced to values without bytes.
LEMMA FreeSpliced ==
    ASSUME NEW r \in Free
    PROVE  Spliced(r) \in Seq(Free)
<1>1. CASE Kind(r) = "nil"
  BY <1>1 DEF Spliced
<1>2. CASE Kind(r) = "list"
  <2>1. Data(r) \in Seq(Values) /\ Places(r) = 1 .. Len(Data(r))
    BY <1>2, ValuesAreNested DEF Free
  <2>2. \A k \in 1 .. Len(Data(r)) : Data(r)[k] \in Free
    BY <2>1, FreeSet DEF PartsIn
  <2> HIDE DEF Free
  <2>3. Data(r) \in Seq(Free)
    BY <2>1, <2>2
  <2> QED  BY <1>2, <2>3 DEF Spliced
<1>3. CASE Kind(r) # "nil" /\ Kind(r) # "list"
  BY <1>3, OneItem DEF Spliced
<1> QED  BY <1>1, <1>2, <1>3

\* Values without bytes lead to no bytes.
LEMMA FreeResolves ==
    ASSUME NEW sel \in Selectors
    PROVE  \A v \in Free : Resolve[sel][v] \subseteq FreeOutcomes
<1>1. Free \subseteq Values
  BY DEF Free
<1>2. TypesInto(Free, FreeOutcomes)
  <2> SUFFICES ASSUME NEW v \in Free PROVE Typed(v) \in FreeOutcomes
    BY DEF TypesInto
  <2>1. Typed(v) = Panic \/ \E x : Typed(v) = Value(x)
    BY <1>1, TypedValue
  <2> QED  BY <2>1, TypedFree DEF FreeOutcomes
<1>3. StepsWithin(Segments, Free, FreeOutcomes)
  <2> SUFFICES ASSUME NEW seg \in Segments, NEW v \in Free, NEW rest \in Resolvers,
                      \A w \in Free : rest[w] \subseteq FreeOutcomes, NEW o \in Step(seg, v, rest)
               PROVE  IF Status(o) = "value" THEN Result(o) \in Free ELSE o \in FreeOutcomes
    BY Zenon DEF StepsWithin
  <2>1. CASE o = ResolutionError \/ o = Panic
    BY <2>1, OutcomeParts DEF FreeOutcomes
  <2>2. CASE \E x \in Values : o = Value(x) /\ (x \in Free \/ IsCut(seg, v, x))
    BY <2>2, OutcomeParts, FreeCut
  <2>3. CASE \E w \in Free : Status(o) # "value" /\ o \in rest[w]
    BY <2>3
  <2>4. ASSUME NEW items \in Seq(Free), NEW results, ResultsFor(items, rest, results),
               \A k \in DOMAIN items : Status(results[k]) = "value",
               ListOf(Collected(results)) \in Values, o = Value(ListOf(Collected(results)))
        PROVE  Status(o) = "value" /\ Result(o) \in Free
    <3> DEFINE l == ListOf(Collected(results))
    <3>1. Len(items) \in Nat /\ DOMAIN results = 1 .. Len(items) /\ DOMAIN items = 1 .. Len(items)
      BY <2>4 DEF ResultsFor
    <3>2. \A k \in DOMAIN results : Spliced(Result(results[k])) \in Seq(Free)
      <4>1. \A k \in DOMAIN results : items[k] \in Free /\ results[k] \in rest[items[k]]
        BY <2>4, <3>1 DEF ResultsFor
      <4>2. \A k \in DOMAIN results : Result(results[k]) \in Free
        BY <2>4, <3>1, <4>1, OutcomeParts DEF FreeOutcomes
      <4> QED  BY <4>2, FreeSpliced
    <3> HIDE DEF Free
    <3>3. Collected(results) \in Seq(Free)
      BY <3>1, <3>2, CollectedFrom
    <3>4. Kind(l) = "list" /\ Data(l) \in Seq(Free) /\ l \in Values /\ ~IsBytes(l)
      BY <2>4, <3>3, ListOfType, ListOfNoBytes
    <3> HIDE DEF l
    <3>5. \A k \in Places(l) : Data(l)[k] \in Free
      BY <3>4, ValuesAreNested
    <3>6. l \in Free
      BY <3>4, <3>5, HoldsBytesUnfolds DEF Free
    <3>7. o = Value(l)
      BY <2>4 DEF l
    <3> QED  BY <3>6, <3>7, OutcomeParts
  <2>5. \/ o = ResolutionError \/ o = Panic
        \/ \E x \in Values : o = Value(x) /\ (x \in Free \/ IsCut(seg, v, x))
        \/ \E w \in Free : Status(o) # "value" /\ o \in rest[w]
        \/ \E items \in Seq(Free) : \E results :
              /\ ResultsFor(items, rest, results)
              /\ \A k \in DOMAIN items : Status(results[k]) = "value"
              /\ ListOf(Collected(results)) \in Values
              /\ o = Value(ListOf(Collected(results)))
    <3>0. PartsIn(Free) /\ ScalarsIn(Free) /\ v \in Free /\ seg \in Segments
          /\ rest \in Resolvers /\ o \in Step(seg, v, rest)
      BY FreeSet
    <3>1. StaysWithin(Free, seg, v, rest, o)
      BY <3>0, StepWithin
    <3> QED  BY <3>1 DEF StaysWithin
  <2> QED  BY <2>1, <2>2, <2>3, <2>4, <2>5, OutcomeParts
<1>4. \A k \in DOMAIN sel : sel[k] \in Segments
  BY DEF Selectors
<1> QED  BY <1>1, <1>2, <1>3, <1>4, ResolveWithin

-----------------------------------------------------------------------------
(***************************************************************************)
(* A selector that iterates last resolves to what it reaches.              *)
(***************************************************************************)
Ends(sel) == \A k \in DOMAIN sel : IsIterator(sel[k]) => k = Len(sel)

\* A selector that leaves the bytes whole that a value may hold.
Fits(sel, v) == HoldsBytes[v] => \A k \in DOMAIN sel : sel[k][1] \notin {"iterator", "index"}

\* A turn yields values.
LEMMA StepResult ==
    ASSUME NEW v \in Values, NEW seg \in Segments, NEW rest \in Resolvers,
           NEW x, Value(x) \in Step(seg, v, rest)
    PROVE  x \in Values
<1>1. PICK n \in 0 .. Depth : n # 0 /\ v \in ValuesTo[n]
  BY LevelsOfValues
<1>2. /\ n - 1 \in 0 .. Depth /\ v \in Nest(ValuesTo[n - 1])
      /\ Nest(ValuesTo[n - 1]) \subseteq Values /\ Closed(ValuesTo[n - 1])
  BY <1>1, ValuesToStep, LevelsOfValues, SelectorAssumption
<1>3. Value(x) \in Outs(Nest(ValuesTo[n - 1]))
  BY <1>2, StepType DEF Resolvers
<1>4. Status(Value(x)) = "value" /\ Result(Value(x)) = x
  BY OutcomeParts
<1> QED  BY <1>2, <1>3, <1>4, OutsElim

\* What is resolved is what is reached, but for the type of a list.
Runs(sel, r, out) ==
    \/ r = Panic
    \/ r = ResolutionError /\ out = {}
    \/ r = Value(Nil) /\ out = {<<Absent>>}
    \/ /\ ~Iterates(sel)
       /\ \E x, w \in Values : /\ r = Value(x) /\ out = {<<w>>}
                               /\ Kind(x) = Kind(w) /\ Data(x) = Data(w)
                               /\ IsBytes(x) <=> IsBytes(w)
    \/ /\ Iterates(sel)
       /\ \E x \in Values : \E s \in Seq(Values) :
              /\ r = Value(x) /\ out = {s}
              /\ Kind(x) = "list" /\ Data(x) = CollectAll(s) /\ ~IsBytes(x)
              /\ \A k \in DOMAIN s : ~IsBytes(s[k])

\* For some orders of maps.
RunsSo(sel, v, r) == \E out \in Outputs[sel][v] : Runs(sel, r, out)

\* The rest of a selector that iterates last, if at all.
LEMMA TailEnds ==
    ASSUME NEW sel \in Selectors, sel # <<>>, Ends(sel)
    PROVE  /\ Ends(Tail(sel))
           /\ ~IsIterator(Head(sel)) => (Iterates(sel) <=> Iterates(Tail(sel)))
           /\ IsIterator(Head(sel)) => Tail(sel) = <<>> /\ Iterates(sel)
<1>1. /\ Head(sel) = sel[1] /\ DOMAIN sel = 1 .. Len(sel) /\ Len(sel) \in Nat \ {0}
      /\ Tail(sel) \in Selectors /\ Len(Tail(sel)) = Len(sel) - 1
      /\ \A k \in 1 .. Len(sel) - 1 : Tail(sel)[k] = sel[k + 1]
  BY SelectorParts
<1> DEFINE t == Tail(sel)
<1>2. DOMAIN t = 1 .. Len(sel) - 1
  BY <1>1 DEF Selectors
<1>3. Ends(t)
  BY <1>1, <1>2 DEF Ends
<1>4. ASSUME IsIterator(Head(sel)) PROVE t = <<>> /\ Iterates(sel)
  <2>1. Len(t) = 0
    BY <1>1, <1>4 DEF Ends
  <2>2. t \in Seq(Segments)
    BY <1>1 DEF Selectors
  <2> HIDE DEF t
  <2>3. t = <<>>
    BY <2>1, <2>2, EmptySeq
  <2> QED  BY <1>1, <1>4, <2>3 DEF Iterates
<1>5. ASSUME ~IsIterator(Head(sel)) PROVE Iterates(sel) <=> Iterates(t)
  <2>1. ASSUME Iterates(t) PROVE Iterates(sel)
    BY <1>1, <1>2, <2>1 DEF Iterates
  <2>2. ASSUME Iterates(sel) PROVE Iterates(t)
    <3>1. PICK k \in 1 .. Len(sel) : IsIterator(sel[k])
      BY <1>1, <2>2 DEF Iterates
    <3>2. k - 1 \in 1 .. Len(sel) - 1 /\ t[k - 1] = sel[k]
      BY <1>1, <1>5, <3>1
    <3> QED  BY <1>2, <3>1, <3>2 DEF Iterates
  <2> QED  BY <2>1, <2>2
<1> QED  BY <1>3, <1>4, <1>5


\* The rest of a selector that reaches each value alone.
LEMMA OnwardSingles ==
    ASSUME NEW r \in Seq(Reached), NEW rest, \A w \in Reached : rest[w] = {{<<w>>}}
    PROVE  {r} \in Onward({r}, rest)
<1> DEFINE f == [k \in DOMAIN r |-> rest[r[k]]]
           g == [k \in DOMAIN r |-> {<<r[k]>>}]
           ss == [k \in DOMAIN r |-> Sole(g[k])]
<1>1. Onward({r}, rest) = {Joint(r, h) : h \in OneOfEach(f)}
  <2>1. r = Sole({r}) /\ {r} # {}
    BY SoleOf
  <2>2. Onward({r}, rest) = Joints(r, rest)
    BY <2>1, OnwardIs
  <2> QED  BY <2>2 DEF Joints
<1>2. DOMAIN f = DOMAIN r /\ \A k \in DOMAIN r : f[k] = {{<<r[k]>>}}
  OBVIOUS
<1>3. DOMAIN g = DOMAIN r /\ g = [k \in DOMAIN r |-> g[k]] /\ \A k \in DOMAIN r : g[k] = {<<r[k]>>}
  OBVIOUS
<1> HIDE DEF f, g
<1>4. g \in OneOfEach(f)
  BY <1>2, <1>3, OneOfEachIntro
<1>5. DOMAIN r = 1 .. Len(r) /\ Len(r) \in Nat
  OBVIOUS
<1>6. Len(ss) = Len(r) /\ \A k \in 1 .. Len(r) : ss[k] = <<r[k]>>
  <2>1. Len(ss) = Len(r)
    BY <1>5
  <2>2. ASSUME NEW k \in 1 .. Len(r) PROVE ss[k] = <<r[k]>>
    <3>1. ss[k] = Sole(g[k]) /\ g[k] = {<<r[k]>>}
      BY <1>3, <1>5
    <3> QED  BY <3>1, SoleOf
  <2> QED  BY <2>1, <2>2
<1>7. Joint(r, g) = {Flat(ss)}
  BY <1>3 DEF Joint
<1> HIDE DEF ss
<1>8. Flat(ss) = r
  BY <1>6, FlatSingles
<1> QED  BY <1>1, <1>4, <1>7, <1>8

\* The last iterator: all the items, as they are.
LEMMA IteratorRuns ==
    ASSUME NEW v \in Free, IsCollection(v), NEW sel \in Selectors,
           sel # <<>>, IsIterator(Head(sel)), Tail(sel) = <<>>, NEW r \in Resolve[sel][v]
    PROVE  RunsSo(sel, v, r)
<1> DEFINE seg == Head(sel)
           rest == Resolve[<<>>]
           out == Outputs[<<>>]
<1>0. <<>> \in Selectors /\ seg \in Segments /\ rest \in Resolvers /\ v \in Values /\ ~IsBytes(v)
      /\ v \in Nest(Values)
  BY SelectorParts, ResolveUnfolds, HoldsBytesUnfolds, ValuesAreNested DEF Free
<1>1. r \in Turn(sel, v, rest)
  BY <1>0, ResolveUnfolds
<1>2. Outputs[sel][v] = Further(seg, v, out)
  BY <1>0, OutputsUnfolds DEF Reached
<1>3. Reach(seg, v) = {{items} : items \in Enumerated(v)}
  BY <1>0, ReachIs DEF IsIterator, IsIterable
<1>4. \A w \in Values : rest[w] = {Typed(w)}
  BY <1>0, ResolveUnfolds
<1>5. \A w \in Reached : out[w] = {{<<w>>}}
  BY <1>0, OutputsUnfolds
<1>12. Iterates(sel)
  BY SelectorParts DEF Iterates
<1>6. PICK o \in Step(seg, v, rest) :
         \/ Status(o) = "value" /\ r \in rest[Result(o)]
         \/ Status(o) # "value" /\ r = o
  BY <1>1, TurnIs
<1>7. o \in ResolveIterator(seg, v, rest)
  BY <1>6, StepIs DEF IsIterator
<1> HIDE DEF rest, out, seg
<1>a. IsCollection(v) /\ v \in Nest(Values) /\ o \in ResolveIterator(seg, v, rest)
  BY <1>0, <1>7
<1>8. PICK items, results :
         /\ items \in Enumerated(v)
         /\ ResultsFor(items, rest, results)
         /\ \/ \E k \in DOMAIN items : Status(results[k]) # "value" /\ o = results[k]
            \/ /\ \A k \in DOMAIN items : Status(results[k]) = "value"
               /\ o = Value(ListOf(Collected(results)))
  BY <1>a, IteratorIs
<1>9. /\ items \in Seq(Values) /\ Len(items) \in Nat /\ DOMAIN items = 1 .. Len(items)
      /\ \A k \in DOMAIN items : items[k] \in Free
  <2>1. /\ items \in Seq(Values) /\ Len(items) \in Nat /\ DOMAIN items = 1 .. Len(items)
        /\ \A k \in DOMAIN items : \E p \in Places(v) : items[k] = Data(v)[p]
    BY <1>8, <1>0, ItemsOf
  <2>2. \A p \in Places(v) : Data(v)[p] \in Free
    BY FreeSet DEF PartsIn
  <2> QED  BY <2>1, <2>2
<1>10. {items} \in Outputs[sel][v]
  <2>1. Seq(Values) \subseteq Seq(Reached)
    BY DEF Reached
  <2>2. {items} \in Onward({items}, out)
    BY <1>5, <1>9, <2>1, OnwardSingles
  <2>3. {items} \in Reach(seg, v)
    BY <1>8, <1>3
  <2>4. Onward({items}, out) \subseteq Further(seg, v, out)
    BY <2>3, FurtherIs
  <2> QED  BY <1>2, <2>2, <2>4
<1>11. DOMAIN results = DOMAIN items /\ \A k \in DOMAIN items : results[k] = Typed(items[k])
  BY <1>4, <1>8, <1>9 DEF ResultsFor
<1>13. CASE \E k \in DOMAIN items : Status(results[k]) # "value" /\ o = results[k]
  <2>1. PICK k \in DOMAIN items : Status(results[k]) # "value" /\ o = results[k]
    BY <1>13
  <2>2. items[k] \in Values /\ results[k] = Typed(items[k])
    BY <1>9, <1>11
  <2>3. o = Panic
    BY <2>1, <2>2, TypedValue, OutcomeParts
  <2>4. r = Panic
    BY <1>6, <2>3, OutcomeParts
  <2> QED  BY <1>10, <2>4 DEF RunsSo, Runs
<1>14. CASE /\ \A k \in DOMAIN items : Status(results[k]) = "value"
            /\ o = Value(ListOf(Collected(results)))
  <2> DEFINE found == [k \in DOMAIN results |-> Result(results[k])]
  <2>0. Collected(results) = CollectAll(found)
    BY DEF Collected
  <2>1. ASSUME NEW k \in 1 .. Len(items)
        PROVE  /\ Spliced(items[k]) \in Seq(Free)
               /\ Spliced(Result(results[k])) = Spliced(items[k])
    <3> DEFINE w == items[k]
    <3>1. w \in Free /\ w \in Sound /\ results[k] = Typed(w) /\ Status(Typed(w)) = "value"
      BY <1>9, <1>11, <1>14, FreeSound
    <3> HIDE DEF w
    <3>2. PICK x : Typed(w) = Value(x)
      BY <3>1, TypedValue, OutcomeParts DEF Free
    <3>3. Result(results[k]) = x /\ Kind(x) = Kind(w) /\ Data(x) = Data(w)
      BY <3>1, <3>2, TypedBytes, OutcomeParts
    <3>4. Kind(w) # "list" => x = w
      BY <3>2, TypedOther, OutcomeParts
    <3>5. Spliced(w) \in Seq(Free)
      BY <3>1, FreeSpliced
    <3>6. Spliced(x) = Spliced(w)
      BY <3>3, <3>4 DEF Spliced
    <3> QED  BY <3>3, <3>5, <3>6 DEF w
  <2>2. Len(found) = Len(items) /\ \A k \in 1 .. Len(items) : found[k] = Result(results[k])
    BY <1>9, <1>11
  <2> HIDE DEF found
  <2>3. CollectAll(found) = CollectAll(items) /\ CollectAll(items) \in Seq(Free)
    <3>1. \A k \in 1 .. Len(items) :
              Spliced(items[k]) \in Seq(Free) /\ Spliced(found[k]) = Spliced(items[k])
      BY <2>1, <2>2
    <3> HIDE DEF Free
    <3>2. CollectAll(items) \in Seq(Free)
      BY <1>9, <3>1, CollectAllType
    <3>3. CollectAll(found) = CollectAll(items)
      BY <1>9, <2>2, <3>1, CollectAllSame
    <3> QED  BY <3>2, <3>3
  <2> DEFINE l == ListOf(Collected(results))
  <2>4. o = Value(l) /\ Kind(l) = "list" /\ Data(l) = CollectAll(items) /\ ~IsBytes(l)
    BY <1>14, <2>0, <2>3, ListOfType, ListOfNoBytes
  <2> HIDE DEF l
  <2>5. l \in Values
    BY <1>0, <1>6, <2>4, StepResult
  <2>6. l \in Free
    <3>1. Places(l) = 1 .. Len(Data(l))
      BY <2>4, <2>5, ValuesAreNested
    <3>2. \A k \in Places(l) : Data(l)[k] \in Free
      BY <2>3, <2>4, <3>1
    <3> QED  BY <2>4, <2>5, <3>2, HoldsBytesUnfolds DEF Free
  <2>7. r = Typed(l)
    BY <1>4, <1>6, <2>4, <2>5, OutcomeParts
  <2>8. CASE r = Panic
    BY <1>10, <2>8 DEF RunsSo, Runs
  <2>9. CASE r # Panic
    <3>1. PICK x : Typed(l) = Value(x)
      BY <2>5, <2>7, <2>9, TypedValue
    <3>2. x \in Values /\ Kind(x) = "list" /\ Data(x) = CollectAll(items) /\ ~IsBytes(x)
      BY <2>4, <2>6, <3>1, TypedBytes, FreeSound
    <3>3. \A k \in DOMAIN items : ~IsBytes(items[k])
      BY <1>9, HoldsBytesUnfolds DEF Free
    <3>4. r = Value(x)
      BY <2>7, <3>1
    <3>5. Runs(sel, r, {items})
      BY <1>9, <1>12, <3>2, <3>3, <3>4 DEF Runs
    <3> QED  BY <1>10, <3>5 DEF RunsSo
  <2> QED  BY <2>8, <2>9
<1> QED  BY <1>8, <1>13, <1>14

\* One segment that does not iterate, before a rest that runs so.
LEMMA SegmentRuns ==
    ASSUME NEW v \in Sound, NEW sel \in Selectors, sel # <<>>, Ends(sel), Fits(sel, v),
           ~IsIterator(Head(sel)),
           \A x \in Sound : Fits(Tail(sel), x) =>
               \A r \in Resolve[Tail(sel)][x] : RunsSo(Tail(sel), x, r),
           NEW r \in Resolve[sel][v]
    PROVE  RunsSo(sel, v, r)
<1> DEFINE seg == Head(sel)
           rest == Resolve[Tail(sel)]
           out == Outputs[Tail(sel)]
           reached == Reading(seg, v)
<1>1. seg \in Segments /\ Tail(sel) \in Selectors /\ rest \in Resolvers /\ v \in Values
  BY SelectorParts, ResolveUnfolds DEF Sound
<1>2. r \in Turn(sel, v, rest)
  BY <1>1, ResolveUnfolds
<1>3. Outputs[sel][v] = Onward(reached, out)
  <2>1. Reach(seg, v) = {reached}
    BY <1>1, ReadingIs
  <2>2. Outputs[sel][v] = Further(seg, v, out)
    BY <1>1, OutputsUnfolds DEF Reached
  <2> QED  BY <2>1, <2>2, FurtherIs
<1>4. \A w \in Reached : out[w] \in Readings
  BY <1>1, OutputsUnfolds
<1>0. Nil \in Values /\ Absent \in Reached /\ Values \subseteq Reached
  BY <1>1, AbsentIs DEF Reached
<1>5. \/ rest[Nil] = {Value(Nil)} /\ out[Absent] = {{<<Absent>>}}
      \/ rest[Nil] = {ResolutionError} /\ out[Absent] = {{}}
  BY <1>0, <1>1, NilRuns
<1>6. PICK o \in Step(seg, v, rest) :
         \/ Status(o) = "value" /\ r \in rest[Result(o)]
         \/ Status(o) # "value" /\ r = o
  BY <1>2, TurnIs
<1>7. /\ Head(sel) = sel[1] /\ DOMAIN sel = 1 .. Len(sel) /\ Len(sel) \in Nat \ {0}
      /\ Len(Tail(sel)) = Len(sel) - 1
      /\ \A k \in 1 .. Len(sel) - 1 : Tail(sel)[k] = sel[k + 1]
  BY SelectorParts
<1>8. NoByteAt(seg, v)
  <2> SUFFICES ASSUME seg[1] = "index", NEW k \in Places(v) PROVE Kind(Data(v)[k]) # "byte"
    BY DEF NoByteAt
  <2>1. ~HoldsBytes[v]
    BY <1>7 DEF Fits
  <2>2. ~HoldsBytes[Data(v)[k]] /\ Data(v)[k] \in Values
    BY <1>1, <2>1, HoldsBytesUnfolds, ValueParts
  <2> QED  BY <2>2, HoldsBytesUnfolds
<1>9. Agrees(o, reached)
  BY <1>1, <1>6, <1>8, StepAgrees
<1>10. Iterates(sel) <=> Iterates(Tail(sel))
  BY TailEnds
<1>11. \A x : o = Value(x) => x \in Sound /\ Fits(Tail(sel), x)
  <2> SUFFICES ASSUME NEW x, o = Value(x) PROVE x \in Sound /\ Fits(Tail(sel), x)
    OBVIOUS
  <2>1. Value(x) \in Step(seg, v, rest)
    BY <1>6
  <2>2. x \in Sound
    BY <1>1, <2>1, StepKeeps, SoundSet, SoundCut
  <2>3. CASE HoldsBytes[v]
    <3>1. \A k \in DOMAIN sel : sel[k][1] \notin {"iterator", "index"}
      BY <2>3 DEF Fits
    <3>2. DOMAIN Tail(sel) = 1 .. Len(sel) - 1
      BY <1>1, <1>7 DEF Selectors
    <3>3. \A k \in DOMAIN Tail(sel) : Tail(sel)[k][1] \notin {"iterator", "index"}
      BY <1>7, <3>1, <3>2
    <3> QED  BY <2>2, <3>3 DEF Fits
  <2>4. CASE ~HoldsBytes[v]
    <3>1. v \in Free
      BY <1>1, <2>4 DEF Free
    <3>2. x \in Free
      BY <1>1, <2>1, <3>1, StepKeeps, FreeSet, FreeCut
    <3> QED  BY <2>2, <3>2 DEF Fits, Free
  <2> QED  BY <2>3, <2>4
<1> HIDE DEF reached, rest, out, seg
<1>12. CASE o = ResolutionError /\ reached = {}
  <2>1. Outputs[sel][v] = {{}}
    BY <1>3, <1>12, OnwardIs
  <2>2. r = ResolutionError
    BY <1>6, <1>12, OutcomeParts
  <2> QED  BY <2>1, <2>2 DEF RunsSo, Runs
<1>13. CASE o = Panic
  <2>1. r = Panic
    BY <1>6, <1>13, OutcomeParts
  <2>2. PICK some : some \in Outputs[sel][v]
    BY <1>1, OutputsUnfolds DEF Reached, Readings
  <2> QED  BY <2>1, <2>2 DEF RunsSo, Runs
<1>14. CASE o = Value(Nil) /\ reached = {<<Absent>>}
  <2>1. r \in rest[Nil]
    BY <1>6, <1>14, OutcomeParts
  <2>2. Outputs[sel][v] = out[Absent]
    BY <1>0, <1>3, <1>4, <1>14, OnwardFrom
  <2> QED  BY <1>5, <2>1, <2>2 DEF RunsSo, Runs
<1>15. CASE \E x : o = Value(x) /\ reached = {<<x>>}
  <2>1. PICK x : o = Value(x) /\ reached = {<<x>>}
    BY <1>15
  <2>2. x \in Sound /\ Fits(Tail(sel), x) /\ x \in Reached
    BY <1>0, <1>11, <2>1 DEF Sound
  <2>3. r \in rest[x]
    BY <1>6, <2>1, OutcomeParts
  <2>4. Outputs[sel][v] = out[x]
    BY <1>3, <1>4, <2>1, <2>2, OnwardFrom
  <2>5. RunsSo(Tail(sel), x, r)
    BY <2>2, <2>3 DEF rest
  <2>6. PICK some \in out[x] : Runs(Tail(sel), r, some)
    BY <2>5 DEF RunsSo, out
  <2>7. Runs(sel, r, some)
    BY <1>10, <2>6 DEF Runs
  <2> QED  BY <2>4, <2>6, <2>7 DEF RunsSo
<1> QED  BY <1>9, <1>12, <1>13, <1>14, <1>15 DEF Agrees

\* A selector that iterates last resolves to what it denotes, short of a panic.
LEMMA Simulates ==
    ASSUME NEW sel \in Selectors, Ends(sel), NEW v \in Sound, Fits(sel, v), NEW r \in Resolve[sel][v]
    PROVE  RunsSo(sel, v, r)
<1> DEFINE All(t, x) == \A o \in Resolve[t][x] : RunsSo(t, x, o)
           T == {t \in Selectors : Ends(t) => \A x \in Sound : Fits(t, x) => All(t, x)}
<1>0. Sound \subseteq Values
  BY DEF Sound
<1>1. <<>> \in T
  <2>1. <<>> \in Selectors /\ ~Iterates(<<>>)
    BY DEF Selectors, Iterates
  <2>2. ASSUME NEW x \in Sound, NEW o \in Resolve[<<>>][x] PROVE RunsSo(<<>>, x, o)
    <3>0. x \in Values /\ x \in Reached
      BY <1>0 DEF Reached
    <3>4. Resolve[<<>>][x] = {Typed(x)}
      BY <2>1, <3>0, ResolveUnfolds
    <3>5. Outputs[<<>>][x] = {{<<x>>}}
      BY <2>1, <3>0, OutputsUnfolds
    <3>1. o = Typed(x) /\ Outputs[<<>>][x] = {{<<x>>}} /\ x \in Values
      BY <3>0, <3>4, <3>5
    <3>2. CASE Typed(x) = Panic
      BY <3>1, <3>2 DEF RunsSo, Runs
    <3>3. CASE \E y : Typed(x) = Value(y)
      <4>1. PICK y : Typed(x) = Value(y)
        BY <3>3
      <4>2. y \in Values /\ Kind(y) = Kind(x) /\ Data(y) = Data(x) /\ (IsBytes(y) <=> IsBytes(x))
        BY <4>1, TypedBytes
      <4>3. Runs(<<>>, o, {<<x>>})
        BY <2>1, <3>1, <4>1, <4>2 DEF Runs
      <4> QED  BY <3>1, <4>3 DEF RunsSo
    <3> QED  BY <3>1, <3>2, <3>3, TypedValue
  <2> QED  BY <2>1, <2>2
<1>2. ASSUME NEW t \in Selectors, t # <<>>, Tail(t) \in T PROVE t \in T
  <2> SUFFICES ASSUME Ends(t), NEW x \in Sound, Fits(t, x), NEW o \in Resolve[t][x]
               PROVE  RunsSo(t, x, o)
    OBVIOUS
  <2> DEFINE seg == Head(t)
             rest == Resolve[Tail(t)]
             out == Outputs[Tail(t)]
  <2>1. seg \in Segments /\ Tail(t) \in Selectors /\ x \in Values
    BY <1>0, <1>2, SelectorParts
  <2>2. CASE ~IsIterator(seg)
    <3>1. \A y \in Sound : Fits(Tail(t), y) => \A u \in Resolve[Tail(t)][y] : RunsSo(Tail(t), y, u)
      BY <1>2, TailEnds
    <3> QED  BY <1>2, <2>2, <3>1, SegmentRuns
  <2>3. CASE IsIterator(seg) /\ IsCollection(x)
    <3>1. 1 \in DOMAIN t /\ t[1] = seg
      BY <1>2, SelectorParts
    <3>2. ~HoldsBytes[x]
      BY <2>3, <3>1 DEF Fits, IsIterator
    <3>3. x \in Free
      BY <2>1, <3>2 DEF Free
    <3>4. Tail(t) = <<>>
      BY <1>2, <2>3, TailEnds
    <3> QED  BY <1>2, <2>3, <3>3, <3>4, IteratorRuns
  <2>4. CASE IsIterator(seg) /\ ~IsCollection(x)
    <3>1. PICK u \in Step(seg, x, rest) :
             \/ Status(u) = "value" /\ o \in rest[Result(u)]
             \/ Status(u) # "value" /\ o = u
      <4>1. o \in Turn(t, x, rest)
        BY <1>2, <2>1, ResolveUnfolds
      <4> QED  BY <4>1, TurnIs
    <3>2. u = Missing(seg)
      BY <2>4, <3>1, StepIs DEF IsIterator, ResolveIterator
    <3>3. Reach(seg, x) = {Skipped(seg)}
      BY <2>4, ReachIs DEF IsIterator, IsIterable
    <3>4. Outputs[t][x] = Onward(Skipped(seg), out)
      <4>1. Outputs[t][x] = Further(seg, x, out)
        BY <1>2, <2>1, OutputsUnfolds DEF Reached
      <4> QED  BY <3>3, <4>1, FurtherIs
    <3>5. Nil \in Values /\ Absent \in Reached /\ out[Absent] \in Readings
      BY <2>1, AbsentIs, OutputsUnfolds DEF Reached
    <3>6. \/ rest[Nil] = {Value(Nil)} /\ out[Absent] = {{<<Absent>>}}
          \/ rest[Nil] = {ResolutionError} /\ out[Absent] = {{}}
      BY <2>1, <3>5, NilRuns
    <3> HIDE DEF rest, out, seg
    <3>7. CASE u = Value(Nil) /\ Skipped(seg) = {<<Absent>>}
      <4>1. o \in rest[Nil]
        BY <3>1, <3>7, OutcomeParts
      <4>2. Outputs[t][x] = out[Absent]
        BY <3>4, <3>5, <3>7, OnwardFrom
      <4> QED  BY <3>6, <4>1, <4>2 DEF RunsSo, Runs
    <3>8. CASE u = ResolutionError /\ Skipped(seg) = {}
      <4>1. o = ResolutionError
        BY <3>1, <3>8, OutcomeParts
      <4>2. Outputs[t][x] = {{}}
        BY <3>4, <3>8, OnwardIs
      <4> QED  BY <4>1, <4>2 DEF RunsSo, Runs
    <3> QED  BY <3>2, <3>7, <3>8 DEF Missing, Skipped
  <2> QED  BY <2>2, <2>3, <2>4
<1> HIDE DEF T
<1>3. Selectors \subseteq T
  BY <1>1, <1>2, SelectorInduction
<1>4. sel \in T
  BY <1>3
<1> QED  BY <1>4 DEF T

-----------------------------------------------------------------------------
(***************************************************************************)
(* Reading what a selector reaches; fields after an iterator.              *)
(***************************************************************************)
Read(sel, s) ==
    CASE s = <<Absent>> -> Nil
      [] s # <<Absent>> /\ Iterates(sel) ->
            List(AnyType, CollectAll([k \in DOMAIN s |-> Unspliced(s[k])]))
      [] OTHER -> s[1]

\* What a selector denotes is read from its outputs.
LEMMA DenotesOf ==
    ASSUME NEW sel, NEW v
    PROVE  Denotes(sel, v) = {{Read(sel, s) : s \in reading} : reading \in Outputs[sel][v]}
  BY Zenon DEF Denotes, Read

\* A list without its type is a value.
LEMMA UntypedValue ==
    ASSUME NEW x \in Values, Kind(x) = "list"
    PROVE  /\ List(AnyType, Data(x)) \in Values
           /\ Kind(List(AnyType, Data(x))) = "list" /\ Data(List(AnyType, Data(x))) = Data(x)
<1>1. PICK n \in 0 .. Depth : n # 0 /\ x \in ValuesTo[n]
  BY LevelsOfValues
<1> DEFINE W == ValuesTo[n - 1]
<1>2. x \in Nest(W) /\ Nest(W) \subseteq Values
  BY <1>1, ValuesToStep, LevelsOfValues, SelectorAssumption
<1> HIDE DEF W
<1>3. Data(x) \in Seq(W)
  BY <1>2, NestElim
<1> QED  BY <1>2, <1>3, ListOfAny

\* What the rest of the model needs to know of what a selector denotes.
Meant(sel, v, x) ==
    \E w \in Values : /\ {w} \in Denotes(sel, v)
                      /\ Kind(w) = Kind(x) /\ Data(w) = Data(x) /\ (IsBytes(w) <=> IsBytes(x))

\* A reading with one sequence denotes one value.
LEMMA DenotesOne ==
    ASSUME NEW sel, NEW v, NEW s, {s} \in Outputs[sel][v]
    PROVE  {Read(sel, s)} \in Denotes(sel, v)
<1>1. {Read(sel, t) : t \in {s}} = {Read(sel, s)}
  OBVIOUS
<1> QED  BY <1>1, DenotesOf

\* A selector denotes nothing when it fails, and otherwise what it selects.
LEMMA DenotesIs ==
    ASSUME NEW sel \in Selectors, Ends(sel), NEW v \in Sound, Fits(sel, v), NEW r \in Resolve[sel][v]
    PROVE  /\ r = ResolutionError => {} \in Denotes(sel, v)
           /\ \A x : r = Value(x) => Meant(sel, v, x)
<1>1. PICK out \in Outputs[sel][v] : Runs(sel, r, out)
  <2>1. RunsSo(sel, v, r)
    BY Simulates
  <2> QED  BY <2>1 DEF RunsSo
<1>3. Nil \in Values
  BY AbsentIs DEF Sound
<1>4. CASE r = Panic
  BY <1>4, OutcomeParts
<1>5. CASE r = ResolutionError /\ out = {}
  <2>1. {Read(sel, s) : s \in out} = {}
    BY <1>5
  <2>2. {} \in Denotes(sel, v)
    BY <2>1, DenotesOf
  <2> QED  BY <1>5, <2>2, OutcomeParts
<1>6. CASE r = Value(Nil) /\ out = {<<Absent>>}
  <2>1. Read(sel, <<Absent>>) = Nil
    BY DEF Read
  <2>2. {Nil} \in Denotes(sel, v)
    BY <1>1, <1>6, <2>1, DenotesOne
  <2>3. \A x : r = Value(x) => x = Nil
    BY <1>6, OutcomeParts
  <2>4. Meant(sel, v, Nil)
    BY <1>3, <2>2 DEF Meant
  <2> QED  BY <1>6, <2>3, <2>4, OutcomeParts
<1>7. CASE /\ ~Iterates(sel)
           /\ \E x, w \in Values : /\ r = Value(x) /\ out = {<<w>>}
                                   /\ Kind(x) = Kind(w) /\ Data(x) = Data(w)
                                   /\ IsBytes(x) <=> IsBytes(w)
  <2>1. PICK x \in Values, w \in Values : /\ r = Value(x) /\ out = {<<w>>}
                                          /\ Kind(x) = Kind(w) /\ Data(x) = Data(w)
                                          /\ IsBytes(x) <=> IsBytes(w)
    BY <1>7
  <2>2. <<w>> # <<Absent>> /\ <<w>>[1] = w
    BY AbsentIs
  <2>3. Read(sel, <<w>>) = w
    BY <1>7, <2>2 DEF Read
  <2>4. {w} \in Denotes(sel, v)
    BY <1>1, <2>1, <2>3, DenotesOne
  <2>5. \A y : r = Value(y) => y = x
    BY <2>1, OutcomeParts
  <2>6. Meant(sel, v, x)
    BY <2>1, <2>4 DEF Meant
  <2> QED  BY <2>1, <2>5, <2>6, OutcomeParts
<1>8. CASE /\ Iterates(sel)
           /\ \E x \in Values : \E s \in Seq(Values) :
                 /\ r = Value(x) /\ out = {s}
                 /\ Kind(x) = "list" /\ Data(x) = CollectAll(s) /\ ~IsBytes(x)
                 /\ \A k \in DOMAIN s : ~IsBytes(s[k])
  <2>1. PICK x \in Values, s \in Seq(Values) :
                 /\ r = Value(x) /\ out = {s}
                 /\ Kind(x) = "list" /\ Data(x) = CollectAll(s) /\ ~IsBytes(x)
                 /\ \A k \in DOMAIN s : ~IsBytes(s[k])
    BY <1>8
  <2>2. s # <<Absent>>
    <3> SUFFICES ASSUME s = <<Absent>> PROVE FALSE
      OBVIOUS
    <3>1. 1 \in DOMAIN s /\ s[1] = Absent
      OBVIOUS
    <3>2. s[1] \in Values
      BY <3>1
    <3> QED  BY <3>1, <3>2, AbsentIs
  <2> DEFINE us == [k \in DOMAIN s |-> Unspliced(s[k])]
             w == List(AnyType, CollectAll(s))
  <2>3. us = s
    <3>1. \A k \in DOMAIN s : us[k] = s[k]
      BY <2>1 DEF Unspliced
    <3>2. s = [k \in DOMAIN s |-> s[k]]
      OBVIOUS
    <3> QED  BY <3>1, <3>2
  <2>4. Read(sel, s) = List(AnyType, CollectAll(us))
    BY <1>8, <2>2 DEF Read
  <2> HIDE DEF us
  <2>5. {w} \in Denotes(sel, v)
    BY <1>1, <2>1, <2>3, <2>4, DenotesOne
  <2>6. w \in Values /\ Kind(w) = Kind(x) /\ Data(w) = Data(x)
    BY <2>1, UntypedValue
  <2>7. ~IsBytes(w)
    <3>1. w = ListOf(CollectAll(s)) \/ CollectAll(s) = <<>>
      BY DEF ListOf
    <3>2. ~IsBytes(List(AnyType, <<>>))
      <4>1. TypeOf(List(AnyType, <<>>)) = <<"list">> \o AnyType
        BY Zenon DEF TypeOf, List
      <4>2. AnyType \in Seq(TypeNames) /\ AnyType # <<"byte">>
        BY DEF AnyType, TypeNames
      <4> QED  BY <4>1, <4>2, BytesType DEF IsBytes
    <3> QED  BY <3>1, <3>2, ListOfNoBytes
  <2> HIDE DEF w
  <2>8. \A y : r = Value(y) => y = x
    BY <2>1, OutcomeParts
  <2>9. Meant(sel, v, x)
    BY <2>1, <2>5, <2>6, <2>7 DEF Meant
  <2> QED  BY <2>1, <2>8, <2>9, OutcomeParts
<1> QED  BY <1>1, <1>4, <1>5, <1>6, <1>7, <1>8 DEF Runs

\* What is denoted is made of values.
LEMMA DenotesType ==
    ASSUME NEW sel \in Selectors, NEW v \in Values
    PROVE  /\ Denotes(sel, v) # {}
           /\ \A denoted \in Denotes(sel, v) : \A w \in denoted :
                 \A p \in Places(w) : Data(w)[p] \in Values
<1>1. Outputs[sel][v] \in Readings
  BY OutputsUnfolds DEF Reached
<1>2. Denotes(sel, v) # {}
  BY <1>1, DenotesOf DEF Readings
<1>3. ASSUME NEW reading \in Outputs[sel][v], NEW s \in reading,
             NEW p \in Places(Read(sel, s))
      PROVE  Data(Read(sel, s))[p] \in Values
  <2>0. s \in Seq(Reached)
    BY <1>1 DEF Readings, AtMostOne
  <2>1. CASE s = <<Absent>>
    <3>1. Read(sel, s) = Nil
      BY <2>1 DEF Read
    <3>2. Places(Nil) = {}
      BY AbsentIs DEF Places
    <3> QED  BY <3>1, <3>2
  <2>2. CASE s # <<Absent>> /\ Iterates(sel)
    <3> DEFINE us == [k \in DOMAIN s |-> Unspliced(s[k])]
    <3>1. Read(sel, s) = List(AnyType, CollectAll(us))
      BY <2>2 DEF Read
    <3>2. Len(us) \in Nat /\ \A k \in 1 .. Len(us) : s[k] \in Reached /\ us[k] = Unspliced(s[k])
      BY <2>0
    <3> HIDE DEF us
    <3>3. ASSUME NEW k \in 1 .. Len(us) PROVE Spliced(us[k]) \in Seq(Values)
      <4> DEFINE x == s[k]
      <4>1. x \in Reached /\ us[k] = Unspliced(x)
        BY <3>2
      <4> HIDE DEF x
      <4>2. CASE x = Absent
        <5>1. ~IsBytes(x) /\ Kind(x) = "nil"
          BY <4>2, AbsentIs DEF IsBytes, TypeOf, Kind
        <5> QED  BY <4>1, <5>1 DEF Unspliced, Spliced
      <4>3. CASE x \in Values /\ IsBytes(x)
        <5>1. <<x>> \in Seq(Values)
          BY <4>3, OneItem
        <5>2. Kind(List(AnyType, <<x>>)) = "list" /\ Data(List(AnyType, <<x>>)) = <<x>>
          BY <5>1, ListOfAny
        <5>3. us[k] = List(AnyType, <<x>>)
          BY <4>1, <4>3 DEF Unspliced
        <5>4. Spliced(us[k]) = <<x>>
          BY <5>2, <5>3, Zenon DEF Spliced
        <5> QED  BY <5>1, <5>4
      <4>4. CASE x \in Values /\ ~IsBytes(x)
        <5>1. Kind(x) = "list" => Data(x) \in Seq(Values)
          BY <4>4, ValuesAreNested
        <5>2. us[k] = x
          BY <4>1, <4>4 DEF Unspliced
        <5> QED  BY <4>4, <5>1, <5>2, OneItem, EmptySeq DEF Spliced
      <4> QED  BY <4>1, <4>2, <4>3, <4>4 DEF Reached
    <3>4. CollectAll(us) \in Seq(Values)
      BY <3>2, <3>3, CollectAllType
    <3> DEFINE l == List(AnyType, CollectAll(us))
    <3>5. Kind(l) = "list" /\ Data(l) = CollectAll(us)
      BY <3>4, ListOfAny
    <3> HIDE DEF l
    <3>6. p \in DOMAIN Data(l)
      BY <3>1, <3>5 DEF Places, l
    <3>7. Data(l)[p] \in Values
      BY <3>4, <3>5, <3>6
    <3> QED  BY <3>1, <3>7 DEF l
  <2>3. CASE s # <<Absent>> /\ ~Iterates(sel)
    <3>1. Len(s) = 1
      BY <1>3, <2>3, OutputsOne DEF Reached
    <3>5. s \in Seq(Reached)
      BY <2>0
    <3>6. 1 \in DOMAIN s /\ s[1] \in Reached
      <4>1. DOMAIN s = 1 .. Len(s)
        BY <3>5
      <4>2. 1 \in 1 .. 1
        OBVIOUS
      <4>3. 1 \in DOMAIN s
        BY <3>1, <4>1, <4>2, Zenon
      <4> QED  BY <3>5, <4>3
    <3> DEFINE x == s[1]
    <3>7. x \in Reached
      BY <3>6
    <3> HIDE DEF x
    <3>9. s = <<x>>
      <4>1. s[1] = x
        BY DEF x
      <4>2. Len(<<x>>) = 1 /\ <<x>>[1] = x /\ <<x>> \in Seq(Reached)
        BY <3>7
      <4> QED  BY <3>1, <3>5, <4>1, <4>2
    <3>2. s = <<s[1]>> /\ s[1] \in Reached
      BY <3>7, <3>9 DEF x
    <3>3. s[1] \in Values
      BY <2>3, <3>2 DEF Reached
    <3>4. Read(sel, s) = s[1]
      BY <2>3 DEF Read
    <3> QED  BY <1>3, <3>3, <3>4, ValueParts
  <2> QED  BY <2>1, <2>2, <2>3
<1>4. ASSUME NEW denoted \in Denotes(sel, v), NEW w \in denoted, NEW p \in Places(w)
      PROVE  Data(w)[p] \in Values
  <2>1. PICK reading \in Outputs[sel][v] : denoted = {Read(sel, s) : s \in reading}
    BY DenotesOf
  <2>2. PICK s \in reading : w = Read(sel, s)
    BY <2>1
  <2> QED  BY <1>3, <2>1, <2>2
<1> QED  BY <1>2, <1>4

-----------------------------------------------------------------------------
Names(sel) ==
    \A k \in DOMAIN sel : IsIterator(sel[k]) => k = Len(sel) \/ sel[k + 1][1] = "field"

Nothing == {ResolutionError, Panic, Value(Nil)}

\* The rest of a selector with a field behind every iterator but a last one.
LEMMA TailNames ==
    ASSUME NEW sel \in Selectors, sel # <<>>, Names(sel)
    PROVE  /\ Names(Tail(sel))
           /\ ~IsIterator(Head(sel)) => (Ends(Tail(sel)) => Ends(sel))
           /\ IsIterator(Head(sel)) => Tail(sel) = <<>> \/ Head(Tail(sel))[1] = "field"
           /\ Tail(sel) = <<>> => Ends(sel)
<1>1. /\ Head(sel) = sel[1] /\ DOMAIN sel = 1 .. Len(sel) /\ Len(sel) \in Nat \ {0}
      /\ Tail(sel) \in Selectors /\ Len(Tail(sel)) = Len(sel) - 1
      /\ \A k \in 1 .. Len(sel) - 1 : Tail(sel)[k] = sel[k + 1]
  BY SelectorParts
<1> DEFINE t == Tail(sel)
<1>2. DOMAIN t = 1 .. Len(sel) - 1
  BY <1>1 DEF Selectors
<1> DEFINE n == Len(sel)
<1>8. n \in Nat \ {0} /\ Len(t) = n - 1
  BY <1>1
<1> HIDE DEF n
<1>3. ASSUME NEW k \in 1 .. n - 1, IsIterator(t[k])
      PROVE  k = n - 1 \/ t[k + 1][1] = "field"
  <2>1. k + 1 \in 1 .. n
    BY <1>8
  <2>2. IsIterator(sel[k + 1])
    BY <1>1, <1>3 DEF n
  <2>3. k + 1 = n \/ sel[(k + 1) + 1][1] = "field"
    BY <1>1, <2>1, <2>2 DEF Names, n
  <2>4. CASE k + 1 = n
    BY <1>8, <2>4
  <2>5. CASE k + 1 # n
    <3>1. k + 1 \in 1 .. n - 1
      BY <1>8, <2>1, <2>5
    <3>2. t[k + 1] = sel[(k + 1) + 1]
      BY <1>1, <3>1 DEF n
    <3> QED  BY <2>3, <2>5, <3>2
  <2> QED  BY <2>4, <2>5
<1>4. ASSUME ~IsIterator(Head(sel)), Ends(t) PROVE Ends(sel)
  <2> SUFFICES ASSUME NEW k \in 1 .. n, IsIterator(sel[k]) PROVE k = n
    BY <1>1 DEF Ends, n
  <2>1. k # 1
    BY <1>1, <1>4
  <2>2. k - 1 \in 1 .. n - 1 /\ (k - 1) + 1 = k
    BY <1>8, <2>1
  <2>3. t[k - 1] = sel[k]
    BY <1>1, <2>2 DEF n
  <2>4. k - 1 = n - 1
    BY <1>2, <1>4, <1>8, <2>2, <2>3 DEF Ends, n
  <2> QED  BY <1>8, <2>4
<1>5. ASSUME IsIterator(Head(sel)), t # <<>> PROVE Head(t)[1] = "field"
  <2>1. Len(t) \in Nat \ {0} /\ Head(t) = t[1]
    BY <1>1, <1>5, SelectorParts
  <2>2. t[1] = sel[1 + 1] /\ 1 # Len(sel)
    BY <1>1, <2>1
  <2> QED  BY <1>1, <1>5, <2>1, <2>2 DEF Names
<1>6. ASSUME t = <<>> PROVE Ends(sel)
  BY <1>1, <1>6 DEF Ends
<1>7. Names(t)
  BY <1>1, <1>2, <1>3 DEF Names, n
<1> QED  BY <1>4, <1>5, <1>6, <1>7

\* A list has no fields: a field after an iterator finds nothing.
LEMMA NamesFindNothing ==
    \A sel \in Selectors : Names(sel) /\ ~Ends(sel) =>
        \A v \in Values : Resolve[sel][v] \subseteq Nothing
<1> DEFINE T == {sel \in Selectors : Names(sel) /\ ~Ends(sel) =>
                    \A v \in Values : Resolve[sel][v] \subseteq Nothing}
<1>1. <<>> \in T
  BY DEF Selectors, Ends
<1>2. ASSUME NEW sel \in Selectors, sel # <<>>, Tail(sel) \in T PROVE sel \in T
  <2> SUFFICES ASSUME Names(sel), ~Ends(sel), NEW v \in Values, NEW r \in Resolve[sel][v]
               PROVE  r \in Nothing
    OBVIOUS
  <2> DEFINE seg == Head(sel)
             rest == Resolve[Tail(sel)]
  <2>1. seg \in Segments /\ Tail(sel) \in Selectors /\ rest \in Resolvers
    BY <1>2, SelectorParts, ResolveUnfolds
  <2>2. PICK o \in Step(seg, v, rest) :
           \/ Status(o) = "value" /\ r \in rest[Result(o)]
           \/ Status(o) # "value" /\ r = o
    <3>1. r \in Turn(sel, v, rest)
      BY <1>2, ResolveUnfolds
    <3> QED  BY <3>1, TurnIs
  <2>3. Nil \in Values
    BY AbsentIs
  <2>4. \A t \in Selectors : Resolve[t][Nil] \subseteq Nothing
    BY <2>3, NilRuns DEF Nothing
  <2>5. CASE ~IsIterator(seg)
    <3>1. \A w \in Values : rest[w] \subseteq Nothing
      BY <1>2, <2>1, <2>5, TailNames
    <3>2. o = ResolutionError \/ o = Panic \/ \E x : o = Value(x)
      <4>1. v \in Nest(Values) /\ seg \in Segments /\ ~IsIterator(seg) /\ o \in Step(seg, v, rest)
        BY <2>1, <2>2, <2>5, ValuesAreNested
      <4> QED  BY <4>1, StepYields
    <3>3. \A x : o = Value(x) => x \in Values
      BY <2>1, <2>2, StepResult
    <3> QED  BY <2>2, <3>1, <3>2, <3>3, OutcomeParts DEF Nothing
  <2>6. CASE IsIterator(seg)
    <3>1. Tail(sel) # <<>> /\ Head(Tail(sel))[1] = "field"
      BY <1>2, <2>6, TailNames
    <3>2. o \in ResolveIterator(seg, v, rest)
      BY <2>2, <2>6, StepIs DEF IsIterator
    <3>3. CASE ~IsCollection(v)
      <4>1. o = Missing(seg)
        BY <3>2, <3>3 DEF ResolveIterator
      <4>2. rest[Nil] \subseteq Nothing
        BY <2>1, <2>4
      <4> QED  BY <2>2, <4>1, <4>2, MissingIs, OutcomeParts DEF Nothing
    <3>4. CASE IsCollection(v)
      <4>0. /\ v \in Nest(Values) /\ IsCollection(v) /\ o \in ResolveIterator(seg, v, rest)
        BY <3>2, <3>4, ValuesAreNested
      <4>3. PICK items, results :
               /\ items \in Enumerated(v)
               /\ ResultsFor(items, rest, results)
               /\ \/ \E k \in DOMAIN items : Status(results[k]) # "value" /\ o = results[k]
                  \/ /\ \A k \in DOMAIN items : Status(results[k]) = "value"
                     /\ o = Value(ListOf(Collected(results)))
        BY <4>0, IteratorIs
      <4>4. items \in Seq(Values) /\ DOMAIN items = 1 .. Len(items)
        BY <4>3, <4>0, ItemsOf
      <4>1. CASE \E k \in DOMAIN items : Status(results[k]) # "value" /\ o = results[k]
        <5>1. PICK w \in Values : Status(o) # "value" /\ o \in rest[w]
          BY <4>1, <4>3, <4>4 DEF ResultsFor
        <5>2. rest[w] \subseteq Outs(Values)
          BY <2>1, LevelsOfValues DEF Resolvers
        <5>3. o \in {ResolutionError, Panic}
          BY <5>1, <5>2, OutsElim
        <5> QED  BY <2>2, <5>3, OutcomeParts DEF Nothing
      <4>2. CASE o = Value(ListOf(Collected(results)))
        <5> DEFINE l == ListOf(Collected(results))
                   t == Tail(sel)
        <5>1. l \in Values
          BY <2>1, <2>2, <4>2, StepResult
        <5>2. Kind(l) = "list"
          <6>1. Kind(NilSlice) = "list"
            BY NilSliceValue
          <6>2. ASSUME NEW s PROVE Kind(List(AnyType, s)) = "list"
            BY DEF Kind, List, AnyType
          <6> QED  BY <6>1, <6>2 DEF ListOf
        <5>0. o = Value(l)
          BY <4>2
        <5> HIDE DEF l
        <5>3. r \in rest[l]
          BY <2>2, <5>0, OutcomeParts
        <5>4. t \in Selectors /\ t # <<>> /\ Head(t)[1] = "field"
          BY <2>1, <3>1
        <5> DEFINE more == Resolve[Tail(t)]
        <5>5. r \in Turn(t, l, more)
          BY <5>1, <5>3, <5>4, ResolveUnfolds
        <5>8. Tail(t) \in Selectors
          BY <5>4, SelectorParts
        <5>9. more[Nil] \subseteq Nothing
          BY <2>4, <5>8
        <5> HIDE DEF more, t
        <5>6. PICK p \in Step(Head(t), l, more) :
                 \/ Status(p) = "value" /\ r \in more[Result(p)]
                 \/ Status(p) # "value" /\ r = p
          BY <5>5, TurnIs
        <5>7. p = Missing(Head(t))
          <6>1. Step(Head(t), l, more) = {ResolveField(Head(t), l)}
            BY <5>4, StepIs
          <6>2. ResolveField(Head(t), l) = Missing(Head(t))
            BY <5>2 DEF ResolveField
          <6> QED  BY <5>6, <6>1, <6>2
        <5> QED  BY <5>6, <5>7, <5>9, MissingIs, OutcomeParts DEF Nothing
      <4> QED  BY <4>1, <4>2, <4>3
    <3> QED  BY <3>3, <3>4
  <2> QED  BY <2>5, <2>6
<1> HIDE DEF T
<1>3. Selectors \subseteq T
  BY <1>1, <1>2, SelectorInduction
<1> QED  BY <1>3 DEF T

-----------------------------------------------------------------------------
(***************************************************************************)
(* Values without Go types.                                                *)
(***************************************************************************)
\* A value with the values g gives for its parts.
Bared(v, g) ==
    CASE Kind(v) = "list" /\ ~IsBytes(v) ->
            <<<<"list">>, [k \in DOMAIN Data(v) |-> g[Data(v)[k]]]>>
      [] Kind(v) = "map" -> MapOf([k \in Places(v) |-> g[Data(v)[k]]])
      [] OTHER -> v

\* A list that is not bytes, and what baring leaves alone.
Listed(v) == Kind(v) = "list" /\ ~IsBytes(v)
Untouched(v) == ~Listed(v) /\ Kind(v) # "map"

\* Bared, by the sort of the value.
LEMMA BaredIs ==
    ASSUME NEW v, NEW g
    PROVE  /\ Listed(v) =>
                 Bared(v, g) = <<<<"list">>, [k \in DOMAIN Data(v) |-> g[Data(v)[k]]]>>
           /\ Kind(v) = "map" =>
                 Bared(v, g) = <<<<"map">>, [k \in Field |->
                                   IF Data(v)[k] # None THEN g[Data(v)[k]] ELSE None]>>
           /\ Untouched(v) => Bared(v, g) = v
           /\ Kind(Bared(v, g)) = Kind(v)
           /\ IsBytes(Bared(v, g)) <=> IsBytes(v)
<1>1. CASE Listed(v)
  <2>1. Bared(v, g) = <<<<"list">>, [k \in DOMAIN Data(v) |-> g[Data(v)[k]]]>>
    BY <1>1 DEF Bared, Listed
  <2>2. <<"list">> # <<"list", "byte">>
    OBVIOUS
  <2>3. ~IsBytes(Bared(v, g)) /\ Kind(Bared(v, g)) = "list"
    BY <2>1, <2>2, ListParts DEF IsBytes
  <2> QED  BY <1>1, <2>1, <2>3 DEF Listed, Untouched
<1>2. CASE Kind(v) = "map"
  <2> DEFINE p == [k \in Places(v) |-> g[Data(v)[k]]]
             f == [k \in Field |-> IF k \in DOMAIN p THEN p[k] ELSE None]
             h == [k \in Field |-> IF Data(v)[k] # None THEN g[Data(v)[k]] ELSE None]
  <2>1. Bared(v, g) = <<<<"map">>, f>>
    BY <1>2 DEF Bared, MapOf
  <2>2. Places(v) = {k \in Field : Data(v)[k] # None}
    BY <1>2 DEF Places
  <2>3. f = h
    BY <2>2
  <2> HIDE DEF f, h
  <2>4. Bared(v, g) = <<<<"map">>, h>>
    BY <2>1, <2>3
  <2>5. ~IsBytes(v) /\ ~Listed(v)
    BY <1>2 DEF IsBytes, TypeOf, Kind, Listed
  <2>6. ~IsBytes(Bared(v, g)) /\ Kind(Bared(v, g)) = "map"
    BY <2>4, ListParts DEF IsBytes
  <2> QED  BY <1>2, <2>4, <2>5, <2>6 DEF h, Untouched
<1>3. CASE Untouched(v)
  BY <1>3 DEF Bared, Untouched, Listed
<1> QED  BY <1>1, <1>2, <1>3 DEF Untouched

\* A list may lack the type of its items.
LEMMA BareList == <<"list">> \in ListTypes
  BY DEF ListTypes, TypeNames

\* A bared value is a value.
LEMMA BaredType ==
    ASSUME NEW W, NEW v \in Nest(W), NEW g, \A w \in W : g[w] \in W
    PROVE  Bared(v, g) \in Nest(W)
<1>1. CASE Listed(v)
  <2> DEFINE s == Data(v)
             t == [k \in DOMAIN s |-> g[s[k]]]
  <2>1. s \in Seq(W)
    BY <1>1, NestElim DEF Listed
  <2> HIDE DEF s
  <2>2. t \in Seq(W)
    BY <2>1
  <2> HIDE DEF t
  <2>3. <<<<"list">>, t>> \in Nest(W)
    BY <2>2, BareList, NestIntro
  <2> QED  BY <1>1, <2>3, BaredIs DEF s, t
<1>2. CASE Kind(v) = "map"
  <2> DEFINE h == [k \in Field |-> IF Data(v)[k] # None THEN g[Data(v)[k]] ELSE None]
  <2>1. Data(v) \in [Field -> W \cup {None}]
    BY <1>2, NestElim
  <2>2. h \in [Field -> W \cup {None}]
    BY <2>1
  <2> HIDE DEF h
  <2>3. <<<<"map">>, h>> \in Nest(W)
    BY <2>2, NestIntro
  <2> QED  BY <1>2, <2>3, BaredIs DEF h
<1>3. CASE Untouched(v)
  BY <1>3, BaredIs
<1> QED  BY <1>1, <1>2, <1>3 DEF Untouched

\* Baring only looks at the parts.
LEMMA BaredSame ==
    ASSUME NEW v, NEW g, NEW h, \A k \in Places(v) : g[Data(v)[k]] = h[Data(v)[k]]
    PROVE  Bared(v, g) = Bared(v, h)
<1>1. CASE Listed(v)
  <2>1. Places(v) = DOMAIN Data(v)
    BY <1>1 DEF Places, Listed
  <2>2. [k \in DOMAIN Data(v) |-> g[Data(v)[k]]] = [k \in DOMAIN Data(v) |-> h[Data(v)[k]]]
    BY <2>1
  <2> QED  BY <1>1, <2>2, BaredIs
<1>2. CASE Kind(v) = "map"
  <2>1. [k \in Places(v) |-> g[Data(v)[k]]] = [k \in Places(v) |-> h[Data(v)[k]]]
    OBVIOUS
  <2> QED  BY <1>2, <2>1, Zenon DEF Bared
<1>3. CASE Untouched(v)
  BY <1>3, BaredIs
<1> QED  BY <1>1, <1>2, <1>3 DEF Untouched

\* Plain is what its definition says.
LEMMA PlainUnfolds == \A v \in Values : Plain[v] = Bared(v, Plain)
<1> DEFINE R == Values
           G == [v \in Values |-> [g \in [Values -> R] |->
                    IF Bared(v, g) \in Values THEN Bared(v, g) ELSE v]]
<1>1. \A v \in Values : \A g \in [Values -> R] :
          G[v][g] = IF Bared(v, g) \in Values THEN Bared(v, g) ELSE v
  OBVIOUS
<1>2. Yields(Values, R, G)
  BY DEF Yields
<1>3. LooksInside(R, G)
  <2> SUFFICES ASSUME NEW v \in Values, NEW g \in [Values -> R], NEW h \in [Values -> R],
                      \A k \in Places(v) : g[Data(v)[k]] = h[Data(v)[k]]
               PROVE  G[v][g] = G[v][h]
    BY Zenon DEF LooksInside
  <2>1. Bared(v, g) = Bared(v, h)
    BY BaredSame
  <2> HIDE DEF G
  <2> QED  BY <1>1, <2>1
<1> HIDE DEF G
<1>4. CASE Values = {}
  BY <1>4
<1>5. CASE Values # {}
  <2>1. PICK f : FixedPoint(Values, R, G, f)
    <3> HIDE DEF R
    <3> QED  BY <1>2, <1>3, <1>5, ValueRecursion DEF R
  <2>2. /\ f \in [Values -> Values]
        /\ \A v \in Values : f[v] = IF Bared(v, f) \in Values THEN Bared(v, f) ELSE v
    BY <1>1, <2>1 DEF FixedPoint
  <2> DEFINE T == {n \in 0 .. Depth :
                      \A v \in ValuesTo[n] : f[v] \in ValuesTo[n] /\ f[v] = Bared(v, f)}
  <2>3. 0 \in T
    BY ValuesToStep, SelectorAssumption
  <2>4. ASSUME NEW n \in 0 .. Depth, n \in T, n < Depth PROVE n + 1 \in T
    <3> DEFINE W == ValuesTo[n]
    <3>1. n + 1 \in 0 .. Depth /\ n + 1 # 0 /\ (n + 1) - 1 = n
      BY <2>4, SelectorAssumption
    <3>2. ValuesTo[n + 1] = Nest(W) /\ Nest(W) \subseteq Values
      BY <3>1, ValuesToStep, LevelsOfValues
    <3>3. \A w \in W : f[w] \in W
      BY <2>4
    <3> HIDE DEF W
    <3>4. ASSUME NEW v \in Nest(W) PROVE f[v] \in Nest(W) /\ f[v] = Bared(v, f)
      BY <2>2, <3>2, <3>3, BaredType
    <3> QED  BY <3>1, <3>2, <3>4
  <2> HIDE DEF T
  <2>5. \A n \in 0 .. Depth : n \in T
    BY <2>3, <2>4, UpTo, SelectorAssumption
  <2>6. \A v \in Values : f[v] = Bared(v, f)
    BY <2>5, SelectorAssumption DEF T, Values
  <2>7. f = [v \in Values |-> Bared(v, f)]
    BY <2>2, <2>6
  <2>8. \E h : h = [v \in Values |-> Bared(v, h)]
    BY <2>7, Zenon
  <2>9. Plain = [v \in Values |-> Bared(v, Plain)]
    BY <2>8, Zenon DEF Plain, Bared
  <2> QED  BY <2>9, Zenon
<1> QED  BY <1>4, <1>5

\* Plain only looks at the data, and at whether it is bytes.
LEMMA PlainSame ==
    ASSUME NEW v \in Values, NEW w \in Values, Kind(v) = Kind(w), Data(v) = Data(w),
           IsBytes(v) <=> IsBytes(w)
    PROVE  Plain[v] = Plain[w]
<1>1. Plain[v] = Bared(v, Plain) /\ Plain[w] = Bared(w, Plain)
  BY PlainUnfolds
<1>2. CASE Listed(v)
  <2> DEFINE ps(s) == [k \in DOMAIN s |-> Plain[s[k]]]
  <2>0. Listed(w)
    BY <1>2 DEF Listed
  <2>1. Bared(v, Plain) = <<<<"list">>, ps(Data(v))>> /\ Bared(w, Plain) = <<<<"list">>, ps(Data(w))>>
    BY <1>2, <2>0, BaredIs
  <2> HIDE DEF ps
  <2> QED  BY <1>1, <2>1
<1>3. CASE Kind(v) = "map"
  <2> DEFINE ps(s) == [k \in Field |-> IF s[k] # None THEN Plain[s[k]] ELSE None]
  <2>1. Bared(v, Plain) = <<<<"map">>, ps(Data(v))>> /\ Bared(w, Plain) = <<<<"map">>, ps(Data(w))>>
    BY <1>3, BaredIs
  <2> HIDE DEF ps
  <2> QED  BY <1>1, <2>1
<1>4. CASE Untouched(v)
  <2>1. v \in Nest(Values) /\ w \in Nest(Values)
    BY ValuesAreNested
  <2>2. CASE IsBytes(v)
    <3>1. v = <<TypeOf(v), Data(v)>> /\ w = <<TypeOf(w), Data(w)>>
      BY <2>1, NestElim
    <3> QED  BY <2>2, <3>1 DEF IsBytes
  <2>3. CASE ~IsBytes(v)
    <3>1. Kind(v) \notin {"list", "map"}
      BY <1>4, <2>3 DEF Untouched, Listed
    <3>2. v = w
      BY <2>1, <3>1, NestElim
    <3> QED  BY <3>2
  <2> QED  BY <2>2, <2>3
<1> QED  BY <1>2, <1>3, <1>4 DEF Untouched

\* Decoded values differ only if they do without their types.
LEMMA PlainCanonic ==
    \A v \in Values : \A w \in Values :
       v \in Canonic /\ w \in Canonic /\ Plain[v] = Plain[w] => v = w
<1> DEFINE T == {v \in Values : \A w \in Values :
                    v \in Canonic /\ w \in Canonic /\ Plain[v] = Plain[w] => v = w}
<1>1. ASSUME NEW v \in Values, \A k \in Places(v) : Data(v)[k] \in T PROVE v \in T
  <2> SUFFICES ASSUME NEW w \in Values, v \in Canonic, w \in Canonic, Plain[v] = Plain[w]
               PROVE  v = w
    OBVIOUS
  <2>1. Bared(v, Plain) = Bared(w, Plain)
    BY PlainUnfolds
  <2>2. Kind(v) = Kind(w) /\ (IsBytes(v) <=> IsBytes(w))
    BY <2>1, BaredIs
  <2>3. v \in Nest(Values) /\ w \in Nest(Values)
    BY ValuesAreNested
  <2>4. \A k \in Places(v) : Data(v)[k] \in Canonic /\ Data(v)[k] \in T
    BY <1>1, CanonicSet DEF PartsIn
  <2>5. \A k \in Places(w) : Data(w)[k] \in Canonic /\ Data(w)[k] \in Values
    BY CanonicSet DEF PartsIn
  <2>6. ASSUME NEW k \in Places(v), k \in Places(w), Plain[Data(v)[k]] = Plain[Data(w)[k]]
        PROVE  Data(v)[k] = Data(w)[k]
    BY <2>4, <2>5, <2>6
  <2> HIDE DEF T
  <2>7. CASE Listed(v)
    <3>0. Listed(w) /\ Kind(v) = "list" /\ Kind(w) = "list" /\ ~IsBytes(v) /\ ~IsBytes(w)
      BY <2>2, <2>7 DEF Listed
    <3> DEFINE s == Data(v)
               t == Data(w)
               ps == [k \in DOMAIN s |-> Plain[s[k]]]
               pt == [k \in DOMAIN t |-> Plain[t[k]]]
    <3>1. s \in Seq(Values) /\ t \in Seq(Values)
      BY <3>0, ValuesAreNested
    <3>2. ps = pt
      BY <2>1, <2>7, <3>0, BaredIs
    <3>3. DOMAIN s = DOMAIN t /\ \A k \in DOMAIN s : Plain[s[k]] = Plain[t[k]]
      <4>1. DOMAIN ps = DOMAIN s /\ DOMAIN pt = DOMAIN t
        OBVIOUS
      <4>2. \A k \in DOMAIN s : ps[k] = Plain[s[k]]
        OBVIOUS
      <4>3. \A k \in DOMAIN t : pt[k] = Plain[t[k]]
        OBVIOUS
      <4> HIDE DEF ps, pt
      <4> QED  BY <3>2, <4>1, <4>2, <4>3
    <3>4. Places(v) = DOMAIN s /\ Places(w) = DOMAIN t
      BY <3>0 DEF Places
    <3>5. \A k \in DOMAIN s : s[k] = t[k]
      BY <2>6, <3>3, <3>4
    <3>6. Len(s) \in Nat /\ DOMAIN s = 1 .. Len(s) /\ Len(t) \in Nat /\ DOMAIN t = 1 .. Len(t)
      BY <3>1
    <3>7. Len(s) = Len(t)
      BY <3>1, <3>3, LenProperties
    <3> HIDE DEF s, t
    <3>8. s = t
      BY <3>1, <3>5, <3>6, <3>7, SeqEqual
    <3>9. Typed(List(AnyType, s)) = Value(v) /\ Typed(List(AnyType, t)) = Value(w)
      <4>1. IsBytes(Octets(<<>>))
        BY DEF Octets, IsBytes, TypeOf
      <4>2. TypedOrBytes(v) /\ TypedOrBytes(w)
        BY <3>0, AsDecodedUnfolds DEF Canonic
      <4>3. v # Octets(<<>>) /\ w # Octets(<<>>)
        BY <3>0, <4>1
      <4> QED  BY <4>2, <4>3 DEF TypedOrBytes, s, t
    <3> QED  BY <3>8, <3>9, OutcomeParts
  <2>8. CASE Kind(v) = "map"
    <3> DEFINE s == Data(v)
               t == Data(w)
               ps == [k \in Field |-> IF s[k] # None THEN Plain[s[k]] ELSE None]
               pt == [k \in Field |-> IF t[k] # None THEN Plain[t[k]] ELSE None]
    <3>1. /\ s \in [Field -> Values \cup {None}] /\ t \in [Field -> Values \cup {None}]
          /\ v = <<<<"map">>, s>> /\ w = <<<<"map">>, t>>
      <4>1. Kind(v) = "map" /\ Kind(w) = "map"
        BY <2>2, <2>8
      <4>2. s \in [Field -> Values \cup {None}] /\ v = <<<<"map">>, s>>
        BY <2>3, <4>1, NestElim, Zenon
      <4>3. t \in [Field -> Values \cup {None}] /\ w = <<<<"map">>, t>>
        BY <2>3, <4>1, NestElim, Zenon
      <4> QED  BY <4>2, <4>3
    <3>2. ps = pt
      BY <2>1, <2>2, <2>8, BaredIs
    <3>3. Places(v) = {k \in Field : s[k] # None} /\ Places(w) = {k \in Field : t[k] # None}
      BY <2>2, <2>8 DEF Places
    <3>4. \A x \in Values : Plain[x] # None
      <4> SUFFICES ASSUME NEW x \in Values PROVE Kind(Plain[x]) # "none"
        BY DEF Kind, None
      <4>1. Kind(Plain[x]) = Kind(x)
        BY PlainUnfolds, BaredIs
      <4> QED  BY <4>1, ValuesAreNested, NestElim
    <3>5. ASSUME NEW k \in Field PROVE s[k] = t[k]
      <4>1. ps[k] = pt[k]
        BY <3>2
      <4>2. ps[k] = (IF s[k] # None THEN Plain[s[k]] ELSE None)
        OBVIOUS
      <4>3. pt[k] = (IF t[k] # None THEN Plain[t[k]] ELSE None)
        OBVIOUS
      <4>4. s[k] # None => s[k] \in Values
        BY <3>1
      <4>5. t[k] # None => t[k] \in Values
        BY <3>1
      <4> HIDE DEF ps, pt
      <4>6. CASE s[k] # None
        <5>1. t[k] # None /\ Plain[s[k]] = Plain[t[k]]
          BY <3>4, <4>1, <4>2, <4>3, <4>4, <4>5, <4>6
        <5> QED  BY <2>6, <3>3, <4>6, <5>1
      <4>7. CASE s[k] = None
        BY <3>4, <4>1, <4>2, <4>3, <4>5, <4>7
      <4> QED  BY <4>6, <4>7
    <3> HIDE DEF s, t
    <3>6. s = t
      BY <3>1, <3>5
    <3> QED  BY <3>1, <3>6
  <2>9. CASE Untouched(v)
    <3>1. Untouched(w)
      BY <2>2, <2>9 DEF Untouched, Listed
    <3> QED  BY <2>1, <2>9, <3>1, BaredIs
  <2> QED  BY <2>7, <2>8, <2>9 DEF Untouched
<1> HIDE DEF T
<1>2. Values \subseteq T
  BY <1>1, ValueInduction
<1> QED  BY <1>2 DEF T

-----------------------------------------------------------------------------
(***************************************************************************)
(* What selectors make of decoded values.                                  *)
(***************************************************************************)
\* What iterating and cutting make of decoded values, before and after the
\* last conversion.
Fit ==
    {v \in Sound :
        /\ \A k \in Places(v) : AsDecoded[Data(v)[k]]
        /\ Kind(v) = "list" /\ TypeOf(v) # <<"list">> \o AnyType /\ Data(v) # <<>> =>
              OneType(Data(v))}

Settled == Canonic \cup {v \in Values : Kind(v) = "list" /\ Data(v) = <<>>}

FitOutcomes == {Value(x) : x \in Settled} \cup {ResolutionError, Panic}

\* A decoded list has items of one type or is untyped.
LEMMA OneTypeOf ==
    ASSUME NEW v \in Values, Kind(v) = "list", Typed(List(AnyType, Data(v))) = Value(v)
    PROVE  OneType(Data(v)) \/ v = List(AnyType, Data(v))
<1> DEFINE s == Data(v)
           l == List(AnyType, s)
<1>1. s \in Seq(Values) /\ Values \subseteq Nest(Values)
  BY LevelsOfValues, ValuesAreNested
<1>2. Kind(l) = "list" /\ Data(l) = s
  BY <1>1, ListOfAny
<1> HIDE DEF l
<1>3. CASE ~OneType(s)
  <2>1. Typed(l) = Value(l)
    BY <1>1, <1>2, <1>3, TypedList, OutcomeParts DEF l
  <2> QED  BY <2>1, OutcomeParts DEF l
<1> QED  BY <1>3

\* Decoded values and settled ones are fit.
LEMMA SettledFit == Canonic \subseteq Fit /\ Settled \subseteq Fit
<1>1. ASSUME NEW v \in Canonic PROVE v \in Fit
  <2>1. /\ v \in Values /\ \A k \in Places(v) : AsDecoded[Data(v)[k]]
        /\ Kind(v) = "list" => TypedOrBytes(v)
    BY AsDecodedUnfolds DEF Canonic
  <2>2. ASSUME Kind(v) = "list", TypeOf(v) # <<"list">> \o AnyType, Data(v) # <<>>
        PROVE  OneType(Data(v))
    <3>1. Data(v) \in Seq(Values)
      BY <2>1, <2>2, ValuesAreNested
    <3>2. TypeOf(List(AnyType, Data(v))) = <<"list">> \o AnyType
      BY <3>1, ListOfAny
    <3>3. v # Octets(<<>>)
      BY <2>2 DEF Octets, Data
    <3> QED  BY <2>1, <2>2, <3>2, <3>3, OneTypeOf DEF TypedOrBytes
  <2> QED  BY <2>1, <2>2, CanonicSound DEF Fit
<1>2. ASSUME NEW v \in Values, Kind(v) = "list", Data(v) = <<>> PROVE v \in Fit
  <2>1. Places(v) = {}
    BY <1>2 DEF Places
  <2>2. v \in Sound
    BY <2>1, BytewiseUnfolds DEF Sound
  <2> QED  BY <1>2, <2>1, <2>2 DEF Fit
<1> QED  BY <1>1, <1>2 DEF Settled

\* The parts of settled values were decoded.
LEMMA SettledParts ==
    ASSUME NEW v \in Settled
    PROVE  v \in Values /\ \A k \in Places(v) : Data(v)[k] \in Canonic
<1>1. v \in Fit /\ v \in Values
  BY SettledFit DEF Fit, Sound
<1> QED  BY <1>1, ValueParts DEF Fit, Canonic

\* The parts of fit values are fit.
LEMMA FitSet == PartsIn(Fit) /\ ScalarsIn(Fit)
<1>1. ASSUME NEW v \in Fit, NEW k \in Places(v) PROVE Data(v)[k] \in Fit
  BY SettledFit, ValueParts DEF Fit, Canonic, Sound
<1>2. ASSUME NEW v \in Values, ~IsCollection(v), Kind(v) # "byte" PROVE v \in Fit
  BY <1>2, ValuesAreNested, SoundSet DEF Fit, IsCollection, ScalarsIn
<1> QED  BY <1>1, <1>2 DEF PartsIn, ScalarsIn, Fit, Sound

\* The conversion settles a fit value.
LEMMA FitTyped ==
    ASSUME NEW v \in Fit
    PROVE  Typed(v) \in FitOutcomes
<1>0. /\ v \in Sound /\ v \in Values
      /\ \A k \in Places(v) : AsDecoded[Data(v)[k]] /\ OnlyInBytes(v, k)
  BY BytewiseUnfolds DEF Fit, Sound
<1>1. CASE Typed(v) = Panic
  BY <1>1 DEF FitOutcomes
<1>2. CASE \E x \in Values : Typed(v) = Value(x)
  <2>0. PICK x \in Values : Typed(v) = Value(x)
    BY <1>2
  <2>1. Kind(x) = Kind(v) /\ Data(x) = Data(v) /\ (IsBytes(x) <=> IsBytes(v))
    BY <1>0, <2>0, TypedBytes
  <2>2. Places(x) = Places(v)
    BY <2>1, SamePlaces
  <2>3. \A k \in Places(x) : OnlyInBytes(x, k) /\ AsDecoded[Data(x)[k]]
    BY <1>0, <2>1, <2>2 DEF OnlyInBytes
  <2>4. CASE Kind(v) # "list"
    <3>1. x \in Canonic
      BY <2>1, <2>3, <2>4, AsDecodedUnfolds DEF Canonic
    <3> QED  BY <2>0, <3>1 DEF FitOutcomes, Settled
  <2>5. CASE Kind(v) = "list" /\ Data(v) = <<>>
    <3>1. x \in Settled
      BY <2>1, <2>5 DEF Settled
    <3> QED  BY <2>0, <3>1 DEF FitOutcomes
  <2>6. CASE Kind(v) = "list" /\ Data(v) # <<>>
    <3> DEFINE s == Data(v)
               l == List(AnyType, s)
    <3>1. s \in Seq(Values) /\ Values \subseteq Nest(Values)
      BY <1>0, <2>6, LevelsOfValues, ValuesAreNested
    <3>2. Kind(l) = "list" /\ Data(l) = s
      BY <3>1, ListOfAny
    <3>3. Typed(l) = Value(x)
      <4>1. CASE OneType(s)
        <5>1. Typed(v) = Value(List(TypeOf(s[1]), s))
          BY <2>6, <3>1, <4>1, TypedList
        <5>2. Typed(l) = Value(List(TypeOf(s[1]), s))
          <6> HIDE DEF l
          <6> QED  BY <3>1, <3>2, <4>1, TypedList
        <5> QED  BY <2>0, <5>1, <5>2
      <4>2. CASE ~OneType(s)
        <5>1. TypeOf(v) = <<"list">> \o AnyType
          BY <2>6, <4>2 DEF Fit
        <5>2. v = <<TypeOf(v), Data(v)>>
          BY <1>0, ValuesAreNested, NestElim
        <5>3. v = l
          BY <5>1, <5>2, Zenon DEF List
        <5> QED  BY <2>0, <5>3
      <4> QED  BY <4>1, <4>2
    <3>4. TypedOrBytes(x)
      BY <2>1, <3>3 DEF TypedOrBytes
    <3>5. x \in Canonic
      BY <2>3, <3>4, AsDecodedUnfolds DEF Canonic
    <3> QED  BY <2>0, <3>5 DEF FitOutcomes, Settled
  <2> QED  BY <2>4, <2>5, <2>6
<1> QED  BY <1>0, <1>1, <1>2, TypedValue

\* A cut of a fit value is fit.
LEMMA FitCut ==
    ASSUME NEW v \in Fit, NEW seg, NEW x \in Values, IsCut(seg, v, x)
    PROVE  x \in Fit
<1> DEFINE s == Data(v)
           t == Data(x)
<1>1. v \in Sound /\ v \in Values /\ \A p \in Places(v) : AsDecoded[s[p]]
  BY DEF Fit, Sound
<1>2. /\ TypeOf(x) = TypeOf(v) /\ Kind(x) = "list" /\ Kind(v) = "list"
      /\ \A k \in Places(x) : \E p \in Places(v) : t[k] = s[p]
  BY <1>1, CutParts
<1>3. Places(x) = 1 .. Len(t) /\ Places(v) = 1 .. Len(s) /\ t \in Seq(Values) /\ s \in Seq(Values)
  BY <1>1, <1>2, ValuesAreNested
<1>4. x \in Sound
  BY <1>1, SoundCut
<1> HIDE DEF s, t
<1>5. \A k \in Places(x) : AsDecoded[t[k]]
  BY <1>1, <1>2
<1>6. ASSUME TypeOf(x) # <<"list">> \o AnyType, t # <<>> PROVE OneType(t)
  <2>1. 1 \in Places(x)
    BY <1>3, <1>6, EmptySeq
  <2>2. s # <<>>
    <3>1. PICK p \in 1 .. Len(s) : t[1] = s[p]
      BY <1>2, <1>3, <2>1
    <3>2. Len(s) # 0
      BY <3>1
    <3> QED  BY <3>2, EmptySeq
  <2>3. OneType(s)
    BY <1>2, <1>6, <2>2 DEF Fit, s
  <2>4. \A p \in Places(v) : s[p] # Nil /\ TypeOf(s[p]) = TypeOf(s[1])
    BY <1>3, <2>3 DEF OneType
  <2>5. \A k \in Places(x) : t[k] # Nil /\ TypeOf(t[k]) = TypeOf(s[1])
    BY <1>2, <2>4
  <2>6. DOMAIN t = Places(x)
    BY <1>3
  <2> QED  BY <1>6, <2>1, <2>5, <2>6 DEF OneType
<1> QED  BY <1>4, <1>5, <1>6 DEF Fit, t

\* Decoded values are spliced from settled ones.
LEMMA SettledSpliced ==
    ASSUME NEW r \in Settled
    PROVE  Spliced(r) \in Seq(Canonic)
<1>0. r \in Values /\ \A k \in Places(r) : Data(r)[k] \in Canonic
  BY SettledParts
<1>1. CASE Kind(r) = "list"
  <2> DEFINE s == Data(r)
  <2>1. s \in Seq(Values) /\ Places(r) = 1 .. Len(s)
    BY <1>0, <1>1, ValuesAreNested
  <2>2. \A k \in 1 .. Len(s) : s[k] \in Canonic
    BY <1>0, <2>1
  <2> HIDE DEF s
  <2>3. s \in Seq(Canonic)
    BY <2>1, <2>2
  <2> QED  BY <1>1, <2>3 DEF Spliced, s
<1>2. CASE Kind(r) # "list"
  <2>1. r \in Canonic
    BY <1>2 DEF Settled
  <2> QED  BY <1>2, <2>1, OneItem, EmptySeq DEF Spliced
<1> QED  BY <1>1, <1>2

\* Decoded values without bytes, and fit ones.
CanonicFree == Canonic \cap Free
FitFree == Fit \cap Free

\* The same of values without bytes.
LEMMA FreeSettled ==
    ASSUME NEW r \in Settled, r \in Free
    PROVE  Spliced(r) \in Seq(CanonicFree)
<1> DEFINE s == Spliced(r)
<1>1. s \in Seq(Canonic) /\ s \in Seq(Free)
  BY SettledSpliced, FreeSpliced
<1> HIDE DEF s
<1>2. \A k \in 1 .. Len(s) : s[k] \in CanonicFree
  BY <1>1 DEF CanonicFree
<1> HIDE DEF CanonicFree
<1>3. s \in Seq(CanonicFree)
  BY <1>1, <1>2
<1> QED  BY <1>3 DEF s

\* A list of decoded values without bytes is fit.
LEMMA FitList ==
    ASSUME NEW many \in Seq(CanonicFree), ListOf(many) \in Values
    PROVE  ListOf(many) \in FitFree
<1> DEFINE l == ListOf(many)
<1>1. Kind(l) = "list" /\ Data(l) = many /\ l \in Values /\ ~IsBytes(l)
  BY ListOfType, ListOfNoBytes
<1>2. many # <<>> => TypeOf(l) = <<"list">> \o AnyType
  BY ListOfAny DEF ListOf
<1> HIDE DEF l
<1>3. \A k \in Places(l) : Data(l)[k] \in CanonicFree
  <2>1. Places(l) = DOMAIN many
    BY <1>1 DEF Places
  <2> HIDE DEF CanonicFree
  <2>2. \A k \in DOMAIN many : many[k] \in CanonicFree
    OBVIOUS
  <2> QED  BY <1>1, <2>1, <2>2
<1>4. \A k \in Places(l) : AsDecoded[Data(l)[k]] /\ ~HoldsBytes[Data(l)[k]]
  BY <1>3 DEF CanonicFree, Canonic, Free
<1>5. l \in Free
  BY <1>1, <1>4, HoldsBytesUnfolds DEF Free
<1> QED  BY <1>1, <1>2, <1>4, <1>5, FreeSound DEF Fit, FitFree, l

\* Fit values without bytes are closed under what selectors do.
LEMMA FitFreeSet == PartsIn(FitFree) /\ ScalarsIn(FitFree)
  BY FitSet, FreeSet DEF PartsIn, ScalarsIn, FitFree

FitFreeOutcomes == FitOutcomes \cap FreeOutcomes

\* What a selector makes of a fit value without bytes.
LEMMA FreeFitResolves ==
    ASSUME NEW sel \in Selectors
    PROVE  \A v \in FitFree : Resolve[sel][v] \subseteq FitFreeOutcomes
<1>0. \A x \in Values : Value(x) \in FitFreeOutcomes => x \in Settled /\ x \in Free
  BY OutcomeParts DEF FitFreeOutcomes, FitOutcomes, FreeOutcomes
<1>1. TypesInto(FitFree, FitFreeOutcomes)
  <2> SUFFICES ASSUME NEW v \in FitFree PROVE Typed(v) \in FitFreeOutcomes
    BY DEF TypesInto
  <2>1. v \in Fit /\ v \in Free /\ v \in Values
    BY DEF FitFree, Free
  <2>2. Typed(v) = Panic \/ \E x : Typed(v) = Value(x)
    BY <2>1, TypedValue
  <2>3. Typed(v) \in FreeOutcomes
    BY <2>1, <2>2, TypedFree DEF FreeOutcomes
  <2> QED  BY <2>1, <2>3, FitTyped DEF FitFreeOutcomes
<1>2. StepsWithin(Segments, FitFree, FitFreeOutcomes)
  <2> SUFFICES ASSUME NEW seg \in Segments, NEW v \in FitFree, NEW rest \in Resolvers,
                      \A w \in FitFree : rest[w] \subseteq FitFreeOutcomes,
                      NEW o \in Step(seg, v, rest)
               PROVE  IF Status(o) = "value" THEN Result(o) \in FitFree ELSE o \in FitFreeOutcomes
    BY Zenon DEF StepsWithin
  <2>1. CASE o = ResolutionError \/ o = Panic
    BY <2>1, OutcomeParts DEF FitFreeOutcomes, FitOutcomes, FreeOutcomes
  <2>2. CASE \E x \in Values : o = Value(x) /\ (x \in FitFree \/ IsCut(seg, v, x))
    BY <2>2, OutcomeParts, FreeCut, FitCut DEF FitFree
  <2>3. CASE \E w \in FitFree : Status(o) # "value" /\ o \in rest[w]
    BY <2>3
  <2>4. ASSUME NEW items \in Seq(FitFree), NEW results, ResultsFor(items, rest, results),
               \A k \in DOMAIN items : Status(results[k]) = "value",
               ListOf(Collected(results)) \in Values, o = Value(ListOf(Collected(results)))
        PROVE  Status(o) = "value" /\ Result(o) \in FitFree
    <3>1. Len(items) \in Nat /\ DOMAIN results = 1 .. Len(items) /\ DOMAIN items = 1 .. Len(items)
      BY <2>4 DEF ResultsFor
    <3>2. \A k \in DOMAIN results : Spliced(Result(results[k])) \in Seq(CanonicFree)
      <4> SUFFICES ASSUME NEW k \in DOMAIN results
                   PROVE  Spliced(Result(results[k])) \in Seq(CanonicFree)
        OBVIOUS
      <4>1. items[k] \in FitFree /\ results[k] \in rest[items[k]]
        BY <2>4, <3>1 DEF ResultsFor
      <4>2. results[k] \in FitFreeOutcomes /\ Status(results[k]) = "value"
        BY <2>4, <3>1, <4>1
      <4>3. PICK x \in Free : results[k] = Value(x)
        BY <4>2, OutcomeParts DEF FitFreeOutcomes, FreeOutcomes
      <4>4. Result(results[k]) = x /\ x \in Settled /\ x \in Free
        BY <1>0, <4>2, <4>3, OutcomeParts DEF Free
      <4> QED  BY <4>4, FreeSettled
    <3>3. Collected(results) \in Seq(CanonicFree)
      BY <3>1, <3>2, CollectedFrom
    <3>4. ListOf(Collected(results)) \in FitFree
      BY <2>4, <3>3, FitList
    <3> QED  BY <2>4, <3>4, OutcomeParts
  <2>5. \/ o = ResolutionError \/ o = Panic
        \/ \E x \in Values : o = Value(x) /\ (x \in FitFree \/ IsCut(seg, v, x))
        \/ \E w \in FitFree : Status(o) # "value" /\ o \in rest[w]
        \/ \E items \in Seq(FitFree) : \E results :
              /\ ResultsFor(items, rest, results)
              /\ \A k \in DOMAIN items : Status(results[k]) = "value"
              /\ ListOf(Collected(results)) \in Values
              /\ o = Value(ListOf(Collected(results)))
    <3>0. PartsIn(FitFree) /\ ScalarsIn(FitFree) /\ v \in FitFree /\ seg \in Segments
          /\ rest \in Resolvers /\ o \in Step(seg, v, rest)
      BY FitFreeSet
    <3>1. StaysWithin(FitFree, seg, v, rest, o)
      BY <3>0, StepWithin
    <3> QED  BY <3>1 DEF StaysWithin
  <2> QED  BY <2>1, <2>2, <2>3, <2>4, <2>5, OutcomeParts
<1>3. FitFree \subseteq Values /\ \A k \in DOMAIN sel : sel[k] \in Segments
  BY DEF FitFree, Free, Selectors
<1> QED  BY <1>1, <1>2, <1>3, ResolveWithin

\* What a selector that does not iterate makes of a fit value.
LEMMA StraightFitResolves ==
    ASSUME NEW sel \in Selectors, ~Iterates(sel)
    PROVE  \A v \in Fit : Resolve[sel][v] \subseteq FitOutcomes
<1> DEFINE K == {seg \in Segments : ~IsIterator(seg)}
<1>1. TypesInto(Fit, FitOutcomes)
  BY FitTyped DEF TypesInto
<1>2. StepsWithin(K, Fit, FitOutcomes)
  <2> SUFFICES ASSUME NEW seg \in K, NEW v \in Fit, NEW rest \in Resolvers,
                      \A w \in Fit : rest[w] \subseteq FitOutcomes,
                      NEW o \in Step(seg, v, rest)
               PROVE  IF Status(o) = "value" THEN Result(o) \in Fit ELSE o \in FitOutcomes
    BY Zenon DEF StepsWithin
  <2>0. PartsIn(Fit) /\ ScalarsIn(Fit) /\ v \in Fit /\ seg \in Segments
        /\ rest \in Resolvers /\ o \in Step(seg, v, rest) /\ ~IsIterator(seg)
    BY FitSet
  <2>1. StaysWithin(Fit, seg, v, rest, o)
    BY <2>0, StepWithin
  <2>2. \/ o = ResolutionError \/ o = Panic
        \/ \E x \in Values : o = Value(x) /\ (x \in Fit \/ IsCut(seg, v, x))
    BY <2>0, <2>1 DEF StaysWithin
  <2>3. CASE o = ResolutionError \/ o = Panic
    BY <2>3, OutcomeParts DEF FitOutcomes
  <2>4. CASE \E x \in Values : o = Value(x) /\ (x \in Fit \/ IsCut(seg, v, x))
    BY <2>4, OutcomeParts, FitCut
  <2> QED  BY <2>2, <2>3, <2>4
<1>3. Fit \subseteq Values /\ \A k \in DOMAIN sel : sel[k] \in K
  BY DEF Fit, Sound, Selectors, Iterates
<1> HIDE DEF K
<1> QED  BY <1>1, <1>2, <1>3, ResolveWithin

\* What a selector makes of a decoded value was decoded, too, unless it is an
\* empty list.
LEMMA FitResolves ==
    ASSUME NEW sel \in Selectors, NEW v \in Canonic, Fits(sel, v)
    PROVE  Resolve[sel][v] \subseteq FitOutcomes
<1>0. v \in Fit /\ v \in Values
  BY SettledFit DEF Canonic
<1>1. CASE HoldsBytes[v]
  <2>1. ~Iterates(sel)
    BY <1>1 DEF Fits, Iterates, IsIterator
  <2> QED  BY <1>0, <2>1, StraightFitResolves
<1>2. CASE ~HoldsBytes[v]
  <2>1. v \in FitFree
    BY <1>0, <1>2 DEF FitFree, Free
  <2> QED  BY <2>1, FreeFitResolves DEF FitFreeOutcomes
<1> QED  BY <1>1, <1>2

-----------------------------------------------------------------------------
(***************************************************************************)
(* What statements mean.                                                   *)
(***************************************************************************)
\* What a meaning chooses from: the truth values of the parts of a connective,
\* and those of a quantifier's statement at the places of a value.
Child(s, v, holds) == [k \in DOMAIN Children(s) |-> holds[Children(s)[k]][v]]
At(s, w, holds) == [k \in Places(w) |-> holds[Arg(s)][Data(w)[k]]]

Conjunction(b) == \A k \in DOMAIN b : b[k]
Disjunction(b) == \E k \in DOMAIN b : b[k]

\* The meaning of a statement, by its sort.
LEMMA MeaningIs ==
    ASSUME NEW s, NEW v, NEW holds
    PROVE  /\ Op(s) = "not" => Meaning(s, v, holds) = {~b : b \in holds[Arg(s)][v]}
           /\ Op(s) = "and" =>
                 Meaning(s, v, holds) = {Conjunction(b) : b \in OneOfEach(Child(s, v, holds))}
           /\ Op(s) = "or" =>
                 Meaning(s, v, holds) =
                    {Arg(s) = <<>> \/ Disjunction(b) : b \in OneOfEach(Child(s, v, holds))}
           /\ Op(s) \notin Connective =>
                 Meaning(s, v, holds) =
                    UNION {Truths(s, denoted, holds) : denoted \in Denotes(Sel(s), v)}
<1>1. CASE Op(s) = "not"
  BY <1>1, Zenon DEF Meaning, Connective
<1>2. CASE Op(s) = "and"
  BY <1>2, Zenon DEF Meaning, Connective, Conjunction, Child
<1>3. CASE Op(s) = "or"
  BY <1>3, Zenon DEF Meaning, Connective, Disjunction, Child
<1>4. CASE Op(s) \notin Connective
  BY <1>4, Zenon DEF Meaning, Connective
<1> QED  BY <1>1, <1>2, <1>3, <1>4 DEF Connective

\* A comparison does not look at parts.
LEMMA SatisfiesAlike ==
    ASSUME NEW s, Op(s) \in Comparison \cup {"like"}, NEW w, NEW p, NEW q
    PROVE  Satisfies(s, w, p) = Satisfies(s, w, q)
  BY Zenon DEF Satisfies, Comparison, Ordering

\* Statements are true or false.
LEMMA SatisfiesBoolean ==
    ASSUME NEW s, Op(s) \in Operators \ Connective, NEW w, NEW parts
    PROVE  Satisfies(s, w, parts) \in BOOLEAN
  BY DEF Satisfies, Operators, Connective, Comparison, Ordering, Quantifier

\* The truth values for one reading of the selector.
LEMMA TruthsIs ==
    ASSUME NEW s, NEW denoted, NEW holds
    PROVE  /\ denoted = {} => Truths(s, denoted, holds) = {FALSE}
           /\ denoted # {} /\ Op(s) \in Quantifier =>
                 Truths(s, denoted, holds) =
                    {Satisfies(s, Sole(denoted), b) : b \in OneOfEach(At(s, Sole(denoted), holds))}
           /\ denoted # {} /\ Op(s) \in Comparison \cup {"like"} =>
                 Truths(s, denoted, holds) = {Satisfies(s, Sole(denoted), <<>>)}
<1>1. CASE denoted = {}
  BY <1>1, Zenon DEF Truths
<1>2. CASE denoted # {} /\ Op(s) \in Quantifier
  <2>1. Truths(s, denoted, holds) =
           {Satisfies(s, Sole(denoted), b) : b \in OneOfEach(At(s, Sole(denoted), holds))}
    BY <1>2, Zenon DEF Truths, At
  <2> QED  BY <1>2, <2>1 DEF Quantifier, Comparison, Ordering
<1>3. CASE denoted # {} /\ Op(s) \in Comparison \cup {"like"}
  <2> DEFINE w == Sole(denoted)
             none == [k \in {} |-> holds[Arg(s)][Data(w)[k]]]
  <2>1. Op(s) \notin Quantifier
    BY <1>3 DEF Quantifier, Comparison, Ordering
  <2>2. Truths(s, denoted, holds) = {Satisfies(s, w, b) : b \in OneOfEach(none)}
    BY <1>3, <2>1, Zenon DEF Truths
  <2>3. DOMAIN none = {}
    OBVIOUS
  <2> HIDE DEF none, w
  <2>4. \A b \in OneOfEach(none) : Satisfies(s, w, b) = Satisfies(s, w, <<>>)
    BY <1>3, SatisfiesAlike
  <2>5. OneOfEach(none) # {}
    BY <2>3, OneOfEachSome
  <2>6. {Satisfies(s, w, b) : b \in OneOfEach(none)} = {Satisfies(s, w, <<>>)}
    BY <2>4, <2>5, Zenon
  <2> QED  BY <1>3, <2>1, <2>2, <2>6 DEF w
<1> QED  BY <1>1, <1>2, <1>3

\* A meaning consists of truth values.
LEMMA MeaningBoolean ==
    ASSUME NEW s, Op(s) \in Operators, NEW v, NEW holds
    PROVE  Meaning(s, v, holds) \subseteq BOOLEAN
<1>1. CASE Op(s) = "not"
  <2>1. \A b : (~b) \in BOOLEAN
    OBVIOUS
  <2>2. Meaning(s, v, holds) = {~b : b \in holds[Arg(s)][v]}
    BY <1>1, MeaningIs
  <2> QED  BY <2>1, <2>2, Zenon
<1>2. CASE Op(s) = "and"
  <2>1. \A b : Conjunction(b) \in BOOLEAN
    BY DEF Conjunction
  <2> QED  BY <1>2, <2>1, MeaningIs
<1>3. CASE Op(s) = "or"
  <2>1. \A b : (Arg(s) = <<>> \/ Disjunction(b)) \in BOOLEAN
    OBVIOUS
  <2>2. Meaning(s, v, holds) =
           {Arg(s) = <<>> \/ Disjunction(b) : b \in OneOfEach(Child(s, v, holds))}
    BY <1>3, MeaningIs
  <2> QED  BY <2>1, <2>2, Zenon
<1>4. CASE Op(s) \notin Connective
  <2>1. ASSUME NEW denoted PROVE Truths(s, denoted, holds) \subseteq BOOLEAN
    <3>1. \A w, b : Satisfies(s, w, b) \in BOOLEAN
      BY <1>4, SatisfiesBoolean
    <3>2. Op(s) \in Quantifier \/ Op(s) \in Comparison \cup {"like"}
      BY <1>4 DEF Operators
    <3> DEFINE w == Sole(denoted)
    <3>3. CASE denoted = {}
      <4>1. Truths(s, denoted, holds) = {FALSE}
        BY <3>3, TruthsIs
      <4> QED  BY <4>1
    <3>4. CASE denoted # {} /\ Op(s) \in Quantifier
      <4>1. Truths(s, denoted, holds) = {Satisfies(s, w, b) : b \in OneOfEach(At(s, w, holds))}
        BY <3>4, TruthsIs
      <4> QED  BY <3>1, <4>1
    <3>5. CASE denoted # {} /\ Op(s) \in Comparison \cup {"like"}
      <4>1. Truths(s, denoted, holds) = {Satisfies(s, w, <<>>)}
        BY <3>5, TruthsIs
      <4> QED  BY <3>1, <4>1
    <3> QED  BY <3>2, <3>3, <3>4, <3>5
  <2>2. Meaning(s, v, holds) = UNION {Truths(s, denoted, holds) : denoted \in Denotes(Sel(s), v)}
    BY <1>4, MeaningIs
  <2> QED  BY <2>1, <2>2
<1> QED  BY <1>1, <1>2, <1>3, <1>4 DEF Connective

\* A meaning only looks at those of the parts.
LEMMA MeaningSame ==
    ASSUME NEW s \in Statements, NEW v, NEW g, NEW h, \A c \in Direct(s) : g[c] = h[c]
    PROVE  Meaning(s, v, g) = Meaning(s, v, h)
<1>1. CASE Op(s) \in Connective
  <2>1. Child(s, v, g) = Child(s, v, h)
    BY <1>1, ChildIsDirect DEF Child
  <2>2. CASE Op(s) = "not"
    <3>1. Children(s) = <<Arg(s)>>
      BY <2>2, StatementShape
    <3>2. 1 \in DOMAIN Children(s) /\ Children(s)[1] = Arg(s)
      BY <3>1
    <3>3. g[Arg(s)] = h[Arg(s)]
      BY <1>1, <3>2, ChildIsDirect
    <3>4. Meaning(s, v, g) = {~b : b \in g[Arg(s)][v]}
      BY <2>2, MeaningIs
    <3>5. Meaning(s, v, h) = {~b : b \in h[Arg(s)][v]}
      BY <2>2, MeaningIs
    <3> QED  BY <3>3, <3>4, <3>5
  <2>3. CASE Op(s) = "and"
    <3>1. Meaning(s, v, g) = {Conjunction(b) : b \in OneOfEach(Child(s, v, g))}
      BY <2>3, MeaningIs
    <3>2. Meaning(s, v, h) = {Conjunction(b) : b \in OneOfEach(Child(s, v, h))}
      BY <2>3, MeaningIs
    <3> QED  BY <2>1, <3>1, <3>2
  <2>4. CASE Op(s) = "or"
    <3>1. Meaning(s, v, g) = {Arg(s) = <<>> \/ Disjunction(b) : b \in OneOfEach(Child(s, v, g))}
      BY <2>4, MeaningIs
    <3>2. Meaning(s, v, h) = {Arg(s) = <<>> \/ Disjunction(b) : b \in OneOfEach(Child(s, v, h))}
      BY <2>4, MeaningIs
    <3> QED  BY <2>1, <3>1, <3>2
  <2> QED  BY <1>1, <2>2, <2>3, <2>4 DEF Connective
<1>2. CASE Op(s) \notin Connective
  <2>1. ASSUME NEW denoted PROVE Truths(s, denoted, g) = Truths(s, denoted, h)
    <3>1. CASE Op(s) \in Quantifier
      <4>1. g[Arg(s)] = h[Arg(s)]
        BY <3>1, BodyIsDirect
      <4> DEFINE w == Sole(denoted)
      <4>2. At(s, w, g) = At(s, w, h)
        BY <4>1 DEF At
      <4>3. CASE denoted = {}
        <5>1. Truths(s, denoted, g) = {FALSE} /\ Truths(s, denoted, h) = {FALSE}
          BY <4>3, TruthsIs
        <5> QED  BY <5>1
      <4>4. CASE denoted # {}
        <5>1. Truths(s, denoted, g) = {Satisfies(s, w, b) : b \in OneOfEach(At(s, w, g))}
          BY <3>1, <4>4, TruthsIs
        <5>2. Truths(s, denoted, h) = {Satisfies(s, w, b) : b \in OneOfEach(At(s, w, h))}
          BY <3>1, <4>4, TruthsIs
        <5> QED  BY <4>2, <5>1, <5>2
      <4> QED  BY <4>3, <4>4
    <3>2. CASE Op(s) \in Comparison \cup {"like"}
      BY <3>2, TruthsIs
    <3> QED  BY <1>2, <3>1, <3>2, StatementShape DEF Operators
  <2>2. Meaning(s, v, g) = UNION {Truths(s, denoted, g) : denoted \in Denotes(Sel(s), v)}
    BY <1>2, MeaningIs
  <2>3. Meaning(s, v, h) = UNION {Truths(s, denoted, h) : denoted \in Denotes(Sel(s), v)}
    BY <1>2, MeaningIs
  <2> QED  BY <2>1, <2>2, <2>3
<1> QED  BY <1>1, <1>2

\* Holds is what its definition says.
LEMMA HoldsUnfolds ==
    \A s \in Statements : \A v \in Values :
        Holds[s][v] \subseteq BOOLEAN /\ Holds[s][v] = Meaning(s, v, Holds)
<1> DEFINE R == [Values -> SUBSET BOOLEAN]
           H(s, g) == [v \in Values |-> Meaning(s, v, g)]
           G == [s \in Statements |-> [g \in [Statements -> R] |-> H(s, g)]]
<1>1. ASSUME NEW s \in Statements, NEW g PROVE H(s, g) \in R
  BY StatementShape, MeaningBoolean
<1>2. ASSUME NEW s \in Statements, NEW g, NEW h, \A c \in Direct(s) : g[c] = h[c]
      PROVE  H(s, g) = H(s, h)
  <2>1. \A v \in Values : Meaning(s, v, g) = Meaning(s, v, h)
    BY <1>2, MeaningSame
  <2> QED  BY <2>1
<1>3. \A s \in Statements : \A g : \A v \in Values : H(s, g)[v] = Meaning(s, v, g)
  OBVIOUS
<1>4. \E g : g = [s \in Statements |-> H(s, g)]
  <2> HIDE DEF H
  <2>1. Yields(Statements, R, G) /\ LooksBelow(R, G)
    <3> HIDE DEF R
    <3> QED  BY <1>1, <1>2 DEF Yields, LooksBelow
  <2>2. \A s \in Statements : \A g \in [Statements -> R] : G[s][g] = H(s, g)
    BY Zenon
  <2> HIDE DEF G
  <2>3. R # {}
    <3>1. [v \in Values |-> {}] \in R
      OBVIOUS
    <3> QED  BY <3>1
  <2> HIDE DEF R
  <2>4. PICK f : FixedPoint(Statements, R, G, f)
    BY <2>1, <2>3, StatementRecursion
  <2>5. f = [s \in Statements |-> H(s, f)]
    BY <2>2, <2>4 DEF FixedPoint
  <2> QED  BY <2>5
<1> DEFINE m == Holds
<1>6. m = [s \in Statements |-> H(s, m)]
  BY <1>4, Zenon DEF Holds
<1> HIDE DEF m
<1>7. \A s \in Statements : m[s] = H(s, m)
  <2> HIDE DEF H
  <2> QED  BY <1>6
<1>8. ASSUME NEW s \in Statements, NEW v \in Values
      PROVE  m[s][v] \subseteq BOOLEAN /\ m[s][v] = Meaning(s, v, m)
  <2>1. m[s][v] = Meaning(s, v, m)
    <3> HIDE DEF H
    <3> QED  BY <1>3, <1>7
  <2>2. Meaning(s, v, m) \subseteq BOOLEAN
    BY StatementShape, MeaningBoolean
  <2> QED  BY <2>1, <2>2
<1> QED  BY <1>8 DEF m

\* What a statement may mean when it compares or quantifies.
LEMMA HoldsReads ==
    ASSUME NEW s \in Statements, Op(s) \notin Connective, NEW v \in Values,
           NEW denoted \in Denotes(Sel(s), v)
    PROVE  Truths(s, denoted, Holds) \subseteq Holds[s][v]
<1>1. Holds[s][v] = Meaning(s, v, Holds)
  BY HoldsUnfolds
<1>2. Meaning(s, v, Holds) = UNION {Truths(s, d, Holds) : d \in Denotes(Sel(s), v)}
  BY MeaningIs
<1> QED  BY <1>1, <1>2

\* Every statement means something.
LEMMA HoldsSome == \A s \in Statements : \A v \in Values : Holds[s][v] # {}
<1> DEFINE T == {s \in Statements : \A v \in Values : Holds[s][v] # {}}
<1>1. ASSUME NEW s \in Statements, \A c \in Direct(s) : c \in T PROVE s \in T
  <2> SUFFICES ASSUME NEW v \in Values PROVE Holds[s][v] # {}
    OBVIOUS
  <2>0. Holds[s][v] = Meaning(s, v, Holds)
    BY HoldsUnfolds
  <2>1. \A c \in Direct(s) : \A w \in Values : Holds[c][w] # {}
    BY <1>1
  <2> HIDE DEF T
  <2>2. CASE Op(s) \in Connective
    <3>1. \A k \in DOMAIN Children(s) : Holds[Children(s)[k]][v] # {}
      BY <2>1, <2>2, ChildIsDirect
    <3>2. PICK b : b \in OneOfEach(Child(s, v, Holds))
      <4>1. \A k \in DOMAIN Child(s, v, Holds) : Child(s, v, Holds)[k] # {}
        BY <3>1 DEF Child
      <4> QED  BY <4>1, OneOfEachSome
    <3>3. CASE Op(s) = "not"
      <4>1. Children(s) = <<Arg(s)>>
        BY <3>3, StatementShape
      <4>2. 1 \in DOMAIN Children(s) /\ Children(s)[1] = Arg(s)
        BY <4>1
      <4>3. PICK c \in Holds[Arg(s)][v] : TRUE
        BY <3>1, <4>2
      <4>4. Meaning(s, v, Holds) = {~d : d \in Holds[Arg(s)][v]}
        BY <3>3, MeaningIs
      <4>5. (~c) \in Meaning(s, v, Holds)
        <5>1. c \in Holds[Arg(s)][v]
          BY <4>3
        <5> QED  BY <4>4, <5>1, SMT
      <4> QED  BY <2>0, <4>5, Zenon
    <3>4. CASE Op(s) = "and"
      <4>1. Meaning(s, v, Holds) = {Conjunction(c) : c \in OneOfEach(Child(s, v, Holds))}
        BY <3>4, MeaningIs
      <4>2. Conjunction(b) \in Meaning(s, v, Holds)
        BY <3>2, <4>1, Zenon
      <4> QED  BY <2>0, <4>2, Zenon
    <3>5. CASE Op(s) = "or"
      <4>1. Meaning(s, v, Holds) =
               {Arg(s) = <<>> \/ Disjunction(c) : c \in OneOfEach(Child(s, v, Holds))}
        BY <3>5, MeaningIs
      <4>2. (Arg(s) = <<>> \/ Disjunction(b)) \in Meaning(s, v, Holds)
        BY <3>2, <4>1, Zenon
      <4> QED  BY <2>0, <4>2, Zenon
    <3> QED  BY <2>2, <3>3, <3>4, <3>5 DEF Connective
  <2>3. CASE Op(s) \notin Connective
    <3>1. Sel(s) \in Selectors /\ (Op(s) \in Quantifier \/ Op(s) \in Comparison \cup {"like"})
      BY <2>3, StatementShape DEF Operators
    <3>2. PICK denoted \in Denotes(Sel(s), v) : TRUE
      BY <3>1, DenotesType
    <3>3. \A w \in denoted : \A p \in Places(w) : Data(w)[p] \in Values
      BY <3>1, DenotesType
    <3>4. Truths(s, denoted, Holds) \subseteq Holds[s][v]
      BY <2>3, HoldsReads
    <3> DEFINE w == Sole(denoted)
    <3>5. CASE denoted = {}
      <4>1. Truths(s, denoted, Holds) = {FALSE}
        BY <3>5, TruthsIs
      <4> QED  BY <3>4, <4>1
    <3>6. CASE denoted # {} /\ Op(s) \in Quantifier
      <4>1. w \in denoted
        BY <3>6 DEF Sole
      <4>2. \A p \in Places(w) : Holds[Arg(s)][Data(w)[p]] # {}
        BY <2>1, <3>3, <3>6, <4>1, BodyIsDirect
      <4>3. PICK b : b \in OneOfEach(At(s, w, Holds))
        <5>1. \A p \in DOMAIN At(s, w, Holds) : At(s, w, Holds)[p] # {}
          BY <4>2 DEF At
        <5> QED  BY <5>1, OneOfEachSome
      <4>4. Truths(s, denoted, Holds) = {Satisfies(s, w, c) : c \in OneOfEach(At(s, w, Holds))}
        BY <3>6, TruthsIs
      <4>5. Satisfies(s, w, b) \in Truths(s, denoted, Holds)
        BY <4>3, <4>4, Zenon
      <4> QED  BY <3>4, <4>5, Zenon
    <3>7. CASE denoted # {} /\ Op(s) \in Comparison \cup {"like"}
      <4>1. Truths(s, denoted, Holds) = {Satisfies(s, w, <<>>)}
        BY <3>7, TruthsIs
      <4> QED  BY <3>4, <4>1, Zenon
    <3> QED  BY <3>1, <3>5, <3>6, <3>7
  <2> QED  BY <2>2, <2>3
<1> HIDE DEF T
<1>2. Statements \subseteq T
  BY <1>1, StatementInduction
<1> QED  BY <1>2 DEF T

-----------------------------------------------------------------------------
\* What the truth values of the parts make of a connective.
LEMMA HoldsConnects ==
    ASSUME NEW s \in Statements, NEW v \in Values
    PROVE  /\ Op(s) = "not" =>
                 /\ TRUE \in Holds[Arg(s)][v] => FALSE \in Holds[s][v]
                 /\ FALSE \in Holds[Arg(s)][v] => TRUE \in Holds[s][v]
           /\ Op(s) = "and" =>
                 /\ (\A k \in DOMAIN Arg(s) : TRUE \in Holds[Arg(s)[k]][v]) => TRUE \in Holds[s][v]
                 /\ (\E k \in DOMAIN Arg(s) : FALSE \in Holds[Arg(s)[k]][v]) => FALSE \in Holds[s][v]
           /\ Op(s) = "or" =>
                 /\ Arg(s) = <<>> \/ (\E k \in DOMAIN Arg(s) : TRUE \in Holds[Arg(s)[k]][v]) =>
                       TRUE \in Holds[s][v]
                 /\ Arg(s) # <<>> /\ (\A k \in DOMAIN Arg(s) : FALSE \in Holds[Arg(s)[k]][v]) =>
                       FALSE \in Holds[s][v]
<1> DEFINE f == Child(s, v, Holds)
<1>0. Holds[s][v] = Meaning(s, v, Holds)
  BY HoldsUnfolds
<1>1. CASE Op(s) = "not"
  <2>1. Meaning(s, v, Holds) = {~b : b \in Holds[Arg(s)][v]}
    BY <1>1, MeaningIs
  <2>2. ASSUME TRUE \in Holds[Arg(s)][v] PROVE FALSE \in Holds[s][v]
    <3>1. (~TRUE) \in Holds[s][v]
      BY <1>0, <2>1, <2>2, Zenon
    <3> QED  BY <3>1
  <2>3. ASSUME FALSE \in Holds[Arg(s)][v] PROVE TRUE \in Holds[s][v]
    <3>1. (~FALSE) \in Holds[s][v]
      BY <1>0, <2>1, <2>3, Zenon
    <3> QED  BY <3>1
  <2> QED  BY <1>1, <2>2, <2>3
<1>2. CASE Op(s) \in {"and", "or"}
  <2>1. /\ Op(s) \in Connective /\ Children(s) = Arg(s)
        /\ DOMAIN f = DOMAIN Arg(s) /\ \A k \in DOMAIN f : f[k] = Holds[Arg(s)[k]][v]
    BY <1>2, StatementShape DEF Connective, Child
  <2>2. \A k \in DOMAIN f : f[k] # {}
    BY <2>1, ChildIsDirect, HoldsSome
  <2>3. Op(s) = "and" => Holds[s][v] = {Conjunction(b) : b \in OneOfEach(f)}
    BY <1>0, MeaningIs
  <2>4. Op(s) = "or" => Holds[s][v] = {Arg(s) = <<>> \/ Disjunction(b) : b \in OneOfEach(f)}
    BY <1>0, MeaningIs
  <2> HIDE DEF f
  <2>5. ASSUME NEW c, \A k \in DOMAIN f : c \in f[k]
        PROVE  \E b \in OneOfEach(f) : DOMAIN b = DOMAIN f /\ \A k \in DOMAIN f : b[k] = c
    <3> DEFINE b == [k \in DOMAIN f |-> c]
    <3>1. b = [k \in DOMAIN f |-> b[k]] /\ DOMAIN b = DOMAIN f /\ \A k \in DOMAIN f : b[k] = c
      OBVIOUS
    <3> HIDE DEF b
    <3>2. b \in OneOfEach(f)
      BY <2>5, <3>1, OneOfEachIntro
    <3> QED  BY <3>1, <3>2
  <2>6. ASSUME Op(s) = "and", \A k \in DOMAIN Arg(s) : TRUE \in Holds[Arg(s)[k]][v]
        PROVE  TRUE \in Holds[s][v]
    <3>1. PICK b \in OneOfEach(f) : DOMAIN b = DOMAIN f /\ \A k \in DOMAIN f : b[k] = TRUE
      BY <2>1, <2>5, <2>6
    <3>2. Conjunction(b) = TRUE
      BY <3>1 DEF Conjunction
    <3>3. Conjunction(b) \in Holds[s][v]
      BY <2>3, <2>6, <3>1, Zenon
    <3> QED  BY <3>2, <3>3
  <2>7. ASSUME Op(s) = "and", NEW k \in DOMAIN Arg(s), FALSE \in Holds[Arg(s)[k]][v]
        PROVE  FALSE \in Holds[s][v]
    <3>0. k \in DOMAIN f /\ FALSE \in f[k]
      BY <2>1, <2>7
    <3>1. PICK b \in OneOfEach(f) : b[k] = FALSE
      BY <2>2, <3>0, OneOfEachWith
    <3>2. DOMAIN b = DOMAIN f
      BY OneOfEachElim
    <3>3. Conjunction(b) = FALSE
      BY <2>1, <3>1, <3>2 DEF Conjunction
    <3>4. Conjunction(b) \in Holds[s][v]
      BY <2>3, <2>7, <3>1, Zenon
    <3> QED  BY <3>3, <3>4
  <2>8. ASSUME Op(s) = "or", Arg(s) = <<>> \/ \E k \in DOMAIN Arg(s) : TRUE \in Holds[Arg(s)[k]][v]
        PROVE  TRUE \in Holds[s][v]
    <3>1. PICK b \in OneOfEach(f) : Arg(s) = <<>> \/ Disjunction(b)
      <4>1. CASE Arg(s) = <<>>
        BY <2>2, <4>1, OneOfEachSome
      <4>2. CASE \E k \in DOMAIN Arg(s) : TRUE \in Holds[Arg(s)[k]][v]
        <5>1. PICK k \in DOMAIN Arg(s) : TRUE \in Holds[Arg(s)[k]][v]
          BY <4>2
        <5>4. k \in DOMAIN f /\ TRUE \in f[k]
          BY <2>1, <5>1
        <5>2. PICK b \in OneOfEach(f) : b[k] = TRUE
          BY <2>2, <5>4, OneOfEachWith
        <5>3. DOMAIN b = DOMAIN f
          BY OneOfEachElim
        <5> QED  BY <2>1, <5>2, <5>3 DEF Disjunction
      <4> QED  BY <2>8, <4>1, <4>2
    <3>2. (Arg(s) = <<>> \/ Disjunction(b)) \in Holds[s][v]
      BY <2>4, <2>8, <3>1, Zenon
    <3> QED  BY <3>1, <3>2
  <2>9. ASSUME Op(s) = "or", Arg(s) # <<>>, \A k \in DOMAIN Arg(s) : FALSE \in Holds[Arg(s)[k]][v]
        PROVE  FALSE \in Holds[s][v]
    <3>1. PICK b \in OneOfEach(f) : DOMAIN b = DOMAIN f /\ \A k \in DOMAIN f : b[k] = FALSE
      BY <2>1, <2>5, <2>9
    <3>2. ~(Arg(s) = <<>> \/ Disjunction(b))
      BY <2>9, <3>1 DEF Disjunction
    <3>3. (Arg(s) = <<>> \/ Disjunction(b)) \in Holds[s][v]
      BY <2>4, <2>9, <3>1, Zenon
    <3> QED  BY <3>2, <3>3
  <2> QED  BY <1>2, <2>6, <2>7, <2>8, <2>9
<1> QED  BY <1>1, <1>2, StatementShape

-----------------------------------------------------------------------------
(***************************************************************************)
(* Outcomes and meanings, by the sort of statement.                        *)
(***************************************************************************)
LEMMA SoleOne == ASSUME NEW w PROVE Sole({w}) = w /\ {w} # {}
  BY DEF Sole

\* A selector that fails makes its statement false.
LEMMA HoldsFails ==
    ASSUME NEW s \in Statements, Op(s) \notin Connective, NEW v \in Values,
           {} \in Denotes(Sel(s), v)
    PROVE  FALSE \in Holds[s][v]
<1>1. Truths(s, {}, Holds) = {FALSE}
  BY TruthsIs
<1>2. Truths(s, {}, Holds) \subseteq Holds[s][v]
  BY HoldsReads
<1> QED  BY <1>1, <1>2

\* A comparison means what it says of the value denoted.
LEMMA HoldsSays ==
    ASSUME NEW s \in Statements, Op(s) \in Comparison \cup {"like"}, NEW v \in Values,
           NEW w, {w} \in Denotes(Sel(s), v)
    PROVE  /\ Satisfies(s, w, <<>>) => TRUE \in Holds[s][v]
           /\ ~Satisfies(s, w, <<>>) => FALSE \in Holds[s][v]
<1>0. Op(s) \notin Connective
  BY DEF Comparison, Ordering, Connective
<1>1. Truths(s, {w}, Holds) = {Satisfies(s, w, <<>>)}
  <2> DEFINE d == {w}
  <2>1. d # {} /\ Sole(d) = w
    BY SoleOne
  <2> HIDE DEF d
  <2>2. Truths(s, d, Holds) = {Satisfies(s, Sole(d), <<>>)}
    BY <2>1, TruthsIs
  <2> QED  BY <2>1, <2>2 DEF d
<1>2. Satisfies(s, w, <<>>) \in Holds[s][v]
  BY <1>0, <1>1, HoldsReads, Zenon
<1>3. Satisfies(s, w, <<>>) \in BOOLEAN
  BY <1>0, SatisfiesBoolean DEF Operators
<1> QED  BY <1>2, <1>3

\* So does a quantifier of its statement at the places of that value, be it the
\* one selected but for types.
LEMMA HoldsEach ==
    ASSUME NEW s \in Statements, Op(s) \in Quantifier, NEW v \in Values,
           NEW w \in Values, {w} \in Denotes(Sel(s), v),
           NEW x \in Values, Kind(w) = Kind(x), Data(w) = Data(x), IsBytes(w) <=> IsBytes(x)
    PROVE  /\ ~IsIterable(x) => FALSE \in Holds[s][v]
           /\ IsIterable(x) =>
                 /\ Op(s) = "all" /\ (\A p \in Places(x) : TRUE \in Holds[Arg(s)][Data(x)[p]]) =>
                       TRUE \in Holds[s][v]
                 /\ Op(s) = "all" /\ (\E p \in Places(x) : FALSE \in Holds[Arg(s)][Data(x)[p]]) =>
                       FALSE \in Holds[s][v]
                 /\ Op(s) = "any" /\ (\E p \in Places(x) : TRUE \in Holds[Arg(s)][Data(x)[p]]) =>
                       TRUE \in Holds[s][v]
                 /\ Op(s) = "any" /\ (\A p \in Places(x) : FALSE \in Holds[Arg(s)][Data(x)[p]]) =>
                       FALSE \in Holds[s][v]
<1> DEFINE f == At(s, w, Holds)
<1>0. Places(w) = Places(x) /\ (IsIterable(w) <=> IsIterable(x)) /\ Op(s) \notin Connective
  BY SamePlaces, BodyIsDirect DEF IsIterable, IsCollection
<1>1. /\ DOMAIN f = Places(x)
      /\ \A p \in Places(x) : f[p] = Holds[Arg(s)][Data(x)[p]] /\ f[p] # {}
  <2>1. DOMAIN f = Places(x) /\ \A p \in Places(x) : f[p] = Holds[Arg(s)][Data(x)[p]]
    BY <1>0 DEF At
  <2> HIDE DEF f
  <2>2. \A p \in Places(x) : Data(x)[p] \in Values
    BY ValueParts
  <2> QED  BY <2>1, <2>2, HoldsSome, BodyIsDirect
<1>2. Truths(s, {w}, Holds) = {Satisfies(s, w, b) : b \in OneOfEach(f)}
  <2> DEFINE d == {w}
  <2>1. d # {} /\ Sole(d) = w
    BY SoleOne
  <2> HIDE DEF d, f
  <2>2. Truths(s, d, Holds) = {Satisfies(s, Sole(d), b) : b \in OneOfEach(At(s, Sole(d), Holds))}
    BY <2>1, TruthsIs
  <2>3. Truths(s, d, Holds) = {Satisfies(s, w, b) : b \in OneOfEach(f)}
    BY <2>1, <2>2, Zenon DEF f
  <2> QED  BY <2>3 DEF d
<1>3. Truths(s, {w}, Holds) \subseteq Holds[s][v]
  BY <1>0, HoldsReads
<1> HIDE DEF f
<1>4. \A b \in OneOfEach(f) : Satisfies(s, w, b) \in Holds[s][v]
  BY <1>2, <1>3, Zenon
<1>5. /\ Op(s) = "all" => \A b : Satisfies(s, w, b) <=> IsIterable(x) /\ \A p \in Places(x) : b[p]
      /\ Op(s) = "any" => \A b : Satisfies(s, w, b) <=> IsIterable(x) /\ \E p \in Places(x) : b[p]
  BY <1>0 DEF Satisfies
<1>6. \A b : Satisfies(s, w, b) \in BOOLEAN
  BY <1>0, SatisfiesBoolean, StatementShape
<1>7. /\ \A b \in OneOfEach(f) : Satisfies(s, w, b) => TRUE \in Holds[s][v]
      /\ \A b \in OneOfEach(f) : ~Satisfies(s, w, b) => FALSE \in Holds[s][v]
  BY <1>4, <1>6
<1>8. ASSUME NEW c, \A p \in Places(x) : c \in Holds[Arg(s)][Data(x)[p]]
      PROVE  \E b \in OneOfEach(f) : \A p \in Places(x) : b[p] = c
  <2> DEFINE b == [p \in DOMAIN f |-> c]
  <2>1. b = [p \in DOMAIN f |-> b[p]] /\ \A p \in DOMAIN f : b[p] = c
    OBVIOUS
  <2> HIDE DEF b
  <2>2. b \in OneOfEach(f)
    BY <1>1, <1>8, <2>1, OneOfEachIntro
  <2> QED  BY <1>1, <2>1, <2>2
<1>9. ASSUME NEW p \in Places(x), NEW c \in Holds[Arg(s)][Data(x)[p]]
      PROVE  \E b \in OneOfEach(f) : b[p] = c
  <2>1. p \in DOMAIN f /\ c \in f[p] /\ \A k \in DOMAIN f : f[k] # {}
    BY <1>1
  <2> QED  BY <2>1, OneOfEachWith
<1>10. ASSUME ~IsIterable(x) PROVE FALSE \in Holds[s][v]
  <2>1. PICK b : b \in OneOfEach(f)
    BY <1>1, OneOfEachSome
  <2> QED  BY <1>5, <1>7, <1>10, <2>1 DEF Quantifier
<1>11. ASSUME IsIterable(x), Op(s) = "all", \A p \in Places(x) : TRUE \in Holds[Arg(s)][Data(x)[p]]
       PROVE  TRUE \in Holds[s][v]
  <2>1. PICK b \in OneOfEach(f) : \A p \in Places(x) : b[p] = TRUE
    BY <1>8, <1>11
  <2> QED  BY <1>5, <1>7, <1>11, <2>1
<1>12. ASSUME IsIterable(x), Op(s) = "all", NEW p \in Places(x), FALSE \in Holds[Arg(s)][Data(x)[p]]
       PROVE  FALSE \in Holds[s][v]
  <2>1. PICK b \in OneOfEach(f) : b[p] = FALSE
    BY <1>9, <1>12
  <2> QED  BY <1>5, <1>7, <1>12, <2>1
<1>13. ASSUME IsIterable(x), Op(s) = "any", NEW p \in Places(x), TRUE \in Holds[Arg(s)][Data(x)[p]]
       PROVE  TRUE \in Holds[s][v]
  <2>1. PICK b \in OneOfEach(f) : b[p] = TRUE
    BY <1>9, <1>13
  <2> QED  BY <1>5, <1>7, <1>13, <2>1
<1>14. ASSUME IsIterable(x), Op(s) = "any", \A p \in Places(x) : FALSE \in Holds[Arg(s)][Data(x)[p]]
       PROVE  FALSE \in Holds[s][v]
  <2>1. PICK b \in OneOfEach(f) : \A p \in Places(x) : b[p] = FALSE
    BY <1>8, <1>14
  <2> QED  BY <1>5, <1>7, <1>14, <2>1
<1> QED  BY <1>10, <1>11, <1>12, <1>13, <1>14

-----------------------------------------------------------------------------
\* What the outcome of a connective says of those of its parts.
LEMMA ConnectedIs ==
    ASSUME NEW s \in Statements, Op(s) \in Connective, NEW v \in Values,
           NEW r \in MatchStatement[s][v]
    PROVE  /\ Op(s) = "and" /\ r = "match" =>
                 \A k \in DOMAIN Arg(s) : "match" \in MatchStatement[Arg(s)[k]][v]
           /\ Op(s) = "or" /\ r = "match" =>
                 Arg(s) = <<>> \/ \E k \in DOMAIN Arg(s) : "match" \in MatchStatement[Arg(s)[k]][v]
           /\ (\A k \in DOMAIN Children(s) : Rebuild[Children(s)[k]] = "match") =>
                 /\ Op(s) = "and" /\ r = "no" =>
                       \E k \in DOMAIN Arg(s) : "no" \in MatchStatement[Arg(s)[k]][v]
                 /\ Op(s) = "or" /\ r = "no" =>
                       /\ Arg(s) # <<>>
                       /\ \A k \in DOMAIN Arg(s) : "no" \in MatchStatement[Arg(s)[k]][v]
                 /\ Op(s) = "not" /\ r = "match" => "no" \in MatchStatement[Arg(s)][v]
                 /\ Op(s) = "not" /\ r = "no" => "match" \in MatchStatement[Arg(s)][v]
<1> DEFINE m == MatchStatement
           Built == \A k \in DOMAIN Children(s) : Rebuild[Children(s)[k]] = "match"
<1>1. PICK outcomes :
          /\ DOMAIN outcomes = DOMAIN Children(s)
          /\ \A k \in DOMAIN outcomes :
                /\ outcomes[k] \in Pointed(Children(s)[k], v, m)
                /\ outcomes[k] \in Verdicts
          /\ Children(s) = <<>> => outcomes = <<>>
          /\ r = Connect(Op(s), outcomes)
  BY ConnectMatch
<1> HIDE DEF m
<1>2. \A k \in DOMAIN outcomes : outcomes[k] = "match" => "match" \in m[Children(s)[k]][v]
  BY <1>1 DEF Pointed
<1>3. Built => \A k \in DOMAIN outcomes : outcomes[k] \in m[Children(s)[k]][v]
  BY <1>1 DEF Pointed
<1>4. DOMAIN outcomes \subseteq Nat
  BY <1>1, ChildIsDirect
<1> HIDE DEF Built
<1>5. CASE Op(s) = "not"
  <2>1. Children(s) = <<Arg(s)>>
    BY <1>5, StatementShape
  <2>2. 1 \in DOMAIN Children(s) /\ Children(s)[1] = Arg(s)
    BY <2>1
  <2>3. outcomes[1] \in Verdicts /\ (Built => outcomes[1] \in m[Arg(s)][v])
    BY <1>1, <1>3, <2>2
  <2>4. r = IF outcomes[1] = "panic" THEN "panic" ELSE Verdict(outcomes[1] = "no")
    BY <1>1, <1>5 DEF Connect
  <2>5. r = "match" => outcomes[1] = "no"
    BY <2>4 DEF Verdict
  <2>6. r = "no" => outcomes[1] = "match"
    BY <2>3, <2>4 DEF Verdict, Verdicts
  <2> QED  BY <1>5, <2>3, <2>5, <2>6 DEF m, Built
<1>6. CASE Op(s) = "and"
  <2>1. Children(s) = Arg(s)
    BY <1>6, StatementShape
  <2>2. r = FirstOf(outcomes, {"no", "panic"}, "match")
    BY <1>1, <1>6 DEF Connect
  <2>3. \/ /\ \A k \in DOMAIN outcomes : outcomes[k] \notin {"no", "panic"}
           /\ r = "match"
        \/ \E k \in DOMAIN outcomes : outcomes[k] \in {"no", "panic"} /\ r = outcomes[k]
    BY <1>4, <2>2, FirstOfIs
  <2>4. r = "match" => \A k \in DOMAIN outcomes : outcomes[k] = "match"
    BY <1>1, <2>3 DEF Verdicts
  <2>5. r = "no" => \E k \in DOMAIN outcomes : outcomes[k] = "no"
    BY <2>3
  <2>6. ASSUME r = "match" PROVE \A k \in DOMAIN Arg(s) : "match" \in m[Arg(s)[k]][v]
    BY <1>1, <1>2, <2>1, <2>4, <2>6
  <2>7. ASSUME Built, r = "no" PROVE \E k \in DOMAIN Arg(s) : "no" \in m[Arg(s)[k]][v]
    BY <1>1, <1>3, <2>1, <2>5, <2>7
  <2> QED  BY <1>6, <2>6, <2>7 DEF m, Built
<1>7. CASE Op(s) = "or"
  <2>1. Children(s) = Arg(s) /\ Arg(s) \in Seq(Statements)
    BY <1>7, StatementShape
  <2>2. r = IF outcomes = <<>> THEN "match" ELSE FirstOf(outcomes, {"match", "panic"}, "no")
    BY <1>1, <1>7 DEF Connect
  <2>3. outcomes = <<>> => Arg(s) = <<>>
    <3> SUFFICES ASSUME outcomes = <<>> PROVE Arg(s) = <<>>
      OBVIOUS
    <3>1. DOMAIN Arg(s) = {}
      BY <1>1, <2>1
    <3> DEFINE a == Arg(s)
    <3>2. a \in Seq(Statements) /\ DOMAIN a = {}
      BY <2>1, <3>1
    <3> HIDE DEF a
    <3>3. a = <<>>
      BY <3>2
    <3> QED  BY <3>3 DEF a
  <2>4. outcomes # <<>> =>
          \/ /\ \A k \in DOMAIN outcomes : outcomes[k] \notin {"match", "panic"}
             /\ r = "no"
          \/ \E k \in DOMAIN outcomes : outcomes[k] \in {"match", "panic"} /\ r = outcomes[k]
    BY <1>4, <2>2, FirstOfIs
  <2>5. r = "match" => outcomes = <<>> \/ \E k \in DOMAIN outcomes : outcomes[k] = "match"
    BY <2>4
  <2>6. r = "no" => outcomes # <<>> /\ \A k \in DOMAIN outcomes : outcomes[k] = "no"
    BY <1>1, <2>2, <2>4 DEF Verdicts
  <2>7. ASSUME r = "match" PROVE Arg(s) = <<>> \/ \E k \in DOMAIN Arg(s) : "match" \in m[Arg(s)[k]][v]
    BY <1>1, <1>2, <2>1, <2>3, <2>5, <2>7
  <2>8. ASSUME Built, r = "no" PROVE \A k \in DOMAIN Arg(s) : "no" \in m[Arg(s)[k]][v]
    BY <1>1, <1>3, <2>1, <2>6, <2>8
  <2>9. ASSUME r = "no", Arg(s) = <<>> PROVE FALSE
    BY <1>1, <2>1, <2>6, <2>9
  <2> QED  BY <1>7, <2>7, <2>8, <2>9 DEF m, Built
<1> QED  BY <1>5, <1>6, <1>7 DEF Connective

\* What the outcome of a quantifier says of those of its items.
LEMMA QuantifiedIs ==
    ASSUME NEW s \in Statements, Op(s) \in Quantifier, NEW x \in Values,
           NEW r \in Ranges(s, x, MatchStatement)
    PROVE  /\ ~IsCollection(x) => r = "no"
           /\ IsCollection(x) =>
                 /\ Op(s) = "all" /\ r = "match" =>
                       \A p \in Places(x) : "match" \in MatchStatement[Arg(s)][Data(x)[p]]
                 /\ Op(s) = "all" /\ r = "no" =>
                       \E p \in Places(x) : "no" \in MatchStatement[Arg(s)][Data(x)[p]]
                 /\ Op(s) = "any" /\ r = "match" =>
                       \E p \in Places(x) : "match" \in MatchStatement[Arg(s)][Data(x)[p]]
                 /\ Op(s) = "any" /\ r = "no" =>
                       \A p \in Places(x) : "no" \in MatchStatement[Arg(s)][Data(x)[p]]
<1> DEFINE m == MatchStatement[Arg(s)]
<1>1. CASE ~IsCollection(x)
  BY <1>1, RangesNone
<1>2. CASE IsCollection(x)
  <2>1. PICK items, outcomes :
          /\ items \in Enumerated(x)
          /\ DOMAIN outcomes = DOMAIN items
          /\ \A k \in DOMAIN outcomes : outcomes[k] \in m[items[k]] /\ outcomes[k] \in Verdicts
          /\ r = Quantifies(Op(s), outcomes)
    BY <1>2, QuantifiesMatch
  <2>2. /\ DOMAIN outcomes \subseteq Nat
        /\ \A k \in DOMAIN outcomes : \E p \in Places(x) : items[k] = Data(x)[p]
        /\ \A p \in Places(x) : \E k \in DOMAIN outcomes : items[k] = Data(x)[p]
    BY <1>2, <2>1, SelectedItems
  <2> HIDE DEF m
  <2>3. \A k \in DOMAIN outcomes : \E p \in Places(x) : outcomes[k] \in m[Data(x)[p]]
    BY <2>1, <2>2
  <2>4. \A p \in Places(x) : \E k \in DOMAIN outcomes : outcomes[k] \in m[Data(x)[p]]
    BY <2>1, <2>2
  <2>5. CASE Op(s) = "all"
    <3>1. r = FirstOf(outcomes, {"no", "panic"}, "match")
      BY <2>1, <2>5 DEF Quantifies
    <3>2. \/ /\ \A k \in DOMAIN outcomes : outcomes[k] \notin {"no", "panic"}
             /\ r = "match"
          \/ \E k \in DOMAIN outcomes : outcomes[k] \in {"no", "panic"} /\ r = outcomes[k]
      BY <2>2, <3>1, FirstOfIs
    <3>3. r = "match" => \A k \in DOMAIN outcomes : outcomes[k] = "match"
      BY <2>1, <3>2 DEF Verdicts
    <3>4. r = "no" => \E k \in DOMAIN outcomes : outcomes[k] = "no"
      BY <3>2
    <3> QED  BY <1>2, <2>3, <2>4, <2>5, <3>3, <3>4 DEF m
  <2>6. CASE Op(s) = "any"
    <3>1. r = FirstOf(outcomes, {"match", "panic"}, "no")
      BY <2>1, <2>6 DEF Quantifies
    <3>2. \/ /\ \A k \in DOMAIN outcomes : outcomes[k] \notin {"match", "panic"}
             /\ r = "no"
          \/ \E k \in DOMAIN outcomes : outcomes[k] \in {"match", "panic"} /\ r = outcomes[k]
      BY <2>2, <3>1, FirstOfIs
    <3>3. r = "no" => \A k \in DOMAIN outcomes : outcomes[k] = "no"
      BY <2>1, <3>2 DEF Verdicts
    <3>4. r = "match" => \E k \in DOMAIN outcomes : outcomes[k] = "match"
      BY <3>2
    <3> QED  BY <1>2, <2>3, <2>4, <2>6, <3>3, <3>4 DEF m
  <2> QED  BY <2>5, <2>6 DEF Quantifier
<1> QED  BY <1>1, <1>2

\* What a selector may have selected when a statement has an outcome.
Selected(s, v, r, x) ==
    /\ Value(x) \in Resolve[Sel(s)][v]
    /\ Op(s) \in Comparison \cup {"like"} => r = Compare(s, x)
    /\ Op(s) \in Quantifier => r \in Ranges(s, x, MatchStatement)

\* How a selector decides the outcome.
LEMMA SelectedIs ==
    ASSUME NEW s \in Statements, Op(s) \notin Connective, NEW v \in Values,
           NEW r \in MatchStatement[s][v]
    PROVE  \/ ResolutionError \in Resolve[Sel(s)][v] /\ r = "no"
           \/ r = "panic"
           \/ \E x \in Values : Selected(s, v, r, x)
<1>1. PICK o \in Resolve[Sel(s)][v] : o \in Outs(Values) /\ r \in Judged(s, o, MatchStatement)
  BY JudgedMatch
<1>2. CASE Status(o) # "value"
  <2>1. r = IF Status(o) = "panic" THEN "panic" ELSE "no"
    BY <1>1, <1>2, JudgedFails
  <2>2. o = ResolutionError \/ o = Panic
    BY <1>1, <1>2, OutsElim
  <2> QED  BY <1>1, <2>1, <2>2, OutcomeParts
<1>3. CASE Status(o) = "value"
  <2>1. Result(o) \in Values /\ o = Value(Result(o))
    BY <1>1, <1>3, OutsElim
  <2>2. Op(s) \in Comparison \cup {"like"} => r = Compare(s, Result(o))
    BY <1>1, <1>3, JudgedCompares
  <2>3. Op(s) \in Quantifier => r \in Ranges(s, Result(o), MatchStatement)
    BY <1>1, <1>3, JudgedQuantifies
  <2> QED  BY <1>1, <2>1, <2>2, <2>3 DEF Selected
<1> QED  BY <1>2, <1>3

\* A comparison matches when what it says of the selected value holds.
LEMMA CompareMeans ==
    ASSUME NEW s \in Statements, Op(s) \in Comparison \cup {"like"},
           NEW x \in Values, NEW w \in Values, Kind(w) = Kind(x), Data(w) = Data(x),
           IsBytes(w) <=> IsBytes(x)
    PROVE  /\ Op(s) \notin {"==", "!="} => (Compare(s, x) = "match" <=> Satisfies(s, w, <<>>))
           /\ Op(s) = "==" => (Compare(s, x) = "match" <=> x = Arg(s))
           /\ Op(s) = "!=" => (Compare(s, x) = "match" <=> x # Arg(s))
           /\ Op(s) = "==" => (Satisfies(s, w, <<>>) <=> Plain[x] = Plain[Arg(s)])
           /\ Op(s) = "!=" => (Satisfies(s, w, <<>>) <=> Plain[x] # Plain[Arg(s)])
<1>1. Plain[w] = Plain[x]
  BY PlainSame
<1>3. CASE Op(s) = "=="
  <2>1. Satisfies(s, w, <<>>) <=> Plain[w] = Plain[Arg(s)]
    BY <1>3 DEF Satisfies
  <2>2. Compare(s, x) = "match" <=> x = Arg(s)
    BY <1>3 DEF Compare, Verdict, Ordering
  <2> QED  BY <1>1, <1>3, <2>1, <2>2
<1>4. CASE Op(s) = "!="
  <2>1. Satisfies(s, w, <<>>) <=> Plain[w] # Plain[Arg(s)]
    BY <1>4 DEF Satisfies
  <2>2. Compare(s, x) = "match" <=> x # Arg(s)
    BY <1>4 DEF Compare, Verdict, Ordering
  <2> QED  BY <1>1, <1>4, <2>1, <2>2
<1>5. CASE Op(s) = "like"
  BY <1>5 DEF Compare, Satisfies, Verdict, Ordering
<1>6. CASE Op(s) \in Ordering
  <2> DEFINE a == Data(x)
             b == Data(Arg(s))
  <2>1. Kind(x) = "int" => a \in Int
    BY ValuesAreNested, NestElim
  <2>2. Kind(Arg(s)) = "int" => b \in Int
    BY <1>6, StatementShape, ValuesAreNested, NestElim DEF Comparison, Canonic
  <2>3. Compare(s, x) = "match" <=> IsOrdered(x, Arg(s), Op(s))
    BY <1>6 DEF Compare, Verdict, Ordering
  <2>4. IsOrdered(x, Arg(s), Op(s)) <=>
           /\ Kind(x) = "int" /\ Kind(Arg(s)) = "int"
           /\ Op(s) = "<" => a < b
           /\ Op(s) = ">" => a > b
           /\ Op(s) = "<=" => a <= b
           /\ Op(s) = ">=" => a >= b
    BY <1>6 DEF IsOrdered, Ordering
  <2>5. Satisfies(s, w, <<>>) <=>
           /\ Kind(x) = "int" /\ Kind(Arg(s)) = "int"
           /\ Op(s) = "<" => a < b
           /\ Op(s) = ">" => a > b
           /\ Op(s) = "<=" => ~(a > b)
           /\ Op(s) = ">=" => ~(a < b)
    BY <1>6 DEF Satisfies, Ordering
  <2> HIDE DEF a, b
  <2> QED  BY <1>6, <2>1, <2>2, <2>3, <2>4, <2>5 DEF Ordering
<1> QED  BY <1>3, <1>4, <1>5, <1>6 DEF Comparison, Ordering

\* DeepEqual of what was selected, except an empty list, and of what was
\* decoded looks at the data only.
LEMMA DeepEqual ==
    ASSUME NEW sel \in Selectors, NEW v \in Canonic, Fits(sel, v),
           NEW x, Value(x) \in Resolve[sel][v], NEW a \in Canonic,
           Kind(a) = "list" /\ Data(a) = <<>> => Whole(sel)
    PROVE  Plain[x] = Plain[a] <=> x = a
<1>1. x \in Settled
  <2>1. Value(x) \in FitOutcomes
    BY FitResolves
  <2> QED  BY <2>1, OutcomeParts DEF FitOutcomes
<1>2. x \in Values /\ a \in Values
  BY <1>1, SettledParts DEF Canonic
<1>3. ASSUME x \in Canonic, Plain[x] = Plain[a] PROVE x = a
  BY <1>2, <1>3, PlainCanonic
<1>4. ASSUME x \notin Canonic, Plain[x] = Plain[a] PROVE FALSE
  <2>1. Kind(x) = "list" /\ Data(x) = <<>>
    BY <1>1, <1>4 DEF Settled
  <2>2. Bared(x, Plain) = Bared(a, Plain)
    BY <1>2, <1>4, PlainUnfolds
  <2>3. Kind(a) = "list" /\ (IsBytes(x) <=> IsBytes(a))
    BY <2>1, <2>2, BaredIs
  <2>4. CASE IsBytes(x)
    <3>1. Untouched(x) /\ Untouched(a)
      BY <2>1, <2>3, <2>4 DEF Untouched, Listed
    <3>2. x = a
      BY <2>2, <3>1, BaredIs
    <3> QED  BY <1>4, <3>2
  <2>5. CASE ~IsBytes(x)
    <3>0. Listed(x) /\ Listed(a)
      BY <2>1, <2>3, <2>5 DEF Listed
    <3>1. [k \in DOMAIN Data(x) |-> Plain[Data(x)[k]]] = [k \in DOMAIN Data(a) |-> Plain[Data(a)[k]]]
      <4> DEFINE p == [k \in DOMAIN Data(x) |-> Plain[Data(x)[k]]]
                 q == [k \in DOMAIN Data(a) |-> Plain[Data(a)[k]]]
      <4>1. Bared(x, Plain) = <<<<"list">>, p>> /\ Bared(a, Plain) = <<<<"list">>, q>>
        BY <3>0, BaredIs
      <4> HIDE DEF p, q
      <4>2. Data(<<<<"list">>, p>>) = p /\ Data(<<<<"list">>, q>>) = q
        BY ListParts
      <4>3. <<<<"list">>, p>> = <<<<"list">>, q>>
        BY <2>2, <4>1, Zenon
      <4>4. p = q
        BY <4>2, <4>3, Zenon
      <4> QED  BY <4>4 DEF p, q
    <3>2. DOMAIN Data(a) = DOMAIN Data(x)
      BY <3>1
    <3> DEFINE s == Data(a)
    <3>3. s \in Seq(Values) /\ DOMAIN s = {}
      BY <1>2, <2>1, <2>3, <3>2, ValuesAreNested
    <3> HIDE DEF s
    <3>4. s = <<>>
      BY <3>3
    <3>5. Value(x) \in Only(Canonic)
      BY <2>3, <3>4, WholeResolves DEF s
    <3> QED  BY <1>4, <3>5, OutcomeParts DEF Only
  <2> QED  BY <2>4, <2>5
<1> QED  BY <1>3, <1>4

-----------------------------------------------------------------------------
(***************************************************************************)
(* Policies accept as they mean.                                           *)
(***************************************************************************)
\* The argument of a connective or quantifier is a direct part of it.
LEMMA ArgumentIsDirect ==
    ASSUME NEW s \in Statements
    PROVE  /\ Op(s) = "not" =>
                 Arg(s) \in Direct(s) /\ Children(s)[1] = Arg(s) /\ 1 \in DOMAIN Children(s)
           /\ Op(s) \in {"and", "or"} => \A k \in DOMAIN Arg(s) : Arg(s)[k] \in Direct(s)
           /\ Op(s) \in Quantifier => Arg(s) \in Direct(s)
<1>1. CASE Op(s) = "not"
  <2>1. Children(s) = <<Arg(s)>>
    BY <1>1, StatementShape
  <2>2. 1 \in DOMAIN Children(s) /\ Children(s)[1] = Arg(s)
    BY <2>1
  <2> QED  BY <1>1, <2>2, ChildIsDirect DEF Connective, Quantifier
<1>2. CASE Op(s) \in {"and", "or"}
  BY <1>2, StatementShape, ChildIsDirect DEF Connective, Quantifier
<1>3. CASE Op(s) \in Quantifier
  BY <1>3, BodyIsDirect DEF Connective, Quantifier
<1> QED  BY <1>1, <1>2, <1>3

\* The parts of a faithful statement are faithful.
LEMMA FaithfulIs ==
    ASSUME NEW s \in Statements, Faithful(s)
    PROVE  /\ \A c \in Direct(s) : Faithful(c)
           /\ Op(s) \in Connective =>
                 \A k \in DOMAIN Children(s) : Rebuild[Children(s)[k]] = "match"
           /\ Ends(Sel(s))
           /\ Op(s) \in {"==", "!="} /\ Kind(Arg(s)) = "list" /\ Data(Arg(s)) = <<>> =>
                 Whole(Sel(s))
<1>1. s \in Parts[s] /\ \A c \in Direct(s) : Parts[c] \subseteq Parts[s]
  BY PartsShape
<1>2. \A c \in Direct(s) : Faithful(c)
  BY <1>1 DEF Faithful, Rebuilds, IteratesLast, NoEmptyCut
<1>3. Rebuilds(s) /\ IteratesLast(s) /\ NoEmptyCut(s)
  BY DEF Faithful
<1>4. Op(s) \in Connective => \A k \in DOMAIN Children(s) : Rebuild[Children(s)[k]] = "match"
  BY <1>1, <1>3 DEF Rebuilds
<1>5. Ends(Sel(s))
  BY <1>1, <1>3 DEF IteratesLast, Ends
<1>6. Op(s) \in {"==", "!="} /\ Kind(Arg(s)) = "list" /\ Data(Arg(s)) = <<>> => Whole(Sel(s))
  BY <1>1, <1>3 DEF NoEmptyCut
<1> QED  BY <1>2, <1>4, <1>5, <1>6

\* A statement leaves the bytes of a value whole.
Leaves(s, v) == HoldsBytes[v] => ~TakesApart(s)

\* So do its parts; its selector fits the value, and only without bytes does it
\* quantify.
LEMMA LeavesParts ==
    ASSUME NEW s \in Statements, NEW v \in Values, Leaves(s, v)
    PROVE  /\ \A c \in Direct(s) : Leaves(c, v)
           /\ Fits(Sel(s), v)
           /\ Op(s) \in Quantifier => v \in Free
<1>1. s \in Parts[s] /\ \A c \in Direct(s) : Parts[c] \subseteq Parts[s]
  BY PartsShape
<1>2. ASSUME NEW c \in Direct(s) PROVE Leaves(c, v)
  BY <1>1 DEF Leaves, TakesApart
<1>3. Fits(Sel(s), v)
  BY <1>1 DEF Leaves, TakesApart, Fits
<1>4. Op(s) \in Quantifier => v \in Free
  BY <1>1 DEF Leaves, TakesApart, Free
<1> QED  BY <1>2, <1>3, <1>4

\* What a quantifier ranges over has no bytes.
LEMMA QuantifiesFree ==
    ASSUME NEW sel \in Selectors, NEW v \in Free, NEW x, Value(x) \in Resolve[sel][v]
    PROVE  /\ IsIterable(x) <=> IsCollection(x)
           /\ \A p \in Places(x) : Data(x)[p] \in Free /\ \A c : Leaves(c, Data(x)[p])
<1>1. x \in Free
  <2>1. Value(x) \in FreeOutcomes
    BY FreeResolves
  <2> QED  BY <2>1, OutcomeParts DEF FreeOutcomes
<1>2. ~IsBytes(x)
  BY <1>1, HoldsBytesUnfolds DEF Free
<1>3. \A p \in Places(x) : Data(x)[p] \in Free
  BY <1>1, FreeSet DEF PartsIn
<1> QED  BY <1>2, <1>3 DEF IsIterable, Leaves, Free

\* A policy that negates nothing and does not ask for null is not wider than
\* it means.
LEMMA NotWider ==
    \A s \in Statements : Positive(s) /\ NamesAfterIterating(s) =>
        \A v \in Sound : Leaves(s, v) /\ "match" \in MatchStatement[s][v] => TRUE \in Holds[s][v]
<1> DEFINE m == MatchStatement
           h == Holds
           Good(s) == Positive(s) /\ NamesAfterIterating(s)
           T == {s \in Statements : Good(s) =>
                    \A v \in Sound : Leaves(s, v) /\ "match" \in m[s][v] => TRUE \in h[s][v]}
<1>1. ASSUME NEW s \in Statements, \A c \in Direct(s) : c \in T PROVE s \in T
  <2> SUFFICES ASSUME Good(s), NEW v \in Sound, Leaves(s, v), "match" \in m[s][v]
               PROVE  TRUE \in h[s][v]
    OBVIOUS
  <2>0. v \in Values
    BY DEF Sound
  <2>1. \A c \in Direct(s) : Good(c)
    BY PartsShape DEF Positive, NamesAfterIterating
  <2>2. \A c \in Direct(s) : \A w \in Sound : Leaves(c, w) /\ "match" \in m[c][w] => TRUE \in h[c][w]
    BY <1>1, <2>1
  <2>3. Op(s) \notin {"not", "!="} /\ (Op(s) = "==" => Arg(s) # Nil) /\ Names(Sel(s))
    BY PartsShape DEF Positive, NamesAfterIterating, Names
  <2> HIDE DEF T, Good
  <2>4. CASE Op(s) \in Connective
    <3>1. Op(s) = "and" \/ Op(s) = "or"
      BY <2>3, <2>4 DEF Connective
    <3>2. \A k \in DOMAIN Arg(s) : "match" \in m[Arg(s)[k]][v] => TRUE \in h[Arg(s)[k]][v]
      BY <2>0, <2>2, <3>1, ArgumentIsDirect, LeavesParts
    <3>3. CASE Op(s) = "and"
      <4>1. \A k \in DOMAIN Arg(s) : "match" \in m[Arg(s)[k]][v]
        BY <2>0, <2>4, <3>3, ConnectedIs
      <4> QED  BY <2>0, <3>2, <3>3, <4>1, HoldsConnects
    <3>4. CASE Op(s) = "or"
      <4>1. Arg(s) = <<>> \/ \E k \in DOMAIN Arg(s) : "match" \in m[Arg(s)[k]][v]
        BY <2>0, <2>4, <3>4, ConnectedIs
      <4> QED  BY <2>0, <3>2, <3>4, <4>1, HoldsConnects
    <3> QED  BY <3>1, <3>3, <3>4
  <2>5. CASE Op(s) \notin Connective
    <3>1. PICK x \in Values : Selected(s, v, "match", x)
      BY <2>0, <2>5, SelectedIs
    <3>2. Op(s) \in Comparison \cup {"like"} \/ Op(s) \in Quantifier
      BY <2>5, StatementShape DEF Operators
    <3>3. Op(s) \in Quantifier => IsCollection(x)
      BY <3>1, QuantifiedIs DEF Selected
    <3>0. Sel(s) \in Selectors /\ Fits(Sel(s), v) /\ Value(x) \in Resolve[Sel(s)][v]
      BY <2>0, <3>1, StatementShape, LeavesParts DEF Selected
    <3>9. Op(s) \in Comparison \cup {"like"} => Compare(s, x) = "match"
      BY <3>1 DEF Selected
    <3>4. Ends(Sel(s))
      <4> SUFFICES ASSUME ~Ends(Sel(s)) PROVE FALSE
        OBVIOUS
      <4>2. x = Nil
        <5>1. Value(x) \in Nothing
          BY <2>0, <2>3, <3>0, NamesFindNothing
        <5> QED  BY <5>1, OutcomeParts DEF Nothing
      <4>3. Kind(x) = "nil" /\ ~IsCollection(x)
        BY <4>2, AbsentIs
      <4>4. Op(s) \in Comparison \cup {"like"} /\ Compare(s, x) = "match"
        BY <3>2, <3>3, <3>9, <4>3
      <4>5. CASE Op(s) = "=="
        BY <2>3, <4>2, <4>4, <4>5, CompareMeans
      <4>6. CASE Op(s) \in Ordering
        <5>1. ~IsOrdered(x, Arg(s), Op(s))
          BY <4>3 DEF IsOrdered
        <5> QED  BY <4>4, <4>6, <5>1 DEF Compare, Verdict, Ordering
      <4>7. CASE Op(s) = "like"
        BY <4>3, <4>4, <4>7 DEF Compare, Verdict, Ordering
      <4> QED  BY <2>3, <4>4, <4>5, <4>6, <4>7 DEF Comparison
    <3>5. PICK w \in Values : /\ {w} \in Denotes(Sel(s), v)
                              /\ Kind(w) = Kind(x) /\ Data(w) = Data(x)
                              /\ IsBytes(w) <=> IsBytes(x)
      BY <3>0, <3>4, DenotesIs DEF Meant
    <3>6. CASE Op(s) \in Comparison \cup {"like"}
      <4>1. Compare(s, x) = "match"
        BY <3>6, <3>9
      <4>2. Satisfies(s, w, <<>>)
        <5>1. Op(s) = "==" => Plain[x] = Plain[Arg(s)]
          BY <3>5, <3>6, <4>1, CompareMeans
        <5> QED  BY <2>3, <3>5, <3>6, <4>1, <5>1, CompareMeans
      <4> QED  BY <2>0, <3>5, <3>6, <4>2, HoldsSays
    <3>7. CASE Op(s) \in Quantifier
      <4>0. /\ v \in Free /\ IsIterable(x) /\ "match" \in Ranges(s, x, MatchStatement)
            /\ \A p \in Places(x) : Data(x)[p] \in Sound /\ Leaves(Arg(s), Data(x)[p])
        <5>1. v \in Free /\ "match" \in Ranges(s, x, MatchStatement)
          BY <2>0, <3>1, <3>7, LeavesParts DEF Selected
        <5> QED  BY <3>0, <3>3, <3>7, <5>1, QuantifiesFree, FreeSound
      <4>1. \A p \in Places(x) : "match" \in m[Arg(s)][Data(x)[p]] => TRUE \in h[Arg(s)][Data(x)[p]]
        BY <2>2, <3>7, <4>0, ArgumentIsDirect
      <4>2. CASE Op(s) = "all"
        <5>1. \A p \in Places(x) : "match" \in m[Arg(s)][Data(x)[p]]
          BY <3>3, <3>7, <4>0, <4>2, QuantifiedIs
        <5> QED  BY <2>0, <3>5, <3>7, <4>0, <4>1, <4>2, <5>1, HoldsEach
      <4>3. CASE Op(s) = "any"
        <5>1. \E p \in Places(x) : "match" \in m[Arg(s)][Data(x)[p]]
          BY <3>3, <3>7, <4>0, <4>3, QuantifiedIs
        <5> QED  BY <2>0, <3>5, <3>7, <4>0, <4>1, <4>3, <5>1, HoldsEach
      <4> QED  BY <3>7, <4>2, <4>3 DEF Quantifier
    <3> QED  BY <3>2, <3>6, <3>7
  <2> QED  BY <2>4, <2>5
<1> HIDE DEF T
<1>2. Statements \subseteq T
  BY <1>1, StatementInduction
<1> QED  BY <1>2 DEF T

\* A faithful statement matches a decoded value only if it holds of it, and fails
\* on it only if it does not, for some orders of its maps.
LEMMA AsMeant ==
    \A s \in Statements : Faithful(s) =>
        \A v \in Canonic : Leaves(s, v) =>
           /\ "match" \in MatchStatement[s][v] => TRUE \in Holds[s][v]
           /\ "no" \in MatchStatement[s][v] => FALSE \in Holds[s][v]
<1> DEFINE m == MatchStatement
           h == Holds
           Agree(s, v) == /\ "match" \in m[s][v] => TRUE \in h[s][v]
                          /\ "no" \in m[s][v] => FALSE \in h[s][v]
           T == {s \in Statements : Faithful(s) => \A v \in Canonic : Leaves(s, v) => Agree(s, v)}
<1>1. ASSUME NEW s \in Statements, \A c \in Direct(s) : c \in T PROVE s \in T
  <2> SUFFICES ASSUME Faithful(s), NEW v \in Canonic, Leaves(s, v)
               PROVE  Agree(s, v)
    OBVIOUS
  <2>1. \A c \in Direct(s) : \A w \in Canonic : Leaves(c, w) => Agree(c, w)
    <3> HIDE DEF Agree
    <3> QED  BY <1>1, FaithfulIs
  <2>2. v \in Values /\ v \in Sound
    BY CanonicSound DEF Canonic
  <2>6. \A c \in Direct(s) : Agree(c, v)
    <3> HIDE DEF Agree
    <3> QED  BY <2>1, <2>2, LeavesParts
  <2> HIDE DEF T
  <2>3. CASE Op(s) = "not"
    <3>1. Op(s) \in Connective
      BY <2>3 DEF Connective
    <3>2. /\ "match" \in m[s][v] => "no" \in m[Arg(s)][v]
          /\ "no" \in m[s][v] => "match" \in m[Arg(s)][v]
      BY <2>2, <2>3, <3>1, FaithfulIs, ConnectedIs
    <3>3. Agree(Arg(s), v)
      BY <2>3, <2>6, ArgumentIsDirect
    <3> QED  BY <2>2, <2>3, <3>2, <3>3, HoldsConnects
  <2>4. CASE Op(s) \in {"and", "or"}
    <3>1. Op(s) \in Connective /\ \A k \in DOMAIN Children(s) : Rebuild[Children(s)[k]] = "match"
      BY <2>4, FaithfulIs DEF Connective
    <3>2. \A k \in DOMAIN Arg(s) : Agree(Arg(s)[k], v)
      BY <2>4, <2>6, ArgumentIsDirect
    <3>3. CASE Op(s) = "and"
      <4>1. "match" \in m[s][v] => \A k \in DOMAIN Arg(s) : "match" \in m[Arg(s)[k]][v]
        BY <2>2, <3>1, <3>3, ConnectedIs
      <4>2. "no" \in m[s][v] => \E k \in DOMAIN Arg(s) : "no" \in m[Arg(s)[k]][v]
        BY <2>2, <3>1, <3>3, ConnectedIs
      <4>3. /\ (\A k \in DOMAIN Arg(s) : TRUE \in h[Arg(s)[k]][v]) => TRUE \in h[s][v]
            /\ (\E k \in DOMAIN Arg(s) : FALSE \in h[Arg(s)[k]][v]) => FALSE \in h[s][v]
        BY <2>2, <3>3, HoldsConnects
      <4> HIDE DEF m, h
      <4> QED  BY <3>2, <4>1, <4>2, <4>3
    <3>4. CASE Op(s) = "or"
      <4>1. "match" \in m[s][v] =>
               Arg(s) = <<>> \/ \E k \in DOMAIN Arg(s) : "match" \in m[Arg(s)[k]][v]
        BY <2>2, <3>1, <3>4, ConnectedIs
      <4>2. "no" \in m[s][v] => Arg(s) # <<>> /\ \A k \in DOMAIN Arg(s) : "no" \in m[Arg(s)[k]][v]
        BY <2>2, <3>1, <3>4, ConnectedIs
      <4>3. /\ Arg(s) = <<>> \/ (\E k \in DOMAIN Arg(s) : TRUE \in h[Arg(s)[k]][v]) =>
                  TRUE \in h[s][v]
            /\ Arg(s) # <<>> /\ (\A k \in DOMAIN Arg(s) : FALSE \in h[Arg(s)[k]][v]) =>
                  FALSE \in h[s][v]
        BY <2>2, <3>4, HoldsConnects
      <4> HIDE DEF m, h
      <4> QED  BY <3>2, <4>1, <4>2, <4>3
    <3> QED  BY <2>4, <3>3, <3>4
  <2>5. CASE Op(s) \notin Connective
    <3>0. Sel(s) \in Selectors /\ Ends(Sel(s)) /\ Fits(Sel(s), v)
      BY <2>2, FaithfulIs, StatementShape, LeavesParts
    <3>1. ASSUME NEW r \in m[s][v], r \in {"match", "no"}
          PROVE  (r = "match" => TRUE \in h[s][v]) /\ (r = "no" => FALSE \in h[s][v])
      <4>1. CASE ResolutionError \in Resolve[Sel(s)][v] /\ r = "no"
        <5>1. {} \in Denotes(Sel(s), v)
          BY <2>2, <3>0, <4>1, DenotesIs
        <5> QED  BY <2>2, <2>5, <4>1, <5>1, HoldsFails
      <4>2. CASE \E x \in Values : Selected(s, v, r, x)
        <5>1. PICK x \in Values : Selected(s, v, r, x)
          BY <4>2
        <5>2. Value(x) \in Resolve[Sel(s)][v]
          BY <5>1 DEF Selected
        <5>3. PICK w \in Values : /\ {w} \in Denotes(Sel(s), v)
                                  /\ Kind(w) = Kind(x) /\ Data(w) = Data(x)
                                  /\ IsBytes(w) <=> IsBytes(x)
          BY <2>2, <3>0, <5>2, DenotesIs DEF Meant
        <5>4. CASE Op(s) \in Comparison \cup {"like"}
          <6>1. r = Compare(s, x)
            BY <5>1, <5>4 DEF Selected
          <6>2. Compare(s, x) = "match" <=> Satisfies(s, w, <<>>)
            <7>1. CASE Op(s) \in {"==", "!="}
              <8>1. Arg(s) \in Canonic
                BY <7>1, StatementShape DEF Comparison
              <8>2. Plain[x] = Plain[Arg(s)] <=> x = Arg(s)
                BY <3>0, <5>2, <7>1, <8>1, FaithfulIs, DeepEqual
              <8>3. CASE Op(s) = "=="
                BY <5>3, <5>4, <8>2, <8>3, CompareMeans
              <8>4. CASE Op(s) = "!="
                BY <5>3, <5>4, <8>2, <8>4, CompareMeans
              <8> QED  BY <7>1, <8>3, <8>4
            <7>2. CASE Op(s) \notin {"==", "!="}
              BY <5>3, <5>4, <7>2, CompareMeans
            <7> QED  BY <7>1, <7>2
          <6> QED  BY <2>2, <3>1, <5>3, <5>4, <6>1, <6>2, HoldsSays
        <5>5. CASE Op(s) \in Quantifier
          <6>0. r \in Ranges(s, x, MatchStatement) /\ v \in Free
            BY <2>2, <5>1, <5>5, LeavesParts DEF Selected
          <6>1. IsIterable(x) <=> IsCollection(x)
            BY <3>0, <5>2, <6>0, QuantifiesFree
          <6>2. \A p \in Places(x) : Agree(Arg(s), Data(x)[p])
            <7>1. Value(x) \in FitOutcomes
              BY <3>0, <5>2, FitResolves
            <7>2. x \in Settled
              BY <7>1, OutcomeParts DEF FitOutcomes
            <7>3. \A p \in Places(x) : Data(x)[p] \in Canonic
              BY <7>2, SettledParts
            <7>4. \A p \in Places(x) : Leaves(Arg(s), Data(x)[p])
              BY <3>0, <5>2, <6>0, QuantifiesFree
            <7> HIDE DEF Agree
            <7> QED  BY <2>1, <5>5, <7>3, <7>4, ArgumentIsDirect
          <6>3. CASE ~IsCollection(x)
            <7>1. r = "no"
              BY <5>5, <6>0, <6>3, QuantifiedIs
            <7>2. FALSE \in h[s][v]
              BY <2>2, <5>3, <5>5, <6>1, <6>3, HoldsEach
            <7> QED  BY <7>1, <7>2
          <6>4. CASE IsCollection(x) /\ Op(s) = "all"
            <7>1. r = "match" => \A p \in Places(x) : "match" \in m[Arg(s)][Data(x)[p]]
              BY <5>5, <6>0, <6>4, QuantifiedIs
            <7>2. r = "no" => \E p \in Places(x) : "no" \in m[Arg(s)][Data(x)[p]]
              BY <5>5, <6>0, <6>4, QuantifiedIs
            <7>3. /\ (\A p \in Places(x) : TRUE \in h[Arg(s)][Data(x)[p]]) => TRUE \in h[s][v]
                  /\ (\E p \in Places(x) : FALSE \in h[Arg(s)][Data(x)[p]]) => FALSE \in h[s][v]
              BY <2>2, <5>3, <5>5, <6>1, <6>4, HoldsEach
            <7> HIDE DEF m, h
            <7> QED  BY <6>2, <7>1, <7>2, <7>3
          <6>5. CASE IsCollection(x) /\ Op(s) = "any"
            <7>1. r = "match" => \E p \in Places(x) : "match" \in m[Arg(s)][Data(x)[p]]
              BY <5>5, <6>0, <6>5, QuantifiedIs
            <7>2. r = "no" => \A p \in Places(x) : "no" \in m[Arg(s)][Data(x)[p]]
              BY <5>5, <6>0, <6>5, QuantifiedIs
            <7>3. /\ (\E p \in Places(x) : TRUE \in h[Arg(s)][Data(x)[p]]) => TRUE \in h[s][v]
                  /\ (\A p \in Places(x) : FALSE \in h[Arg(s)][Data(x)[p]]) => FALSE \in h[s][v]
              BY <2>2, <5>3, <5>5, <6>1, <6>5, HoldsEach
            <7> HIDE DEF m, h
            <7> QED  BY <6>2, <7>1, <7>2, <7>3
          <6> QED  BY <5>5, <6>3, <6>4, <6>5 DEF Quantifier
        <5> QED  BY <2>5, <5>4, <5>5, StatementShape DEF Operators
      <4> QED  BY <2>2, <2>5, <3>1, <4>1, <4>2, SelectedIs
    <3> QED  BY <3>1
  <2> QED  BY <2>3, <2>4, <2>5 DEF Connective
<1> HIDE DEF T
<1>2. Statements \subseteq T
  BY <1>1, StatementInduction
<1> QED  BY <1>2 DEF T

-----------------------------------------------------------------------------
\* Every statement of a policy that matched has matched.
LEMMA MatchedAll ==
    ASSUME Evaluated, verdict = "match", NEW k \in DOMAIN policy
    PROVE  /\ policy[k] \in Statements /\ args \in Canonic
           /\ "match" \in MatchStatement[policy[k]][args]
<1>1. /\ policy \in Seq(Statements) /\ i = Len(policy) + 1 /\ args \in Canonic
      /\ \A l \in 1 .. i - 1 : "match" \in MatchStatement[policy[l]][args]
  BY DEF Evaluated
<1>2. k \in 1 .. i - 1 /\ policy[k] \in Statements
  BY <1>1
<1> QED  BY <1>1, <1>2

\* A policy that negates nothing, does not ask for null and leaves bytes whole,
\* with a field directly behind every iterator that is not last, accepts no
\* arguments that it does not mean, whichever orders of their maps the run time
\* chooses.
THEOREM NotWidened == Spec => []NeverWidened
<1>1. Evaluated => NeverWidened
  <2> SUFFICES ASSUME Evaluated, verdict = "match", LeavesBytes, NEW k \in DOMAIN policy,
                      Positive(policy[k]), NamesAfterIterating(policy[k])
               PROVE  TRUE \in Holds[policy[k]][args]
    BY DEF NeverWidened
  <2>1. Leaves(policy[k], args)
    BY DEF Leaves, LeavesBytes
  <2> QED  BY <2>1, MatchedAll, NotWider, CanonicSound
<1> QED  BY <1>1, EvaluatedInductive, PTL

\* Outside the cases where code and meaning are known to part, Match accepts
\* arguments only if the statements of the policy hold of them, and refuses them
\* only if one does not, each for some orders of their maps.
THEOREM Accepts == Spec => []AcceptsAsMeant
<1>1. Evaluated => AcceptsAsMeant
  <2> SUFFICES ASSUME Evaluated, verdict \in {"match", "no"}, LeavesBytes,
                      \A k \in DOMAIN policy : Faithful(policy[k])
               PROVE  IF verdict = "match"
                      THEN \A k \in DOMAIN policy : TRUE \in Holds[policy[k]][args]
                      ELSE FALSE \in Holds[policy[i]][args]
    BY DEF AcceptsAsMeant
  <2>0. \A k \in DOMAIN policy : Leaves(policy[k], args)
    BY DEF Leaves, LeavesBytes
  <2>1. CASE verdict = "match"
    <3>1. \A k \in DOMAIN policy : TRUE \in Holds[policy[k]][args]
      BY <2>0, <2>1, MatchedAll, AsMeant
    <3> QED  BY <2>1, <3>1
  <2>2. CASE verdict = "no"
    <3>1. /\ i \in DOMAIN policy /\ policy[i] \in Statements /\ args \in Canonic
          /\ "no" \in MatchStatement[policy[i]][args]
      BY <2>2 DEF Evaluated
    <3>2. FALSE \in Holds[policy[i]][args]
      BY <2>0, <3>1, AsMeant
    <3> QED  BY <2>2, <3>2
  <2> QED  BY <2>1, <2>2
<1> QED  BY <1>1, EvaluatedInductive, PTL
=============================================================================
