------------------------- MODULE AnswerParsingProofs -------------------------
(***************************************************************************)
(* Proofs about AnswerParsing, for answers of any length.                  *)
(***************************************************************************)
EXTENDS AnswerParsing, FiniteSetTheorems, SequenceTheorems, TLAPS

-----------------------------------------------------------------------------
(***************************************************************************)
(* Induction, in a form without operator parameters: over a set of         *)
(* numbers, from the least number that is not in it.                       *)
(***************************************************************************)
\* A set of natural numbers has a least element.
LEMMA LeastElement ==
    ASSUME NEW T \in SUBSET Nat, T # {}
    PROVE  \E m \in T : \A k \in T : m <= k
<1> DEFINE Less == OpToRel(<, Nat)
<1>1. IsWellFoundedOn(Less, Nat)
  BY NatLessThanWellFounded
<1>2. \A k, m \in Nat : k < m => <<k, m>> \in Less
  BY DEF OpToRel
<1> HIDE DEF Less
<1>3. PICK m \in T : \A k \in T : ~(<<k, m>> \in Less)
  BY <1>1, WFMin
<1>4. ASSUME NEW k \in T PROVE m <= k
  <2>1. k \in Nat /\ m \in Nat
    OBVIOUS
  <2>2. ~(k < m)
    BY <1>2, <1>3, <2>1
  <2>3. QED  BY <2>1, <2>2
<1>5. QED  BY <1>4

\* A set with zero and the successors of its elements has every number.
LEMMA SetInduction ==
    ASSUME NEW T, 0 \in T, \A n \in Nat : n \in T => n + 1 \in T
    PROVE  \A n \in Nat : n \in T
<1> SUFFICES ASSUME Nat \ T # {} PROVE FALSE
  OBVIOUS
<1>1. PICK m \in Nat \ T : \A k \in Nat \ T : m <= k
  BY LeastElement
<1>2. m # 0
  OBVIOUS
<1>3. m - 1 \in Nat /\ m = (m - 1) + 1 /\ ~(m <= m - 1)
  BY <1>2
<1>4. m - 1 \in T
  BY <1>1, <1>3
<1>5. QED  BY <1>3, <1>4

\* What holds of the first value and is kept by every step holds throughout.
LEMMA Throughout ==
    ASSUME NEW S, NEW n \in Nat, NEW f, f[0] \in S,
           \A k \in 1..n : f[k - 1] \in S => f[k] \in S
    PROVE  \A k \in 0..n : f[k] \in S
<1> DEFINE T == {k \in Nat : k <= n => f[k] \in S}
<1>1. 0 \in T
  OBVIOUS
<1>2. ASSUME NEW k \in Nat, k \in T PROVE k + 1 \in T
  <2> SUFFICES ASSUME k + 1 <= n PROVE f[k + 1] \in S
    OBVIOUS
  <2>1. k + 1 \in 1..n /\ f[(k + 1) - 1] = f[k] /\ k <= n
    OBVIOUS
  <2>2. f[k] \in S
    BY <1>2, <2>1
  <2>3. QED  BY <2>1, <2>2
<1> HIDE DEF T
<1>3. \A k \in Nat : k \in T
  BY <1>1, <1>2, SetInduction
<1>4. QED  BY <1>3 DEF T

\* f starts with first and takes a step at every place up to n.
Follows(f, S, n, first, step) ==
    f \in [0..n -> S] /\ f[0] = first /\ \A k \in 1..n : f[k] = step[k][f[k - 1]]

\* A first value and a step for every place make a function.
LEMMA Recurrence ==
    ASSUME NEW S, NEW n \in Nat, NEW first \in S, NEW step \in [1..n -> [S -> S]]
    PROVE  \E f : Follows(f, S, n, first, step)
<1> DEFINE Good(m, f) == Follows(f, S, m, first, step)
           T == {m \in Nat : m <= n => \E f : Good(m, f)}
<1>1. 0 \in T
  <2>1. Good(0, [k \in 0..0 |-> first])
    BY DEF Follows
  <2> HIDE DEF Good
  <2>2. QED  BY <2>1
<1>2. ASSUME NEW m \in Nat, m \in T, m + 1 <= n PROVE \E f : Good(m + 1, f)
  <2>1. PICK f : f \in [0..m -> S] /\ f[0] = first /\ \A k \in 1..m : f[k] = step[k][f[k - 1]]
    BY <1>2 DEF Follows
  <2> DEFINE g == [k \in 0..m + 1 |-> IF k = m + 1 THEN step[m + 1][f[m]] ELSE f[k]]
  <2>2. step[m + 1][f[m]] \in S
    BY <1>2, <2>1
  <2>3. g \in [0..m + 1 -> S]
    BY <2>1, <2>2
  <2>4. g[0] = first
    BY <2>1
  <2>5. ASSUME NEW k \in 1..m + 1 PROVE g[k] = step[k][g[k - 1]]
    <3>1. CASE k = m + 1
      BY <2>1, <3>1
    <3>2. CASE k # m + 1
      <4>1. k \in 1..m /\ g[k] = f[k] /\ g[k - 1] = f[k - 1]
        BY <2>1, <2>5, <3>2
      <4>2. QED  BY <2>1, <4>1
    <3>3. QED  BY <3>1, <3>2
  <2>6. Good(m + 1, g)
    BY <2>3, <2>4, <2>5 DEF Follows
  <2> HIDE DEF Good
  <2>7. QED  BY <2>6
<1> HIDE DEF Good
<1>3. \A m \in Nat : m \in T => m + 1 \in T
  BY <1>2
<1> HIDE DEF T
<1>4. n \in T
  BY <1>1, <1>3, SetInduction
<1>5. QED  BY <1>4 DEF T, Good

-----------------------------------------------------------------------------
(***************************************************************************)
(* The walk along the aliases.                                             *)
(***************************************************************************)
\* What an answer holds.
LEMMA RecordsTypes ==
    ASSUME NEW a \in Seq(Records), NEW k \in DOMAIN a
    PROVE  a[k].owner \in Names /\ (a[k].type = "CNAME" => a[k].body \in Names)
<1>1. a[k] \in Records
  BY LenProperties
<1>2. QED  BY <1>1 DEF Records

\* The first alias of a name, if it has any.
LEMMA FirstPlace ==
    ASSUME NEW a \in Seq(Records), NEW owner \in Names, HasAlias(a, Fold[owner])
    PROVE  \E k \in DOMAIN a :
              /\ a[k].type = "CNAME" /\ Fold[a[k].owner] = Fold[owner]
              /\ cnameTarget(a, owner) = a[k].body
              /\ FirstAlias(a, Fold[owner]) = Fold[a[k].body]
<1> DEFINE at == {k \in DOMAIN a : IsAliasOf(a[k], owner)}
           k == CHOOSE k \in at : \A j \in at : k <= j
<1>1. at \in SUBSET Nat /\ at # {} /\ DOMAIN a = 1..Len(a) /\ Len(a) \in Nat
  BY LenProperties DEF HasAlias, IsAliasOf, nameEqual
<1>2. k \in at /\ \A j \in at : k <= j
  <2> HIDE DEF at
  <2>1. QED  BY <1>1, LeastElement
<1>3. cnameTarget(a, owner) = a[k].body
  BY <1>1 DEF cnameTarget
<1>4. \A j \in DOMAIN a : j \in at <=> a[j].type = "CNAME" /\ Fold[a[j].owner] = Fold[owner]
  BY DEF IsAliasOf, nameEqual
<1>5. at \subseteq DOMAIN a
  OBVIOUS
<1> DEFINE l == CHOOSE j \in DOMAIN a :
                    /\ a[j].type = "CNAME" /\ Fold[a[j].owner] = Fold[owner]
                    /\ \A i \in 1..j - 1 : ~(a[i].type = "CNAME" /\ Fold[a[i].owner] = Fold[owner])
<1>6. FirstAlias(a, Fold[owner]) = Fold[a[l].body]
  BY DEF FirstAlias
<1> HIDE DEF at, k
<1>7. l \in at /\ \A i \in 1..l - 1 : i \notin at
  <2>1. \A i \in 1..k - 1 : i \in DOMAIN a /\ i \notin at
    BY <1>1, <1>2, <1>5
  <2>2. \E j \in DOMAIN a :
            /\ a[j].type = "CNAME" /\ Fold[a[j].owner] = Fold[owner]
            /\ \A i \in 1..j - 1 : ~(a[i].type = "CNAME" /\ Fold[a[i].owner] = Fold[owner])
    BY <1>2, <1>4, <1>5, <2>1
  <2>3. /\ l \in DOMAIN a /\ a[l].type = "CNAME" /\ Fold[a[l].owner] = Fold[owner]
        /\ \A i \in 1..l - 1 : ~(a[i].type = "CNAME" /\ Fold[a[i].owner] = Fold[owner])
    BY <2>2
  <2> HIDE DEF l
  <2>4. QED  BY <1>4, <1>5, <2>3
<1> HIDE DEF l
<1>8. l = k
  <2>1. k \in Nat /\ l \in Nat /\ k <= l /\ k >= 1
    BY <1>1, <1>2, <1>5, <1>7
  <2>2. ~(k <= l - 1)
    BY <1>2, <1>7, <2>1
  <2>3. QED  BY <2>1, <2>2
<1>9. QED  BY <1>2, <1>3, <1>4, <1>5, <1>6, <1>8

\* A step of the walk goes to the first alias, or stays where there is none.
LEMMA StepOfTheWalk ==
    ASSUME NEW a \in Seq(Records), NEW owner \in Names
    PROVE  /\ cnameTarget(a, owner) \in Names
           /\ HasAlias(a, Fold[owner]) => Fold[cnameTarget(a, owner)] = FirstAlias(a, Fold[owner])
           /\ ~HasAlias(a, Fold[owner]) => cnameTarget(a, owner) = owner
<1>1. CASE HasAlias(a, Fold[owner])
  BY <1>1, FirstPlace, RecordsTypes
<1>2. CASE ~HasAlias(a, Fold[owner])
  <2>1. {k \in DOMAIN a : IsAliasOf(a[k], owner)} = {}
    BY <1>2 DEF HasAlias, IsAliasOf, nameEqual
  <2>2. cnameTarget(a, owner) = owner
    BY <2>1 DEF cnameTarget
  <2>3. QED  BY <1>2, <2>2
<1>3. QED  BY <1>1, <1>2

\* The names that the loop of parseAnswer passes through.
IsWalk(w, a, qname) ==
    /\ w \in [0..Len(a) -> Names] /\ w[0] = qname
    /\ \A k \in 1..Len(a) : w[k] = cnameTarget(a, w[k - 1])

\* The walk is defined, and parseAnswer's owner is its last name.
LEMMA WalkExists ==
    ASSUME NEW a \in Seq(Records), NEW qname \in Names
    PROVE  \E w : IsWalk(w, a, qname) /\ ChainOwner(a, qname) = w[Len(a)]
<1> DEFINE L == Len(a)
           F(g) == [n \in 0..L |-> IF n = 0 THEN qname ELSE cnameTarget(a, g[n - 1])]
           w == CHOOSE g : g = F(g)
<1>1. L \in Nat
  BY LenProperties
<1>2. ChainOwner(a, qname) = w[L]
  BY DEF ChainOwner
<1> HIDE DEF L
<1>3. \E g : g = F(g)
  <2> DEFINE step == [k \in 1..L |-> [n \in Names |-> cnameTarget(a, n)]]
  <2>1. step \in [1..L -> [Names -> Names]]
    BY StepOfTheWalk
  <2>2. \A k \in 1..L, n \in Names : step[k][n] = cnameTarget(a, n)
    OBVIOUS
  <2> HIDE DEF step
  <2>3. PICK g \in [0..L -> Names] : g[0] = qname /\ \A k \in 1..L : g[k] = step[k][g[k - 1]]
    <3>1. \E g : Follows(g, Names, L, qname, step)
      BY <1>1, <2>1, Recurrence
    <3>2. QED  BY <3>1 DEF Follows
  <2>4. \A k \in 1..L : g[k - 1] \in Names
    BY <1>1, <2>3
  <2>5. \A k \in 1..L : g[k] = cnameTarget(a, g[k - 1])
    BY <2>2, <2>3, <2>4
  <2>6. g = [k \in 0..L |-> IF k = 0 THEN qname ELSE cnameTarget(a, g[k - 1])]
    BY <1>1, <2>3, <2>5
  <2>7. QED  BY <2>6
<1>4. w = F(w)
  <2> HIDE DEF F
  <2>1. QED  BY <1>3
<1> HIDE DEF w
<1>5. w[0] = qname /\ \A k \in 1..L : w[k] = cnameTarget(a, w[k - 1])
  BY <1>1, <1>4
<1>6. \A k \in 0..L : w[k] \in Names
  BY <1>1, <1>5, StepOfTheWalk, Throughout
<1>7. w \in [0..L -> Names]
  BY <1>4, <1>6
<1>8. QED  BY <1>2, <1>5, <1>7 DEF IsWalk, L

\* From a name without an alias the walk goes nowhere.
LEMMA WalkStays ==
    ASSUME NEW a \in Seq(Records), NEW qname \in Names, NEW w, IsWalk(w, a, qname),
           NEW i \in 0..Len(a), ~HasAlias(a, Fold[w[i]])
    PROVE  \A j \in i..Len(a) : w[j] = w[i]
<1> DEFINE L == Len(a)
           f == [k \in 0..L - i |-> w[i + k]]
<1>1. L \in Nat /\ i \in Nat /\ i <= L /\ L - i \in Nat
  BY LenProperties
<1>2. \A k \in 0..L - i : f[k] = w[i + k]
  OBVIOUS
<1>3. w[i] \in Names /\ \A k \in 1..L : w[k] = cnameTarget(a, w[k - 1])
  BY DEF IsWalk
<1>4. cnameTarget(a, w[i]) = w[i]
  BY <1>3, StepOfTheWalk
<1> HIDE DEF f, L
<1>5. f[0] \in {w[i]}
  BY <1>1, <1>2
<1>6. ASSUME NEW k \in 1..L - i, f[k - 1] \in {w[i]} PROVE f[k] \in {w[i]}
  <2>1. k \in 0..L - i /\ k - 1 \in 0..L - i /\ i + k \in 1..L /\ (i + k) - 1 = i + (k - 1)
    BY <1>1, <1>6
  <2>2. w[i + k] = cnameTarget(a, w[i + (k - 1)])
    BY <1>3, <2>1
  <2>3. w[i + (k - 1)] = w[i]
    BY <1>2, <1>6, <2>1
  <2>4. QED  BY <1>2, <1>4, <2>1, <2>2, <2>3
<1>7. \A k \in 0..L - i : f[k] \in {w[i]}
  <2> DEFINE n == L - i
             Here == {w[i]}
  <2>1. n \in Nat /\ f[0] \in Here /\ \A k \in 1..n : f[k - 1] \in Here => f[k] \in Here
    BY <1>1, <1>5, <1>6
  <2> HIDE DEF n, Here
  <2>2. \A k \in 0..n : f[k] \in Here
    BY <2>1, Throughout
  <2>3. QED  BY <2>2 DEF n, Here
<1>8. ASSUME NEW j \in i..L PROVE w[j] = w[i]
  <2>1. j - i \in 0..L - i /\ i + (j - i) = j
    BY <1>1, <1>8
  <2>2. QED  BY <1>2, <1>7, <2>1
<1>9. QED  BY <1>8 DEF L

\* Names that are closed under first aliases.
Followed(S, a, qname) ==
    /\ Fold[qname] \in S
    /\ \A c \in S : HasAlias(a, c) => FirstAlias(a, c) \in S

\* The chain is within every such set, and the walk is on the chain.
LEMMA ChainIsLeast ==
    ASSUME NEW a, NEW qname
    PROVE  /\ \A S \in SUBSET Canonical : Followed(S, a, qname) => OnChain(a, qname) \subseteq S
           /\ \A c \in Canonical :
                 (\A S \in SUBSET Canonical : Followed(S, a, qname) => c \in S) => c \in OnChain(a, qname)
  BY DEF OnChain, Followed

\* The names of the walk are canonical names of the chain.
LEMMA WalkIsOnChain ==
    ASSUME NEW a \in Seq(Records), NEW qname \in Names, NEW w, IsWalk(w, a, qname)
    PROVE  \A i \in 0..Len(a) : Fold[w[i]] \in Canonical /\ Fold[w[i]] \in OnChain(a, qname)
<1>1. Len(a) \in Nat /\ \A i \in 0..Len(a) : w[i] \in Names
  BY LenProperties DEF IsWalk
<1>2. \A i \in 0..Len(a) : Fold[w[i]] \in Canonical
  BY <1>1 DEF Canonical
<1>3. ASSUME NEW S \in SUBSET Canonical, Followed(S, a, qname)
      PROVE  \A i \in 0..Len(a) : Fold[w[i]] \in S
  <2> DEFINE In == {n \in Names : Fold[n] \in S}
  <2>1. w[0] \in In
    BY <1>3 DEF Followed, IsWalk
  <2>2. ASSUME NEW k \in 1..Len(a), w[k - 1] \in In PROVE w[k] \in In
    <3>1. w[k - 1] \in Names /\ Fold[w[k - 1]] \in S /\ w[k] = cnameTarget(a, w[k - 1])
      BY <2>2 DEF IsWalk
    <3>2. w[k] \in Names
      BY <3>1, StepOfTheWalk
    <3>3. Fold[w[k]] \in S
      <4>1. CASE HasAlias(a, Fold[w[k - 1]])
        BY <1>3, <3>1, <4>1, StepOfTheWalk DEF Followed
      <4>2. CASE ~HasAlias(a, Fold[w[k - 1]])
        BY <3>1, <4>2, StepOfTheWalk
      <4>3. QED  BY <4>1, <4>2
    <3>4. QED  BY <3>2, <3>3
  <2> HIDE DEF In
  <2>3. \A k \in 0..Len(a) : w[k] \in In
    BY <1>1, <2>1, <2>2, Throughout
  <2>4. QED  BY <2>3 DEF In
<1>4. QED  BY <1>2, <1>3, ChainIsLeast

\* A walk that stops at a name without an alias stops at the end of the chain.
LEMMA WalkEnds ==
    ASSUME NEW a \in Seq(Records), NEW qname \in Names, NEW w, IsWalk(w, a, qname),
           ~HasAlias(a, Fold[w[Len(a)]])
    PROVE  ChainEnd(a, qname) = {Fold[w[Len(a)]]}
<1> DEFINE L == Len(a)
           S == {Fold[w[j]] : j \in 0..L}
<1>1. L \in Nat
  BY LenProperties
<1>2. w[0] = qname /\ \A j \in 0..L : w[j] \in Names /\ (j \in 1..L => w[j] = cnameTarget(a, w[j - 1]))
  BY DEF IsWalk
<1>3. S \in SUBSET Canonical
  BY WalkIsOnChain
<1>4. Followed(S, a, qname)
  <2>1. Fold[qname] \in S
    BY <1>1, <1>2
  <2>2. ASSUME NEW j \in 0..L, HasAlias(a, Fold[w[j]]) PROVE FirstAlias(a, Fold[w[j]]) \in S
    <3>1. j # L
      BY <2>2
    <3>2. j + 1 \in 0..L /\ j + 1 \in 1..L /\ (j + 1) - 1 = j
      BY <1>1, <2>2, <3>1
    <3>3. w[j + 1] = cnameTarget(a, w[j]) /\ w[j] \in Names
      BY <1>2, <2>2, <3>2
    <3>4. FirstAlias(a, Fold[w[j]]) = Fold[w[j + 1]]
      BY <2>2, <3>3, StepOfTheWalk
    <3>5. QED  BY <3>2, <3>4
  <2>3. QED  BY <2>1, <2>2 DEF Followed
<1>5. OnChain(a, qname) \subseteq S
  BY <1>3, <1>4, ChainIsLeast
<1>6. ASSUME NEW j \in 0..L, ~HasAlias(a, Fold[w[j]]) PROVE Fold[w[j]] = Fold[w[L]]
  <2>1. L \in j..L
    BY <1>1, <1>6
  <2>2. QED  BY <1>6, <2>1, WalkStays
<1>7. Fold[w[L]] \in OnChain(a, qname)
  <2>1. L \in 0..L
    BY <1>1
  <2>2. QED  BY <2>1, WalkIsOnChain
<1>8. QED  BY <1>5, <1>6, <1>7 DEF ChainEnd

\* A walk that stops at a name with an alias has been round a loop.
LEMMA WalkLoops ==
    ASSUME NEW a \in Seq(Records), NEW qname \in Names, NEW w, IsWalk(w, a, qname),
           HasAlias(a, Fold[w[Len(a)]])
    PROVE  ChainEnd(a, qname) = {}
<1> DEFINE L == Len(a)
<1>1. L \in Nat /\ DOMAIN a = 1..L
  BY LenProperties
<1>2. w[0] = qname /\ \A j \in 0..L : w[j] \in Names /\ (j \in 1..L => w[j] = cnameTarget(a, w[j - 1]))
  BY DEF IsWalk
<1>3. ASSUME NEW j \in 0..L PROVE HasAlias(a, Fold[w[j]])
  <2>1. L \in j..L
    BY <1>1, <1>3
  <2>2. QED  BY <1>3, <2>1, WalkStays
<1> DEFINE place == [j \in 0..L |-> CHOOSE k \in 1..L : Fold[a[k].owner] = Fold[w[j]]]
<1>4. \A j \in 0..L : place[j] \in 1..L /\ Fold[a[place[j]].owner] = Fold[w[j]]
  BY <1>1, <1>3 DEF HasAlias
<1>5. place \in [0..L -> 1..L]
  BY <1>4
<1> HIDE DEF place, L
<1>6. PICK i \in 0..L, j \in 0..L : i < j /\ Fold[w[i]] = Fold[w[j]]
  <2>1. /\ IsFiniteSet(0..L) /\ Cardinality(0..L) = L + 1
        /\ IsFiniteSet(1..L) /\ Cardinality(1..L) = L
    <3>1. 0 \in Int /\ 1 \in Int /\ L \in Int
      BY <1>1
    <3>2. IsFiniteSet(0..L) /\ Cardinality(0..L) = IF 0 > L THEN 0 ELSE L - 0 + 1
      BY <3>1, FS_Interval, Zenon
    <3>3. IsFiniteSet(1..L) /\ Cardinality(1..L) = IF 1 > L THEN 0 ELSE L - 1 + 1
      BY <3>1, FS_Interval, Zenon
    <3>4. QED  BY <1>1, <3>2, <3>3
  <2>2. Cardinality(1..L) < Cardinality(0..L)
    BY <1>1, <2>1
  <2>3. PICK x \in 0..L, y \in 0..L : x # y /\ place[x] = place[y]
    BY <1>5, <2>1, <2>2, FS_PigeonHole
  <2>4. Fold[w[x]] = Fold[w[y]]
    BY <1>4, <2>3
  <2>5. x < y \/ y < x
    BY <1>1, <2>3
  <2>6. QED  BY <2>4, <2>5
<1> DEFINE S == {Fold[w[k]] : k \in 0..j - 1}
<1>7. 0..j - 1 \subseteq 0..L /\ 0 \in 0..j - 1 /\ i \in 0..j - 1
  BY <1>1, <1>6
<1>8. S \in SUBSET Canonical
  BY <1>7, WalkIsOnChain DEF L
<1>9. Followed(S, a, qname)
  <2>1. Fold[qname] \in S
    BY <1>2, <1>7
  <2>2. ASSUME NEW k \in 0..j - 1 PROVE FirstAlias(a, Fold[w[k]]) \in S
    <3>1. k \in 0..L /\ k + 1 \in 1..L /\ k + 1 \in 0..L /\ (k + 1) - 1 = k
      BY <1>1, <1>6, <2>2
    <3>2. w[k + 1] = cnameTarget(a, w[k]) /\ w[k] \in Names
      BY <1>2, <3>1
    <3>3. FirstAlias(a, Fold[w[k]]) = Fold[w[k + 1]]
      BY <1>3, <3>1, <3>2, StepOfTheWalk
    <3>4. k + 1 \in 0..j - 1 \/ k + 1 = j
      BY <1>1, <1>6, <2>2
    <3>5. Fold[w[j]] \in S
      BY <1>6, <1>7
    <3>6. QED  BY <3>3, <3>4, <3>5
  <2>3. QED  BY <2>1, <2>2 DEF Followed
<1>10. OnChain(a, qname) \subseteq S
  BY <1>8, <1>9, ChainIsLeast
<1>11. \A c \in S : HasAlias(a, c)
  BY <1>3, <1>7
<1>12. QED  BY <1>10, <1>11 DEF ChainEnd

-----------------------------------------------------------------------------
(***************************************************************************)
(* The records that are taken.                                             *)
(***************************************************************************)
\* Appending the record at a later place adds that place.
LEMMA SelectNext ==
    ASSUME NEW recs \in Seq(Records), NEW a, NEW n \in Nat, NEW D \in SUBSET (1..n), NEW rr,
           rr \in Records, rr = a[n + 1], SelectedFrom(recs, a, D)
    PROVE  SelectedFrom(Append(recs, rr), a, D \cup {n + 1})
<1> DEFINE m == Len(recs)
           longer == Append(recs, rr)
           E == D \cup {n + 1}
<1>1. m \in Nat /\ Len(longer) = m + 1 /\ longer[m + 1] = rr /\ \A i \in 1..m : longer[i] = recs[i]
  BY AppendProperties, LenProperties
<1>2. PICK at \in [1..m -> D] :
         /\ D = {at[i] : i \in 1..m}
         /\ \A i \in 1..m : recs[i] = a[at[i]] /\ \A j \in 1..i - 1 : at[j] < at[i]
  BY DEF SelectedFrom
<1> HIDE DEF m, longer
<1> DEFINE more == [i \in 1..m + 1 |-> IF i = m + 1 THEN n + 1 ELSE at[i]]
<1>3. /\ more \in [1..m + 1 -> E] /\ more[m + 1] = n + 1 /\ \A i \in 1..m : more[i] = at[i]
      /\ 1..m + 1 = 1..m \cup {m + 1}
  BY <1>1, <1>2
<1> HIDE DEF more
<1>4. E = {more[i] : i \in 1..m + 1}
  <2>1. {more[i] : i \in 1..m + 1} = {more[i] : i \in 1..m} \cup {more[m + 1]}
    BY <1>3
  <2>2. {more[i] : i \in 1..m} = {at[i] : i \in 1..m}
    BY <1>3
  <2>3. QED  BY <1>2, <1>3, <2>1, <2>2
<1>5. ASSUME NEW i \in 1..m + 1 PROVE longer[i] = a[more[i]] /\ \A j \in 1..i - 1 : more[j] < more[i]
  <2>1. CASE i = m + 1
    <3>1. longer[i] = a[more[i]]
      BY <1>1, <1>3, <2>1
    <3>2. ASSUME NEW j \in 1..i - 1 PROVE more[j] < more[i]
      <4>1. j \in 1..m
        BY <1>1, <2>1, <3>2
      <4>2. at[j] \in Nat /\ at[j] <= n
        BY <1>2, <4>1
      <4>3. QED  BY <1>3, <2>1, <4>1, <4>2
    <3>3. QED  BY <3>1, <3>2
  <2>2. CASE i \in 1..m
    <3>1. longer[i] = recs[i] /\ more[i] = at[i]
      BY <1>1, <1>3, <2>2
    <3>2. \A j \in 1..i - 1 : more[j] = at[j]
      BY <1>1, <1>3, <2>2
    <3>3. QED  BY <1>2, <2>2, <3>1, <3>2
  <2>3. QED  BY <1>3, <1>5, <2>1, <2>2
<1>6. SelectedFrom(longer, a, E)
  BY <1>1, <1>3, <1>4, <1>5 DEF SelectedFrom
<1>7. QED  BY <1>6 DEF longer

\* The loop of parseAnswer takes the queried records of the owner, in their order.
LEMMA RecordsTaken ==
    ASSUME NEW a \in Seq(Records), NEW owner \in Names, NEW t
    PROVE  /\ RecordsOf(a, owner, t) \in Seq(Records)
           /\ SelectedFrom(RecordsOf(a, owner, t), a,
                           {k \in DOMAIN a : a[k].type = t /\ Fold[a[k].owner] = Fold[owner]})
<1> DEFINE L == Len(a)
           F(g) == [n \in 0..L |-> IF n = 0 THEN <<>>
                                  ELSE IF a[n].type = t /\ nameEqual(a[n].owner, owner)
                                  THEN Append(g[n - 1], a[n]) ELSE g[n - 1]]
           f == CHOOSE g : g = F(g)
           due == {k \in 1..L : a[k].type = t /\ Fold[a[k].owner] = Fold[owner]}
           Extended(k, s) == IF k \in due THEN Append(s, a[k]) ELSE s
<1>1. L \in Nat /\ DOMAIN a = 1..L /\ \A k \in 1..L : a[k] \in Records
  BY LenProperties
<1>2. RecordsOf(a, owner, t) = f[L]
  BY DEF RecordsOf
<1> HIDE DEF L
<1>3. \A g : F(g) = [n \in 0..L |-> IF n = 0 THEN <<>> ELSE Extended(n, g[n - 1])]
  BY <1>1 DEF nameEqual
<1>4. \A k \in 1..L, s \in Seq(Records) : Extended(k, s) \in Seq(Records)
  BY <1>1
<1> HIDE DEF due, Extended
<1>5. \E g : g = F(g)
  <2> HIDE DEF F
  <2> DEFINE step == [k \in 1..L |-> [s \in Seq(Records) |-> Extended(k, s)]]
  <2>1. step \in [1..L -> [Seq(Records) -> Seq(Records)]]
    BY <1>4
  <2>2. \A k \in 1..L, s \in Seq(Records) : step[k][s] = Extended(k, s)
    OBVIOUS
  <2> HIDE DEF step
  <2>3. <<>> \in Seq(Records)
    OBVIOUS
  <2>4. PICK g : Follows(g, Seq(Records), L, <<>>, step)
    BY <1>1, <2>1, <2>3, Recurrence
  <2>5. g \in [0..L -> Seq(Records)] /\ g[0] = <<>> /\ \A k \in 1..L : g[k] = step[k][g[k - 1]]
    BY <2>4 DEF Follows
  <2>6. \A k \in 1..L : g[k - 1] \in Seq(Records)
    BY <1>1, <2>5
  <2>7. \A k \in 1..L : g[k] = Extended(k, g[k - 1])
    BY <2>2, <2>5, <2>6
  <2>8. g = [n \in 0..L |-> IF n = 0 THEN <<>> ELSE Extended(n, g[n - 1])]
    BY <1>1, <2>5, <2>7
  <2>9. QED  BY <1>3, <2>8
<1>6. f = F(f)
  <2> HIDE DEF F
  <2>1. QED  BY <1>5
<1> HIDE DEF f, F
<1>7. f[0] = <<>> /\ \A k \in 1..L : f[k] = Extended(k, f[k - 1])
  <2>1. f = [n \in 0..L |-> IF n = 0 THEN <<>> ELSE Extended(n, f[n - 1])]
    BY <1>3, <1>6
  <2>2. QED  BY <1>1, <2>1
<1>8. \A k \in 0..L : f[k] \in Seq(Records)
  <2>1. f[0] \in Seq(Records)
    BY <1>7
  <2>2. \A k \in 1..L : f[k - 1] \in Seq(Records) => f[k] \in Seq(Records)
    BY <1>4, <1>7
  <2>3. QED  BY <1>1, <2>1, <2>2, Throughout
<1> DEFINE D(n) == due \cap (1..n)
           T == {n \in Nat : n <= L => SelectedFrom(f[n], a, D(n))}
<1>9. 0 \in T
  <2>1. Len(<<>>) = 0 /\ 1..0 = {} /\ D(0) = {}
    OBVIOUS
  <2>2. SelectedFrom(<<>>, a, {})
    <3>1. [i \in 1..0 |-> 0] \in [1..0 -> {}]
      OBVIOUS
    <3>2. QED  BY <2>1, <3>1 DEF SelectedFrom
  <2>3. QED  BY <1>7, <2>1, <2>2
<1>10. ASSUME NEW n \in Nat, n \in T, n + 1 <= L PROVE SelectedFrom(f[n + 1], a, D(n + 1))
  <2>1. SelectedFrom(f[n], a, D(n)) /\ n + 1 \in 1..L /\ (n + 1) - 1 = n /\ n \in 0..L
    BY <1>1, <1>10
  <2>2. f[n + 1] = Extended(n + 1, f[n])
    BY <1>7, <2>1
  <2>3. D(n) \in SUBSET (1..n) /\ a[n + 1] \in Records /\ f[n] \in Seq(Records)
    BY <1>1, <1>8, <2>1
  <2>4. CASE n + 1 \in due
    <3>1. D(n + 1) = D(n) \cup {n + 1}
      BY <2>4
    <3> HIDE DEF D
    <3>2. SelectedFrom(Append(f[n], a[n + 1]), a, D(n) \cup {n + 1})
      BY <2>1, <2>3, SelectNext
    <3>3. QED  BY <2>2, <2>4, <3>1, <3>2 DEF Extended
  <2>5. CASE n + 1 \notin due
    <3>1. D(n + 1) = D(n)
      BY <2>5
    <3>2. QED  BY <2>1, <2>2, <2>5, <3>1 DEF Extended
  <2>6. QED  BY <2>4, <2>5
<1> HIDE DEF D
<1>11. \A n \in Nat : n \in T => n + 1 \in T
  BY <1>10
<1> HIDE DEF T
<1>12. L \in T
  BY <1>1, <1>9, <1>11, SetInduction
<1>13. SelectedFrom(f[L], a, due) /\ f[L] \in Seq(Records)
  <2>1. D(L) = due
    BY DEF D, due
  <2>2. L \in 0..L
    BY <1>1
  <2>3. QED  BY <1>1, <1>8, <1>12, <2>1, <2>2 DEF T
<1>14. QED  BY <1>1, <1>2, <1>13 DEF due

\* However an answer is ordered and spelt and whatever loops its aliases make,
\* the records of it are exactly the queried ones of the name where the chain
\* ends, in their order, and if it never ends they are of a name on the loop.
THEOREM AnswerOfEveryChain ==
    ASSUME NEW a \in Seq(Records), NEW qname \in Names, NEW qtype
    PROVE  LET ends == IF qtype = "CNAME" THEN {Fold[qname]} ELSE ChainEnd(a, qname)
               recs == parseAnswer(a, qname, qtype).recs
               due == {k \in DOMAIN a : a[k].type = qtype /\ Fold[a[k].owner] \in ends}
           IN  IF ends # {} THEN SelectedFrom(recs, a, due)
               ELSE \A k \in DOMAIN recs : Fold[recs[k].owner] \in OnChain(a, qname)
<1> DEFINE owner == IF qtype = "CNAME" THEN qname ELSE ChainOwner(a, qname)
           recs == parseAnswer(a, qname, qtype).recs
           ends == IF qtype = "CNAME" THEN {Fold[qname]} ELSE ChainEnd(a, qname)
           at == {k \in DOMAIN a : a[k].type = qtype /\ Fold[a[k].owner] = Fold[owner]}
<1>1. recs = RecordsOf(a, owner, qtype)
  BY DEF parseAnswer
<1>2. PICK w : IsWalk(w, a, qname) /\ ChainOwner(a, qname) = w[Len(a)]
  BY WalkExists
<1>3. Len(a) \in Nat /\ w[Len(a)] \in Names /\ Fold[w[Len(a)]] \in OnChain(a, qname)
  <2>1. Len(a) \in 0..Len(a) /\ Len(a) \in Nat
    BY LenProperties
  <2>2. QED  BY <1>2, <2>1, WalkIsOnChain DEF IsWalk
<1>4. owner \in Names
  BY <1>2, <1>3
<1>5. ends # {} => ends = {Fold[owner]}
  BY <1>2, WalkEnds, WalkLoops
<1>6. ends = {} => Fold[owner] \in OnChain(a, qname)
  BY <1>2, <1>3
<1> HIDE DEF owner, ends, recs
<1>7. recs \in Seq(Records) /\ SelectedFrom(recs, a, at)
  BY <1>1, <1>4, RecordsTaken
<1>8. CASE ends # {}
  <2>1. {k \in DOMAIN a : a[k].type = qtype /\ Fold[a[k].owner] \in ends} = at
    BY <1>5, <1>8
  <2>2. QED  BY <1>7, <1>8, <2>1 DEF ends, recs
<1>9. CASE ends = {}
  <2>1. ASSUME NEW k \in DOMAIN recs PROVE Fold[recs[k].owner] = Fold[owner]
    <3>1. k \in 1..Len(recs)
      BY <1>7, <2>1, LenProperties
    <3>2. QED  BY <1>7, <3>1 DEF SelectedFrom
  <2>2. QED  BY <1>6, <1>9, <2>1 DEF ends, recs
<1>10. QED  BY <1>8, <1>9
=============================================================================
