---------------------------- MODULE JsMap_proofs ----------------------------
(***************************************************************************)
(* What filtering and deleting do to the entries of a Map, and where paths *)
(* lead, for sequences of any length.                                      *)
(***************************************************************************)
EXTENDS HostPaths, TLAPS, WellFoundedInduction, NaturalsInduction

\* Induction over the naturals, stated of a set.
LEMMA NatInduct ==
    ASSUME NEW T \in SUBSET Nat, 0 \in T, \A n \in T : n + 1 \in T
    PROVE  T = Nat
<1>1. SUFFICES ASSUME Nat \ T # {} PROVE FALSE
  OBVIOUS
<1>2. \E x \in Nat \ T : \A y \in Nat \ T : ~(<<y, x>> \in OpToRel(<, Nat))
  BY <1>1, NatLessThanWellFounded, WFMin
<1>3. PICK x \in Nat \ T : \A y \in Nat \ T : ~(y < x)
  BY <1>2 DEF OpToRel
<1>4. x # 0 /\ x - 1 \in Nat
  BY <1>3
<1>5. x - 1 \in T
  BY <1>3, <1>4
<1>6. (x - 1) + 1 \in T
  BY <1>5
<1>7. QED BY <1>3, <1>4, <1>6

\* f is the recursive function over 0..L with these steps.
Solves(f, V, first, L, step) ==
    /\ f \in [0..L -> V]
    /\ \A m \in 0..L : f[m] = IF m = 0 THEN first ELSE step[m][f[m - 1]]

\* A recursive definition over the first L numbers has a solution when every
\* step leads from values V to values V: by induction on how far it is built.
LEMMA StepsExist ==
    ASSUME NEW V, NEW first \in V, NEW L \in Nat, NEW step \in [1..L -> [V -> V]]
    PROVE  \E f : Solves(f, V, first, L, step)
<1> DEFINE Good(n, f) == \A m \in 0..L : m <= n =>
             f[m] = IF m = 0 THEN first ELSE step[m][f[m - 1]]
           T == {n \in Nat : \E f \in [0..L -> V] : Good(n, f)}
<1>1. 0 \in T
  <2>1. [n \in 0..L |-> first] \in [0..L -> V]
    OBVIOUS
  <2>2. Good(0, [n \in 0..L |-> first])
    OBVIOUS
  <2>3. QED BY <2>1, <2>2
<1>2. ASSUME NEW n \in T PROVE n + 1 \in T
  <2>1. PICK f \in [0..L -> V] : Good(n, f)
    OBVIOUS
  <2> HIDE DEF Good
  <2>2. CASE n + 1 \in 0..L
    <3> DEFINE v == step[n + 1][f[n]]
               g == [f EXCEPT ![n + 1] = v]
    <3>1. n \in 0..L /\ n + 1 \in 1..L
      BY <2>2
    <3>2. f[n] \in V /\ step[n + 1] \in [V -> V]
      BY <3>1
    <3>3. v \in V
      BY <3>2
    <3> HIDE DEF v
    <3>4. g \in [0..L -> V]
      BY <3>3
    <3>5. g[n + 1] = v /\ \A m \in 0..L : m # n + 1 => g[m] = f[m]
      BY <2>2
    <3> HIDE DEF g
    <3>6. ASSUME NEW m \in 0..L, m <= n + 1
          PROVE  g[m] = IF m = 0 THEN first ELSE step[m][g[m - 1]]
      <4>1. CASE m = n + 1
        <5>1. g[n] = f[n]
          BY <3>1, <3>5
        <5>2. m # 0 /\ m - 1 = n
          BY <4>1, <3>1
        <5>3. QED BY <5>1, <5>2, <4>1, <3>5 DEF v
      <4>2. CASE m <= n
        <5>1. m \in 0..L /\ (m # 0 => m - 1 \in 0..L /\ m - 1 # n + 1) /\ m # n + 1
          BY <4>2
        <5>2. g[m] = f[m] /\ (m # 0 => g[m - 1] = f[m - 1])
          BY <5>1, <3>5
        <5>3. QED BY <5>2, <2>1, <4>2 DEF Good
      <4>3. QED BY <4>1, <4>2, <3>6
    <3>7. Good(n + 1, g)
      BY <3>6 DEF Good
    <3>8. QED BY <3>4, <3>7
  <2>3. CASE n + 1 \notin 0..L
    <3>1. \A m \in 0..L : m <= n
      BY <2>3
    <3>2. Good(n + 1, f)
      BY <3>1, <2>1 DEF Good
    <3>3. QED BY <3>2
  <2>4. QED BY <2>2, <2>3
<1>3. T = Nat
  <2> HIDE DEF T
  <2>1. T \in SUBSET Nat
    BY DEF T
  <2>2. QED BY <1>1, <1>2, <2>1, NatInduct
<1>4. PICK f \in [0..L -> V] : Good(L, f)
  BY <1>3
<1>5. QED BY <1>4 DEF Solves

\* Whatever starts as a solution does and goes on by its steps is the solution.
LEMMA FollowsSteps ==
    ASSUME NEW V, NEW first, NEW L \in Nat, NEW step, NEW f, Solves(f, V, first, L, step),
           NEW g, g[0] = first,
           \A m \in 1..L : g[m - 1] \in V => g[m] = step[m][g[m - 1]]
    PROVE  g[L] = f[L]
<1> DEFINE T == {n \in Nat : n \in 0..L => g[n] = f[n]}
<1>1. 0 \in T
  BY DEF Solves
<1>2. ASSUME NEW n \in T PROVE n + 1 \in T
  <2>1. SUFFICES ASSUME n + 1 \in 0..L PROVE g[n + 1] = f[n + 1]
    OBVIOUS
  <2>2. n \in 0..L /\ n + 1 \in 1..L /\ (n + 1) - 1 = n /\ n + 1 # 0
    BY <2>1
  <2>3. g[n] = f[n] /\ f[n] \in V /\ f[n + 1] = step[n + 1][f[n]]
    BY <2>1, <2>2 DEF Solves
  <2>4. QED BY <2>2, <2>3
<1>3. T = Nat
  <2> HIDE DEF T
  <2>1. T \in SUBSET Nat
    BY DEF T
  <2>2. QED BY <1>1, <1>2, <2>1, NatInduct
<1>4. QED BY <1>3

\* One more entry of seq goes into the filter built so far.
KeptStep(seq, S, f) ==
    [n \in 0..Len(seq) |->
        IF n = 0 THEN <<>>
        ELSE IF seq[n] \in S THEN Append(f[n - 1], seq[n]) ELSE f[n - 1]]

\* The recursive definition of the filter has a solution.
LEMMA KeptExists ==
    ASSUME NEW K, NEW seq \in Seq(K), NEW S
    PROVE  \E f \in [0..Len(seq) -> Seq(K)] : f = KeptStep(seq, S, f)
<1> DEFINE L == Len(seq)
           step == [m \in 1..L |-> [t \in Seq(K) |->
                      IF seq[m] \in S THEN Append(t, seq[m]) ELSE t]]
<1>1. L \in Nat /\ <<>> \in Seq(K) /\ \A m \in 1..L : seq[m] \in K
  OBVIOUS
<1>2. step \in [1..L -> [Seq(K) -> Seq(K)]]
  BY <1>1
<1> HIDE DEF step, L
<1>3. PICK f : Solves(f, Seq(K), <<>>, L, step)
  BY <1>1, <1>2, StepsExist
<1>4. ASSUME NEW m \in 0..L
      PROVE  f[m] = IF m = 0 THEN <<>>
                    ELSE IF seq[m] \in S THEN Append(f[m - 1], seq[m]) ELSE f[m - 1]
  <2>1. CASE m = 0
    BY <2>1, <1>3 DEF Solves
  <2>2. CASE m # 0
    <3>1. m \in 1..L /\ m - 1 \in 0..L
      BY <2>2, <1>1
    <3>2. f[m - 1] \in Seq(K)
      BY <3>1, <1>3 DEF Solves
    <3>3. step[m][f[m - 1]] = IF seq[m] \in S THEN Append(f[m - 1], seq[m]) ELSE f[m - 1]
      BY <3>1, <3>2 DEF step
    <3>4. QED BY <3>3, <2>2, <1>3 DEF Solves
  <2>3. QED BY <2>1, <2>2
<1>5. f = KeptStep(seq, S, f)
  BY <1>4, <1>1, <1>3 DEF KeptStep, L, Solves
<1>6. QED BY <1>5, <1>3 DEF L, Solves

\* The filters of the beginnings of seq, one entry longer each time.
LEMMA KeptBuilt ==
    ASSUME NEW K, NEW seq \in Seq(K), NEW S
    PROVE  \E f : /\ \A n \in 0..Len(seq) :
                       f[n] = IF n = 0 THEN <<>>
                              ELSE IF seq[n] \in S THEN Append(f[n - 1], seq[n]) ELSE f[n - 1]
                  /\ Kept(seq, S) = f[Len(seq)]
<1> DEFINE f == CHOOSE g : g = KeptStep(seq, S, g)
<1>1. f = KeptStep(seq, S, f)
  BY KeptExists
<1>2. Kept(seq, S) = f[Len(seq)]
  BY DEF Kept, KeptStep
<1> HIDE DEF f
<1>3. \A n \in 0..Len(seq) :
        f[n] = IF n = 0 THEN <<>>
               ELSE IF seq[n] \in S THEN Append(f[n - 1], seq[n]) ELSE f[n - 1]
  BY <1>1 DEF KeptStep
<1>4. QED BY <1>2, <1>3

\* Filtering keeps the order: each kept entry comes from a place of seq, later
\* ones from later places, and the places are those of the entries in S.
LEMMA KeptPlaces ==
    ASSUME NEW K, NEW seq \in Seq(K), NEW S
    PROVE  /\ Kept(seq, S) \in Seq(K)
           /\ \E place \in [1..Len(Kept(seq, S)) -> 1..Len(seq)] :
                /\ \A i \in 1..Len(Kept(seq, S)) : Kept(seq, S)[i] = seq[place[i]]
                /\ \A i, j \in 1..Len(Kept(seq, S)) : i < j => place[i] < place[j]
                /\ \A p \in 1..Len(seq) :
                     seq[p] \in S <=> \E i \in 1..Len(Kept(seq, S)) : place[i] = p
<1> DEFINE L == Len(seq)
<1>0. L \in Nat
  OBVIOUS
<1>1. PICK f : /\ \A n \in 0..L : f[n] = IF n = 0 THEN <<>>
                                         ELSE IF seq[n] \in S THEN Append(f[n - 1], seq[n])
                                         ELSE f[n - 1]
               /\ Kept(seq, S) = f[L]
  BY KeptBuilt
<1> DEFINE Placed(n, place) ==
             /\ \A i \in 1..Len(f[n]) : f[n][i] = seq[place[i]]
             /\ \A i, j \in 1..Len(f[n]) : i < j => place[i] < place[j]
             /\ \A p \in 1..n : seq[p] \in S <=> \E i \in 1..Len(f[n]) : place[i] = p
           T == {n \in Nat : n <= L => /\ f[n] \in Seq(K)
                                       /\ \E place \in [1..Len(f[n]) -> 1..n] : Placed(n, place)}
<1>2. 0 \in T
  <2>1. f[0] = <<>> /\ Len(f[0]) = 0
    BY <1>1, <1>0
  <2>2. f[0] \in Seq(K) /\ <<>> \in [1..Len(f[0]) -> 1..0]
    BY <2>1
  <2>3. Placed(0, <<>>)
    BY <2>1
  <2> HIDE DEF Placed
  <2>4. QED BY <2>2, <2>3
<1>3. ASSUME NEW n \in Nat, n \in T PROVE n + 1 \in T
  <2> SUFFICES ASSUME n + 1 <= L
               PROVE  /\ f[n + 1] \in Seq(K)
                      /\ \E place \in [1..Len(f[n + 1]) -> 1..(n + 1)] : Placed(n + 1, place)
    OBVIOUS
  <2>1. n \in 0..L /\ n + 1 \in 1..L /\ n + 1 \in 0..L /\ n <= L
    BY <1>0
  <2> HIDE DEF Placed
  <2>2. f[n] \in Seq(K) /\ \E place \in [1..Len(f[n]) -> 1..n] : Placed(n, place)
    BY <1>3, <2>1
  <2> HIDE DEF T
  <2>3. PICK place \in [1..Len(f[n]) -> 1..n] : Placed(n, place)
    BY <2>2
  <2> DEFINE l == Len(f[n])
  <2>4. l \in Nat /\ seq[n + 1] \in K
    BY <2>1, <2>2
  <2>5. \A i \in 1..l : f[n][i] = seq[place[i]] /\ place[i] \in 1..n
    BY <2>3 DEF Placed
  <2>6. \A i, j \in 1..l : i < j => place[i] < place[j]
    BY <2>3 DEF Placed
  <2>7. \A p \in 1..n : seq[p] \in S <=> \E i \in 1..l : place[i] = p
    BY <2>3 DEF Placed
  <2>8. CASE seq[n + 1] \in S
    <3> DEFINE g == [i \in 1..(l + 1) |-> IF i = l + 1 THEN n + 1 ELSE place[i]]
    <3>0. n + 1 # 0 /\ (n + 1) - 1 = n
      OBVIOUS
    <3>1. f[n + 1] = Append(f[n], seq[n + 1])
      BY <1>1, <2>1, <2>8, <3>0
    <3>2. Len(f[n + 1]) = l + 1 /\ f[n + 1] \in Seq(K)
      BY <3>1, <2>2, <2>4
    <3>3. \A i \in 1..(l + 1) : f[n + 1][i] = IF i = l + 1 THEN seq[n + 1] ELSE f[n][i]
      BY <3>1, <2>2, <2>4
    <3>l. l + 1 \in 1..(l + 1) /\ \A i \in 1..(l + 1) : i = l + 1 \/ i \in 1..l
      BY <2>4
    <3>m. \A i \in 1..l : i \in 1..(l + 1) /\ i # l + 1
      BY <2>4
    <3>4. g[l + 1] = n + 1 /\ \A i \in 1..l : g[i] = place[i]
      BY <3>l, <3>m
    <3>5. g \in [1..(l + 1) -> 1..(n + 1)]
      BY <2>5, <3>l
    <3> HIDE DEF g, l
    <3>6. \A i \in 1..(l + 1) : f[n + 1][i] = seq[g[i]]
      BY <3>3, <3>4, <3>l, <3>m, <2>5
    <3>7. \A i, j \in 1..(l + 1) : i < j => g[i] < g[j]
      <4> SUFFICES ASSUME NEW i \in 1..(l + 1), NEW j \in 1..(l + 1), i < j
                   PROVE  g[i] < g[j]
        OBVIOUS
      <4>1. i \in 1..l
        BY <2>4
      <4>2. CASE j = l + 1
        <5>1. g[i] \in 1..n
          BY <4>1, <3>4, <2>5
        <5>2. QED BY <4>2, <5>1, <3>4
      <4>3. CASE j \in 1..l
        BY <4>1, <4>3, <3>4, <2>6
      <4>4. QED BY <4>2, <4>3, <3>l
    <3>8. \A p \in 1..(n + 1) : seq[p] \in S <=> \E i \in 1..(l + 1) : g[i] = p
      <4> SUFFICES ASSUME NEW p \in 1..(n + 1)
                   PROVE  seq[p] \in S <=> \E i \in 1..(l + 1) : g[i] = p
        OBVIOUS
      <4>1. CASE p = n + 1
        BY <4>1, <2>8, <3>l, <3>4
      <4>2. CASE p # n + 1
        <5>1. p \in 1..n
          BY <4>2
        <5>2. \A i \in 1..(l + 1) : g[i] = p <=> i \in 1..l /\ place[i] = p
          BY <4>2, <3>4, <3>l, <3>m
        <5>3. QED BY <2>7, <5>1, <5>2, <3>m
      <4>3. QED BY <4>1, <4>2
    <3>9. Placed(n + 1, g)
      BY <3>2, <3>6, <3>7, <3>8 DEF Placed
    <3>10. QED BY <3>2, <3>5, <3>9
  <2>9. CASE seq[n + 1] \notin S
    <3>1. f[n + 1] = f[n] /\ Len(f[n + 1]) = l
      BY <1>1, <2>1, <2>9
    <3>2. place \in [1..l -> 1..(n + 1)]
      BY <2>5
    <3> HIDE DEF l
    <3>3. \A p \in 1..(n + 1) : seq[p] \in S <=> \E i \in 1..l : place[i] = p
      <4> SUFFICES ASSUME NEW p \in 1..(n + 1)
                   PROVE  seq[p] \in S <=> \E i \in 1..l : place[i] = p
        OBVIOUS
      <4>1. CASE p = n + 1
        BY <4>1, <2>9, <2>5
      <4>2. CASE p \in 1..n
        BY <4>2, <2>7
      <4>3. QED BY <4>1, <4>2
    <3>4. Placed(n + 1, place)
      BY <3>1, <3>3, <2>5, <2>6 DEF Placed
    <3>5. QED BY <3>1, <3>2, <3>4, <2>2
  <2>10. QED BY <2>8, <2>9
<1>4. T = Nat
  <2> HIDE DEF T
  <2>1. T \in SUBSET Nat
    BY DEF T
  <2>2. QED BY <1>2, <1>3, <2>1, NatInduct
<1>5. f[L] \in Seq(K) /\ \E place \in [1..Len(f[L]) -> 1..L] : Placed(L, place)
  <2>1. L \in T
    BY <1>4, <1>0
  <2> HIDE DEF Placed
  <2>2. QED BY <2>1, <1>0
<1>6. PICK k : k = f[L] /\ k = Kept(seq, S)
  BY <1>1
<1>7. k \in Seq(K)
  BY <1>5, <1>6
<1>8. PICK place \in [1..Len(k) -> 1..L] : Placed(L, place)
  <2> HIDE DEF Placed
  <2>1. QED BY <1>5, <1>6
<1>9. /\ \A i \in 1..Len(k) : k[i] = seq[place[i]]
      /\ \A i, j \in 1..Len(k) : i < j => place[i] < place[j]
      /\ \A p \in 1..L : seq[p] \in S <=> \E i \in 1..Len(k) : place[i] = p
  BY <1>6, <1>8, Zenon
<1> HIDE DEF Placed, T
<1>10. \E g \in [1..Len(k) -> 1..L] :
          /\ \A i \in 1..Len(k) : k[i] = seq[g[i]]
          /\ \A i, j \in 1..Len(k) : i < j => g[i] < g[j]
          /\ \A p \in 1..L : seq[p] \in S <=> \E i \in 1..Len(k) : g[i] = p
  <2> WITNESS place \in [1..Len(k) -> 1..L]
  <2>1. QED BY <1>9
<1>11. Kept(seq, S) = k
  BY <1>6
<1>12. QED BY ONLY <1>7, <1>10, <1>11, Zenon DEF L

\* Setting a new key of a Map adds it at the end.
LEMMA AppendEntries ==
    ASSUME NEW K, NEW seq \in Seq(K), NEW e \in K
    PROVE  /\ Append(seq, e) \in Seq(K)
           /\ Len(Append(seq, e)) = Len(seq) + 1
           /\ Entries(Append(seq, e)) = Entries(seq) \cup {e}
           /\ NoRepeats(seq) /\ ~MapHas(seq, e) => NoRepeats(Append(seq, e))
<1> DEFINE l == Len(seq)
           q == Append(seq, e)
<1>1. l \in Nat /\ q \in Seq(K) /\ Len(q) = l + 1
  OBVIOUS
<1>2. \A i \in 1..(l + 1) : i \in 1..l \/ i = l + 1
  BY <1>1
<1>3. \A i \in 1..l : i \in 1..(l + 1) /\ i # l + 1
  BY <1>1
<1>4. q[l + 1] = e /\ l + 1 \in 1..(l + 1) /\ \A i \in 1..l : q[i] = seq[i]
  BY <1>1
<1> HIDE DEF q
<1>5. Entries(q) = Entries(seq) \cup {e}
  <2>1. Entries(q) \subseteq Entries(seq) \cup {e}
    BY <1>1, <1>2, <1>4 DEF Entries
  <2>2. e \in Entries(q)
    BY <1>1, <1>4 DEF Entries
  <2>3. Entries(seq) \subseteq Entries(q)
    BY <1>1, <1>3, <1>4 DEF Entries
  <2>4. QED BY <2>1, <2>2, <2>3
<1>6. NoRepeats(seq) /\ ~MapHas(seq, e) => NoRepeats(q)
  <2> SUFFICES ASSUME NoRepeats(seq), ~MapHas(seq, e),
                      NEW i \in 1..(l + 1), NEW j \in 1..(l + 1), q[i] = q[j]
               PROVE  i = j
    BY <1>1 DEF NoRepeats
  <2>1. \A m \in 1..l : seq[m] # e
    BY DEF MapHas, Entries
  <2>2. QED BY <1>2, <1>4, <2>1 DEF NoRepeats
<1>7. QED BY <1>1, <1>5, <1>6 DEF q

\* Filtering keeps exactly the entries in S, and repeats none.
LEMMA KeptEntries ==
    ASSUME NEW K, NEW seq \in Seq(K), NEW S
    PROVE  /\ Kept(seq, S) \in Seq(K)
           /\ Entries(Kept(seq, S)) = Entries(seq) \cap S
           /\ NoRepeats(seq) => NoRepeats(Kept(seq, S))
           /\ Len(Kept(seq, S)) <= Len(seq)
<1> DEFINE k == Kept(seq, S)
<1>1. k \in Seq(K)
  BY KeptPlaces
<1>2. PICK place \in [1..Len(k) -> 1..Len(seq)] :
        /\ \A i \in 1..Len(k) : k[i] = seq[place[i]]
        /\ \A i, j \in 1..Len(k) : i < j => place[i] < place[j]
        /\ \A p \in 1..Len(seq) : seq[p] \in S <=> \E i \in 1..Len(k) : place[i] = p
  BY KeptPlaces
<1> HIDE DEF k
<1>3. Entries(k) = Entries(seq) \cap S
  <2>1. ASSUME NEW i \in 1..Len(k)
        PROVE  k[i] \in S /\ place[i] \in 1..Len(seq) /\ k[i] = seq[place[i]]
    BY <1>2
  <2>2. ASSUME NEW p \in 1..Len(seq), seq[p] \in S
        PROVE  \E i \in 1..Len(k) : k[i] = seq[p]
    BY <1>2, <2>2
  <2>3. Entries(k) \subseteq Entries(seq) \cap S
    BY <2>1 DEF Entries
  <2>4. Entries(seq) \cap S \subseteq Entries(k)
    BY <2>2 DEF Entries
  <2>5. QED BY <2>3, <2>4
<1>4. NoRepeats(seq) => NoRepeats(k)
  <2> SUFFICES ASSUME NoRepeats(seq), NEW i \in 1..Len(k), NEW j \in 1..Len(k), k[i] = k[j]
               PROVE  i = j
    BY DEF NoRepeats
  <2>1. place[i] = place[j]
    BY <1>2 DEF NoRepeats
  <2>2. QED BY <1>1, <1>2, <2>1
<1>5. Len(k) <= Len(seq)
  <2> DEFINE T == {n \in Nat : n <= Len(k) => (n = 0 \/ place[n] >= n)}
  <2>1. 0 \in T
    OBVIOUS
  <2>2. ASSUME NEW n \in Nat, n \in T PROVE n + 1 \in T
    <3> SUFFICES ASSUME n + 1 <= Len(k) PROVE place[n + 1] >= n + 1
      OBVIOUS
    <3>1. n + 1 \in 1..Len(k) /\ place[n + 1] \in 1..Len(seq)
      BY <1>1, <1>2
    <3>2. CASE n = 0
      BY <3>1, <3>2
    <3>3. CASE n # 0
      <4>1. n \in 1..Len(k) /\ n < n + 1
        BY <3>1, <3>3
      <4>2. place[n] < place[n + 1] /\ place[n] >= n /\ place[n] \in 1..Len(seq)
        BY <1>2, <2>2, <3>1, <4>1
      <4>3. QED BY <4>2, <3>1
    <3>4. QED BY <3>2, <3>3
  <2>3. T = Nat
    <3> HIDE DEF T
    <3>1. T \in SUBSET Nat
      BY DEF T
    <3>2. QED BY <2>1, <2>2, <3>1, NatInduct
  <2>4. CASE Len(k) = 0
    BY <2>4
  <2>5. CASE Len(k) # 0
    <3>1. Len(k) \in Nat /\ Len(k) \in 1..Len(k)
      BY <1>1, <2>5
    <3>2. place[Len(k)] >= Len(k) /\ place[Len(k)] \in 1..Len(seq)
      BY <3>1, <2>3, <2>5, <1>2
    <3>3. QED BY <3>1, <3>2
  <2>6. QED BY <2>4, <2>5
<1>6. QED BY <1>1, <1>3, <1>4, <1>5 DEF k

\* Deleting a key of a Map leaves the other keys, each once, and one fewer.
LEMMA WithoutEntries ==
    ASSUME NEW K, NEW seq \in Seq(K), NEW e
    PROVE  /\ Without(seq, e) \in Seq(K)
           /\ Entries(Without(seq, e)) = Entries(seq) \ {e}
           /\ NoRepeats(seq) => NoRepeats(Without(seq, e))
<1>1. Entries(seq) \cap (Entries(seq) \ {e}) = Entries(seq) \ {e}
  OBVIOUS
<1>2. QED BY <1>1, KeptEntries DEF Without

\* Deleting a key that is there makes the Map one entry smaller.
LEMMA WithoutLength ==
    ASSUME NEW K, NEW seq \in Seq(K), NEW e, NoRepeats(seq), MapHas(seq, e)
    PROVE  Len(Without(seq, e)) = Len(seq) - 1
<1> DEFINE L == Len(seq)
           S == Entries(seq) \ {e}
<1>0. L \in Nat
  OBVIOUS
<1>1. PICK p \in 1..L : seq[p] = e
  BY DEF MapHas, Entries
<1>2. \A n \in 1..L : (seq[n] \in S <=> n # p) /\ seq[n] \in K
  BY <1>1 DEF NoRepeats, Entries
<1>3. PICK f : /\ \A n \in 0..L : f[n] = IF n = 0 THEN <<>>
                                         ELSE IF seq[n] \in S THEN Append(f[n - 1], seq[n])
                                         ELSE f[n - 1]
               /\ Kept(seq, S) = f[L]
  BY KeptBuilt
<1> HIDE DEF S
<1> DEFINE T == {n \in Nat : n <= L => /\ f[n] \in Seq(K)
                                       /\ Len(f[n]) = IF n < p THEN n ELSE n - 1}
<1>4. 0 \in T
  <2>1. f[0] = <<>> /\ 0 < p
    BY <1>0, <1>3
  <2>2. f[0] \in Seq(K) /\ Len(f[0]) = 0
    BY <2>1
  <2>3. QED BY <2>1, <2>2
<1>5. ASSUME NEW n \in Nat, n \in T PROVE n + 1 \in T
  <2> SUFFICES ASSUME n + 1 <= L
               PROVE  f[n + 1] \in Seq(K) /\ Len(f[n + 1]) = IF n + 1 < p THEN n + 1 ELSE n
    OBVIOUS
  <2>1. n + 1 \in 0..L /\ n + 1 \in 1..L /\ n + 1 # 0 /\ (n + 1) - 1 = n
    BY <1>0
  <2>2. f[n] \in Seq(K) /\ Len(f[n]) = IF n < p THEN n ELSE n - 1
    BY <1>5, <1>0
  <2>3. f[n + 1] = IF n + 1 # p THEN Append(f[n], seq[n + 1]) ELSE f[n]
    BY <1>2, <1>3, <2>1
  <2>4. QED BY <1>2, <2>1, <2>2, <2>3
<1>6. T = Nat
  <2> HIDE DEF T
  <2>1. T \in SUBSET Nat
    BY DEF T
  <2>2. QED BY <1>4, <1>5, <2>1, NatInduct
<1>7. Len(f[L]) = L - 1
  <2>1. L \in T /\ ~(L < p)
    BY <1>0, <1>1, <1>6
  <2>2. L <= L
    BY <1>0
  <2>3. QED BY <2>1, <2>2
<1>8. QED BY <1>3, <1>7 DEF S, Without

-----------------------------------------------------------------------------
(* Paths and the places they lead to. *)

PathSteps(path, K) == [m \in 1..Len(path) |-> [t \in Seq(K) |-> Moved(t, path[m])]]

\* The places a path leads through, one after the other.
Leads(f, path, K) == Solves(f, Seq(K), <<>>, Len(path), PathSteps(path, K))

\* The directory above a place.
LEMMA ParentIsPlace ==
    ASSUME NEW K, NEW t \in Seq(K)
    PROVE  Parent(t) \in Seq(K)
<1>1. SubSeq(t, 1, Len(t) - 1) \in Seq(K) /\ <<>> \in Seq(K)
  OBVIOUS
<1>2. QED BY <1>1 DEF Parent

\* A segment leads from a place to a place.
LEMMA MovedIsPlace ==
    ASSUME NEW K, NEW t \in Seq(K), NEW segment \in K
    PROVE  Moved(t, segment) \in Seq(K)
<1>1. Append(t, segment) \in Seq(K)
  OBVIOUS
<1>2. Parent(t) \in Seq(K)
  BY ParentIsPlace
<1>3. QED BY <1>1, <1>2 DEF Moved

\* Every path leads somewhere.
LEMMA PathLeads ==
    ASSUME NEW K, NEW path \in Seq(K)
    PROVE  \E f : Leads(f, path, K)
<1> DEFINE L == Len(path)
<1>1. L \in Nat /\ <<>> \in Seq(K) /\ \A m \in 1..L : path[m] \in K
  OBVIOUS
<1>2. PathSteps(path, K) \in [1..L -> [Seq(K) -> Seq(K)]]
  <2>1. ASSUME NEW m \in 1..L, NEW t \in Seq(K)
        PROVE  Moved(t, path[m]) \in Seq(K)
    BY <1>1, MovedIsPlace
  <2>2. QED BY <2>1 DEF PathSteps
<1> HIDE DEF L
<1>3. \E f : Solves(f, Seq(K), <<>>, L, PathSteps(path, K))
  BY <1>1, <1>2, StepsExist
<1>4. QED BY <1>3 DEF Leads, L

\* A place on the way is reached from the one before it.
LEMMA LeadsStep ==
    ASSUME NEW K, NEW path \in Seq(K), NEW f, Leads(f, path, K), NEW m \in 1..Len(path)
    PROVE  /\ m - 1 \in 0..Len(path) /\ m \in 0..Len(path)
           /\ f[m - 1] \in Seq(K)
           /\ f[m] = Moved(f[m - 1], path[m])
<1>1. m - 1 \in 0..Len(path) /\ m \in 0..Len(path) /\ m # 0
  OBVIOUS
<1>2. f[m - 1] \in Seq(K) /\ f[m] = PathSteps(path, K)[m][f[m - 1]]
  BY <1>1 DEF Leads, Solves
<1>3. QED BY <1>1, <1>2 DEF PathSteps

\* The host arrives where the path leads.
LEMMA FollowIsReached ==
    ASSUME NEW K, NEW path \in Seq(K), NEW f, Leads(f, path, K)
    PROVE  Follow(path) = f[Len(path)]
<1> DEFINE L == Len(path)
           B(g) == [i \in 0..L |-> IF i = 0 THEN <<>> ELSE Moved(g[i - 1], path[i])]
           at == CHOOSE g : g = B(g)
<1>0. L \in Nat
  OBVIOUS
<1>1. f = B(f)
  <2>1. ASSUME NEW m \in 0..L PROVE f[m] = B(f)[m]
    <3>1. CASE m = 0
      BY <3>1 DEF Leads, Solves
    <3>2. CASE m # 0
      <4>1. m \in 1..Len(path)
        BY <3>2, <1>0
      <4>2. f[m] = Moved(f[m - 1], path[m])
        BY <4>1, LeadsStep
      <4>3. QED BY ONLY <3>2, <4>2, m \in 0..L
    <3>3. QED BY <3>1, <3>2
  <2>2. f = [m \in 0..L |-> f[m]]
    BY DEF Leads, Solves
  <2>3. QED BY <2>1, <2>2
<1>2. at = B(at)
  BY <1>1
<1>3. Follow(path) = at[L]
  BY DEF Follow
<1> HIDE DEF at
<1>4. at[0] = <<>>
  <2>1. 0 \in 0..L
    BY <1>0
  <2>2. QED BY <2>1, <1>2, Zenon
<1>5. ASSUME NEW m \in 1..L, at[m - 1] \in Seq(K)
      PROVE  at[m] = PathSteps(path, K)[m][at[m - 1]]
  <2>1. m \in 0..L /\ m # 0
    BY <1>0
  <2>2. at[m] = Moved(at[m - 1], path[m])
    BY <1>2, <2>1
  <2>3. QED BY <2>2, <1>5 DEF PathSteps
<1>6. at[L] = f[L]
  <2> HIDE DEF L
  <2>1. Solves(f, Seq(K), <<>>, L, PathSteps(path, K))
    BY DEF Leads, L
  <2>2. QED BY <1>0, <1>4, <1>5, <2>1, FollowsSteps
<1>7. QED BY <1>3, <1>6

\* posix.normalize of a path from the root names the place the path leads to.
LEMMA NormalizeIsReached ==
    ASSUME NEW K, NEW path \in Seq(K), NEW f, Leads(f, path, K), IsAbsolute(path)
    PROVE  PosixNormalize(path) = [from |-> "/", names |-> f[Len(path)]]
<1> DEFINE L == Len(path)
           B(g) == [i \in 0..L |->
                      IF i = 0 THEN <<>>
                      ELSE IF path[i] \in {"", "."} THEN g[i - 1]
                      ELSE IF path[i] # ".." THEN Append(g[i - 1], path[i])
                      ELSE IF (IF IsAbsolute(path) THEN "/" ELSE ".") = "/" THEN Parent(g[i - 1])
                      ELSE IF g[i - 1] = <<>> THEN <<"..">>
                      ELSE IF g[i - 1][Len(g[i - 1])] = ".." THEN Append(g[i - 1], "..")
                      ELSE Parent(g[i - 1])]
           at == CHOOSE g : g = B(g)
<1>0. L \in Nat
  OBVIOUS
<1>1. f = B(f)
  <2>1. ASSUME NEW m \in 0..L PROVE f[m] = B(f)[m]
    <3>1. CASE m = 0
      BY <3>1 DEF Leads, Solves
    <3>2. CASE m # 0
      <4>1. m \in 1..Len(path)
        BY <3>2, <1>0
      <4>2. f[m] = Moved(f[m - 1], path[m])
        BY <4>1, LeadsStep
      <4>3. QED BY ONLY <3>2, <4>2, m \in 0..L, IsAbsolute(path) DEF Moved
    <3>3. QED BY <3>1, <3>2
  <2>2. f = [m \in 0..L |-> f[m]]
    BY DEF Leads, Solves
  <2>3. QED BY <2>1, <2>2
<1>2. at = B(at)
  BY <1>1
<1>3. PosixNormalize(path) = [from |-> "/", names |-> at[L]]
  BY DEF PosixNormalize
<1> HIDE DEF at
<1>4. at[0] = <<>>
  <2>1. 0 \in 0..L
    BY <1>0
  <2>2. QED BY <2>1, <1>2, Zenon
<1>5. ASSUME NEW m \in 1..L, at[m - 1] \in Seq(K)
      PROVE  at[m] = PathSteps(path, K)[m][at[m - 1]]
  <2>1. m \in 0..L /\ m # 0
    BY <1>0
  <2>2. at[m] = Moved(at[m - 1], path[m])
    BY <1>2, <2>1 DEF Moved
  <2>3. QED BY <2>2, <1>5 DEF PathSteps
<1>6. at[L] = f[L]
  <2> HIDE DEF L
  <2>1. Solves(f, Seq(K), <<>>, L, PathSteps(path, K))
    BY DEF Leads, L
  <2>2. QED BY <1>0, <1>4, <1>5, <2>1, FollowsSteps
<1>7. QED BY <1>3, <1>6

\* So what the code compares is the place the host arrives at.
LEMMA NormalizeFollows ==
    ASSUME NEW K, NEW path \in Seq(K)
    PROVE  /\ Follow(path) \in Seq(K)
           /\ IsAbsolute(path) => PosixNormalize(path) = [from |-> "/", names |-> Follow(path)]
<1>1. PICK f : Leads(f, path, K)
  BY PathLeads
<1>2. Len(path) \in 0..Len(path)
  OBVIOUS
<1>3. f[Len(path)] \in Seq(K)
  BY <1>1, <1>2 DEF Leads, Solves
<1>4. QED BY <1>1, <1>3, FollowIsReached, NormalizeIsReached

\* What a segment becomes when its backslashes are replaced.
Piece(segment, pieces) == IF segment \in DOMAIN pieces THEN pieces[segment] ELSE <<segment>>

\* Replacing backslashes makes a path of a path, and leaves one without them as it is.
LEMMA SlashedIsPath ==
    ASSUME NEW K, NEW path \in Seq(K), NEW pieces, \A s \in DOMAIN pieces : pieces[s] \in Seq(K)
    PROVE  /\ Slashed(path, pieces) \in Seq(K)
           /\ SlashesOnly(path, pieces) => Slashed(path, pieces) = path
<1> DEFINE L == Len(path)
           P(m) == Piece(path[m], pieces)
           step == [m \in 1..L |-> [t \in Seq(K) |-> t \o P(m)]]
           B(g) == [i \in 0..L |->
                      IF i = 0 THEN <<>>
                      ELSE g[i - 1] \o (IF path[i] \in DOMAIN pieces THEN pieces[path[i]] ELSE <<path[i]>>)]
           at == CHOOSE g : g = B(g)
<1>0. L \in Nat /\ <<>> \in Seq(K) /\ \A m \in 1..L : path[m] \in K
  OBVIOUS
<1>1. \A m \in 1..L : P(m) \in Seq(K)
  <2>1. ASSUME NEW m \in 1..L PROVE P(m) \in Seq(K)
    <3>1. <<path[m]>> \in Seq(K)
      BY <1>0
    <3>2. QED BY <3>1 DEF Piece
  <2>2. QED BY <2>1
<1>2. step \in [1..L -> [Seq(K) -> Seq(K)]]
  <2>1. ASSUME NEW m \in 1..L, NEW t \in Seq(K) PROVE t \o P(m) \in Seq(K)
    <3>1. PICK q \in Seq(K) : q = P(m)
      BY <1>1
    <3>2. QED BY <3>1
  <2> HIDE DEF P
  <2>2. QED BY <2>1
<1>3. PICK f : Solves(f, Seq(K), <<>>, L, step)
  <2> HIDE DEF step, L
  <2>1. QED BY <1>0, <1>2, StepsExist
<1>4. \A m \in 0..L : f[m] \in Seq(K)
  BY <1>3 DEF Solves
<1>5. ASSUME NEW m \in 0..L
      PROVE  f[m] = IF m = 0 THEN <<>> ELSE f[m - 1] \o P(m)
  <2>1. CASE m = 0
    BY <2>1, <1>3 DEF Solves
  <2>2. CASE m # 0
    <3>1. m \in 1..L /\ m - 1 \in 0..L
      BY <2>2, <1>0
    <3>2. step[m][f[m - 1]] = f[m - 1] \o P(m)
      BY <3>1, <1>4
    <3>3. f[m] = step[m][f[m - 1]]
      BY <2>2, <1>3 DEF Solves
    <3>4. QED BY <2>2, <3>2, <3>3
  <2>3. QED BY <2>1, <2>2
<1>6. f = B(f)
  <2>1. f = [m \in 0..L |-> f[m]]
    BY <1>3 DEF Solves
  <2>2. ASSUME NEW m \in 0..L PROVE f[m] = B(f)[m]
    BY <1>5 DEF Piece
  <2>3. QED BY <2>1, <2>2
<1>7. at = B(at)
  BY <1>6
<1>8. Slashed(path, pieces) = at[L]
  BY DEF Slashed
<1> HIDE DEF at
<1>9. at[0] = <<>>
  <2>1. 0 \in 0..L
    BY <1>0
  <2>2. QED BY <2>1, <1>7, Zenon
<1>10. ASSUME NEW m \in 1..L PROVE at[m] = at[m - 1] \o P(m)
  <2>1. m \in 0..L /\ m # 0
    BY <1>0
  <2>2. QED BY <2>1, <1>7 DEF Piece
<1> HIDE DEF P, B
<1>11. at[L] = f[L]
  <2>1. ASSUME NEW m \in 1..L, at[m - 1] \in Seq(K) PROVE at[m] = step[m][at[m - 1]]
    BY <1>10, <2>1
  <2>2. L \in Nat
    BY <1>0
  <2> HIDE DEF step, L
  <2>3. QED BY <1>3, <1>9, <2>1, <2>2, FollowsSteps
<1>12. ASSUME SlashesOnly(path, pieces) PROVE f[L] = path
  <2> DEFINE T == {n \in Nat : n <= L => f[n] = SubSeq(path, 1, n)}
  <2>1. 0 \in T
    <3>1. 0 \in 0..L
      BY <1>0
    <3>2. f[0] = <<>>
      BY <1>5, <3>1
    <3>3. SubSeq(path, 1, 0) = <<>>
      OBVIOUS
    <3>4. QED BY <3>2, <3>3
  <2>2. ASSUME NEW n \in T PROVE n + 1 \in T
    <3>1. SUFFICES ASSUME n + 1 <= L PROVE f[n + 1] = SubSeq(path, 1, n + 1)
      OBVIOUS
    <3>2. n + 1 \in 0..L /\ n + 1 \in 1..L /\ n + 1 # 0 /\ (n + 1) - 1 = n /\ n <= L
      BY <3>1, <1>0
    <3>3. P(n + 1) = <<path[n + 1]>>
      BY <1>12, <3>2 DEF SlashesOnly, Piece, P
    <3>4. f[n + 1] = f[n] \o <<path[n + 1]>>
      BY <1>5, <3>2, <3>3
    <3>5. f[n] = SubSeq(path, 1, n)
      BY <3>2
    <3>6. SubSeq(path, 1, n) \o <<path[n + 1]>> = SubSeq(path, 1, n + 1)
      BY ONLY <3>2, path \in Seq(K), n \in Nat, L \in Nat
    <3>7. QED BY <3>4, <3>5, <3>6
  <2>3. T = Nat
    <3> HIDE DEF T
    <3>1. T \in SUBSET Nat
      BY DEF T
    <3>2. QED BY <2>1, <2>2, <3>1, NatInduct
  <2>4. f[L] = SubSeq(path, 1, L)
    BY <1>0, <2>3
  <2>5. QED BY <2>4
<1>13. L \in 0..L
  BY <1>0
<1>14. QED BY <1>4, <1>8, <1>11, <1>12, <1>13

\* A path taken from a place begins at the root.
LEMMA AbsoluteBegins ==
    ASSUME NEW K, NEW b \in K, b = "", NEW path \in Seq(K), NEW start \in Seq(K)
    PROVE  /\ Rooted(start) \in Seq(K) /\ IsAbsolute(Rooted(start))
           /\ Absolute(path, start) \in Seq(K) /\ IsAbsolute(Absolute(path, start))
<1>1. PICK e \in K : e = ""
  BY Zenon
<1>2. \A p : IsAbsolute(p) <=> Len(p) > 1 /\ p[1] = e
  BY <1>1, Zenon DEF IsAbsolute
<1>3. PICK r : r = Rooted(start)
  OBVIOUS
<1>4. r = IF start = <<>> THEN <<e, e>> ELSE <<e>> \o start
  BY <1>1, <1>3, Zenon DEF Rooted
<1>5. Absolute(path, start) \in {path, r \o path} /\ (~IsAbsolute(path) => Absolute(path, start) = r \o path)
  BY <1>3, Zenon DEF Absolute
<1>6. r \in Seq(K) /\ Len(r) > 1 /\ r[1] = e
  <2>1. CASE start = <<>>
    <3>1. r = <<e, e>>
      BY ONLY <2>1, <1>4
    <3>2. QED BY ONLY <3>1, e \in K
  <2>2. CASE start # <<>>
    <3>1. r = <<e>> \o start
      BY ONLY <2>2, <1>4
    <3>2. <<e>> \in Seq(K) /\ Len(<<e>>) = 1 /\ <<e>>[1] = e
      BY ONLY e \in K
    <3>3. QED BY ONLY <3>1, <3>2, <2>2, start \in Seq(K)
  <2>3. QED BY <2>1, <2>2
<1>7. r \o path \in Seq(K) /\ Len(r \o path) > 1 /\ (r \o path)[1] = e
  BY ONLY <1>6, path \in Seq(K)
<1>8. Rooted(start) \in Seq(K) /\ IsAbsolute(Rooted(start))
  BY ONLY <1>2, <1>3, <1>6
<1>9. IsAbsolute(r \o path)
  BY ONLY <1>2, <1>7
<1>10. Absolute(path, start) \in Seq(K) /\ IsAbsolute(Absolute(path, start))
  BY ONLY <1>5, <1>7, <1>9, path \in Seq(K), Absolute(path, start) = path => IsAbsolute(path) \/ path = r \o path
<1>11. QED BY <1>8, <1>10

=============================================================================
