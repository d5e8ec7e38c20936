------------------------- MODULE HttpServer_proofs -------------------------
(***************************************************************************)
(* Proofs about the rate limiter and the map of MCP sessions of the HTTP   *)
(* server, for any limits, windows, timeouts and set of transports.        *)
(***************************************************************************)
EXTENDS HttpServer, JsMap_proofs, SequenceTheorems

-----------------------------------------------------------------------------
(* The rate limiter. *)

InOrder(times) == \A i, j \in 1..Len(times) : i <= j => times[i] <= times[j]

\* The loop of check stops somewhere.
LEMMA AgedExists ==
    ASSUME NEW times \in Seq(Nat), now \in Nat
    PROVE  /\ Aged(times) \in 0..Len(times)
           /\ \A i \in 1..Aged(times) : times[i] + Window <= now
           /\ Aged(times) < Len(times) => times[Aged(times) + 1] + Window > now
<1> DEFINE Stop(n) == /\ \A i \in 1..n : times[i] + Window <= now
                      /\ n < Len(times) => times[n + 1] + Window > now
<1>0. Len(times) \in Nat /\ \A i \in 1..Len(times) : times[i] + Window \in Nat
  BY RateLimiterAssumption
<1>1. \E n \in 0..Len(times) : Stop(n)
  <2> SUFFICES ASSUME \A n \in 0..Len(times) : ~Stop(n)
               PROVE  FALSE
    OBVIOUS
  <2> DEFINE T == {n \in Nat : n <= Len(times) => \A i \in 1..n : times[i] + Window <= now}
  <2>1. 0 \in T
    OBVIOUS
  <2>2. ASSUME NEW n \in Nat, n \in T PROVE n + 1 \in T
    <3> SUFFICES ASSUME n + 1 <= Len(times), NEW i \in 1..(n + 1)
                 PROVE  times[i] + Window <= now
      OBVIOUS
    <3>1. n \in 0..Len(times) /\ n < Len(times) /\ n + 1 \in 1..Len(times)
      BY <1>0
    <3>2. \A j \in 1..n : times[j] + Window <= now
      BY <2>2, <3>1
    <3>3. ~(times[n + 1] + Window > now)
      BY <3>1, <3>2
    <3>4. times[n + 1] + Window <= now
      BY <1>0, <3>1, <3>3
    <3>5. i \in 1..n \/ i = n + 1
      OBVIOUS
    <3>6. QED BY <3>2, <3>4, <3>5
  <2>3. T = Nat
    <3> HIDE DEF T
    <3>1. T \in SUBSET Nat
      BY DEF T
    <3>2. QED BY <2>1, <2>2, <3>1, NatInduct
  <2>4. Len(times) \in T /\ Len(times) \in 0..Len(times) /\ Len(times) <= Len(times)
    BY <1>0, <2>3
  <2>5. Stop(Len(times))
    BY <2>4, <1>0
  <2>6. QED BY <2>4, <2>5
<1>2. Aged(times) = CHOOSE n \in 0..Len(times) : Stop(n)
  BY DEF Aged
<1>3. Aged(times) \in 0..Len(times) /\ Stop(Aged(times))
  BY <1>1, <1>2
<1>4. QED BY <1>3

\* check drops the oldest entries and keeps the rest.
LEMMA ActiveSuffix ==
    ASSUME NEW times \in Seq(Nat), now \in Nat
    PROVE  /\ Active(times) \in Seq(Nat)
           /\ Len(Active(times)) = Len(times) - Aged(times)
           /\ \A i \in 1..Len(Active(times)) :
                i + Aged(times) \in 1..Len(times) /\ Active(times)[i] = times[i + Aged(times)]
<1> DEFINE n == Aged(times)
<1>1. n \in 0..Len(times) /\ Len(times) \in Nat
  BY AgedExists
<1> HIDE DEF n
<1>2. /\ SubSeq(times, n + 1, Len(times)) \in Seq(Nat)
      /\ Len(SubSeq(times, n + 1, Len(times))) = Len(times) - n
      /\ \A i \in 1..(Len(times) - n) : SubSeq(times, n + 1, Len(times))[i] = times[i + n]
  <2>1. n + 1 \in 1..(Len(times) + 1) /\ Len(times) \in ((n + 1) - 1)..Len(times)
    BY <1>1
  <2>2. /\ SubSeq(times, n + 1, Len(times)) \in Seq(Nat)
        /\ Len(SubSeq(times, n + 1, Len(times))) = Len(times) - (n + 1) + 1
        /\ \A i \in 1..(Len(times) - (n + 1) + 1) :
             SubSeq(times, n + 1, Len(times))[i] = times[(n + 1) + i - 1]
    BY <2>1, SubSeqProperties
  <2>3. Len(times) - (n + 1) + 1 = Len(times) - n
    BY <1>1
  <2>4. ASSUME NEW i \in 1..(Len(times) - n)
        PROVE  SubSeq(times, n + 1, Len(times))[i] = times[i + n]
    <3>1. (n + 1) + i - 1 = i + n
      BY <1>1
    <3>2. QED BY <2>2, <2>3, <3>1
  <2>5. QED BY <2>2, <2>3, <2>4
<1>3. \A i \in 1..(Len(times) - n) : i + n \in 1..Len(times)
  BY <1>1
<1>4. QED BY <1>2, <1>3 DEF Active, n

\* On a log that is in order, the loop of check and the filter of pruneExpiredLogs
\* keep the same entries.
LEMMA PrunedIsActive ==
    ASSUME NEW times \in Seq(Nat), now \in Nat, InOrder(times)
    PROVE  Pruned(times) = Active(times)
<1> DEFINE L == Len(times)
           a == Aged(times)
           S == {t \in Entries(times) : t + Window > now}
<1>0. /\ L \in Nat /\ a \in 0..L
      /\ \A i \in 1..L : times[i] \in Nat /\ times[i] + Window \in Nat
      /\ Window \in Nat
  BY AgedExists, RateLimiterAssumption
<1>1. \A i \in 1..a : times[i] + Window <= now
  BY AgedExists
<1>2. a < L => times[a + 1] + Window > now
  BY AgedExists
<1> HIDE DEF a
<1>3. ASSUME NEW i \in 1..L
      PROVE  times[i] \in S <=> i > a
  <2>1. times[i] \in S <=> times[i] + Window > now
    BY DEF Entries
  <2>2. CASE i <= a
    <3>1. i \in 1..a
      BY <1>0, <2>2
    <3>2. times[i] + Window <= now
      BY <1>1, <3>1
    <3>3. QED BY <1>0, <2>1, <2>2, <3>2
  <2>3. CASE i > a
    <3>1. a + 1 \in 1..L /\ a + 1 <= i /\ a < L
      BY <1>0, <2>3
    <3>2. times[a + 1] <= times[i] /\ times[a + 1] + Window > now
      BY <1>2, <3>1 DEF InOrder
    <3>3. times[i] + Window > now
      <4>1. PICK x, y \in Nat : x = times[a + 1] /\ y = times[i]
        BY <1>0, <3>1
      <4>2. x <= y /\ x + Window > now
        BY <3>2, <4>1
      <4>3. y + Window > now
        BY ONLY <1>0, <4>2, x \in Nat, y \in Nat, now \in Nat
      <4>4. QED BY <4>1, <4>3
    <3>4. QED BY <2>1, <2>3, <3>3
  <2>4. QED BY <1>0, <2>2, <2>3
<1>4. PICK f : /\ \A n \in 0..L : f[n] = IF n = 0 THEN <<>>
                                         ELSE IF times[n] \in S THEN Append(f[n - 1], times[n])
                                         ELSE f[n - 1]
               /\ Kept(times, S) = f[L]
  BY KeptBuilt
<1> HIDE DEF S
<1> DEFINE Upto(n) == /\ f[n] \in Seq(Nat)
                      /\ Len(f[n]) = IF n > a THEN n - a ELSE 0
                      /\ \A i \in 1..Len(f[n]) : f[n][i] = times[i + a]
           T == {n \in Nat : n <= L => Upto(n)}
<1>5. 0 \in T
  <2>1. f[0] = <<>>
    BY <1>0, <1>4
  <2>2. f[0] \in Seq(Nat) /\ Len(f[0]) = 0 /\ ~(0 > a)
    BY <1>0, <2>1
  <2>3. QED BY <2>2
<1>6. ASSUME NEW n \in Nat, n \in T PROVE n + 1 \in T
  <2> SUFFICES ASSUME n + 1 <= L PROVE Upto(n + 1)
    OBVIOUS
  <2>1. n + 1 \in 0..L /\ n + 1 \in 1..L /\ n + 1 # 0 /\ (n + 1) - 1 = n /\ n <= L
    BY <1>0
  <2>2. Upto(n)
    BY <1>6, <2>1
  <2>3. f[n + 1] = IF n + 1 > a THEN Append(f[n], times[n + 1]) ELSE f[n]
    BY <1>3, <1>4, <2>1
  <2>i. /\ f[n] \in Seq(Nat) /\ Len(f[n]) = (IF n > a THEN n - a ELSE 0)
        /\ \A i \in 1..Len(f[n]) : f[n][i] = times[i + a]
    BY <2>2
  <2> HIDE DEF T, Upto
  <2>4. CASE n + 1 > a
    <3>1. Len(f[n]) = n - a /\ f[n + 1] = Append(f[n], times[n + 1]) /\ times[n + 1] \in Nat
      BY <1>0, <2>1, <2>i, <2>3, <2>4
    <3>a. f[n + 1] \in Seq(Nat) /\ Len(f[n + 1]) = Len(f[n]) + 1
      BY <2>i, <3>1, AppendProperties
    <3>b. (n - a) + 1 = (n + 1) - a
      BY <1>0
    <3>2. /\ f[n + 1] \in Seq(Nat)
          /\ Len(f[n + 1]) = Len(f[n]) + 1 /\ Len(f[n + 1]) = (n + 1) - a
      BY <3>1, <3>a, <3>b
    <3>3. ASSUME NEW i \in 1..Len(f[n + 1])
          PROVE  f[n + 1][i] = times[i + a]
      <4>1. CASE i = Len(f[n]) + 1
        <5>1. i + a = n + 1
          BY <1>0, <3>1, <4>1
        <5>2. QED BY <2>i, <3>1, <4>1, <5>1
      <4>2. CASE i \in 1..Len(f[n])
        BY <2>i, <3>1, <4>2
      <4>3. i = Len(f[n]) + 1 \/ i \in 1..Len(f[n])
        BY <2>i, <3>2
      <4>4. QED BY <4>1, <4>2, <4>3
    <3>4. QED BY <2>4, <3>2, <3>3 DEF Upto
  <2>5. CASE ~(n + 1 > a)
    <3>1. f[n + 1] = f[n] /\ ~(n > a)
      BY <1>0, <2>3, <2>5
    <3>2. QED BY <2>5, <2>i, <3>1 DEF Upto
  <2>6. QED BY <2>4, <2>5
<1>7. Upto(L)
  <2>1. T = Nat
    <3> HIDE DEF T
    <3>1. T \in SUBSET Nat
      BY DEF T
    <3>2. QED BY <1>5, <1>6, <3>1, NatInduct
  <2> HIDE DEF Upto, T
  <2>2. L \in T /\ L <= L
    BY <1>0, <2>1
  <2>3. QED BY <2>2 DEF T
<1>8. /\ Active(times) \in Seq(Nat) /\ Len(Active(times)) = L - a
      /\ \A i \in 1..(L - a) : Active(times)[i] = times[i + a]
  BY ActiveSuffix DEF a
<1>9. /\ f[L] \in Seq(Nat) /\ Len(f[L]) = L - a
      /\ \A i \in 1..(L - a) : f[L][i] = times[i + a]
  BY <1>0, <1>7
<1>10. f[L] = Active(times)
  <2>1. Len(f[L]) = Len(Active(times)) /\ \A i \in 1..Len(f[L]) : f[L][i] = Active(times)[i]
    BY <1>8, <1>9
  <2>2. QED BY <1>8, <1>9, <2>1, SeqEqual
<1>11. QED BY <1>4, <1>10 DEF Pruned, S

\* The log holds the newest of the requests let through, and those it has lost are
\* a window old.
Recent(l, p) ==
    /\ Len(l) <= Len(p)
    /\ \A i \in 1..Len(l) : l[i] = p[i + (Len(p) - Len(l))]
    /\ \A i \in 1..(Len(p) - Len(l)) : p[i] + Window <= now

\* Dropping aged entries keeps the log recent.
LEMMA RecentActive ==
    ASSUME NEW l \in Seq(Nat), NEW p \in Seq(Nat), now \in Nat, Recent(l, p)
    PROVE  Recent(Active(l), p)
<1> DEFINE a == Aged(l)
           d == Len(p) - Len(l)
           A == Active(l)
<1>1. /\ a \in 0..Len(l) /\ Len(l) \in Nat /\ Len(p) \in Nat /\ d \in Nat
      /\ \A i \in 1..a : l[i] + Window <= now
  BY AgedExists DEF Recent
<1>2. /\ Len(A) = Len(l) - a
      /\ \A i \in 1..Len(A) : i + a \in 1..Len(l) /\ A[i] = l[i + a]
  BY ActiveSuffix
<1>3. Len(A) <= Len(p) /\ Len(p) - Len(A) = d + a /\ Len(A) \in Nat
  BY <1>1, <1>2
<1> HIDE DEF A, a
<1>4. ASSUME NEW i \in 1..Len(A)
      PROVE  A[i] = p[i + (Len(p) - Len(A))]
  <2>1. A[i] = l[i + a] /\ i + a \in 1..Len(l)
    BY <1>2
  <2>2. l[i + a] = p[(i + a) + d]
    BY <2>1 DEF Recent
  <2> HIDE DEF d
  <2>3. (i + a) + d = i + (Len(p) - Len(A))
    <3>1. i \in Int /\ a \in Int /\ d \in Int
      BY <1>1, <1>3
    <3>2. (i + a) + d = i + (d + a)
      BY <3>1
    <3>3. QED BY <1>3, <3>2
  <2>4. QED BY <2>1, <2>2, <2>3
<1>5. ASSUME NEW i \in 1..(Len(p) - Len(A))
      PROVE  p[i] + Window <= now
  <2>1. CASE i \in 1..d
    BY <2>1 DEF Recent
  <2>2. CASE ~(i \in 1..d)
    <3>1. i - d \in 1..a /\ i - d \in 1..Len(l)
      BY <1>1, <1>3, <2>2
    <3>2. l[i - d] = p[(i - d) + d] /\ l[i - d] + Window <= now
      BY <1>1, <3>1 DEF Recent
    <3>3. (i - d) + d = i
      BY <1>1
    <3>4. QED BY <3>2, <3>3
  <2>3. QED BY <2>1, <2>2
<1>6. QED BY <1>3, <1>4, <1>5 DEF Recent, A

\* A request that is let through enters both.
LEMMA RecentAppend ==
    ASSUME NEW l \in Seq(Nat), NEW p \in Seq(Nat), now \in Nat, Recent(l, p)
    PROVE  Recent(Append(l, now), Append(p, now))
<1> DEFINE m == Append(l, now)
           q == Append(p, now)
<1>1. /\ Len(l) \in Nat /\ Len(p) \in Nat /\ Len(m) = Len(l) + 1 /\ Len(q) = Len(p) + 1
      /\ \A i \in 1..Len(l) : m[i] = l[i]
      /\ \A i \in 1..Len(p) : q[i] = p[i]
      /\ m[Len(l) + 1] = now /\ q[Len(p) + 1] = now
  OBVIOUS
<1>2. Len(l) <= Len(p) /\ Len(m) <= Len(q) /\ Len(q) - Len(m) = Len(p) - Len(l)
  BY <1>1 DEF Recent
<1> HIDE DEF m, q
<1>3. ASSUME NEW i \in 1..Len(m)
      PROVE  m[i] = q[i + (Len(q) - Len(m))]
  <2>1. CASE i = Len(l) + 1
    <3>1. i + (Len(q) - Len(m)) = Len(p) + 1
      BY <1>1, <1>2, <2>1
    <3>2. QED BY <1>1, <2>1, <3>1
  <2>2. CASE i \in 1..Len(l)
    <3>1. i + (Len(p) - Len(l)) \in 1..Len(p)
      BY <1>1, <1>2, <2>2
    <3>2. QED BY <1>1, <1>2, <2>2, <3>1 DEF Recent
  <2>3. QED BY <1>1, <2>1, <2>2
<1>4. ASSUME NEW i \in 1..(Len(q) - Len(m))
      PROVE  q[i] + Window <= now
  <2>1. i \in 1..(Len(p) - Len(l)) /\ i \in 1..Len(p)
    BY <1>1, <1>2
  <2>2. QED BY <1>1, <2>1 DEF Recent
<1>5. Recent(m, q)
  BY <1>2, <1>3, <1>4 DEF Recent
<1>6. QED BY <1>5 DEF m, q

\* What ties the log, the requests let through and the last promise together.  A
\* promise was the oldest entry of a full log, and stays so until an entry goes.
LimiterTypeOK == log \in Seq(Nat) /\ passed \in Seq(Nat) /\ promised \in Nat /\ now \in Nat
PromiseFromOldest ==
    promised > 0 =>
        /\ \A i \in 1..Len(log) : promised <= log[i] + Window
        /\ Len(log) >= MaxRequests => promised = log[1] + Window
LimiterInv ==
    /\ LimiterTypeOK
    /\ InOrder(passed) /\ \A i \in 1..Len(passed) : passed[i] <= now
    /\ Recent(log, passed) /\ Len(log) <= MaxRequests
    /\ WindowIsBounded /\ PromiseFromOldest

\* The log of an ordered history is ordered.
LEMMA LogInOrder == LimiterInv => InOrder(log)
<1> SUFFICES ASSUME LimiterInv, NEW i \in 1..Len(log), NEW j \in 1..Len(log), i <= j
             PROVE  log[i] <= log[j]
  BY DEF InOrder
<1> DEFINE d == Len(passed) - Len(log)
<1>1. Len(log) \in Nat /\ Len(passed) \in Nat /\ d \in Nat
  BY DEF LimiterInv, LimiterTypeOK, Recent
<1>2. i + d \in 1..Len(passed) /\ j + d \in 1..Len(passed) /\ i + d <= j + d
  BY <1>1
<1>3. log[i] = passed[i + d] /\ log[j] = passed[j + d]
  BY DEF LimiterInv, Recent
<1>4. QED BY <1>2, <1>3 DEF LimiterInv, InOrder

\* Time that passes while nothing is let through.
LEMMA LaterInv ==
    ASSUME LimiterInv, UNCHANGED limiterVars, now' \in Nat, now <= now'
    PROVE  LimiterInv'
<1>1. log' = log /\ passed' = passed /\ promised' = promised
  BY DEF limiterVars
<1>2. \A i \in 1..Len(passed) : passed[i] \in Nat /\ passed[i] + Window \in Nat
  BY RateLimiterAssumption DEF LimiterInv, LimiterTypeOK
<1>3. \A i \in 1..(Len(passed) - Len(log)) : i \in 1..Len(passed)
  BY DEF LimiterInv, LimiterTypeOK, Recent
<1>4. Recent(log, passed)'
  BY <1>1, <1>2, <1>3 DEF LimiterInv, LimiterTypeOK, Recent
<1>5. \A i \in 1..Len(passed) : passed[i] <= now'
  BY <1>2 DEF LimiterInv, LimiterTypeOK
<1>6. QED BY <1>1, <1>4, <1>5 DEF LimiterInv, LimiterTypeOK, InOrder, WindowIsBounded,
                                  PromiseFromOldest

\* Dropping aged entries and refusing, or only dropping them.
LEMMA DropInv ==
    ASSUME LimiterInv, log' = Active(log), passed' = passed, now' = now,
           \/ promised' = promised
           \/ Len(Active(log)) >= MaxRequests /\ promised' = ResetAt(Active(log))
    PROVE  LimiterInv'
<1> DEFINE A == Active(log)
           a == Aged(log)
<1>1. log \in Seq(Nat) /\ passed \in Seq(Nat) /\ now \in Nat /\ promised \in Nat
  BY DEF LimiterInv, LimiterTypeOK
<1>2. /\ A \in Seq(Nat) /\ Len(A) = Len(log) - a /\ a \in 0..Len(log)
      /\ \A i \in 1..Len(A) : i + a \in 1..Len(log) /\ A[i] = log[i + a]
  BY <1>1, ActiveSuffix, AgedExists
<1>3. Recent(A, passed)
  BY <1>1, RecentActive DEF LimiterInv
<1>4. Recent(log, passed)'
  BY <1>3 DEF Recent
<1> HIDE DEF A, a
<1>5. Len(A) <= MaxRequests /\ Len(A) \in Nat /\ Len(log) \in Nat /\ MaxRequests \in Nat \ {0}
  BY <1>1, <1>2, RateLimiterAssumption DEF LimiterInv
<1>6. InOrder(A)
  <2> SUFFICES ASSUME NEW i \in 1..Len(A), NEW j \in 1..Len(A), i <= j
               PROVE  A[i] <= A[j]
    BY DEF InOrder
  <2>1. i + a <= j + a /\ i + a \in 1..Len(log) /\ j + a \in 1..Len(log)
    BY <1>2
  <2>2. QED BY <1>2, <2>1, LogInOrder DEF InOrder
<1>7. promised' \in Nat /\ PromiseFromOldest'
  <2>1. CASE promised' = promised
    <3>1. Len(A) >= MaxRequests => a = 0 /\ A[1] = log[1] /\ Len(log) >= MaxRequests
      <4> SUFFICES ASSUME Len(A) >= MaxRequests
                   PROVE  a = 0 /\ A[1] = log[1] /\ Len(log) >= MaxRequests
        OBVIOUS
      <4>1. a = 0 /\ Len(log) >= MaxRequests /\ 1 \in 1..Len(A)
        BY <1>2, <1>5 DEF LimiterInv
      <4>2. A[1] = log[1 + a]
        BY <1>2, <4>1
      <4>3. QED BY <4>1, <4>2
    <3>2. promised > 0 => \A i \in 1..Len(A) : promised <= A[i] + Window
      BY <1>2 DEF LimiterInv, PromiseFromOldest
    <3>3. promised > 0 => (Len(A) >= MaxRequests => promised = A[1] + Window)
      BY <3>1 DEF LimiterInv, PromiseFromOldest
    <3>4. QED BY <1>1, <2>1, <3>2, <3>3 DEF PromiseFromOldest, A
  <2>2. CASE Len(A) >= MaxRequests /\ promised' = ResetAt(A)
    <3>1. 1 \in 1..Len(A) /\ A # <<>> /\ Head(A) = A[1] /\ A[1] \in Nat
      BY <1>2, <1>5, <2>2
    <3>2. promised' = A[1] + Window /\ promised' \in Nat
      BY <2>2, <3>1, RateLimiterAssumption DEF ResetAt
    <3>3. \A i \in 1..Len(A) : A[i] \in Nat /\ A[1] <= A[i]
      BY <1>2, <1>6, <3>1 DEF InOrder
    <3>4. \A i \in 1..Len(A) : promised' <= A[i] + Window
      BY <3>1, <3>2, <3>3, RateLimiterAssumption
    <3>5. QED BY <3>2, <3>4 DEF PromiseFromOldest, A
  <2>3. QED BY <2>1, <2>2 DEF A
<1>8. LimiterTypeOK'
  BY <1>1, <1>2, <1>7 DEF LimiterTypeOK, A
<1>9. (InOrder(passed) /\ (\A i \in 1..Len(passed) : passed[i] <= now) /\ WindowIsBounded)'
  BY DEF LimiterInv, InOrder, WindowIsBounded
<1>10. QED BY <1>4, <1>5, <1>7, <1>8, <1>9 DEF LimiterInv, A

\* A request is let through and logged.
LEMMA PassInv ==
    ASSUME LimiterInv, Len(Active(log)) < MaxRequests,
           log' = Append(Active(log), now), passed' = Append(passed, now), promised' = 0,
           now' = now
    PROVE  LimiterInv'
<1> DEFINE A == Active(log)
<1>1. log \in Seq(Nat) /\ passed \in Seq(Nat) /\ now \in Nat /\ promised \in Nat
  BY DEF LimiterInv, LimiterTypeOK
<1>2. A \in Seq(Nat)
  BY <1>1, ActiveSuffix
<1>3. Recent(A, passed)
  BY <1>1, RecentActive DEF LimiterInv
<1> HIDE DEF A
<1>4. Recent(Append(A, now), Append(passed, now))
  BY <1>1, <1>2, <1>3, RecentAppend
<1>5. Recent(log, passed)'
  BY <1>4 DEF Recent, A
<1>6. LimiterTypeOK' /\ Len(log') <= MaxRequests
  BY <1>1, <1>2, RateLimiterAssumption DEF LimiterTypeOK, A
<1>7. /\ Len(passed) \in Nat /\ Len(passed') = Len(passed) + 1
      /\ \A i \in 1..Len(passed) : passed'[i] = passed[i]
      /\ passed'[Len(passed) + 1] = now
      /\ \A i \in 1..Len(passed') : i \in 1..Len(passed) \/ i = Len(passed) + 1
      /\ \A i \in 1..Len(passed) : passed[i] \in Nat /\ passed[i] <= now
  BY <1>1 DEF LimiterInv
<1>8. InOrder(passed')
  <2> SUFFICES ASSUME NEW i \in 1..Len(passed'), NEW j \in 1..Len(passed'), i <= j
               PROVE  passed'[i] <= passed'[j]
    BY DEF InOrder
  <2>1. CASE j = Len(passed) + 1
    BY <1>1, <1>7, <2>1
  <2>2. CASE j \in 1..Len(passed)
    <3>1. i \in 1..Len(passed)
      BY <1>7, <2>2
    <3>2. QED BY <1>7, <2>2, <3>1 DEF LimiterInv, InOrder
  <2>3. QED BY <1>7, <2>1, <2>2
<1>9. \A i \in 1..Len(passed') : passed'[i] <= now
  BY <1>1, <1>7
<1>10. WindowIsBounded'
  <2> SUFFICES ASSUME NEW i \in 1..Len(passed'), i > MaxRequests
               PROVE  passed'[i] - passed'[i - MaxRequests] >= Window
    BY DEF WindowIsBounded
  <2>0. MaxRequests \in Nat \ {0} /\ Window \in Nat
    BY RateLimiterAssumption
  <2>1. CASE i = Len(passed) + 1
    <3> DEFINE o == i - MaxRequests
    <3>1. Len(A) \in Nat /\ Len(A) < MaxRequests
      BY <1>2 DEF A
    <3>2. o \in 1..(Len(passed) - Len(A)) /\ o \in 1..Len(passed)
      BY <1>7, <2>0, <2>1, <3>1
    <3>o. o = i - MaxRequests
      OBVIOUS
    <3> HIDE DEF o
    <3>3. passed[o] + Window <= now
      BY <1>3, <3>2 DEF Recent
    <3>4. passed'[o] = passed[o] /\ passed[o] \in Nat /\ passed'[i] = now
      BY <1>7, <2>1, <3>2
    <3>n. \A x \in Nat : x + Window <= now => now - x >= Window
      BY <1>1, <2>0
    <3>5. passed'[i] - passed'[o] >= Window
      BY <3>3, <3>4, <3>n
    <3>6. QED BY <3>5, <3>o
  <2>2. CASE i \in 1..Len(passed)
    <3>1. i - MaxRequests \in 1..Len(passed)
      BY <1>7, <2>0, <2>2
    <3>2. passed'[i] = passed[i] /\ passed'[i - MaxRequests] = passed[i - MaxRequests]
      BY <1>7, <2>2, <3>1
    <3>3. QED BY <2>2, <3>2 DEF LimiterInv, WindowIsBounded
  <2>3. QED BY <1>7, <2>1, <2>2
<1>11. PromiseFromOldest'
  BY DEF PromiseFromOldest
<1>12. QED BY <1>5, <1>6, <1>8, <1>9, <1>10, <1>11 DEF LimiterInv, InOrder

\* Every step of the server keeps the limiter's invariant: check, the pruning
\* interval, destroy at shutdown, and the clock.
LEMMA LimiterStepInv ==
    ASSUME LimiterInv, [HttpNext]_allHttpVars
    PROVE  LimiterInv'
<1>0. log \in Seq(Nat) /\ passed \in Seq(Nat) /\ now \in Nat /\ promised \in Nat
  BY DEF LimiterInv, LimiterTypeOK
<1>1. ASSUME NEW allowed \in BOOLEAN, Check(allowed), now' = now
      PROVE  LimiterInv'
  <2>1. CASE Len(Active(log)) >= MaxRequests
    <3>1. log' = Active(log) /\ promised' = ResetAt(Active(log)) /\ passed' = passed
      BY <1>1, <2>1 DEF Check
    <3>2. QED BY <1>1, <2>1, <3>1, DropInv
  <2>2. CASE ~(Len(Active(log)) >= MaxRequests)
    <3>1. log' = Append(Active(log), now) /\ passed' = Append(passed, now) /\ promised' = 0
      BY <1>1, <2>2 DEF Check
    <3>2. Len(Active(log)) < MaxRequests
      BY <1>0, <2>2, ActiveSuffix, RateLimiterAssumption
    <3>3. QED BY <1>1, <3>1, <3>2, PassInv
  <2>3. QED BY <2>1, <2>2
<1>2. ASSUME Prune
      PROVE  LimiterInv'
  <2>1. log' = Active(log) /\ passed' = passed /\ promised' = promised /\ now' = now
    BY <1>0, <1>2, LogInOrder, PrunedIsActive DEF Prune, PruneExpiredLogs
  <2>2. QED BY <2>1, DropInv
<1>3. ASSUME ShutdownClears
      PROVE  LimiterInv'
  <2>1. log' = <<>> /\ passed' = <<>> /\ promised' = 0 /\ now' = now
    BY <1>3 DEF ShutdownClears, DestroyLimiter
  <2>2. QED BY <1>0, <2>1, RateLimiterAssumption
            DEF LimiterInv, LimiterTypeOK, InOrder, Recent, WindowIsBounded, PromiseFromOldest
<1>4. ASSUME HttpTick
      PROVE  LimiterInv'
  <2>1. UNCHANGED limiterVars /\ now' = now + 1
    BY <1>4 DEF HttpTick
  <2>2. QED BY <1>0, <2>1, LaterInv
<1>5. ASSUME UNCHANGED limiterVars, now' = now
      PROVE  LimiterInv'
  BY <1>0, <1>5, LaterInv
<1>6. ASSUME NEW t \in Transports, NEW call \in BOOLEAN, UseSession(t, call)
      PROVE  LimiterInv'
  <2>1. now' = now
    BY <1>6 DEF UseSession
  <2>2. (\E allowed \in BOOLEAN : Check(allowed)) \/ UNCHANGED limiterVars
    BY <1>6 DEF UseSession
  <2>3. QED BY <1>1, <1>5, <2>1, <2>2
<1>7. ASSUME NEW failing \in SUBSET Transports, CleanupInterval(failing) \/ ShutdownBegins(failing)
      PROVE  LimiterInv'
  BY <1>5, <1>7 DEF CleanupInterval, ShutdownBegins
<1>8. ASSUME NEW t \in Transports,
             OpenStream(t) \/ StreamInitialized(t) \/ StreamRefused(t) \/ ClientCloses(t)
      PROVE  LimiterInv'
  BY <1>5, <1>8 DEF OpenStream, StreamInitialized, StreamRefused, ClientCloses
<1>9. ASSUME NEW t \in Transports, NEW gone \in BOOLEAN, OpenSse(t, gone)
      PROVE  LimiterInv'
  BY <1>5, <1>9 DEF OpenSse
<1>10. ASSUME NEW t \in Transports, NEW failing \in SUBSET Transports, RequestTooLate(t, failing)
      PROVE  LimiterInv'
  BY <1>5, <1>10 DEF RequestTooLate
<1>11. CASE Exit \/ UNCHANGED allHttpVars
  BY <1>5, <1>11 DEF Exit, allHttpVars
<1>12. QED BY <1>2, <1>3, <1>4, <1>6, <1>7, <1>8, <1>9, <1>10, <1>11 DEF HttpNext

\* The rate limiter keeps its invariant for any order of requests, refusals,
\* pruning and shutdown.
THEOREM LimiterInvariant == HttpSpec => []LimiterInv
<1>1. HttpInit => LimiterInv
  BY RateLimiterAssumption
     DEF HttpInit, LimiterInit, LimiterInv, LimiterTypeOK, InOrder, Recent, WindowIsBounded,
         PromiseFromOldest
<1>2. LimiterInv /\ [HttpNext]_allHttpVars => LimiterInv'
  BY LimiterStepInv
<1>3. QED BY <1>1, <1>2, PTL DEF HttpSpec

\* No window of the configured length lets more than maxRequests through
\* (WindowIsBounded).
THEOREM WindowsAreBounded == HttpSpec => []WindowIsBounded
<1>1. LimiterInv => WindowIsBounded
  BY DEF LimiterInv
<1>2. QED BY <1>1, LimiterInvariant, PTL

\* The resetIn of a refusal is honest (PromiseIsKept): at that time the log has
\* room, because the entry it was computed from is then dropped.
THEOREM PromisesAreKept == HttpSpec => []PromiseIsKept
<1>1. ASSUME LimiterInv, promised > 0, now >= promised
      PROVE  Len(Active(log)) < MaxRequests
  <2>1. log \in Seq(Nat) /\ now \in Nat /\ Len(log) <= MaxRequests /\ MaxRequests \in Nat \ {0}
    BY <1>1, RateLimiterAssumption DEF LimiterInv, LimiterTypeOK
  <2>2. Len(Active(log)) = Len(log) - Aged(log) /\ Aged(log) \in 0..Len(log)
    BY <2>1, ActiveSuffix, AgedExists
  <2>3. CASE Len(log) >= MaxRequests
    <3>1. log[1] + Window <= now /\ 0 < Len(log) /\ log[1] \in Nat
      BY <1>1, <2>1, <2>3 DEF LimiterInv, PromiseFromOldest
    <3>2. Aged(log) # 0
      BY <2>1, <3>1, AgedExists, RateLimiterAssumption
    <3>3. QED BY <2>1, <2>2, <3>2
  <2>4. CASE ~(Len(log) >= MaxRequests)
    BY <2>1, <2>2, <2>4
  <2>5. QED BY <2>3, <2>4
<1>2. LimiterInv => PromiseIsKept
  BY <1>1 DEF LimiterInv, PromiseFromOldest, PromiseIsKept
<1>3. QED BY <1>2, LimiterInvariant, PTL

-----------------------------------------------------------------------------
(* The map of MCP sessions. *)

\* The last request noted is the last one that came.
SeenIsTouched == lastSeenAt = touched

HttpInv == HttpTypeOK /\ SessionsMatchTransports /\ SeenIsTouched

\* Closing idle sessions: out of the map, and marked.
LEMMA TimedOutEffect ==
    ASSUME HttpTypeOK, NEW gone, NEW failing
    PROVE  /\ TimedOut(gone, failing) \in [Transports -> [kind: {"none", "stream", "sse"},
                                                          state: TransportState]]
           /\ \A t \in Transports :
                /\ t \in gone => TimedOut(gone, failing)[t].state \in {"expired", "unclosed"}
                /\ t \notin gone => TimedOut(gone, failing)[t] = transports[t]
<1> DEFINE Tr == [kind: {"none", "stream", "sse"}, state: TransportState]
           f == TimedOut(gone, failing)
<1>1. ASSUME NEW t \in Transports
      PROVE  /\ f[t] \in Tr
             /\ t \in gone => f[t].state \in {"expired", "unclosed"}
             /\ t \notin gone => f[t] = transports[t]
  <2>1. transports[t] \in Tr /\ {"expired", "unclosed"} \subseteq TransportState
    BY DEF HttpTypeOK, TransportState
  <2>2. CASE t \in gone
    <3>1. f[t] = [transports[t] EXCEPT !.state = IF t \in failing THEN "unclosed" ELSE "expired"]
      BY <2>2 DEF TimedOut
    <3>2. QED BY <2>1, <2>2, <3>1
  <2>3. CASE t \notin gone
    BY <2>1, <2>3 DEF TimedOut
  <2>4. QED BY <2>2, <2>3
<1>2. f = [t \in Transports |-> f[t]]
  BY DEF TimedOut
<1> HIDE DEF f
<1>3. f \in [Transports -> Tr]
  BY <1>1, <1>2
<1>4. QED BY <1>1, <1>3 DEF f

\* Every step keeps the map and the transports in agreement.
LEMMA HttpStepInv ==
    ASSUME HttpInv, LimiterInv', [HttpNext]_allHttpVars
    PROVE  HttpInv'
<1> DEFINE Tr == [kind: {"none", "stream", "sse"}, state: TransportState]
           Open == {"open", "stranded"}
           LimiterOK == log' \in Seq(Nat) /\ passed' \in Seq(Nat) /\ promised' \in Nat /\ now' \in Nat
<1>0. LimiterOK
  BY DEF LimiterInv, LimiterTypeOK
<1>1. /\ transports \in [Transports -> Tr] /\ sessions \subseteq Transports
      /\ lastSeenAt \in [Transports -> Nat] /\ touched = lastSeenAt /\ now \in Nat
      /\ phase \in {"running", "closing", "cleared", "exited"}
      /\ phase = "running" => \A t \in Transports : t \in sessions <=> transports[t].state \in Open
  BY DEF HttpInv, HttpTypeOK, SessionsMatchTransports, SeenIsTouched
<1> DEFINE Goal == /\ transports' \in [Transports -> Tr] /\ sessions' \subseteq Transports
                   /\ lastSeenAt' \in [Transports -> Nat] /\ touched' = lastSeenAt'
                   /\ phase' \in {"running", "closing", "cleared", "exited"}
                   /\ phase' = "running" =>
                        \A t \in Transports : t \in sessions' <=> transports'[t].state \in Open
<1> SUFFICES Goal
  BY <1>0 DEF HttpInv, HttpTypeOK, SessionsMatchTransports, SeenIsTouched
<1>2. ASSUME NEW gone, gone \subseteq sessions, NEW failing,
             sessions' = sessions \ gone, transports' = TimedOut(gone, failing), phase' = phase
      PROVE  /\ transports' \in [Transports -> Tr] /\ sessions' \subseteq Transports
             /\ phase' = "running" =>
                  \A t \in Transports : t \in sessions' <=> transports'[t].state \in Open
  BY <1>1, <1>2, TimedOutEffect DEF HttpInv
<1>3. Expired \subseteq sessions
  BY DEF Expired
<1>4. ASSUME NEW failing \in SUBSET Transports, CleanupInterval(failing)
      PROVE  Goal
  BY <1>1, <1>2, <1>3, <1>4 DEF CleanupInterval, CleanupExpired
<1>5. ASSUME NEW t \in Transports, OpenStream(t)
      PROVE  Goal
  <2> DEFINE f == TimedOut(Expired, {})
  <2>1. /\ f \in [Transports -> Tr]
        /\ \A u \in Transports : /\ u \in Expired => f[u].state \in {"expired", "unclosed"}
                                 /\ u \notin Expired => f[u] = transports[u]
    BY TimedOutEffect DEF HttpInv
  <2> HIDE DEF f
  <2>2. [kind |-> "stream", state |-> "connecting"] \in Tr
    BY DEF TransportState
  <2>3. /\ transports[t].state = "none" /\ sessions' = sessions \ Expired
        /\ transports' = [f EXCEPT ![t] = [kind |-> "stream", state |-> "connecting"]] \/ transports' = f
        /\ UNCHANGED <<lastSeenAt, touched, phase>>
    BY <1>5 DEF OpenStream, f
  <2>4. CASE transports' = f
    BY <1>1, <1>3, <2>1, <2>3, <2>4
  <2>5. CASE transports' = [f EXCEPT ![t] = [kind |-> "stream", state |-> "connecting"]]
    <3>1. transports' \in [Transports -> Tr]
      BY <2>1, <2>2, <2>5
    <3>2. /\ transports'[t].state = "connecting"
          /\ \A u \in Transports : u # t => transports'[u] = f[u]
      BY <2>1, <2>5
    <3>3. QED BY <1>1, <1>3, <2>1, <2>3, <3>1, <3>2
  <2>6. QED BY <2>3, <2>4, <2>5
<1>6. ASSUME NEW t \in Transports, StreamInitialized(t)
      PROVE  Goal
  <2>1. /\ transports' = [transports EXCEPT ![t].state = "open"]
        /\ sessions' = sessions \cup {t} /\ phase' = phase
        /\ lastSeenAt' = [lastSeenAt EXCEPT ![t] = now] /\ touched' = lastSeenAt'
    BY <1>1, <1>6 DEF StreamInitialized
  <2>2. /\ transports' \in [Transports -> Tr] /\ transports'[t].state = "open"
        /\ \A u \in Transports : u # t => transports'[u] = transports[u]
    BY <1>1, <2>1 DEF TransportState
  <2>3. QED BY <1>1, <2>1, <2>2
<1>7. ASSUME NEW t \in Transports, StreamRefused(t)
      PROVE  Goal
  <2>1. /\ transports' = [transports EXCEPT ![t].state = "refused"] /\ transports[t].state = "connecting"
        /\ UNCHANGED <<sessions, lastSeenAt, touched, phase>>
    BY <1>7 DEF StreamRefused
  <2>2. /\ transports' \in [Transports -> Tr] /\ transports'[t].state = "refused"
        /\ \A u \in Transports : u # t => transports'[u] = transports[u]
    BY <1>1, <2>1 DEF TransportState
  <2>3. QED BY <1>1, <2>1, <2>2
<1>8. ASSUME NEW t \in Transports, NEW gone \in BOOLEAN, OpenSse(t, gone)
      PROVE  Goal
  <2> DEFINE f == TimedOut(Expired, {})
             r == [kind |-> "sse", state |-> IF gone THEN "stranded" ELSE "open"]
  <2>1. /\ f \in [Transports -> Tr]
        /\ \A u \in Transports : /\ u \in Expired => f[u].state \in {"expired", "unclosed"}
                                 /\ u \notin Expired => f[u] = transports[u]
    BY TimedOutEffect DEF HttpInv
  <2>2. r \in Tr /\ r.state \in Open
    BY DEF TransportState
  <2> HIDE DEF f, r
  <2>3. transports[t].state = "none" /\ phase' = phase
    BY <1>8 DEF OpenSse
  <2>4. CASE CanOpenHttpSession
    <3>1. /\ transports' = [f EXCEPT ![t] = r] /\ sessions' = (sessions \ Expired) \cup {t}
          /\ lastSeenAt' = [lastSeenAt EXCEPT ![t] = now] /\ touched' = lastSeenAt'
      BY <1>1, <1>8, <2>4 DEF OpenSse, f, r
    <3>2. /\ transports' \in [Transports -> Tr] /\ transports'[t] = r
          /\ \A u \in Transports : u # t => transports'[u] = f[u]
      BY <2>1, <2>2, <3>1
    <3>3. QED BY <1>1, <1>3, <2>1, <2>2, <2>3, <3>1, <3>2
  <2>5. CASE ~CanOpenHttpSession
    <3>1. /\ transports' = f /\ sessions' = sessions \ Expired /\ UNCHANGED <<lastSeenAt, touched>>
      BY <1>8, <2>5 DEF OpenSse, f
    <3>2. QED BY <1>1, <1>3, <2>1, <2>3, <3>1
  <2>6. QED BY <2>4, <2>5
<1>9. ASSUME NEW t \in Transports, NEW call \in BOOLEAN, UseSession(t, call)
      PROVE  Goal
  <2>1. lastSeenAt' = [lastSeenAt EXCEPT ![t] = now] /\ touched' = lastSeenAt' /\ phase' = phase
    BY <1>1, <1>9 DEF UseSession, Seen
  <2>2. CleanupExpired({}) \/ UNCHANGED <<sessions, transports>>
    BY <1>9 DEF UseSession
  <2>3. QED BY <1>1, <1>2, <1>3, <2>1, <2>2 DEF CleanupExpired
<1>10. ASSUME NEW t \in Transports, NEW failing \in SUBSET Transports, RequestTooLate(t, failing)
      PROVE  Goal
  <2>1. UNCHANGED <<lastSeenAt, touched, phase>> /\ {t} \subseteq sessions
    BY <1>3, <1>10 DEF RequestTooLate
  <2>2. \/ sessions' = sessions \ {t} /\ transports' = TimedOut({t}, failing)
        \/ sessions' = sessions \ Expired /\ transports' = TimedOut(Expired, failing)
    BY <1>10 DEF RequestTooLate, CleanupExpired
  <2>3. QED BY <1>1, <1>2, <1>3, <2>1, <2>2
<1>11. ASSUME NEW t \in Transports, ClientCloses(t)
      PROVE  Goal
  <2>1. /\ transports' = [transports EXCEPT ![t].state = "closed"] /\ sessions' = sessions \ {t}
        /\ UNCHANGED <<lastSeenAt, touched, phase>>
    BY <1>11 DEF ClientCloses, OnClose
  <2>2. /\ transports' \in [Transports -> Tr] /\ transports'[t].state = "closed"
        /\ \A u \in Transports : u # t => transports'[u] = transports[u]
    BY <1>1, <2>1 DEF TransportState
  <2>3. QED BY <1>1, <2>1, <2>2
<1>12. ASSUME NEW failing \in SUBSET Transports, ShutdownBegins(failing)
      PROVE  Goal
  <2>1. \A t \in Transports : [transports[t] EXCEPT !.state = "closed"] \in Tr
    BY <1>1 DEF TransportState
  <2>2. QED BY <1>1, <1>12, <2>1 DEF ShutdownBegins
<1>13. CASE ShutdownClears \/ Exit \/ Prune \/ HttpTick \/ UNCHANGED allHttpVars
  BY <1>1, <1>13 DEF ShutdownClears, Exit, Prune, HttpTick, allHttpVars, httpVars
<1>14. QED
  BY <1>4, <1>5, <1>6, <1>7, <1>8, <1>9, <1>10, <1>11, <1>12, <1>13 DEF HttpNext

\* The HTTP server starts in its invariant.
LEMMA HttpInitInv == HttpInit => HttpInv
<1> SUFFICES ASSUME HttpInit PROVE HttpInv
  OBVIOUS
<1>1. HttpTypeOK
  BY DEF HttpInit, LimiterInit, HttpTypeOK, TransportState
<1>2. QED BY <1>1 DEF HttpInit, HttpInv, SessionsMatchTransports, SeenIsTouched

\* The HTTP server keeps its invariant.
THEOREM HttpInvariant == HttpSpec => [](HttpInv /\ LimiterInv)
<1>1. HttpInv /\ LimiterInv /\ [HttpNext]_allHttpVars /\ LimiterInv' => HttpInv'
  BY HttpStepInv
<1>2. QED BY <1>1, HttpInitInv, LimiterInvariant, PTL DEF HttpSpec

\* Until shutdown the map holds exactly the open transports
\* (SessionsMatchTransports).
THEOREM SessionsAgree == HttpSpec => []SessionsMatchTransports
<1>1. HttpInv /\ LimiterInv => SessionsMatchTransports
  BY DEF HttpInv
<1>2. QED BY <1>1, HttpInvariant, PTL

\* No session is timed out while its client is active (ActiveIsKept): all five
\* places that close idle sessions go by the time of the last request.
THEOREM ActiveAreKept == HttpSpec => ActiveIsKept
<1>1. ASSUME HttpInv, [HttpNext]_allHttpVars, NEW t \in sessions,
             transports'[t] # transports[t], transports'[t].state \in {"expired", "unclosed"}
      PROVE  now - touched[t] > IdleTtl
  <2>0. /\ t \in Transports /\ touched = lastSeenAt
        /\ transports \in [Transports -> [kind: {"none", "stream", "sse"}, state: TransportState]]
    BY <1>1 DEF HttpInv, HttpTypeOK, SeenIsTouched
  <2>1. SUFFICES t \in Expired
    BY <2>0 DEF Expired, IsHttpSessionExpired
  <2>2. ASSUME NEW gone, NEW failing, transports' = TimedOut(gone, failing)
        PROVE  t \in gone
    BY <1>1, <2>0, <2>2, TimedOutEffect DEF HttpInv
  <2>3. ASSUME NEW u \in Transports, NEW r, transports' = [TimedOut(Expired, {}) EXCEPT ![u] = r],
               r.state \notin {"expired", "unclosed"}
        PROVE  t \in Expired
    <3>1. /\ TimedOut(Expired, {}) \in [Transports -> [kind: {"none", "stream", "sse"},
                                                       state: TransportState]]
          /\ t \notin Expired => TimedOut(Expired, {})[t] = transports[t]
      BY <1>1, <2>0, TimedOutEffect DEF HttpInv
    <3>2. CASE t = u
      BY <1>1, <2>3, <3>1, <3>2
    <3>3. CASE t # u
      BY <1>1, <2>0, <2>3, <3>1, <3>3
    <3>4. QED BY <3>2, <3>3
  <2>4. ASSUME NEW failing \in SUBSET Transports, CleanupInterval(failing)
        PROVE  t \in Expired
    BY <2>2, <2>4 DEF CleanupInterval, CleanupExpired
  <2>5. ASSUME NEW u \in Transports, OpenStream(u)
        PROVE  t \in Expired
    BY <2>2, <2>3, <2>5 DEF OpenStream
  <2>6. ASSUME NEW u \in Transports, NEW gone \in BOOLEAN, OpenSse(u, gone)
        PROVE  t \in Expired
    BY <2>2, <2>3, <2>6 DEF OpenSse
  <2>7. ASSUME NEW u \in Transports, NEW call \in BOOLEAN, UseSession(u, call)
        PROVE  t \in Expired
    BY <1>1, <2>2, <2>7 DEF UseSession, CleanupExpired
  <2>8. ASSUME NEW u \in Transports, NEW failing \in SUBSET Transports, RequestTooLate(u, failing)
        PROVE  t \in Expired
    <3>1. u \in Expired
      BY <2>8 DEF RequestTooLate
    <3>2. transports' = TimedOut({u}, failing) \/ transports' = TimedOut(Expired, failing)
      BY <2>8 DEF RequestTooLate, CleanupExpired
    <3>3. QED BY <2>2, <3>1, <3>2
  <2>9. ASSUME NEW u \in Transports, StreamInitialized(u) \/ StreamRefused(u) \/ ClientCloses(u)
        PROVE  FALSE
    <3>1. PICK st \in {"open", "refused", "closed"} : transports' = [transports EXCEPT ![u].state = st]
      BY <2>9 DEF StreamInitialized, StreamRefused, ClientCloses
    <3>2. QED BY <1>1, <2>0, <3>1
  <2>10. ASSUME NEW failing \in SUBSET Transports, ShutdownBegins(failing)
         PROVE  FALSE
    BY <1>1, <2>0, <2>10 DEF ShutdownBegins
  <2>11. ~(ShutdownClears \/ Exit \/ Prune \/ HttpTick \/ UNCHANGED allHttpVars)
    BY <1>1 DEF ShutdownClears, Exit, Prune, HttpTick, allHttpVars, httpVars
  <2>12. QED
    BY <1>1, <2>4, <2>5, <2>6, <2>7, <2>8, <2>9, <2>10, <2>11 DEF HttpNext
<1>2. HttpInv /\ LimiterInv /\ [HttpNext]_allHttpVars
        => [\A t \in sessions :
              (transports'[t] # transports[t] /\ transports'[t].state \in {"expired", "unclosed"})
                  => now - touched[t] > IdleTtl]_allHttpVars
  BY <1>1
<1>3. QED BY <1>2, HttpInvariant, PTL DEF HttpSpec, ActiveIsKept
=============================================================================
