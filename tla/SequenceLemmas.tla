-------------------------- MODULE SequenceLemmas --------------------------
(***************************************************************************)
(* Lemmas the proofs share: induction and recursion, what FlattenSeq       *)
(* computes, and what InsertAt, RemoveAt and Tail do to a sequence.        *)
(* Induction comes from the first-order theorems of WellFoundedInduction:  *)
(* a set of naturals has a minimum, so it is over sets of naturals.        *)
(***************************************************************************)
EXTENDS Naturals, SequencesExt, SequenceTheorems, WellFoundedInduction, TLAPS

(* A set of naturals has a minimum.                                        *)
LEMMA NatMinimum ==
  ASSUME NEW T \in SUBSET Nat, T # {}
  PROVE  \E n \in T : \A m \in T : n <= m
<1> DEFINE R == OpToRel(<, Nat)
<1>1. IsWellFoundedOn(R, Nat)
  BY NatLessThanWellFounded
<1>2. \A m, n \in Nat : m < n <=> <<m, n>> \in R
  BY DEF OpToRel
<1> HIDE DEF R
<1>3. PICK n \in T : \A m \in T : ~(<<m, n>> \in R)
  BY <1>1, WFMin
<1>4. ASSUME NEW m \in T PROVE n <= m
  <2>1. m \in Nat /\ n \in Nat /\ ~(<<m, n>> \in R)
    BY <1>3
  <2>2. ~(m < n)
    BY <1>2, <2>1
  <2>3. QED
    BY <2>1, <2>2
<1>5. QED
  BY <1>4

(* What holds of 0, and of n + 1 if of n, holds of all naturals.           *)
LEMMA SetInduction ==
  ASSUME NEW T, 0 \in T, \A n \in Nat : n \in T => n + 1 \in T
  PROVE  Nat \subseteq T
<1>1. SUFFICES ASSUME Nat \ T # {} PROVE FALSE
  OBVIOUS
<1>2. PICK n \in Nat \ T : \A m \in Nat \ T : n <= m
  BY <1>1, NatMinimum
<1>3. n - 1 \in Nat /\ n - 1 \in T
  BY <1>2
<1>4. QED
  BY <1>2, <1>3

(* A function can be defined by its value at 0 and, from its value at n,   *)
(* its value at n + 1.                                                     *)
Recurs(S, s0, step, f) ==
  f \in [Nat -> S] /\ f[0] = s0 /\ \A n \in Nat : f[n + 1] = step[n][f[n]]

LEMMA Recursion ==
  ASSUME NEW S, NEW s0 \in S, NEW step \in [Nat -> [S -> S]]
  PROVE  \E f : Recurs(S, s0, step, f)
<1> DEFINE Upto(n, g) ==
             g[0] = s0 /\ \A i \in Nat : i < n => g[i + 1] = step[i][g[i]]
           T == {n \in Nat : \E g \in [0..n -> S] : Upto(n, g)}
           G(n) == CHOOSE g \in [0..n -> S] : Upto(n, g)
           f == [n \in Nat |-> G(n)[n]]
<1>1. Nat \subseteq T
  <2>1. 0 \in T
    <3>1. [i \in 0..0 |-> s0] \in [0..0 -> S] /\ Upto(0, [i \in 0..0 |-> s0])
      OBVIOUS
    <3>2. QED
      BY <3>1
  <2>2. ASSUME NEW n \in Nat, n \in T PROVE n + 1 \in T
    <3>1. PICK g \in [0..n -> S] : Upto(n, g)
      BY <2>2
    <3> DEFINE h == [i \in 0..n + 1 |-> IF i = n + 1 THEN step[n][g[n]] ELSE g[i]]
    <3>2. g[n] \in S /\ step[n][g[n]] \in S
      OBVIOUS
    <3>3. h \in [0..n + 1 -> S]
      BY <3>2
    <3>4. h[0] = s0
      BY <3>1
    <3>5. ASSUME NEW i \in Nat, i < n + 1 PROVE h[i + 1] = step[i][h[i]]
      <4>1. CASE i = n
        BY <4>1
      <4>2. CASE i # n
        BY <3>1, <3>5, <4>2
      <4>3. QED
        BY <4>1, <4>2
    <3> HIDE DEF h
    <3>6. Upto(n + 1, h)
      BY <3>4, <3>5
    <3> HIDE DEF Upto
    <3>7. QED
      BY <3>3, <3>6
  <2> HIDE DEF T
  <2>3. QED
    BY <2>1, <2>2, SetInduction
<1>2. ASSUME NEW n \in Nat PROVE G(n) \in [0..n -> S] /\ Upto(n, G(n))
  <2>1. \E g \in [0..n -> S] : Upto(n, g)
    BY <1>1
  <2> HIDE DEF Upto
  <2>2. QED
    BY <2>1
<1> HIDE DEF T, G
<1>3. ASSUME NEW n \in Nat PROVE G(n + 1)[n] = G(n)[n]
  <2> DEFINE U == {k \in Nat : k <= n => G(n + 1)[k] = G(n)[k]}
  <2>1. 0 \in U
    BY <1>2
  <2>2. ASSUME NEW k \in Nat, k \in U PROVE k + 1 \in U
    <3>1. SUFFICES ASSUME k + 1 <= n PROVE G(n + 1)[k + 1] = G(n)[k + 1]
      OBVIOUS
    <3>2. G(n + 1)[k] = G(n)[k]
      BY <2>2, <3>1
    <3>3. G(n)[k + 1] = step[k][G(n)[k]] /\ G(n + 1)[k + 1] = step[k][G(n + 1)[k]]
      BY <1>2, <3>1
    <3>4. QED
      BY <3>2, <3>3
  <2> HIDE DEF U
  <2>3. Nat \subseteq U
    BY <2>1, <2>2, SetInduction
  <2>4. QED
    BY <2>3 DEF U
<1>4. f \in [Nat -> S] /\ f[0] = s0
  BY <1>2
<1>5. ASSUME NEW n \in Nat PROVE f[n + 1] = step[n][f[n]]
  <2>1. G(n + 1)[n + 1] = step[n][G(n + 1)[n]]
    BY <1>2
  <2>2. QED
    BY <1>3, <2>1
<1>6. Recurs(S, s0, step, f)
  BY <1>4, <1>5 DEF Recurs
<1>7. QED
  BY <1>6

(* g is what applying next, again and again, makes of s.                   *)
Orbit(S, next, s, g) ==
  g \in [Nat -> S] /\ g[0] = s /\ \A n \in Nat : g[n + 1] = next[g[n]]

(* A function can be applied again and again.                              *)
LEMMA Iteration ==
  ASSUME NEW S, NEW s \in S, NEW next \in [S -> S]
  PROVE  \E g : Orbit(S, next, s, g)
<1> DEFINE step == [n \in Nat |-> next]
<1>1. step \in [Nat -> [S -> S]]
  OBVIOUS
<1>2. \A n \in Nat : step[n] = next
  OBVIOUS
<1> HIDE DEF step
<1>3. \E g : Recurs(S, s, step, g)
  BY <1>1, Recursion
<1>4. QED
  BY <1>2, <1>3 DEF Orbit, Recurs

(* A loop that goes on in state s, unless s is in done, with next[s], and  *)
(* that returns res[s] when it is, is a function, whether it ends or not.  *)
Loops(S, T, done, res, next, f) ==
  f \in [S -> T] /\ \A s \in S : f[s] = IF s \in done THEN res[s] ELSE f[next[s]]

LEMMA LoopExists ==
  ASSUME NEW S, NEW T, T # {}, NEW done, NEW res \in [S -> T], NEW next \in [S -> S]
  PROVE  \E f : Loops(S, T, done, res, next, f)
<1> DEFINE o(s) == CHOOSE g : Orbit(S, next, s, g)
           Ends(s) == {n \in Nat : o(s)[n] \in done}
           end(s) == CHOOSE n \in Ends(s) : \A m \in Ends(s) : n <= m
           f == [s \in S |-> IF Ends(s) = {} THEN CHOOSE t \in T : TRUE ELSE res[o(s)[end(s)]]]
<1>1. ASSUME NEW s \in S
      PROVE  o(s) \in [Nat -> S] /\ o(s)[0] = s /\ \A n \in Nat : o(s)[n + 1] = next[o(s)[n]]
  <2>1. \E g : Orbit(S, next, s, g)
    BY Iteration
  <2>2. Orbit(S, next, s, o(s))
    BY <2>1
  <2>3. QED
    BY <2>2 DEF Orbit
<1>2. ASSUME NEW s \in S, Ends(s) # {}
      PROVE  end(s) \in Ends(s) /\ \A m \in Ends(s) : end(s) <= m
  <2>1. \E n \in Ends(s) : \A m \in Ends(s) : n <= m
    <3>1. Ends(s) \in SUBSET Nat
      OBVIOUS
    <3> HIDE DEF Ends
    <3>2. QED
      BY <1>2, <3>1, NatMinimum
  <2> HIDE DEF Ends
  <2>2. QED
    BY <2>1
<1> HIDE DEF o, end
<1>3. ASSUME NEW s \in S, NEW n \in Nat PROVE o(next[s])[n] = o(s)[n + 1]
  <2> DEFINE U == {k \in Nat : o(next[s])[k] = o(s)[k + 1]}
  <2>1. next[s] \in S
    OBVIOUS
  <2>2. 0 \in U
    <3>1. o(next[s])[0] = next[s] /\ o(s)[0] = s /\ o(s)[0 + 1] = next[o(s)[0]]
      BY <1>1, <2>1
    <3>2. QED
      BY <3>1
  <2>3. ASSUME NEW k \in Nat, k \in U PROVE k + 1 \in U
    <3>1. o(next[s])[k + 1] = next[o(next[s])[k]]
      BY <1>1, <2>1
    <3>2. o(s)[(k + 1) + 1] = next[o(s)[k + 1]]
      BY <1>1
    <3>3. QED
      BY <2>3, <3>1, <3>2
  <2> HIDE DEF U
  <2>4. Nat \subseteq U
    BY <2>2, <2>3, SetInduction
  <2>5. QED
    BY <2>4 DEF U
<1>4. f \in [S -> T]
  BY <1>1, <1>2
<1>5. ASSUME NEW s \in S, s \in done PROVE f[s] = res[s]
  <2>1. o(s)[0] = s /\ 0 \in Ends(s)
    BY <1>1, <1>5
  <2>2. end(s) \in Nat /\ end(s) <= 0
    BY <1>2, <2>1
  <2>3. end(s) = 0
    BY <2>2
  <2>4. QED
    BY <2>1, <2>3
<1>6. ASSUME NEW s \in S, s \notin done PROVE f[s] = f[next[s]]
  <2>1. next[s] \in S /\ o(s)[0] = s
    BY <1>1
  <2>2. \A n \in Nat : n \in Ends(next[s]) <=> n + 1 \in Ends(s)
    BY <1>3
  <2>3. 0 \notin Ends(s)
    BY <1>6, <2>1
  <2>4. Ends(s) \subseteq Nat /\ Ends(next[s]) \subseteq Nat
    OBVIOUS
  <2>5. CASE Ends(next[s]) = {}
    <3>1. ASSUME NEW n \in Ends(s) PROVE FALSE
      <4> HIDE DEF Ends
      <4>1. n - 1 \in Nat /\ n = (n - 1) + 1
        BY <2>3, <2>4
      <4>2. QED
        BY <2>2, <2>5, <4>1
    <3>2. Ends(s) = {}
      BY <3>1
    <3>3. QED
      BY <2>1, <2>5, <3>2
  <2>6. CASE Ends(next[s]) # {}
    <3>1. /\ end(next[s]) \in Nat /\ end(next[s]) \in Ends(next[s])
          /\ \A m \in Ends(next[s]) : end(next[s]) <= m
      BY <1>2, <2>1, <2>4, <2>6
    <3>2. Ends(s) # {}
      BY <2>2, <3>1
    <3>3. end(s) \in Nat /\ end(s) \in Ends(s) /\ \A m \in Ends(s) : end(s) <= m
      BY <1>2, <2>4, <3>2
    <3> HIDE DEF Ends
    <3>4. end(s) <= end(next[s]) + 1
      BY <2>2, <3>1, <3>3
    <3>5. end(s) # 0 /\ end(s) - 1 \in Nat /\ end(s) = (end(s) - 1) + 1
      BY <2>3, <3>3
    <3>6. end(next[s]) <= end(s) - 1
      BY <2>2, <3>1, <3>3, <3>5
    <3>7. end(s) = end(next[s]) + 1
      BY <3>1, <3>3, <3>4, <3>6
    <3>8. o(s)[end(s)] = o(next[s])[end(next[s])]
      BY <1>3, <3>1, <3>7
    <3>9. QED
      BY <2>1, <2>6, <3>2, <3>8
  <2>7. QED
    BY <2>5, <2>6
<1> HIDE DEF f
<1>7. ASSUME NEW s \in S
      PROVE  f[s] = IF s \in done THEN res[s] ELSE f[next[s]]
  BY <1>5, <1>6
<1>8. Loops(S, T, done, res, next, f)
  BY <1>4, <1>7 DEF Loops
<1>9. QED
  BY <1>8

-----------------------------------------------------------------------------
(* The partial results of FlattenSeq(q).                                   *)
Flattens(S, q, f) ==
  /\ f \in [1..Len(q) -> Seq(S)]
  /\ f[1] = q[1]
  /\ \A i \in 1..Len(q) : i # 1 => f[i] = f[i - 1] \o q[i]

(* No sequences flatten to the empty one.                                  *)
LEMMA FlattenEmpty == FlattenSeq(<<>>) = <<>>
BY DEF FlattenSeq

(* FlattenSeq computes partial results, and the last is what it returns.   *)
LEMMA FlattenResults ==
  ASSUME NEW S, NEW q \in Seq(Seq(S)), q # <<>>
  PROVE  \E f : Flattens(S, q, f) /\ FlattenSeq(q) = f[Len(q)]
<1> DEFINE step == [n \in Nat |-> [x \in Seq(S) |-> IF n + 1 <= Len(q) THEN x \o q[n + 1] ELSE x]]
           F(f) == [i \in 1..Len(q) |-> IF i = 1 THEN q[i] ELSE f[i - 1] \o q[i]]
<1>1. Len(q) \in Nat /\ Len(q) # 0 /\ \A i \in 1..Len(q) : q[i] \in Seq(S)
  OBVIOUS
<1>2. step \in [Nat -> [Seq(S) -> Seq(S)]]
  BY <1>1
<1>3. \A n \in Nat, x \in Seq(S) : n + 1 <= Len(q) => step[n][x] = x \o q[n + 1]
  OBVIOUS
<1> HIDE DEF step
<1>4. PICK g : Recurs(Seq(S), <<>>, step, g)
  <2>1. <<>> \in Seq(S)
    OBVIOUS
  <2>2. QED
    BY <1>2, <2>1, Recursion
<1> DEFINE h == [i \in 1..Len(q) |-> g[i]]
<1>5. g \in [Nat -> Seq(S)] /\ g[0] = <<>> /\ \A n \in Nat : n + 1 <= Len(q) => g[n + 1] = g[n] \o q[n + 1]
  BY <1>3, <1>4 DEF Recurs
<1>6. h[1] = q[1]
  <2>1. 0 + 1 <= Len(q) /\ q[1] \in Seq(S) /\ 1 \in 1..Len(q)
    BY <1>1
  <2>2. g[0 + 1] = g[0] \o q[0 + 1]
    BY <1>5, <2>1
  <2>3. g[1] = <<>> \o q[1]
    BY <1>5, <2>2
  <2>4. <<>> \o q[1] = q[1]
    BY <2>1, ConcatEmptySeq
  <2>5. QED
    BY <2>1, <2>3, <2>4
<1>7. ASSUME NEW i \in 1..Len(q), i # 1 PROVE h[i] = h[i - 1] \o q[i]
  <2>1. i - 1 \in Nat /\ i - 1 \in 1..Len(q) /\ (i - 1) + 1 = i /\ i <= Len(q)
    BY <1>1, <1>7
  <2>2. QED
    BY <1>5, <2>1
<1>8. h = F(h)
  BY <1>6, <1>7
<1>9. \E f : f = F(f)
  BY <1>8
<1> DEFINE flatten == CHOOSE f : f = F(f)
<1>10. flatten = F(flatten)
  <2> HIDE DEF F
  <2>1. QED
    BY <1>9
<1>11. FlattenSeq(q) = flatten[Len(q)]
  BY <1>1 DEF FlattenSeq
<1> HIDE DEF flatten
<1>12. \A i \in 1..Len(q) : flatten[i] = IF i = 1 THEN q[i] ELSE flatten[i - 1] \o q[i]
  BY <1>10
<1>13. ASSUME NEW i \in 1..Len(q) PROVE flatten[i] \in Seq(S)
  <2> DEFINE U == {k \in Nat : k + 1 <= Len(q) => flatten[k + 1] \in Seq(S)}
  <2>1. 0 \in U
    BY <1>1, <1>12
  <2>2. ASSUME NEW k \in Nat, k \in U PROVE k + 1 \in U
    <3>1. SUFFICES ASSUME (k + 1) + 1 <= Len(q) PROVE flatten[(k + 1) + 1] \in Seq(S)
      OBVIOUS
    <3>2. (k + 1) + 1 \in 1..Len(q) /\ (k + 1) + 1 # 1 /\ ((k + 1) + 1) - 1 = k + 1
      BY <1>1, <3>1
    <3>3. flatten[(k + 1) + 1] = flatten[k + 1] \o q[(k + 1) + 1]
      BY <1>12, <3>2
    <3>4. flatten[k + 1] \in Seq(S) /\ q[(k + 1) + 1] \in Seq(S)
      BY <1>1, <2>2, <3>1, <3>2
    <3>5. QED
      BY <3>3, <3>4, ConcatProperties
  <2> HIDE DEF U
  <2>3. Nat \subseteq U
    BY <2>1, <2>2, SetInduction
  <2>4. i - 1 \in U /\ (i - 1) + 1 = i /\ i <= Len(q)
    BY <1>1, <2>3
  <2>5. QED
    BY <2>4 DEF U
<1>14. Flattens(S, q, flatten)
  <2>1. flatten = [i \in 1..Len(q) |-> flatten[i]]
    BY <1>10
  <2>2. flatten \in [1..Len(q) -> Seq(S)]
    BY <1>13, <2>1
  <2>3. 1 \in 1..Len(q)
    BY <1>1
  <2>4. QED
    BY <1>12, <2>2, <2>3 DEF Flattens
<1>15. QED
  BY <1>11, <1>14

(* What it returns is over the same set.                                   *)
LEMMA FlattenType ==
  ASSUME NEW S, NEW q \in Seq(Seq(S))
  PROVE  FlattenSeq(q) \in Seq(S)
<1>1. CASE q = <<>>
  <2>1. FlattenSeq(q) = <<>>
    BY <1>1, FlattenEmpty, Zenon
  <2>2. QED
    BY <2>1
<1>2. CASE q # <<>>
  <2>1. PICK f : Flattens(S, q, f) /\ FlattenSeq(q) = f[Len(q)]
    BY <1>2, FlattenResults
  <2>2. Len(q) \in 1..Len(q)
    BY <1>2
  <2>3. QED
    BY <2>1, <2>2 DEF Flattens
<1>3. QED
  BY <1>1, <1>2

(* Of two sequences that begin alike, the partial results are alike.       *)
Begins(r, q) == Len(q) <= Len(r) /\ \A i \in 1..Len(q) : q[i] = r[i]

(* One step of the proof that appending does not change what came before.  *)
LEMMA FlattenPrefix ==
  ASSUME NEW S, NEW q \in Seq(Seq(S)), NEW r \in Seq(Seq(S)), Begins(r, q),
         NEW f, Flattens(S, q, f), NEW g, Flattens(S, r, g), NEW i \in 1..Len(q)
  PROVE  f[i] = g[i]
<1> DEFINE U == {k \in Nat : k + 1 <= Len(q) => f[k + 1] = g[k + 1]}
<1>0. /\ Len(q) \in Nat /\ Len(r) \in Nat /\ Len(q) <= Len(r)
      /\ \A j \in 1..Len(q) : q[j] = r[j]
  BY DEF Begins
<1>1. 0 \in U
  <2>1. SUFFICES ASSUME 0 + 1 <= Len(q) PROVE f[0 + 1] = g[0 + 1]
    OBVIOUS
  <2>2. q[1] = r[1]
    BY <1>0, <2>1
  <2>3. QED
    BY <2>2 DEF Flattens
<1>2. ASSUME NEW k \in Nat, k \in U PROVE k + 1 \in U
  <2>1. SUFFICES ASSUME (k + 1) + 1 <= Len(q) PROVE f[(k + 1) + 1] = g[(k + 1) + 1]
    OBVIOUS
  <2>2. /\ (k + 1) + 1 \in 1..Len(q) /\ (k + 1) + 1 \in 1..Len(r)
        /\ (k + 1) + 1 # 1 /\ ((k + 1) + 1) - 1 = k + 1
    BY <1>0, <2>1
  <2>3. f[k + 1] = g[k + 1]
    BY <1>0, <1>2, <2>1
  <2>4. f[(k + 1) + 1] = f[k + 1] \o q[(k + 1) + 1] /\ g[(k + 1) + 1] = g[k + 1] \o r[(k + 1) + 1]
    BY <2>2 DEF Flattens
  <2>5. QED
    BY <1>0, <2>2, <2>3, <2>4
<1> HIDE DEF U
<1>3. Nat \subseteq U
  BY <1>1, <1>2, SetInduction
<1>4. i - 1 \in U /\ (i - 1) + 1 = i /\ i <= Len(q)
  BY <1>0, <1>3
<1>5. QED
  BY <1>4 DEF U

(* FlattenSeq appends what is appended.                                    *)
LEMMA FlattenAppend ==
  ASSUME NEW S, NEW q \in Seq(Seq(S)), NEW b \in Seq(S)
  PROVE  FlattenSeq(Append(q, b)) = FlattenSeq(q) \o b
<1> DEFINE r == Append(q, b)
<1>1. r \in Seq(Seq(S)) /\ r # <<>> /\ Len(r) = Len(q) + 1
      /\ (\A i \in 1..Len(q) : q[i] = r[i]) /\ r[Len(q) + 1] = b /\ Len(q) \in Nat
  BY AppendProperties
<1> HIDE DEF r
<1>2. PICK g : Flattens(S, r, g) /\ FlattenSeq(r) = g[Len(r)]
  BY <1>1, FlattenResults
<1>3. CASE q = <<>>
  <2>1. Len(r) = 1 /\ r[1] = b
    BY <1>1, <1>3
  <2>2. FlattenSeq(r) = b
    BY <1>2, <2>1 DEF Flattens
  <2>3. QED
    BY <1>3, <2>2, FlattenEmpty DEF r
<1>4. CASE q # <<>>
  <2>1. PICK f : Flattens(S, q, f) /\ FlattenSeq(q) = f[Len(q)]
    BY <1>4, FlattenResults
  <2>2. Len(q) \in 1..Len(q) /\ Len(q) <= Len(r)
    BY <1>1, <1>4
  <2>3. f[Len(q)] = g[Len(q)]
    <3>1. Flattens(S, q, f) /\ Flattens(S, r, g) /\ r \in Seq(Seq(S))
      BY <1>1, <1>2, <2>1
    <3>2. Begins(r, q)
      BY <1>1, <2>2 DEF Begins
    <3>3. QED
      BY <2>2, <3>1, <3>2, FlattenPrefix
  <2>4. Len(r) \in 1..Len(r) /\ Len(r) # 1 /\ Len(r) - 1 = Len(q)
    BY <1>1, <2>2
  <2>5. g[Len(r)] = g[Len(q)] \o r[Len(r)] /\ r[Len(r)] = b
    BY <1>1, <1>2, <2>4 DEF Flattens
  <2>6. QED
    BY <1>2, <2>1, <2>3, <2>5 DEF r
<1>5. QED
  BY <1>3, <1>4

(* An equality as a predicate, which the provers find an instance of.      *)
Same(u, v) == u = v

(* The associativity of concatenation.                                     *)
LEMMA ConcatRegroup ==
  \A S : \A s, t, u \in Seq(S) : Same((s \o t) \o u, s \o (t \o u))
BY ConcatAssociative DEF Same

(* The first of the sequences comes first in FlattenSeq.                   *)
LEMMA FlattenTail ==
  ASSUME NEW S, NEW q \in Seq(Seq(S)), Len(q) # 0
  PROVE  FlattenSeq(q) = Head(q) \o FlattenSeq(Tail(q))
<1> DEFINE U == {n \in Nat : \A r \in Seq(Seq(S)) :
                   Len(r) = n + 1 => FlattenSeq(r) = Head(r) \o FlattenSeq(Tail(r))}
<1>1. ASSUME NEW p \in Seq(Seq(S)), NEW b \in Seq(S), p # <<>>,
             FlattenSeq(p) = Head(p) \o FlattenSeq(Tail(p))
      PROVE  FlattenSeq(Append(p, b)) = Head(Append(p, b)) \o FlattenSeq(Tail(Append(p, b)))
  <2>1. Head(Append(p, b)) = Head(p) /\ Tail(Append(p, b)) = Append(Tail(p), b)
    BY <1>1, HeadTailAppend
  <2>2. Head(p) \in Seq(S) /\ Tail(p) \in Seq(Seq(S))
    BY <1>1, HeadTailProperties
  <2>3. FlattenSeq(Tail(p)) \in Seq(S)
    BY <2>2, FlattenType
  <2>4. /\ FlattenSeq(Append(p, b)) = FlattenSeq(p) \o b
        /\ FlattenSeq(Append(Tail(p), b)) = FlattenSeq(Tail(p)) \o b
    BY <2>2, FlattenAppend
  <2>5. (Head(p) \o FlattenSeq(Tail(p))) \o b = Head(p) \o (FlattenSeq(Tail(p)) \o b)
    <3>1. Same((Head(p) \o FlattenSeq(Tail(p))) \o b, Head(p) \o (FlattenSeq(Tail(p)) \o b))
      BY <2>2, <2>3, ConcatRegroup, Zenon
    <3>2. QED
      BY <3>1, Zenon DEF Same
  <2>6. QED
    BY <1>1, <2>1, <2>4, <2>5, Zenon
<1>2. ASSUME NEW b \in Seq(S)
      PROVE  FlattenSeq(Append(<<>>, b)) = Head(Append(<<>>, b)) \o FlattenSeq(Tail(Append(<<>>, b)))
  <2>1. <<>> \in Seq(Seq(S))
    OBVIOUS
  <2>2. Head(Append(<<>>, b)) = b /\ Tail(Append(<<>>, b)) = <<>>
    BY <2>1, HeadTailAppend
  <2>3. FlattenSeq(Append(<<>>, b)) = FlattenSeq(<<>>) \o b
    BY <2>1, FlattenAppend
  <2>4. <<>> \o b = b /\ b \o <<>> = b
    BY ConcatEmptySeq
  <2>5. QED
    BY <2>2, <2>3, <2>4, FlattenEmpty, Zenon
<1>3. 0 \in U
  <2>1. ASSUME NEW r \in Seq(Seq(S)), Len(r) = 0 + 1
        PROVE  FlattenSeq(r) = Head(r) \o FlattenSeq(Tail(r))
    <3>0. r # <<>>
      <4>1. Len(r) # 0 /\ Len(<<>>) = 0
        BY <2>1, EmptySeq
      <4>2. QED
        BY <4>1, Zenon
    <3>1. PICK p \in Seq(Seq(S)), b \in Seq(S) : r = Append(p, b)
      BY <3>0, SequenceEmptyOrAppend, Zenon
    <3>2. p = <<>>
      BY <2>1, <3>1
    <3>3. QED
      BY <1>2, <3>1, <3>2, Zenon
  <2>2. QED
    BY <2>1
<1>4. ASSUME NEW n \in Nat, n \in U PROVE n + 1 \in U
  <2>1. ASSUME NEW r \in Seq(Seq(S)), Len(r) = (n + 1) + 1
        PROVE  FlattenSeq(r) = Head(r) \o FlattenSeq(Tail(r))
    <3>0. r # <<>>
      BY <2>1
    <3>1. PICK p \in Seq(Seq(S)), b \in Seq(S) : r = Append(p, b)
      BY <3>0, SequenceEmptyOrAppend, Zenon
    <3>2. p # <<>> /\ Len(p) = n + 1
      BY <2>1, <3>1
    <3>3. FlattenSeq(p) = Head(p) \o FlattenSeq(Tail(p))
      BY <1>4, <3>2
    <3>4. QED
      BY <1>1, <3>1, <3>2, <3>3, Zenon
  <2>2. QED
    BY <2>1
<1> HIDE DEF U
<1>5. Nat \subseteq U
  BY <1>3, <1>4, SetInduction
<1>6. Len(q) - 1 \in U /\ Len(q) = (Len(q) - 1) + 1
  BY <1>5
<1>7. QED
  BY <1>6 DEF U

(* What s \o t is, as a predicate.                                         *)
Joins(S, s, t) ==
  /\ s \o t \in Seq(S) /\ Len(s \o t) = Len(s) + Len(t)
  /\ Len(s) \in Nat /\ Len(t) \in Nat
  /\ \A i \in 1..Len(s) : (s \o t)[i] = s[i]

(* Two sequences join.                                                     *)
LEMMA Joined == \A S : \A s, t \in Seq(S) : Joins(S, s, t)
<1> SUFFICES ASSUME NEW S, NEW s \in Seq(S), NEW t \in Seq(S) PROVE Joins(S, s, t)
  OBVIOUS
<1> QED
  BY ConcatProperties DEF Joins

(* The empty sequence adds nothing.                                        *)
LEMMA JoinedEmpty ==
  ASSUME NEW S, NEW s \in Seq(S)
  PROVE  s \o <<>> = s /\ <<>> \o s = s
BY ConcatEmptySeq

-----------------------------------------------------------------------------
LEMMA ConcatLength ==
  ASSUME NEW S, NEW u \in Seq(S), NEW v \in Seq(S)
  PROVE  u \o v \in Seq(S) /\ Len(u \o v) = Len(u) + Len(v)
OBVIOUS

(* t, over S, is s with e at the i-th place.                               *)
Inserted(S, t, s, i, e) ==
  /\ t \in Seq(S) /\ Len(t) = Len(s) + 1
  /\ \A j \in 1..Len(s) + 1 :
       t[j] = IF j < i THEN s[j] ELSE IF j = i THEN e ELSE s[j - 1]

(* What a sequence holds after an insertion.                               *)
LEMMA InsertAtElements ==
  ASSUME NEW S, NEW s \in Seq(S), NEW e \in S, NEW i \in 1..Len(s) + 1
  PROVE  Inserted(S, InsertAt(s, i, e), s, i, e)
<1> DEFINE a == SubSeq(s, 1, i - 1)
           b == SubSeq(s, i, Len(s))
<1>1. a \in Seq(S) /\ Len(a) = i - 1 /\ \A j \in 1..i - 1 : a[j] = s[j]
  OBVIOUS
<1>2. b \in Seq(S) /\ Len(b) = Len(s) - i + 1 /\ \A j \in 1..Len(s) - i + 1 : b[j] = s[i + j - 1]
  OBVIOUS
<1>3. InsertAt(s, i, e) = (a \o <<e>>) \o b
  BY DEF InsertAt
<1> HIDE DEF a, b
<1>4. /\ a \o <<e>> \in Seq(S) /\ Len(a \o <<e>>) = i
      /\ \A j \in 1..i : (a \o <<e>>)[j] = IF j < i THEN s[j] ELSE e
  BY <1>1
<1>5. InsertAt(s, i, e) \in Seq(S) /\ Len(InsertAt(s, i, e)) = Len(s) + 1
  <2>1. b \in Seq(S) /\ Len(b) = Len(s) - i + 1
    BY <1>2
  <2>2. /\ (a \o <<e>>) \o b \in Seq(S)
        /\ Len((a \o <<e>>) \o b) = Len(a \o <<e>>) + Len(b)
    BY <1>4, <2>1, ConcatLength
  <2>3. Len(a \o <<e>>) + Len(b) = Len(s) + 1
    <3>1. Len(s) \in Nat /\ i \in Nat
      OBVIOUS
    <3>2. Len(a \o <<e>>) = i /\ Len(b) = Len(s) - i + 1
      BY <1>4, <2>1, Zenon
    <3>3. QED
      BY <3>1, <3>2
  <2>4. QED
    BY <1>3, <2>2, <2>3, Zenon
<1>6. ASSUME NEW j \in 1..i
      PROVE  InsertAt(s, i, e)[j] = IF j < i THEN s[j] ELSE e
  <2>1. ((a \o <<e>>) \o b)[j] = (a \o <<e>>)[j]
    BY <1>2, <1>4
  <2>2. QED
    BY <1>3, <1>4, <2>1
<1>7. ASSUME NEW j \in i + 1..Len(s) + 1
      PROVE  InsertAt(s, i, e)[j] = s[j - 1]
  <2>1. ((a \o <<e>>) \o b)[j] = b[j - i]
    <3> DEFINE u == a \o <<e>>
    <3>1. u \in Seq(S) /\ Len(u) = i /\ b \in Seq(S) /\ Len(b) = Len(s) - i + 1
      BY <1>2, <1>4
    <3> HIDE DEF u
    <3>2. (u \o b)[j] = b[j - i]
      BY <3>1
    <3>3. QED
      BY <3>2 DEF u
  <2>2. j - i \in 1..Len(s) - i + 1 /\ i + (j - i) - 1 = j - 1
    OBVIOUS
  <2>3. QED
    BY <1>2, <1>3, <2>1, <2>2
<1>8. QED
  BY <1>5, <1>6, <1>7 DEF Inserted

(* Where the elements after an insertion come from.                        *)
LEMMA InsertedFrom ==
  ASSUME NEW S, NEW s \in Seq(S), NEW e \in S, NEW i \in 1..Len(s) + 1,
         NEW t, Inserted(S, t, s, i, e), NEW j \in 1..Len(s) + 1
  PROVE  /\ j < i => j \in 1..Len(s) /\ t[j] = s[j]
         /\ j = i => t[j] = e
         /\ j > i => j - 1 \in 1..Len(s) /\ t[j] = s[j - 1]
<1>1. t[j] = IF j < i THEN s[j] ELSE IF j = i THEN e ELSE s[j - 1]
  BY DEF Inserted
<1>2. Len(s) \in Nat /\ i \in Int /\ j \in Int
  OBVIOUS
<1>3. QED
  BY <1>1, <1>2

(* Two elements after an insertion are two elements that were there, or    *)
(* one of them is new.                                                     *)
LEMMA InsertedPairs ==
  ASSUME NEW S, NEW s \in Seq(S), NEW e \in S, NEW i \in 1..Len(s) + 1,
         NEW t, Inserted(S, t, s, i, e),
         NEW j \in 1..Len(s) + 1, NEW k \in 1..Len(s) + 1, j # k
  PROVE  \/ t[j] = e /\ \E n \in 1..Len(s) : t[k] = s[n]
         \/ t[k] = e /\ \E m \in 1..Len(s) : t[j] = s[m]
         \/ \E m, n \in 1..Len(s) : m # n /\ t[j] = s[m] /\ t[k] = s[n]
<1>0. i \in Int /\ j \in Int /\ k \in Int /\ Len(s) \in Nat
  OBVIOUS
<1>j. /\ j < i => j \in 1..Len(s) /\ t[j] = s[j]
      /\ j = i => t[j] = e
      /\ j > i => j - 1 \in 1..Len(s) /\ t[j] = s[j - 1]
  BY InsertedFrom
<1>k. /\ k < i => k \in 1..Len(s) /\ t[k] = s[k]
      /\ k = i => t[k] = e
      /\ k > i => k - 1 \in 1..Len(s) /\ t[k] = s[k - 1]
  BY InsertedFrom
<1>1. CASE j = i
  BY <1>0, <1>j, <1>k, <1>1
<1>2. CASE k = i
  BY <1>0, <1>j, <1>k, <1>2
<1>3. CASE j # i /\ k # i
  <2> DEFINE m == IF j < i THEN j ELSE j - 1
             n == IF k < i THEN k ELSE k - 1
  <2>1. m \in 1..Len(s) /\ t[j] = s[m]
    BY <1>0, <1>j, <1>3
  <2>2. n \in 1..Len(s) /\ t[k] = s[n]
    BY <1>0, <1>k, <1>3
  <2>3. m # n
    BY <1>0, <1>3
  <2> HIDE DEF m, n
  <2>4. QED
    BY <2>1, <2>2, <2>3
<1>4. QED
  BY <1>1, <1>2, <1>3

(* t, over S, is s without its i-th element.                               *)
Removed(S, t, s, i) ==
  /\ t \in Seq(S) /\ Len(t) = Len(s) - 1
  /\ \A j \in 1..Len(s) - 1 : t[j] = IF j < i THEN s[j] ELSE s[j + 1]

(* What a sequence holds after a removal.                                  *)
LEMMA RemoveAtElements ==
  ASSUME NEW S, NEW s \in Seq(S), NEW i \in 1..Len(s)
  PROVE  Removed(S, RemoveAt(s, i), s, i)
<1> DEFINE a == SubSeq(s, 1, i - 1)
           b == SubSeq(s, i + 1, Len(s))
<1>1. a \in Seq(S) /\ Len(a) = i - 1 /\ \A j \in 1..i - 1 : a[j] = s[j]
  OBVIOUS
<1>2. b \in Seq(S) /\ Len(b) = Len(s) - i /\ \A j \in 1..Len(s) - i : b[j] = s[i + j]
  OBVIOUS
<1>3. RemoveAt(s, i) = a \o b
  BY DEF RemoveAt
<1> HIDE DEF a, b
<1>4. a \o b \in Seq(S) /\ Len(a \o b) = Len(s) - 1
  <2>1. a \o b \in Seq(S) /\ Len(a \o b) = Len(a) + Len(b)
    BY <1>1, <1>2, ConcatLength
  <2>2. QED
    BY <1>1, <1>2, <2>1
<1>5. ASSUME NEW j \in 1..Len(s) - 1
      PROVE  (a \o b)[j] = IF j < i THEN s[j] ELSE s[j + 1]
  <2>1. CASE j < i
    <3>1. (a \o b)[j] = a[j]
      BY <1>1, <1>2, <2>1
    <3>2. QED
      BY <1>1, <2>1, <3>1
  <2>2. CASE ~(j < i)
    <3>1. (a \o b)[j] = b[j - (i - 1)]
      BY <1>1, <1>2, <2>2
    <3>2. j - (i - 1) \in 1..Len(s) - i /\ i + (j - (i - 1)) = j + 1
      BY <2>2
    <3>3. QED
      BY <1>2, <2>2, <3>1, <3>2
  <2>3. QED
    BY <2>1, <2>2
<1>6. QED
  BY <1>3, <1>4, <1>5 DEF Removed

(* The tail of a sequence without repetitions has none either, and not the *)
(* head.                                                                   *)
LEMMA TailElements ==
  ASSUME NEW S, NEW q \in Seq(S), q # <<>>,
         \A i, j \in 1..Len(q) : q[i] = q[j] => i = j
  PROVE  /\ Tail(q) \in Seq(S)
         /\ \A i, j \in 1..Len(Tail(q)) : Tail(q)[i] = Tail(q)[j] => i = j
         /\ \A i \in 1..Len(Tail(q)) :
              Tail(q)[i] # Head(q) /\ \E j \in 1..Len(q) : Tail(q)[i] = q[j]
         /\ Head(q) \in S /\ \E j \in 1..Len(q) : Head(q) = q[j]
<1>1. Len(q) \in Nat \ {0} /\ Head(q) = q[1] /\ q[1] \in S
  OBVIOUS
<1>2. /\ Tail(q) \in Seq(S) /\ Len(Tail(q)) = Len(q) - 1
      /\ \A i \in 1..Len(q) - 1 : Tail(q)[i] = q[i + 1]
  OBVIOUS
<1>3. \A i \in 1..Len(q) - 1 : i + 1 \in 1..Len(q) /\ i + 1 # 1
  BY <1>1
<1>4. QED
  BY <1>1, <1>2, <1>3
=============================================================================
