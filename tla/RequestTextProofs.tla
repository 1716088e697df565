-------------------------- MODULE RequestTextProofs --------------------------
(***************************************************************************)
(* Proofs about the wildcards of RequestText, for patterns and paths of    *)
(* any length over any characters, and what they and QueryProofs rest on:  *)
(* induction over the numbers up to n as a fact about sets (UpTo, from the *)
(* well-foundedness of <), and that what a fold computes is what the loop  *)
(* it stands for computes, value by value (FoldIsLoop).                    *)
(*                                                                         *)
(* MatchPath() is a loop over the characters of the path.  Its invariant   *)
(* (Reached) is that the numbers of atoms that can be behind are those     *)
(* whose pattern characters cover what is read.                            *)
(***************************************************************************)
EXTENDS RequestText, WellFoundedInduction, TLAPS

\* Natural numbers have a least one among them.
LEMMA Least == ASSUME NEW T \in SUBSET Nat, T # {}
               PROVE  \E i \in T : \A j \in T : i <= j
<1>1. PICK i \in T : \A j \in T : <<j, i>> \notin OpToRel(<, Nat)
  BY NatLessThanWellFounded, WFMin
<1>2. \A j \in T : ~(j < i)
  BY <1>1 DEF OpToRel
<1>3. QED
  BY <1>2

\* A set with 0 and with the successor of each of its numbers up to n has all of 0..n.
LEMMA UpTo ==
    ASSUME NEW T, NEW n \in Nat, 0 \in T, \A i \in 1..n : i - 1 \in T => i \in T
    PROVE  0..n \subseteq T
<1> SUFFICES ASSUME (0..n) \ T # {}
             PROVE  FALSE
  OBVIOUS
<1>1. PICK i \in (0..n) \ T : \A j \in (0..n) \ T : i <= j
  <2>1. (0..n) \ T \in SUBSET Nat
    OBVIOUS
  <2>2. QED
    BY <2>1, Least
<1>2. i \in 1..n /\ i - 1 \in 0..n
  BY <1>1
<1>3. i - 1 \in T
  BY <1>1, <1>2
<1>4. QED
  BY <1>1, <1>2, <1>3

\* The largest of a set of numbers that has k and none above it is k.
LEMMA MaxIs == ASSUME NEW T \in SUBSET Int, NEW k \in T, \A i \in T : i <= k
               PROVE  Max(T) = k
<1>1. \A x \in T : (\A y \in T : x >= y) => x = k
  OBVIOUS
<1>2. \A y \in T : k >= y
  OBVIOUS
<1>3. QED
  BY <1>1, <1>2, Zenon DEF Max

\* Some of the numbers up to n have a greatest one among them.
LEMMA Greatest ==
    ASSUME NEW n \in Nat, NEW T \in SUBSET (1..n), T # {}
    PROVE  \E i \in T : \A j \in T : j <= i
<1> DEFINE U == {m \in 0..n : \E i \in T : i = n - m}
<1>1. U \in SUBSET Nat /\ U # {}
  <2>1. PICK i \in T : TRUE
    OBVIOUS
  <2>2. n - i \in U
    BY <2>1
  <2>3. QED
    BY <2>2
<1>2. PICK m \in U : \A j \in U : m <= j
  <2> HIDE DEF U
  <2>1. QED
    BY <1>1, Least
<1>3. n - m \in T
  OBVIOUS
<1>4. ASSUME NEW i \in T
      PROVE  i <= n - m
  <2>1. n - i \in U
    OBVIOUS
  <2>2. QED
    BY <1>2, <2>1
<1>5. QED
  BY <1>3, <1>4

\* It is what Max gives.
LEMMA MaxIn ==
    ASSUME NEW n \in Nat, NEW T \in SUBSET (1..n), T # {}
    PROVE  Max(T) \in T
<1>1. PICK k \in T : \A i \in T : i <= k
  BY Greatest
<1>2. T \in SUBSET Int
  OBVIOUS
<1>3. Max(T) = k
  BY <1>1, <1>2, MaxIs
<1>4. QED
  BY <1>3

\* g folds each set of numbers, from its greatest down to none.
IsFold(g, n, base, step) ==
    \A s \in SUBSET (1..n) :
        g[s] = IF s = {} THEN base ELSE step[<<Max(s), g[s \ {Max(s)}]>>]

\* There is such a g.
LEMMA FoldExists ==
    ASSUME NEW V, NEW n \in Nat, NEW base \in V, NEW step \in [(1..n) \X V -> V]
    PROVE  \E g \in [SUBSET (1..n) -> V] : IsFold(g, n, base, step)
<1> DEFINE Good(g, k) == IsFold(g, k, base, step)
           Ks == {k \in 0..n : \E g \in [SUBSET (1..k) -> V] : Good(g, k)}
<1> USE DEF IsFold
<1>1. 0 \in Ks
  <2> DEFINE g == [s \in SUBSET (1..0) |-> base]
  <2>1. g \in [SUBSET (1..0) -> V]
    OBVIOUS
  <2>2. Good(g, 0)
    OBVIOUS
  <2>3. 0 \in 0..n
    OBVIOUS
  <2> HIDE DEF g, Good
  <2>4. QED
    BY <2>1, <2>2, <2>3
<1>2. ASSUME NEW k \in 1..n, k - 1 \in Ks
      PROVE  k \in Ks
  <2>1. PICK g \in [SUBSET (1..(k - 1)) -> V] : Good(g, k - 1)
    BY <1>2
  <2> DEFINE h == [s \in SUBSET (1..k) |-> IF k \in s THEN step[<<k, g[s \ {k}]>>] ELSE g[s]]
  <2>2. ASSUME NEW s \in SUBSET (1..k)
        PROVE  /\ k \in s => Max(s) = k /\ s \ {k} \in SUBSET (1..(k - 1))
               /\ k \notin s => s \in SUBSET (1..(k - 1))
    <3>1. s \in SUBSET Int /\ \A i \in s : i <= k
      OBVIOUS
    <3>2. QED
      BY <3>1, MaxIs
  <2>3. h \in [SUBSET (1..k) -> V]
    BY <2>2
  <2>4. ASSUME NEW s \in SUBSET (1..(k - 1)), s # {}
        PROVE  s \ {Max(s)} \in SUBSET (1..(k - 1))
    OBVIOUS
  <2>5. \A s \in SUBSET (1..(k - 1)) : h[s] = g[s]
    OBVIOUS
  <2>6. Good(h, k)
    <3> SUFFICES ASSUME NEW s \in SUBSET (1..k)
                 PROVE  h[s] = IF s = {} THEN base ELSE step[<<Max(s), h[s \ {Max(s)}]>>]
      OBVIOUS
    <3>1. CASE k \in s
      BY <2>2, <2>5, <3>1
    <3>2. CASE k \notin s
      BY <2>1, <2>2, <2>4, <2>5, <3>2
    <3>3. QED
      BY <3>1, <3>2
  <2> HIDE DEF h, Good
  <2>7. QED
    BY <2>3, <2>6
<1>3. n \in Ks
  <2> HIDE DEF Ks
  <2>1. 0..n \subseteq Ks
    BY <1>1, <1>2, UpTo
  <2>2. QED
    BY <2>1
<1>4. QED
  BY <1>3

\* iter folds with step wherever the values have their type.
FoldsIn(V, iter, n, base, step) ==
    /\ iter[{}] = base
    /\ \A s \in SUBSET (1..n) : s # {} /\ iter[s \ {Max(s)}] \in V
           => iter[s] = step[<<Max(s), iter[s \ {Max(s)}]>>]

\* f gives the values in V of a loop over 1..n that ends with last.
IsLoop(f, V, n, base, step, last) ==
    /\ f \in [0..n -> V]
    /\ f[0] = base /\ f[n] = last
    /\ \A k \in 1..n : f[k] = step[<<k, f[k - 1]>>]

\* Such an iter is a loop over 1..n.
LEMMA FoldIsLoop ==
    ASSUME NEW V, NEW n \in Nat, NEW base \in V, NEW step \in [(1..n) \X V -> V],
           NEW iter, FoldsIn(V, iter, n, base, step)
    PROVE  \E f : IsLoop(f, V, n, base, step, iter[1..n])
<1> USE DEF FoldsIn, IsLoop
<1>1. ASSUME NEW k \in 1..n, iter[1..(k - 1)] \in V
      PROVE  iter[1..k] = step[<<k, iter[1..(k - 1)]>>]
  <2>1. 1..k \in SUBSET (1..n) /\ 1..k # {} /\ (1..k) \ {k} = 1..(k - 1)
    <3>1. k \in 1..k /\ 1..k \subseteq 1..n
      OBVIOUS
    <3>2. (1..k) \ {k} = 1..(k - 1)
      OBVIOUS
    <3>3. QED
      BY <3>1, <3>2
  <2>2. Max(1..k) = k
    <3>1. 1..k \in SUBSET Int /\ k \in 1..k /\ \A i \in 1..k : i <= k
      OBVIOUS
    <3>2. QED
      BY <3>1, MaxIs
  <2>3. QED
    BY <1>1, <2>1, <2>2
<1> DEFINE T == {k \in 0..n : iter[1..k] \in V}
<1>2. 0 \in T
  <2>1. 1..0 = {}
    OBVIOUS
  <2>2. QED
    BY <2>1
<1>3. ASSUME NEW k \in 1..n, k - 1 \in T
      PROVE  k \in T
  <2>1. iter[1..(k - 1)] \in V
    BY <1>3
  <2>2. iter[1..k] = step[<<k, iter[1..(k - 1)]>>]
    BY <1>1, <2>1
  <2>3. step[<<k, iter[1..(k - 1)]>>] \in V
    BY <2>1
  <2>4. QED
    BY <2>2, <2>3
<1>4. 0..n \subseteq T
  <2> HIDE DEF T
  <2>1. QED
    BY <1>2, <1>3, UpTo
<1> DEFINE f == [k \in 0..n |-> iter[1..k]]
<1>5. f \in [0..n -> V]
  BY <1>4
<1>6. f[0] = base
  <2>1. 1..0 = {}
    OBVIOUS
  <2>2. QED
    BY <2>1
<1>7. \A k \in 1..n : f[k] = step[<<k, f[k - 1]>>]
  BY <1>1, <1>4
<1>8. iter[1..n] = f[n]
  OBVIOUS
<1> HIDE DEF f
<1>9. QED
  BY <1>5, <1>6, <1>7, <1>8

-----------------------------------------------------------------------------
(* Wildcards.                                                              *)

\* MatchPath() reads the path character by character.
LEMMA ReadFold ==
    ASSUME NEW Chars, NEW path \in Seq(Chars), NEW re, Len(re) \in Nat
    PROVE  \E f \in [0..Len(path) -> SUBSET (0..Len(re))] :
              /\ f[0] = Skip(re, {0})
              /\ \A k \in 1..Len(path) : f[k] = ReadChar(re, f[k - 1], path[k])
              /\ MatchPath(path, re) <=> Len(re) \in f[Len(path)]
<1> DEFINE n == Len(path)
           V == SUBSET (0..Len(re))
           step == [p \in (1..n) \X V |-> ReadChar(re, p[2], path[p[1]])]
           Solves(it) == it = [s \in SUBSET (1..n) |->
                             IF s = {} THEN Skip(re, {0})
                             ELSE ReadChar(re, it[s \ {Max(s)}], path[Max(s)])]
           iter == CHOOSE it : Solves(it)
<1>1. n \in Nat /\ DOMAIN path = 1..n
  OBVIOUS
<1>2. Skip(re, {0}) \in V /\ \A S, c : ReadChar(re, S, c) \in V
  BY DEF Skip, ReadChar
<1>3. step \in [(1..n) \X V -> V]
  BY <1>2
<1>4. PICK g \in [SUBSET (1..n) -> V] : IsFold(g, n, Skip(re, {0}), step)
  <2> DEFINE base == Skip(re, {0})
  <2>1. n \in Nat /\ base \in V /\ step \in [(1..n) \X V -> V]
    BY <1>1, <1>2, <1>3
  <2> HIDE DEF step, V, base, n
  <2>2. \E g \in [SUBSET (1..n) -> V] : IsFold(g, n, base, step)
    BY <2>1, FoldExists
  <2>3. QED
    BY <2>2 DEF base
<1>5. Solves(g)
  <2>1. ASSUME NEW s \in SUBSET (1..n), s # {}
        PROVE  Max(s) \in 1..n /\ s \ {Max(s)} \in SUBSET (1..n)
    BY <1>1, <2>1, MaxIn
  <2>2. ASSUME NEW s \in SUBSET (1..n), s # {}
        PROVE  g[s] = ReadChar(re, g[s \ {Max(s)}], path[Max(s)])
    BY <1>4, <2>1, <2>2 DEF IsFold
  <2>3. QED
    BY <1>4, <2>2 DEF IsFold
<1>6. Solves(iter)
  BY <1>5, Zenon
<1>7. MatchPath(path, re) <=> Len(re) \in iter[1..n]
  BY <1>1 DEF MatchPath, FoldLeft, MapThenFoldSet
<1>8. PICK f : IsLoop(f, V, n, Skip(re, {0}), step, iter[1..n])
  <2>1. iter[{}] = Skip(re, {0})
    BY <1>6
  <2>2. ASSUME NEW s \in SUBSET (1..n), s # {}, iter[s \ {Max(s)}] \in V
        PROVE  iter[s] = step[<<Max(s), iter[s \ {Max(s)}]>>]
    <3>1. Max(s) \in 1..n
      BY <1>1, <2>2, MaxIn
    <3>2. iter[s] = ReadChar(re, iter[s \ {Max(s)}], path[Max(s)])
      BY <1>6, <2>2
    <3> HIDE DEF iter
    <3>3. QED
      BY <2>2, <3>1, <3>2
  <2> HIDE DEF iter
  <2>3. FoldsIn(V, iter, n, Skip(re, {0}), step)
    BY <2>1, <2>2 DEF FoldsIn
  <2> DEFINE base == Skip(re, {0})
  <2>4. /\ n \in Nat /\ base \in V /\ step \in [(1..n) \X V -> V]
        /\ FoldsIn(V, iter, n, base, step)
    BY <1>1, <1>2, <1>3, <2>3
  <2> HIDE DEF V, step, n, base
  <2>5. \E f : IsLoop(f, V, n, base, step, iter[1..n])
    BY <2>4, FoldIsLoop
  <2>6. QED
    BY <2>5 DEF base
<1>9. ASSUME NEW k \in 1..n
      PROVE  f[k] = ReadChar(re, f[k - 1], path[k])
  <2>1. f[k] = step[<<k, f[k - 1]>>]
    BY <1>8 DEF IsLoop
  <2>2. k - 1 \in 0..n
    BY <1>1
  <2>3. f[k - 1] \in V
    BY <1>8, <2>2 DEF IsLoop
  <2>4. QED
    BY <2>1, <2>3
<1> HIDE DEF iter
<1>10. QED
  BY <1>7, <1>8, <1>9 DEF IsLoop

\* The character at k of the path is one that the i-th of the pattern stands for.
Stands(pattern, path, i, k) == pattern[i] = "?" \/ ICase(pattern[i]) = ICase(path[k])

\* cut divides k characters of the path among j of the pattern.
IsCut(pattern, path, j, k, cut) ==
    /\ cut[0] = 0 /\ cut[j] = k
    /\ \A i \in 1..j :
          /\ cut[i - 1] <= cut[i]
          /\ pattern[i] # "*" => cut[i] = cut[i - 1] + 1 /\ Stands(pattern, path, i, cut[i])

\* The first j characters of the pattern cover the first k of the path.
CoversUpTo(pattern, path, j, k) ==
    \E cut \in [0..j -> 0..k] : IsCut(pattern, path, j, k, cut)

\* Cuts rise.
LEMMA CutsRise ==
    ASSUME NEW pattern, NEW path, NEW j \in Nat, NEW k \in Nat,
           NEW cut \in [0..j -> 0..k], IsCut(pattern, path, j, k, cut),
           NEW a \in 0..j, NEW b \in a..j
    PROVE  cut[a] <= cut[b]
<1> DEFINE T == {d \in 0..(j - a) : cut[a] <= cut[a + d]}
<1>1. 0 \in T
  OBVIOUS
<1>2. ASSUME NEW d \in 1..(j - a), d - 1 \in T
      PROVE  d \in T
  <2>1. a + d \in 1..j /\ a + (d - 1) = (a + d) - 1
    OBVIOUS
  <2>2. cut[(a + d) - 1] <= cut[a + d] /\ cut[a] <= cut[(a + d) - 1]
    BY <1>2, <2>1 DEF IsCut
  <2>3. cut[a] \in Nat /\ cut[a + d] \in Nat /\ cut[(a + d) - 1] \in Nat
    BY <2>1
  <2>4. QED
    BY <2>2, <2>3
<1>3. j - a \in Nat
  OBVIOUS
<1>4. b - a \in T
  <2> HIDE DEF T
  <2>1. 0..(j - a) \subseteq T
    BY <1>1, <1>2, <1>3, UpTo
  <2>2. QED
    BY <2>1
<1>5. QED
  BY <1>4

\* Nothing of the pattern covers nothing of the path.
LEMMA CoversNone ==
    ASSUME NEW pattern, NEW path, NEW k \in Nat
    PROVE  CoversUpTo(pattern, path, 0, k) <=> k = 0
<1>1. CoversUpTo(pattern, path, 0, k) => k = 0
  BY DEF CoversUpTo, IsCut
<1>2. ASSUME k = 0
      PROVE  CoversUpTo(pattern, path, 0, k)
  <2> DEFINE cut == [i \in 0..0 |-> 0]
  <2>1. cut \in [0..0 -> 0..k] /\ IsCut(pattern, path, 0, k, cut)
    BY <1>2 DEF IsCut
  <2>2. QED
    BY <2>1 DEF CoversUpTo
<1>3. QED
  BY <1>1, <1>2

\* A star covers what came before it, or one character more than it did.
LEMMA CoversStar ==
    ASSUME NEW pattern, NEW path, NEW j \in Nat \ {0}, NEW k \in Nat, pattern[j] = "*"
    PROVE  CoversUpTo(pattern, path, j, k) <=>
              \/ CoversUpTo(pattern, path, j - 1, k)
              \/ k > 0 /\ CoversUpTo(pattern, path, j, k - 1)
<1>1. ASSUME NEW cut \in [0..j -> 0..k], IsCut(pattern, path, j, k, cut)
      PROVE  \/ CoversUpTo(pattern, path, j - 1, k)
             \/ k > 0 /\ CoversUpTo(pattern, path, j, k - 1)
  <2>1. ASSUME NEW i \in 0..(j - 1)
        PROVE  cut[i] <= cut[j - 1]
    <3>1. i \in 0..j /\ j - 1 \in i..j /\ j \in Nat
      OBVIOUS
    <3>2. QED
      BY <1>1, <3>1, CutsRise
  <2>2. CASE cut[j - 1] = k
    <3> DEFINE c == [i \in 0..(j - 1) |-> cut[i]]
    <3>1. c \in [0..(j - 1) -> 0..k] /\ IsCut(pattern, path, j - 1, k, c)
      BY <1>1, <2>2 DEF IsCut
    <3>2. QED
      BY <3>1 DEF CoversUpTo
  <2>3. CASE cut[j - 1] # k
    <3> DEFINE c == [i \in 0..j |-> IF i = j THEN k - 1 ELSE cut[i]]
    <3>1. cut[j - 1] \in 0..(k - 1) /\ k > 0
      BY <2>3
    <3>2. c \in [0..j -> 0..(k - 1)]
      BY <2>1, <3>1
    <3>3. IsCut(pattern, path, j, k - 1, c)
      BY <1>1, <2>1, <3>1 DEF IsCut
    <3>4. QED
      BY <3>1, <3>2, <3>3 DEF CoversUpTo
  <2>4. QED
    BY <2>2, <2>3
<1>2. ASSUME NEW cut \in [0..(j - 1) -> 0..k], IsCut(pattern, path, j - 1, k, cut)
      PROVE  CoversUpTo(pattern, path, j, k)
  <2> DEFINE c == [i \in 0..j |-> IF i = j THEN k ELSE cut[i]]
  <2>1. c \in [0..j -> 0..k] /\ IsCut(pattern, path, j, k, c)
    BY <1>2 DEF IsCut
  <2>2. QED
    BY <2>1 DEF CoversUpTo
<1>3. ASSUME k > 0, NEW cut \in [0..j -> 0..(k - 1)], IsCut(pattern, path, j, k - 1, cut)
      PROVE  CoversUpTo(pattern, path, j, k)
  <2> DEFINE c == [i \in 0..j |-> IF i = j THEN k ELSE cut[i]]
  <2>1. c \in [0..j -> 0..k] /\ IsCut(pattern, path, j, k, c)
    BY <1>3 DEF IsCut
  <2>2. QED
    BY <2>1 DEF CoversUpTo
<1>4. QED
  BY <1>1, <1>2, <1>3 DEF CoversUpTo

\* Another character covers one character that it stands for.
LEMMA CoversChar ==
    ASSUME NEW pattern, NEW path, NEW j \in Nat \ {0}, NEW k \in Nat, pattern[j] # "*"
    PROVE  CoversUpTo(pattern, path, j, k) <=>
              k > 0 /\ CoversUpTo(pattern, path, j - 1, k - 1) /\ Stands(pattern, path, j, k)
<1>1. ASSUME NEW cut \in [0..j -> 0..k], IsCut(pattern, path, j, k, cut)
      PROVE  k > 0 /\ CoversUpTo(pattern, path, j - 1, k - 1) /\ Stands(pattern, path, j, k)
  <2>1. ASSUME NEW i \in 0..(j - 1)
        PROVE  cut[i] <= cut[j - 1]
    <3>1. i \in 0..j /\ j - 1 \in i..j /\ j \in Nat
      OBVIOUS
    <3>2. QED
      BY <1>1, <3>1, CutsRise
  <2>2. k = cut[j - 1] + 1 /\ cut[j - 1] \in Nat /\ Stands(pattern, path, j, k)
    BY <1>1 DEF IsCut
  <2> DEFINE c == [i \in 0..(j - 1) |-> cut[i]]
  <2>3. c \in [0..(j - 1) -> 0..(k - 1)]
    BY <2>1, <2>2
  <2>4. IsCut(pattern, path, j - 1, k - 1, c)
    <3>1. c[0] = 0 /\ c[j - 1] = k - 1
      BY <1>1, <2>2 DEF IsCut
    <3>2. ASSUME NEW i \in 1..(j - 1)
          PROVE  /\ c[i - 1] <= c[i]
                 /\ pattern[i] # "*" => c[i] = c[i - 1] + 1 /\ Stands(pattern, path, i, c[i])
      <4>1. i \in 1..j /\ c[i] = cut[i] /\ c[i - 1] = cut[i - 1]
        OBVIOUS
      <4>2. QED
        BY <1>1, <4>1 DEF IsCut
    <3> HIDE DEF c
    <3>3. QED
      BY <3>1, <3>2 DEF IsCut
  <2>5. QED
    BY <2>2, <2>3, <2>4 DEF CoversUpTo
<1>2. ASSUME k > 0, Stands(pattern, path, j, k),
             NEW cut \in [0..(j - 1) -> 0..(k - 1)], IsCut(pattern, path, j - 1, k - 1, cut)
      PROVE  CoversUpTo(pattern, path, j, k)
  <2> DEFINE c == [i \in 0..j |-> IF i = j THEN k ELSE cut[i]]
  <2>1. c \in [0..j -> 0..k] /\ IsCut(pattern, path, j, k, c)
    BY <1>2 DEF IsCut
  <2>2. QED
    BY <2>1 DEF CoversUpTo
<1>3. QED
  BY <1>1, <1>2 DEF CoversUpTo

\* The characters of the pattern from behind i to j are stars.
Stars(pattern, i, j) == \A m \in i + 1..j : pattern[m] = "*"

\* Stars may be passed over.
LEMMA CoversSkips ==
    ASSUME NEW pattern, NEW path, NEW i \in Nat, NEW j \in Nat, i <= j, NEW k \in Nat,
           CoversUpTo(pattern, path, i, k), Stars(pattern, i, j)
    PROVE  CoversUpTo(pattern, path, j, k)
<1> DEFINE T == {d \in 0..(j - i) : CoversUpTo(pattern, path, i + d, k)}
<1>1. 0 \in T
  OBVIOUS
<1>2. ASSUME NEW d \in 1..(j - i), d - 1 \in T
      PROVE  d \in T
  <2> DEFINE m == i + d
  <2>1. m \in Nat \ {0} /\ m \in i + 1..j /\ m - 1 = i + (d - 1)
    OBVIOUS
  <2>2. pattern[m] = "*" /\ CoversUpTo(pattern, path, m - 1, k)
    BY <1>2, <2>1 DEF Stars
  <2> HIDE DEF m
  <2>3. CoversUpTo(pattern, path, m, k)
    BY <2>1, <2>2, CoversStar
  <2>4. QED
    BY <2>3 DEF m
<1>3. j - i \in Nat /\ j - i \in 0..(j - i) /\ i + (j - i) = j
  OBVIOUS
<1>4. j - i \in T
  <2> HIDE DEF T
  <2>1. 0..(j - i) \subseteq T
    BY <1>1, <1>2, <1>3, UpTo
  <2>2. QED
    BY <1>3, <2>1
<1>5. QED
  BY <1>3, <1>4

\* What covers a path covered all but its last character before, up to stars behind:
\* that character went to one of them, or to the character before them.
LEMMA CoversBack ==
    ASSUME NEW pattern, NEW path, NEW j \in Nat, NEW k \in Nat,
           CoversUpTo(pattern, path, j, k + 1)
    PROVE  \E i \in 0..j :
              /\ Stars(pattern, i, j)
              /\ \/ i < j /\ CoversUpTo(pattern, path, i + 1, k)
                 \/ i > 0 /\ pattern[i] # "*" /\ CoversUpTo(pattern, path, i, k + 1)
<1> DEFINE Back(m, i) ==
              /\ Stars(pattern, i, m)
              /\ \/ i < m /\ CoversUpTo(pattern, path, i + 1, k)
                 \/ i > 0 /\ pattern[i] # "*" /\ CoversUpTo(pattern, path, i, k + 1)
           T == {m \in 0..j : CoversUpTo(pattern, path, m, k + 1) => \E i \in 0..m : Back(m, i)}
<1>1. 0 \in T
  BY CoversNone
<1>2. ASSUME NEW m \in 1..j, m - 1 \in T
      PROVE  m \in T
  <2> SUFFICES ASSUME CoversUpTo(pattern, path, m, k + 1)
               PROVE  \E i \in 0..m : Back(m, i)
    OBVIOUS
  <2>1. CASE pattern[m] # "*"
    <3>1. Stars(pattern, m, m)
      BY DEF Stars
    <3>2. QED
      BY <2>1, <3>1
  <2>2. CASE pattern[m] = "*"
    <3>1. \/ CoversUpTo(pattern, path, m - 1, k + 1)
          \/ CoversUpTo(pattern, path, m, k)
      <4>1. m \in Nat \ {0} /\ k + 1 \in Nat /\ (k + 1) - 1 = k
        OBVIOUS
      <4>2. QED
        BY <2>2, <4>1, CoversStar
    <3>2. ASSUME CoversUpTo(pattern, path, m - 1, k + 1)
          PROVE  \E i \in 0..m : Back(m, i)
      <4>1. PICK i \in 0..(m - 1) : Back(m - 1, i)
        BY <1>2, <3>2
      <4>2. Stars(pattern, i, m)
        BY <2>2, <4>1 DEF Stars
      <4>3. i \in 0..m /\ (i < m - 1 => i < m)
        OBVIOUS
      <4>4. Back(m, i)
        BY <4>1, <4>2, <4>3
      <4>5. QED
        BY <4>3, <4>4
    <3>3. ASSUME CoversUpTo(pattern, path, m, k)
          PROVE  \E i \in 0..m : Back(m, i)
      <4>1. Stars(pattern, m - 1, m) /\ m - 1 \in 0..m /\ m - 1 < m /\ (m - 1) + 1 = m
        BY <2>2 DEF Stars
      <4>2. Back(m, m - 1)
        BY <3>3, <4>1
      <4>3. QED
        BY <4>1, <4>2
    <3>4. QED
      BY <3>1, <3>2, <3>3
  <2>3. QED
    BY <2>1, <2>2
<1>3. j \in T
  <2> HIDE DEF T
  <2>1. 0..j \subseteq T
    BY <1>1, <1>2, UpTo
  <2>2. QED
    BY <2>1
<1>4. QED
  BY <1>3

\* What the atoms of a regular expression take is what the pattern's characters stand for.
LEMMA AtomsMean ==
    ASSUME NEW Chars, NEW pattern \in Seq(Chars)
    PROVE  /\ Len(WildcardToRegex(pattern)) = Len(pattern)
           /\ \A i \in 1..Len(pattern) :
                 /\ WildcardToRegex(pattern)[i].star <=> pattern[i] = "*"
                 /\ \A c : TakesChar(WildcardToRegex(pattern)[i], c) <=>
                              \/ pattern[i] \in {"*", "?"}
                              \/ ICase(pattern[i]) = ICase(c)
<1> DEFINE re == WildcardToRegex(pattern)
<1>1. DOMAIN pattern = 1..Len(pattern) /\ re = [i \in 1..Len(pattern) |-> AtomOf(pattern[i])]
  BY DEF WildcardToRegex
<1>2. Len(re) = Len(pattern)
  BY <1>1
<1>3. ASSUME NEW c
      PROVE  /\ AtomOf(c).star <=> c = "*"
             /\ AtomOf(c).any <=> c \in {"*", "?"}
             /\ AtomOf(c).char = c
  <2>1. CASE c = "*"
    BY <2>1 DEF AtomOf, Atom, Escaped
  <2>2. CASE c = "?"
    BY <2>2 DEF AtomOf, Atom, Escaped
  <2>3. CASE c \in Escaped
    BY <2>3 DEF AtomOf, Atom, Escaped
  <2>4. CASE c \notin Escaped \cup {"*", "?"}
    <3>1. AtomOf(c) = Atom(FALSE, FALSE, c)
      BY <2>4 DEF AtomOf, Escaped
    <3>2. QED
      BY <2>4, <3>1 DEF Atom
  <2>5. QED
    BY <2>1, <2>2, <2>3, <2>4
<1>4. QED
  BY <1>1, <1>2, <1>3 DEF TakesChar

\* The numbers of atoms that can be behind after k characters, a star also while it
\* still takes some.
Reached(pattern, path, k) ==
    {j \in 0..Len(pattern) :
        \/ CoversUpTo(pattern, path, j, k)
        \/ j < Len(pattern) /\ pattern[j + 1] = "*" /\ CoversUpTo(pattern, path, j + 1, k)}

\* Stars can be skipped before anything is read.
LEMMA ReachedFirst ==
    ASSUME NEW Chars, NEW pattern \in Seq(Chars), NEW path
    PROVE  Skip(WildcardToRegex(pattern), {0}) = Reached(pattern, path, 0)
<1> DEFINE n == Len(pattern)
<1>1. n \in Nat
  OBVIOUS
<1>2. Skip(WildcardToRegex(pattern), {0}) = {j \in 0..n : Stars(pattern, 0, j)}
  BY AtomsMean DEF Skip, Stars
<1>3. ASSUME NEW j \in Nat
      PROVE  CoversUpTo(pattern, path, j, 0) <=> Stars(pattern, 0, j)
  <2>1. ASSUME NEW cut \in [0..j -> 0..0], IsCut(pattern, path, j, 0, cut)
        PROVE  Stars(pattern, 0, j)
    <3>1. ASSUME NEW i \in 1..j
          PROVE  pattern[i] = "*"
      <4>1. cut[i] = 0 /\ cut[i - 1] = 0
        OBVIOUS
      <4>2. QED
        BY <2>1, <4>1 DEF IsCut
    <3>2. QED
      BY <3>1 DEF Stars
  <2>2. ASSUME Stars(pattern, 0, j)
        PROVE  CoversUpTo(pattern, path, j, 0)
    <3>1. CoversUpTo(pattern, path, 0, 0)
      BY CoversNone
    <3>2. 0 \in Nat /\ 0 <= j
      OBVIOUS
    <3>3. QED
      BY <2>2, <3>1, <3>2, CoversSkips
  <2>3. QED
    BY <2>1, <2>2 DEF CoversUpTo
<1>4. ASSUME NEW j \in 0..n
      PROVE  j \in Reached(pattern, path, 0) <=> Stars(pattern, 0, j)
  <2>1. Stars(pattern, 0, j + 1) => Stars(pattern, 0, j)
    BY DEF Stars
  <2>2. QED
    BY <1>3, <2>1 DEF Reached
<1>5. QED
  BY <1>2, <1>4 DEF Reached

\* Reading a character leads on from what was reached to what is reached next.
LEMMA ReachedNext ==
    ASSUME NEW Chars, NEW pattern \in Seq(Chars), NEW path, NEW k \in Nat
    PROVE  ReadChar(WildcardToRegex(pattern), Reached(pattern, path, k), path[k + 1])
               = Reached(pattern, path, k + 1)
<1> DEFINE n == Len(pattern)
           S == Reached(pattern, path, k)
           Stays(i) == i < n /\ i \in S /\ pattern[i + 1] = "*"
           Passes(i) == i > 0 /\ i - 1 \in S /\ pattern[i] # "*"
                            /\ Stands(pattern, path, i, k + 1)
           Arrives(j) == \E i \in 0..n :
                             i <= j /\ Stars(pattern, i, j) /\ (Stays(i) \/ Passes(i))
<1>1. n \in Nat /\ k + 1 \in Nat /\ (k + 1) - 1 = k
  OBVIOUS
<1>2. ReadChar(WildcardToRegex(pattern), S, path[k + 1]) = {j \in 0..n : Arrives(j)}
  <2> DEFINE re == WildcardToRegex(pattern)
             c == path[k + 1]
  <2>1. \A i \in 1..n : /\ re[i].star <=> pattern[i] = "*"
                        /\ TakesChar(re[i], c) <=> pattern[i] \in {"*", "?"}
                                                    \/ ICase(pattern[i]) = ICase(c)
    BY AtomsMean
  <2>2. Len(re) = n
    BY AtomsMean
  <2> HIDE DEF re
  <2>3. ASSUME NEW i \in 0..n
        PROVE  /\ i < n /\ i \in S /\ re[i + 1].star /\ TakesChar(re[i + 1], c) <=> Stays(i)
               /\ i > 0 /\ i - 1 \in S /\ ~re[i].star /\ TakesChar(re[i], c) <=> Passes(i)
    <3>1. i < n => i + 1 \in 1..n
      BY <1>1
    <3>2. i > 0 => i \in 1..n
      BY <1>1
    <3> HIDE DEF S, c
    <3>3. i < n /\ i \in S /\ re[i + 1].star /\ TakesChar(re[i + 1], c) <=> Stays(i)
      BY <2>1, <3>1
    <3>4. i > 0 /\ i - 1 \in S /\ ~re[i].star /\ TakesChar(re[i], c) <=> Passes(i)
      BY <2>1, <3>2 DEF Stands, c
    <3>5. QED
      BY <3>3, <3>4
  <2> DEFINE X == {i \in 0..n : \/ i < n /\ i \in S /\ re[i + 1].star /\ TakesChar(re[i + 1], c)
                                \/ i > 0 /\ i - 1 \in S /\ ~re[i].star /\ TakesChar(re[i], c)}
  <2>4. X = {i \in 0..n : Stays(i) \/ Passes(i)}
    BY <2>3
  <2>5. ReadChar(re, S, c) = Skip(re, X)
    BY <2>2 DEF ReadChar
  <2> HIDE DEF X, S, c, Stays, Passes
  <2>6. Skip(re, X) = {j \in 0..n : \E i \in X : i <= j /\ Stars(pattern, i, j)}
    <3>1. ASSUME NEW j \in 0..n, NEW i \in 0..n
          PROVE  (\A m \in i + 1..j : re[m].star) <=> Stars(pattern, i, j)
      <4>1. \A m \in i + 1..j : m \in 1..n
        BY <1>1
      <4>2. QED
        BY <2>1, <4>1 DEF Stars
    <3>2. X \subseteq 0..n
      BY DEF X
    <3>3. QED
      BY <2>2, <3>1, <3>2 DEF Skip
  <2>7. QED
    BY <2>4, <2>5, <2>6 DEF re, S, c
<1>3. ASSUME NEW j \in 0..n, NEW i \in 0..j, Stars(pattern, i, j), Stays(i)
      PROVE  j \in Reached(pattern, path, k + 1)
  <2>1. CoversUpTo(pattern, path, i + 1, k)
    <3>1. CASE CoversUpTo(pattern, path, i, k)
      <4>1. i + 1 \in Nat /\ i <= i + 1 /\ Stars(pattern, i, i + 1)
        BY <1>3 DEF Stars
      <4>2. QED
        BY <3>1, <4>1, CoversSkips
    <3>2. QED
      BY <1>3, <3>1 DEF Reached
  <2>2. CoversUpTo(pattern, path, i + 1, k + 1)
    <3> DEFINE m == i + 1
    <3>1. m \in Nat \ {0} /\ k + 1 > 0 /\ pattern[m] = "*"
      BY <1>3
    <3>2. CoversUpTo(pattern, path, m, (k + 1) - 1)
      BY <1>1, <2>1
    <3> HIDE DEF m
    <3>3. CoversUpTo(pattern, path, m, k + 1)
      BY <1>1, <3>1, <3>2, CoversStar
    <3>4. QED
      BY <3>3 DEF m
  <2>3. CASE i = j
    BY <1>3, <2>2, <2>3 DEF Reached
  <2>4. CASE i < j
    <3>1. Stars(pattern, i + 1, j) /\ i + 1 \in Nat /\ i + 1 <= j
      BY <1>3, <2>4 DEF Stars
    <3>2. CoversUpTo(pattern, path, j, k + 1)
      BY <1>1, <2>2, <3>1, CoversSkips
    <3>3. QED
      BY <3>2 DEF Reached
  <2>5. QED
    BY <2>3, <2>4
<1>4. ASSUME NEW j \in 0..n, NEW i \in 0..j, Stars(pattern, i, j), Passes(i)
      PROVE  j \in Reached(pattern, path, k + 1)
  <2>1. i \in Nat \ {0} /\ (i - 1) + 1 = i
    BY <1>4
  <2>2. CoversUpTo(pattern, path, i - 1, k)
    BY <1>4, <2>1 DEF Reached
  <2>3. CoversUpTo(pattern, path, i, k + 1)
    BY <1>1, <1>4, <2>1, <2>2, CoversChar
  <2>4. CoversUpTo(pattern, path, j, k + 1)
    BY <1>1, <1>4, <2>3, CoversSkips
  <2>5. QED
    BY <2>4 DEF Reached
<1>5. ASSUME NEW j \in 0..n, CoversUpTo(pattern, path, j, k + 1)
      PROVE  Arrives(j)
  <2>1. PICK i \in 0..j :
              /\ Stars(pattern, i, j)
              /\ \/ i < j /\ CoversUpTo(pattern, path, i + 1, k)
                 \/ i > 0 /\ pattern[i] # "*" /\ CoversUpTo(pattern, path, i, k + 1)
    BY <1>5, CoversBack
  <2>2. CASE i < j /\ CoversUpTo(pattern, path, i + 1, k)
    <3>1. pattern[i + 1] = "*" /\ i < n /\ i \in 0..n
      BY <2>1, <2>2 DEF Stars
    <3>2. i \in S
      BY <2>2, <3>1 DEF Reached
    <3>3. Stays(i)
      BY <3>1, <3>2
    <3>4. QED
      BY <2>1, <3>1, <3>3
  <2>3. CASE i > 0 /\ pattern[i] # "*" /\ CoversUpTo(pattern, path, i, k + 1)
    <3>1. i \in Nat \ {0} /\ i - 1 \in 0..n /\ i \in 0..n
      BY <2>3
    <3>2. CoversUpTo(pattern, path, i - 1, k) /\ Stands(pattern, path, i, k + 1)
      BY <1>1, <2>3, <3>1, CoversChar
    <3>3. i - 1 \in S
      BY <3>1, <3>2 DEF Reached
    <3>4. Passes(i)
      BY <2>3, <3>2, <3>3
    <3>5. QED
      BY <2>1, <3>1, <3>4
  <2>4. QED
    BY <2>1, <2>2, <2>3
<1>6. ASSUME NEW j \in 0..n, j < n, pattern[j + 1] = "*", CoversUpTo(pattern, path, j + 1, k + 1)
      PROVE  Arrives(j)
  <2>1. CASE CoversUpTo(pattern, path, j, k + 1)
    BY <1>5, <2>1
  <2>2. CASE CoversUpTo(pattern, path, j + 1, k)
    <3>1. Stars(pattern, j, j) /\ j \in S
      BY <1>6, <2>2 DEF Stars, Reached
    <3>2. Stays(j)
      BY <1>6, <3>1
    <3>3. QED
      BY <3>1, <3>2
  <2>3. QED
    <3>1. j + 1 \in Nat \ {0} /\ (j + 1) - 1 = j
      OBVIOUS
    <3>2. QED
      BY <1>1, <1>6, <2>1, <2>2, <3>1, CoversStar
<1>7. \A j \in 0..n : Arrives(j) <=> j \in Reached(pattern, path, k + 1)
  <2>1. ASSUME NEW j \in 0..n, Arrives(j)
        PROVE  j \in Reached(pattern, path, k + 1)
    <3>1. PICK i \in 0..n : i <= j /\ Stars(pattern, i, j) /\ (Stays(i) \/ Passes(i))
      BY <2>1
    <3>2. i \in 0..j
      BY <3>1
    <3> HIDE DEF Stays, Passes
    <3>3. QED
      BY <1>3, <1>4, <3>1, <3>2
  <2>2. ASSUME NEW j \in 0..n, j \in Reached(pattern, path, k + 1)
        PROVE  Arrives(j)
    <3> HIDE DEF Arrives
    <3>1. QED
      BY <1>5, <1>6, <2>2 DEF Reached
  <2>3. QED
    BY <2>1, <2>2
<1>8. Reached(pattern, path, k + 1) \subseteq 0..n
  BY DEF Reached
<1> HIDE DEF Arrives, S
<1>9. QED
  BY <1>2, <1>7, <1>8 DEF S

\* "supports wildcards: * and ?": the regular expression that wildcardToRegex() makes
\* of any pattern matches exactly the paths that the pattern covers, for patterns and
\* paths of any length, whatever characters they are made of.
THEOREM WildcardCovers ==
    ASSUME NEW Chars, NEW pattern \in Seq(Chars), NEW path \in Seq(Chars)
    PROVE  MatchPath(path, WildcardToRegex(pattern)) <=> Covers(pattern, path)
<1> DEFINE re == WildcardToRegex(pattern)
           n == Len(path)
<1>1. Len(re) = Len(pattern) /\ Len(re) \in Nat /\ n \in Nat
  BY AtomsMean
<1>2. PICK f \in [0..n -> SUBSET (0..Len(re))] :
              /\ f[0] = Skip(re, {0})
              /\ \A k \in 1..n : f[k] = ReadChar(re, f[k - 1], path[k])
              /\ MatchPath(path, re) <=> Len(re) \in f[n]
  BY <1>1, ReadFold
<1> DEFINE T == {k \in 0..n : f[k] = Reached(pattern, path, k)}
<1>3. 0 \in T
  BY <1>1, <1>2, ReachedFirst
<1>4. ASSUME NEW k \in 1..n, k - 1 \in T
      PROVE  k \in T
  <2>1. k - 1 \in Nat /\ (k - 1) + 1 = k
    OBVIOUS
  <2>2. ReadChar(re, Reached(pattern, path, k - 1), path[(k - 1) + 1])
            = Reached(pattern, path, (k - 1) + 1)
    BY <2>1, ReachedNext
  <2>3. QED
    BY <1>2, <1>4, <2>1, <2>2
<1>5. n \in T
  <2> HIDE DEF T
  <2>1. 0..n \subseteq T
    BY <1>1, <1>3, <1>4, UpTo
  <2>2. QED
    BY <1>1, <2>1
<1>6. Len(pattern) \in Reached(pattern, path, n) <=> CoversUpTo(pattern, path, Len(pattern), n)
  BY <1>1 DEF Reached
<1>7. CoversUpTo(pattern, path, Len(pattern), n) <=> Covers(pattern, path)
  BY DEF CoversUpTo, IsCut, Stands, Covers
<1>8. QED
  BY <1>1, <1>2, <1>5, <1>6, <1>7
=============================================================================
