---------------------------- MODULE QueryProofs ----------------------------
(***************************************************************************)
(* Proofs about the query parameters of RequestText, for queries of any    *)
(* length over any characters.                                             *)
(*                                                                         *)
(* Split() is a loop over the characters: the pieces so far, and where     *)
(* each starts, are its invariant (IsSplit).  parseQueryParams() is a loop *)
(* over the pieces: its invariant (SaysUpTo) gives each key the value of   *)
(* the last piece so far that has it.                                      *)
(***************************************************************************)
EXTENDS RequestTextProofs

-----------------------------------------------------------------------------
(* Splitting a text.                                                       *)

\* The parts a text is split into as far as it is read.
Parts(Chars) == Seq(Seq(Chars)) \ {<<>>}

\* A character starts a part or goes to the last one.
LEMMA AddCharType ==
    ASSUME NEW Chars, NEW parts \in Parts(Chars), NEW c \in Chars, NEW sep
    PROVE  AddChar(parts, c, sep) \in Parts(Chars)
<1>1. parts \in Seq(Seq(Chars)) /\ Len(parts) \in DOMAIN parts /\ <<>> \in Seq(Chars)
  BY DEF Parts
<1>2. CASE c = sep
  <2>1. AddChar(parts, c, sep) = Append(parts, <<>>)
    BY <1>2 DEF AddChar
  <2>2. Append(parts, <<>>) \in Seq(Seq(Chars)) /\ Len(Append(parts, <<>>)) > 0
    BY <1>1
  <2>3. QED
    BY <2>1, <2>2 DEF Parts
<1>3. CASE c # sep
  <2> DEFINE last == Append(parts[Len(parts)], c)
  <2>1. AddChar(parts, c, sep) = [parts EXCEPT ![Len(parts)] = last]
    BY <1>3 DEF AddChar
  <2>2. last \in Seq(Chars)
    BY <1>1
  <2> HIDE DEF last
  <2>3. [parts EXCEPT ![Len(parts)] = last] \in Seq(Seq(Chars))
    BY <1>1, <2>2
  <2>4. [parts EXCEPT ![Len(parts)] = last] # <<>>
    BY <1>1
  <2>5. QED
    BY <2>1, <2>3, <2>4 DEF Parts
<1>4. QED
  BY <1>2, <1>3

\* Split() reads the text character by character.
LEMMA SplitLoop ==
    ASSUME NEW Chars, NEW text \in Seq(Chars), NEW sep
    PROVE  \E f \in [0..Len(text) -> Parts(Chars)] :
              /\ f[0] = << <<>> >>
              /\ \A k \in 1..Len(text) : f[k] = AddChar(f[k - 1], text[k], sep)
              /\ f[Len(text)] = Split(text, sep)
<1> DEFINE n == Len(text)
           V == Parts(Chars)
           base == << <<>> >>
           step == [p \in (1..n) \X V |-> AddChar(p[2], text[p[1]], sep)]
           Solves(it) == it = [s \in SUBSET (1..n) |->
                             IF s = {} THEN << <<>> >>
                             ELSE AddChar(it[s \ {Max(s)}], text[Max(s)], sep)]
           iter == CHOOSE it : Solves(it)
<1>1. n \in Nat /\ DOMAIN text = 1..n /\ \A k \in 1..n : text[k] \in Chars
  OBVIOUS
<1>2. base \in V
  BY DEF Parts
<1>3. step \in [(1..n) \X V -> V]
  <2>1. \A v \in V, k \in 1..n : AddChar(v, text[k], sep) \in V
    BY <1>1, AddCharType
  <2> HIDE DEF V
  <2>2. QED
    BY <2>1
<1>4. PICK g \in [SUBSET (1..n) -> V] : IsFold(g, n, base, step)
  <2> HIDE DEF step, V, base, n
  <2>1. QED
    BY <1>1, <1>2, <1>3, FoldExists
<1>5. Solves(g)
  <2>1. ASSUME NEW s \in SUBSET (1..n), s # {}
        PROVE  Max(s) \in 1..n /\ s \ {Max(s)} \in SUBSET (1..n)
    BY <1>1, <2>1, MaxIn
  <2>2. ASSUME NEW s \in SUBSET (1..n), s # {}
        PROVE  g[s] = AddChar(g[s \ {Max(s)}], text[Max(s)], sep)
    <3> HIDE DEF V
    <3>1. QED
      BY <1>4, <2>1, <2>2 DEF IsFold
  <2>3. QED
    BY <1>4, <2>2 DEF IsFold
<1>6. Solves(iter)
  BY <1>5, Zenon
<1>7. Split(text, sep) = iter[1..n]
  BY <1>1 DEF Split, FoldLeft, MapThenFoldSet
<1>8. PICK f : IsLoop(f, V, n, base, step, iter[1..n])
  <2>1. iter[{}] = base
    BY <1>6
  <2>2. ASSUME NEW s \in SUBSET (1..n), s # {}, iter[s \ {Max(s)}] \in V
        PROVE  iter[s] = step[<<Max(s), iter[s \ {Max(s)}]>>]
    <3>1. Max(s) \in 1..n
      BY <1>1, <2>2, MaxIn
    <3>2. iter[s] = AddChar(iter[s \ {Max(s)}], text[Max(s)], sep)
      BY <1>6, <2>2
    <3> HIDE DEF iter, V
    <3>3. QED
      BY <2>2, <3>1, <3>2
  <2> HIDE DEF iter, base
  <2>3. FoldsIn(V, iter, n, base, step)
    BY <2>1, <2>2 DEF FoldsIn
  <2> HIDE DEF V, step, n
  <2>4. QED
    BY <1>1, <1>2, <1>3, <2>3, FoldIsLoop
<1> HIDE DEF iter, V
<1>9. ASSUME NEW k \in 1..n
      PROVE  f[k] = AddChar(f[k - 1], text[k], sep)
  <2>1. f[k] = step[<<k, f[k - 1]>>]
    BY <1>8 DEF IsLoop
  <2>2. k - 1 \in 0..n
    BY <1>1
  <2>3. f[k - 1] \in V
    BY <1>8, <2>2 DEF IsLoop
  <2>4. QED
    BY <2>1, <2>3
<1>10. f \in [0..n -> V] /\ f[0] = << <<>> >> /\ f[n] = Split(text, sep)
  BY <1>7, <1>8 DEF IsLoop
<1>11. QED
  BY <1>9, <1>10 DEF V

\* parts are the pieces of the first k characters of the text, the i-th from start[i]
\* to the separator before start[i + 1].
IsSplit(text, sep, k, parts, start) ==
    /\ start \in [1..Len(parts) + 1 -> 1..k + 2]
    /\ start[1] = 1 /\ start[Len(parts) + 1] = k + 2
    /\ \A i \in 1..Len(parts) :
          /\ start[i] < start[i + 1]
          /\ parts[i] = SubSeq(text, start[i], start[i + 1] - 2)
          /\ i = 1 \/ text[start[i] - 1] = sep
          /\ \A p \in start[i]..start[i + 1] - 2 : text[p] # sep
    /\ \A p \in 1..k : text[p] = sep => \E i \in 2..Len(parts) : start[i] = p + 1

\* A text is split at the separators and nowhere else, and no character is lost.
LEMMA SplitIs ==
    ASSUME NEW Chars, NEW text \in Seq(Chars), NEW sep
    PROVE  /\ Split(text, sep) \in Parts(Chars)
           /\ \E start : IsSplit(text, sep, Len(text), Split(text, sep), start)
<1> DEFINE n == Len(text)
<1>1. PICK f \in [0..n -> Parts(Chars)] :
              /\ f[0] = << <<>> >>
              /\ \A k \in 1..n : f[k] = AddChar(f[k - 1], text[k], sep)
              /\ f[n] = Split(text, sep)
  BY SplitLoop
<1>2. n \in Nat /\ DOMAIN text = 1..n
  OBVIOUS
<1> DEFINE T == {k \in 0..n : \E start : IsSplit(text, sep, k, f[k], start)}
<1>3. 0 \in T
  <2> DEFINE start == [i \in 1..2 |-> i]
  <2>1. Len(f[0]) = 1 /\ f[0][1] = <<>>
    BY <1>1
  <2>2. SubSeq(text, 1, 0) = <<>>
    BY <1>2
  <2>3. IsSplit(text, sep, 0, f[0], start)
    <3>1. start \in [1..2 -> 1..2] /\ start[1] = 1 /\ start[2] = 2
      OBVIOUS
    <3> HIDE DEF start
    <3>2. QED
      BY <2>1, <2>2, <3>1 DEF IsSplit
  <2>4. QED
    BY <1>2, <2>3
<1>4. ASSUME NEW k \in 1..n, k - 1 \in T
      PROVE  k \in T
  <2> DEFINE old == f[k - 1]
             m == Len(old)
  <2>1. k - 1 \in 0..n /\ (k - 1) + 2 = k + 1 /\ k \in Nat
    BY <1>2
  <2>2. old \in Seq(Seq(Chars)) /\ m \in Nat \ {0} /\ DOMAIN old = 1..m
    BY <1>1, <2>1 DEF Parts
  <2>3. f[k] = AddChar(old, text[k], sep)
    BY <1>1
  <2>4. PICK start : IsSplit(text, sep, k - 1, old, start)
    BY <1>4
  <2> HIDE DEF old, m
  <2>5. /\ start \in [1..m + 1 -> 1..k + 1]
        /\ start[1] = 1 /\ start[m + 1] = k + 1
        /\ \A i \in 1..m :
              /\ start[i] < start[i + 1]
              /\ old[i] = SubSeq(text, start[i], start[i + 1] - 2)
              /\ i = 1 \/ text[start[i] - 1] = sep
              /\ \A p \in start[i]..start[i + 1] - 2 : text[p] # sep
        /\ \A p \in 1..(k - 1) : text[p] = sep => \E i \in 2..m : start[i] = p + 1
    BY <2>1, <2>4 DEF IsSplit, m
  <2>6. CASE text[k] = sep
    <3> DEFINE new == Append(old, <<>>)
               s == [i \in 1..m + 2 |-> IF i = m + 2 THEN k + 2 ELSE start[i]]
    <3>1. f[k] = new /\ Len(new) = m + 1 /\ new[m + 1] = <<>> /\ \A i \in 1..m : new[i] = old[i]
      BY <2>2, <2>3, <2>6 DEF AddChar, m
    <3>2. s \in [1..m + 2 -> 1..k + 2] /\ s[1] = 1 /\ s[m + 2] = k + 2
      <4>1. k + 2 \in 1..k + 2 /\ 1..k + 1 \subseteq 1..k + 2
        BY <2>1
      <4>2. \A i \in 1..m + 2 : i # m + 2 => i \in 1..m + 1
        BY <2>2
      <4>3. 1 \in 1..m + 2 /\ m + 2 \in 1..m + 2 /\ 1 # m + 2
        BY <2>2
      <4>4. QED
        BY <2>5, <4>1, <4>2, <4>3
    <3>3. \A i \in 1..m + 1 : s[i] = start[i]
      BY <2>2
    <3>4. SubSeq(text, k + 1, k) = <<>>
      BY <1>2
    <3> HIDE DEF new, s
    <3>5. ASSUME NEW i \in 1..m + 1
          PROVE  /\ s[i] < s[i + 1]
                 /\ new[i] = SubSeq(text, s[i], s[i + 1] - 2)
                 /\ i = 1 \/ text[s[i] - 1] = sep
                 /\ \A p \in s[i]..s[i + 1] - 2 : text[p] # sep
      <4>1. CASE i = m + 1
        <5>1. s[i] = k + 1 /\ s[i + 1] = k + 2 /\ (k + 2) - 2 = k /\ (k + 1) - 1 = k
          BY <2>1, <2>2, <2>5, <3>2, <3>3, <4>1
        <5>2. \A p \in s[i]..s[i + 1] - 2 : text[p] # sep
          BY <2>1, <5>1
        <5>3. new[i] = SubSeq(text, s[i], s[i + 1] - 2)
          BY <3>1, <3>4, <4>1, <5>1
        <5>4. QED
          BY <2>1, <2>6, <5>1, <5>2, <5>3
      <4>2. CASE i # m + 1
        <5>1. i \in 1..m /\ i + 1 \in 1..m + 1
          BY <2>2, <4>2
        <5>2. s[i] = start[i] /\ s[i + 1] = start[i + 1]
          BY <3>3, <5>1
        <5>3. QED
          BY <2>5, <3>1, <5>1, <5>2
      <4>3. QED
        BY <4>1, <4>2
    <3>6. ASSUME NEW p \in 1..k, text[p] = sep
          PROVE  \E i \in 2..m + 1 : s[i] = p + 1
      <4>1. CASE p = k
        <5>1. m + 1 \in 2..m + 1 /\ m + 1 \in 1..m + 1
          BY <2>2
        <5>2. s[m + 1] = p + 1
          BY <2>5, <3>3, <4>1, <5>1
        <5>3. QED
          BY <5>1, <5>2
      <4>2. CASE p # k
        <5>1. PICK i \in 2..m : start[i] = p + 1
          BY <2>1, <2>5, <3>6, <4>2
        <5>2. i \in 2..m + 1 /\ s[i] = p + 1
          BY <2>2, <3>3, <5>1
        <5>3. QED
          BY <5>2
      <4>3. QED
        BY <4>1, <4>2
    <3>7. IsSplit(text, sep, k, new, s)
      <4>1. (m + 1) + 1 = m + 2
        BY <2>2
      <4>2. QED
        BY <3>1, <3>2, <3>5, <3>6, <4>1 DEF IsSplit
    <3>8. QED
      BY <2>1, <3>1, <3>7
  <2>7. CASE text[k] # sep
    <3> DEFINE last == Append(old[m], text[k])
               new == [old EXCEPT ![m] = last]
               s == [start EXCEPT ![m + 1] = k + 2]
    <3>1. f[k] = new /\ Len(new) = m /\ new[m] = last /\ \A i \in 1..(m - 1) : new[i] = old[i]
      <4>1. f[k] = new
        BY <2>3, <2>7 DEF AddChar, m
      <4> HIDE DEF last
      <4>2. Len(new) = m
        BY <2>2 DEF m
      <4>3. new[m] = last /\ \A i \in 1..(m - 1) : new[i] = old[i]
        BY <2>2
      <4>4. QED
        BY <4>1, <4>2, <4>3
    <3>2. s \in [1..m + 1 -> 1..k + 2] /\ s[1] = 1 /\ s[m + 1] = k + 2
      <4>1. k + 2 \in 1..k + 2 /\ 1..k + 1 \subseteq 1..k + 2
        BY <2>1
      <4>2. 1 \in 1..m + 1 /\ m + 1 \in 1..m + 1 /\ 1 # m + 1
        BY <2>2
      <4>3. s \in [1..m + 1 -> 1..k + 2]
        BY <2>5, <4>1, <4>2
      <4>4. QED
        BY <2>5, <4>2
    <3>3. \A i \in 1..m : s[i] = start[i]
      BY <2>2, <2>5
    <3>4. start[m] \in 1..k /\ old[m] = SubSeq(text, start[m], k - 1)
      <4>1. m \in 1..m /\ m + 1 \in 1..m + 1 /\ m \in 1..m + 1 /\ (k + 1) - 2 = k - 1
        BY <2>1, <2>2
      <4>2. start[m] < start[m + 1] /\ old[m] = SubSeq(text, start[m], start[m + 1] - 2)
        BY <2>5, <4>1
      <4>3. start[m] \in 1..k + 1 /\ start[m + 1] = k + 1
        BY <2>5, <4>1
      <4>4. QED
        BY <2>1, <4>1, <4>2, <4>3
    <3>5. last = SubSeq(text, start[m], k)
      <4>1. \A a \in 1..k : Append(SubSeq(text, a, k - 1), text[k]) = SubSeq(text, a, k)
        BY <1>2
      <4>2. QED
        BY <3>4, <4>1
    <3> HIDE DEF last, new, s
    <3>6. ASSUME NEW i \in 1..m
          PROVE  /\ s[i] < s[i + 1]
                 /\ new[i] = SubSeq(text, s[i], s[i + 1] - 2)
                 /\ i = 1 \/ text[s[i] - 1] = sep
                 /\ \A p \in s[i]..s[i + 1] - 2 : text[p] # sep
      <4>1. CASE i = m
        <5>1. s[i] = start[m] /\ s[i + 1] = k + 2 /\ (k + 2) - 2 = k /\ start[m + 1] - 2 = k - 1
          BY <2>1, <2>2, <2>5, <3>2, <3>3, <4>1
        <5>2. \A p \in start[m]..k : text[p] # sep
          <6>1. \A p \in start[m]..(k - 1) : text[p] # sep
            BY <2>2, <2>5, <5>1
          <6>2. QED
            BY <2>7, <3>4, <6>1
        <5>3. i = 1 \/ text[start[m] - 1] = sep
          BY <2>5, <4>1
        <5>4. QED
          BY <3>1, <3>4, <3>5, <4>1, <5>1, <5>2, <5>3
      <4>2. CASE i # m
        <5>1. i \in 1..(m - 1) /\ i + 1 \in 1..m
          BY <2>2, <4>2
        <5>2. s[i] = start[i] /\ s[i + 1] = start[i + 1]
          BY <3>3, <5>1
        <5>3. QED
          BY <2>5, <3>1, <5>1, <5>2
      <4>3. QED
        BY <4>1, <4>2
    <3>7. ASSUME NEW p \in 1..k, text[p] = sep
          PROVE  \E i \in 2..m : s[i] = p + 1
      <4>1. p # k
        BY <2>7, <3>7
      <4>2. PICK i \in 2..m : start[i] = p + 1
        BY <2>1, <2>5, <3>7, <4>1
      <4>3. s[i] = p + 1
        BY <3>3, <4>2
      <4>4. QED
        BY <4>3
    <3>8. IsSplit(text, sep, k, new, s)
      BY <3>1, <3>2, <3>6, <3>7 DEF IsSplit
    <3>9. QED
      BY <2>1, <3>1, <3>8
  <2>8. QED
    BY <2>6, <2>7
<1>5. n \in T
  <2> HIDE DEF T
  <2>1. 0..n \subseteq T
    BY <1>2, <1>3, <1>4, UpTo
  <2>2. QED
    BY <1>2, <2>1
<1>6. f[n] \in Parts(Chars)
  BY <1>1, <1>2
<1>7. QED
  BY <1>1, <1>5, <1>6

\* Later pieces start later.
LEMMA StartsRise ==
    ASSUME NEW text, NEW sep, NEW k \in Nat, NEW parts, Len(parts) \in Nat,
           NEW start, IsSplit(text, sep, k, parts, start),
           NEW a \in 1..Len(parts) + 1, NEW b \in a + 1..Len(parts) + 1
    PROVE  start[a] < start[b]
<1> DEFINE m == Len(parts)
           n == m - a
           T == {d \in 0..n : start[a] < start[a + 1 + d]}
<1>1. start \in [1..m + 1 -> 1..k + 2] /\ \A i \in 1..m : start[i] < start[i + 1]
  BY DEF IsSplit
<1>2. n \in Nat /\ b - a - 1 \in 0..n /\ a + 1 + (b - a - 1) = b
  OBVIOUS
<1> HIDE DEF m
<1>3. 0 \in T
  <2>1. a \in 1..m /\ a + 1 + 0 = a + 1 /\ 0 \in 0..n
    BY <1>2 DEF m
  <2>2. QED
    BY <1>1, <2>1
<1>4. ASSUME NEW d \in 1..n, d - 1 \in T
      PROVE  d \in T
  <2>1. a + 1 + d = (a + d) + 1 /\ a + 1 + (d - 1) = a + d /\ a + d \in 1..m
    BY DEF m
  <2>2. start[a] < start[a + d] /\ start[a + d] < start[(a + d) + 1]
    BY <1>1, <1>4, <2>1
  <2>3. a \in 1..m + 1 /\ a + d \in 1..m + 1 /\ (a + d) + 1 \in 1..m + 1
    BY <2>1 DEF m
  <2>4. start[a] \in Nat /\ start[a + d] \in Nat /\ start[(a + d) + 1] \in Nat
    BY <1>1, <2>3
  <2>5. QED
    BY <2>1, <2>2, <2>4
<1>5. b - a - 1 \in T
  <2> HIDE DEF T, n
  <2>1. 0..n \subseteq T
    BY <1>2, <1>3, <1>4, UpTo
  <2>2. QED
    BY <1>2, <2>1
<1>6. QED
  BY <1>2, <1>5

-----------------------------------------------------------------------------
(* One pair.                                                               *)

\* The key and the value of a pair whose only '=', if any, is at e or behind its end.
SplitsAt(text, e) ==
    /\ e \in 1..Len(text) + 1
    /\ \A p \in 1..Len(text) : text[p] = "=" <=> p = e

\* What a pair says of its key; nothing when it has more than one '='.
LEMMA PairSays ==
    ASSUME NEW Chars, NEW text \in Seq(Chars), NEW params
    PROVE  /\ \A e : SplitsAt(text, e) =>
                  AddPair(params, text) =
                      Put(params, SubSeq(text, 1, e - 1), SubSeq(text, e + 1, Len(text)))
           /\ (\A e : ~SplitsAt(text, e)) => AddPair(params, text) = params
<1> DEFINE kv == Split(text, "=")
           n == Len(text)
           m == Len(kv)
<1>1. kv \in Seq(Seq(Chars)) /\ m \in Nat \ {0}
  BY SplitIs DEF Parts
<1>2. PICK start : IsSplit(text, "=", n, kv, start)
  BY SplitIs
<1> HIDE DEF kv
<1>3. /\ start \in [1..m + 1 -> 1..n + 2]
      /\ start[1] = 1 /\ start[m + 1] = n + 2
      /\ \A i \in 1..m :
            /\ start[i] < start[i + 1]
            /\ kv[i] = SubSeq(text, start[i], start[i + 1] - 2)
            /\ i = 1 \/ text[start[i] - 1] = "="
            /\ \A p \in start[i]..start[i + 1] - 2 : text[p] # "="
      /\ \A p \in 1..n : text[p] = "=" => \E i \in 2..m : start[i] = p + 1
  BY <1>2 DEF IsSplit
<1>4. n \in Nat
  OBVIOUS
<1>5. CASE m = 1
  <2>1. \A p \in 1..n : text[p] # "="
    BY <1>3, <1>5
  <2>2. SplitsAt(text, n + 1)
    BY <1>4, <2>1 DEF SplitsAt
  <2>3. ASSUME NEW e, SplitsAt(text, e)
        PROVE  e = n + 1
    BY <1>4, <2>1, <2>3 DEF SplitsAt
  <2>4. kv[1] = SubSeq(text, 1, n)
    <3>1. kv[1] = SubSeq(text, 1, (n + 2) - 2)
      <4>1. 1 \in 1..m /\ 1 + 1 = m + 1
        BY <1>5
      <4>2. kv[1] = SubSeq(text, start[1], start[1 + 1] - 2)
        BY <1>3, <4>1
      <4>3. start[1] = 1 /\ start[1 + 1] = n + 2
        BY <1>3, <4>1
      <4>4. QED
        BY <4>2, <4>3
    <3>2. (n + 2) - 2 = n
      BY <1>4
    <3>3. QED
      BY <3>1, <3>2
  <2>5. AddPair(params, text) = Put(params, kv[1], <<>>)
    BY <1>5 DEF AddPair, kv
  <2>6. SubSeq(text, n + 2, n) = <<>> /\ (n + 1) - 1 = n /\ (n + 1) + 1 = n + 2
    BY <1>4
  <2> HIDE DEF n
  <2>7. ASSUME NEW e, SplitsAt(text, e)
        PROVE  AddPair(params, text) = Put(params, SubSeq(text, 1, e - 1), SubSeq(text, e + 1, n))
    BY <2>3, <2>4, <2>5, <2>6, <2>7
  <2>8. QED
    BY <2>2, <2>7 DEF n
<1>6. CASE m = 2
  <2> DEFINE at == start[2] - 1
  <2>1. start[2] \in 2..n + 1 /\ text[at] = "=" /\ start[3] = n + 2 /\ start[1] = 1
    <3>1. start[1] < start[2] /\ start[2] < start[3] /\ start[3] = n + 2 /\ text[at] = "="
      BY <1>3, <1>6
    <3>2. start[2] \in 1..n + 2 /\ start[1] = 1
      BY <1>3, <1>6
    <3>3. QED
      BY <1>4, <3>1, <3>2
  <2>2. \A p \in 1..n : text[p] = "=" => p = at
    BY <1>3, <1>6
  <2>3. at \in 1..n /\ at + 1 = start[2]
    BY <1>4, <2>1
  <2>4. SplitsAt(text, at)
    BY <1>4, <2>1, <2>2, <2>3 DEF SplitsAt
  <2>5. ASSUME NEW e, SplitsAt(text, e)
        PROVE  e = at
    BY <1>4, <2>1, <2>3, <2>5 DEF SplitsAt
  <2>6. kv[1] = SubSeq(text, 1, at - 1) /\ kv[2] = SubSeq(text, at + 1, n)
    <3>1. kv[1] = SubSeq(text, 1, start[2] - 2) /\ kv[2] = SubSeq(text, start[2], (n + 2) - 2)
      <4>1. 1 \in 1..m /\ 2 \in 1..m /\ 1 + 1 = 2 /\ 2 + 1 = 3
        BY <1>6
      <4>2. /\ kv[1] = SubSeq(text, start[1], start[1 + 1] - 2)
            /\ kv[2] = SubSeq(text, start[2], start[2 + 1] - 2)
        BY <1>3, <4>1
      <4>3. QED
        BY <2>1, <4>1, <4>2
    <3>2. start[2] - 2 = at - 1 /\ (n + 2) - 2 = n
      BY <1>4, <2>1
    <3>3. QED
      BY <2>3, <3>1, <3>2
  <2>7. AddPair(params, text) = Put(params, kv[1], kv[2])
    BY <1>6 DEF AddPair, kv
  <2> HIDE DEF at, n
  <2>8. ASSUME NEW e, SplitsAt(text, e)
        PROVE  AddPair(params, text) = Put(params, SubSeq(text, 1, e - 1), SubSeq(text, e + 1, n))
    BY <2>5, <2>6, <2>7, <2>8
  <2>9. QED
    BY <2>4, <2>8 DEF n
<1>7. CASE m > 2
  <2>1. AddPair(params, text) = params
    <3>1. m # 1 /\ m # 2
      <4> HIDE DEF m
      <4>1. QED
        BY <1>1, <1>7
    <3>2. QED
      BY <3>1 DEF AddPair, kv
  <2>2. ASSUME NEW e, SplitsAt(text, e)
        PROVE  FALSE
    <3>1. 1 \in 1..m /\ 2 \in 1..m /\ 3 \in 1..m /\ 3 \in 1..m + 1 /\ 2 \in 1..m + 1
      BY <1>1, <1>7
    <3>2. /\ start[1] = 1 /\ start[1] < start[2] /\ start[2] < start[3]
          /\ text[start[2] - 1] = "=" /\ text[start[3] - 1] = "="
      BY <1>3, <3>1
    <3>3. start[3] < start[3 + 1] /\ 3 + 1 \in 1..m + 1
      BY <1>1, <1>3, <1>7, <3>1
    <3>4. start[2] \in 1..n + 2 /\ start[3] \in 1..n + 2 /\ start[3 + 1] \in 1..n + 2
      BY <1>3, <3>1, <3>3
    <3>5. start[2] - 1 \in 1..n /\ start[3] - 1 \in 1..n /\ start[2] - 1 # start[3] - 1
      BY <1>4, <3>2, <3>3, <3>4
    <3>6. QED
      BY <2>2, <3>2, <3>5 DEF SplitsAt
  <2>3. QED
    BY <2>1, <2>2
<1> HIDE DEF m
<1>8. m = 1 \/ m = 2 \/ m > 2
  BY <1>1
<1>9. QED
  BY <1>5, <1>6, <1>7, <1>8

-----------------------------------------------------------------------------
(* All the pairs of a query.                                               *)

\* The parameters a query can give.
Params(Chars) == UNION {[D -> Seq(Chars)] : D \in SUBSET Seq(Chars)}

\* A pair adds a parameter or none.
LEMMA AddPairType ==
    ASSUME NEW Chars, NEW params \in Params(Chars), NEW pair \in Seq(Chars)
    PROVE  AddPair(params, pair) \in Params(Chars)
<1> DEFINE kv == Split(pair, "=")
<1>1. kv \in Seq(Seq(Chars))
  BY SplitIs DEF Parts
<1>2. ASSUME NEW key \in Seq(Chars), NEW value \in Seq(Chars)
      PROVE  Put(params, key, value) \in Params(Chars)
  <2>1. PICK D \in SUBSET Seq(Chars) : params \in [D -> Seq(Chars)]
    BY DEF Params
  <2>2. Put(params, key, value) \in [D \cup {key} -> Seq(Chars)]
    BY <2>1 DEF Put
  <2>3. D \cup {key} \in SUBSET Seq(Chars)
    OBVIOUS
  <2>4. QED
    BY <2>2, <2>3 DEF Params
<1>3. <<>> \in Seq(Chars)
  OBVIOUS
<1>4. CASE Len(kv) = 2
  <2>1. kv[1] \in Seq(Chars) /\ kv[2] \in Seq(Chars)
    BY <1>1, <1>4
  <2>2. AddPair(params, pair) = Put(params, kv[1], kv[2])
    BY <1>4 DEF AddPair
  <2>3. QED
    BY <1>2, <2>1, <2>2
<1>5. CASE Len(kv) = 1
  <2>1. kv[1] \in Seq(Chars)
    BY <1>1, <1>5
  <2>2. AddPair(params, pair) = Put(params, kv[1], <<>>)
    BY <1>5 DEF AddPair
  <2>3. QED
    BY <1>2, <1>3, <2>1, <2>2
<1>6. CASE Len(kv) # 1 /\ Len(kv) # 2
  BY <1>6 DEF AddPair
<1>7. QED
  BY <1>4, <1>5, <1>6

\* parseQueryParams() takes the pairs one by one.
LEMMA ParseLoop ==
    ASSUME NEW Chars, NEW query \in Seq(Chars), query # <<>>,
           NEW pieces \in Parts(Chars), pieces = Split(query, "&")
    PROVE  \E f \in [0..Len(pieces) -> Params(Chars)] :
              /\ f[0] = <<>>
              /\ \A k \in 1..Len(pieces) : f[k] = AddPair(f[k - 1], pieces[k])
              /\ f[Len(pieces)] = ParseQueryParams(query)
<1> DEFINE n == Len(pieces)
           V == Params(Chars)
           base == <<>>
           step == [p \in (1..n) \X V |-> AddPair(p[2], pieces[p[1]])]
           Solves(it) == it = [s \in SUBSET (1..n) |->
                             IF s = {} THEN <<>>
                             ELSE AddPair(it[s \ {Max(s)}], pieces[Max(s)])]
           iter == CHOOSE it : Solves(it)
<1>1. n \in Nat /\ DOMAIN pieces = 1..n /\ \A k \in 1..n : pieces[k] \in Seq(Chars)
  BY DEF Parts
<1>2. base \in V
  <2>1. base \in [{} -> Seq(Chars)] /\ {} \in SUBSET Seq(Chars)
    OBVIOUS
  <2>2. QED
    BY <2>1 DEF Params
<1>3. step \in [(1..n) \X V -> V]
  <2>1. \A v \in V, k \in 1..n : AddPair(v, pieces[k]) \in V
    BY <1>1, AddPairType
  <2> HIDE DEF V
  <2>2. QED
    BY <2>1
<1>4. PICK g \in [SUBSET (1..n) -> V] : IsFold(g, n, base, step)
  <2> HIDE DEF step, V, base, n
  <2>1. QED
    BY <1>1, <1>2, <1>3, FoldExists
<1>5. Solves(g)
  <2>1. ASSUME NEW s \in SUBSET (1..n), s # {}
        PROVE  Max(s) \in 1..n /\ s \ {Max(s)} \in SUBSET (1..n)
    BY <1>1, <2>1, MaxIn
  <2>2. ASSUME NEW s \in SUBSET (1..n), s # {}
        PROVE  g[s] = AddPair(g[s \ {Max(s)}], pieces[Max(s)])
    <3> HIDE DEF V
    <3>1. QED
      BY <1>4, <2>1, <2>2 DEF IsFold
  <2>3. QED
    BY <1>4, <2>2 DEF IsFold
<1>6. Solves(iter)
  BY <1>5, Zenon
<1>7. ParseQueryParams(query) = iter[1..n]
  BY <1>1 DEF ParseQueryParams, FoldLeft, MapThenFoldSet
<1>8. PICK f : IsLoop(f, V, n, base, step, iter[1..n])
  <2>1. iter[{}] = base
    BY <1>6
  <2>2. ASSUME NEW s \in SUBSET (1..n), s # {}, iter[s \ {Max(s)}] \in V
        PROVE  iter[s] = step[<<Max(s), iter[s \ {Max(s)}]>>]
    <3>1. Max(s) \in 1..n
      BY <1>1, <2>2, MaxIn
    <3>2. iter[s] = AddPair(iter[s \ {Max(s)}], pieces[Max(s)])
      BY <1>6, <2>2
    <3> HIDE DEF iter, V
    <3>3. QED
      BY <2>2, <3>1, <3>2
  <2> HIDE DEF iter, base
  <2>3. FoldsIn(V, iter, n, base, step)
    BY <2>1, <2>2 DEF FoldsIn
  <2> HIDE DEF V, step, n
  <2>4. QED
    BY <1>1, <1>2, <1>3, <2>3, FoldIsLoop
<1> HIDE DEF iter, V
<1>9. ASSUME NEW k \in 1..n
      PROVE  f[k] = AddPair(f[k - 1], pieces[k])
  <2>1. f[k] = step[<<k, f[k - 1]>>]
    BY <1>8 DEF IsLoop
  <2>2. k - 1 \in 0..n
    BY <1>1
  <2>3. f[k - 1] \in V
    BY <1>8, <2>2 DEF IsLoop
  <2>4. QED
    BY <2>1, <2>3
<1>10. f \in [0..n -> V] /\ f[0] = <<>> /\ f[n] = ParseQueryParams(query)
  BY <1>7, <1>8 DEF IsLoop
<1>11. QED
  BY <1>9, <1>10 DEF V

\* A piece of a piece.
LEMMA SubSubSeq ==
    ASSUME NEW Chars, NEW text \in Seq(Chars),
           NEW i \in 1..Len(text) + 1, NEW j \in 0..Len(text), i <= j + 1,
           NEW a \in 1..(j - i) + 3, NEW b \in 0..(j - i) + 1
    PROVE  SubSeq(SubSeq(text, i, j), a, b) = SubSeq(text, (i + a) - 1, (i + b) - 1)
<1> DEFINE s == SubSeq(text, i, j)
           n == (j - i) + 1
<1>1. n \in Nat /\ s \in Seq(Chars) /\ Len(s) = n /\ \A p \in 1..n : s[p] = text[(i + p) - 1]
  OBVIOUS
<1> HIDE DEF s
<1>2. a > b \/ b \in 1..n
  OBVIOUS
<1>3. CASE a > b
  <2>1. SubSeq(s, a, b) = <<>>
    BY <1>1, <1>3
  <2>2. SubSeq(text, (i + a) - 1, (i + b) - 1) = <<>>
    BY <1>3
  <2>3. QED
    BY <2>1, <2>2 DEF s
<1>4. CASE a <= b
  <2> DEFINE l == SubSeq(s, a, b)
             r == SubSeq(text, (i + a) - 1, (i + b) - 1)
             m == (b - a) + 1
  <2>1. m \in Nat /\ \A p \in 1..m : (a + p) - 1 \in 1..n
    BY <1>1, <1>2, <1>4
  <2>2. l \in Seq(Chars) /\ Len(l) = m /\ \A p \in 1..m : l[p] = s[(a + p) - 1]
    BY <1>1, <1>2, <1>4
  <2>3. r \in Seq(Chars) /\ Len(r) = m /\ \A p \in 1..m : r[p] = text[(((i + a) - 1) + p) - 1]
    BY <1>1, <1>2, <1>4
  <2>4. ASSUME NEW p \in 1..m
        PROVE  l[p] = r[p]
    <3>1. (i + ((a + p) - 1)) - 1 = (((i + a) - 1) + p) - 1
      OBVIOUS
    <3>2. QED
      BY <1>1, <2>1, <2>2, <2>3, <3>1
  <2> HIDE DEF l, r, m
  <2>5. l = r
    BY <2>1, <2>2, <2>3, <2>4
  <2>6. QED
    BY <2>5 DEF l, r, s
<1>5. QED
  BY <1>3, <1>4

\* p has one '=' at most.
OneEquals(query, p) == \A k, l \in Among(query, "=", p[1], p[2]) : k = l

\* What parseQueryParams() does with a piece of the query.
LEMMA PieceSays ==
    ASSUME NEW Chars, NEW query \in Seq(Chars), NEW params,
           NEW i \in 1..Len(query) + 1, NEW j \in 0..Len(query), i <= j + 1
    PROVE  AddPair(params, SubSeq(query, i, j)) =
               IF OneEquals(query, <<i, j>>)
               THEN Put(params, KeyOf(query, <<i, j>>), ValueOf(query, <<i, j>>))
               ELSE params
<1> DEFINE text == SubSeq(query, i, j)
           n == (j - i) + 1
           equals == Among(query, "=", i, j)
           E == EqualsOf(query, <<i, j>>)
           e == (E - i) + 1
<1>1. /\ n \in Nat /\ text \in Seq(Chars) /\ Len(text) = n
      /\ \A p \in 1..n : text[p] = query[(i + p) - 1] /\ (i + p) - 1 \in i..j
  OBVIOUS
<1>2. equals = {k \in i..j : query[k] = "="}
  BY DEF Among
<1>3. E = IF equals = {} THEN j + 1 ELSE CHOOSE k \in equals : TRUE
  BY DEF EqualsOf
<1>4. OneEquals(query, <<i, j>>) <=> \A k, l \in equals : k = l
  BY DEF OneEquals
<1> HIDE DEF text, E, equals
<1>5. CASE OneEquals(query, <<i, j>>)
  <2>1. E \in i..j + 1 /\ \A k \in i..j : k \in equals <=> k = E
    <3>1. CASE equals = {}
      BY <1>3, <3>1
    <3>2. CASE equals # {}
      <4>1. E \in equals
        BY <1>3, <3>2
      <4>2. E \in i..j
        BY <1>2, <4>1
      <4>3. \A k \in equals : k = E
        BY <1>4, <1>5, <4>1
      <4>4. QED
        BY <4>1, <4>2, <4>3
    <3>3. QED
      BY <3>1, <3>2
  <2>2. SplitsAt(text, e)
    <3>1. e \in 1..n + 1 /\ \A p \in 1..n : (i + p) - 1 = E <=> p = e
      BY <2>1
    <3>2. \A p \in 1..n : text[p] = "=" <=> (i + p) - 1 \in equals
      BY <1>1, <1>2
    <3>3. \A p \in 1..n : text[p] = "=" <=> (i + p) - 1 = E
      BY <1>1, <2>1, <3>2
    <3>4. QED
      BY <1>1, <3>1, <3>3 DEF SplitsAt
  <2>3. AddPair(params, text) = Put(params, SubSeq(text, 1, e - 1), SubSeq(text, e + 1, n))
    <3> HIDE DEF n, e
    <3>1. QED
      BY <1>1, <2>2, PairSays
  <2>4. SubSeq(text, 1, e - 1) = SubSeq(query, i, E - 1)
    <3>1. 1 \in 1..(j - i) + 3 /\ e - 1 \in 0..(j - i) + 1
      BY <2>1
    <3>2. text = SubSeq(query, i, j)
      BY DEF text
    <3> DEFINE b == e - 1
    <3> HIDE DEF b
    <3>3. SubSeq(text, 1, b) = SubSeq(query, (i + 1) - 1, (i + b) - 1)
      BY <3>1, <3>2, SubSubSeq DEF b
    <3>4. (i + 1) - 1 = i /\ (i + b) - 1 = E - 1
      BY <2>1 DEF b
    <3>5. QED
      BY <3>3, <3>4 DEF b
  <2>5. SubSeq(text, e + 1, n) = SubSeq(query, E + 1, j)
    <3> DEFINE a == e + 1
    <3>1. a \in 1..(j - i) + 3 /\ n \in 0..(j - i) + 1
      BY <1>1, <2>1
    <3>2. text = SubSeq(query, i, j)
      BY DEF text
    <3>3. (i + a) - 1 = E + 1 /\ (i + n) - 1 = j
      BY <2>1
    <3> HIDE DEF a, n
    <3>4. SubSeq(text, a, n) = SubSeq(query, (i + a) - 1, (i + n) - 1)
      BY <3>1, <3>2, SubSubSeq
    <3>5. QED
      BY <3>3, <3>4 DEF a
  <2>6. KeyOf(query, <<i, j>>) = SubSeq(query, i, E - 1)
    BY DEF KeyOf, E
  <2>7. ValueOf(query, <<i, j>>) = SubSeq(query, E + 1, j)
    BY DEF ValueOf, E
  <2> HIDE DEF e, n
  <2>8. QED
    BY <1>5, <2>3, <2>4, <2>5, <2>6, <2>7 DEF text
<1>6. CASE ~OneEquals(query, <<i, j>>)
  <2>1. ASSUME NEW at, SplitsAt(text, at)
        PROVE  FALSE
    <3>1. PICK k \in equals, l \in equals : k # l
      BY <1>4, <1>6
    <3>2. k \in i..j /\ l \in i..j /\ query[k] = "=" /\ query[l] = "="
      BY <1>2, <3>1
    <3>3. (k - i) + 1 \in 1..n /\ (l - i) + 1 \in 1..n /\ (k - i) + 1 # (l - i) + 1
      BY <3>1, <3>2
    <3>4. text[(k - i) + 1] = "=" /\ text[(l - i) + 1] = "="
      <4>1. (i + ((k - i) + 1)) - 1 = k /\ (i + ((l - i) + 1)) - 1 = l
        BY <3>2
      <4>2. QED
        BY <1>1, <3>2, <3>3, <4>1
    <3>5. QED
      BY <1>1, <2>1, <3>3, <3>4 DEF SplitsAt
  <2>2. AddPair(params, text) = params
    BY <1>1, <2>1, PairSays
  <2>3. QED
    BY <1>6, <2>2 DEF text
<1>7. QED
  BY <1>5, <1>6

\* The a-th piece as a pair of positions.
PieceAt(start, a) == <<start[a], start[a + 1] - 2>>

\* The pieces with one '=' at most, and their numbers among the first k.
GoodTo(query, start, k) == {a \in 1..k : OneEquals(query, PieceAt(start, a))}

\* The pairs of a query are the pieces of it with one '=' at most.
LEMMA PairsAre ==
    ASSUME NEW Chars, NEW query \in Seq(Chars), query # <<>>,
           NEW pieces, Len(pieces) \in Nat \ {0},
           NEW start, IsSplit(query, "&", Len(query), pieces, start)
    PROVE  PairsOf(query) = {PieceAt(start, a) : a \in GoodTo(query, start, Len(pieces))}
<1> DEFINE n == Len(query)
           m == Len(pieces)
<1>1. /\ start \in [1..m + 1 -> 1..n + 2]
      /\ start[1] = 1 /\ start[m + 1] = n + 2
      /\ \A i \in 1..m :
            /\ start[i] < start[i + 1]
            /\ i = 1 \/ query[start[i] - 1] = "&"
            /\ \A p \in start[i]..start[i + 1] - 2 : query[p] # "&"
      /\ \A p \in 1..n : query[p] = "&" => \E i \in 2..m : start[i] = p + 1
  BY DEF IsSplit
<1>2. n \in Nat \ {0} /\ m \in Nat \ {0}
  OBVIOUS
<1> HIDE DEF n, m
<1> DEFINE Fits(i, j) == /\ i = 1 \/ query[i - 1] = "&"
                         /\ j = n \/ query[j + 1] = "&"
                         /\ Among(query, "&", i, j) = {}
<1>3. PairsOf(query) = {p \in (1..n + 1) \X (0..n) :
                           p[1] <= p[2] + 1 /\ Fits(p[1], p[2]) /\ OneEquals(query, p)}
  BY <1>2 DEF PairsOf, OneEquals, n
<1>4. ASSUME NEW a \in 1..m
      PROVE  /\ start[a] \in 1..n + 1 /\ start[a + 1] - 2 \in 0..n
             /\ start[a] <= (start[a + 1] - 2) + 1
             /\ Fits(start[a], start[a + 1] - 2)
  <2>1. a \in 1..m + 1 /\ a + 1 \in 1..m + 1
    BY <1>2
  <2>2. start[a] \in 1..n + 2 /\ start[a + 1] \in 1..n + 2 /\ start[a] < start[a + 1]
    BY <1>1, <2>1
  <2>3. start[a] = 1 \/ query[start[a] - 1] = "&"
    BY <1>1
  <2>4. start[a + 1] - 2 = n \/ query[(start[a + 1] - 2) + 1] = "&"
    <3>1. CASE a = m
      BY <1>1, <1>2, <3>1
    <3>2. CASE a # m
      <4>1. a + 1 \in 1..m /\ a + 1 # 1
        BY <1>2, <3>2
      <4>2. query[start[a + 1] - 1] = "&"
        BY <1>1, <4>1
      <4>3. (start[a + 1] - 2) + 1 = start[a + 1] - 1
        BY <2>2
      <4>4. QED
        BY <4>2, <4>3
    <3>3. QED
      BY <3>1, <3>2
  <2>5. Among(query, "&", start[a], start[a + 1] - 2) = {}
    BY <1>1 DEF Among
  <2>6. QED
    BY <1>2, <2>2, <2>3, <2>4, <2>5
<1>5. ASSUME NEW i \in 1..n + 1, NEW j \in 0..n, i <= j + 1, Fits(i, j)
      PROVE  \E a \in 1..m : <<i, j>> = PieceAt(start, a)
  <2>1. PICK a \in 1..m : start[a] = i
    <3>1. CASE i = 1
      BY <1>1, <1>2, <3>1
    <3>2. CASE i # 1
      <4>1. i - 1 \in 1..n /\ query[i - 1] = "&" /\ (i - 1) + 1 = i
        BY <1>2, <1>5, <3>2
      <4>2. PICK a \in 2..m : start[a] = (i - 1) + 1
        BY <1>1, <4>1
      <4>3. a \in 1..m
        BY <1>2
      <4>4. QED
        BY <4>1, <4>2, <4>3
    <3>3. QED
      BY <3>1, <3>2
  <2> DEFINE l == start[a + 1]
  <2>2. l \in 1..n + 2 /\ i < l /\ (a = m => l = n + 2) /\ (a # m => query[l - 1] = "&")
        /\ \A p \in i..l - 2 : query[p] # "&"
    <3>1. a + 1 \in 1..m + 1 /\ (a # m => a + 1 \in 1..m /\ a + 1 # 1)
      BY <1>2
    <3>2. l \in 1..n + 2 /\ i < l /\ (a = m => l = n + 2)
      BY <1>1, <2>1, <3>1
    <3>3. a # m => query[l - 1] = "&"
      BY <1>1, <3>1
    <3>4. \A p \in i..l - 2 : query[p] # "&"
      BY <1>1, <2>1
    <3>5. QED
      BY <3>2, <3>3, <3>4
  <2> HIDE DEF l
  <2>3. \A p \in i..j : query[p] # "&"
    BY <1>5 DEF Among
  <2>4. ~(l - 2 < j)
    <3>1. SUFFICES ASSUME l - 2 < j PROVE FALSE
      OBVIOUS
    <3>2. l - 1 \in i..j /\ l # n + 2
      BY <1>2, <2>2, <3>1
    <3>3. QED
      BY <2>2, <2>3, <3>2
  <2>5. ~(j < l - 2)
    <3>1. SUFFICES ASSUME j < l - 2 PROVE FALSE
      OBVIOUS
    <3>2. j + 1 \in i..l - 2 /\ j # n
      BY <1>2, <1>5, <2>2, <3>1
    <3>3. QED
      BY <1>5, <2>2, <3>2
  <2>6. j = l - 2
    BY <1>2, <2>2, <2>4, <2>5
  <2>7. QED
    BY <2>1, <2>6 DEF PieceAt, l
<1> HIDE DEF Fits
<1> DEFINE Pieces == {PieceAt(start, a) : a \in GoodTo(query, start, m)}
<1>6. ASSUME NEW p \in PairsOf(query)
      PROVE  p \in Pieces
  <2>1. p \in (1..n + 1) \X (0..n) /\ p[1] <= p[2] + 1 /\ Fits(p[1], p[2]) /\ OneEquals(query, p)
    BY <1>3
  <2>2. p[1] \in 1..n + 1 /\ p[2] \in 0..n /\ p = <<p[1], p[2]>>
    BY <2>1
  <2>3. PICK a \in 1..m : p = PieceAt(start, a)
    BY <1>5, <2>1, <2>2
  <2>4. a \in GoodTo(query, start, m)
    BY <2>1, <2>3 DEF GoodTo
  <2>5. QED
    BY <2>3, <2>4
<1>7. ASSUME NEW a \in GoodTo(query, start, m)
      PROVE  PieceAt(start, a) \in PairsOf(query)
  <2>1. a \in 1..m /\ OneEquals(query, PieceAt(start, a))
    BY DEF GoodTo
  <2>2. PieceAt(start, a)[1] = start[a] /\ PieceAt(start, a)[2] = start[a + 1] - 2
        /\ PieceAt(start, a) = <<start[a], start[a + 1] - 2>>
    BY DEF PieceAt
  <2>3. PieceAt(start, a) \in (1..n + 1) \X (0..n)
    BY <1>4, <2>1, <2>2
  <2>4. QED
    BY <1>3, <1>4, <2>1, <2>2, <2>3
<1>8. QED
  BY <1>6, <1>7 DEF m

\* What is known of the parameters once k pieces are taken: their keys are those of the
\* pieces with one '=' at most, and each has the value of the last such piece.
SaysUpTo(query, start, k, params) ==
    /\ DOMAIN params = {KeyOf(query, PieceAt(start, a)) : a \in GoodTo(query, start, k)}
    /\ \A a \in GoodTo(query, start, k) :
          (\A b \in GoodTo(query, start, k) :
               a < b => KeyOf(query, PieceAt(start, b)) # KeyOf(query, PieceAt(start, a)))
          => params[KeyOf(query, PieceAt(start, a))] = ValueOf(query, PieceAt(start, a))

\* Taking a piece with one '=' at most keeps it so.
LEMMA SaysPut ==
    ASSUME NEW query, NEW start, NEW k \in Nat \ {0}, NEW params,
           SaysUpTo(query, start, k - 1, params), OneEquals(query, PieceAt(start, k))
    PROVE  SaysUpTo(query, start, k,
                    Put(params, KeyOf(query, PieceAt(start, k)), ValueOf(query, PieceAt(start, k))))
<1> DEFINE K(a) == KeyOf(query, PieceAt(start, a))
           W(a) == ValueOf(query, PieceAt(start, a))
           G == GoodTo(query, start, k - 1)
           new == Put(params, K(k), W(k))
<1>1. GoodTo(query, start, k) = G \cup {k} /\ G \subseteq 1..(k - 1)
  <2>1. 1..k = 1..(k - 1) \cup {k}
    OBVIOUS
  <2>2. QED
    BY <2>1 DEF GoodTo
<1>2. /\ DOMAIN params = {K(a) : a \in G}
      /\ \A a \in G : (\A b \in G : a < b => K(b) # K(a)) => params[K(a)] = W(a)
  BY DEF SaysUpTo
<1>3. /\ DOMAIN new = DOMAIN params \cup {K(k)}
      /\ \A key \in DOMAIN new : new[key] = IF key = K(k) THEN W(k) ELSE params[key]
  BY DEF Put
<1> HIDE DEF K, W, G, new
<1>4. DOMAIN new = {K(a) : a \in G \cup {k}}
  BY <1>2, <1>3
<1>5. ASSUME NEW a \in G \cup {k}, \A b \in G \cup {k} : a < b => K(b) # K(a)
      PROVE  new[K(a)] = W(a)
  <2>1. K(a) \in DOMAIN new
    BY <1>4
  <2>2. CASE a = k
    BY <1>3, <2>1, <2>2
  <2>3. CASE a \in G /\ a # k
    <3>1. a < k
      BY <1>1, <2>3
    <3>2. K(k) # K(a)
      BY <1>5, <3>1
    <3>3. params[K(a)] = W(a)
      BY <1>2, <1>5, <2>3
    <3>4. QED
      BY <1>3, <2>1, <3>2, <3>3
  <2>4. QED
    BY <2>2, <2>3
<1>6. QED
  BY <1>1, <1>4, <1>5 DEF SaysUpTo, K, W, new

\* What the pieces say is what the query says.
LEMMA WinnersSay ==
    ASSUME NEW query, NEW start, NEW m \in Nat,
           \A a \in 1..m, b \in 1..m : start[a] \in Int /\ (a < b => start[a] < start[b]),
           PairsOf(query) = {PieceAt(start, a) : a \in GoodTo(query, start, m)},
           NEW Keys, NEW Values, NEW params \in [Keys -> Values], SaysUpTo(query, start, m, params)
    PROVE  params = ParamsOf(query)
<1> DEFINE K(a) == KeyOf(query, PieceAt(start, a))
           G == GoodTo(query, start, m)
<1>1. G \subseteq 1..m
  BY DEF GoodTo
<1>2. DOMAIN params = {K(a) : a \in G}
  BY DEF SaysUpTo
<1>3. {KeyOf(query, p) : p \in PairsOf(query)} = {K(a) : a \in G}
  OBVIOUS
<1>4. \A a \in 1..m : PieceAt(start, a)[1] = start[a]
  BY DEF PieceAt
<1>5. ASSUME NEW a \in G
      PROVE  params[K(a)] = ValueOf(query, Winner(query, K(a)))
  <2> DEFINE Same == {b \in G : K(b) = K(a)}
             key == K(a)
             IsWinner(p) == /\ KeyOf(query, p) = key
                            /\ \A o \in PairsOf(query) : KeyOf(query, o) = key => o[1] <= p[1]
             w == CHOOSE p \in PairsOf(query) : IsWinner(p)
  <2>1. PICK l \in Same : \A b \in Same : b <= l
    <3>1. Same \in SUBSET (1..m) /\ Same # {}
      BY <1>1
    <3> HIDE DEF Same
    <3>2. QED
      BY <3>1, Greatest
  <2>2. l \in G /\ l \in 1..m /\ K(l) = key
    BY <1>1, <2>1
  <2>3. IsWinner(PieceAt(start, l))
    <3>1. ASSUME NEW o \in PairsOf(query), KeyOf(query, o) = key
          PROVE  o[1] <= PieceAt(start, l)[1]
      <4>1. PICK b \in G : o = PieceAt(start, b)
        OBVIOUS
      <4>2. b \in Same /\ b \in 1..m
        BY <1>1, <3>1, <4>1
      <4>3. b <= l
        BY <2>1, <4>2
      <4>4. start[b] \in Int /\ start[l] \in Int /\ (b < l => start[b] < start[l])
        BY <2>2, <4>2
      <4>5. start[b] <= start[l]
        BY <2>2, <4>2, <4>3, <4>4
      <4>6. QED
        BY <1>4, <2>2, <4>1, <4>2, <4>5
    <3>2. QED
      BY <2>2, <3>1
  <2>4. w \in PairsOf(query) /\ IsWinner(w)
    <3>1. PieceAt(start, l) \in PairsOf(query)
      BY <2>2
    <3> HIDE DEF IsWinner
    <3>2. QED
      BY <2>3, <3>1
  <2>5. PICK b \in G : w = PieceAt(start, b)
    <3> HIDE DEF w
    <3>1. QED
      BY <2>4
  <2>6. b \in Same /\ b \in 1..m
    <3>1. KeyOf(query, w) = key
      BY <2>4
    <3> HIDE DEF w
    <3>2. QED
      BY <1>1, <2>5, <3>1
  <2>7. b = l
    <3>1. PieceAt(start, l) \in PairsOf(query)
      BY <2>2
    <3>2. start[l] <= start[b]
      <4>1. PieceAt(start, l)[1] <= w[1]
        BY <2>2, <2>4, <3>1
      <4> HIDE DEF w
      <4>2. QED
        BY <1>4, <2>2, <2>5, <2>6, <4>1
    <3>3. b <= l
      BY <2>1, <2>6
    <3>4. start[b] \in Int /\ start[l] \in Int /\ (b < l => start[b] < start[l])
      BY <2>2, <2>6
    <3>5. QED
      BY <2>2, <2>6, <3>2, <3>3, <3>4
  <2>8. Winner(query, key) = PieceAt(start, l)
    <3>1. Winner(query, key) = w
      BY DEF Winner
    <3> HIDE DEF w
    <3>2. QED
      BY <2>5, <2>7, <3>1
  <2>9. params[K(l)] = ValueOf(query, PieceAt(start, l))
    <3>1. \A c \in G : l < c => K(c) # K(l)
      <4>1. \A c \in G : K(c) = K(l) => c <= l /\ c \in Int
        BY <1>1, <2>1, <2>2
      <4>2. QED
        BY <1>1, <2>2, <4>1
    <3>2. QED
      BY <2>2, <3>1 DEF SaysUpTo
  <2>10. QED
    BY <2>2, <2>8, <2>9
<1>6. DOMAIN ParamsOf(query) = DOMAIN params
      /\ \A key \in DOMAIN params : ParamsOf(query)[key] = ValueOf(query, Winner(query, key))
  <2>1. ParamsOf(query) = [key \in DOMAIN params |-> ValueOf(query, Winner(query, key))]
    BY <1>2, <1>3 DEF ParamsOf
  <2>2. QED
    BY <2>1
<1>7. \A key \in DOMAIN params : ParamsOf(query)[key] = params[key]
  BY <1>2, <1>5, <1>6
<1>8. ParamsOf(query) = [key \in DOMAIN params |-> params[key]]
  BY <1>6, <1>7 DEF ParamsOf
<1>9. params = [key \in DOMAIN params |-> params[key]]
  OBVIOUS
<1>10. QED
  BY <1>8, <1>9

\* parseQueryParams() gives what the query says: each key of a pair with the value of
\* the last such pair, a pair with two '=' giving nothing, for queries of any length.
THEOREM QueryParamsAre ==
    ASSUME NEW Chars, NEW query \in Seq(Chars)
    PROVE  ParseQueryParams(query) = ParamsOf(query)
<1>1. CASE query = <<>>
  <2>1. PairsOf(query) = {}
    BY <1>1 DEF PairsOf
  <2>2. ParamsOf(query) = [key \in {} |-> ValueOf(query, Winner(query, key))]
    BY <2>1 DEF ParamsOf
  <2>3. ParamsOf(query) = <<>>
    BY <2>2
  <2>4. QED
    BY <1>1, <2>3 DEF ParseQueryParams
<1>2. CASE query # <<>>
  <2> DEFINE n == Len(query)
             pieces == Split(query, "&")
             m == Len(pieces)
  <2>1. pieces \in Parts(Chars) /\ m \in Nat \ {0}
    BY SplitIs DEF Parts
  <2>2. PICK start : IsSplit(query, "&", n, pieces, start)
    BY SplitIs
  <2>3. PICK f \in [0..m -> Params(Chars)] :
              /\ f[0] = <<>>
              /\ \A k \in 1..m : f[k] = AddPair(f[k - 1], pieces[k])
              /\ f[m] = ParseQueryParams(query)
    BY <1>2, <2>1, ParseLoop
  <2> HIDE DEF pieces
  <2>4. ASSUME NEW k \in 1..m
        PROVE  f[k] = IF OneEquals(query, PieceAt(start, k))
                      THEN Put(f[k - 1], KeyOf(query, PieceAt(start, k)),
                               ValueOf(query, PieceAt(start, k)))
                      ELSE f[k - 1]
    <3> DEFINE i == start[k]
               j == start[k + 1] - 2
    <3>1. start \in [1..m + 1 -> 1..n + 2] /\ start[k] < start[k + 1]
          /\ pieces[k] = SubSeq(query, i, j)
      BY <2>2 DEF IsSplit
    <3>2. i \in 1..n + 1 /\ j \in 0..n /\ i <= j + 1
      <4>1. k \in 1..m + 1 /\ k + 1 \in 1..m + 1 /\ n \in Nat
        BY <2>1
      <4>2. start[k] \in 1..n + 2 /\ start[k + 1] \in 1..n + 2
        BY <3>1, <4>1
      <4>3. QED
        BY <3>1, <4>1, <4>2
    <3> HIDE DEF i, j
    <3>3. AddPair(f[k - 1], SubSeq(query, i, j)) =
              IF OneEquals(query, <<i, j>>)
              THEN Put(f[k - 1], KeyOf(query, <<i, j>>), ValueOf(query, <<i, j>>))
              ELSE f[k - 1]
      BY <3>2, PieceSays
    <3>4. PieceAt(start, k) = <<i, j>>
      BY DEF PieceAt, i, j
    <3>5. f[k] = AddPair(f[k - 1], pieces[k])
      BY <2>3
    <3>6. QED
      BY <3>1, <3>3, <3>4, <3>5
  <2> DEFINE T == {k \in 0..m : SaysUpTo(query, start, k, f[k])}
  <2>5. 0 \in T
    <3>1. GoodTo(query, start, 0) = {}
      BY DEF GoodTo
    <3>2. DOMAIN f[0] = {}
      BY <2>3
    <3>3. QED
      BY <2>1, <3>1, <3>2 DEF SaysUpTo
  <2>6. ASSUME NEW k \in 1..m, k - 1 \in T
        PROVE  k \in T
    <3>1. k \in Nat \ {0} /\ SaysUpTo(query, start, k - 1, f[k - 1])
      BY <2>6
    <3>2. CASE OneEquals(query, PieceAt(start, k))
      <4>1. f[k] = Put(f[k - 1], KeyOf(query, PieceAt(start, k)), ValueOf(query, PieceAt(start, k)))
        BY <2>4, <3>2
      <4>2. SaysUpTo(query, start, k, f[k])
        BY <3>1, <3>2, <4>1, SaysPut
      <4>3. QED
        BY <4>2
    <3>3. CASE ~OneEquals(query, PieceAt(start, k))
      <4>1. f[k] = f[k - 1]
        BY <2>4, <3>3
      <4>2. GoodTo(query, start, k) = GoodTo(query, start, k - 1)
        <5>1. 1..k = 1..(k - 1) \cup {k}
          BY <3>1
        <5>2. QED
          BY <3>3, <5>1 DEF GoodTo
      <4>3. SaysUpTo(query, start, k, f[k])
        BY <3>1, <4>1, <4>2 DEF SaysUpTo
      <4>4. QED
        BY <4>3
    <3>4. QED
      BY <3>2, <3>3
  <2>7. SaysUpTo(query, start, m, f[m])
    <3>1. m \in Nat
      BY <2>1
    <3> HIDE DEF T, m
    <3>2. 0..m \subseteq T
      BY <2>5, <2>6, <3>1, UpTo
    <3>3. QED
      BY <3>1, <3>2 DEF T
  <2>8. PairsOf(query) = {PieceAt(start, a) : a \in GoodTo(query, start, m)}
    BY <1>2, <2>1, <2>2, PairsAre
  <2>9. \A a \in 1..m, b \in 1..m : start[a] \in Int /\ (a < b => start[a] < start[b])
    <3>1. start \in [1..m + 1 -> 1..n + 2] /\ n \in Nat
      BY <2>2 DEF IsSplit
    <3>2. ASSUME NEW a \in 1..m, NEW b \in 1..m, a < b
          PROVE  start[a] < start[b]
      <4>1. a \in 1..m + 1 /\ b \in a + 1..m + 1
        BY <2>1, <3>2
      <4>2. QED
        BY <2>1, <2>2, <3>1, <4>1, StartsRise
    <3>3. \A a \in 1..m : start[a] \in Int
      BY <2>1, <3>1
    <3>4. QED
      BY <3>2, <3>3
  <2>10. PICK Keys : f[m] \in [Keys -> Seq(Chars)]
    <3>1. m \in 0..m
      BY <2>1
    <3>2. QED
      BY <2>3, <3>1 DEF Params
  <2> HIDE DEF m
  <2>11. f[m] = ParamsOf(query)
    BY <2>1, <2>7, <2>8, <2>9, <2>10, WinnersSay
  <2>12. QED
    BY <2>3, <2>11
<1>3. QED
  BY <1>1, <1>2

-----------------------------------------------------------------------------
(* Targets.                                                                *)

\* Path and query of a target are texts of its characters.
LEMMA PathAndQuery ==
    ASSUME NEW Chars, NEW target \in Seq(Chars)
    PROVE  PathOf(target) \in Seq(Chars) /\ QueryOf(target) \in Seq(Chars)
<1> DEFINE marks == {i \in 1..Len(target) : target[i] = "?"}
           q == IF marks # {} THEN Min(marks) ELSE 0
<1>1. q \in 0..Len(target)
  <2>1. CASE marks = {}
    BY <2>1
  <2>2. CASE marks # {}
    <3>1. PICK i \in marks : \A j \in marks : i <= j
      <4>1. marks \in SUBSET Nat
        OBVIOUS
      <4> HIDE DEF marks
      <4>2. QED
        BY <2>2, <4>1, Least
    <3>2. Min(marks) \in marks
      BY <3>1, Zenon DEF Min
    <3>3. QED
      BY <2>2, <3>2
  <2>3. QED
    BY <2>1, <2>2
<1>2. PathOf(target) = IF q = 0 THEN target ELSE SubSeq(target, 1, q - 1)
  BY DEF PathOf, SelectInSeq
<1>3. QueryOf(target) = IF q = 0 THEN <<>> ELSE SubSeq(target, q + 1, Len(target))
  BY DEF QueryOf, SelectInSeq
<1> HIDE DEF q
<1>4. \A a \in 1..Len(target) + 1, b \in 0..Len(target) : SubSeq(target, a, b) \in Seq(Chars)
  OBVIOUS
<1>5. QED
  BY <1>1, <1>2, <1>3, <1>4
=============================================================================
