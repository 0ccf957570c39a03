-------------------------- MODULE WorkspaceProofs --------------------------
(***************************************************************************)
(* Proofs about Workspace and Lookups, for every finite set of paths and   *)
(* whatever clients write, make, edit and remove, and wherever.  The tree  *)
(* stays closed; where clients keep to files of their own, an edit changes *)
(* what it was asked to change; a glob, a search and a discovery find what *)
(* stays in place while they look, and fail only for a cause; a glob ends; *)
(* a read shows the slice it says it shows.                                *)
(***************************************************************************)
EXTENDS Lookups, SequenceTheorems, FiniteSetTheorems, TLAPS

-----------------------------------------------------------------------------
(* Prefixes. *)

(* The first names of a path. *)
LEMMA FirstNames ==
    ASSUME NEW s \in Seq(Names), NEW n \in 0..Len(s)
    PROVE  /\ SubSeq(s, 1, n) \in Seq(Names) /\ Len(SubSeq(s, 1, n)) = n
           /\ \A i \in 1..n : SubSeq(s, 1, n)[i] = s[i]
  <1>1. Len(s) \in Nat /\ \A i \in 1..n : s[i] \in Names  BY LenProperties
  <1> QED  BY <1>1, SubSeqProperties

LEMMA FrontNames ==
    ASSUME NEW s \in Seq(Names), s # <<>>
    PROVE  /\ Front(s) = SubSeq(s, 1, Len(s) - 1)
           /\ Front(s) \in Seq(Names) /\ Len(Front(s)) = Len(s) - 1
           /\ \A i \in 1..(Len(s) - 1) : Front(s)[i] = s[i]
  <1> DEFINE n == Len(s) - 1
  <1>1. Front(s) = SubSeq(s, 1, n)  BY DEF Front
  <1>2. n \in 0..Len(s)
    <2>1. Len(s) \in Nat /\ Len(s) # 0  OBVIOUS
    <2> QED  BY <2>1
  <1> HIDE DEF n
  <1>3. /\ SubSeq(s, 1, n) \in Seq(Names) /\ Len(SubSeq(s, 1, n)) = n
        /\ \A i \in 1..n : SubSeq(s, 1, n)[i] = s[i]
        BY <1>2, FirstNames
  <1> QED  BY <1>1, <1>3 DEF n

(* The directory of a path is a path, and not the path itself. *)
LEMMA FrontOf ==
    ASSUME NEW p \in Paths, p # <<>>
    PROVE  Front(p) \in Paths /\ Front(p) # p /\ Len(Front(p)) < Len(p)
  <1>1. p \in Seq(Names)  BY WorkspaceAssumption
  <1>2. Len(p) \in Nat /\ Len(p) # 0  BY <1>1
  <1>3. Len(Front(p)) = Len(p) - 1  BY <1>1, <1>2, FrontNames
  <1>4. Front(p) \in Paths
    <2>1. Front(p) = SubSeq(p, 1, Len(p) - 1)  BY <1>1, FrontNames
    <2>2. Len(p) - 1 \in 0..Len(p)  BY <1>2
    <2> QED  BY <2>1, <2>2, WorkspaceAssumption
  <1> QED  BY <1>2, <1>3, <1>4

(* What is above an ancestor is above. *)

LEMMA ReplacedText ==
    ASSUME NEW text \in Texts, NEW n, NEW old, NEW new \in Words
    PROVE  ReplaceFirst(text, n, old, new) \in Texts
  <1>1. PICK m \in 0..MaxWords : text \in [1..m -> Words]  BY DEF Texts
  <1>2. ReplaceFirst(text, n, old, new) \in [1..m -> Words]  BY <1>1 DEF ReplaceFirst
  <1> QED  BY <1>1, <1>2 DEF Texts

-----------------------------------------------------------------------------
(* Orders.  A finite set with a strict total order is the range of one sequence in
   that order: each element's place is the number of elements before it, plus one. *)

StrictOrder(R, S) ==
    /\ \A x \in S : <<x, x>> \notin R
    /\ \A x, y, z \in S : <<x, y>> \in R /\ <<y, z>> \in R => <<x, z>> \in R
    /\ \A x, y \in S : x = y \/ <<x, y>> \in R \/ <<y, x>> \in R

InOrderOf(s, R, n) == \A i, j \in 1..n : i < j => <<s[i], s[j]>> \in R

LEMMA Places1 ==
    ASSUME NEW S, IsFiniteSet(S), NEW R, StrictOrder(R, S)
    PROVE  LET place == [x \in S |-> Cardinality({y \in S : <<y, x>> \in R}) + 1]
           IN  /\ place \in Bijection(S, 1..Cardinality(S))
               /\ \A x, y \in S : <<x, y>> \in R => place[x] < place[y]
  <1> DEFINE n         == Cardinality(S)
             before(x) == {y \in S : <<y, x>> \in R}
             place     == [x \in S |-> Cardinality(before(x)) + 1]
  <1>1. n \in Nat  BY FS_CardinalityType
  <1>2. ASSUME NEW x \in S
        PROVE  /\ IsFiniteSet(before(x)) /\ Cardinality(before(x)) \in Nat
               /\ Cardinality(before(x)) < n
    <2>1. before(x) \in SUBSET S /\ before(x) # S  BY DEF StrictOrder
    <2> HIDE DEF before
    <2>2. /\ IsFiniteSet(before(x)) /\ Cardinality(before(x)) <= n
          /\ Cardinality(before(x)) # n
          BY <2>1, FS_Subset
    <2>3. Cardinality(before(x)) \in Nat  BY <2>2, FS_CardinalityType
    <2> QED  BY <1>1, <2>2, <2>3
  <1>3. ASSUME NEW x \in S, NEW y \in S, <<x, y>> \in R
        PROVE  Cardinality(before(x)) < Cardinality(before(y))
    <2>1. before(x) \in SUBSET before(y) /\ before(x) # before(y)
          BY <1>3 DEF StrictOrder
    <2>2. /\ IsFiniteSet(before(y)) /\ Cardinality(before(y)) \in Nat
          /\ Cardinality(before(x)) \in Nat
          BY <1>2
    <2> HIDE DEF before
    <2>3. /\ Cardinality(before(x)) <= Cardinality(before(y))
          /\ Cardinality(before(x)) # Cardinality(before(y))
          BY <2>1, <2>2, FS_Subset
    <2> QED  BY <2>2, <2>3
  <1>v. \A x \in S : place[x] = Cardinality(before(x)) + 1  OBVIOUS
  <1> HIDE DEF place, before, n
  <1>4. \A x \in S : place[x] \in 1..n  BY <1>1, <1>2, <1>v
  <1>5. \A x, y \in S : <<x, y>> \in R => place[x] < place[y]  BY <1>2, <1>3, <1>v
  <1>6. place \in [S -> 1..n]  BY <1>4 DEF place
  <1>7. \A x, y \in S : place[x] = place[y] => x = y
    <2> TAKE x, y \in S
    <2>1. place[x] \in Int /\ place[y] \in Int  BY <1>4
    <2>2. CASE <<x, y>> \in R
      <3>1. place[x] < place[y]  BY <1>5, <2>2
      <3> QED  BY <2>1, <3>1
    <2>3. CASE <<y, x>> \in R
      <3>1. place[y] < place[x]  BY <1>5, <2>3
      <3> QED  BY <2>1, <3>1
    <2> QED  BY <2>2, <2>3 DEF StrictOrder
  <1>8. place \in Injection(S, 1..n)  BY <1>6, <1>7 DEF Injection, IsInjective
  <1>9. IsFiniteSet(1..n) /\ Cardinality(1..n) = n
    <2>1. IsFiniteSet(1..n) /\ Cardinality(1..n) = IF 1 > n THEN 0 ELSE n - 1 + 1
          BY <1>1, FS_Interval
    <2> QED  BY <1>1, <2>1
  <1>10. place \in Surjection(S, 1..n)  BY <1>8, <1>9, FS_Injection DEF n
  <1>11. place \in Bijection(S, 1..n)  BY <1>8, <1>10 DEF Bijection
  <1> QED  BY <1>5, <1>11 DEF place, before, n

LEMMA OrderExists ==
    ASSUME NEW S, IsFiniteSet(S), NEW R, StrictOrder(R, S)
    PROVE  \E s \in [1..Cardinality(S) -> S] : InOrderOf(s, R, Cardinality(S))
  <1> DEFINE n     == Cardinality(S)
             place == [x \in S |-> Cardinality({y \in S : <<y, x>> \in R}) + 1]
             s     == [i \in 1..n |-> CHOOSE x \in S : place[x] = i]
  <1>1. /\ place \in Bijection(S, 1..n)
        /\ \A x, y \in S : <<x, y>> \in R => place[x] < place[y]
        BY Places1
  <1>2. n \in Nat  BY FS_CardinalityType
  <1> HIDE DEF place, n
  <1>3. \A i \in 1..n : \E x \in S : place[x] = i  BY <1>1 DEF Bijection, Surjection
  <1>4. \A i \in 1..n : s[i] \in S /\ place[s[i]] = i  BY <1>3
  <1>5. s \in [1..n -> S]  BY <1>4
  <1> HIDE DEF s
  <1>6. ASSUME NEW i \in 1..n, NEW j \in 1..n, i < j PROVE <<s[i], s[j]>> \in R
    <2>1. s[i] \in S /\ s[j] \in S /\ place[s[i]] = i /\ place[s[j]] = j  BY <1>4
    <2>2. s[i] # s[j]  BY <2>1, <1>6
    <2>3. <<s[j], s[i]>> \notin R
      <3> SUFFICES ASSUME <<s[j], s[i]>> \in R PROVE FALSE  OBVIOUS
      <3>1. place[s[j]] < place[s[i]]  BY <1>1, <2>1
      <3>2. j < i  BY <2>1, <3>1
      <3>3. i \in Int /\ j \in Int  OBVIOUS
      <3> QED  BY <1>6, <3>2, <3>3
    <2> QED  BY <2>1, <2>2, <2>3 DEF StrictOrder
  <1> QED  BY <1>5, <1>6 DEF InOrderOf, n

LEMMA OrderIsAll ==
    ASSUME NEW S, IsFiniteSet(S), NEW R, StrictOrder(R, S),
           NEW s \in [1..Cardinality(S) -> S], InOrderOf(s, R, Cardinality(S))
    PROVE  /\ \A x \in S : \E i \in 1..Cardinality(S) : s[i] = x
           /\ \A i, j \in 1..Cardinality(S) : i # j => s[i] # s[j]
  <1> DEFINE n == Cardinality(S)
  <1>1. n \in Nat  BY FS_CardinalityType
  <1>2. ASSUME NEW i \in 1..n, NEW j \in 1..n, i # j PROVE s[i] # s[j]
    <2>1. i < j \/ j < i  BY <1>1, <1>2
    <2>2. <<s[i], s[j]>> \in R \/ <<s[j], s[i]>> \in R  BY <2>1 DEF InOrderOf
    <2>3. s[i] \in S  OBVIOUS
    <2> QED  BY <2>2, <2>3 DEF StrictOrder
  <1>3. IsFiniteSet(1..n) /\ Cardinality(1..n) = n
    <2>1. IsFiniteSet(1..n) /\ Cardinality(1..n) = IF 1 > n THEN 0 ELSE n - 1 + 1
          BY <1>1, FS_Interval
    <2> QED  BY <1>1, <2>1
  <1>4. s \in Injection(1..n, S)  BY <1>2 DEF Injection, IsInjective
  <1>5. s \in Surjection(1..n, S)  BY <1>3, <1>4, FS_Injection
  <1> QED  BY <1>2, <1>5 DEF Surjection

(* The least number of a finite set of numbers. *)
LEMMA LeastOf ==
    ASSUME NEW S, IsFiniteSet(S), S \subseteq Int, S # {}
    PROVE  \E x \in S : \A y \in S : x <= y
  <1> DEFINE R == {e \in S \X S : e[1] < e[2]}
             n == Cardinality(S)
  <1>1. \A x, y \in S : <<x, y>> \in R <=> x < y  OBVIOUS
  <1>2. StrictOrder(R, S)
    <2> HIDE DEF R
    <2> QED  BY <1>1 DEF StrictOrder
  <1> HIDE DEF R
  <1>3. PICK s \in [1..n -> S] : InOrderOf(s, R, n)  BY <1>2, OrderExists
  <1>4. \A x \in S : \E i \in 1..n : s[i] = x  BY <1>2, <1>3, OrderIsAll
  <1>5. n \in Nat /\ n # 0  BY FS_CardinalityType, FS_EmptySet
  <1> HIDE DEF n
  <1>6. 1 \in 1..n /\ s[1] \in S  BY <1>5
  <1>7. ASSUME NEW y \in S PROVE s[1] <= y
    <2>1. PICK i \in 1..n : s[i] = y  BY <1>4
    <2>2. CASE i = 1  BY <1>6, <2>1, <2>2
    <2>3. CASE i # 1
      <3>1. 1 < i  BY <1>5, <2>3
      <3>2. <<s[1], s[i]>> \in R  BY <1>3, <1>6, <3>1 DEF InOrderOf
      <3>3. s[1] < y  BY <1>1, <1>6, <2>1, <3>2
      <3>4. s[1] \in Int /\ y \in Int  BY <1>6
      <3> QED  BY <3>3, <3>4
    <2> QED  BY <2>2, <2>3
  <1> QED  BY <1>6, <1>7

(* The greatest, which Max is. *)
LEMMA GreatestOf ==
    ASSUME NEW S, IsFiniteSet(S), S \subseteq Int, S # {}
    PROVE  Max(S) \in S /\ \A y \in S : Max(S) >= y
  <1> DEFINE R == {e \in S \X S : e[1] > e[2]}
             n == Cardinality(S)
  <1>1. \A x, y \in S : <<x, y>> \in R <=> x > y  OBVIOUS
  <1>2. StrictOrder(R, S)
    <2> HIDE DEF R
    <2> QED  BY <1>1 DEF StrictOrder
  <1> HIDE DEF R
  <1>3. PICK s \in [1..n -> S] : InOrderOf(s, R, n)  BY <1>2, OrderExists
  <1>4. \A x \in S : \E i \in 1..n : s[i] = x  BY <1>2, <1>3, OrderIsAll
  <1>5. n \in Nat /\ n # 0  BY FS_CardinalityType, FS_EmptySet
  <1> HIDE DEF n
  <1>6. 1 \in 1..n /\ s[1] \in S  BY <1>5
  <1>7. ASSUME NEW y \in S PROVE s[1] >= y
    <2>1. PICK i \in 1..n : s[i] = y  BY <1>4
    <2>2. CASE i = 1  BY <1>6, <2>1, <2>2
    <2>3. CASE i # 1
      <3>1. 1 < i  BY <1>5, <2>3
      <3>2. <<s[1], s[i]>> \in R  BY <1>3, <1>6, <3>1 DEF InOrderOf
      <3>3. s[1] > y  BY <1>1, <1>6, <2>1, <3>2
      <3>4. s[1] \in Int /\ y \in Int  BY <1>6
      <3> QED  BY <3>3, <3>4
    <2> QED  BY <2>2, <2>3
  <1>8. \E x \in S : \A y \in S : x >= y  BY <1>6, <1>7
  <1> QED  BY <1>8 DEF Max

(* Prefixes, name by name. *)
LEMMA PrefixAt ==
    ASSUME NEW p \in Seq(Names), NEW q \in Seq(Names)
    PROVE  /\ IsPrefix(p, q) <=> Len(p) <= Len(q) /\ \A k \in 1..Len(p) : p[k] = q[k]
           /\ IsStrictPrefix(p, q) <=> Len(p) < Len(q) /\ \A k \in 1..Len(p) : p[k] = q[k]
  <1>0. Len(p) \in Nat /\ Len(q) \in Nat  OBVIOUS
  <1>1. SubSeq(p, 1, Len(p)) = p
    <2>1. Len(p) \in 0..Len(p)  BY <1>0
    <2>2. /\ SubSeq(p, 1, Len(p)) \in Seq(Names) /\ Len(SubSeq(p, 1, Len(p))) = Len(p)
          /\ \A i \in 1..Len(p) : SubSeq(p, 1, Len(p))[i] = p[i]
          BY <2>1, FirstNames
    <2> QED  BY <2>2
  <1>2. ASSUME Len(p) <= Len(q)
        PROVE  (p = SubSeq(q, 1, Len(p))) <=> \A k \in 1..Len(p) : p[k] = q[k]
    <2>1. Len(p) \in 0..Len(q)  BY <1>0, <1>2
    <2>2. /\ SubSeq(q, 1, Len(p)) \in Seq(Names) /\ Len(SubSeq(q, 1, Len(p))) = Len(p)
          /\ \A i \in 1..Len(p) : SubSeq(q, 1, Len(p))[i] = q[i]
          BY <2>1, FirstNames
    <2> QED  BY <2>2
  <1>3. IsPrefix(p, q) <=> Len(p) <= Len(q) /\ \A k \in 1..Len(p) : p[k] = q[k]
        BY <1>0, <1>1, <1>2 DEF IsPrefix
  <1>4. ASSUME Len(p) = Len(q), \A k \in 1..Len(p) : p[k] = q[k] PROVE p = q
        BY <1>4
  <1>5. Len(p) < Len(q) => p # q  BY <1>0
  <1> QED  BY <1>0, <1>3, <1>4, <1>5 DEF IsStrictPrefix

(* The order of paths, name by name. *)
LEMMA BeforeAt ==
    ASSUME NEW p \in Seq(Names), NEW q \in Seq(Names)
    PROVE  Before(p, q) <=>
             \/ Len(p) < Len(q) /\ \A k \in 1..Len(p) : p[k] = q[k]
             \/ \E i \in 1..Len(p) : /\ i <= Len(q) /\ p[i] < q[i]
                                     /\ \A k \in 1..(i - 1) : p[k] = q[k]
  <1>1. Len(p) \in Nat /\ Len(q) \in Nat /\ DOMAIN p = 1..Len(p) /\ DOMAIN q = 1..Len(q)
        OBVIOUS
  <1>2. ASSUME NEW i \in 1..Len(p), i <= Len(q)
        PROVE  SubSeq(p, 1, i - 1) = SubSeq(q, 1, i - 1)
                 <=> \A k \in 1..(i - 1) : p[k] = q[k]
    <2> DEFINE m == i - 1
    <2>1. m \in 0..Len(p) /\ m \in 0..Len(q)  BY <1>1, <1>2
    <2> HIDE DEF m
    <2>2. /\ SubSeq(p, 1, m) \in Seq(Names) /\ Len(SubSeq(p, 1, m)) = m
          /\ \A k \in 1..m : SubSeq(p, 1, m)[k] = p[k]
          BY <2>1, FirstNames
    <2>3. /\ SubSeq(q, 1, m) \in Seq(Names) /\ Len(SubSeq(q, 1, m)) = m
          /\ \A k \in 1..m : SubSeq(q, 1, m)[k] = q[k]
          BY <2>1, FirstNames
    <2>4. SubSeq(p, 1, m) = SubSeq(q, 1, m) <=> \A k \in 1..m : p[k] = q[k]
          BY <2>2, <2>3
    <2> QED  BY <2>4 DEF m
  <1>3. \A i : i \in DOMAIN p \cap DOMAIN q <=> i \in 1..Len(p) /\ i <= Len(q)
        BY <1>1
  <1>4. IsStrictPrefix(p, q) <=> Len(p) < Len(q) /\ \A k \in 1..Len(p) : p[k] = q[k]
        BY PrefixAt
  <1> QED  BY <1>2, <1>3, <1>4 DEF Before

BeforeIn(S) == {e \in S \X S : Before(e[1], e[2])}

LEMMA BeforeIsOrder ==
    ASSUME NEW S, S \subseteq Paths
    PROVE  StrictOrder(BeforeIn(S), S)
  <1>0. \A x, y \in S : <<x, y>> \in BeforeIn(S) <=> Before(x, y)  BY DEF BeforeIn
  <1>1. ASSUME NEW x \in S
        PROVE  x \in Seq(Names) /\ Len(x) \in Nat /\ \A k \in 1..Len(x) : x[k] \in Nat
    <2>1. x \in Seq(Names) /\ Names \subseteq Nat  BY WorkspaceAssumption
    <2>2. \A k \in 1..Len(x) : x[k] \in Names  BY <2>1
    <2>3. \A k \in 1..Len(x) : x[k] \in Nat  BY <2>1, <2>2, Zenon
    <2> QED  BY <2>1, <2>3
  <1>2. ASSUME NEW x \in S PROVE ~Before(x, x)
    <2>1. Len(x) \in Nat /\ \A k \in 1..Len(x) : x[k] \in Nat  BY <1>1
    <2>2. ~(Len(x) < Len(x)) /\ \A k \in 1..Len(x) : ~(x[k] < x[k])  BY <2>1
    <2> QED  BY <1>1, <2>2, BeforeAt
  <1>3. ASSUME NEW x \in S, NEW y \in S, NEW z \in S, Before(x, y), Before(y, z)
        PROVE  Before(x, z)
    <2>1. /\ x \in Seq(Names) /\ y \in Seq(Names) /\ z \in Seq(Names)
          /\ Len(x) \in Nat /\ Len(y) \in Nat /\ Len(z) \in Nat
          /\ \A k \in 1..Len(x) : x[k] \in Nat
          /\ \A k \in 1..Len(y) : y[k] \in Nat
          /\ \A k \in 1..Len(z) : z[k] \in Nat
          BY <1>1
    <2>2. \/ Len(x) < Len(y) /\ \A k \in 1..Len(x) : x[k] = y[k]
          \/ \E i \in 1..Len(x) : /\ i <= Len(y) /\ x[i] < y[i]
                                  /\ \A k \in 1..(i - 1) : x[k] = y[k]
          BY <1>3, <2>1, BeforeAt
    <2>3. \/ Len(y) < Len(z) /\ \A k \in 1..Len(y) : y[k] = z[k]
          \/ \E i \in 1..Len(y) : /\ i <= Len(z) /\ y[i] < z[i]
                                  /\ \A k \in 1..(i - 1) : y[k] = z[k]
          BY <1>3, <2>1, BeforeAt
    <2>p. ASSUME Len(x) < Len(z), \A k \in 1..Len(x) : x[k] = z[k] PROVE Before(x, z)
          BY <2>p, <2>1, BeforeAt
    <2>d. ASSUME NEW i \in 1..Len(x), i <= Len(z), x[i] < z[i],
                 \A k \in 1..(i - 1) : x[k] = z[k]
          PROVE  Before(x, z)
          BY <2>d, <2>1, BeforeAt
    <2>4. CASE Len(x) < Len(y) /\ \A k \in 1..Len(x) : x[k] = y[k]
      <3>1. \A k \in 1..Len(x) : k \in 1..Len(y)  BY <2>1, <2>4
      <3>2. CASE Len(y) < Len(z) /\ \A k \in 1..Len(y) : y[k] = z[k]
        <4>1. Len(x) < Len(z)  BY <2>1, <2>4, <3>2
        <4> QED  BY <2>4, <2>p, <3>1, <3>2, <4>1
      <3>3. CASE \E i \in 1..Len(y) : /\ i <= Len(z) /\ y[i] < z[i]
                                      /\ \A k \in 1..(i - 1) : y[k] = z[k]
        <4>1. PICK i \in 1..Len(y) : /\ i <= Len(z) /\ y[i] < z[i]
                                     /\ \A k \in 1..(i - 1) : y[k] = z[k]
              BY <3>3
        <4>2. CASE i <= Len(x)
          <5>1. i \in 1..Len(x) /\ \A k \in 1..(i - 1) : k \in 1..Len(x)
                BY <2>1, <4>1, <4>2
          <5>2. x[i] < z[i] /\ \A k \in 1..(i - 1) : x[k] = z[k]
                BY <2>4, <4>1, <5>1
          <5> QED  BY <2>d, <4>1, <5>1, <5>2
        <4>3. CASE Len(x) < i
          <5>1. Len(x) < Len(z) /\ \A k \in 1..Len(x) : k \in 1..(i - 1)
                BY <2>1, <4>1, <4>3
          <5>2. \A k \in 1..Len(x) : x[k] = z[k]  BY <2>4, <4>1, <5>1
          <5> QED  BY <2>p, <5>1, <5>2
        <4> QED  BY <2>1, <4>2, <4>3
      <3> QED  BY <2>3, <3>2, <3>3
    <2>5. CASE \E i \in 1..Len(x) : /\ i <= Len(y) /\ x[i] < y[i]
                                    /\ \A k \in 1..(i - 1) : x[k] = y[k]
      <3>1. PICK i \in 1..Len(x) : /\ i <= Len(y) /\ x[i] < y[i]
                                   /\ \A k \in 1..(i - 1) : x[k] = y[k]
            BY <2>5
      <3>2. CASE Len(y) < Len(z) /\ \A k \in 1..Len(y) : y[k] = z[k]
        <4>1. /\ i <= Len(z) /\ i \in 1..Len(y)
              /\ \A k \in 1..(i - 1) : k \in 1..Len(y)
              BY <2>1, <3>1, <3>2
        <4>2. x[i] < z[i] /\ \A k \in 1..(i - 1) : x[k] = z[k]
              BY <3>1, <3>2, <4>1
        <4> QED  BY <2>d, <4>1, <4>2
      <3>3. CASE \E j \in 1..Len(y) : /\ j <= Len(z) /\ y[j] < z[j]
                                      /\ \A k \in 1..(j - 1) : y[k] = z[k]
        <4>1. PICK j \in 1..Len(y) : /\ j <= Len(z) /\ y[j] < z[j]
                                     /\ \A k \in 1..(j - 1) : y[k] = z[k]
              BY <3>3
        <4>2. CASE i <= j
          <5>1. /\ i <= Len(z) /\ i \in 1..Len(y) /\ (i = j \/ i \in 1..(j - 1))
                /\ \A k \in 1..(i - 1) : k \in 1..(j - 1)
                BY <2>1, <3>1, <4>1, <4>2
          <5>2. \A k \in 1..(i - 1) : x[k] = z[k]  BY <3>1, <4>1, <5>1
          <5>3. y[i] <= z[i] /\ x[i] \in Nat /\ y[i] \in Nat /\ z[i] \in Nat
                BY <2>1, <4>1, <5>1
          <5>4. x[i] < z[i]  BY <3>1, <5>3
          <5> QED  BY <2>d, <5>1, <5>2, <5>4
        <4>3. CASE j < i
          <5>1. /\ j \in 1..Len(x) /\ j \in 1..(i - 1)
                /\ \A k \in 1..(j - 1) : k \in 1..(i - 1)
                BY <2>1, <3>1, <4>1, <4>3
          <5>2. x[j] < z[j] /\ \A k \in 1..(j - 1) : x[k] = z[k]
                BY <3>1, <4>1, <5>1
          <5> QED  BY <2>d, <4>1, <5>1, <5>2
        <4> QED  BY <2>1, <4>2, <4>3
      <3> QED  BY <2>3, <3>2, <3>3
    <2> QED  BY <2>2, <2>4, <2>5
  <1>4. ASSUME NEW x \in S, NEW y \in S, x # y PROVE Before(x, y) \/ Before(y, x)
    <2>1. /\ x \in Seq(Names) /\ y \in Seq(Names) /\ Len(x) \in Nat /\ Len(y) \in Nat
          /\ \A k \in 1..Len(x) : x[k] \in Nat
          /\ \A k \in 1..Len(y) : y[k] \in Nat
          BY <1>1
    <2> DEFINE D == {k \in 1..Len(x) : k <= Len(y) /\ x[k] # y[k]}
    <2>2. CASE D = {}
      <3>1. \A k \in 1..Len(x) : k <= Len(y) => x[k] = y[k]  BY <2>2
      <3> HIDE DEF D
      <3>2. Len(x) # Len(y)
        <4> SUFFICES ASSUME Len(x) = Len(y) PROVE FALSE  OBVIOUS
        <4>1. \A k \in 1..Len(x) : x[k] = y[k]  BY <2>1, <3>1
        <4>2. x = y  BY <2>1, <4>1
        <4> QED  BY <1>4, <4>2
      <3>3. CASE Len(x) < Len(y)
        <4>1. \A k \in 1..Len(x) : x[k] = y[k]  BY <2>1, <3>1, <3>3
        <4> QED  BY <2>1, <3>3, <4>1, BeforeAt
      <3>4. CASE Len(y) < Len(x)
        <4>1. \A k \in 1..Len(y) : y[k] = x[k]  BY <2>1, <3>1, <3>4
        <4> QED  BY <2>1, <3>4, <4>1, BeforeAt
      <3> QED  BY <2>1, <3>2, <3>3, <3>4
    <2>3. CASE D # {}
      <3>1. IsFiniteSet(D) /\ D \subseteq Int
        <4>1. IsFiniteSet(1..Len(x))  BY <2>1, FS_Interval
        <4>2. D \in SUBSET (1..Len(x)) /\ D \subseteq Int  BY <2>1
        <4> HIDE DEF D
        <4> QED  BY <4>1, <4>2, FS_Subset
      <3> DEFINE least(i) == \A k \in D : i <= k
      <3>2. \E i \in D : least(i)
        <4> HIDE DEF D
        <4> QED  BY <2>3, <3>1, LeastOf
      <3>3. PICK i \in D : least(i)  BY <3>2
      <3>4. i \in 1..Len(x) /\ i <= Len(y) /\ x[i] # y[i]  OBVIOUS
      <3>5. \A k \in 1..(i - 1) : x[k] = y[k]
        <4> TAKE k \in 1..(i - 1)
        <4>1. k \in 1..Len(x) /\ k <= Len(y) /\ ~(i <= k)  BY <2>1, <3>4
        <4>2. k \notin D  BY <3>3, <4>1
        <4> QED  BY <4>1, <4>2
      <3>6. i \in 1..Len(y)  BY <2>1, <3>4
      <3>7. x[i] < y[i] \/ y[i] < x[i]  BY <2>1, <3>4, <3>6
      <3>8. i <= Len(x)  BY <2>1, <3>4
      <3> HIDE DEF D, least
      <3>9. CASE x[i] < y[i]  BY <2>1, <3>4, <3>5, <3>9, BeforeAt
      <3>10. CASE y[i] < x[i]
        <4>1. \A k \in 1..(i - 1) : y[k] = x[k]  BY <3>5
        <4> QED  BY <2>1, <3>6, <3>8, <3>10, <4>1, BeforeAt
      <3> QED  BY <3>7, <3>9, <3>10
    <2> QED  BY <2>2, <2>3
  <1> QED  BY <1>0, <1>2, <1>3, <1>4 DEF StrictOrder

(* What ReadDir and glob give is each element once. *)
Lists(s, S) == /\ s \in Seq(S)
               /\ \A x \in S : \E i \in 1..Len(s) : s[i] = x
               /\ \A i, j \in 1..Len(s) : i # j => s[i] # s[j]

LEMMA NamesInOrder ==
    ASSUME NEW S, IsFiniteSet(S), S \subseteq Nat
    PROVE  Lists(InOrder(S, <), S)
  <1> DEFINE R == {e \in S \X S : e[1] < e[2]}
             n == Cardinality(S)
             s == InOrder(S, <)
  <1>1. \A x, y \in S : <<x, y>> \in R <=> x < y  OBVIOUS
  <1>2. StrictOrder(R, S)
    <2> HIDE DEF R
    <2> QED  BY <1>1 DEF StrictOrder
  <1> HIDE DEF R
  <1>3. PICK t \in [1..n -> S] : InOrderOf(t, R, n)  BY <1>2, OrderExists
  <1>4. n \in Nat  BY FS_CardinalityType
  <1>5. \A i, j \in DOMAIN t : i < j => t[i] < t[j]
    <2>1. DOMAIN t = 1..n /\ \A i \in 1..n : t[i] \in S  OBVIOUS
    <2> HIDE DEF n
    <2> QED  BY <1>1, <1>3, <2>1 DEF InOrderOf
  <1>6. s \in [1..n -> S] /\ \A i, j \in DOMAIN s : i < j => s[i] < s[j]
        BY <1>5 DEF InOrder
  <1> HIDE DEF s
  <1>7. InOrderOf(s, R, n)
    <2>1. DOMAIN s = 1..n /\ \A i \in 1..n : s[i] \in S  BY <1>6
    <2> HIDE DEF n
    <2> QED  BY <1>1, <1>6, <2>1 DEF InOrderOf
  <1>8. /\ \A x \in S : \E i \in 1..n : s[i] = x
        /\ \A i, j \in 1..n : i # j => s[i] # s[j]
    <2>1. s \in [1..Cardinality(S) -> S] /\ InOrderOf(s, R, Cardinality(S))
          BY <1>6, <1>7
    <2> HIDE DEF n
    <2>2. \A f \in [1..Cardinality(S) -> S] : InOrderOf(f, R, Cardinality(S)) =>
             /\ \A x \in S : \E i \in 1..Cardinality(S) : f[i] = x
             /\ \A i, j \in 1..Cardinality(S) : i # j => f[i] # f[j]
          BY <1>2, OrderIsAll
    <2> QED  BY <2>1, <2>2 DEF n
  <1> HIDE DEF n
  <1>9. s \in Seq(S) /\ Len(s) = n  BY <1>4, <1>6
  <1>10. Lists(s, S)  BY <1>8, <1>9 DEF Lists
  <1> QED  BY <1>10 DEF s

LEMMA PathsInOrder ==
    ASSUME NEW S, S \subseteq Paths
    PROVE  Lists(InOrder(S, Before), S)
  <1> DEFINE R == BeforeIn(S)
             n == Cardinality(S)
             s == InOrder(S, Before)
  <1>0. IsFiniteSet(S)  BY LookupsAssumption, FS_Subset
  <1>1. \A x, y \in S : <<x, y>> \in R <=> Before(x, y)  BY DEF BeforeIn
  <1>2. StrictOrder(R, S)  BY BeforeIsOrder
  <1> HIDE DEF R
  <1>3. PICK t \in [1..n -> S] : InOrderOf(t, R, n)  BY <1>0, <1>2, OrderExists
  <1>4. n \in Nat  BY <1>0, FS_CardinalityType
  <1>5. \A i, j \in DOMAIN t : i < j => Before(t[i], t[j])
    <2>1. DOMAIN t = 1..n /\ \A i \in 1..n : t[i] \in S  OBVIOUS
    <2> HIDE DEF n
    <2> QED  BY <1>1, <1>3, <2>1 DEF InOrderOf
  <1>6. s \in [1..n -> S] /\ \A i, j \in DOMAIN s : i < j => Before(s[i], s[j])
        BY <1>5 DEF InOrder
  <1> HIDE DEF s
  <1>7. InOrderOf(s, R, n)
    <2>1. DOMAIN s = 1..n /\ \A i \in 1..n : s[i] \in S  BY <1>6
    <2> HIDE DEF n
    <2> QED  BY <1>1, <1>6, <2>1 DEF InOrderOf
  <1>8. /\ \A x \in S : \E i \in 1..n : s[i] = x
        /\ \A i, j \in 1..n : i # j => s[i] # s[j]
    <2>1. s \in [1..Cardinality(S) -> S] /\ InOrderOf(s, R, Cardinality(S))
          BY <1>6, <1>7
    <2> HIDE DEF n
    <2>2. \A f \in [1..Cardinality(S) -> S] : InOrderOf(f, R, Cardinality(S)) =>
             /\ \A x \in S : \E i \in 1..Cardinality(S) : f[i] = x
             /\ \A i, j \in 1..Cardinality(S) : i # j => f[i] # f[j]
          BY <1>0, <1>2, OrderIsAll
    <2> QED  BY <2>1, <2>2 DEF n
  <1> HIDE DEF n
  <1>9. s \in Seq(S) /\ Len(s) = n  BY <1>4, <1>6
  <1>10. Lists(s, S)  BY <1>8, <1>9 DEF Lists
  <1> QED  BY <1>10 DEF s

-----------------------------------------------------------------------------
(* The environment.  TreeClosed one level at a time does not say, without an
   induction, that everything above a file is a directory; that is an invariant of
   its own. *)

There(p, fs, ds) == fs[p] # None \/ p \in ds

Env(fs, ds) ==
    /\ fs \in [Paths -> Texts \cup {None}] /\ ds \subseteq Paths
    /\ \A q \in Paths : There(q, fs, ds) => \A r \in Up(q) : r = q \/ r \in ds

LEMMA UpIsTransitive ==
    ASSUME NEW p \in Paths, NEW q \in Up(p), NEW r \in Up(q)
    PROVE  r \in Up(p) /\ (r = p => q = p)
  <1>1. /\ p \in Seq(Names) /\ q \in Seq(Names) /\ r \in Seq(Names)
        /\ q \in Paths /\ r \in Paths
        BY WorkspaceAssumption DEF Up
  <1>2. Len(p) \in Nat /\ Len(q) \in Nat /\ Len(r) \in Nat  BY <1>1
  <1>3. Len(q) <= Len(p) /\ \A k \in 1..Len(q) : q[k] = p[k]
        BY <1>1, PrefixAt DEF Up
  <1>4. Len(r) <= Len(q) /\ \A k \in 1..Len(r) : r[k] = q[k]
        BY <1>1, PrefixAt DEF Up
  <1>5. Len(r) <= Len(p) /\ \A k \in 1..Len(r) : r[k] = p[k]
    <2>1. \A k \in 1..Len(r) : k \in 1..Len(q)  BY <1>2, <1>4
    <2> QED  BY <1>2, <1>3, <1>4, <2>1
  <1>6. r \in Up(p)  BY <1>1, <1>5, PrefixAt DEF Up
  <1>7. ASSUME r = p PROVE q = p
    <2>1. Len(q) = Len(p)  BY <1>2, <1>3, <1>4, <1>7
    <2>2. \A k \in 1..Len(p) : q[k] = p[k]  BY <1>3, <2>1
    <2> QED  BY <1>1, <2>1, <2>2
  <1> QED  BY <1>6, <1>7

LEMMA BelowIsTransitive ==
    ASSUME NEW p \in Paths, NEW q \in Paths, NEW r \in Up(q), r = p \/ r \in Below(p)
    PROVE  q = p \/ q \in Below(p)
  <1>1. p \in Up(r) /\ r \in Paths
    <2>1. p \in Seq(Names) /\ IsPrefix(p, p)
      <3>1. p \in Seq(Names)  BY WorkspaceAssumption
      <3> QED  BY <3>1, PrefixAt
    <2> QED  BY <2>1 DEF Up, Below, IsStrictPrefix
  <1>2. p \in Up(q)  BY <1>1, UpIsTransitive
  <1> QED  BY <1>2 DEF Up, Below, IsStrictPrefix

LEMMA InitEnv == Init => Env(files, dirs)
  <1> SUFFICES ASSUME Init PROVE Env(files, dirs)  OBVIOUS
  <1>1. files = [p \in Paths |-> None] /\ dirs = {<<>>}  BY DEF Init
  <1>2. ASSUME NEW r \in Up(<<>>) PROVE r = <<>>
    <2>1. r \in Seq(Names) /\ <<>> \in Seq(Names)  BY WorkspaceAssumption DEF Up
    <2>2. Len(r) <= Len(<<>>)  BY <2>1, PrefixAt DEF Up
    <2> QED  BY <2>1, <2>2
  <1> QED  BY <1>1, <1>2, WorkspaceAssumption DEF Env, There

LEMMA WriteKeepsEnv ==
    ASSUME Env(files, dirs), NEW p \in Paths, NEW text \in Texts, WriteFile(p, text)
    PROVE  Env(files', dirs')
  <1>1. files' \in [Paths -> Texts \cup {None}]  BY DEF Env, WriteFile
  <1>2. dirs' \subseteq Paths  BY WorkspaceAssumption DEF Env, WriteFile, Up
  <1>3. ASSUME NEW q \in Paths, There(q, files', dirs'), NEW r \in Up(q), r # q
        PROVE  r \in dirs'
    <2>1. CASE q \in Up(p)
      <3>1. r \in Up(p) /\ r # p  BY <1>3, <2>1, UpIsTransitive
      <3> QED  BY <3>1 DEF WriteFile
    <2>2. CASE q \notin Up(p)
      <3>1. q # p
        <4>1. p \in Seq(Names)  BY WorkspaceAssumption
        <4>2. p \in Up(p)  BY <4>1, PrefixAt DEF Up
        <4> QED  BY <2>2, <4>2
      <3>2. q # <<>>
        <4>1. <<>> \in Seq(Names) /\ p \in Seq(Names) /\ <<>> \in Paths
              BY WorkspaceAssumption
        <4>2. Len(<<>>) = 0 /\ Len(p) >= 0  BY <4>1
        <4>3. Len(<<>>) <= Len(p) /\ \A k \in 1..Len(<<>>) : <<>>[k] = p[k]  BY <4>2
        <4>4. IsPrefix(<<>>, p)  BY <4>1, <4>3, PrefixAt
        <4> QED  BY <2>2, <4>1, <4>4 DEF Up
      <3>3. There(q, files, dirs)
            BY <1>3, <2>2, <3>1, <3>2 DEF There, WriteFile, Env
      <3> QED  BY <1>3, <3>3 DEF Env, WriteFile
    <2> QED  BY <2>1, <2>2
  <1> QED  BY <1>1, <1>2, <1>3 DEF Env

LEMMA MkdirKeepsEnv ==
    ASSUME Env(files, dirs), NEW p \in Paths, Mkdir(p)
    PROVE  Env(files', dirs')
  <1>1. dirs' \subseteq Paths  BY DEF Env, Mkdir, Up
  <1>2. ASSUME NEW q \in Paths, There(q, files', dirs'), NEW r \in Up(q), r # q
        PROVE  r \in dirs'
    <2>1. CASE q \in Up(p)
      <3>1. r \in Up(p)  BY <2>1, UpIsTransitive
      <3> QED  BY <3>1 DEF Mkdir
    <2>2. CASE q \notin Up(p)
      <3>1. There(q, files, dirs)  BY <2>2, <1>2 DEF There, Mkdir
      <3>2. r \in dirs  BY <1>2, <3>1 DEF Env
      <3> QED  BY <3>2 DEF Mkdir
    <2> QED  BY <2>1, <2>2
  <1> QED  BY <1>1, <1>2 DEF Env, Mkdir

LEMMA RemoveKeepsEnv ==
    ASSUME Env(files, dirs), NEW p \in Paths, RemoveAll(p)
    PROVE  Env(files', dirs')
  <1>1. CASE IsFile(p)
    <2>1. files' = [files EXCEPT ![p] = None] /\ dirs' = dirs  BY <1>1 DEF RemoveAll
    <2>2. \A q \in Paths : There(q, files', dirs') => There(q, files, dirs)
          BY <2>1 DEF There, Env
    <2> QED  BY <2>1, <2>2 DEF Env
  <1>2. CASE ~IsFile(p)
    <2>1. files' = [q \in Paths |-> IF q \in Below(p) THEN None ELSE files[q]]
          /\ dirs' = dirs \ ({p} \cup Below(p))
          BY <1>2 DEF RemoveAll
    <2>2. ASSUME NEW q \in Paths, There(q, files', dirs'), NEW r \in Up(q), r # q
          PROVE  r \in dirs'
      <3>1. q \notin Below(p) /\ There(q, files, dirs)  BY <2>1, <2>2 DEF There
      <3>2. r \in dirs  BY <2>2, <3>1 DEF Env
      <3>3. r # p /\ r \notin Below(p)
        <4> SUFFICES ASSUME r = p \/ r \in Below(p) PROVE FALSE  OBVIOUS
        <4>1. q = p  BY <3>1, BelowIsTransitive
        <4>2. ~There(q, files', dirs')
              BY <1>2, <2>1, <4>1 DEF There, IsFile
        <4> QED  BY <2>2, <4>2
      <3> QED  BY <2>1, <3>2, <3>3
    <2>3. files' \in [Paths -> Texts \cup {None}] /\ dirs' \subseteq Paths
          BY <2>1 DEF Env
    <2> QED  BY <2>2, <2>3 DEF Env
  <1> QED  BY <1>1, <1>2

(* A name on the way to a path. *)
LEMMA NextName ==
    ASSUME NEW p \in Paths, NEW q \in Below(p)
    PROVE  /\ q \in Paths /\ q[Len(p) + 1] \in Names
           /\ Append(p, q[Len(p) + 1]) \in Paths
           /\ IsPrefix(Append(p, q[Len(p) + 1]), q)
           /\ Append(p, q[Len(p) + 1]) \in Below(p)
  <1> DEFINE n == Len(p) + 1
             e == q[n]
             a == Append(p, e)
  <1>1. p \in Seq(Names) /\ q \in Seq(Names) /\ q \in Paths /\ IsStrictPrefix(p, q)
        BY WorkspaceAssumption DEF Below
  <1>2. Len(p) < Len(q) /\ \A k \in 1..Len(p) : p[k] = q[k]  BY <1>1, PrefixAt
  <1>3. Len(p) \in Nat /\ Len(q) \in Nat /\ n \in 1..Len(q) /\ n \in 0..Len(q)
        BY <1>1, <1>2
  <1>4. e \in Names  BY <1>1, <1>3
  <1>5. /\ a \in Seq(Names) /\ Len(a) = n /\ a[n] = e
        /\ \A k \in 1..Len(p) : a[k] = p[k]
        BY <1>1, <1>4
  <1>6. \A k \in 1..n : a[k] = q[k]
    <2> TAKE k \in 1..n
    <2>1. k = n \/ k \in 1..Len(p)  BY <1>3
    <2> QED  BY <1>2, <1>5, <2>1
  <1>7. a = SubSeq(q, 1, n)
    <2> HIDE DEF a, e
    <2>1. /\ SubSeq(q, 1, n) \in Seq(Names) /\ Len(SubSeq(q, 1, n)) = n
          /\ \A k \in 1..n : SubSeq(q, 1, n)[k] = q[k]
          BY <1>1, <1>3, FirstNames
    <2> QED  BY <1>5, <1>6, <2>1
  <1>8. a \in Paths  BY <1>1, <1>3, <1>7, WorkspaceAssumption
  <1> HIDE DEF a, e, n
  <1>9. IsPrefix(a, q)
    <2>1. n <= Len(q)  BY <1>3
    <2> QED  BY <1>1, <1>5, <1>6, <2>1, PrefixAt
  <1>10. a \in Below(p)
    <2>1. Len(p) < Len(a)  BY <1>3, <1>5 DEF n
    <2>2. \A k \in 1..Len(p) : p[k] = a[k]  BY <1>5
    <2>3. IsStrictPrefix(p, a)  BY <1>1, <1>5, <2>1, <2>2, PrefixAt
    <2> QED  BY <1>8, <2>3 DEF Below
  <1> QED  BY <1>1, <1>4, <1>8, <1>9, <1>10 DEF a, e, n

(* What ReadDir gives. *)
LEMMA EntriesList ==
    ASSUME NEW p \in Paths
    PROVE  /\ EntryNames(p) \subseteq Names /\ IsFiniteSet(EntryNames(p))
           /\ Lists(Entries(p), EntryNames(p))
  <1> DEFINE below == {q \in Below(p) : IsFile(q) \/ (q \in dirs /\ Len(q) = Len(p) + 1)}
             f == [q \in below |-> q[Len(p) + 1]]
  <1>1. EntryNames(p) = {q[Len(p) + 1] : q \in below}  BY DEF EntryNames
  <1>2. below \in SUBSET Paths  BY DEF Below
  <1>3. IsFiniteSet(below)
    <2> HIDE DEF below
    <2> QED  BY <1>2, LookupsAssumption, FS_Subset
  <1>4. EntryNames(p) \subseteq Names  BY <1>1, NextName
  <1>5. f \in Surjection(below, EntryNames(p))
    <2> HIDE DEF below
    <2> QED  BY <1>1 DEF Surjection
  <1>6. IsFiniteSet(EntryNames(p))
    <2> HIDE DEF below, f
    <2> QED  BY <1>3, <1>5, FS_Surjection
  <1>7. EntryNames(p) \subseteq Nat  BY <1>4, WorkspaceAssumption
  <1>8. Lists(Entries(p), EntryNames(p))  BY <1>6, <1>7, NamesInOrder DEF Entries
  <1> QED  BY <1>4, <1>6, <1>8

-----------------------------------------------------------------------------
(* A glob.  What it has not seen of the steady files is below the entries that are
   left to its frames.  Once its result is full, each frame that is not left yet may
   add one file more, and the file that filled it lies as deep as there were frames. *)

FrameFine(f, r) ==
    /\ f.dir = r \/ f.dir \in Below(r)
    /\ \A k \in 1..Len(f.left) : Append(f.dir, f.left[k]) \in Paths

Reaches(q, p)  == p = q \/ p \in Below(q)
Covers(f, p)   == IF f.unread THEN p \in Below(f.dir)
                  ELSE \E k \in 1..Len(f.left) : Reaches(Append(f.dir, f.left[k]), p)
Enough(j)      == Cardinality(j.out) >= j.limit
Open(j)        == IF j.frames # <<>> /\ Last(j.frames).unread THEN Len(j.frames) - 1
                  ELSE Len(j.frames)

GlobShape(j) ==
    /\ j \in GlobJob
    /\ j.word # NoWord => j.match = Names
    /\ j.done => j.steady = {}
    /\ \A i \in 1..Len(j.frames) :
          /\ FrameFine(j.frames[i], j.root)
          /\ Len(j.frames[i].dir) = Len(j.root) + i - 1
          /\ j.frames[i].unread => i = Len(j.frames)

Misses(j, p) == p \in j.steady /\ Last(p) \in j.match /\ p \notin j.out

GlobSees(j, fs) ==
    /\ j.steady \subseteq InSight(fs, j.root)
    /\ ~Enough(j) => \A p \in j.steady :
          Misses(j, p) => \E i \in 1..Len(j.frames) : Covers(j.frames[i], p)

GlobFew(j) ==
    Enough(j) => \E p \in j.out :
        Cardinality(j.out) + Open(j) < j.limit + Len(p) - Len(j.root)

GlobFine(j, fs) == GlobShape(j) /\ GlobSees(j, fs) /\ GlobFew(j)

(* The same glob, with at least the same results. *)
GoesOn(j, k) == /\ k \in GlobJob /\ j.out \subseteq k.out
                /\ k.root = j.root /\ k.match = j.match /\ k.word = j.word
                /\ k.limit = j.limit /\ k.steady = j.steady /\ k.done = j.done

LEMMA GlobTypes ==
    ASSUME NEW j \in GlobJob
    PROVE  /\ j.frames \in Seq(Frame) /\ j.root \in Paths /\ Len(j.root) \in Nat
           /\ j.out \subseteq Paths /\ IsFiniteSet(j.out) /\ Cardinality(j.out) \in Nat
           /\ j.limit \in Nat \ {0} /\ j.steady \subseteq Paths
           /\ j.frames # <<>> => Last(j.frames) \in Frame
  <1>1. /\ j.frames \in Seq(Frame) /\ j.root \in Paths /\ j.out \subseteq Paths
        /\ j.limit \in Limits /\ j.steady \subseteq Paths
        BY DEF GlobJob
  <1>2. Len(j.root) \in Nat
    <2>1. j.root \in Seq(Names)  BY <1>1, WorkspaceAssumption
    <2> QED  BY <2>1
  <1>3. IsFiniteSet(j.out)  BY <1>1, LookupsAssumption, FS_Subset
  <1>4. Cardinality(j.out) \in Nat  BY <1>3, FS_CardinalityType
  <1>5. j.limit \in Nat \ {0}  BY <1>1, WorkspaceAssumption
  <1>6. j.frames # <<>> => Last(j.frames) \in Frame  BY <1>1 DEF Last
  <1> QED  BY <1>1, <1>2, <1>3, <1>4, <1>5, <1>6

LEMMA EnoughStays ==
    ASSUME NEW j \in GlobJob, NEW k, GoesOn(j, k), Enough(j)
    PROVE  Enough(k)
  <1>1. k \in GlobJob /\ k.limit = j.limit /\ j.out \in SUBSET k.out  BY DEF GoesOn
  <1>2. IsFiniteSet(k.out) /\ Cardinality(k.out) \in Nat /\ Cardinality(j.out) \in Nat
        /\ j.limit \in Nat
        BY <1>1, GlobTypes
  <1>3. Cardinality(j.out) <= Cardinality(k.out)  BY <1>1, <1>2, FS_Subset
  <1> QED  BY <1>1, <1>2, <1>3 DEF Enough

(* The frames after the top one is replaced, or dropped. *)
LEMMA FrontFrames ==
    ASSUME NEW fr \in Seq(Frame), fr # <<>>
    PROVE  /\ Len(fr) \in Nat \ {0} /\ Last(fr) = fr[Len(fr)]
           /\ Front(fr) \in Seq(Frame) /\ Len(Front(fr)) = Len(fr) - 1
           /\ \A i \in 1..(Len(fr) - 1) : Front(fr)[i] = fr[i]
  <1>1. Len(fr) \in Nat \ {0} /\ Last(fr) = fr[Len(fr)]  BY DEF Last
  <1>2. Front(fr) = SubSeq(fr, 1, Len(fr) - 1)  BY DEF Front
  <1> DEFINE n == Len(fr) - 1
  <1>3. n \in Nat /\ n < Len(fr)  BY <1>1
  <1>4. \A i \in 1..n : fr[i] \in Frame  BY <1>1
  <1> HIDE DEF n
  <1>5. /\ SubSeq(fr, 1, n) \in Seq(Frame) /\ Len(SubSeq(fr, 1, n)) = n
        /\ \A i \in 1..n : SubSeq(fr, 1, n)[i] = fr[i]
        BY <1>3, <1>4
  <1> QED  BY <1>1, <1>2, <1>5 DEF n

LEMMA TopFrames ==
    ASSUME NEW fr \in Seq(Frame), fr # <<>>, NEW f \in Frame
    PROVE  /\ Append(Front(fr), f) \in Seq(Frame)
           /\ Len(Append(Front(fr), f)) = Len(fr)
           /\ Append(Front(fr), f)[Len(fr)] = f
           /\ \A i \in 1..(Len(fr) - 1) : Append(Front(fr), f)[i] = fr[i]
  <1> DEFINE g == Front(fr)
  <1>1. /\ Len(fr) \in Nat \ {0} /\ g \in Seq(Frame) /\ Len(g) = Len(fr) - 1
        /\ \A i \in 1..(Len(fr) - 1) : g[i] = fr[i]
        BY FrontFrames
  <1> HIDE DEF g
  <1>2. /\ Append(g, f) \in Seq(Frame) /\ Len(Append(g, f)) = Len(fr)
        /\ Append(g, f)[Len(fr)] = f
        /\ \A i \in 1..(Len(fr) - 1) : Append(g, f)[i] = g[i]
        BY <1>1
  <1> QED  BY <1>1, <1>2 DEF g

(* The top frame goes on. *)
LEMMA TopFine ==
    ASSUME NEW j, NEW fs, GlobFine(j, fs), j.frames # <<>>, NEW f \in Frame, ~f.unread,
           f.dir = Last(j.frames).dir, FrameFine(f, j.root),
           NEW k, GoesOn(j, k), k.frames = Append(Front(j.frames), f),
           \A p \in j.steady : Misses(k, p) /\ Covers(Last(j.frames), p) => Covers(f, p),
           Enough(k) => k.out = j.out /\ ~Last(j.frames).unread
    PROVE  GlobFine(k, fs)
  <1> DEFINE n == Len(j.frames)
  <1>1. j \in GlobJob /\ GlobShape(j) /\ GlobSees(j, fs) /\ GlobFew(j)
        BY DEF GlobFine, GlobShape
  <1>2. j.frames \in Seq(Frame)  BY <1>1, GlobTypes
  <1>3. /\ n \in Nat \ {0} /\ Last(j.frames) = j.frames[n] /\ n \in 1..n
        BY <1>2, FrontFrames
  <1>4. /\ Len(k.frames) = n /\ k.frames[n] = f
        /\ \A i \in 1..(n - 1) : k.frames[i] = j.frames[i]
        BY <1>2, TopFrames
  <1>5. \A i \in 1..n : i = n \/ i \in 1..(n - 1)  BY <1>3
  <1>6. \A i \in 1..n : /\ FrameFine(j.frames[i], j.root)
                        /\ Len(j.frames[i].dir) = Len(j.root) + i - 1
                        /\ j.frames[i].unread => i = n
        BY <1>1 DEF GlobShape
  <1>e. ~Enough(k) => ~Enough(j)  BY <1>1, EnoughStays
  <1> HIDE DEF n
  <1>7. GlobShape(k)
    <2>1. \A i \in 1..n : /\ FrameFine(k.frames[i], j.root)
                          /\ Len(k.frames[i].dir) = Len(j.root) + i - 1
                          /\ k.frames[i].unread => i = n
          BY <1>3, <1>4, <1>5, <1>6
    <2> QED  BY <1>1, <1>4, <2>1 DEF GlobShape, GoesOn
  <1>8. GlobSees(k, fs)
    <2>1. ASSUME ~Enough(k), NEW p \in k.steady, Misses(k, p)
          PROVE  \E i \in 1..n : Covers(k.frames[i], p)
      <3>1. p \in j.steady /\ Misses(j, p)  BY <2>1 DEF Misses, GoesOn
      <3>2. PICK i \in 1..n : Covers(j.frames[i], p)
            BY <1>1, <1>e, <2>1, <3>1 DEF GlobSees, n
      <3>3. CASE i = n  BY <1>3, <1>4, <2>1, <3>1, <3>2, <3>3
      <3>4. CASE i \in 1..(n - 1)  BY <1>4, <3>2, <3>4
      <3> QED  BY <1>5, <3>3, <3>4
    <2>2. k.steady \subseteq InSight(fs, k.root)  BY <1>1 DEF GlobSees, GoesOn
    <2> QED  BY <1>4, <2>1, <2>2 DEF GlobSees
  <1>9. GlobFew(k)
    <2> SUFFICES ASSUME Enough(k) PROVE GlobFew(k)  BY DEF GlobFew
    <2>1. k.out = j.out /\ ~Last(j.frames).unread  OBVIOUS
    <2>2. Enough(j)  BY <2>1 DEF Enough, GoesOn
    <2>3. Open(j) = n  BY <2>1 DEF Open, n
    <2>4. k.frames # <<>> /\ Last(k.frames) = f  BY <1>3, <1>4 DEF Last
    <2>5. Open(k) = n  BY <1>4, <2>4 DEF Open
    <2> QED  BY <1>1, <2>1, <2>2, <2>3, <2>5 DEF GlobFew, GoesOn
  <1> QED  BY <1>7, <1>8, <1>9 DEF GlobFine

(* The top frame meets a directory, and a frame for it is pushed. *)
LEMMA PushFine ==
    ASSUME NEW j, NEW fs, GlobFine(j, fs), j.frames # <<>>, ~Last(j.frames).unread,
           NEW f \in Frame, ~f.unread, f.dir = Last(j.frames).dir, FrameFine(f, j.root),
           NEW g \in Frame, g.unread, Len(g.dir) = Len(f.dir) + 1, FrameFine(g, j.root),
           NEW k, GoesOn(j, k), k.frames = Append(Append(Front(j.frames), f), g),
           k.out = j.out,
           \A p \in j.steady : Misses(k, p) /\ Covers(Last(j.frames), p)
                                 => Covers(f, p) \/ Covers(g, p)
    PROVE  GlobFine(k, fs)
  <1> DEFINE n == Len(j.frames)
             h == Append(Front(j.frames), f)
  <1>1. j \in GlobJob /\ GlobShape(j) /\ GlobSees(j, fs) /\ GlobFew(j)
        BY DEF GlobFine, GlobShape
  <1>2. j.frames \in Seq(Frame)  BY <1>1, GlobTypes
  <1>3. /\ n \in Nat \ {0} /\ Last(j.frames) = j.frames[n] /\ n \in 1..n
        BY <1>2, FrontFrames
  <1>a. /\ h \in Seq(Frame) /\ Len(h) = n /\ h[n] = f
        /\ \A i \in 1..(n - 1) : h[i] = j.frames[i]
        BY <1>2, TopFrames
  <1>b. k.frames = Append(h, g)  OBVIOUS
  <1>6. \A i \in 1..n : /\ FrameFine(j.frames[i], j.root)
                        /\ Len(j.frames[i].dir) = Len(j.root) + i - 1
                        /\ j.frames[i].unread => i = n
        BY <1>1 DEF GlobShape
  <1> HIDE DEF n, h
  <1>4. /\ Len(k.frames) = n + 1 /\ k.frames[n + 1] = g /\ k.frames[n] = f
        /\ \A i \in 1..(n - 1) : k.frames[i] = j.frames[i]
    <2>1. /\ Len(Append(h, g)) = n + 1 /\ Append(h, g)[n + 1] = g
          /\ \A i \in 1..n : Append(h, g)[i] = h[i]
          BY <1>3, <1>a
    <2>2. \A i \in 1..(n - 1) : i \in 1..n  BY <1>3
    <2> QED  BY <1>3, <1>a, <1>b, <2>1, <2>2
  <1>5. \A i \in 1..(n + 1) : i = n + 1 \/ i = n \/ i \in 1..(n - 1)  BY <1>3
  <1>7. GlobShape(k)
    <2>1. \A i \in 1..(n - 1) : /\ FrameFine(k.frames[i], j.root)
                                /\ Len(k.frames[i].dir) = Len(j.root) + i - 1
                                /\ ~k.frames[i].unread
      <3>1. \A i \in 1..(n - 1) : i \in 1..n /\ i # n  BY <1>3
      <3> QED  BY <1>4, <1>6, <3>1
    <2>2. Len(f.dir) = Len(j.root) + n - 1  BY <1>3, <1>6
    <2>3. Len(g.dir) = Len(j.root) + (n + 1) - 1
      <3>1. Len(j.root) \in Nat  BY <1>1, GlobTypes
      <3> QED  BY <1>3, <2>2, <3>1
    <2>4. \A i \in 1..(n + 1) : /\ FrameFine(k.frames[i], j.root)
                                /\ Len(k.frames[i].dir) = Len(j.root) + i - 1
                                /\ k.frames[i].unread => i = n + 1
          BY <1>4, <1>5, <2>1, <2>2, <2>3
    <2> QED  BY <1>1, <1>4, <2>4 DEF GlobShape, GoesOn
  <1>8. GlobSees(k, fs)
    <2>1. ASSUME ~Enough(k), NEW p \in k.steady, Misses(k, p)
          PROVE  \E i \in 1..(n + 1) : Covers(k.frames[i], p)
      <3>1. p \in j.steady /\ Misses(j, p)  BY <2>1 DEF Misses, GoesOn
      <3>2. ~Enough(j)  BY <2>1 DEF Enough, GoesOn
      <3>3. PICK i \in 1..n : Covers(j.frames[i], p)
            BY <1>1, <3>1, <3>2 DEF GlobSees, n
      <3>4. CASE i = n
        <4>1. Covers(f, p) \/ Covers(g, p)  BY <1>3, <2>1, <3>1, <3>3, <3>4
        <4>2. n \in 1..(n + 1) /\ n + 1 \in 1..(n + 1)  BY <1>3
        <4> QED  BY <1>4, <4>1, <4>2
      <3>5. CASE i # n
        <4>1. i \in 1..(n - 1) /\ i \in 1..(n + 1)  BY <1>3, <3>5
        <4> QED  BY <1>4, <3>3, <4>1
      <3> QED  BY <3>4, <3>5
    <2>2. k.steady \subseteq InSight(fs, k.root)  BY <1>1 DEF GlobSees, GoesOn
    <2> QED  BY <1>4, <2>1, <2>2 DEF GlobSees
  <1>9. GlobFew(k)
    <2> SUFFICES ASSUME Enough(k) PROVE GlobFew(k)  BY DEF GlobFew
    <2>2. Enough(j)  BY DEF Enough, GoesOn
    <2>3. Open(j) = n  BY DEF Open, n
    <2>4. k.frames # <<>> /\ Last(k.frames) = g
      <3>1. k.frames # <<>>  BY <1>3, <1>4
      <3> QED  BY <1>4, <3>1 DEF Last
    <2>5. Open(k) = n  BY <1>3, <1>4, <2>4 DEF Open
    <2> QED  BY <1>1, <2>2, <2>3, <2>5 DEF GlobFew, GoesOn
  <1> QED  BY <1>7, <1>8, <1>9 DEF GlobFine

(* The top frame is left: it has nothing more to show, or there is enough. *)
LEMMA PopFine ==
    ASSUME NEW j, NEW fs, GlobFine(j, fs), j.frames # <<>>,
           NEW k, GoesOn(j, k), k.frames = Front(j.frames),
           Enough(k) \/ \A p \in j.steady : Misses(k, p) => ~Covers(Last(j.frames), p),
           \/ k.out = j.out
           \/ /\ ~Last(j.frames).unread
              /\ \E p \in Paths : /\ k.out = j.out \cup {p}
                                  /\ Len(p) = Len(Last(j.frames).dir) + 1
    PROVE  GlobFine(k, fs)
  <1> DEFINE n == Len(j.frames)
             m == n - 1
  <1>1. j \in GlobJob /\ k \in GlobJob /\ GlobShape(j) /\ GlobSees(j, fs) /\ GlobFew(j)
        BY DEF GlobFine, GlobShape, GoesOn
  <1>2. j.frames \in Seq(Frame)  BY <1>1, GlobTypes
  <1>3. /\ n \in Nat \ {0} /\ Last(j.frames) = j.frames[n] /\ n \in 1..n
        BY <1>2, FrontFrames
  <1>4. Len(k.frames) = m /\ \A i \in 1..m : k.frames[i] = j.frames[i]
        BY <1>2, FrontFrames
  <1>5. m \in Nat /\ \A i \in 1..m : i \in 1..n /\ i # n  BY <1>3
  <1>6. \A i \in 1..n : /\ FrameFine(j.frames[i], j.root)
                        /\ Len(j.frames[i].dir) = Len(j.root) + i - 1
                        /\ j.frames[i].unread => i = n
        BY <1>1 DEF GlobShape
  <1>v. n \in Nat /\ m = n - 1  BY <1>3
  <1>7. GlobShape(k)
    <2> HIDE DEF m, n
    <2>1. \A i \in 1..m : /\ FrameFine(k.frames[i], j.root)
                          /\ Len(k.frames[i].dir) = Len(j.root) + i - 1
                          /\ k.frames[i].unread => i = m
          BY <1>4, <1>5, <1>6
    <2> QED  BY <1>1, <1>4, <2>1 DEF GlobShape, GoesOn
  <1>8. GlobSees(k, fs)
    <2>1. ASSUME ~Enough(k), NEW p \in k.steady, Misses(k, p)
          PROVE  \E i \in 1..m : Covers(k.frames[i], p)
      <3>1. p \in j.steady /\ Misses(j, p)  BY <2>1 DEF Misses, GoesOn
      <3>2. ~Enough(j)  BY <1>1, <2>1, EnoughStays
      <3>3. PICK i \in 1..n : Covers(j.frames[i], p)
            BY <1>1, <3>1, <3>2 DEF GlobSees
      <3>4. i # n  BY <1>3, <2>1, <3>1, <3>3
      <3>5. i \in 1..m  BY <1>3, <3>4
      <3> HIDE DEF m, n
      <3> QED  BY <1>4, <3>3, <3>5
    <2>2. k.steady \subseteq InSight(fs, k.root)  BY <1>1 DEF GlobSees, GoesOn
    <2> HIDE DEF m, n
    <2> QED  BY <1>4, <2>1, <2>2 DEF GlobSees
  <1>9. GlobFew(k)
    <2> SUFFICES ASSUME Enough(k) PROVE GlobFew(k)  BY DEF GlobFew
    <2>1. Open(k) = m
      <3> HIDE DEF m, n
      <3>1. k.frames # <<>> => m \in 1..m /\ Last(k.frames) = k.frames[m]
        <4> SUFFICES ASSUME k.frames # <<>> PROVE m \in 1..m /\ Last(k.frames) = k.frames[m]
            OBVIOUS
        <4>1. k.frames \in Seq(Frame)  BY <1>1, GlobTypes
        <4> QED  BY <1>4, <1>5, <4>1, FrontFrames
      <3>2. \A i \in 1..m : ~k.frames[i].unread  BY <1>4, <1>5, <1>6
      <3> QED  BY <1>4, <3>1, <3>2 DEF Open
    <2>2. Open(j) \in {m, n} /\ (~Last(j.frames).unread => Open(j) = n)  BY DEF Open
    <2>3. /\ Cardinality(j.out) \in Nat /\ Cardinality(k.out) \in Nat /\ j.limit \in Nat
          /\ Len(j.root) \in Nat /\ IsFiniteSet(j.out) /\ j.out \subseteq Paths
          BY <1>1, GlobTypes
    <2>4. \A p \in Paths : Len(p) \in Nat
      <3>1. \A p \in Paths : p \in Seq(Names)  BY WorkspaceAssumption
      <3> QED  BY <3>1
    <2>5. k.limit = j.limit /\ k.root = j.root /\ j.out \subseteq k.out  BY DEF GoesOn
    <2>6. Cardinality(k.out) >= j.limit  BY <2>5 DEF Enough
    <2>7. CASE k.out = j.out
      <3>1. Enough(j)  BY <2>5, <2>7 DEF Enough
      <3>2. PICK p \in j.out :
                Cardinality(j.out) + Open(j) < j.limit + Len(p) - Len(j.root)
            BY <1>1, <3>1 DEF GlobFew
      <3>3. Len(p) \in Nat  BY <2>3, <2>4
      <3>4. m <= Open(j) /\ Open(j) \in Int /\ m \in Int  BY <1>3, <2>2
      <3> HIDE DEF m, n
      <3>5. Cardinality(j.out) + m < j.limit + Len(p) - Len(j.root)
            BY <2>3, <3>2, <3>3, <3>4
      <3> QED  BY <2>1, <2>5, <2>7, <3>5 DEF GlobFew
    <2>8. CASE k.out # j.out
      <3>1. PICK q \in Paths : k.out = j.out \cup {q} /\ Len(q) = Len(Last(j.frames).dir) + 1
            BY <2>8
      <3>2. Open(j) = n  BY <2>2, <2>8
      <3>3. Cardinality(k.out) = Cardinality(j.out) + 1
        <4>1. q \notin j.out  BY <2>8, <3>1
        <4>2. IsFiniteSet(j.out)  BY <2>3
        <4>3. Cardinality(j.out \cup {q}) = Cardinality(j.out) + 1
              BY <4>1, <4>2, FS_AddElement
        <4> QED  BY <3>1, <4>3
      <3>4. CASE Enough(j)
        <4>1. PICK p \in j.out :
                  Cardinality(j.out) + Open(j) < j.limit + Len(p) - Len(j.root)
              BY <1>1, <3>4 DEF GlobFew
        <4> HIDE DEF m, n
        <4>2. Cardinality(k.out) + m = Cardinality(j.out) + n
          <5>1. Cardinality(j.out) \in Nat  BY <2>3
          <5> QED  BY <1>v, <3>3, <5>1
        <4> QED  BY <2>1, <2>5, <3>2, <4>1, <4>2 DEF GlobFew
      <3>5. CASE ~Enough(j)
        <4>1. Cardinality(j.out) < j.limit  BY <2>3, <3>5 DEF Enough
        <4> HIDE DEF m, n
        <4>2. Len(q) = Len(j.root) + n
          <5>1. Len(Last(j.frames).dir) = Len(j.root) + n - 1  BY <1>3, <1>6
          <5>2. Len(j.root) \in Nat  BY <2>3
          <5> QED  BY <1>v, <3>1, <5>1, <5>2
        <4>3. Cardinality(k.out) + m < j.limit + Len(q) - Len(j.root)
          <5>1. /\ Cardinality(j.out) \in Nat /\ j.limit \in Nat /\ Len(j.root) \in Nat
                BY <2>3
          <5> QED  BY <1>v, <3>3, <4>1, <4>2, <5>1
        <4> QED  BY <2>1, <2>5, <3>1, <4>3 DEF GlobFew
      <3> QED  BY <3>4, <3>5
    <2> QED  BY <2>7, <2>8
  <1> QED  BY <1>7, <1>8, <1>9 DEF GlobFine

(* The steps of a glob. *)
GlobGoes(c) == \E k : (k = NoJob \/ GlobFine(k, files)) /\ Looks(c, k)

(* A path is below each directory on the way to it. *)
LEMMA EntryBelow ==
    ASSUME NEW f \in Frame, NEW r \in Paths, FrameFine(f, r), NEW k \in 1..Len(f.left)
    PROVE  /\ f.left[k] \in Names
           /\ Append(f.dir, f.left[k]) \in Paths
           /\ Append(f.dir, f.left[k]) \in Below(r)
           /\ Len(Append(f.dir, f.left[k])) = Len(f.dir) + 1
           /\ Last(Append(f.dir, f.left[k])) = f.left[k]
  <1> DEFINE e == f.left[k]
             p == Append(f.dir, e)
  <1>1. f.dir \in Paths /\ f.left \in Seq(Names)  BY DEF Frame
  <1>2. e \in Names /\ f.dir \in Seq(Names) /\ r \in Seq(Names)
        BY <1>1, WorkspaceAssumption
  <1>3. p \in Paths  BY DEF FrameFine
  <1> HIDE DEF e
  <1>4. /\ p \in Seq(Names) /\ Len(p) = Len(f.dir) + 1 /\ p[Len(f.dir) + 1] = e
        /\ Len(f.dir) \in Nat /\ \A i \in 1..Len(f.dir) : p[i] = f.dir[i]
        BY <1>2
  <1> HIDE DEF p
  <1>5. Last(p) = e
    <2>1. p # <<>>  BY <1>4
    <2> QED  BY <1>4, <2>1 DEF Last
  <1>6. p \in Below(r)
    <2>1. f.dir = r \/ f.dir \in Below(r)  BY DEF FrameFine
    <2>2. /\ Len(r) <= Len(f.dir) /\ \A i \in 1..Len(r) : r[i] = f.dir[i]
      <3>1. CASE f.dir = r  BY <1>4, <3>1
      <3>2. CASE f.dir \in Below(r)
        <4>1. IsStrictPrefix(r, f.dir)  BY <3>2 DEF Below
        <4>2. Len(r) < Len(f.dir) /\ \A i \in 1..Len(r) : r[i] = f.dir[i]
              BY <1>2, <4>1, PrefixAt
        <4>3. Len(r) \in Nat  BY <1>2
        <4> QED  BY <1>4, <4>2, <4>3
      <3> QED  BY <2>1, <3>1, <3>2
    <2>3. Len(r) \in Nat  BY <1>2
    <2>4. Len(r) < Len(p)  BY <1>4, <2>2, <2>3
    <2>5. \A i \in 1..Len(r) : i \in 1..Len(f.dir)  BY <1>4, <2>2, <2>3
    <2>6. \A i \in 1..Len(r) : r[i] = p[i]  BY <1>4, <2>2, <2>5
    <2>7. IsStrictPrefix(r, p)  BY <1>2, <1>4, <2>4, <2>6, PrefixAt
    <2> QED  BY <1>3, <2>7 DEF Below
  <1> QED  BY <1>2, <1>3, <1>4, <1>5, <1>6 DEF e, p

LEMMA ReachesAbove ==
    ASSUME NEW p \in Paths, NEW x \in Paths, Reaches(p, x)
    PROVE  p \in Up(x)
  <1>1. x \in Seq(Names)  BY WorkspaceAssumption
  <1>2. IsPrefix(x, x)  BY <1>1, PrefixAt
  <1> QED  BY <1>2 DEF Reaches, Up, Below, IsStrictPrefix

LEMMA GlobStarts ==
    ASSUME NEW c \in Clients, NEW r \in Roots, NEW m \in SUBSET Names,
           NEW w \in Words \cup {NoWord}, w # NoWord => m = Names, Globs(c, r, m, w)
    PROVE  GlobGoes(c)
  <1>1. PICK n \in Limits :
            Looks(c, [tool |-> "glob", root |-> r, match |-> m, word |-> w, limit |-> n,
                      frames |-> <<Unread(r)>>, out |-> {}, steady |-> InSight(files, r),
                      done |-> FALSE])
        BY DEF Globs
  <1> DEFINE k == [tool |-> "glob", root |-> r, match |-> m, word |-> w, limit |-> n,
                   frames |-> <<Unread(r)>>, out |-> {}, steady |-> InSight(files, r),
                   done |-> FALSE]
             f == Unread(r)
  <1>2. r \in Paths  BY WorkspaceAssumption
  <1>3. f \in Frame /\ f.dir = r /\ f.unread /\ f.left = <<>>  BY <1>2 DEF Frame, Unread
  <1>4. InSight(files, r) \subseteq Below(r) /\ Below(r) \subseteq Paths
        BY DEF InSight, Below
  <1>5. /\ k.root = r /\ k.match = m /\ k.word = w /\ k.limit = n /\ k.frames = <<f>>
        /\ k.out = {} /\ k.steady = InSight(files, r) /\ k.done = FALSE
        OBVIOUS
  <1>6. k \in GlobJob
    <2>1. <<f>> \in Seq(Frame)  BY <1>3
    <2>2. InSight(files, r) \in SUBSET Paths  BY <1>4
    <2> HIDE DEF f
    <2> QED  BY <1>2, <2>1, <2>2 DEF GlobJob, f
  <1>7. /\ Len(k.frames) = 1 /\ k.frames[1] = f /\ \A i \in 1..1 : i = 1
    <2> HIDE DEF f
    <2> QED  BY <1>5
  <1> HIDE DEF k, f
  <1>8. GlobShape(k)
    <2>1. FrameFine(f, r)  BY <1>3 DEF FrameFine
    <2>2. Len(r) \in Nat  BY <1>5, <1>6, GlobTypes
    <2>3. Len(f.dir) = Len(r) + 1 - 1  BY <1>3, <2>2
    <2> QED  BY <1>5, <1>6, <1>7, <2>1, <2>3 DEF GlobShape
  <1>9. GlobSees(k, files)
    <2>1. \A p \in k.steady : Covers(k.frames[1], p)
          BY <1>3, <1>4, <1>5, <1>7 DEF Covers
    <2>2. 1 \in 1..Len(k.frames)  BY <1>7
    <2> QED  BY <1>5, <2>1, <2>2 DEF GlobSees
  <1>10. GlobFew(k)
    <2>1. Cardinality(k.out) = 0 /\ n \in Nat \ {0}
          BY <1>5, FS_EmptySet, WorkspaceAssumption
    <2>2. ~Enough(k)  BY <1>5, <2>1 DEF Enough
    <2> QED  BY <2>2 DEF GlobFew
  <1>11. GlobFine(k, files)  BY <1>8, <1>9, <1>10 DEF GlobFine
  <1> QED  BY <1>1, <1>11 DEF GlobGoes, k

LEMMA ReadDirGoes ==
    ASSUME NEW c \in Clients, GlobFine(job[c], files), ReadDir(c)
    PROVE  GlobGoes(c)
  <1> DEFINE j == job[c]
             f == TopFrame(c)
  <1>1. /\ j.frames # <<>> /\ f = Last(j.frames) /\ f.unread /\ GlobShape(j)
        /\ j \in GlobJob /\ j.frames \in Seq(Frame) /\ f \in Frame /\ j.root \in Paths
    <2>1. GlobShape(j) /\ j \in GlobJob  BY DEF GlobFine, GlobShape
    <2>2. j.frames # <<>> /\ f = Last(j.frames) /\ f.unread
          BY DEF ReadDir, Walking, TopFrame
    <2> QED  BY <2>1, <2>2, GlobTypes
  <1>2. CASE Full(c, j.out)
    <2> DEFINE k == Frames(c, Front(j.frames))
    <2>1. Looks(c, k)  BY <1>2 DEF ReadDir
    <2>2. k = [j EXCEPT !.frames = Front(j.frames)]  BY DEF Frames
    <2>3. Front(j.frames) \in Seq(Frame)  BY <1>1, FrontFrames
    <2>4. GoesOn(j, k) /\ k.frames = Front(j.frames) /\ k.out = j.out
          BY <1>1, <2>2, <2>3 DEF GoesOn, GlobJob
    <2> HIDE DEF k
    <2>5. Enough(k)  BY <1>2, <2>4 DEF Enough, Full, GoesOn
    <2> HIDE DEF j
    <2>6. GlobFine(k, files)  BY <1>1, <2>4, <2>5, PopFine DEF j
    <2> QED  BY <2>1, <2>6 DEF GlobGoes
  <1>3. CASE ~Full(c, j.out) /\ (j.done \/ f.dir \notin dirs)
    <2>1. Looks(c, NoJob)  BY <1>3 DEF ReadDir
    <2> QED  BY <2>1 DEF GlobGoes
  <1>4. CASE ~Full(c, j.out) /\ ~(j.done \/ f.dir \notin dirs)
    <2> DEFINE g == [dir |-> f.dir, unread |-> FALSE, left |-> Entries(f.dir)]
               k == Frames(c, Append(Front(j.frames), g))
    <2>1. Looks(c, k)  BY <1>4 DEF ReadDir
    <2>2. k = [j EXCEPT !.frames = Append(Front(j.frames), g)]  BY DEF Frames
    <2>3. f.dir \in Paths  BY <1>1 DEF Frame
    <2>4. /\ EntryNames(f.dir) \subseteq Names
          /\ Entries(f.dir) \in Seq(EntryNames(f.dir))
          /\ \A e \in EntryNames(f.dir) : \E i \in 1..Len(Entries(f.dir)) :
                Entries(f.dir)[i] = e
          BY <2>3, EntriesList DEF Lists
    <2>5. g \in Frame /\ ~g.unread /\ g.dir = f.dir /\ g.left = Entries(f.dir)
      <3>1. Entries(f.dir) \in Seq(Names)  BY <2>4
      <3> QED  BY <2>3, <3>1 DEF Frame
    <2> HIDE DEF g, f
    <2>6. Append(Front(j.frames), g) \in Seq(Frame)  BY <1>1, <2>5, TopFrames
    <2>7. GoesOn(j, k) /\ k.frames = Append(Front(j.frames), g) /\ k.out = j.out
          BY <1>1, <2>2, <2>6 DEF GoesOn, GlobJob
    <2>8. ~Enough(k)
      <3>1. Cardinality(j.out) \in Nat /\ j.limit \in Nat  BY <1>1, GlobTypes
      <3> QED  BY <1>4, <2>7, <3>1 DEF Enough, Full, GoesOn
    <2> HIDE DEF k
    <2>9. FrameFine(f, j.root)
      <3>1. Len(j.frames) \in 1..Len(j.frames) /\ f = j.frames[Len(j.frames)]
            BY <1>1, FrontFrames
      <3> QED  BY <1>1, <3>1 DEF GlobShape
    <2>10. FrameFine(g, j.root)
      <3>1. ASSUME NEW i \in 1..Len(g.left) PROVE Append(g.dir, g.left[i]) \in Paths
        <4>1. g.left[i] \in EntryNames(f.dir)  BY <2>4, <2>5
        <4>2. PICK q \in Below(f.dir) : g.left[i] = q[Len(f.dir) + 1]
              BY <4>1 DEF EntryNames
        <4> QED  BY <2>3, <2>5, <4>2, NextName
      <3> QED  BY <2>5, <2>9, <3>1 DEF FrameFine
    <2>11. ASSUME NEW p \in j.steady, Covers(f, p) PROVE Covers(g, p)
      <3>1. p \in Below(f.dir) /\ IsFile(p)
            BY <1>1, <2>11 DEF Covers, GlobFine, GlobSees, InSight, IsFile
      <3> DEFINE e == p[Len(f.dir) + 1]
      <3>2. e \in EntryNames(f.dir)  BY <3>1 DEF EntryNames
      <3>3. PICK i \in 1..Len(g.left) : g.left[i] = e  BY <2>4, <2>5, <3>2
      <3>4. p \in Paths /\ IsPrefix(Append(f.dir, e), p)  BY <2>3, <3>1, NextName
      <3>5. Reaches(Append(f.dir, e), p)  BY <3>4 DEF Reaches, Below, IsStrictPrefix
      <3> QED  BY <2>5, <3>3, <3>5 DEF Covers
    <2>12. GlobFine(j, files)  OBVIOUS
    <2> HIDE DEF j
    <2>13. GlobFine(k, files)
           BY <1>1, <2>5, <2>7, <2>8, <2>10, <2>11, <2>12, TopFine
    <2> QED  BY <2>1, <2>13 DEF GlobGoes
  <1> QED  BY <1>2, <1>3, <1>4

LEMMA WalkReturnsGoes ==
    ASSUME NEW c \in Clients, GlobFine(job[c], files), WalkReturns(c)
    PROVE  GlobGoes(c)
  <1> DEFINE j == job[c]
             k == Frames(c, Front(j.frames))
  <1>1. GlobShape(j) /\ j \in GlobJob /\ GlobFine(j, files)  BY DEF GlobFine, GlobShape
  <1>2. /\ j.frames # <<>> /\ ~Last(j.frames).unread /\ Last(j.frames).left = <<>>
        /\ Looks(c, k)
        BY DEF WalkReturns, Walking, TopFrame
  <1>3. Front(j.frames) \in Seq(Frame)
    <2>1. j.frames \in Seq(Frame)  BY <1>1, GlobTypes
    <2> QED  BY <1>2, <2>1, FrontFrames
  <1>4. GoesOn(j, k) /\ k.frames = Front(j.frames) /\ k.out = j.out
        BY <1>1, <1>3 DEF GoesOn, GlobJob, Frames
  <1>5. \A p : ~Covers(Last(j.frames), p)
    <2>1. Len(Last(j.frames).left) = 0  BY <1>2
    <2> QED  BY <1>2, <2>1 DEF Covers
  <1> HIDE DEF j, k
  <1>6. GlobFine(k, files)  BY <1>1, <1>2, <1>4, <1>5, PopFine
  <1> QED  BY <1>2, <1>6 DEF GlobGoes

LEMMA CancelledGoes ==
    ASSUME NEW c \in Clients, GlobFine(job[c], files), Does(c, "glob"), Cancelled(c)
    PROVE  GlobGoes(c)
  <1> DEFINE j == job[c]
             k == [j EXCEPT !.done = TRUE, !.steady = {}]
  <1>1. GlobShape(j) /\ j \in GlobJob /\ GlobFew(j)  BY DEF GlobFine, GlobShape
  <1>2. Looks(c, k)  BY DEF Cancelled, Does
  <1>3. /\ k \in GlobJob /\ k.root = j.root /\ k.match = j.match /\ k.word = j.word
        /\ k.limit = j.limit /\ k.frames = j.frames /\ k.out = j.out /\ k.steady = {}
        BY <1>1 DEF GlobJob
  <1> HIDE DEF k
  <1>4. GlobShape(k)  BY <1>1, <1>3 DEF GlobShape
  <1>5. GlobSees(k, files)  BY <1>3 DEF GlobSees
  <1>6. GlobFew(k)  BY <1>1, <1>3 DEF GlobFew, Enough, Open
  <1> QED  BY <1>2, <1>4, <1>5, <1>6 DEF GlobGoes, GlobFine

(* The frame of an entry that has been looked at. *)
LEMMA RestFine ==
    ASSUME NEW f \in Frame, f.left # <<>>, ~f.unread, NEW r, FrameFine(f, r)
    PROVE  LET g == [f EXCEPT !.left = Tail(@)] IN
           /\ g \in Frame /\ ~g.unread /\ g.dir = f.dir /\ FrameFine(g, r)
           /\ 1 \in 1..Len(f.left) /\ Head(f.left) = f.left[1]
           /\ \A x : Covers(f, x) =>
                  Covers(g, x) \/ Reaches(Append(f.dir, Head(f.left)), x)
  <1> DEFINE s == f.left
             g == [f EXCEPT !.left = Tail(s)]
  <1>1. s \in Seq(Names) /\ f.dir \in Paths  BY DEF Frame
  <1>2. s # <<>>  OBVIOUS
  <1>3. g \in [dir : Paths, unread : BOOLEAN, left : Seq(Names)] /\ g.left = Tail(s)
        /\ ~g.unread /\ g.dir = f.dir
    <2>1. Tail(s) \in Seq(Names)  BY <1>1, <1>2
    <2> HIDE DEF s
    <2> QED  BY <2>1 DEF Frame
  <1>4. f.left = s  OBVIOUS
  <1> HIDE DEF s
  <1>5. /\ Len(s) \in Nat \ {0} /\ Head(s) = s[1] /\ Len(Tail(s)) = Len(s) - 1
        /\ \A i \in 1..(Len(s) - 1) : Tail(s)[i] = s[i + 1]
        BY <1>1, <1>2
  <1> HIDE DEF g
  <1>6. FrameFine(g, r)
    <2>1. ASSUME NEW i \in 1..Len(g.left) PROVE Append(g.dir, g.left[i]) \in Paths
      <3>1. i \in 1..(Len(s) - 1) /\ i + 1 \in 1..Len(s)  BY <1>3, <1>5
      <3>2. g.left[i] = s[i + 1]  BY <1>3, <1>5, <3>1
      <3> QED  BY <1>3, <1>4, <3>1, <3>2 DEF FrameFine
    <2> QED  BY <1>3, <2>1 DEF FrameFine
  <1>7. ASSUME NEW x, Covers(f, x)
        PROVE  Covers(g, x) \/ Reaches(Append(f.dir, Head(s)), x)
    <2>1. PICK i \in 1..Len(s) : Reaches(Append(f.dir, s[i]), x)
          BY <1>4, <1>7 DEF Covers
    <2>2. CASE i = 1  BY <1>5, <2>1, <2>2
    <2>3. CASE i # 1
      <3>1. i - 1 \in 1..(Len(s) - 1) /\ (i - 1) + 1 = i  BY <1>5, <2>3
      <3>2. Tail(s)[i - 1] = s[i] /\ i - 1 \in 1..Len(Tail(s))  BY <1>5, <3>1
      <3> QED  BY <1>3, <2>1, <3>2 DEF Covers
    <2> QED  BY <2>2, <2>3
  <1>8. 1 \in 1..Len(s)  BY <1>5
  <1> QED  BY <1>3, <1>4, <1>5, <1>6, <1>7, <1>8 DEF Frame, g

LEMMA StatEntryGoes ==
    ASSUME NEW c \in Clients, Env(files, dirs), GlobFine(job[c], files), StatEntry(c)
    PROVE  GlobGoes(c)
  <1> DEFINE j     == job[c]
             f     == TopFrame(c)
             entry == Head(f.left)
             p     == Found(c, entry)
             g     == Rest(c)
             rest  == Append(Front(j.frames), g)
             out   == IF entry \in j.match THEN j.out \cup {p} ELSE j.out
  <1>1. /\ j.frames # <<>> /\ f = Last(j.frames) /\ ~f.unread /\ f.left # <<>>
        /\ GlobShape(j) /\ j \in GlobJob /\ j.frames \in Seq(Frame) /\ f \in Frame
        /\ j.root \in Paths /\ j.out \subseteq Paths
    <2>1. GlobShape(j) /\ j \in GlobJob  BY DEF GlobFine, GlobShape
    <2>2. j.frames # <<>> /\ f = Last(j.frames) /\ ~f.unread /\ f.left # <<>>
          BY DEF StatEntry, Walking, TopFrame
    <2> QED  BY <2>1, <2>2, GlobTypes
  <1>2. Looks(c, IF j.done \/ ~(IsFile(p) \/ IsDirectory(p)) THEN Frames(c, rest)
                 ELSE IF IsDirectory(p) THEN Frames(c, Append(rest, Unread(p)))
                 ELSE [Frames(c, IF Full(c, out) THEN Front(j.frames) ELSE rest)
                          EXCEPT !.out = out])
        BY DEF StatEntry
  <1>3. p = Append(f.dir, entry)  BY DEF Found
  <1>4. g = [f EXCEPT !.left = Tail(@)]  BY DEF Rest
  <1>5. GlobFine(j, files) /\ GlobSees(j, files)  BY DEF GlobFine
  <1>6. \A fr : Frames(c, fr) = [j EXCEPT !.frames = fr]  BY DEF Frames
  <1>7. \A o : Full(c, o) <=> Cardinality(o) >= j.limit  BY DEF Full
  <1> HIDE DEF f, g, p, j
  <1>8. FrameFine(f, j.root)
    <2>1. Len(j.frames) \in 1..Len(j.frames) /\ f = j.frames[Len(j.frames)]
          BY <1>1, FrontFrames
    <2> QED  BY <1>1, <2>1 DEF GlobShape
  <1>9. /\ g \in Frame /\ ~g.unread /\ g.dir = f.dir /\ FrameFine(g, j.root)
        /\ 1 \in 1..Len(f.left) /\ entry = f.left[1]
        /\ \A x : Covers(f, x) => Covers(g, x) \/ Reaches(p, x)
        BY <1>1, <1>3, <1>4, <1>8, RestFine
  <1> HIDE DEF entry
  <1>10. /\ p \in Paths /\ p \in Below(j.root) /\ Len(p) = Len(f.dir) + 1
         /\ Last(p) = entry
         BY <1>1, <1>3, <1>8, <1>9, EntryBelow
  <1>11. rest \in Seq(Frame)  BY <1>1, <1>9, TopFrames
  <1>12. ASSUME NEW x \in j.steady, Reaches(p, x)
         PROVE  ~j.done /\ (IsFile(p) \/ p \in dirs) /\ (IsFile(p) => x = p)
    <2>1. ~j.done  BY <1>1 DEF GlobShape
    <2>2. /\ x \in InSight(files, j.root) /\ x \in Paths /\ files[x] # None
          /\ \A q \in Below(j.root) : IsStrictPrefix(q, x) => files[q] = None
          BY <1>5 DEF GlobSees, InSight, Below
    <2>3. p \in Up(x)  BY <1>10, <1>12, <2>2, ReachesAbove
    <2>4. IsFile(p) \/ p \in dirs
          BY <2>2, <2>3 DEF Env, There, IsFile
    <2>5. IsFile(p) => x = p
          BY <1>10, <1>12, <2>2 DEF Reaches, Below, IsFile
    <2> QED  BY <2>1, <2>4, <2>5
  <1> HIDE DEF rest
  <1>13. CASE j.done \/ ~(IsFile(p) \/ IsDirectory(p))
    <2> DEFINE k == [j EXCEPT !.frames = rest]
    <2>1. Looks(c, k)  BY <1>2, <1>6, <1>13
    <2>2. GoesOn(j, k) /\ k.frames = rest /\ k.out = j.out
          BY <1>1, <1>11 DEF GoesOn, GlobJob
    <2> HIDE DEF k
    <2>3. \A x \in j.steady : Covers(f, x) => Covers(g, x)
      <3>1. p \in dirs => IsFile(p) \/ IsDirectory(p)  BY DEF IsDirectory
      <3> QED  BY <1>9, <1>12, <1>13, <3>1
    <2>4. GlobFine(k, files)
          BY <1>1, <1>5, <1>9, <2>2, <2>3, TopFine DEF rest
    <2> QED  BY <2>1, <2>4 DEF GlobGoes
  <1>14. CASE ~(j.done \/ ~(IsFile(p) \/ IsDirectory(p))) /\ IsDirectory(p)
    <2> DEFINE u == Unread(p)
               k == [j EXCEPT !.frames = Append(rest, u)]
    <2>1. Looks(c, k)  BY <1>2, <1>6, <1>14
    <2>2. u \in Frame /\ u.unread /\ u.dir = p /\ u.left = <<>>
          BY <1>10 DEF Frame, Unread
    <2>3. FrameFine(u, j.root)
      <3>1. Len(u.left) = 0  BY <2>2
      <3> QED  BY <1>10, <2>2, <3>1 DEF FrameFine
    <2> HIDE DEF u
    <2>4. Append(rest, u) \in Seq(Frame)  BY <1>11, <2>2
    <2>5. GoesOn(j, k) /\ k.frames = Append(rest, u) /\ k.out = j.out
          BY <1>1, <2>4 DEF GoesOn, GlobJob
    <2> HIDE DEF k
    <2>6. \A x \in j.steady : Covers(f, x) => Covers(g, x) \/ Covers(u, x)
      <3> TAKE x \in j.steady
      <3>1. CASE Reaches(p, x)
        <4>1. IsFile(x)  BY <1>5 DEF GlobSees, InSight, IsFile
        <4>2. x # p  BY <1>14, <4>1 DEF IsDirectory
        <4> QED  BY <2>2, <3>1, <4>2 DEF Covers, Reaches
      <3> QED  BY <1>9, <3>1
    <2>7. /\ Len(u.dir) = Len(g.dir) + 1
          /\ k.frames = Append(Append(Front(j.frames), g), u)
          BY <1>9, <1>10, <2>2, <2>5 DEF rest
    <2>8. GlobFine(k, files)
          BY <1>1, <1>5, <1>9, <2>2, <2>3, <2>5, <2>6, <2>7, PushFine
    <2> QED  BY <2>1, <2>8 DEF GlobGoes
  <1>15. CASE ~(j.done \/ ~(IsFile(p) \/ IsDirectory(p))) /\ ~IsDirectory(p)
    <2> DEFINE fr == IF Full(c, out) THEN Front(j.frames) ELSE rest
               k  == [[j EXCEPT !.frames = fr] EXCEPT !.out = out]
    <2>1. Looks(c, k)  BY <1>2, <1>6, <1>15
    <2>2. fr \in Seq(Frame)  BY <1>1, <1>11, FrontFrames
    <2>3. out \subseteq Paths /\ j.out \subseteq out  BY <1>1, <1>10
    <2>4. entry \in j.match => p \in out  OBVIOUS
    <2>5. out = j.out \/ out = j.out \cup {p}  OBVIOUS
    <2> HIDE DEF fr, out
    <2>6. GoesOn(j, k) /\ k.frames = fr /\ k.out = out
          BY <1>1, <2>2, <2>3 DEF GoesOn, GlobJob
    <2> HIDE DEF k
    <2>7. Full(c, out) <=> Enough(k)  BY <1>7, <2>6 DEF Enough, GoesOn
    <2>8. CASE Full(c, out)
      <3>1. k.frames = Front(j.frames)  BY <2>6, <2>8 DEF fr
      <3>2. \/ k.out = j.out
            \/ /\ ~Last(j.frames).unread
               /\ \E x \in Paths : /\ k.out = j.out \cup {x}
                                   /\ Len(x) = Len(Last(j.frames).dir) + 1
            BY <1>1, <1>10, <2>5, <2>6
      <3>3. GlobFine(k, files)  BY <1>1, <1>5, <2>6, <2>7, <2>8, <3>1, <3>2, PopFine
      <3> QED  BY <2>1, <3>3 DEF GlobGoes
    <2>9. CASE ~Full(c, out)
      <3>1. k.frames = Append(Front(j.frames), g)  BY <2>6, <2>9 DEF fr, rest
      <3>2. \A x \in j.steady : Misses(k, x) /\ Covers(f, x) => Covers(g, x)
        <4> TAKE x \in j.steady
        <4>1. CASE Reaches(p, x)
          <5>1. x = p  BY <1>12, <1>15, <4>1
          <5>2. ~Misses(k, x)  BY <1>10, <2>4, <2>6, <5>1 DEF Misses, GoesOn
          <5> QED  BY <5>2
        <4> QED  BY <1>9, <4>1
      <3>3. GlobFine(k, files)
            BY <1>1, <1>5, <1>9, <2>6, <2>7, <2>9, <3>1, <3>2, TopFine
      <3> QED  BY <2>1, <3>3 DEF GlobGoes
    <2> QED  BY <2>8, <2>9
  <1> QED  BY <1>13, <1>14, <1>15

-----------------------------------------------------------------------------
(* The elements of a list that loses its first, or gains others in front. *)

LEMMA ElementsIn ==
    ASSUME NEW T, NEW s \in Seq(T)
    PROVE  ToSet(s) \subseteq T /\ \A x : x \in ToSet(s) <=> \E i \in 1..Len(s) : s[i] = x
  <1>1. DOMAIN s = 1..Len(s) /\ \A i \in 1..Len(s) : s[i] \in T  OBVIOUS
  <1> QED  BY <1>1 DEF ToSet

LEMMA ElementsOfTail ==
    ASSUME NEW T, NEW s \in Seq(T), s # <<>>
    PROVE  /\ Tail(s) \in Seq(T) /\ Head(s) \in T
           /\ Len(s) \in Nat \ {0} /\ Head(s) = s[1]
           /\ Len(Tail(s)) = Len(s) - 1 /\ \A i \in 1..(Len(s) - 1) : Tail(s)[i] = s[i + 1]
           /\ ToSet(s) = {Head(s)} \cup ToSet(Tail(s))
  <1> DEFINE t == Tail(s)
  <1>1. /\ t \in Seq(T) /\ Head(s) \in T /\ Len(s) \in Nat \ {0} /\ Head(s) = s[1]
        /\ Len(t) = Len(s) - 1 /\ \A i \in 1..(Len(s) - 1) : t[i] = s[i + 1]
        OBVIOUS
  <1>2. \A r \in Seq(T) : \A x : x \in ToSet(r) <=> \E i \in 1..Len(r) : r[i] = x
        BY ElementsIn
  <1> HIDE DEF t
  <1>3. ASSUME NEW x \in ToSet(s) PROVE x = Head(s) \/ x \in ToSet(t)
    <2>1. PICK i \in 1..Len(s) : s[i] = x  BY <1>2, <1>3
    <2>2. CASE i = 1  BY <1>1, <2>1, <2>2
    <2>3. CASE i # 1
      <3>1. i - 1 \in 1..(Len(s) - 1) /\ (i - 1) + 1 = i  BY <1>1, <2>3
      <3>2. t[i - 1] = x /\ i - 1 \in 1..Len(t)  BY <1>1, <2>1, <3>1
      <3> QED  BY <1>1, <1>2, <3>2
    <2> QED  BY <2>2, <2>3
  <1>4. ASSUME NEW x \in ToSet(t) PROVE x \in ToSet(s)
    <2>1. PICK i \in 1..Len(t) : t[i] = x  BY <1>1, <1>2, <1>4
    <2>2. i + 1 \in 1..Len(s) /\ s[i + 1] = x  BY <1>1, <2>1
    <2> QED  BY <1>2, <2>2
  <1>5. Head(s) \in ToSet(s)
    <2>1. 1 \in 1..Len(s)  BY <1>1
    <2> QED  BY <1>1, <1>2, <2>1
  <1> QED  BY <1>1, <1>3, <1>4, <1>5 DEF t

LEMMA ElementsOfBoth ==
    ASSUME NEW T, NEW s \in Seq(T), NEW t \in Seq(T)
    PROVE  s \o t \in Seq(T) /\ ToSet(s \o t) = ToSet(s) \cup ToSet(t)
  <1> DEFINE u == s \o t
  <1>1. /\ u \in Seq(T) /\ Len(s) \in Nat /\ Len(t) \in Nat /\ Len(u) = Len(s) + Len(t)
        /\ \A i \in 1..Len(u) : u[i] = IF i <= Len(s) THEN s[i] ELSE t[i - Len(s)]
        OBVIOUS
  <1>2. \A r \in Seq(T) : \A x : x \in ToSet(r) <=> \E i \in 1..Len(r) : r[i] = x
        BY ElementsIn
  <1> HIDE DEF u
  <1>3. ASSUME NEW x \in ToSet(u) PROVE x \in ToSet(s) \/ x \in ToSet(t)
    <2>1. PICK i \in 1..Len(u) : u[i] = x  BY <1>1, <1>2, <1>3
    <2>2. CASE i <= Len(s)
      <3>1. i \in 1..Len(s) /\ s[i] = x  BY <1>1, <2>1, <2>2
      <3> QED  BY <1>2, <3>1
    <2>3. CASE ~(i <= Len(s))
      <3>1. i - Len(s) \in 1..Len(t) /\ t[i - Len(s)] = x  BY <1>1, <2>1, <2>3
      <3> QED  BY <1>2, <3>1
    <2> QED  BY <2>2, <2>3
  <1>4. ASSUME NEW x \in ToSet(s) PROVE x \in ToSet(u)
    <2>1. PICK i \in 1..Len(s) : s[i] = x  BY <1>2, <1>4
    <2>2. i \in 1..Len(u) /\ u[i] = x  BY <1>1, <2>1
    <2> QED  BY <1>1, <1>2, <2>2
  <1>5. ASSUME NEW x \in ToSet(t) PROVE x \in ToSet(u)
    <2>1. PICK i \in 1..Len(t) : t[i] = x  BY <1>2, <1>5
    <2>2. Len(s) + i \in 1..Len(u) /\ ~(Len(s) + i <= Len(s)) /\ (Len(s) + i) - Len(s) = i
          BY <1>1, <2>1
    <2>3. u[Len(s) + i] = x  BY <1>1, <2>1, <2>2
    <2> QED  BY <1>1, <1>2, <2>2, <2>3
  <1> QED  BY <1>1, <1>3, <1>4, <1>5 DEF u

-----------------------------------------------------------------------------
(* A grep, once it reads.  A steady file's lines are found, or the file is left. *)

LinesIn(fs, p, w) == {<<p, i>> : i \in {n \in DOMAIN fs[p] : fs[p][n] = w}}

GrepFine(j, fs) ==
    /\ j \in GrepJob
    /\ \A a, b \in 1..Len(j.left) : a # b => j.left[a] # j.left[b]
    /\ Cardinality(j.matches) <= MaxGrepMatches
    /\ \A l \in j.matches : l[1] \notin ToSet(j.left)
    /\ \/ j.cut \/ Cardinality(j.matches) = MaxGrepMatches
       \/ \A p \in j.steady : LinesIn(fs, p, j.word) \subseteq j.matches
                              \/ p \in ToSet(j.left)
    /\ j.steady \subseteq InSight(fs, j.root)
    /\ j.done => j.steady = {}

(* A discovery.  A steady file it wants is found, or an item still to do seeks it;
   and while nothing is removed, what is known to exist does. *)

Seeks(i, p) ==
    \/ i.kind = "file" /\ p = i.path
    \/ /\ i.kind = "skills" /\ Len(p) = Len(i.path) + 2
       /\ IsPrefix(i.path, p) /\ Last(p) = SkillName
    \/ /\ i.kind = "roles" /\ Len(p) = Len(i.path) + 1
       /\ IsPrefix(i.path, p) /\ Last(p) \in RoleNames

Items == [kind : {"file", "skills", "roles"}, path : Paths, known : BOOLEAN]

DiscoverFine(j, fs, ds) ==
    /\ j \in DiscoverJob
    /\ j.done => j.steady = {}
    /\ \A p \in j.steady : fs[p] # None
    /\ j.failed = "no" => \A p \in j.steady :
          Wanted(p) => p \in j.found \/ \E i \in ToSet(j.todo) : Seeks(i, p)
    /\ j.failed = "gone" => ~j.calm
    /\ j.calm => \A i \in ToSet(j.todo) : i.known => There(i.path, fs, ds)

-----------------------------------------------------------------------------
(* Every job, and what the steps of the others do to it. *)

Looking(j, fs, ds) ==
    \/ j = NoJob \/ j \in ReadJob
    \/ GlobFine(j, fs) \/ GrepFine(j, fs) \/ DiscoverFine(j, fs, ds)

JobFine(j, fs, ds) == j \in EditJob \/ Looking(j, fs, ds)

LInv == /\ Env(files, dirs)
        /\ job = [c \in Clients |-> job[c]]
        /\ \A c \in Clients : JobFine(job[c], files, dirs)

FineLooks(c) == \E k : Looking(k, files, dirs) /\ Looks(c, k)

LEMMA ToolOf ==
    ASSUME NEW j, NEW fs, NEW ds, JobFine(j, fs, ds)
    PROVE  /\ j.tool \in {"none", "edit", "read", "glob", "grep", "discover"}
           /\ j.tool = "none" => j = NoJob
           /\ j.tool = "edit" => j \in EditJob
           /\ j.tool = "read" => j \in ReadJob
           /\ j.tool = "glob" => GlobFine(j, fs)
           /\ j.tool = "grep" => GrepFine(j, fs)
           /\ j.tool = "discover" => DiscoverFine(j, fs, ds)
  <1>1. j = NoJob => j.tool = "none"  BY DEF NoJob
  <1>2. j \in EditJob => j.tool = "edit"  BY DEF EditJob
  <1>3. j \in ReadJob => j.tool = "read"  BY DEF ReadJob
  <1>4. GlobFine(j, fs) => j.tool = "glob"  BY DEF GlobFine, GlobShape, GlobJob
  <1>5. GrepFine(j, fs) => j.tool = "grep"  BY DEF GrepFine, GrepJob
  <1>6. DiscoverFine(j, fs, ds) => j.tool = "discover"  BY DEF DiscoverFine, DiscoverJob
  <1> QED  BY <1>1, <1>2, <1>3, <1>4, <1>5, <1>6 DEF JobFine, Looking

(* A ghost that loses files which are no longer steady stays fine. *)
LEMMA GlobLoses ==
    ASSUME NEW j, NEW fs, GlobFine(j, fs), NEW gs, NEW S,
           j.steady \cap S \subseteq InSight(gs, j.root)
    PROVE  GlobFine([j EXCEPT !.steady = @ \cap S], gs)
  <1> DEFINE k == [j EXCEPT !.steady = @ \cap S]
  <1>1. j \in GlobJob /\ GlobShape(j) /\ GlobSees(j, fs) /\ GlobFew(j)
        BY DEF GlobFine, GlobShape
  <1>2. /\ k \in GlobJob /\ k.root = j.root /\ k.match = j.match /\ k.word = j.word
        /\ k.limit = j.limit /\ k.frames = j.frames /\ k.out = j.out
        /\ k.done = j.done /\ k.steady = j.steady \cap S
        BY <1>1 DEF GlobJob
  <1> HIDE DEF k
  <1>3. GlobShape(k)  BY <1>1, <1>2 DEF GlobShape
  <1>4. GlobSees(k, gs)  BY <1>1, <1>2 DEF GlobSees, Enough, Misses
  <1>5. GlobFew(k)  BY <1>1, <1>2 DEF GlobFew, Enough, Open
  <1> QED  BY <1>3, <1>4, <1>5 DEF GlobFine, k

LEMMA GrepLoses ==
    ASSUME NEW j, NEW fs, GrepFine(j, fs), NEW gs, NEW S,
           j.steady \cap S \subseteq InSight(gs, j.root),
           \A p \in j.steady \cap S : gs[p] = fs[p]
    PROVE  GrepFine([j EXCEPT !.steady = @ \cap S], gs)
  <1> DEFINE k == [j EXCEPT !.steady = @ \cap S]
  <1>1. j \in GrepJob  BY DEF GrepFine
  <1>2. /\ k \in GrepJob /\ k.root = j.root /\ k.word = j.word /\ k.left = j.left
        /\ k.cut = j.cut /\ k.matches = j.matches /\ k.done = j.done
        /\ k.steady = j.steady \cap S
        BY <1>1 DEF GrepJob
  <1>3. \A p \in k.steady : LinesIn(gs, p, j.word) = LinesIn(fs, p, j.word)
        BY <1>2 DEF LinesIn
  <1> HIDE DEF k
  <1>4. GrepFine(k, gs)  BY <1>2, <1>3 DEF GrepFine
  <1> QED  BY <1>4 DEF k

LEMMA DiscoverLoses ==
    ASSUME NEW j, NEW fs, NEW ds, DiscoverFine(j, fs, ds), NEW gs, NEW es, NEW S,
           NEW b \in BOOLEAN, \A p \in j.steady \cap S : gs[p] = fs[p],
           b => \A p \in Paths : There(p, fs, ds) => There(p, gs, es)
    PROVE  DiscoverFine([j EXCEPT !.steady = @ \cap S, !.calm = @ /\ b], gs, es)
  <1> DEFINE k == [j EXCEPT !.steady = @ \cap S, !.calm = @ /\ b]
  <1>1. j \in DiscoverJob  BY DEF DiscoverFine
  <1>2. /\ k \in DiscoverJob /\ k.todo = j.todo /\ k.found = j.found
        /\ k.failed = j.failed /\ k.done = j.done /\ k.steady = j.steady \cap S
        /\ k.calm <=> (j.calm /\ b)
        BY <1>1 DEF DiscoverJob
  <1>3. \A i \in ToSet(j.todo) : i.path \in Paths
    <2>1. j.todo \in Seq(Items)  BY <1>1 DEF DiscoverJob, Items
    <2>2. ToSet(j.todo) \subseteq Items  BY <2>1, ElementsIn
    <2> QED  BY <2>2 DEF Items
  <1> HIDE DEF k
  <1>4. DiscoverFine(k, gs, es)  BY <1>2, <1>3 DEF DiscoverFine
  <1> QED  BY <1>4 DEF k

(* A step that keeps the environment closed keeps every job fine. *)
LEMMA StepFine ==
    ASSUME LInv, Env(files', dirs'), NEW c \in Clients,
           NEW k, JobFine(k, files, dirs), Becomes(c, k)
    PROVE  LInv'
  <1>1. ASSUME NEW j, JobFine(j, files, dirs) PROVE JobFine(Steady(j), files', dirs')
    <2>1. CASE j.tool = "glob"
      <3>1. Steady(j) = [j EXCEPT !.steady = @ \cap Kept(j)]  BY <2>1 DEF Steady
      <3>2. GlobFine(j, files)  BY <1>1, <2>1, ToolOf
      <3>3. j.steady \cap Kept(j) \subseteq InSight(files', j.root)  BY DEF Kept
      <3>4. GlobFine([j EXCEPT !.steady = @ \cap Kept(j)], files')
            BY <3>2, <3>3, GlobLoses
      <3> QED  BY <3>1, <3>4 DEF JobFine, Looking
    <2>2. CASE j.tool = "grep"
      <3>1. Steady(j) = [j EXCEPT !.steady = @ \cap Kept(j)]  BY <2>2 DEF Steady
      <3>2. GrepFine(j, files)  BY <1>1, <2>2, ToolOf
      <3>3. j.word # NoWord  BY <3>2, WorkspaceAssumption DEF GrepFine, GrepJob
      <3>4. j.steady \cap Kept(j) \subseteq InSight(files', j.root)  BY DEF Kept
      <3>5. \A p \in j.steady \cap Kept(j) : files'[p] = files[p]
            BY <3>3 DEF Kept, Unchanged
      <3>6. GrepFine([j EXCEPT !.steady = @ \cap Kept(j)], files')
            BY <3>2, <3>4, <3>5, GrepLoses
      <3> QED  BY <3>1, <3>6 DEF JobFine, Looking
    <2>3. CASE j.tool = "discover"
      <3>1. Steady(j) = [j EXCEPT !.steady = @ \cap Unchanged, !.calm = @ /\ Calm]
            BY <2>3 DEF Steady
      <3>2. DiscoverFine(j, files, dirs)  BY <1>1, <2>3, ToolOf
      <3>3. \A p \in j.steady \cap Unchanged : files'[p] = files[p]  BY DEF Unchanged
      <3>4. Calm \in BOOLEAN  BY DEF Calm
      <3>5. Calm => \A p \in Paths : There(p, files, dirs) => There(p, files', dirs')
            BY DEF Calm, There, IsFile
      <3>6. DiscoverFine([j EXCEPT !.steady = @ \cap Unchanged, !.calm = @ /\ Calm],
                         files', dirs')
            BY <3>2, <3>3, <3>4, <3>5, DiscoverLoses
      <3> QED  BY <3>1, <3>6 DEF JobFine, Looking
    <2>4. CASE j.tool \notin {"glob", "grep", "discover"}
      <3>1. Steady(j) = j  BY <2>4 DEF Steady
      <3>2. j = NoJob \/ j \in EditJob \/ j \in ReadJob  BY <1>1, <2>4, ToolOf
      <3> QED  BY <3>1, <3>2 DEF JobFine, Looking
    <2> QED  BY <2>1, <2>2, <2>3, <2>4
  <1>2. job' = [d \in Clients |-> Steady(IF d = c THEN k ELSE job[d])]  BY DEF Becomes
  <1>3. ASSUME NEW d \in Clients PROVE JobFine(job'[d], files', dirs')
    <2>1. job'[d] = Steady(IF d = c THEN k ELSE job[d])  BY <1>2
    <2>2. JobFine(IF d = c THEN k ELSE job[d], files, dirs)  BY DEF LInv
    <2> QED  BY <1>1, <2>1, <2>2
  <1>4. job' = [d \in Clients |-> job'[d]]  BY <1>2
  <1> QED  BY <1>3, <1>4 DEF LInv

LEMMA FineLooksInv ==
    ASSUME LInv, NEW c \in Clients, FineLooks(c)
    PROVE  LInv'
  <1>1. PICK k : JobFine(k, files, dirs) /\ Looks(c, k)  BY DEF FineLooks, JobFine
  <1>2. files' = files /\ dirs' = dirs /\ Becomes(c, k)  BY <1>1 DEF Looks
  <1>3. Env(files', dirs')  BY <1>2 DEF LInv
  <1> QED  BY <1>1, <1>2, <1>3, StepFine

-----------------------------------------------------------------------------
(* The steps of a grep. *)

LEMMA LinesOrder ==
    ASSUME NEW fs \in [Paths -> Texts \cup {None}], NEW p \in Paths, NEW w \in Words,
           fs[p] # None
    PROVE  LET L == LinesIn(fs, p, w)
               R == {e \in L \X L : e[1][2] < e[2][2]}
           IN  /\ IsFiniteSet(L) /\ L \subseteq Paths \X (1..MaxWords)
               /\ StrictOrder(R, L) /\ \A x, y \in L : <<x, y>> \in R <=> x[2] < y[2]
               /\ \A x \in L : x[1] = p
  <1> DEFINE L == LinesIn(fs, p, w)
             R == {e \in L \X L : e[1][2] < e[2][2]}
             D == {n \in DOMAIN fs[p] : fs[p][n] = w}
  <1>1. D \subseteq 1..MaxWords
    <2>1. fs[p] \in Texts  OBVIOUS
    <2>2. PICK n \in 0..MaxWords : fs[p] \in [1..n -> Words]  BY <2>1 DEF Texts
    <2>3. DOMAIN fs[p] = 1..n  BY <2>2
    <2>4. MaxWords \in Nat  BY LookupsAssumption
    <2>5. 1..n \subseteq 1..MaxWords  BY <2>2, <2>4
    <2> QED  BY <2>3, <2>5
  <1> HIDE DEF D
  <1>2. L = {<<p, i>> : i \in D}  BY DEF LinesIn, D
  <1> HIDE DEF L
  <1>3. /\ L \subseteq Paths \X (1..MaxWords)
        /\ \A x \in L : x = <<p, x[2]>> /\ x[1] = p /\ x[2] \in D
        BY <1>1, <1>2
  <1>4. IsFiniteSet(L)
    <2>1. IsFiniteSet(1..MaxWords)  BY LookupsAssumption, FS_Interval
    <2>2. IsFiniteSet(Paths)  BY LookupsAssumption
    <2>3. IsFiniteSet(Paths \X (1..MaxWords))  BY <2>1, <2>2, FS_Product
    <2> QED  BY <1>3, <2>3, FS_Subset
  <1>5. \A x, y \in L : <<x, y>> \in R <=> x[2] < y[2]  OBVIOUS
  <1> HIDE DEF R
  <1>6. \A x \in L : x[2] \in Int  BY <1>1, <1>3
  <1>7. \A x, y \in L : x[2] = y[2] => x = y  BY <1>3
  <1>8. \A x, y \in L : x = y \/ x[2] < y[2] \/ y[2] < x[2]  BY <1>6, <1>7
  <1>9. StrictOrder(R, L)
    <2>1. \A x \in L : ~(x[2] < x[2])  BY <1>6
    <2>2. \A x, y, z \in L : x[2] < y[2] /\ y[2] < z[2] => x[2] < z[2]  BY <1>6
    <2> QED  BY <1>5, <1>8, <2>1, <2>2 DEF StrictOrder
  <1> QED  BY <1>3, <1>4, <1>5, <1>9 DEF L, R

(* The first n lines of a file, or all. *)
LEMMA FirstLines ==
    ASSUME NEW fs \in [Paths -> Texts \cup {None}], NEW p \in Paths, NEW w \in Words,
           fs[p] # None, NEW n \in Nat
    PROVE  LET L == LinesIn(fs, p, w)
           IN  /\ First(L, n) \subseteq L /\ IsFiniteSet(First(L, n))
               /\ Cardinality(First(L, n)) <= n
               /\ First(L, n) = L \/ Cardinality(First(L, n)) = n
  <1> DEFINE L == LinesIn(fs, p, w)
             R == {e \in L \X L : e[1][2] < e[2][2]}
             F == First(L, n)
             N == Cardinality(L)
             place == [x \in L |-> Cardinality({y \in L : <<y, x>> \in R}) + 1]
  <1>1. /\ IsFiniteSet(L) /\ StrictOrder(R, L)
        /\ \A x, y \in L : <<x, y>> \in R <=> x[2] < y[2]
        BY LinesOrder
  <1> HIDE DEF L, R
  <1>2. place \in Bijection(L, 1..N)  BY <1>1, Places1
  <1>3. N \in Nat  BY <1>1, FS_CardinalityType
  <1>4. ASSUME NEW x \in L
        PROVE  place[x] = Cardinality({y \in L : y[2] < x[2]}) + 1
    <2>1. {y \in L : <<y, x>> \in R} = {y \in L : y[2] < x[2]}  BY <1>1
    <2> QED  BY <2>1
  <1> HIDE DEF place, N
  <1>5. \A x \in L : place[x] \in 1..N
        BY <1>2 DEF Bijection, Injection
  <1>6. ASSUME NEW x \in L PROVE x \in F <=> place[x] <= n
    <2> DEFINE m == Cardinality({y \in L : y[2] < x[2]})
    <2>1. place[x] = m + 1  BY <1>4
    <2>2. x \in F <=> m < n  BY DEF First
    <2>3. m \in Int
      <3>1. {y \in L : y[2] < x[2]} \in SUBSET L  OBVIOUS
      <3>2. IsFiniteSet({y \in L : y[2] < x[2]})  BY <1>1, <3>1, FS_Subset
      <3> QED  BY <3>2, FS_CardinalityType
    <2> HIDE DEF m, F
    <2> QED  BY <2>1, <2>2, <2>3
  <1>7. F \in SUBSET L  BY DEF First
  <1> HIDE DEF F
  <1>8. IsFiniteSet(F)  BY <1>1, <1>7, FS_Subset
  <1>9. CASE N <= n
    <2>1. \A x \in L : x \in F
      <3> TAKE x \in L
      <3>1. place[x] <= n  BY <1>3, <1>5, <1>9
      <3> QED  BY <1>6, <3>1
    <2>2. F = L  BY <1>7, <2>1
    <2>3. Cardinality(F) <= n  BY <1>9, <2>2 DEF N
    <2> QED  BY <1>7, <1>8, <2>2, <2>3 DEF F, L
  <1>10. CASE n < N
    <2> DEFINE g == [x \in F |-> place[x]]
    <2>1. \A x \in F : g[x] \in 1..n
      <3> TAKE x \in F
      <3>1. x \in L  BY <1>7
      <3>2. place[x] \in 1..N /\ place[x] <= n  BY <1>5, <1>6, <3>1
      <3> QED  BY <3>2
    <2>2. g \in Injection(F, 1..n)
      <3>1. \A x, y \in L : place[x] = place[y] => x = y
            BY <1>2 DEF Bijection, Injection, IsInjective
      <3>2. \A x, y \in F : g[x] = g[y] => x = y  BY <1>7, <3>1
      <3>3. g \in [F -> 1..n]  BY <2>1
      <3> HIDE DEF g
      <3> QED  BY <3>2, <3>3 DEF Injection, IsInjective
    <2>3. g \in Surjection(F, 1..n)
      <3>1. ASSUME NEW i \in 1..n PROVE \E x \in F : g[x] = i
        <4>1. i \in 1..N /\ i <= n  BY <1>3, <1>10
        <4>2. PICK x \in L : place[x] = i
              BY <1>2, <4>1 DEF Bijection, Surjection
        <4>3. x \in F  BY <1>6, <4>1, <4>2
        <4> QED  BY <4>2, <4>3
      <3>2. g \in [F -> 1..n]  BY <2>1
      <3> HIDE DEF g
      <3> QED  BY <3>1, <3>2 DEF Surjection
    <2>5. IsFiniteSet(1..n) /\ Cardinality(1..n) = n
      <3>1. IsFiniteSet(1..n) /\ Cardinality(1..n) = IF 1 > n THEN 0 ELSE n - 1 + 1
            BY FS_Interval
      <3> QED  BY <3>1
    <2> HIDE DEF g
    <2>6. Cardinality(F) = n  BY <2>2, <2>3, <2>5, FS_Injection
    <2> QED  BY <1>7, <1>8, <2>6 DEF F, L
  <1> QED  BY <1>3, <1>9, <1>10

LEMMA GrepFilesGoes ==
    ASSUME NEW c \in Clients, GlobFine(job[c], files), GrepFiles(c)
    PROVE  FineLooks(c)
  <1> DEFINE j == job[c]
             k == [tool |-> "grep", root |-> j.root, word |-> j.word,
                   left |-> InOrder(j.out, Before), cut |-> Full(c, j.out),
                   matches |-> {}, steady |-> j.steady, done |-> j.done]
  <1>1. /\ j.frames = <<>> /\ j.word # NoWord /\ Looks(c, k)
        BY DEF GrepFiles, Walking
  <1>2. GlobShape(j) /\ GlobSees(j, files) /\ j \in GlobJob  BY DEF GlobFine, GlobShape
  <1>3. /\ j.root \in Paths /\ j.word \in Words /\ j.out \subseteq Paths
        /\ j.steady \subseteq Paths /\ j.done \in BOOLEAN
        BY <1>1, <1>2 DEF GlobJob
  <1>4. Lists(InOrder(j.out, Before), j.out)  BY <1>3, PathsInOrder
  <1>5. Full(c, j.out) <=> Enough(j)  BY DEF Full, Enough
  <1>f. Full(c, j.out) \in BOOLEAN  BY DEF Full
  <1>6. /\ k.left = InOrder(j.out, Before) /\ k.cut = Full(c, j.out) /\ k.matches = {}
        /\ k.steady = j.steady /\ k.done = j.done /\ k.root = j.root /\ k.word = j.word
        OBVIOUS
  <1>7. k \in GrepJob
    <2>1. InOrder(j.out, Before) \in Seq(Paths)  BY <1>3, <1>4 DEF Lists
    <2>2. {} \in SUBSET (Paths \X (1..MaxWords))  OBVIOUS
    <2> QED  BY <1>3, <1>f, <2>1, <2>2 DEF GrepJob
  <1> HIDE DEF k
  <1>8. Cardinality(k.matches) <= MaxGrepMatches
    <2>1. Cardinality(k.matches) = 0 /\ MaxGrepMatches \in Nat
          BY <1>6, FS_EmptySet, LookupsAssumption
    <2> QED  BY <2>1
  <1>9. ASSUME ~k.cut, NEW p \in k.steady PROVE p \in ToSet(k.left)
    <2>1. ~Enough(j) /\ p \in j.steady  BY <1>5, <1>6, <1>9
    <2>2. ~Misses(j, p)
      <3>1. Len(j.frames) = 0  BY <1>1
      <3> QED  BY <1>2, <2>1, <3>1 DEF GlobSees
    <2>3. Last(p) \in j.match
      <3>1. p \in Below(j.root)  BY <1>2, <2>1 DEF GlobSees, InSight
      <3>2. /\ p \in Seq(Names) /\ j.root \in Seq(Names) /\ IsStrictPrefix(j.root, p)
            BY <1>3, <3>1, WorkspaceAssumption DEF Below
      <3>3. Len(j.root) < Len(p)  BY <3>2, PrefixAt
      <3>4. Len(p) \in 1..Len(p)  BY <3>2, <3>3
      <3>5. Last(p) \in Names  BY <3>2, <3>4 DEF Last
      <3> QED  BY <1>1, <1>2, <3>5 DEF GlobShape
    <2>4. p \in j.out  BY <2>1, <2>2, <2>3 DEF Misses
    <2>5. \E i \in 1..Len(k.left) : k.left[i] = p  BY <1>4, <1>6, <2>4 DEF Lists
    <2>6. k.left \in Seq(Paths)  BY <1>7 DEF GrepJob
    <2> QED  BY <2>5, <2>6, ElementsIn
  <1>10. \A a, b \in 1..Len(k.left) : a # b => k.left[a] # k.left[b]
         BY <1>4, <1>6 DEF Lists
  <1>11. k.steady \subseteq InSight(files, k.root) /\ (k.done => k.steady = {})
         BY <1>2, <1>6 DEF GlobSees, GlobShape
  <1>12. \A l \in k.matches : l[1] \notin ToSet(k.left)  BY <1>6
  <1>13. GrepFine(k, files)  BY <1>7, <1>8, <1>9, <1>10, <1>11, <1>12 DEF GrepFine
  <1> QED  BY <1>1, <1>13 DEF FineLooks, Looking

LEMMA GrepFileGoes ==
    ASSUME NEW c \in Clients, Env(files, dirs), GrepFine(job[c], files), GrepFile(c)
    PROVE  FineLooks(c)
  <1> DEFINE j == job[c]
             p == Head(j.left)
             n == MaxGrepMatches - Cardinality(j.matches)
             F == First(Lines(p, j.word), n)
             m == j.matches \cup F
  <1>1. /\ j.left # <<>>
        /\ Looks(c, IF j.done \/ ~IsFile(p) THEN [j EXCEPT !.left = Tail(@)]
                    ELSE [j EXCEPT !.matches = m,
                              !.left = IF Cardinality(m) = MaxGrepMatches THEN <<>>
                                       ELSE Tail(@)])
        BY DEF GrepFile
  <1>2. j \in GrepJob /\ GrepFine(j, files)  BY DEF GrepFine
  <1>3. /\ j.left \in Seq(Paths) /\ j.word \in Words
        /\ j.matches \in SUBSET (Paths \X (1..MaxWords)) /\ j.steady \subseteq Paths
        BY <1>2 DEF GrepJob
  <1> DEFINE s == j.left
  <1>4. /\ Tail(s) \in Seq(Paths) /\ p \in Paths /\ Len(s) \in Nat \ {0} /\ p = s[1]
        /\ Len(Tail(s)) = Len(s) - 1
        /\ \A i \in 1..(Len(s) - 1) : Tail(s)[i] = s[i + 1]
        /\ ToSet(s) = {p} \cup ToSet(Tail(s))
        BY <1>1, <1>3, ElementsOfTail
  <1>5. \A a, b \in 1..Len(s) : a # b => s[a] # s[b]  BY <1>2 DEF GrepFine
  <1> HIDE DEF j
  <1>t. j.left = s  OBVIOUS
  <1> HIDE DEF s, p
  <1>6. \A a, b \in 1..Len(Tail(s)) : a # b => Tail(s)[a] # Tail(s)[b]
    <2> TAKE a, b \in 1..Len(Tail(s))
    <2>1. /\ a \in 1..(Len(s) - 1) /\ b \in 1..(Len(s) - 1)
          /\ a + 1 \in 1..Len(s) /\ b + 1 \in 1..Len(s) /\ (a # b => a + 1 # b + 1)
          BY <1>4
    <2> QED  BY <1>4, <1>5, <2>1
  <1>7. p \notin ToSet(Tail(s))
    <2> SUFFICES ASSUME p \in ToSet(Tail(s)) PROVE FALSE  OBVIOUS
    <2>e. \A r \in Seq(Paths) : \A x : x \in ToSet(r) <=> \E i \in 1..Len(r) : r[i] = x
          BY ElementsIn
    <2>1. PICK i \in 1..Len(Tail(s)) : Tail(s)[i] = p  BY <1>4, <2>e
    <2>2. i \in 1..(Len(s) - 1) /\ i + 1 \in 1..Len(s) /\ 1 \in 1..Len(s) /\ i + 1 # 1
          BY <1>4
    <2>3. s[i + 1] = s[1]  BY <1>4, <2>1, <2>2
    <2> QED  BY <1>5, <2>2, <2>3
  <1>8. \A l \in j.matches : l[1] # p /\ l[1] \notin ToSet(Tail(s))
        BY <1>2, <1>4, <1>t DEF GrepFine
  <1>9. j.cut \/ Cardinality(j.matches) = MaxGrepMatches
        \/ \A q \in j.steady : LinesIn(files, q, j.word) \subseteq j.matches
                               \/ q = p \/ q \in ToSet(Tail(s))
        BY <1>2, <1>4, <1>t DEF GrepFine
  <1>10. /\ Cardinality(j.matches) <= MaxGrepMatches
         /\ j.steady \subseteq InSight(files, j.root) /\ (j.done => j.steady = {})
         BY <1>2 DEF GrepFine
  <1>11. CASE j.done \/ ~IsFile(p)
    <2> DEFINE k == [j EXCEPT !.left = Tail(s)]
    <2>1. Looks(c, k)  BY <1>1, <1>11, <1>t DEF j, p
    <2>2. /\ k \in GrepJob /\ k.left = Tail(s) /\ k.matches = j.matches /\ k.cut = j.cut
          /\ k.steady = j.steady /\ k.word = j.word /\ k.root = j.root /\ k.done = j.done
          BY <1>2, <1>4 DEF GrepJob
    <2>3. p \notin j.steady
      <3>1. \A q \in j.steady : IsFile(q)  BY <1>10 DEF InSight, IsFile
      <3> QED  BY <1>10, <1>11, <3>1
    <2> HIDE DEF k
    <2>4. GrepFine(k, files)
          BY <1>6, <1>8, <1>9, <1>10, <2>2, <2>3 DEF GrepFine
    <2> QED  BY <2>1, <2>4 DEF FineLooks, Looking
  <1>12. CASE ~(j.done \/ ~IsFile(p))
    <2> DEFINE L  == LinesIn(files, p, j.word)
               fr == IF Cardinality(m) = MaxGrepMatches THEN <<>> ELSE Tail(s)
               k  == [j EXCEPT !.matches = m, !.left = fr]
    <2>1. Looks(c, k)  BY <1>1, <1>12, <1>t DEF j, p
    <2>2. Lines(p, j.word) = L  BY DEF Lines, LinesIn
    <2>3. /\ L \subseteq Paths \X (1..MaxWords) /\ \A x \in L : x[1] = p
      <3>1. files \in [Paths -> Texts \cup {None}] /\ files[p] # None
            BY <1>12 DEF Env, IsFile
      <3>2. \A fs \in [Paths -> Texts \cup {None}], q \in Paths, w \in Words :
               fs[q] # None => /\ LinesIn(fs, q, w) \subseteq Paths \X (1..MaxWords)
                               /\ \A x \in LinesIn(fs, q, w) : x[1] = q
            BY LinesOrder
      <3> QED  BY <1>3, <1>4, <3>1, <3>2
    <2>4. IsFiniteSet(j.matches) /\ Cardinality(j.matches) \in Nat /\ MaxGrepMatches \in Nat
      <3>1. IsFiniteSet(1..MaxWords) /\ MaxGrepMatches \in Nat
        <4>1. MaxWords \in Nat /\ MaxGrepMatches \in Nat  BY LookupsAssumption
        <4>2. 1 \in Int /\ MaxWords \in Int  BY <4>1
        <4> QED  BY <4>1, <4>2, FS_Interval
      <3>2. IsFiniteSet(Paths \X (1..MaxWords))  BY <3>1, LookupsAssumption, FS_Product
      <3>3. IsFiniteSet(j.matches)  BY <1>3, <3>2, FS_Subset
      <3> QED  BY <3>1, <3>3, FS_CardinalityType
    <2>5. n \in Nat  BY <1>10, <2>4
    <2>6. /\ F \subseteq L /\ IsFiniteSet(F) /\ Cardinality(F) <= n
          /\ F = L \/ Cardinality(F) = n
      <3>1. files \in [Paths -> Texts \cup {None}] /\ files[p] # None
            BY <1>12 DEF Env, IsFile
      <3> HIDE DEF n, L
      <3> QED  BY <1>3, <1>4, <2>2, <2>5, <3>1, FirstLines DEF L
    <2>7. n = MaxGrepMatches - Cardinality(j.matches)  OBVIOUS
    <2> HIDE DEF L, F, n
    <2>8. Cardinality(F) \in Nat /\ j.matches \cap F = {}
      <3>1. Cardinality(F) \in Nat  BY <2>6, FS_CardinalityType
      <3> QED  BY <1>8, <2>3, <2>6, <3>1
    <2>9. Cardinality(m) = Cardinality(j.matches) + Cardinality(F)
      <3>1. Cardinality(m) = Cardinality(j.matches) + Cardinality(F)
                              - Cardinality(j.matches \cap F)
            BY <2>4, <2>6, FS_Union
      <3>2. Cardinality(j.matches \cap F) = 0  BY <2>8, FS_EmptySet
      <3> HIDE DEF m
      <3> QED  BY <2>4, <2>8, <3>1, <3>2
    <2>10. m \in SUBSET (Paths \X (1..MaxWords))  BY <1>3, <2>3, <2>6
    <2>11. j.matches \subseteq m /\ F \subseteq m  OBVIOUS
    <2>12. \A l \in m : l[1] \notin ToSet(Tail(s))  BY <1>7, <1>8, <2>3, <2>6
    <2> HIDE DEF m
    <2>13. Cardinality(m) <= MaxGrepMatches  BY <2>4, <2>5, <2>6, <2>7, <2>8, <2>9
    <2>14. Cardinality(m) # MaxGrepMatches =>
              L \subseteq m /\ Cardinality(j.matches) # MaxGrepMatches
      <3> SUFFICES ASSUME Cardinality(m) # MaxGrepMatches
                   PROVE  L \subseteq m /\ Cardinality(j.matches) # MaxGrepMatches
          OBVIOUS
      <3>1. Cardinality(F) # n  BY <2>4, <2>7, <2>8, <2>9
      <3>2. L \subseteq m  BY <2>6, <2>11, <3>1
      <3>3. Cardinality(j.matches) # MaxGrepMatches
            BY <2>4, <2>5, <2>6, <2>7, <2>8, <2>9
      <3> QED  BY <3>2, <3>3
    <2>15. fr \in Seq(Paths)  BY <1>4
    <2>16. \/ fr = Tail(s)
           \/ fr = <<>> /\ Cardinality(m) = MaxGrepMatches
           OBVIOUS
    <2>17. Cardinality(m) # MaxGrepMatches => fr = Tail(s)  OBVIOUS
    <2> HIDE DEF fr
    <2>18. /\ k \in GrepJob /\ k.left = fr /\ k.matches = m /\ k.cut = j.cut
           /\ k.steady = j.steady /\ k.word = j.word /\ k.root = j.root
           /\ k.done = j.done
           BY <1>2, <2>10, <2>15 DEF GrepJob
    <2> HIDE DEF k
    <2>19. \A a, b \in 1..Len(k.left) : a # b => k.left[a] # k.left[b]
      <3>1. CASE fr = Tail(s)  BY <1>6, <2>18, <3>1
      <3>2. CASE fr = <<>>
        <4>1. Len(k.left) = 0  BY <2>18, <3>2
        <4> QED  BY <4>1
      <3> QED  BY <2>16, <3>1, <3>2
    <2>20. \A l \in k.matches : l[1] \notin ToSet(k.left)
      <3>1. CASE fr = Tail(s)  BY <2>12, <2>18, <3>1
      <3>2. CASE fr = <<>>
        <4>1. ToSet(k.left) = {}  BY <2>18, <3>2 DEF ToSet
        <4> QED  BY <4>1
      <3> QED  BY <2>16, <3>1, <3>2
    <2>21. k.cut \/ Cardinality(k.matches) = MaxGrepMatches
           \/ \A q \in k.steady : LinesIn(files, q, k.word) \subseteq k.matches
                                  \/ q \in ToSet(k.left)
      <3> SUFFICES ASSUME ~k.cut, Cardinality(k.matches) # MaxGrepMatches,
                          NEW q \in k.steady, q \notin ToSet(k.left)
                   PROVE  LinesIn(files, q, k.word) \subseteq k.matches
          OBVIOUS
      <3>1. /\ L \subseteq m /\ Cardinality(j.matches) # MaxGrepMatches
            /\ q \notin ToSet(Tail(s)) /\ ~j.cut /\ q \in j.steady
            BY <2>14, <2>17, <2>18
      <3>2. LinesIn(files, q, j.word) \subseteq j.matches \/ q = p  BY <1>9, <3>1
      <3> QED  BY <2>11, <2>18, <3>1, <3>2 DEF L
    <2>22. GrepFine(k, files)
           BY <1>10, <2>13, <2>18, <2>19, <2>20, <2>21 DEF GrepFine
    <2> QED  BY <2>1, <2>22 DEF FineLooks, Looking
  <1> QED  BY <1>11, <1>12

-----------------------------------------------------------------------------
(* The steps of a discovery. *)

LEMMA DiscoverStartGoes ==
    ASSUME NEW c \in Clients, Env(files, dirs), DiscoverStart(c)
    PROVE  FineLooks(c)
  <1> DEFINE a == [i \in DOMAIN AgentsFiles |-> Item("file", AgentsFiles[i], FALSE)]
             b == <<Item("skills", SkillsDir, FALSE), Item("roles", RolesDir, FALSE)>>
             k == [tool |-> "discover", todo |-> a \o b, found |-> {}, failed |-> "no",
                   steady |-> {p \in Paths : IsFile(p)}, calm |-> TRUE, done |-> FALSE]
  <1>1. Looks(c, k)  BY DEF DiscoverStart, Discover
  <1>2. /\ AgentsFiles \in Seq(Paths) /\ SkillsDir \in Paths /\ RolesDir \in Paths
        BY LookupsAssumption
  <1>3. a \in Seq(Items) /\ Len(a) = Len(AgentsFiles)
        /\ \A i \in 1..Len(AgentsFiles) :
              /\ a[i].kind = "file" /\ a[i].path = AgentsFiles[i]
              /\ a[i].known = FALSE
    <2>1. Len(AgentsFiles) \in Nat /\ DOMAIN AgentsFiles = 1..Len(AgentsFiles)
          BY <1>2
    <2>2. \A i \in 1..Len(AgentsFiles) :
             /\ AgentsFiles[i] \in Paths /\ Item("file", AgentsFiles[i], FALSE) \in Items
             /\ a[i] = Item("file", AgentsFiles[i], FALSE)
          BY <1>2, <2>1 DEF Item, Items
    <2>3. a \in [1..Len(AgentsFiles) -> Items]  BY <2>1, <2>2
    <2> HIDE DEF a
    <2>4. a \in Seq(Items) /\ Len(a) = Len(AgentsFiles)  BY <2>1, <2>3
    <2>5. \A q \in Paths : /\ Item("file", q, FALSE).kind = "file"
                          /\ Item("file", q, FALSE).path = q
                          /\ Item("file", q, FALSE).known = FALSE
          BY DEF Item
    <2>6. ASSUME NEW i \in 1..Len(AgentsFiles)
          PROVE  /\ a[i].kind = "file" /\ a[i].path = AgentsFiles[i]
                 /\ a[i].known = FALSE
      <3>1. AgentsFiles[i] \in Paths /\ a[i] = Item("file", AgentsFiles[i], FALSE)
            BY <2>2
      <3> HIDE DEF Item
      <3> QED  BY <2>5, <3>1
    <2> QED  BY <2>4, <2>6
  <1>4. b \in Seq(Items) /\ Len(b) = 2 /\ b[1] = Item("skills", SkillsDir, FALSE)
        /\ b[2] = Item("roles", RolesDir, FALSE)
    <2>1. /\ Item("skills", SkillsDir, FALSE) \in Items
          /\ Item("roles", RolesDir, FALSE) \in Items
          BY <1>2 DEF Item, Items
    <2>2. \A x, y \in Items : /\ <<x, y>> \in Seq(Items) /\ Len(<<x, y>>) = 2
                              /\ <<x, y>>[1] = x /\ <<x, y>>[2] = y
          OBVIOUS
    <2> QED  BY <2>1, <2>2
  <1> HIDE DEF a, b
  <1>5. a \o b \in Seq(Items) /\ ToSet(a \o b) = ToSet(a) \cup ToSet(b)
        BY <1>3, <1>4, ElementsOfBoth
  <1>6. \A s \in Seq(Items) : \A x : x \in ToSet(s) <=> \E i \in 1..Len(s) : s[i] = x
        BY ElementsIn
  <1>7. \A i \in ToSet(a \o b) : ~i.known
    <2>1. \A i \in 1..Len(a) : ~a[i].known
      <3>1. \A i \in 1..Len(a) : a[i].known = FALSE  BY <1>3
      <3> QED  BY <3>1, Zenon
    <2>2. \A i \in 1..Len(b) : ~b[i].known
      <3>1. \A i \in 1..2 : i = 1 \/ i = 2  OBVIOUS
      <3> QED  BY <1>4, <3>1 DEF Item
    <2> QED  BY <1>3, <1>4, <1>5, <1>6, <2>1, <2>2
  <1>8. ASSUME NEW p \in Paths, Wanted(p) PROVE \E i \in ToSet(a \o b) : Seeks(i, p)
    <2>1. CASE p \in ToSet(AgentsFiles)
      <3>1. PICK i \in 1..Len(AgentsFiles) : AgentsFiles[i] = p
            BY <1>2, <2>1, ElementsIn
      <3>2. a[i] \in ToSet(a \o b) /\ Seeks(a[i], p)  BY <1>3, <1>5, <1>6, <3>1 DEF Seeks
      <3> QED  BY <3>2
    <2>2. CASE /\ Len(p) = Len(SkillsDir) + 2 /\ IsPrefix(SkillsDir, p)
               /\ Last(p) = SkillName
      <3>1. b[1] \in ToSet(a \o b)
        <4>1. 1 \in 1..Len(b)  BY <1>4
        <4> QED  BY <1>4, <1>5, <1>6, <4>1
      <3>2. Seeks(b[1], p)  BY <1>4, <2>2 DEF Seeks, Item
      <3> QED  BY <3>1, <3>2
    <2>3. CASE /\ Len(p) = Len(RolesDir) + 1 /\ IsPrefix(RolesDir, p)
               /\ Last(p) \in RoleNames
      <3>1. b[2] \in ToSet(a \o b)
        <4>1. 2 \in 1..Len(b)  BY <1>4
        <4> QED  BY <1>4, <1>5, <1>6, <4>1
      <3>2. Seeks(b[2], p)  BY <1>4, <2>3 DEF Seeks, Item
      <3> QED  BY <3>1, <3>2
    <2> QED  BY <1>8, <2>1, <2>2, <2>3 DEF Wanted
  <1>9. /\ k.todo = a \o b /\ k.found = {} /\ k.failed = "no" /\ k.calm = TRUE
        /\ k.steady = {p \in Paths : IsFile(p)} /\ k.done = FALSE
        OBVIOUS
  <1>10. k \in DiscoverJob
    <2>1. {p \in Paths : IsFile(p)} \in SUBSET Paths  OBVIOUS
    <2> QED  BY <1>5, <2>1 DEF DiscoverJob, Items
  <1> HIDE DEF k
  <1>11. DiscoverFine(k, files, dirs)
         BY <1>7, <1>8, <1>9, <1>10 DEF DiscoverFine, IsFile
  <1> QED  BY <1>1, <1>11 DEF FineLooks, Looking

(* What a discovery in progress has at the top of its list. *)
TodoIs(j, i, rest) ==
    /\ i \in Items /\ rest \in Seq(Items) /\ ToSet(j.todo) = {i} \cup ToSet(rest)

LEMMA TodoParts ==
    ASSUME NEW c \in Clients, DiscoverFine(job[c], files, dirs), Discovers(c)
    PROVE  /\ job[c] \in DiscoverJob /\ job[c].failed = "no"
           /\ TodoIs(job[c], Top(c), Tail(job[c].todo))
  <1>1. job[c] \in DiscoverJob /\ job[c].failed = "no" /\ job[c].todo # <<>>
        BY DEF DiscoverFine, Discovers
  <1>2. job[c].todo \in Seq(Items)  BY <1>1 DEF DiscoverJob, Items
  <1> DEFINE s == job[c].todo
  <1>3. s \in Seq(Items) /\ s # <<>>  BY <1>1, <1>2
  <1> HIDE DEF s
  <1>4. Tail(s) \in Seq(Items) /\ Head(s) \in Items /\ ToSet(s) = {Head(s)} \cup ToSet(Tail(s))
        BY <1>3, ElementsOfTail
  <1> QED  BY <1>1, <1>4 DEF TodoIs, Top, s

(* The list goes on: what the top item sought is found, sought by what replaces it,
   or was not there. *)
LEMMA TodoGoes ==
    ASSUME NEW j, DiscoverFine(j, files, dirs), j.failed = "no",
           NEW i, NEW rest, TodoIs(j, i, rest),
           NEW new \in Seq(Items), NEW found \in SUBSET Paths, j.found \subseteq found,
           \A n \in ToSet(new) : n \in ToSet(rest) \/ (n.known => There(n.path, files, dirs)),
           ToSet(rest) \subseteq ToSet(new),
           \A p \in j.steady : Wanted(p) /\ Seeks(i, p) =>
              p \in found \/ \E n \in ToSet(new) : Seeks(n, p)
    PROVE  DiscoverFine([j EXCEPT !.todo = new, !.found = found], files, dirs)
  <1> DEFINE k == [j EXCEPT !.todo = new, !.found = found]
  <1>1. j \in DiscoverJob  BY DEF DiscoverFine
  <1>2. /\ k \in DiscoverJob /\ k.todo = new /\ k.found = found /\ k.failed = j.failed
        /\ k.steady = j.steady /\ k.calm = j.calm /\ k.done = j.done
        BY <1>1 DEF DiscoverJob, Items
  <1> HIDE DEF k
  <1>3. \A p \in k.steady : Wanted(p) =>
            p \in k.found \/ \E n \in ToSet(k.todo) : Seeks(n, p)
    <2> TAKE p \in k.steady
    <2> SUFFICES ASSUME Wanted(p)
                 PROVE  p \in k.found \/ \E n \in ToSet(k.todo) : Seeks(n, p)
        OBVIOUS
    <2>1. p \in j.found \/ \E n \in ToSet(j.todo) : Seeks(n, p)  BY <1>2 DEF DiscoverFine
    <2>2. p \in j.found \/ Seeks(i, p) \/ \E n \in ToSet(rest) : Seeks(n, p)
          BY <2>1 DEF TodoIs
    <2> QED  BY <1>2, <2>2
  <1>4. k.calm => \A n \in ToSet(k.todo) : n.known => There(n.path, files, dirs)
        BY <1>2 DEF DiscoverFine, TodoIs
  <1>5. DiscoverFine(k, files, dirs)  BY <1>2, <1>3, <1>4 DEF DiscoverFine
  <1> QED  BY <1>5 DEF k

LEMMA FailsFine ==
    ASSUME NEW c \in Clients, DiscoverFine(job[c], files, dirs), Discovers(c), Fails(c),
           job[c].done \/ Top(c).known
    PROVE  FineLooks(c)
  <1> DEFINE j == job[c]
             failed == IF j.done THEN "cancelled"
                       ELSE IF Top(c).path \in dirs \/ IsFile(Top(c).path) THEN "mistaken"
                       ELSE "gone"
             k == [j EXCEPT !.failed = failed]
  <1>1. Looks(c, k)  BY DEF Fails
  <1>2. /\ j \in DiscoverJob /\ DiscoverFine(j, files, dirs)
        /\ TodoIs(j, Top(c), Tail(j.todo))
        BY TodoParts
  <1>3. failed \in {"cancelled", "mistaken", "gone"}  OBVIOUS
  <1>4. failed = "gone" => ~j.done /\ ~There(Top(c).path, files, dirs)
        BY DEF There, IsFile
  <1> HIDE DEF failed
  <1>5. failed = "gone" => ~j.calm  BY <1>2, <1>4 DEF DiscoverFine, TodoIs
  <1> HIDE DEF j
  <1>6. /\ k \in DiscoverJob /\ k.todo = j.todo /\ k.found = j.found /\ k.failed = failed
        /\ k.steady = j.steady /\ k.calm = j.calm /\ k.done = j.done
        BY <1>2, <1>3 DEF DiscoverJob
  <1> HIDE DEF k
  <1>7. failed # "no"  BY <1>3
  <1>8. DiscoverFine(k, files, dirs)  BY <1>2, <1>5, <1>6, <1>7 DEF DiscoverFine
  <1> QED  BY <1>1, <1>8 DEF FineLooks, Looking

(* What an item seeks cannot be there without what the item names. *)
LEMMA SoughtAbove ==
    ASSUME Env(files, dirs), NEW i \in Items, NEW p \in Paths, IsFile(p), Seeks(i, p)
    PROVE  There(i.path, files, dirs)
  <1>1. CASE p = i.path  BY <1>1 DEF There, IsFile
  <1>2. CASE IsPrefix(i.path, p)
    <2>1. i.path \in Up(p) /\ There(p, files, dirs)  BY <1>2 DEF Up, Items, There, IsFile
    <2> QED  BY <2>1 DEF Env, There
  <1> QED  BY <1>1, <1>2 DEF Seeks

LEMMA ExistsGoes ==
    ASSUME NEW c \in Clients, Env(files, dirs), DiscoverFine(job[c], files, dirs), Exists(c)
    PROVE  FineLooks(c)
  <1> DEFINE j == job[c]
             i == Top(c)
             rest == Tail(j.todo)
  <1>1. /\ Discovers(c) /\ ~i.known
        /\ IF j.done THEN Fails(c)
           ELSE IF IsFile(i.path) \/ i.path \in dirs
                THEN Goes(c, <<[i EXCEPT !.known = TRUE]>> \o rest)
                ELSE Goes(c, rest)
        BY DEF Exists
  <1>2. /\ j \in DiscoverJob /\ j.failed = "no" /\ DiscoverFine(j, files, dirs)
        /\ TodoIs(j, i, rest)
        BY <1>1, TodoParts
  <1>3. \A new : Goes(c, new) => Looks(c, [j EXCEPT !.todo = new])  BY DEF Goes
  <1>4. \A new : [j EXCEPT !.todo = new] = [j EXCEPT !.todo = new, !.found = j.found]
        /\ j.found \in SUBSET Paths
        BY <1>2 DEF DiscoverJob
  <1>5. i \in Items /\ rest \in Seq(Items)  BY <1>2 DEF TodoIs
  <1>6. \A p \in j.steady : p \in Paths /\ IsFile(p)
        BY <1>2 DEF DiscoverFine, DiscoverJob, IsFile
  <1> HIDE DEF j, i, rest
  <1>7. CASE j.done  BY <1>1, <1>2, <1>7, FailsFine DEF j
  <1>8. CASE ~j.done /\ (IsFile(i.path) \/ i.path \in dirs)
    <2> DEFINE n == [i EXCEPT !.known = TRUE]
               new == <<n>> \o rest
    <2>1. Looks(c, [j EXCEPT !.todo = new])  BY <1>1, <1>3, <1>8
    <2>2. n \in Items /\ n.path = i.path /\ n.kind = i.kind  BY <1>5 DEF Items
    <2> HIDE DEF n
    <2>3. <<n>> \in Seq(Items) /\ ToSet(<<n>>) = {n}  BY <2>2 DEF ToSet
    <2>4. new \in Seq(Items) /\ ToSet(new) = {n} \cup ToSet(rest)
      <3>1. \A s, t \in Seq(Items) :
               s \o t \in Seq(Items) /\ ToSet(s \o t) = ToSet(s) \cup ToSet(t)
            BY ElementsOfBoth
      <3> QED  BY <1>5, <2>3, <3>1
    <2> HIDE DEF new
    <2>5. There(n.path, files, dirs)  BY <1>8, <2>2 DEF There, IsFile
    <2>6. \A p : Seeks(i, p) => Seeks(n, p)  BY <2>2 DEF Seeks
    <2>7. DiscoverFine([j EXCEPT !.todo = new, !.found = j.found], files, dirs)
          BY <1>2, <1>4, <2>4, <2>5, <2>6, TodoGoes
    <2> QED  BY <1>4, <2>1, <2>7 DEF FineLooks, Looking
  <1>9. CASE ~j.done /\ ~(IsFile(i.path) \/ i.path \in dirs)
    <2>1. Looks(c, [j EXCEPT !.todo = rest])  BY <1>1, <1>3, <1>9
    <2>2. \A p \in j.steady : ~Seeks(i, p)
      <3>1. ~There(i.path, files, dirs)  BY <1>9 DEF There, IsFile
      <3> QED  BY <1>5, <1>6, <3>1, SoughtAbove
    <2>3. DiscoverFine([j EXCEPT !.todo = rest, !.found = j.found], files, dirs)
          BY <1>2, <1>4, <1>5, <2>2, TodoGoes
    <2> QED  BY <1>4, <2>1, <2>3 DEF FineLooks, Looking
  <1> QED  BY <1>7, <1>8, <1>9

LEMMA DiscoverFileGoes ==
    ASSUME NEW c \in Clients, DiscoverFine(job[c], files, dirs), DiscoverFile(c)
    PROVE  FineLooks(c)
  <1> DEFINE j == job[c]
             i == Top(c)
             rest == Tail(j.todo)
             found == j.found \cup {i.path}
  <1>1. /\ Discovers(c) /\ i.known /\ i.kind = "file"
        /\ IF j.done \/ ~IsFile(i.path) THEN Fails(c)
           ELSE Looks(c, [j EXCEPT !.todo = rest, !.found = found])
        BY DEF DiscoverFile
  <1>2. /\ j \in DiscoverJob /\ j.failed = "no" /\ DiscoverFine(j, files, dirs)
        /\ TodoIs(j, i, rest)
        BY <1>1, TodoParts
  <1>3. i \in Items /\ rest \in Seq(Items)  BY <1>2 DEF TodoIs
  <1>4. found \in SUBSET Paths /\ j.found \subseteq found
        BY <1>2, <1>3 DEF DiscoverJob, Items
  <1>5. \A p : Seeks(i, p) => p \in found  BY <1>1 DEF Seeks
  <1> HIDE DEF j, i, rest, found
  <1>6. CASE j.done \/ ~IsFile(i.path)  BY <1>1, <1>2, <1>6, FailsFine DEF j, i
  <1>7. CASE ~(j.done \/ ~IsFile(i.path))
    <2>1. DiscoverFine([j EXCEPT !.todo = rest, !.found = found], files, dirs)
          BY <1>2, <1>3, <1>4, <1>5, TodoGoes
    <2> QED  BY <1>1, <1>7, <2>1 DEF FineLooks, Looking
  <1> QED  BY <1>6, <1>7

(* The items a directory gives: a file is listed in it, or below it, and known if it
   is a role, which is an entry itself. *)
LEMMA ListedItems ==
    ASSUME Env(files, dirs), NEW i \in Items, i.kind \in {"skills", "roles"}
    PROVE  /\ Listed(i) \in Seq(Items)
           /\ \A n \in ToSet(Listed(i)) : n.known => There(n.path, files, dirs)
           /\ \A p \in Paths : IsFile(p) /\ Seeks(i, p) =>
                 \E n \in ToSet(Listed(i)) : Seeks(n, p)
  <1> DEFINE role    == i.kind = "roles"
             file(e) == IF role THEN Append(i.path, e) ELSE i.path \o <<e, SkillName>>
             S       == {e \in EntryNames(i.path) : /\ file(e) \in Paths
                                                    /\ role => e \in RoleNames}
             entries == InOrder(S, <)
             item(e) == Item("file", file(e), role)
  <1>1. Listed(i) = [n \in DOMAIN entries |-> item(entries[n])]  BY DEF Listed
  <1>2. i.path \in Paths /\ role \in BOOLEAN  BY DEF Items
  <1>3. /\ EntryNames(i.path) \subseteq Names /\ IsFiniteSet(EntryNames(i.path))
        BY <1>2, EntriesList
  <1>4. S \subseteq Names /\ S \in SUBSET EntryNames(i.path) /\ \A e \in S : file(e) \in Paths
        BY <1>3
  <1>a. i.path \in Seq(Names) /\ SkillName \in Names
        BY <1>2, WorkspaceAssumption, LookupsAssumption
  <1>r. ASSUME NEW e \in S, role PROVE There(file(e), files, dirs)
    <2>1. PICK q \in Below(i.path) : /\ e = q[Len(i.path) + 1]
                                     /\ IsFile(q) \/ (q \in dirs /\ Len(q) = Len(i.path) + 1)
          BY <1>4 DEF EntryNames
    <2>2. file(e) = Append(i.path, e)  BY <1>r
    <2>3. /\ q \in Paths /\ file(e) \in Paths /\ IsPrefix(file(e), q)
          BY <1>2, <2>1, <2>2, NextName
    <2>4. file(e) \in Up(q) /\ There(q, files, dirs)  BY <2>1, <2>3 DEF Up, There, IsFile
    <2>5. file(e) = q \/ file(e) \in dirs  BY <2>3, <2>4 DEF Env
    <2> QED  BY <2>4, <2>5 DEF There
  <1>s. ASSUME NEW p \in Paths, IsFile(p), Seeks(i, p) PROVE \E e \in S : file(e) = p
    <2> DEFINE n == Len(i.path)
    <2>1. /\ p \in Seq(Names) /\ n \in Nat /\ Len(p) \in Nat
          BY <1>a, WorkspaceAssumption
    <2>2. IsPrefix(i.path, p) /\ Len(p) = n + (IF role THEN 1 ELSE 2)
          /\ (role => Last(p) \in RoleNames) /\ (~role => Last(p) = SkillName)
          BY <1>s DEF Seeks
    <2>3. \A k \in 1..n : i.path[k] = p[k]  BY <1>a, <2>1, <2>2, PrefixAt
    <2>4. Len(p) > n /\ p # <<>> /\ Last(p) = p[Len(p)]
      <3>1. \A q \in Seq(Names) : Len(q) > 0 => q # <<>>  OBVIOUS
      <3> HIDE DEF n, role
      <3>2. Len(p) > n /\ Len(p) > 0  BY <2>1, <2>2
      <3> QED  BY <2>1, <3>1, <3>2 DEF Last
    <2>5. p \in Below(i.path)
      <3>1. IsStrictPrefix(i.path, p)  BY <1>a, <2>1, <2>3, <2>4, PrefixAt
      <3> QED  BY <3>1 DEF Below
    <2> DEFINE e == p[n + 1]
    <2>6. e \in EntryNames(i.path) /\ e \in Names
      <3>1. n + 1 \in 1..Len(p)  BY <2>1, <2>4
      <3>2. e \in Names  BY <2>1, <3>1
      <3>3. e \in EntryNames(i.path)  BY <1>s, <2>5 DEF EntryNames
      <3> QED  BY <3>2, <3>3
    <2>7. file(e) = p
      <3> HIDE DEF e, n
      <3>e. p[n + 1] = e  BY DEF e
      <3>n. n = Len(i.path)  BY DEF n
      <3>1. CASE role
        <4>1. /\ Append(i.path, e) \in Seq(Names) /\ Len(Append(i.path, e)) = n + 1
              /\ Append(i.path, e)[n + 1] = e
              /\ \A k \in 1..n : Append(i.path, e)[k] = i.path[k]
              BY <1>a, <2>6, <3>n
        <4>2. Len(p) = n + 1  BY <2>2, <3>1
        <4>3. \A k \in 1..(n + 1) : k = n + 1 \/ k \in 1..n  BY <2>1
        <4>4. Append(i.path, e) = p  BY <2>1, <2>3, <3>e, <4>1, <4>2, <4>3
        <4> QED  BY <3>1, <4>4
      <3>2. CASE ~role
        <4> DEFINE t == i.path \o <<e, SkillName>>
        <4>1. /\ t \in Seq(Names) /\ Len(t) = n + 2 /\ t[n + 1] = e /\ t[n + 2] = SkillName
              /\ \A k \in 1..n : t[k] = i.path[k]
              BY <1>a, <2>1, <2>6, <3>n
        <4> HIDE DEF t
        <4>2. Len(p) = n + 2 /\ p[n + 2] = SkillName  BY <2>2, <2>4, <3>2
        <4>3. \A k \in 1..(n + 2) : k = n + 2 \/ k = n + 1 \/ k \in 1..n  BY <2>1
        <4>4. t = p  BY <2>1, <2>3, <3>e, <4>1, <4>2, <4>3
        <4> QED  BY <3>2, <4>4 DEF t
      <3> QED  BY <3>1, <3>2
    <2>8. role => e \in RoleNames
      <3> SUFFICES ASSUME role PROVE e \in RoleNames  OBVIOUS
      <3>1. Len(p) = n + 1  BY <2>2
      <3> QED  BY <2>2, <2>4, <3>1
    <2> HIDE DEF e
    <2> QED  BY <2>6, <2>7, <2>8
  <1>5. Lists(entries, S)
    <2>1. IsFiniteSet(S)  BY <1>3, <1>4, FS_Subset
    <2>2. S \subseteq Nat  BY <1>4, WorkspaceAssumption
    <2> HIDE DEF S
    <2> QED  BY <2>1, <2>2, NamesInOrder
  <1> HIDE DEF S, entries, file, role
  <1>6. /\ entries \in Seq(S) /\ Len(entries) \in Nat /\ DOMAIN entries = 1..Len(entries)
        /\ \A k \in 1..Len(entries) : entries[k] \in S
        /\ \A e \in S : \E k \in 1..Len(entries) : entries[k] = e
        BY <1>5 DEF Lists
  <1>7. \A e \in S : /\ item(e) \in Items /\ item(e).path = file(e)
                     /\ item(e).kind = "file" /\ item(e).known = role
        BY <1>2, <1>4 DEF Item, Items
  <1> HIDE DEF item
  <1> DEFINE t == [n \in 1..Len(entries) |-> item(entries[n])]
  <1>8. Listed(i) = t  BY <1>1, <1>6
  <1>9. t \in Seq(Items) /\ Len(t) = Len(entries)
    <2>1. t \in [1..Len(entries) -> Items]  BY <1>6, <1>7
    <2> HIDE DEF t
    <2> QED  BY <1>6, <2>1
  <1>10. \A k \in 1..Len(entries) : t[k] = item(entries[k])  OBVIOUS
  <1> HIDE DEF t
  <1>11. \A x : x \in ToSet(t) <=> \E k \in 1..Len(t) : t[k] = x
    <2>1. \A s \in Seq(Items) : \A x : x \in ToSet(s) <=> \E k \in 1..Len(s) : s[k] = x
          BY ElementsIn
    <2> QED  BY <1>9, <2>1
  <1>12. \A x : x \in ToSet(t) <=> \E e \in S : item(e) = x
         BY <1>6, <1>9, <1>10, <1>11
  <1>13. ASSUME NEW n \in ToSet(t), n.known PROVE There(n.path, files, dirs)
         BY <1>7, <1>12, <1>13, <1>r
  <1>14. ASSUME NEW p \in Paths, IsFile(p), Seeks(i, p)
         PROVE  \E n \in ToSet(t) : Seeks(n, p)
    <2>1. PICK e \in S : file(e) = p  BY <1>14, <1>s
    <2>2. item(e) \in ToSet(t) /\ Seeks(item(e), p)  BY <1>7, <1>12, <2>1 DEF Seeks
    <2> QED  BY <2>2
  <1> QED  BY <1>8, <1>9, <1>13, <1>14

LEMMA DiscoverDirGoes ==
    ASSUME NEW c \in Clients, Env(files, dirs), DiscoverFine(job[c], files, dirs),
           DiscoverDir(c)
    PROVE  FineLooks(c)
  <1> DEFINE j == job[c]
             i == Top(c)
             rest == Tail(j.todo)
             new == Listed(i) \o rest
  <1>1. /\ Discovers(c) /\ i.known /\ i.kind \in {"skills", "roles"}
        /\ IF j.done \/ i.path \notin dirs THEN Fails(c) ELSE Goes(c, new)
        BY DEF DiscoverDir
  <1>2. /\ j \in DiscoverJob /\ j.failed = "no" /\ DiscoverFine(j, files, dirs)
        /\ TodoIs(j, i, rest)
        BY <1>1, TodoParts
  <1>3. i \in Items /\ rest \in Seq(Items)  BY <1>2 DEF TodoIs
  <1>4. \A n : Goes(c, n) => Looks(c, [j EXCEPT !.todo = n])  BY DEF Goes
  <1>5. \A n : [j EXCEPT !.todo = n] = [j EXCEPT !.todo = n, !.found = j.found]
        /\ j.found \in SUBSET Paths
        BY <1>2 DEF DiscoverJob
  <1>6. \A p \in j.steady : p \in Paths /\ IsFile(p)
        BY <1>2 DEF DiscoverFine, DiscoverJob, IsFile
  <1> HIDE DEF j, i, rest
  <1>7. CASE j.done \/ i.path \notin dirs
        BY <1>1, <1>2, <1>7, FailsFine DEF j, i
  <1>8. CASE ~(j.done \/ i.path \notin dirs)
    <2>1. Looks(c, [j EXCEPT !.todo = new])  BY <1>1, <1>4, <1>8
    <2>2. /\ Listed(i) \in Seq(Items)
          /\ \A n \in ToSet(Listed(i)) : n.known => There(n.path, files, dirs)
          /\ \A p \in Paths : IsFile(p) /\ Seeks(i, p) =>
                \E n \in ToSet(Listed(i)) : Seeks(n, p)
          BY <1>1, <1>3, ListedItems
    <2>3. new \in Seq(Items) /\ ToSet(new) = ToSet(Listed(i)) \cup ToSet(rest)
      <3>1. \A s, t \in Seq(Items) :
               s \o t \in Seq(Items) /\ ToSet(s \o t) = ToSet(s) \cup ToSet(t)
            BY ElementsOfBoth
      <3> QED  BY <1>3, <2>2, <3>1
    <2> HIDE DEF new
    <2>4. DiscoverFine([j EXCEPT !.todo = new, !.found = j.found], files, dirs)
          BY <1>2, <1>5, <1>6, <2>2, <2>3, TodoGoes
    <2> QED  BY <1>5, <2>1, <2>4 DEF FineLooks, Looking
  <1> QED  BY <1>7, <1>8

-----------------------------------------------------------------------------
(* The inductive invariant of the tools. *)

LEMMA NoJobFine == Looking(NoJob, files, dirs) /\ JobFine(NoJob, files, dirs)
  BY DEF JobFine, Looking

(* An edit that has read its file has its text and is about to write an exact
   replacement in it. *)
Exact(j) == Replaces(j.read, j.text, j)

(* The occurrences of a word. *)
LEMMA PlacesFinite ==
    ASSUME NEW text \in Texts, NEW old
    PROVE  /\ IsFiniteSet(Places(text, old)) /\ Cardinality(Places(text, old)) \in Nat
           /\ \A i \in DOMAIN text :
                 Cardinality(Places(SubSeq(text, 1, i), old)) <= Cardinality(Places(text, old))
  <1>1. PICK m \in Nat : text \in [1..m -> Words]  BY DEF Texts
  <1>2. text \in Seq(Words) /\ DOMAIN text = 1..m /\ Len(text) = m  BY <1>1
  <1>3. IsFiniteSet(1..m)  BY <1>1, FS_Interval
  <1>4. Places(text, old) \subseteq 1..m  BY <1>2 DEF Places
  <1>5. IsFiniteSet(Places(text, old)) /\ Cardinality(Places(text, old)) \in Nat
        BY <1>3, <1>4, FS_Subset, FS_CardinalityType
  <1>6. ASSUME NEW i \in DOMAIN text
        PROVE  Cardinality(Places(SubSeq(text, 1, i), old)) <= Cardinality(Places(text, old))
    <2>1. i \in 1..m  BY <1>2, <1>6
    <2>2. SubSeq(text, 1, i) = [k \in 1..i |-> text[k]]  BY <1>2, <2>1
    <2>3. Places(SubSeq(text, 1, i), old) \subseteq Places(text, old)
          BY <1>2, <2>1, <2>2 DEF Places
    <2> QED  BY <1>5, <2>3, FS_Subset
  <1> QED  BY <1>5, <1>6

(* Replacing as many occurrences as there are replaces them all. *)
LEMMA ReplacesAll ==
    ASSUME NEW text \in Texts, NEW old, NEW new
    PROVE  LET t == ReplaceFirst(text, Cardinality(Places(text, old)), old, new)
           IN  /\ DOMAIN t = DOMAIN text
               /\ \A i \in DOMAIN text : t[i] = IF text[i] = old THEN new ELSE text[i]
  BY PlacesFinite DEF ReplaceFirst

LEMMA EditReads ==
    ASSUME Env(files, dirs), NEW c \in Clients, EditRead(c)
    PROVE  \E j \in EditJob : /\ Looks(c, j) /\ j.path \in Own[c]
                              /\ j.read = files[j.path] /\ Exact(j)
  <1>1. PICK p \in Own[c], e \in Edits, all \in BOOLEAN :
          LET count == Cardinality(Places(files[p], e[1])) IN
          /\ IsFile(p)
          /\ ~all => count = 1
          /\ Looks(c, [tool |-> "edit", path |-> p, old |-> e[1], new |-> e[2],
                       all |-> all, read |-> files[p],
                       text |-> ReplaceFirst(files[p], IF all THEN count ELSE 1,
                                             e[1], e[2])])
        BY DEF EditRead
  <1> DEFINE n == Cardinality(Places(files[p], e[1]))
             t == ReplaceFirst(files[p], n, e[1], e[2])
             j == [tool |-> "edit", path |-> p, old |-> e[1], new |-> e[2],
                   all |-> all, read |-> files[p], text |-> t]
  <1>2. Looks(c, j) /\ (~all => n = 1)  BY <1>1
  <1>3. p \in Paths /\ e[1] \in Words /\ e[2] \in Words  BY WorkspaceAssumption
  <1>4. files[p] \in Texts  BY <1>1, <1>3 DEF Env, IsFile
  <1>5. DOMAIN t = DOMAIN files[p]
        /\ \A i \in DOMAIN files[p] : t[i] = IF files[p][i] = e[1] THEN e[2] ELSE files[p][i]
        BY <1>4, ReplacesAll
  <1>6. ~all => Cardinality(Places(files[p], e[1])) = 1  BY <1>2
  <1>7. t \in Texts  BY <1>3, <1>4, ReplacedText
  <1> HIDE DEF n, t
  <1>8. j \in EditJob  BY <1>3, <1>4, <1>7 DEF EditJob
  <1>9. Exact(j)  BY <1>5, <1>6 DEF Exact, Replaces
  <1> QED  BY <1>2, <1>8, <1>9

(* A client that neither writes nor edits only looks, and its job stays fine. *)
LEMMA LookingFine ==
    ASSUME LInv, NEW c \in Clients,
           \/ Cancelled(c) \/ GlobStart(c) \/ ReadDir(c) \/ StatEntry(c)
           \/ WalkReturns(c) \/ GlobReturns(c) \/ Lookup(c)
    PROVE  FineLooks(c)
  <1> DEFINE j == job[c]
  <1>1. /\ Env(files, dirs)
        /\ Does(c, "glob") => GlobFine(j, files)
        /\ Does(c, "grep") => GrepFine(j, files)
        /\ Does(c, "discover") => DiscoverFine(j, files, dirs)
    <2>1. Env(files, dirs) /\ JobFine(j, files, dirs)  BY DEF LInv
    <2> QED  BY <2>1, ToolOf DEF Does
  <1>2. ASSUME GlobGoes(c) PROVE FineLooks(c)
        BY <1>2, NoJobFine DEF GlobGoes, FineLooks, Looking
  <1>3. ASSUME Looks(c, NoJob) PROVE FineLooks(c)
        BY <1>3, NoJobFine DEF FineLooks
  <1>5. CASE Cancelled(c)
    <2>1. CASE Does(c, "glob")  BY <1>1, <1>2, <1>5, <2>1, CancelledGoes
    <2>2. CASE ~Does(c, "glob")  BY <1>3, <1>5, <2>2 DEF Cancelled
    <2> QED  BY <2>1, <2>2
  <1>6. CASE GlobStart(c)
    <2>1. PICK r \in Roots, m \in Patterns : Globs(c, r, m, NoWord)
          BY <1>6 DEF GlobStart
    <2>2. m \in SUBSET Names  BY WorkspaceAssumption
    <2> QED  BY <1>2, <2>1, <2>2, GlobStarts
  <1>7. CASE ReadDir(c)
    <2>1. Does(c, "glob")  BY <1>7 DEF ReadDir, Walking
    <2> QED  BY <1>1, <1>2, <1>7, <2>1, ReadDirGoes
  <1>8. CASE StatEntry(c)
    <2>1. Does(c, "glob")  BY <1>8 DEF StatEntry, Walking
    <2> QED  BY <1>1, <1>2, <1>8, <2>1, StatEntryGoes
  <1>9. CASE WalkReturns(c)
    <2>1. Does(c, "glob")  BY <1>9 DEF WalkReturns, Walking
    <2> QED  BY <1>1, <1>2, <1>9, <2>1, WalkReturnsGoes
  <1>10. CASE GlobReturns(c)  BY <1>3, <1>10 DEF GlobReturns
  <1>11. CASE ReadStat(c)
    <2>1. PICK p \in Roots :
              Looks(c, [tool |-> "read", path |-> p, list |-> IsDirectory(p)])
          BY <1>11 DEF ReadStat
    <2>2. p \in Paths /\ IsDirectory(p) \in BOOLEAN
          BY WorkspaceAssumption DEF IsDirectory
    <2>3. [tool |-> "read", path |-> p, list |-> IsDirectory(p)] \in ReadJob
          BY <2>2 DEF ReadJob
    <2> QED  BY <2>1, <2>3 DEF FineLooks, Looking
  <1>12. CASE ReadReturns(c)  BY <1>3, <1>12 DEF ReadReturns
  <1>13. CASE GrepStart(c)
    <2>1. PICK r \in Roots, w \in Searches : Globs(c, r, Names, w)
          BY <1>13 DEF GrepStart
    <2>2. w \in Words \cup {NoWord}  BY WorkspaceAssumption
    <2> QED  BY <1>2, <2>1, <2>2, GlobStarts
  <1>14. CASE GrepFiles(c)
    <2>1. Does(c, "glob")  BY <1>14 DEF GrepFiles
    <2> QED  BY <1>1, <1>14, <2>1, GrepFilesGoes
  <1>15. CASE GrepFile(c)
    <2>1. Does(c, "grep")  BY <1>15 DEF GrepFile
    <2> QED  BY <1>1, <1>15, <2>1, GrepFileGoes
  <1>16. CASE GrepReturns(c)  BY <1>3, <1>16 DEF GrepReturns
  <1>17. CASE DiscoverStart(c)  BY <1>1, <1>17, DiscoverStartGoes
  <1>18. CASE Exists(c)
    <2>1. Does(c, "discover")  BY <1>18 DEF Exists, Discovers
    <2> QED  BY <1>1, <1>18, <2>1, ExistsGoes
  <1>19. CASE DiscoverFile(c)
    <2>1. Does(c, "discover")  BY <1>19 DEF DiscoverFile, Discovers
    <2> QED  BY <1>1, <1>19, <2>1, DiscoverFileGoes
  <1>20. CASE DiscoverDir(c)
    <2>1. Does(c, "discover")  BY <1>20 DEF DiscoverDir, Discovers
    <2> QED  BY <1>1, <1>20, <2>1, DiscoverDirGoes
  <1>21. CASE DiscoverReturns(c)  BY <1>3, <1>21 DEF DiscoverReturns
  <1>22. CASE LookupCancelled(c)
    <2> DEFINE k == [j EXCEPT !.done = TRUE, !.steady = {}]
    <2>1. j.tool \in {"grep", "discover"} /\ Looks(c, k)  BY <1>22 DEF LookupCancelled
    <2>2. CASE j.tool = "grep"
      <3>1. GrepFine(j, files) /\ j \in GrepJob  BY <1>1, <2>2 DEF Does, GrepFine
      <3>2. /\ k \in GrepJob /\ k.root = j.root /\ k.word = j.word /\ k.left = j.left
            /\ k.cut = j.cut /\ k.matches = j.matches /\ k.steady = {}
            BY <3>1 DEF GrepJob
      <3> HIDE DEF k
      <3>3. GrepFine(k, files)  BY <3>1, <3>2 DEF GrepFine
      <3> QED  BY <2>1, <3>3 DEF FineLooks, Looking
    <2>3. CASE j.tool = "discover"
      <3>1. DiscoverFine(j, files, dirs) /\ j \in DiscoverJob
            BY <1>1, <2>3 DEF Does, DiscoverFine
      <3>2. /\ k \in DiscoverJob /\ k.todo = j.todo /\ k.found = j.found
            /\ k.failed = j.failed /\ k.calm = j.calm /\ k.steady = {}
            BY <3>1 DEF DiscoverJob
      <3> HIDE DEF k
      <3>3. DiscoverFine(k, files, dirs)  BY <3>1, <3>2 DEF DiscoverFine
      <3> QED  BY <2>1, <3>3 DEF FineLooks, Looking
    <2> QED  BY <2>1, <2>2, <2>3
  <1> HIDE DEF j
  <1>l. CASE Lookup(c)
        BY <1>l, <1>11, <1>12, <1>13, <1>14, <1>15, <1>16, <1>17, <1>18, <1>19, <1>20,
           <1>21, <1>22 DEF Lookup
  <1> QED  BY <1>5, <1>6, <1>7, <1>8, <1>9, <1>10, <1>l

LEMMA InitLInv == Init => LInv
  <1> SUFFICES ASSUME Init PROVE LInv  OBVIOUS
  <1>1. Env(files, dirs)  BY InitEnv
  <1>2. job = [c \in Clients |-> NoJob]  BY DEF Init
  <1>3. job = [c \in Clients |-> job[c]]  BY <1>2
  <1>4. \A c \in Clients : JobFine(job[c], files, dirs)  BY <1>2, NoJobFine
  <1> QED  BY <1>1, <1>3, <1>4 DEF LInv

LEMMA NextLInv == LInv /\ [LookupsNext]_vars => LInv'
  <1> SUFFICES ASSUME LInv, [LookupsNext]_vars PROVE LInv'  OBVIOUS
  <1>0. Env(files, dirs)  BY DEF LInv
  <1>1. ASSUME NEW c \in Clients, Write(c) PROVE LInv'
    <2>1. PICK p \in Own[c], text \in Written[c] : WriteFile(p, text)  BY <1>1 DEF Write
    <2>2. p \in Paths /\ text \in Texts  BY WorkspaceAssumption
    <2>3. Env(files', dirs')  BY <1>0, <2>1, <2>2, WriteKeepsEnv
    <2>4. Becomes(c, NoJob)  BY <1>1 DEF Write
    <2> QED  BY <2>3, <2>4, NoJobFine, StepFine
  <1>2. ASSUME NEW c \in Clients, Arrange(c) PROVE LInv'
    <2>1. PICK p \in Own[c] : Mkdir(p) \/ RemoveAll(p)  BY <1>2 DEF Arrange
    <2>2. p \in Paths  BY WorkspaceAssumption
    <2>3. Env(files', dirs')  BY <1>0, <2>1, <2>2, MkdirKeepsEnv, RemoveKeepsEnv
    <2>4. Becomes(c, NoJob)  BY <1>2 DEF Arrange
    <2> QED  BY <2>3, <2>4, NoJobFine, StepFine
  <1>3. ASSUME NEW c \in Clients, EditWrite(c) PROVE LInv'
    <2>1. job[c] \in EditJob
      <3>1. JobFine(job[c], files, dirs) /\ job[c].tool = "edit"
            BY <1>3 DEF LInv, EditWrite, Does
      <3> QED  BY <3>1, ToolOf
    <2>2. job[c].path \in Paths /\ job[c].text \in Texts  BY <2>1 DEF EditJob
    <2>3. Env(files', dirs')  BY <1>0, <1>3, <2>2, WriteKeepsEnv DEF EditWrite
    <2>4. Becomes(c, NoJob)  BY <1>3 DEF EditWrite
    <2> QED  BY <2>3, <2>4, NoJobFine, StepFine
  <1>4. ASSUME NEW c \in Clients, FineLooks(c) PROVE LInv'  BY <1>4, FineLooksInv
  <1>5. ASSUME UNCHANGED vars PROVE LInv'
    <2>1. files' = files /\ dirs' = dirs /\ job' = job  BY <1>5 DEF vars
    <2> QED  BY <2>1 DEF LInv
  <1>6. ASSUME NEW c \in Clients, Lookup(c) PROVE LInv'
    <2>1. FineLooks(c)  BY <1>6, LookingFine
    <2> QED  BY <1>4, <2>1
  <1>7. ASSUME NEW c \in Clients, EditRead(c) PROVE LInv'
    <2>1. PICK j \in EditJob : Looks(c, j)  BY <1>0, <1>7, EditReads
    <2>2. Env(files', dirs') /\ Becomes(c, j)  BY <1>0, <2>1 DEF Looks
    <2> QED  BY <2>2, StepFine DEF JobFine
  <1>8. ASSUME Next PROVE LInv'
    <2>1. PICK c \in Clients :
              \/ Write(c) \/ Arrange(c) \/ EditRead(c) \/ EditWrite(c) \/ Cancelled(c)
              \/ GlobStart(c) \/ ReadDir(c) \/ StatEntry(c) \/ WalkReturns(c)
              \/ GlobReturns(c)
          BY <1>8 DEF Next
    <2>2. Write(c) \/ Arrange(c) \/ EditRead(c) \/ EditWrite(c) \/ FineLooks(c)
          BY <2>1, LookingFine
    <2> QED  BY <1>1, <1>2, <1>3, <1>4, <1>7, <2>2
  <1> QED  BY <1>5, <1>6, <1>8 DEF LookupsNext

LEMMA ToolsFine == LookupsSpec => []LInv
  <1>1. Init => LInv  BY InitLInv
  <1>2. LInv /\ [LookupsNext]_vars => LInv'  BY NextLInv
  <1> QED  BY <1>1, <1>2, PTL DEF LookupsSpec

LEMMA JobOf ==
    ASSUME LInv, NEW c \in Clients
    PROVE  /\ Does(c, "glob") => GlobFine(job[c], files)
           /\ Does(c, "grep") => GrepFine(job[c], files)
           /\ Does(c, "discover") => DiscoverFine(job[c], files, dirs)
  <1>1. JobFine(job[c], files, dirs)  BY DEF LInv
  <1> QED  BY <1>1, ToolOf DEF Does

-----------------------------------------------------------------------------
(* The theorems. *)

(* Every file and every directory of the environment can be reached from the
   directories above it, in every reachable state. *)
THEOREM TreeStaysClosed == LookupsSpec => []TreeClosed
  <1>1. LInv => TreeClosed
    <2> SUFFICES ASSUME Env(files, dirs), NEW p \in Paths \ {<<>>}, IsFile(p) \/ p \in dirs
                 PROVE  Front(p) \in dirs
        BY DEF LInv, TreeClosed
    <2>1. p \in Seq(Names) /\ Front(p) \in Paths /\ Front(p) # p
          BY WorkspaceAssumption, FrontOf
    <2>2. Front(p) \in Up(p)
      <3>1. Len(p) \in Nat /\ Len(p) # 0 /\ Front(p) \in Seq(Names)
            BY <2>1, WorkspaceAssumption
      <3>2. Len(Front(p)) = Len(p) - 1 /\ \A k \in 1..(Len(p) - 1) : Front(p)[k] = p[k]
            BY <2>1, FrontNames
      <3>3. IsPrefix(Front(p), p)  BY <2>1, <3>1, <3>2, PrefixAt
      <3> QED  BY <2>1, <3>3 DEF Up
    <2> QED  BY <2>1, <2>2 DEF Env, There, IsFile
  <1> QED  BY <1>1, ToolsFine, PTL

(* The environment and the tools in progress have their types, whatever the clients do
   to one another's files. *)
THEOREM ToolsTyped == LookupsSpec => []LookupsTypeOK
  <1>1. LInv => LookupsTypeOK
    <2> SUFFICES ASSUME LInv PROVE LookupsTypeOK  OBVIOUS
    <2> DEFINE T == {NoJob} \cup EditJob \cup GlobJob \cup ReadJob \cup GrepJob
                      \cup DiscoverJob
    <2>1. \A c \in Clients : job[c] \in T
      <3> TAKE c \in Clients
      <3>1. JobFine(job[c], files, dirs)  BY DEF LInv
      <3> QED  BY <3>1 DEF JobFine, Looking, GlobFine, GlobShape, GrepFine, DiscoverFine
    <2> HIDE DEF T
    <2>2. job \in [Clients -> T]
      <3>1. job = [c \in Clients |-> job[c]]  BY DEF LInv
      <3> QED  BY <2>1, <3>1
    <2> QED  BY <2>2 DEF LookupsTypeOK, LInv, Env, T
  <1> QED  BY <1>1, ToolsFine, PTL

(* A glob that returns lists every file that matches and was in plain sight all along,
   unless its result is full: what others write and remove meanwhile hides nothing
   else, in a tree of any depth. *)
THEOREM GlobIsComplete == LookupsSpec => []GlobFindsSteadyFiles
  <1>1. LInv => GlobFindsSteadyFiles
    <2> SUFFICES ASSUME LInv, NEW c \in Clients, Does(c, "glob"), ~Walking(c)
                 PROVE  \/ Full(c, job[c].out)
                        \/ \A p \in job[c].steady :
                              Last(p) \in job[c].match => p \in job[c].out
        BY DEF GlobFindsSteadyFiles
    <2>1. GlobSees(job[c], files)  BY JobOf DEF GlobFine
    <2>2. Len(job[c].frames) = 0  BY DEF Walking
    <2>3. ~Enough(job[c]) => \A p \in job[c].steady : ~Misses(job[c], p)
          BY <2>1, <2>2 DEF GlobSees
    <2> QED  BY <2>3 DEF Enough, Full, Misses
  <1> QED  BY <1>1, ToolsFine, PTL

(* The result of a glob exceeds its limit by less than the depth of the file that lies
   deepest in it: each directory on the way to the file that filled the result adds
   one more at most. *)
THEOREM GlobIsBounded == LookupsSpec => []GlobBounded
  <1>1. LInv => GlobBounded
    <2> SUFFICES ASSUME LInv, NEW c \in Clients, Does(c, "glob"), Full(c, job[c].out)
                 PROVE  Cardinality(job[c].out) < job[c].limit + DepthOf(job[c])
        BY DEF GlobBounded
    <2> DEFINE j == job[c]
               D == {Len(p) - Len(j.root) : p \in j.out}
    <2>1. GlobFew(j) /\ j \in GlobJob /\ Enough(j)
          BY JobOf DEF GlobFine, GlobShape, Enough, Full
    <2>2. PICK p \in j.out : Cardinality(j.out) + Open(j) < j.limit + Len(p) - Len(j.root)
          BY <2>1 DEF GlobFew
    <2> HIDE DEF j
    <2>3. /\ j.frames \in Seq(Frame) /\ Len(j.root) \in Nat /\ j.out \subseteq Paths
          /\ IsFiniteSet(j.out) /\ Cardinality(j.out) \in Nat /\ j.limit \in Nat
          BY <2>1, GlobTypes
    <2>4. \A q \in j.out : Len(q) \in Nat
      <3>1. \A q \in j.out : q \in Seq(Names)  BY <2>3, WorkspaceAssumption
      <3> QED  BY <3>1
    <2>5. Open(j) \in Nat
      <3>1. Len(j.frames) \in Nat /\ (j.frames # <<>> => Len(j.frames) # 0)  BY <2>3
      <3> QED  BY <3>1 DEF Open
    <2>6. D \subseteq Int /\ D # {} /\ Len(p) - Len(j.root) \in D  BY <2>3, <2>4
    <2>7. IsFiniteSet(D)
      <3> DEFINE g == [q \in j.out |-> Len(q) - Len(j.root)]
      <3>1. g \in Surjection(j.out, D)  BY DEF Surjection
      <3> HIDE DEF g, D
      <3> QED  BY <2>3, <3>1, FS_Surjection
    <2>8. DepthOf(j) = Max(D)  BY DEF DepthOf
    <2> HIDE DEF D
    <2>9. Max(D) \in Int /\ Max(D) >= Len(p) - Len(j.root)  BY <2>6, <2>7, GreatestOf
    <2> DEFINE d == DepthOf(j)
    <2>10. d \in Int /\ d >= Len(p) - Len(j.root)  BY <2>8, <2>9
    <2> HIDE DEF d
    <2>11. Cardinality(j.out) < j.limit + d
      <3>1. Len(p) \in Nat  BY <2>4
      <3> QED  BY <2>2, <2>3, <2>5, <2>10, <3>1
    <2> QED  BY <2>11 DEF d, j
  <1> QED  BY <1>1, ToolsFine, PTL

(* A grep that returns shows every line with the word of every file that was in plain
   sight and unchanged all along, unless it has as many as it may show, or its glob
   was full; and never more than it may. *)
THEOREM GrepIsComplete == LookupsSpec => []GrepFindsSteadyLines
  <1>1. LInv => GrepFindsSteadyLines
    <2> SUFFICES ASSUME LInv, NEW c \in Clients, Does(c, "grep"), job[c].left = <<>>
                 PROVE  /\ Cardinality(job[c].matches) <= MaxGrepMatches
                        /\ \/ job[c].cut \/ Cardinality(job[c].matches) = MaxGrepMatches
                           \/ \A p \in job[c].steady :
                                 Lines(p, job[c].word) \subseteq job[c].matches
        BY DEF GrepFindsSteadyLines
    <2>1. GrepFine(job[c], files)  BY JobOf
    <2>2. ToSet(job[c].left) = {}  BY DEF ToSet
    <2>3. \A p : Lines(p, job[c].word) = LinesIn(files, p, job[c].word)
          BY DEF Lines, LinesIn
    <2> QED  BY <2>1, <2>2, <2>3 DEF GrepFine
  <1> QED  BY <1>1, ToolsFine, PTL

(* A discovery that succeeds has read every AGENTS.md, skill and role that was there
   and unchanged all along. *)
THEOREM DiscoveryIsComplete == LookupsSpec => []DiscoveryFindsSteady
  <1>1. LInv => DiscoveryFindsSteady
    <2> SUFFICES ASSUME LInv, NEW c \in Clients, Does(c, "discover"), job[c].todo = <<>>,
                        job[c].failed = "no", NEW p \in job[c].steady, Wanted(p)
                 PROVE  p \in job[c].found
        BY DEF DiscoveryFindsSteady
    <2>1. DiscoverFine(job[c], files, dirs)  BY JobOf
    <2>2. ToSet(job[c].todo) = {}  BY DEF ToSet
    <2> QED  BY <2>1, <2>2 DEF DiscoverFine
  <1> QED  BY <1>1, ToolsFine, PTL

(* NewAgent fails for the sake of a missing file or directory only if something was
   removed between two of its steps. *)
THEOREM DiscoveryFailsForCause == LookupsSpec => []DiscoveryFailsIfDisturbed
  <1>1. LInv => DiscoveryFailsIfDisturbed
        BY JobOf DEF DiscoveryFailsIfDisturbed, DiscoverFine
  <1> QED  BY <1>1, ToolsFine, PTL

-----------------------------------------------------------------------------
(* What read shows.  Sums of two ints wrap around once at most; the text and the lines
   read may show fit in an int, so only the sum of offset and limit can. *)

LEMMA WrapOf ==
    ASSUME NEW n \in Int
    PROVE  /\ -MaxInt - 1 <= n /\ n <= MaxInt => Wrap(n) = n
           /\ MaxInt < n /\ n < 2 * MaxInt + 2 => Wrap(n) = n - 2 * (MaxInt + 1)
           /\ -2 * MaxInt - 2 < n /\ n < -MaxInt - 1 => Wrap(n) = n + 2 * (MaxInt + 1)
  <1> DEFINE b == 2 * (MaxInt + 1)
             a == n + MaxInt + 1
  <1>1. MaxInt \in Nat \ {0} /\ b \in Nat \ {0} /\ a \in Int  BY LookupsAssumption
  <1>2. ASSUME NEW d \in Nat \ {0}, NEW c \in Int
        PROVE  /\ 0 <= c /\ c < d => c % d = c
               /\ d <= c /\ c < 2 * d => c % d = c - d
               /\ -d <= c /\ c < 0 => c % d = c + d
    <2>1. 0 <= c /\ c < d => c % d = c  OBVIOUS
    <2>2. d <= c /\ c < 2 * d => c % d = c - d  OBVIOUS
    <2>3. -d <= c /\ c < 0 => c % d = c + d  OBVIOUS
    <2> QED  BY <2>1, <2>2, <2>3
  <1>3. Wrap(n) = (a % b) - (MaxInt + 1)  BY DEF Wrap
  <1>4. /\ 0 <= a /\ a < b => a % b = a
        /\ b <= a /\ a < 2 * b => a % b = a - b
        /\ -b <= a /\ a < 0 => a % b = a + b
    <2> HIDE DEF a, b
    <2> QED  BY <1>1, <1>2
  <1>5. b = 2 * (MaxInt + 1) /\ a = n + MaxInt + 1  OBVIOUS
  <1> DEFINE r == a % b
  <1>6. Wrap(n) = r - (MaxInt + 1)  BY <1>3
  <1>7. /\ 0 <= a /\ a < b => r = a
        /\ b <= a /\ a < 2 * b => r = a - b
        /\ -b <= a /\ a < 0 => r = a + b
        BY <1>4
  <1> HIDE DEF a, b, r
  <1>8. CASE -MaxInt - 1 <= n /\ n <= MaxInt  BY <1>1, <1>5, <1>6, <1>7, <1>8
  <1>9. CASE MaxInt < n /\ n < 2 * MaxInt + 2  BY <1>1, <1>5, <1>6, <1>7, <1>9
  <1>10. CASE -2 * MaxInt - 2 < n /\ n < -MaxInt - 1  BY <1>1, <1>5, <1>6, <1>7, <1>10
  <1> QED  BY <1>8, <1>9, <1>10

(* The line after the last one shown, by the code's arithmetic and by plain sums. *)
LEMMA LastShown ==
    ASSUME NEW N \in Nat, N <= MaxWords, NEW s \in Nat, s < N,
           NEW limit \in (-MaxInt - 1)..MaxInt
    PROVE  LET end  == IF limit > 0 /\ Wrap(s + limit) < N THEN Wrap(s + limit) ELSE N
               last == IF Wrap(end - s) > MaxReadLines THEN s + MaxReadLines ELSE end
           IN  /\ last \in Int
               /\ last \notin s..N <=> /\ s + limit > MaxInt
                                       /\ N \in (s + 1)..(s + MaxReadLines - 1)
               /\ last \in s..N => \A i \in 1..N :
                     i \in (s + 1)..last <=> /\ i > s /\ i <= s + MaxReadLines
                                             /\ limit > 0 => i <= s + limit
  <1> DEFINE w    == Wrap(s + limit)
             end  == IF limit > 0 /\ w < N THEN w ELSE N
             v    == Wrap(end - s)
             last == IF v > MaxReadLines THEN s + MaxReadLines ELSE end
  <1>1. /\ MaxInt \in Nat \ {0} /\ MaxReadLines \in Nat \ {0} /\ MaxWords \in Nat
        /\ MaxWords + MaxReadLines <= MaxInt
        BY LookupsAssumption
  <1>2. limit \in Int /\ limit <= MaxInt /\ -MaxInt - 1 <= limit  BY <1>1
  <1> DEFINE InLines(i) == i > s /\ i <= s + MaxReadLines /\ (limit > 0 => i <= s + limit)
  <1>6. SUFFICES /\ last \in Int
                 /\ s + limit <= MaxInt => last \in s..N
                 /\ s + limit > MaxInt => (last \in s..N <=> s + MaxReadLines <= N)
                 /\ last \in s..N => \A i \in 1..N : i \in (s + 1)..last <=> InLines(i)
    <2>1. s + limit > MaxInt =>
             (s + MaxReadLines <= N <=> N \notin (s + 1)..(s + MaxReadLines - 1))
          BY <1>1, <1>2
    <2>2. s + limit <= MaxInt \/ s + limit > MaxInt  BY <1>1, <1>2
    <2> HIDE DEF last
    <2> QED  BY <1>6, <2>1, <2>2 DEF last, v, end, w
  <1>l. last = IF v > MaxReadLines THEN s + MaxReadLines ELSE end  OBVIOUS
  <1>3. CASE limit <= 0
    <2>1. end = N  BY <1>2, <1>3
    <2>2. v = N - s
      <3>1. N - s \in Int /\ -MaxInt - 1 <= N - s /\ N - s <= MaxInt  BY <1>1
      <3> QED  BY <2>1, <3>1, WrapOf
    <2> HIDE DEF end, v
    <2>3. last = IF N - s > MaxReadLines THEN s + MaxReadLines ELSE N  BY <2>1, <2>2
    <2> HIDE DEF last
    <2>4. last \in s..N /\ s + limit <= MaxInt  BY <1>1, <1>2, <1>3, <2>3
    <2>5. \A i \in 1..N : i \in (s + 1)..last <=> InLines(i)
          BY <1>1, <1>2, <1>3, <2>3
    <2> QED  BY <1>1, <1>2, <2>4, <2>5
  <1>4. CASE limit > 0 /\ s + limit <= MaxInt
    <2>1. w = s + limit
      <3>1. s + limit \in Int /\ -MaxInt - 1 <= s + limit  BY <1>1, <1>2, <1>4
      <3> QED  BY <1>4, <3>1, WrapOf
    <2> HIDE DEF w
    <2>2. /\ end = IF s + limit < N THEN s + limit ELSE N
          /\ end \in Int /\ -MaxInt - 1 <= end - s /\ end - s <= MaxInt
          BY <1>1, <1>2, <1>4, <2>1
    <2> HIDE DEF end
    <2>3. v = end - s
      <3>1. end - s \in Int  BY <2>2
      <3> QED  BY <2>2, <3>1, WrapOf
    <2> HIDE DEF v
    <2>4. last = IF end - s > MaxReadLines THEN s + MaxReadLines ELSE end  BY <2>3
    <2> HIDE DEF last
    <2>5. last \in s..N  BY <1>1, <1>2, <1>4, <2>2, <2>4
    <2>6. \A i \in 1..N : i \in (s + 1)..last <=> InLines(i)
          BY <1>1, <1>2, <1>4, <2>2, <2>4
    <2> QED  BY <1>1, <1>2, <1>4, <2>5, <2>6
  <1>5. CASE limit > 0 /\ s + limit > MaxInt
    <2>1. w = s + limit - 2 * (MaxInt + 1)
      <3> DEFINE d == s + limit
      <3>1. d \in Int /\ MaxInt < d /\ d < 2 * MaxInt + 2  BY <1>1, <1>2, <1>5
      <3> HIDE DEF d
      <3>2. Wrap(d) = d - 2 * (MaxInt + 1)  BY <3>1, WrapOf
      <3> QED  BY <1>1, <1>2, <3>2 DEF d
    <2> HIDE DEF w
    <2>2. end = s + limit - 2 * (MaxInt + 1)  BY <1>1, <1>2, <1>5, <2>1
    <2> HIDE DEF end
    <2>3. v = limit
      <3> DEFINE d == end - s
      <3>1. d = limit - 2 * (MaxInt + 1)  BY <1>1, <1>2, <2>2
      <3> HIDE DEF d
      <3>2. d \in Int /\ -2 * MaxInt - 2 < d /\ d < -MaxInt - 1  BY <1>1, <1>2, <1>5, <3>1
      <3>3. Wrap(d) = d + 2 * (MaxInt + 1)  BY <3>2, WrapOf
      <3>4. Wrap(d) = limit  BY <1>1, <1>2, <3>1, <3>3
      <3> QED  BY <3>4 DEF d
    <2> HIDE DEF v
    <2>4. limit > MaxReadLines  BY <1>1, <1>2, <1>5
    <2>5. last = s + MaxReadLines  BY <2>3, <2>4
    <2> HIDE DEF last
    <2>6. last \in Int /\ (last \in s..N <=> s + MaxReadLines <= N)  BY <1>1, <2>5
    <2>7. last \in s..N => \A i \in 1..N : i \in (s + 1)..last <=> InLines(i)
          BY <1>1, <1>2, <2>4, <2>5
    <2> QED  BY <1>1, <1>2, <1>5, <2>6, <2>7
  <1> HIDE DEF last, InLines
  <1>7. limit <= 0 \/ (limit > 0 /\ s + limit <= MaxInt) \/ (limit > 0 /\ s + limit > MaxInt)
        BY <1>1, <1>2
  <1> QED  BY <1>3, <1>4, <1>5, <1>7

(* What read shows of a file: at most limit lines from the offset on, and no more than
   fit; except that it panics near the end of a file if offset and limit add up to
   more than an int holds.  For every text, every width of int and every argument. *)
THEOREM ReadShowsItsSlice == LookupsSpec => []ReadShowsSlice
  <1>1. LInv => ReadShowsSlice
    <2> SUFFICES ASSUME LInv, NEW c \in Clients, Does(c, "read"), IsFile(job[c].path),
                        NEW offset \in Args, NEW limit \in Args
                 PROVE  LET text  == files[job[c].path]
                            start == Max({offset, 1})
                            lines == {i \in DOMAIN text :
                                        /\ i >= start /\ i < start + MaxReadLines
                                        /\ limit > 0 => i < start + limit}
                            shown == [i \in 1..Cardinality(lines) |-> text[start + i - 1]]
                        IN  Shown(text, offset, limit) =
                              IF /\ start - 1 + limit > MaxInt
                                 /\ Len(text) \in start..(start + MaxReadLines - 2)
                              THEN Panic ELSE LimitString(shown, MaxReadBytes)
        BY DEF ReadShowsSlice
    <2> DEFINE text  == files[job[c].path]
               start == Max({offset, 1})
               lines == {i \in DOMAIN text :
                           /\ i >= start /\ i < start + MaxReadLines
                           /\ limit > 0 => i < start + limit}
               shown == [i \in 1..Cardinality(lines) |-> text[start + i - 1]]
               N     == Len(text)
               s     == IF offset > 0 THEN offset - 1 ELSE 0
               end   == IF limit > 0 /\ Wrap(s + limit) < N THEN Wrap(s + limit) ELSE N
               last  == IF Wrap(end - s) > MaxReadLines THEN s + MaxReadLines ELSE end
    <2>1. /\ MaxInt \in Nat \ {0} /\ MaxReadLines \in Nat \ {0} /\ MaxWords \in Nat
          /\ MaxWords + MaxReadLines <= MaxInt /\ offset \in Int /\ offset <= MaxInt
          /\ limit \in (-MaxInt - 1)..MaxInt /\ limit \in Int /\ limit <= MaxInt
          BY LookupsAssumption
    <2>2. text \in Seq(Words) /\ N \in Nat /\ N <= MaxWords /\ DOMAIN text = 1..N
          /\ \A i \in 1..N : text[i] \in Words
      <3>1. JobFine(job[c], files, dirs) /\ job[c].tool = "read"  BY DEF LInv, Does
      <3>2. job[c].path \in Paths
        <4>1. job[c] \in ReadJob  BY <3>1, ToolOf
        <4> QED  BY <4>1 DEF ReadJob
      <3>3. text \in Texts  BY <3>2 DEF LInv, Env, IsFile
      <3> HIDE DEF text
      <3>4. PICK n \in 0..MaxWords : text \in [1..n -> Words]  BY <3>3 DEF Texts
      <3>5. n \in Nat /\ n <= MaxWords  BY <2>1, <3>4
      <3>6. text \in Seq(Words) /\ Len(text) = n  BY <3>4, <3>5
      <3> QED  BY <3>4, <3>5, <3>6
    <2>3. start = s + 1 /\ s \in Nat
      <3> DEFINE S == {offset, 1}
      <3>1. IsFiniteSet(S) /\ S \subseteq Int /\ S # {}
        <4>1. IsFiniteSet({offset}) /\ IsFiniteSet({1})  BY FS_Singleton
        <4>2. IsFiniteSet({offset} \cup {1}) /\ S = {offset} \cup {1}  BY <4>1, FS_Union
        <4> QED  BY <2>1, <4>2
      <3>2. offset \in S /\ 1 \in S /\ \A x \in S : x = offset \/ x = 1  OBVIOUS
      <3> HIDE DEF S
      <3>3. Max(S) \in S /\ Max(S) >= offset /\ Max(S) >= 1  BY <3>1, <3>2, GreatestOf
      <3> DEFINE m == Max(S)
      <3>4. (m = offset \/ m = 1) /\ m >= offset /\ m >= 1  BY <3>2, <3>3
      <3>5. start = m  BY DEF S
      <3> HIDE DEF m, start
      <3> QED  BY <2>1, <3>4, <3>5
    <2>4. Shown(text, offset, limit) =
             IF s >= N THEN <<>> ELSE IF last \notin s..N THEN Panic
             ELSE LimitString(SubSeq(text, s + 1, last), MaxReadBytes)
          BY DEF Shown
    <2>5. \A i : i \in lines <=> /\ i \in 1..N /\ i > s /\ i <= s + MaxReadLines
                                 /\ limit > 0 => i <= s + limit
      <3>1. \A i \in 1..N : /\ i >= start <=> i > s
                            /\ i < start + MaxReadLines <=> i <= s + MaxReadLines
                            /\ i < start + limit <=> i <= s + limit
        <4> HIDE DEF start, s
        <4> QED  BY <2>1, <2>3
      <3> HIDE DEF start, s, text, N
      <3> QED  BY <2>2, <3>1
    <2>6. shown = [i \in 1..Cardinality(lines) |-> text[s + 1 + i - 1]]  BY <2>3
    <2> DEFINE Cut == /\ start - 1 + limit > MaxInt
                      /\ N \in start..(start + MaxReadLines - 2)
    <2>7. Cut <=> s + limit > MaxInt /\ N \in (s + 1)..(s + MaxReadLines - 1)
      <3> HIDE DEF start, s, N
      <3> QED  BY <2>1, <2>2, <2>3
    <2>8. SUFFICES Shown(text, offset, limit) =
                      IF Cut THEN Panic ELSE LimitString(shown, MaxReadBytes)
          OBVIOUS
    <2>9. CASE s >= N
      <3> HIDE DEF s, N, text, last, lines, shown, Cut
      <3>1. \A i : i \notin lines  BY <2>2, <2>3, <2>5, <2>9
      <3>2. Cardinality(lines) = 0
        <4>1. lines = {}  BY <3>1
        <4> QED  BY <4>1, FS_EmptySet
      <3>3. shown = <<>>  BY <2>6, <3>2
      <3>4. ~Cut  BY <2>1, <2>2, <2>3, <2>7, <2>9
      <3>5. LimitString(<<>>, MaxReadBytes) = <<>>
        <4>1. Len(<<>>) <= MaxReadBytes  BY LookupsAssumption
        <4> QED  BY <4>1 DEF LimitString
      <3> QED  BY <2>4, <2>9, <3>3, <3>4, <3>5
    <2>10. CASE s < N
      <3>1. /\ last \in Int
            /\ last \notin s..N <=> /\ s + limit > MaxInt
                                    /\ N \in (s + 1)..(s + MaxReadLines - 1)
            /\ last \in s..N => \A i \in 1..N :
                  i \in (s + 1)..last <=> /\ i > s /\ i <= s + MaxReadLines
                                          /\ limit > 0 => i <= s + limit
        <4> HIDE DEF s, N
        <4> QED  BY <2>1, <2>2, <2>3, <2>10, LastShown
      <3> HIDE DEF s, N, text, last, lines, shown, Cut
      <3>2. CASE last \notin s..N  BY <2>2, <2>3, <2>4, <2>7, <2>10, <3>1, <3>2
      <3>3. CASE last \in s..N
        <4>1. ~Cut  BY <2>7, <3>1, <3>3
        <4>2. lines = (s + 1)..last
          <5>1. \A i \in (s + 1)..last : i \in 1..N  BY <2>2, <2>3, <3>3
          <5> QED  BY <2>5, <3>1, <3>3, <5>1
        <4> DEFINE n == last - s
        <4>3. n \in Nat /\ last = s + n  BY <2>2, <2>3, <3>3
        <4>4. Cardinality(lines) = n
          <5>1. Cardinality((s + 1)..last) = IF s + 1 > last THEN 0 ELSE last - (s + 1) + 1
                BY <2>3, <3>1, FS_Interval
          <5> QED  BY <2>3, <4>2, <4>3, <5>1
        <4>5. shown = [i \in 1..n |-> text[s + 1 + i - 1]]  BY <2>6, <4>4
        <4> DEFINE sub == SubSeq(text, s + 1, last)
        <4>6. /\ sub \in Seq(Words) /\ Len(sub) = n
              /\ \A i \in 1..n : sub[i] = text[s + 1 + i - 1]
          <5>1. \A i \in (s + 1)..last : text[i] \in Words
            <6>1. \A i \in (s + 1)..last : i \in 1..N  BY <2>2, <2>3, <3>3
            <6> QED  BY <2>2, <6>1
          <5>2. /\ sub \in Seq(Words)
                /\ Len(sub) = IF s + 1 <= last THEN last - (s + 1) + 1 ELSE 0
                /\ \A i \in 1..(last - (s + 1) + 1) : sub[i] = text[s + 1 + i - 1]
            <6>1. s + 1 \in Int  BY <2>3
            <6> QED  BY <3>1, <5>1, <6>1, SubSeqProperties
          <5>3. last - (s + 1) + 1 = n /\ (IF s + 1 <= last THEN n ELSE 0) = n
                BY <2>3, <4>3
          <5> HIDE DEF sub, n
          <5> QED  BY <5>2, <5>3
        <4> HIDE DEF sub, n
        <4>7. sub = [i \in 1..n |-> sub[i]]
          <5>1. DOMAIN sub = 1..n /\ sub = [i \in DOMAIN sub |-> sub[i]]  BY <4>6
          <5> QED  BY <5>1
        <4>8. sub = shown  BY <4>5, <4>6, <4>7
        <4>9. ~(s >= N)  BY <2>2, <2>3, <2>10
        <4> QED  BY <2>4, <3>3, <4>1, <4>8, <4>9 DEF sub
      <3> QED  BY <3>2, <3>3
    <2> HIDE DEF s, N
    <2> QED  BY <2>2, <2>3, <2>9, <2>10
  <1> QED  BY <1>1, ToolsFine, PTL

-----------------------------------------------------------------------------
(* Edits.  What an edit is about to write is the replacement in the text it has
   read.  In a file that is private to its client this is also the text the file
   has now: nobody else writes it, and whoever removes a directory above leaves no
   file at all. *)

EditOK(d) == Does(d, "edit") =>
    /\ job[d].path \in Own[d]
    /\ Exact(job[d])
    /\ Private(d, job[d].path) => files[job[d].path] \in {job[d].read, None}

EditInv == LInv /\ \A d \in Clients : EditOK(d)

(* A step of another client leaves an edit as it is. *)
LEMMA OthersEdit ==
    ASSUME LInv, NEW c \in Clients, NEW j, JobFine(j, files, dirs), Becomes(c, j),
           NEW d \in Clients, job'[d].tool = "edit", d # c \/ j.tool # "edit"
    PROVE  d # c /\ job'[d] = job[d] /\ Does(d, "edit")
  <1> DEFINE k == IF d = c THEN j ELSE job[d]
  <1>1. job'[d] = Steady(k) /\ JobFine(k, files, dirs)  BY DEF Becomes, LInv
  <1> HIDE DEF k
  <1>2. k.tool = "edit"
    <2>1. CASE k.tool \in {"glob", "grep"}
      <3>1. Steady(k) = [k EXCEPT !.steady = @ \cap Kept(k)]  BY <2>1 DEF Steady
      <3>2. k \in GlobJob \/ k \in GrepJob
            BY <1>1, <2>1, ToolOf DEF GlobFine, GlobShape, GrepFine
      <3>3. Steady(k).tool = k.tool  BY <3>1, <3>2 DEF GlobJob, GrepJob
      <3> QED  BY <1>1, <2>1, <3>3
    <2>2. CASE k.tool = "discover"
      <3>1. Steady(k) = [k EXCEPT !.steady = @ \cap Unchanged, !.calm = @ /\ Calm]
            BY <2>2 DEF Steady
      <3>2. k \in DiscoverJob  BY <1>1, <2>2, ToolOf DEF DiscoverFine
      <3>3. Steady(k).tool = k.tool  BY <3>1, <3>2 DEF DiscoverJob
      <3> QED  BY <1>1, <2>2, <3>3
    <2>3. CASE k.tool \notin {"glob", "grep", "discover"}  BY <1>1, <2>3 DEF Steady
    <2> QED  BY <2>1, <2>2, <2>3
  <1>3. Steady(k) = k  BY <1>2 DEF Steady
  <1> QED  BY <1>1, <1>2, <1>3 DEF k, Does

(* Another tool's job goes on or starts, and the files of the others stay or go. *)
LEMMA OthersKeepEdits ==
    ASSUME EditInv, NEW c \in Clients, NEW j, Looking(j, files, dirs), Becomes(c, j),
           \A d \in Clients \ {c} : \A p \in Own[d] :
               Private(d, p) => files'[p] \in {files[p], None}
    PROVE  \A d \in Clients : EditOK(d)'
  <1> SUFFICES ASSUME NEW d \in Clients, Does(d, "edit")'
               PROVE  /\ job'[d].path \in Own[d]
                      /\ Exact(job'[d])
                      /\ Private(d, job'[d].path) =>
                             files'[job'[d].path] \in {job'[d].read, None}
      BY DEF EditOK, Exact, Replaces, Private, Places
  <1>1. JobFine(j, files, dirs) /\ j.tool # "edit"
    <2>1. JobFine(j, files, dirs)  BY DEF JobFine
    <2>2. \/ j = NoJob \/ j \in ReadJob \/ j \in GlobJob \/ j \in GrepJob
          \/ j \in DiscoverJob
          BY DEF Looking, GlobFine, GlobShape, GrepFine, DiscoverFine
    <2> QED  BY <2>1, <2>2 DEF NoJob, ReadJob, GlobJob, GrepJob, DiscoverJob
  <1>2. d # c /\ job'[d] = job[d] /\ Does(d, "edit")
        BY <1>1, OthersEdit DEF EditInv, Does
  <1>3. EditOK(d)  BY DEF EditInv
  <1> QED  BY <1>2, <1>3 DEF EditOK

LEMMA LooksKeepEdits ==
    ASSUME EditInv, NEW c \in Clients, FineLooks(c)
    PROVE  \A d \in Clients : EditOK(d)'
  BY OthersKeepEdits DEF FineLooks, Looks

(* A file that is written or removed is the client's own, or is below a directory
   that was removed: what is private to another stays or is gone. *)
LEMMA WritesOwn ==
    ASSUME EditInv, NEW c \in Clients, NEW p \in Own[c],
           (\E text : WriteFile(p, text)) \/ Mkdir(p) \/ RemoveAll(p)
    PROVE  \A d \in Clients \ {c} : \A q \in Own[d] :
               Private(d, q) => files'[q] \in {files[q], None}
  <1> SUFFICES ASSUME NEW d \in Clients \ {c}, NEW q \in Own[d], Private(d, q)
               PROVE  files'[q] \in {files[q], None}
      OBVIOUS
  <1>1. q # p  BY DEF Private
  <1>2. q \in Paths /\ files \in [Paths -> Texts \cup {None}]
        BY WorkspaceAssumption DEF EditInv, LInv, Env
  <1>3. CASE \E text : WriteFile(p, text)  BY <1>1, <1>2, <1>3 DEF WriteFile
  <1>4. CASE Mkdir(p)  BY <1>4 DEF Mkdir
  <1>5. CASE RemoveAll(p)
    <2>1. CASE files' = [files EXCEPT ![p] = None]  BY <1>1, <1>2, <2>1
    <2>2. CASE files' = [r \in Paths |-> IF r \in Below(p) THEN None ELSE files[r]]
          BY <1>2, <2>2
    <2> QED  BY <1>5, <2>1, <2>2 DEF RemoveAll
  <1> QED  BY <1>3, <1>4, <1>5

(* An edit that has read its file is exact at that moment. *)
LEMMA ReadIsExact ==
    ASSUME EditInv, NEW c \in Clients, EditRead(c)
    PROVE  \A d \in Clients : EditOK(d)'
  <1>1. PICK j \in EditJob : /\ Looks(c, j) /\ j.path \in Own[c]
                             /\ j.read = files[j.path] /\ Exact(j)
        BY EditReads DEF EditInv, LInv
  <1>2. files' = files /\ Becomes(c, j)  BY <1>1 DEF Looks
  <1>3. job'[c] = j  BY <1>2 DEF Becomes, Steady, EditJob
  <1>4. ASSUME NEW d \in Clients PROVE EditOK(d)'
    <2> SUFFICES ASSUME Does(d, "edit")'
                 PROVE  /\ job'[d].path \in Own[d]
                        /\ Exact(job'[d])
                        /\ Private(d, job'[d].path) =>
                               files'[job'[d].path] \in {job'[d].read, None}
        BY DEF EditOK, Exact, Replaces, Private, Places
    <2>1. CASE d = c  BY <1>1, <1>2, <1>3, <2>1
    <2>2. CASE d # c
      <3>1. job'[d] = job[d] /\ Does(d, "edit")
            BY <1>2, <2>2, OthersEdit DEF EditInv, JobFine, Does
      <3>2. EditOK(d)  BY DEF EditInv
      <3> QED  BY <1>2, <3>1, <3>2 DEF EditOK
    <2> QED  BY <2>1, <2>2
  <1> QED  BY <1>4

LEMMA EditsStayExact == EditInv /\ [LookupsNext]_vars => EditInv'
  <1> SUFFICES ASSUME EditInv, [LookupsNext]_vars PROVE EditInv'  OBVIOUS
  <1>1. LInv'  BY NextLInv DEF EditInv
  <1>2. ASSUME NEW c \in Clients, FineLooks(c) PROVE EditInv'
        BY <1>1, <1>2, LooksKeepEdits DEF EditInv
  <1>3. ASSUME NEW c \in Clients, NEW p \in Own[c], Becomes(c, NoJob),
               (\E text : WriteFile(p, text)) \/ Mkdir(p) \/ RemoveAll(p)
        PROVE  EditInv'
        BY <1>1, <1>3, WritesOwn, NoJobFine, OthersKeepEdits DEF EditInv
  <1>4. ASSUME NEW c \in Clients, Write(c) PROVE EditInv'
        BY <1>3, <1>4 DEF Write
  <1>5. ASSUME NEW c \in Clients, Arrange(c) PROVE EditInv'
        BY <1>3, <1>5 DEF Arrange
  <1>6. ASSUME NEW c \in Clients, EditRead(c) PROVE EditInv'
        BY <1>1, <1>6, ReadIsExact DEF EditInv
  <1>7. ASSUME NEW c \in Clients, EditWrite(c) PROVE EditInv'
    <2>1. job[c].path \in Own[c]  BY <1>7 DEF EditWrite, EditInv, EditOK
    <2> QED  BY <1>3, <1>7, <2>1 DEF EditWrite
  <1>8. ASSUME UNCHANGED vars PROVE EditInv'
        BY <1>1, <1>8 DEF vars, EditInv, EditOK, Does, Exact, Replaces, Places, Private
  <1> QED
    BY <1>2, <1>4, <1>5, <1>6, <1>7, <1>8, LookingFine DEF LookupsNext, Next, EditInv

(* A step that ends an edit and changes its file. *)
EditStep == \A c \in Clients : EditWrites(c) =>
    /\ Replaces(job[c].read, files'[job[c].path], job[c])
    /\ Private(c, job[c].path) /\ IsFile(job[c].path) => files[job[c].path] = job[c].read

LEMMA EditIsExact == EditInv /\ [LookupsNext]_vars => EditStep
  <1> SUFFICES ASSUME EditInv, LookupsNext \/ UNCHANGED vars,
                      NEW c \in Clients, EditWrites(c)
               PROVE  /\ Replaces(job[c].read, files'[job[c].path], job[c])
                      /\ Private(c, job[c].path) /\ IsFile(job[c].path) =>
                             files[job[c].path] = job[c].read
      BY DEF EditStep
  <1>1. files' # files /\ Does(c, "edit") /\ job'[c].tool # "edit"
        BY DEF EditWrites, Does
  <1>2. EditOK(c)  BY DEF EditInv
  <1>3. JobFine(job[c], files, dirs) /\ Env(files, dirs)  BY DEF EditInv, LInv
  <1>4. job[c] \in EditJob  BY <1>1, <1>3, ToolOf DEF Does
  <1>5. PICK d \in Clients : Write(d) \/ Arrange(d) \/ EditWrite(d)
    <2>1. \A d \in Clients : ~FineLooks(d) /\ ~EditRead(d)
          BY <1>1 DEF FineLooks, Looks, EditRead
    <2> QED  BY <1>1, <2>1, LookingFine DEF LookupsNext, Next, EditInv, vars
  <1>6. d = c
    <2> SUFFICES ASSUME d # c PROVE FALSE  OBVIOUS
    <2>1. job'[c] = Steady(job[c])  BY <1>5 DEF Write, Arrange, EditWrite, Becomes
    <2>2. Steady(job[c]) = job[c]  BY <1>1 DEF Steady, Does
    <2> QED  BY <1>1, <2>1, <2>2 DEF Does
  <1>7. EditWrite(c)  BY <1>1, <1>5, <1>6 DEF Write, Arrange, Idle, Does
  <1>8. files'[job[c].path] = job[c].text
        BY <1>3, <1>4, <1>7 DEF EditWrite, WriteFile, Env, EditJob
  <1>9. Exact(job[c])
        /\ (Private(c, job[c].path) => files[job[c].path] \in {job[c].read, None})
        BY <1>1, <1>2 DEF EditOK
  <1> QED  BY <1>8, <1>9 DEF Exact, IsFile

(* An edit writes the text it has read with the occurrences of oldText replaced and
   nothing else, one only without replaceAll, whatever other clients do; and in a file
   that only its own client changes it has lost nothing between its ReadFile and its
   WriteFile, though it holds no lock. *)
THEOREM EditsAreExact == LookupsSpec => EditReplacesExactly
  <1>1. Init => EditInv
        BY InitLInv DEF EditInv, EditOK, Init, Does, NoJob
  <1>2. EditInv /\ [LookupsNext]_vars => EditInv'  BY EditsStayExact
  <1>3. EditInv /\ [LookupsNext]_vars => EditStep  BY EditIsExact
  <1> QED  BY <1>1, <1>2, <1>3, PTL DEF LookupsSpec, EditReplacesExactly, EditStep

=============================================================================
