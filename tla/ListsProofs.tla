---------------------------- MODULE ListsProofs ----------------------------
(***************************************************************************)
(* What the lists of the translator are made of, and in which order.       *)
(*                                                                         *)
(* The provers do not do induction over data.  Where a list is filtered    *)
(* the least natural number with a property takes its place (LeastNumber). *)
(***************************************************************************)
EXTENDS Lists, FiniteSetTheorems, WellFoundedInduction, TLAPS

(* A set of natural numbers has a least element. *)
LEMMA LeastNumber ==
  ASSUME NEW T, T \subseteq Nat, T # {}
  PROVE  \E x \in T : \A y \in T : x <= y
<1>1. \E x \in T : \A y \in T : <<y, x>> \notin OpToRel(<, Nat)
  BY WFMin, NatLessThanWellFounded, Zenon
<1>2. ASSUME NEW x \in Nat, NEW y \in Nat, <<y, x>> \notin OpToRel(<, Nat) PROVE x <= y
  <2>1. ~ (y < x)
    BY <1>2, Zenon DEF OpToRel
  <2> QED
    BY <2>1
<1> QED
  BY <1>1, <1>2

(***************************************************************************)
(* The filters of the translator: Keep(s, S) goes through the places of s  *)
(* at which there is an element of S, from the first to the last.          *)
(***************************************************************************)
LEMMA KeepPlaces ==
  ASSUME NEW A, NEW s \in Seq(A), NEW S
  PROVE  /\ Keep(s, S) \in Seq(A)
         /\ \E p \in [DOMAIN Keep(s, S) -> DOMAIN s] :
               /\ \A n \in DOMAIN Keep(s, S) : Keep(s, S)[n] = s[p[n]] /\ s[p[n]] \in S
               /\ \A i \in DOMAIN s : s[i] \in S => \E n \in DOMAIN Keep(s, S) : p[n] = i
               /\ \A m, n \in DOMAIN Keep(s, S) : m < n => p[m] < p[n]
<1> DEFINE kept == {i \in DOMAIN s : s[i] \in S}
           Upto(m) == {j \in kept : j <= m}
           Card(m) == Cardinality(Upto(m))
           Nth(n) == CHOOSE i \in kept : Cardinality(Upto(i)) = n
<1>1. IsFiniteSet(kept) /\ kept \in SUBSET (1..Len(s)) /\ Cardinality(kept) \in Nat
  <2>1. IsFiniteSet(1..Len(s)) /\ kept \in SUBSET (1..Len(s))
    BY FS_Interval
  <2> QED
    BY <2>1, FS_Subset, FS_CardinalityType
<1>2. \A m, j : j \in Upto(m) <=> j \in kept /\ j <= m
  OBVIOUS
<1>2a. \A i \in kept : i \in Nat /\ 1 <= i /\ i <= Len(s)
  <2> HIDE DEF kept
  <2> QED
    BY <1>1
<1>3. \A n : Nth(n) = CHOOSE i \in kept : Card(i) = n
  OBVIOUS
<1>4. Keep(s, S) = [n \in 1..Cardinality(kept) |-> s[Nth(n)]]
  BY DEF Keep
<1>5. \A i : i \in kept <=> i \in DOMAIN s /\ s[i] \in S
  OBVIOUS
<1> HIDE DEF kept, Upto, Nth
<1>6. \A m : IsFiniteSet(Upto(m)) /\ Card(m) \in Nat /\ Card(m) <= Cardinality(kept)
  <2> TAKE m
  <2>1. Upto(m) \in SUBSET kept
    BY <1>2
  <2> QED
    BY <1>1, <2>1, FS_Subset, FS_CardinalityType
<1>7. \A m, k : k \notin Upto(m) /\ Upto(k) = Upto(m) \cup {k} => Card(k) = Card(m) + 1
  BY <1>6, FS_AddElement
<1>8. \A m, k : Upto(m) \subseteq Upto(k) => Card(m) <= Card(k)
  BY <1>6, FS_Subset
<1>9. Card(0) = 0 /\ Card(Len(s)) = Cardinality(kept)
  <2>1. \A j : j \notin Upto(0)
    BY <1>2a, <1>2
  <2>2. \A j : j \in Upto(Len(s)) <=> j \in kept
    BY <1>2a, <1>2
  <2>3. Upto(0) = {} /\ Upto(Len(s)) = kept
    BY <2>1, <2>2
  <2> QED
    BY <2>3, FS_EmptySet
<1>10. \A i \in kept : /\ i \in Nat \ {0}
                       /\ Card(i) = Card(i - 1) + 1
                       /\ Card(i) \in 1..Cardinality(kept)
  <2> TAKE i \in kept
  <2>1. i \in Nat \ {0}
    BY <1>1
  <2>2. Upto(i) = Upto(i - 1) \cup {i} /\ i \notin Upto(i - 1)
    <3>1. \A j \in kept : j <= i <=> j <= i - 1 \/ j = i
      BY <1>2a
    <3>2. \A j : j \in Upto(i) <=> j \in Upto(i - 1) \/ j = i
      BY <1>2, <3>1
    <3>3. ~ (i <= i - 1)
      BY <2>1
    <3> QED
      BY <1>2, <3>2, <3>3
  <2>3. \A m : Upto(i) = Upto(m) \cup {i} /\ i \notin Upto(m) => Card(i) = Card(m) + 1
    <3> TAKE m
    <3> HAVE Upto(i) = Upto(m) \cup {i} /\ i \notin Upto(m)
    <3>1. IsFiniteSet(Upto(m))
      BY <1>6
    <3> QED
      BY <3>1, FS_AddElement
  <2>4. Card(i) = Card(i - 1) + 1
    BY <2>2, <2>3
  <2> HIDE DEF Card
  <2> QED
    BY <1>1, <1>6, <2>1, <2>4
<1> HIDE DEF Card
<1>11. \A m \in Nat \ {0} : m \notin kept => Card(m) = Card(m - 1)
  <2> TAKE m \in Nat \ {0}
  <2> HAVE m \notin kept
  <2>1. \A j \in kept : j <= m <=> j <= m - 1
    BY <1>2a
  <2>2. \A j : j \in Upto(m) <=> j \in Upto(m - 1)
    BY <1>2, <2>1
  <2>3. Upto(m) = Upto(m - 1)
    BY <2>2
  <2> QED
    BY <2>3 DEF Card
<1>12. ASSUME NEW n \in 1..Cardinality(kept)
       PROVE  \E i \in kept : Card(i) = n
  <2> DEFINE T == {m \in Nat : Card(m) >= n}
  <2>1. Len(s) \in T
    BY <1>1, <1>9
  <2>2. PICK m \in T : \A k \in T : m <= k
    BY <2>1, LeastNumber
  <2>3. m \in Nat \ {0} /\ Card(m) >= n /\ Card(m - 1) < n
    BY <1>1, <1>6, <1>9, <2>2
  <2> QED
    BY <1>1, <1>6, <1>10, <1>11, <2>3
<1>13. ASSUME NEW i \in kept, NEW k \in kept, i < k
       PROVE  Card(i) < Card(k)
  <2>1. \A j \in kept : j <= i => j <= k - 1
    BY <1>2a, <1>13
  <2>2. Upto(i) \subseteq Upto(k - 1)
    BY <1>2, <2>1
  <2>3. Card(i) <= Card(k - 1)
    BY <1>8, <2>2 DEF Card
  <2>4. Card(i) \in Nat /\ Card(k - 1) \in Nat /\ Card(k) = Card(k - 1) + 1
    BY <1>6, <1>10 DEF Card
  <2> QED
    BY <2>3, <2>4
<1>14. \A n \in 1..Cardinality(kept) : Nth(n) \in kept /\ Card(Nth(n)) = n
  BY <1>3, <1>12
<1>15. \A i \in kept : Nth(Card(i)) = i
  <2> TAKE i \in kept
  <2>1. Nth(Card(i)) \in kept /\ Card(Nth(Card(i))) = Card(i)
    BY <1>10, <1>14
  <2>2. ~ (Nth(Card(i)) < i) /\ ~ (i < Nth(Card(i)))
    BY <1>6, <1>13, <2>1
  <2> QED
    BY <1>10, <2>1, <2>2
<1>16. Keep(s, S) \in Seq(A)
  <2>1. \A n \in 1..Cardinality(kept) : s[Nth(n)] \in A
    BY <1>5, <1>14
  <2> QED
    BY <1>1, <1>4, <2>1
<1>17. \A m, n \in 1..Cardinality(kept) : m < n => Nth(m) < Nth(n)
  <2> SUFFICES ASSUME NEW m \in 1..Cardinality(kept), NEW n \in 1..Cardinality(kept), m < n
               PROVE  Nth(m) < Nth(n)
    OBVIOUS
  <2>1. Nth(m) \in kept /\ Card(Nth(m)) = m /\ Nth(n) \in kept /\ Card(Nth(n)) = n
    BY <1>14
  <2>2. m \in Nat /\ n \in Nat
    BY <1>1
  <2>3. Nth(n) # Nth(m) /\ ~(Nth(n) < Nth(m))
    BY <1>13, <2>1, <2>2
  <2> QED
    BY <1>2a, <2>1, <2>3
<1> DEFINE p == [n \in 1..Cardinality(kept) |-> Nth(n)]
<1>18. DOMAIN Keep(s, S) = 1..Cardinality(kept) /\ p \in [1..Cardinality(kept) -> DOMAIN s]
  BY <1>4, <1>5, <1>14
<1>19. \A n \in 1..Cardinality(kept) : p[n] = Nth(n)
  OBVIOUS
<1> HIDE DEF p
<1>20. \A n \in DOMAIN Keep(s, S) : Keep(s, S)[n] = s[p[n]] /\ s[p[n]] \in S
  BY <1>4, <1>5, <1>14, <1>18, <1>19
<1>21. \A i \in DOMAIN s : s[i] \in S => \E n \in DOMAIN Keep(s, S) : p[n] = i
  BY <1>5, <1>10, <1>15, <1>18, <1>19
<1>22. \A m, n \in DOMAIN Keep(s, S) : m < n => p[m] < p[n]
  BY <1>17, <1>18, <1>19
<1> QED
  BY <1>16, <1>18, <1>20, <1>21, <1>22

(* The elements of Keep(s, S) are those of s that are in S. *)
LEMMA KeepElements ==
  ASSUME NEW A, NEW s \in Seq(A), NEW S
  PROVE  /\ Keep(s, S) \in Seq(A)
         /\ ToSet(Keep(s, S)) = ToSet(s) \cap S
<1>1. PICK p \in [DOMAIN Keep(s, S) -> DOMAIN s] :
        /\ \A n \in DOMAIN Keep(s, S) : Keep(s, S)[n] = s[p[n]] /\ s[p[n]] \in S
        /\ \A i \in DOMAIN s : s[i] \in S => \E n \in DOMAIN Keep(s, S) : p[n] = i
  BY KeepPlaces
<1>2. ToSet(Keep(s, S)) \subseteq ToSet(s) \cap S
  BY <1>1 DEF ToSet
<1>3. ToSet(s) \cap S \subseteq ToSet(Keep(s, S))
  BY <1>1 DEF ToSet
<1> QED
  BY <1>2, <1>3, KeepPlaces

(* The empty sequence is the one without elements. *)
LEMMA EmptySequence ==
  ASSUME NEW A, NEW s \in Seq(A)
  PROVE  s = <<>> <=> ToSet(s) = {}
<1>1. s = <<>> => ToSet(s) = {}
  BY DEF ToSet
<1>2. s # <<>> => s[1] \in ToSet(s)
  BY DEF ToSet
<1> QED
  BY <1>1, <1>2

(* A filter returns nothing when there is nothing to keep. *)
LEMMA KeepNothing ==
  ASSUME NEW A, NEW s \in Seq(A), NEW S
  PROVE  Keep(s, S) = <<>> <=> ToSet(s) \cap S = {}
<1>1. Keep(s, S) \in Seq(A) /\ ToSet(Keep(s, S)) = ToSet(s) \cap S
  BY KeepElements
<1> QED
  BY <1>1, EmptySequence

(* Two sequences put together have the elements of both. *)
LEMMA ConcatElements ==
  ASSUME NEW A, NEW s \in Seq(A), NEW u \in Seq(A)
  PROVE  s \o u \in Seq(A) /\ ToSet(s \o u) = ToSet(s) \cup ToSet(u)
<1>1. s \o u \in Seq(A) /\ Len(s \o u) = Len(s) + Len(u)
  OBVIOUS
<1>2. \A i \in DOMAIN (s \o u) :
        (s \o u)[i] = IF i <= Len(s) THEN s[i] ELSE u[i - Len(s)]
  OBVIOUS
<1>3. ToSet(s \o u) \subseteq ToSet(s) \cup ToSet(u)
  <2> SUFFICES ASSUME NEW i \in DOMAIN (s \o u)
               PROVE  (s \o u)[i] \in ToSet(s) \cup ToSet(u)
    BY DEF ToSet
  <2>1. CASE i <= Len(s)
    <3>1. i \in DOMAIN s /\ (s \o u)[i] = s[i]
      BY <2>1
    <3> QED
      BY <3>1 DEF ToSet
  <2>2. CASE ~ (i <= Len(s))
    <3>1. i - Len(s) \in DOMAIN u /\ (s \o u)[i] = u[i - Len(s)]
      BY <2>2
    <3> QED
      BY <3>1 DEF ToSet
  <2> QED
    BY <2>1, <2>2
<1>4. ASSUME NEW i \in DOMAIN s PROVE s[i] \in ToSet(s \o u)
  <2>1. i \in DOMAIN (s \o u) /\ (s \o u)[i] = s[i]
    OBVIOUS
  <2> QED
    BY <2>1 DEF ToSet
<1>5. ASSUME NEW i \in DOMAIN u PROVE u[i] \in ToSet(s \o u)
  <2>1. i + Len(s) \in DOMAIN (s \o u) /\ (s \o u)[i + Len(s)] = u[i]
    OBVIOUS
  <2> QED
    BY <2>1 DEF ToSet
<1> QED
  BY <1>1, <1>3, <1>4, <1>5 DEF ToSet

(***************************************************************************)
(* The same without a word about the elements.                             *)
(***************************************************************************)
IsList(s) == s \in Seq(ToSet(s))

LEMMA ListFacts ==
  ASSUME NEW s, NEW A
  PROVE  /\ s \in Seq(A) => IsList(s) /\ ToSet(s) \subseteq A
         /\ IsList(s) /\ ToSet(s) \subseteq A => s \in Seq(A)
         /\ IsList(s) => DOMAIN s = 1..Len(s) /\ Len(s) \in Nat
         /\ IsList(s) => (s = <<>> <=> ToSet(s) = {})
<1>1. ASSUME s \in Seq(A) PROVE IsList(s) /\ ToSet(s) \subseteq A
  <2>1. s \in [1..Len(s) -> A] /\ Len(s) \in Nat /\ DOMAIN s = 1..Len(s)
    BY <1>1
  <2>2. ToSet(s) \subseteq A /\ \A i \in 1..Len(s) : s[i] \in ToSet(s)
    BY <2>1 DEF ToSet
  <2>3. s \in [1..Len(s) -> ToSet(s)]
    BY <2>1, <2>2
  <2> QED
    BY <2>1, <2>2, <2>3 DEF IsList
<1>2. ASSUME IsList(s), ToSet(s) \subseteq A PROVE s \in Seq(A)
  <2> DEFINE B == ToSet(s)
  <2>1. s \in Seq(B) /\ B \subseteq A
    BY <1>2 DEF IsList
  <2> HIDE DEF B
  <2> QED
    BY <2>1
<1>3. ASSUME IsList(s)
      PROVE  /\ DOMAIN s = 1..Len(s) /\ Len(s) \in Nat
             /\ s = <<>> <=> ToSet(s) = {}
  <2> DEFINE B == ToSet(s)
  <2>1. s \in Seq(B)
    BY <1>3 DEF IsList
  <2>2. s = <<>> <=> ToSet(s) = {}
    BY <2>1, EmptySequence
  <2> HIDE DEF B
  <2> QED
    BY <2>1, <2>2
<1> QED
  BY <1>1, <1>2, <1>3

(* A function on the first n numbers is a list. *)
LEMMA MadeList ==
  ASSUME NEW n \in Nat, NEW f, f = [i \in 1..n |-> f[i]]
  PROVE  IsList(f) /\ Len(f) = n /\ ToSet(f) = {f[i] : i \in 1..n}
<1> DEFINE A == {f[i] : i \in 1..n}
<1>1. f \in [1..n -> A]
  OBVIOUS
<1> HIDE DEF A
<1>2. f \in Seq(A) /\ Len(f) = n /\ DOMAIN f = 1..n
  BY <1>1
<1>3. ToSet(f) = A
  BY <1>2 DEF ToSet, A
<1> QED
  BY <1>2, <1>3, ListFacts DEF A

LEMMA FirstPlace ==
  ASSUME NEW s, IsList(s), s # <<>>
  PROVE  1 \in DOMAIN s /\ s[1] \in ToSet(s)
<1>1. DOMAIN s = 1..Len(s) /\ Len(s) \in Nat /\ ToSet(s) # {}
  BY ListFacts
<1>2. PICK i \in DOMAIN s : TRUE
  BY <1>1 DEF ToSet
<1>3. 1 \in DOMAIN s
  BY <1>1, <1>2
<1> QED
  BY <1>3 DEF ToSet

LEMMA MappedList ==
  ASSUME NEW s, IsList(s), NEW f, f = [i \in DOMAIN s |-> f[i]]
  PROVE  IsList(f) /\ DOMAIN f = DOMAIN s /\ ToSet(f) = {f[i] : i \in DOMAIN s}
<1>1. DOMAIN s = 1..Len(s) /\ Len(s) \in Nat
  BY ListFacts
<1>2. f = [i \in 1..Len(s) |-> f[i]]
  BY <1>1
<1>3. IsList(f) /\ ToSet(f) = {f[i] : i \in 1..Len(s)}
  BY <1>1, <1>2, MadeList
<1>4. DOMAIN f = DOMAIN s
  OBVIOUS
<1> QED
  BY <1>1, <1>3, <1>4

LEMMA KeepList ==
  ASSUME NEW s, IsList(s), NEW S
  PROVE  IsList(Keep(s, S)) /\ ToSet(Keep(s, S)) = ToSet(s) \cap S
<1> DEFINE A == ToSet(s)
<1>1. s \in Seq(A)
  BY DEF IsList
<1>2. Keep(s, S) \in Seq(A) /\ ToSet(Keep(s, S)) = ToSet(s) \cap S
  BY <1>1, KeepElements
<1> QED
  BY <1>2, ListFacts

LEMMA ConcatList ==
  ASSUME NEW s, NEW u, IsList(s), IsList(u)
  PROVE  /\ IsList(s \o u) /\ ToSet(s \o u) = ToSet(s) \cup ToSet(u)
         /\ Len(s \o u) = Len(s) + Len(u)
         /\ \A i \in DOMAIN s : i \in DOMAIN (s \o u) /\ (s \o u)[i] = s[i]
         /\ \A i \in DOMAIN u : /\ i + Len(s) \in DOMAIN (s \o u)
                                /\ (s \o u)[i + Len(s)] = u[i]
         /\ \A i \in DOMAIN (s \o u) : i \in DOMAIN s \/ i - Len(s) \in DOMAIN u
<1> DEFINE A == ToSet(s) \cup ToSet(u)
<1>1. s \in Seq(A) /\ u \in Seq(A)
  BY ListFacts
<1>2. s \o u \in Seq(A) /\ ToSet(s \o u) = ToSet(s) \cup ToSet(u)
  BY <1>1, ConcatElements
<1>3. IsList(s \o u)
  BY <1>2, ListFacts
<1> HIDE DEF A
<1>4. /\ Len(s \o u) = Len(s) + Len(u)
      /\ \A i \in DOMAIN s : i \in DOMAIN (s \o u) /\ (s \o u)[i] = s[i]
      /\ \A i \in DOMAIN u : /\ i + Len(s) \in DOMAIN (s \o u)
                             /\ (s \o u)[i + Len(s)] = u[i]
      /\ \A i \in DOMAIN (s \o u) : i \in DOMAIN s \/ i - Len(s) \in DOMAIN u
  BY <1>1
<1> QED
  BY <1>2, <1>3, <1>4

(* The lists that are written out. *)
LEMMA ShortLists ==
  /\ IsList(<<>>) /\ ToSet(<<>>) = {}
  /\ \A x : IsList(<<x>>) /\ ToSet(<<x>>) = {x} /\ Len(<<x>>) = 1 /\ <<x>>[1] = x
  /\ \A x, y : IsList(<<x, y>>) /\ ToSet(<<x, y>>) = {x, y}
  /\ \A x, y, z, w : IsList(<<x, y, z, w>>) /\ ToSet(<<x, y, z, w>>) = {x, y, z, w}
<1>1. IsList(<<>>) /\ ToSet(<<>>) = {}
  BY ListFacts DEF ToSet, IsList
<1>2. ASSUME NEW x PROVE IsList(<<x>>) /\ ToSet(<<x>>) = {x} /\ Len(<<x>>) = 1 /\ <<x>>[1] = x
  BY DEF ToSet, IsList
<1>3. ASSUME NEW x, NEW y PROVE IsList(<<x, y>>) /\ ToSet(<<x, y>>) = {x, y}
  BY DEF ToSet, IsList
<1>4. ASSUME NEW x, NEW y, NEW z, NEW w
      PROVE  IsList(<<x, y, z, w>>) /\ ToSet(<<x, y, z, w>>) = {x, y, z, w}
  BY DEF ToSet, IsList
<1> QED
  BY <1>1, <1>2, <1>3, <1>4

(* A filter that lets everything through changes nothing. *)
LEMMA KeepAll ==
  ASSUME NEW s, IsList(s), NEW S, ToSet(s) \subseteq S
  PROVE  Keep(s, S) = s
<1> DEFINE kept == {i \in DOMAIN s : s[i] \in S}
           Place(i) == Cardinality({j \in kept : j <= i})
           n == Len(s)
<1>1. n \in Nat /\ DOMAIN s = 1..n /\ s = [i \in 1..n |-> s[i]]
  <2> DEFINE A == ToSet(s)
  <2>1. s \in Seq(A)
    BY DEF IsList
  <2> HIDE DEF A
  <2> QED
    BY <2>1
<1>2. Keep(s, S) = [m \in 1..Cardinality(kept) |-> s[CHOOSE i \in kept : Place(i) = m]]
  BY DEF Keep
<1> HIDE DEF n
<1>3. kept = 1..n
  BY <1>1 DEF ToSet
<1> HIDE DEF kept
<1>4. \A i \in 0..n : IsFiniteSet(1..i) /\ Cardinality(1..i) = i
  BY <1>1, FS_Interval
<1>5. \A i \in 1..n : {j \in kept : j <= i} = 1..i
  BY <1>1, <1>3
<1>6. Cardinality(kept) = n /\ \A i \in 1..n : Place(i) = i
  <2>1. \A i \in 1..n : i \in 0..n
    BY <1>1
  <2>2. n \in 0..n
    BY <1>1
  <2> QED
    BY <1>3, <1>4, <1>5, <2>1, <2>2
<1> HIDE DEF Place
<1>7. \A m \in 1..n : (CHOOSE i \in kept : Place(i) = m) = m
  BY <1>3, <1>6
<1> QED
  BY <1>1, <1>2, <1>6, <1>7

(***************************************************************************)
(* x is the first element of s that is in S.                               *)
(***************************************************************************)
First(s, S, x) ==
  \E i \in DOMAIN s : s[i] = x /\ x \in S /\ \A j \in DOMAIN s : j < i => s[j] \notin S

(* There is one if S has an element of s. *)
LEMMA FirstExists ==
  ASSUME NEW s, IsList(s), NEW S, ToSet(s) \cap S # {}
  PROVE  \E x \in S : First(s, S, x)
<1> DEFINE T == {i \in DOMAIN s : s[i] \in S}
<1>1. DOMAIN s = 1..Len(s) /\ Len(s) \in Nat
  BY ListFacts
<1>2. T \subseteq Nat /\ T # {}
  BY <1>1 DEF ToSet
<1>3. PICK i \in T : \A j \in T : i <= j
  BY <1>2, LeastNumber
<1>4. \A j \in DOMAIN s : j < i => s[j] \notin S
  BY <1>1, <1>3
<1> QED
  BY <1>3, <1>4 DEF First

(* It is in the first of two lists if that has an element of S ... *)
LEMMA FirstFront ==
  ASSUME NEW s, NEW u, IsList(s), IsList(u), NEW S, NEW x, First(s \o u, S, x),
         ToSet(s) \cap S # {}
  PROVE  First(s, S, x) /\ x \in ToSet(s)
<1> DEFINE su == s \o u
<1>1. PICK i \in DOMAIN su : su[i] = x /\ x \in S /\ \A j \in DOMAIN su : j < i => su[j] \notin S
  BY DEF First
<1>2. /\ \A j \in DOMAIN s : j \in DOMAIN su /\ su[j] = s[j]
      /\ IsList(su)
  BY ConcatList
<1>3. DOMAIN s = 1..Len(s) /\ Len(s) \in Nat /\ DOMAIN su = 1..Len(su) /\ Len(su) \in Nat
  BY <1>2, ListFacts
<1> HIDE DEF su
<1>4. PICK k \in DOMAIN s : s[k] \in S
  BY DEF ToSet
<1>5. i \in DOMAIN s
  <2>1. ~(k < i)
    BY <1>1, <1>2, <1>4
  <2> QED
    BY <1>3, <2>1
<1> QED
  BY <1>1, <1>2, <1>5 DEF First, ToSet

(* ... and in the second one otherwise. *)
LEMMA FirstBack ==
  ASSUME NEW s, NEW u, IsList(s), IsList(u), NEW S, NEW x, First(s \o u, S, x),
         ToSet(s) \cap S = {}
  PROVE  First(u, S, x) /\ x \in ToSet(u)
<1> DEFINE su == s \o u
           n == Len(s)
<1>1. PICK i \in DOMAIN su : su[i] = x /\ x \in S /\ \A j \in DOMAIN su : j < i => su[j] \notin S
  BY DEF First
<1>2. /\ \A j \in DOMAIN s : su[j] = s[j]
      /\ \A j \in DOMAIN u : j + n \in DOMAIN su /\ su[j + n] = u[j]
      /\ \A j \in DOMAIN su : j \in DOMAIN s \/ j - n \in DOMAIN u
      /\ IsList(su)
  <2>1. /\ \A j \in DOMAIN s : (s \o u)[j] = s[j]
        /\ \A j \in DOMAIN u : /\ j + Len(s) \in DOMAIN (s \o u)
                               /\ (s \o u)[j + Len(s)] = u[j]
        /\ \A j \in DOMAIN (s \o u) : j \in DOMAIN s \/ j - Len(s) \in DOMAIN u
        /\ IsList(s \o u)
    BY ConcatList
  <2> QED
    BY <2>1, Zenon
<1>3. /\ DOMAIN su = 1..Len(su) /\ Len(su) \in Nat /\ n \in Nat
      /\ DOMAIN u = 1..Len(u) /\ Len(u) \in Nat
  BY <1>2, ListFacts
<1> HIDE DEF su, n
<1>4. \A j \in DOMAIN s : s[j] \notin S
  BY DEF ToSet
<1>5. i \notin DOMAIN s
  BY <1>1, <1>2, <1>4
<1>6. i - n \in DOMAIN u /\ (i - n) + n = i
  BY <1>1, <1>2, <1>3, <1>5
<1>7. u[i - n] = x
  BY <1>1, <1>2, <1>6
<1>8. \A j \in DOMAIN u : j < i - n => u[j] \notin S
  <2> SUFFICES ASSUME NEW j \in DOMAIN u, j < i - n PROVE u[j] \notin S
    OBVIOUS
  <2>1. j + n < i
    BY <1>1, <1>3
  <2> QED
    BY <1>1, <1>2, <2>1
<1> QED
  BY <1>1, <1>6, <1>7, <1>8 DEF First, ToSet

(* A list that begins with an element of S. *)
LEMMA FirstHead ==
  ASSUME NEW s, IsList(s), s # <<>>, NEW S, s[1] \in S, NEW x, First(s, S, x)
  PROVE  x = s[1]
<1>1. DOMAIN s = 1..Len(s) /\ Len(s) \in Nat /\ 1 \in DOMAIN s
  BY ListFacts, FirstPlace
<1>2. PICK i \in DOMAIN s : s[i] = x /\ \A j \in DOMAIN s : j < i => s[j] \notin S
  BY DEF First
<1>3. ~(1 < i)
  BY <1>1, <1>2
<1>4. i = 1
  BY <1>1, <1>3
<1> QED
  BY <1>2, <1>4

(***************************************************************************)
(* Lists in which every element has a tag of its own.                      *)
(***************************************************************************)
UniqueTags(s) == \A i, j \in DOMAIN s : s[i].tag = s[j].tag => i = j

(* A filter takes every element from another place. *)
LEMMA KeepInjective ==
  ASSUME NEW s, IsList(s), NEW S
  PROVE  \E p \in [DOMAIN Keep(s, S) -> DOMAIN s] :
            /\ \A n \in DOMAIN Keep(s, S) : Keep(s, S)[n] = s[p[n]] /\ s[p[n]] \in S
            /\ \A m, n \in DOMAIN Keep(s, S) : p[m] = p[n] => m = n
<1> DEFINE A == ToSet(s)
           k == Keep(s, S)
<1>1. s \in Seq(A)
  BY DEF IsList
<1>2. PICK p \in [DOMAIN k -> DOMAIN s] :
        /\ \A n \in DOMAIN k : k[n] = s[p[n]] /\ s[p[n]] \in S
        /\ \A m, n \in DOMAIN k : m < n => p[m] < p[n]
  BY <1>1, KeepPlaces
<1>3. DOMAIN k = 1..Len(k) /\ Len(k) \in Nat /\ DOMAIN s = 1..Len(s) /\ Len(s) \in Nat
  BY KeepList, ListFacts
<1> HIDE DEF A, k
<1>4. ASSUME NEW m \in DOMAIN k, NEW n \in DOMAIN k, p[m] = p[n] PROVE m = n
  <2>1. m \in Nat /\ n \in Nat /\ p[m] \in Nat /\ p[n] \in Nat
    BY <1>2, <1>3
  <2>2. ~(m < n) /\ ~(n < m)
    BY <1>2, <1>4, <2>1
  <2> QED
    BY <2>1, <2>2
<1> QED
  BY <1>2, <1>4 DEF k

LEMMA UniqueConcat ==
  ASSUME NEW s, NEW u, IsList(s), IsList(u), UniqueTags(s), UniqueTags(u),
         ToTags(s) \cap ToTags(u) = {}
  PROVE  UniqueTags(s \o u)
<1> DEFINE su == s \o u
           n == Len(s)
<1>1. /\ \A i \in DOMAIN s : su[i] = s[i]
      /\ \A i \in DOMAIN u : su[i + n] = u[i]
      /\ \A i \in DOMAIN su : i \in DOMAIN s \/ i - n \in DOMAIN u
      /\ IsList(su)
  <2>1. /\ \A j \in DOMAIN s : (s \o u)[j] = s[j]
        /\ \A j \in DOMAIN u : /\ j + Len(s) \in DOMAIN (s \o u)
                               /\ (s \o u)[j + Len(s)] = u[j]
        /\ \A j \in DOMAIN (s \o u) : j \in DOMAIN s \/ j - Len(s) \in DOMAIN u
        /\ IsList(s \o u)
    BY ConcatList
  <2> QED
    BY <2>1, Zenon
<1>2. /\ DOMAIN s = 1..n /\ n \in Nat /\ DOMAIN u = 1..Len(u) /\ Len(u) \in Nat
      /\ DOMAIN su = 1..Len(su) /\ Len(su) \in Nat
  BY <1>1, ListFacts
<1> HIDE DEF su, n
<1>3. \A i \in DOMAIN su : \/ i \in DOMAIN s /\ su[i] = s[i] /\ s[i].tag \in ToTags(s)
                           \/ /\ i - n \in DOMAIN u /\ su[i] = u[i - n]
                              /\ u[i - n].tag \in ToTags(u)
  <2> TAKE i \in DOMAIN su
  <2>1. (i - n) + n = i
    BY <1>2
  <2> QED
    BY <1>1, <2>1 DEF ToTags
<1>4. ASSUME NEW i \in DOMAIN su, NEW j \in DOMAIN su, su[i].tag = su[j].tag PROVE i = j
  <2>1. CASE i \in DOMAIN s /\ j \in DOMAIN s
    BY <1>1, <1>4, <2>1 DEF UniqueTags
  <2>2. CASE i - n \in DOMAIN u /\ j - n \in DOMAIN u /\ su[i] = u[i - n] /\ su[j] = u[j - n]
    <3>1. i - n = j - n
      BY <1>4, <2>2 DEF UniqueTags
    <3> QED
      BY <1>2, <3>1
  <2> QED
    BY <1>3, <1>4, <2>1, <2>2
<1>5. UniqueTags(su)
  BY <1>4 DEF UniqueTags
<1> QED
  BY <1>5 DEF su

(* Such a list has as many tags as elements. *)
LEMMA UniqueLength ==
  ASSUME NEW s, IsList(s), UniqueTags(s)
  PROVE  Cardinality(ToTags(s)) = Len(s)
<1> DEFINE f == [i \in 1..Len(s) |-> s[i].tag]
<1>1. DOMAIN s = 1..Len(s) /\ Len(s) \in Nat
  BY ListFacts
<1>2. f \in Bijection(1..Len(s), ToTags(s))
  BY <1>1 DEF Bijection, Injection, Surjection, ToTags, UniqueTags, IsInjective
<1>3. ExistsBijection(1..Len(s), ToTags(s))
  BY <1>2, Zenon DEF ExistsBijection
<1> QED
  BY <1>1, <1>3, FS_CountingElements
=============================================================================
