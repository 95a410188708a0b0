---------------------------- MODULE LoggingProofs ----------------------------
(***************************************************************************)
(* Tail reads a log backwards in chunks and still returns what splitting   *)
(* the whole file would, for every file of whole lines, every chunk size   *)
(* and every number of lines (internal/logging, tailFile).                 *)
(*                                                                         *)
(* SplitLines takes its k-th line between the k-th and the next of the     *)
(* places where it cuts.  The argument is a count: the part of the file    *)
(* that was read has the same cuts as the file from there on, and has      *)
(* enough of them that the line which begins before it is not among the    *)
(* last ones.                                                              *)
(***************************************************************************)
EXTENDS Logging, FiniteSetTheorems, FunctionTheorems, SequenceTheorems, TLAPS

\* The place of c in the order of C, from 0.
Rank(C, c) == Cardinality({d \in C : d < c})

\* The k-th member of C, as SplitLines has it.
Nth(C, k) == CHOOSE c \in C : Rank(C, c) = k - 1

\* The parts of SplitLines.
Texts(s) == {n \in DOMAIN s : s[n] # NL}

Trimmed(s) == IF Texts(s) = {} THEN <<>> ELSE SubSeq(s, 1, Max(Texts(s)))

Cuts(t) == {n \in DOMAIN t : t[n] = NL} \union {0, Len(t) + 1}

\* A file of lines, none of them empty.
Lines(s) ==
    /\ s \in Seq(Nat)
    /\ \A n \in 1..Len(s) : s[n] = NL => n > 1 /\ s[n - 1] # NL

-----------------------------------------------------------------------------
(***************************************************************************)
(* Finite sets of numbers in order.                                        *)
(***************************************************************************)
\* A member's rank is below the number of members.
LEMMA RankType ==
    ASSUME NEW C \in SUBSET Nat, IsFiniteSet(C), NEW c \in C
    PROVE  Rank(C, c) \in 0..(Cardinality(C) - 1)
<1>. DEFINE D == {d \in C : d < c}
<1>1. D \in SUBSET (C \ {c})
  OBVIOUS
<1>2. IsFiniteSet(C \ {c}) /\ Cardinality(C \ {c}) = Cardinality(C) - 1
  BY FS_RemoveElement
<1>3. IsFiniteSet(D) /\ Cardinality(D) <= Cardinality(C \ {c})
  BY <1>1, <1>2, FS_Subset
<1>4. Cardinality(D) \in Nat /\ Cardinality(C) \in Nat
  BY <1>3, FS_CardinalityType
<1>. QED  BY <1>2, <1>3, <1>4 DEF Rank

\* A greater member has a greater rank.
LEMMA RankGrows ==
    ASSUME NEW C \in SUBSET Nat, IsFiniteSet(C), NEW c \in C, NEW e \in C, c < e
    PROVE  Rank(C, c) < Rank(C, e)
<1>. DEFINE D == {d \in C : d < c}
            E == {d \in C : d < e}
<1>1. D \in SUBSET (E \ {c}) /\ c \in E /\ E \in SUBSET C
  <2>1. \A d \in D : d \in E /\ d # c
    OBVIOUS
  <2>. QED  BY <2>1
<1>2. IsFiniteSet(E)
  BY <1>1, FS_Subset
<1>3. IsFiniteSet(E \ {c}) /\ Cardinality(E \ {c}) = Cardinality(E) - 1
  BY <1>1, <1>2, FS_RemoveElement
<1>4. IsFiniteSet(D) /\ Cardinality(D) <= Cardinality(E \ {c})
  BY <1>1, <1>3, FS_Subset
<1>5. Cardinality(D) \in Nat /\ Cardinality(E) \in Nat
  BY <1>2, <1>4, FS_CardinalityType
<1>. QED  BY <1>3, <1>4, <1>5 DEF Rank

\* Every number below the size is the rank of exactly one member: the ranks
\* are an injection into a set of the same size.
LEMMA RankOnto ==
    ASSUME NEW C \in SUBSET Nat, IsFiniteSet(C), NEW k \in 1..Cardinality(C)
    PROVE  \E c \in C : Rank(C, c) = k - 1
<1>. DEFINE R == [c \in C |-> Rank(C, c)]
            T == 0..(Cardinality(C) - 1)
<1>1. Cardinality(C) \in Nat
  BY FS_CardinalityType
<1>2. IsFiniteSet(T) /\ Cardinality(T) = Cardinality(C)
  <2>1. 0 \in Int /\ Cardinality(C) - 1 \in Int
    BY <1>1
  <2>2. /\ IsFiniteSet(T)
        /\ Cardinality(T) = IF 0 > Cardinality(C) - 1 THEN 0 ELSE Cardinality(C) - 1 - 0 + 1
    BY <2>1, FS_Interval
  <2>. QED  BY <1>1, <2>2
<1>3. R \in [C -> T]
  BY RankType
<1>4. ASSUME NEW c \in C, NEW e \in C, R[c] = R[e] PROVE c = e
  <2>1. Rank(C, c) = Rank(C, e) /\ Rank(C, c) \in Nat /\ c \in Nat /\ e \in Nat
    BY <1>1, <1>4, RankType
  <2>2. ~(c < e) /\ ~(e < c)
    BY <2>1, RankGrows
  <2>. QED  BY <2>1, <2>2
<1>. HIDE DEF R
<1>5. R \in Injection(C, T)
  BY <1>3, <1>4, Fun_IsInj
<1>6. R \in Surjection(C, T)
  BY <1>2, <1>5, FS_Injection
<1>7. k - 1 \in T
  BY <1>1
<1>. HIDE DEF T
<1>8. \A t \in T : \E c \in C : R[c] = t
  BY <1>6, Fun_SurjectionProperties
<1>9. PICK c \in C : R[c] = k - 1
  BY <1>7, <1>8
<1>. QED  BY <1>9 DEF R

\* The k-th member is the one of rank k - 1.
LEMMA NthIs ==
    ASSUME NEW C \in SUBSET Nat, IsFiniteSet(C), NEW c \in C, NEW k \in Nat,
           Rank(C, c) = k - 1
    PROVE  Nth(C, k) = c
<1>1. ASSUME NEW e \in C, Rank(C, e) = k - 1 PROVE e = c
  BY <1>1, RankGrows
<1>. QED  BY <1>1 DEF Nth

\* A finite set of numbers has a greatest member.
LEMMA Greatest ==
    ASSUME NEW C \in SUBSET Nat, IsFiniteSet(C), C # {}
    PROVE  Max(C) \in C /\ \A c \in C : c <= Max(C)
<1>. DEFINE n == Cardinality(C)
<1>1. n \in Nat /\ n # 0
  BY FS_CardinalityType, FS_EmptySet
<1>2. PICK g \in C : Rank(C, g) = n - 1
  BY <1>1, RankOnto
<1>3. ASSUME NEW c \in C PROVE g >= c
  <2>1. ~(g < c)
    <3>. SUFFICES ASSUME g < c PROVE FALSE
      OBVIOUS
    <3>1. Rank(C, g) < Rank(C, c)
      BY RankGrows
    <3>2. Rank(C, c) \in 0..(n - 1)
      BY RankType
    <3>. QED  BY <1>1, <1>2, <3>1, <3>2
  <2>. QED  BY <2>1
<1>4. Max(C) \in C /\ \A c \in C : Max(C) >= c
  BY <1>3 DEF Max
<1>. QED  BY <1>4

\* The members of C beyond o.
Beyond(C, o) == {c \in C : c > o}

\* The numbers of A moved down by o.
Down(A, o) == {c - o : c \in A}

\* Moving a finite set of numbers down keeps its size.
LEMMA Moved ==
    ASSUME NEW A \in SUBSET Nat, IsFiniteSet(A), NEW o \in Nat
    PROVE  IsFiniteSet(Down(A, o)) /\ Cardinality(Down(A, o)) = Cardinality(A)
<1>. DEFINE B == Down(A, o)
            f == [c \in A |-> c - o]
<1>. USE DEF Down
<1>1. f \in [A -> B] /\ \A b \in B : \E c \in A : f[c] = b
  OBVIOUS
<1>2. \A c, e \in A : f[c] = f[e] => c = e
  OBVIOUS
<1>. HIDE DEF f
<1>3. f \in Bijection(A, B)
  BY <1>1, <1>2, Fun_IsBij
<1>4. ExistsBijection(A, B)
  BY <1>3 DEF ExistsBijection
<1>. QED  BY <1>4, FS_Bijection

-----------------------------------------------------------------------------
(***************************************************************************)
(* Sequences.                                                              *)
(***************************************************************************)
\* The last n elements, when there are more.
LEMMA LastIs ==
    ASSUME NEW R, NEW s \in Seq(R), NEW n \in Nat, Len(s) > n
    PROVE  /\ LastOf(s, n) = [j \in 1..n |-> LastOf(s, n)[j]]
           /\ \A j \in 1..n : LastOf(s, n)[j] = s[Len(s) - n + j]
<1>1. PICK l \in Nat : l = Len(s) /\ l > n
  BY LenProperties
<1>2. PICK m \in Nat : m = l - n + 1
  <2>1. l - n + 1 \in Nat
    BY <1>1
  <2>. QED  BY <2>1, Zenon
<1>. DEFINE t == SubSeq(s, m, l)
<1>3. LastOf(s, n) = t
  BY <1>1, <1>2 DEF LastOf
<1>4. \A i \in m..l : s[i] \in R
  <2>1. \A i \in m..l : i \in 1..l
    BY <1>1, <1>2
  <2>. QED  BY <1>1, <2>1, ElementOfSeq
<1>5. /\ t \in Seq(R)
      /\ Len(t) = IF m <= l THEN l - m + 1 ELSE 0
      /\ \A j \in 1..(l - m + 1) : t[j] = s[m + j - 1]
  BY <1>4, SubSeqProperties
<1>. HIDE DEF t
<1>6. Len(t) = n /\ \A j \in 1..n : t[j] = s[l - n + j]
  <2>1. l - m + 1 = n /\ (~(m <= l) => n = 0) /\ \A j \in 1..n : m + j - 1 = l - n + j
    BY <1>1, <1>2
  <2>. QED  BY <1>5, <2>1
<1>7. t = [j \in 1..n |-> t[j]]
  BY <1>5, <1>6, LenProperties
<1>. QED  BY <1>1, <1>3, <1>6, <1>7

\* No lines are asked for.
LEMMA LastNone == ASSUME NEW R, NEW s \in Seq(R) PROVE LastOf(s, 0) = <<>>
<1>1. Len(s) \in Nat /\ (Len(s) = 0 => s = <<>>)
  BY LenProperties, EmptySeq
<1>2. Len(s) > 0 => SubSeq(s, Len(s) - 0 + 1, Len(s)) = <<>>
  BY <1>1, SubSeqEmpty
<1>. QED  BY <1>1, <1>2 DEF LastOf

\* There are finitely many cuts.
LEMMA CutsType ==
    ASSUME NEW t \in Seq(Nat)
    PROVE  Cuts(t) \in SUBSET Nat /\ IsFiniteSet(Cuts(t)) /\ \A c \in Cuts(t) : c <= Len(t) + 1
<1>1. Len(t) \in Nat /\ DOMAIN t = 1..Len(t)
  BY LenProperties
<1>2. Cuts(t) \in SUBSET Nat /\ \A c \in Cuts(t) : c <= Len(t) + 1
  BY <1>1 DEF Cuts
<1>3. Len(t) + 1 \in Nat
  BY <1>1
<1>. QED  BY <1>2, <1>3, FS_BoundedSetOfNaturals

\* SplitLines in terms of its parts.
LEMMA SplitIs ==
    ASSUME NEW s
    PROVE  SplitLines(s) =
             IF Trimmed(s) = <<>> THEN <<>>
             ELSE [k \in 1..(Cardinality(Cuts(Trimmed(s))) - 1) |->
                     SubSeq(Trimmed(s), Nth(Cuts(Trimmed(s)), k) + 1,
                                        Nth(Cuts(Trimmed(s)), k + 1) - 1)]
  BY DEF SplitLines, Trimmed, Texts, Cuts, Nth, Rank

\* What is trimmed off are newlines.
LEMMA TrimmedIs ==
    ASSUME NEW s \in Seq(Nat), Texts(s) # {}
    PROVE  LET m == Max(Texts(s))
           IN  /\ m \in 1..Len(s) /\ s[m] # NL
               /\ \A n \in (m + 1)..Len(s) : s[n] = NL
               /\ Trimmed(s) \in Seq(Nat) /\ Len(Trimmed(s)) = m
               /\ \A n \in 1..m : Trimmed(s)[n] = s[n]
<1>. DEFINE m == Max(Texts(s))
<1>1. Len(s) \in Nat /\ DOMAIN s = 1..Len(s) /\ s \in [1..Len(s) -> Nat]
  BY LenProperties
<1>2. Texts(s) \in SUBSET Nat /\ \A n \in Texts(s) : n <= Len(s)
  BY <1>1 DEF Texts
<1>3. IsFiniteSet(Texts(s))
  BY <1>1, <1>2, FS_BoundedSetOfNaturals
<1>4. m \in Texts(s) /\ \A n \in Texts(s) : n <= m
  BY <1>2, <1>3, Greatest
<1>. HIDE DEF m
<1>5. m \in 1..Len(s) /\ s[m] # NL /\ \A n \in (m + 1)..Len(s) : s[n] = NL
  <2>1. m \in 1..Len(s) /\ s[m] # NL
    BY <1>1, <1>4 DEF Texts
  <2>2. ASSUME NEW n \in (m + 1)..Len(s) PROVE n \in 1..Len(s) /\ ~(n <= m)
    BY <1>1, <2>1
  <2>3. ASSUME NEW n \in (m + 1)..Len(s) PROVE s[n] = NL
    <3>1. n \notin Texts(s)
      BY <1>4, <2>2
    <3>. QED  BY <1>1, <2>2, <3>1 DEF Texts
  <2>. QED  BY <2>1, <2>3
<1>6. /\ SubSeq(s, 1, m) \in Seq(Nat)
      /\ Len(SubSeq(s, 1, m)) = m
      /\ \A n \in 1..m : SubSeq(s, 1, m)[n] = s[n]
  <2>1. \A n \in 1..m : s[n] \in Nat
    BY <1>1, <1>5
  <2>2. /\ SubSeq(s, 1, m) \in Seq(Nat)
        /\ Len(SubSeq(s, 1, m)) = IF 1 <= m THEN m - 1 + 1 ELSE 0
        /\ \A n \in 1..(m - 1 + 1) : SubSeq(s, 1, m)[n] = s[1 + n - 1]
    BY <1>1, <1>5, <2>1, SubSeqProperties
  <2>3. m - 1 + 1 = m /\ 1 <= m /\ \A n \in 1..m : 1 + n - 1 = n
    BY <1>1, <1>5
  <2>. QED  BY <2>2, <2>3
<1>7. Trimmed(s) = SubSeq(s, 1, m)
  BY DEF Trimmed, m
<1>8. /\ m \in 1..Len(s) /\ s[m] # NL
      /\ \A n \in (m + 1)..Len(s) : s[n] = NL
      /\ Trimmed(s) \in Seq(Nat) /\ Len(Trimmed(s)) = m
      /\ \A n \in 1..m : Trimmed(s)[n] = s[n]
  BY <1>5, <1>6, <1>7
<1>. QED  BY <1>8 DEF m

\* The result of SplitLines is a sequence, with one line less than cuts.
LEMMA SplitType ==
    ASSUME NEW s \in Seq(Nat)
    PROVE  /\ \E R : SplitLines(s) \in Seq(R)
           /\ Texts(s) # {} =>
                LET u == Trimmed(s)
                    C == Cuts(u)
                IN  /\ Len(SplitLines(s)) = Cardinality(C) - 1
                    /\ \A k \in 1..(Cardinality(C) - 1) :
                         SplitLines(s)[k] = SubSeq(u, Nth(C, k) + 1, Nth(C, k + 1) - 1)
<1>. DEFINE u == Trimmed(s)
            m == Cardinality(Cuts(u)) - 1
            X == [k \in 1..m |-> SubSeq(u, Nth(Cuts(u), k) + 1, Nth(Cuts(u), k + 1) - 1)]
<1>1. CASE Texts(s) = {}
  <2>1. SplitLines(s) = <<>>
    BY <1>1, SplitIs DEF Trimmed
  <2>2. SplitLines(s) \in Seq({})
    BY <2>1
  <2>. QED  BY <1>1, <2>2
<1>2. CASE Texts(s) # {}
  <2>1. u \in Seq(Nat) /\ u # <<>>
    BY <1>2, TrimmedIs, EmptySeq
  <2>2. SplitLines(s) = X
    BY <2>1, SplitIs
  <2>3. m \in Nat
    <3>1. IsFiniteSet(Cuts(u)) /\ 0 \in Cuts(u)
      BY <2>1, CutsType DEF Cuts
    <3>. QED  BY <3>1, FS_CardinalityType, FS_EmptySet
  <2>. DEFINE R == {X[k] : k \in 1..m}
  <2>. HIDE DEF m
  <2>4. X \in [1..m -> R]
    OBVIOUS
  <2>5. \A k \in 1..m :
          X[k] = SubSeq(u, Nth(Cuts(u), k) + 1, Nth(Cuts(u), k + 1) - 1)
    OBVIOUS
  <2>. HIDE DEF X
  <2>6. X \in Seq(R) /\ Len(X) = m
    BY <2>3, <2>4
  <2>. QED  BY <2>2, <2>5, <2>6 DEF m
<1>. QED  BY <1>1, <1>2

-----------------------------------------------------------------------------
(***************************************************************************)
(* Cuts of a file and of its end.                                          *)
(***************************************************************************)
\* Where one set ends with the members another one has, moved down by o, both
\* count them from their end alike.
LEMMA SameEnd ==
    ASSUME NEW C \in SUBSET Nat, IsFiniteSet(C), 0 \in C, NEW o \in Nat
    PROVE  LET A == Beyond(C, o)
               D == {0} \union Down(A, o)
           IN  \E b \in Nat \ {0} :
                 /\ Cardinality(C) = Cardinality(A) + b
                 /\ Cardinality(D) = Cardinality(A) + 1
                 /\ \A i \in 2..(Cardinality(A) + 1) :
                      Nth(C, i + b - 1) \in A /\ Nth(D, i) = Nth(C, i + b - 1) - o
<1>. DEFINE A == Beyond(C, o)
            D == {0} \union Down(A, o)
            P == {c \in C : c <= o}
            b == Cardinality(P)
            a == Cardinality(A)
<1>. USE DEF Beyond
<1>1. A \in SUBSET Nat /\ P \in SUBSET Nat /\ D \in SUBSET Nat
  <2>1. \A c \in A : c \in Nat /\ c - o \in Nat
    OBVIOUS
  <2>2. \A d \in D : d \in Nat
    BY <2>1 DEF Down
  <2>. QED  BY <2>1, <2>2
<1>2. IsFiniteSet(A) /\ IsFiniteSet(P) /\ a \in Nat /\ b \in Nat
  <2>1. A \in SUBSET C /\ P \in SUBSET C
    OBVIOUS
  <2>. QED  BY <2>1, FS_Subset, FS_CardinalityType
<1>3. ASSUME NEW X \in SUBSET A
      PROVE  IsFiniteSet(X) /\ Cardinality(P \union X) = b + Cardinality(X)
  <2>1. IsFiniteSet(X)
    BY <1>2, <1>3, FS_Subset
  <2>2. P \cap X = {}
    BY <1>1
  <2>3. Cardinality(P \union X) = Cardinality(P) + Cardinality(X) - Cardinality(P \cap X)
    <3>. HIDE DEF P
    <3>. QED  BY <1>2, <2>1, FS_Union
  <2>4. Cardinality(P \cap X) = 0 /\ Cardinality(X) \in Nat
    BY <2>1, <2>2, FS_EmptySet, FS_CardinalityType
  <2>5. Cardinality(P \union X) = b + Cardinality(X)
    <3>. HIDE DEF P
    <3>1. Cardinality(P) \in Nat
      BY <1>2
    <3>. QED  BY <3>1, <2>3, <2>4
  <2>. QED  BY <2>1, <2>5
<1>4. ASSUME NEW X \in SUBSET A
      PROVE  Cardinality({0} \union Down(X, o)) = 1 + Cardinality(X)
  <2>. DEFINE Y == Down(X, o)
  <2>1. X \in SUBSET Nat /\ IsFiniteSet(X) /\ Cardinality(X) \in Nat
    BY <1>1, <1>3, FS_CardinalityType
  <2>2. IsFiniteSet(Y) /\ Cardinality(Y) = Cardinality(X)
    BY <2>1, Moved
  <2>3. 0 \notin Y
    BY <1>1 DEF Down
  <2>. HIDE DEF Y
  <2>4. Cardinality(Y \union {0}) = Cardinality(Y) + 1
    BY <2>2, <2>3, FS_AddElement
  <2>5. Y \union {0} = {0} \union Y
    OBVIOUS
  <2>6. Cardinality({0} \union Y) = 1 + Cardinality(X)
    <3>1. Cardinality({0} \union Y) = Cardinality(Y) + 1
      BY <2>4, <2>5, Zenon
    <3>2. Cardinality(X) + 1 = 1 + Cardinality(X)
      BY <2>1
    <3>. QED  BY <2>2, <3>1, <3>2, Zenon
  <2>. QED  BY <2>6 DEF Y
<1>5. b # 0
  <2>1. 0 \in P
    OBVIOUS
  <2>. QED  BY <1>2, <2>1, FS_EmptySet
<1>6. Cardinality(C) = a + b
  <2>1. C = P \union A
    <3>1. \A c \in C : c <= o \/ c > o
      OBVIOUS
    <3>. QED  BY <3>1
  <2>2. Cardinality(P \union A) = b + a
    BY <1>3
  <2>3. b + a = a + b
    <3>. HIDE DEF a, b
    <3>. QED  BY <1>2
  <2>. QED  BY <2>1, <2>2, <2>3, Zenon
<1>7. Cardinality(D) = a + 1 /\ IsFiniteSet(D)
  <2>1. Cardinality(D) = 1 + a
    BY <1>4
  <2>2. IsFiniteSet(Down(A, o))
    BY <1>1, <1>2, Moved
  <2>3. IsFiniteSet(Down(A, o) \union {0})
    BY <2>2, FS_AddElement
  <2>4. Down(A, o) \union {0} = D
    OBVIOUS
  <2>5. 1 + a = a + 1
    BY <1>2
  <2>. QED  BY <2>1, <2>3, <2>4, <2>5
<1>8. ASSUME NEW i \in 2..(a + 1)
      PROVE  Nth(C, i + b - 1) \in A /\ Nth(D, i) = Nth(C, i + b - 1) - o
  <2>1. i - 1 \in 1..a
    BY <1>2
  <2>2. PICK c \in A : Rank(A, c) = i - 1 - 1
    BY <1>1, <1>2, <2>1, RankOnto
  <2>. DEFINE X == {d \in A : d < c}
  <2>3. c \in Nat /\ c > o /\ c \in C /\ c - o \in D /\ X \in SUBSET A
    BY <1>1 DEF Down
  <2>4. Cardinality(X) = i - 2
    <3>1. i - 1 - 1 = i - 2
      BY <1>2
    <3>. QED  BY <2>2, <3>1 DEF Rank
  <2>5. Rank(C, c) = b + (i - 2)
    <3>1. {d \in C : d < c} = P \union X
      <4>1. \A d \in C : d < c <=> d \in P \/ d \in X
        BY <2>3
      <4>2. \A d \in P \union X : d \in C
        OBVIOUS
      <4>. HIDE DEF P, X
      <4>. QED  BY <4>1, <4>2
    <3>. QED  BY <1>3, <2>3, <2>4, <3>1 DEF Rank
  <2>6. Rank(D, c - o) = 1 + (i - 2)
    <3>1. {d \in D : d < c - o} = {0} \union Down(X, o)
      <4>. USE DEF Down
      <4>1. ASSUME NEW d \in {d \in D : d < c - o} PROVE d \in {0} \union Down(X, o)
        <5>1. CASE d = 0
          BY <5>1
        <5>2. CASE \E e \in A : d = e - o
          <6>1. PICK e \in A : d = e - o
            BY <5>2
          <6>2. e < c
            BY <1>1, <2>3, <4>1, <6>1
          <6>. QED  BY <6>1, <6>2
        <5>. QED  BY <4>1, <5>1, <5>2
      <4>2. ASSUME NEW e \in X PROVE e - o \in D /\ e - o < c - o
        BY <1>1, <2>3
      <4>3. 0 \in D /\ 0 < c - o
        BY <2>3
      <4>. QED  BY <4>1, <4>2, <4>3
    <3>. QED  BY <1>4, <2>3, <2>4, <3>1 DEF Rank
  <2>. HIDE DEF a, b, X
  <2>7. Nth(C, i + b - 1) = c
    <3>1. i + b - 1 \in Nat /\ b + (i - 2) = (i + b - 1) - 1
      BY <1>2
    <3>. QED  BY <2>3, <2>5, <3>1, NthIs
  <2>8. Nth(D, i) = c - o
    <3>1. i \in Nat /\ 1 + (i - 2) = i - 1
      BY <1>2
    <3>2. D \in SUBSET Nat /\ IsFiniteSet(D) /\ c - o \in D
      BY <1>1, <1>7, <2>3
    <3>3. Rank(D, c - o) = i - 1
      BY <2>6, <3>1, Zenon
    <3>. HIDE DEF D
    <3>. QED  BY <3>1, <3>2, <3>3, NthIs
  <2>. QED  BY <2>7, <2>8
<1>. QED  BY <1>2, <1>5, <1>6, <1>7, <1>8

\* The n elements of t are the ones behind the o-th of the m elements of s.
Behind(s, m, o, t, n) == n = m - o /\ \A i \in 1..n : t[i] = s[i + o]

\* The last text of the n elements of s is at m.
LastText(s, n, m) == s[m] # NL /\ \A i \in (m + 1)..n : s[i] = NL

\* The cuts of n elements.
Places(s, n) == {i \in 1..n : s[i] = NL} \union {0, n + 1}

\* What is moved down by o is trimmed at the same place.
LEMMA SameTrim ==
    ASSUME NEW s, NEW t, NEW S \in Nat, NEW o \in 1..S, NEW T \in Nat,
           Behind(s, S, o, t, T),
           NEW U \in 1..S, LastText(s, S, U), NEW V \in 1..T, LastText(t, T, V)
    PROVE  V = U - o
<1>. USE DEF Behind, LastText
<1>1. ~(V + o > U)
  <2>. SUFFICES ASSUME V + o > U PROVE FALSE
    OBVIOUS
  <2>1. V + o \in (U + 1)..S
    OBVIOUS
  <2>2. s[V + o] = NL /\ t[V] = s[V + o]
    BY <2>1
  <2>. QED  BY <2>2
<1>2. ~(U > V + o)
  <2>. SUFFICES ASSUME U > V + o PROVE FALSE
    OBVIOUS
  <2>1. U - o \in (V + 1)..T /\ U - o \in 1..T /\ (U - o) + o = U
    OBVIOUS
  <2>2. t[U - o] = NL /\ t[U - o] = s[(U - o) + o]
    BY <2>1
  <2>. QED  BY <2>1, <2>2
<1>. QED  BY <1>1, <1>2

\* It is cut at the same places, and at its start.
LEMMA SameCuts ==
    ASSUME NEW u, NEW v, NEW U \in Nat, NEW o \in Nat, NEW V \in Nat,
           Behind(u, U, o, v, V)
    PROVE  Places(v, V) = {0} \union Down(Beyond(Places(u, U), o), o)
<1>. DEFINE C == Places(u, U)
            D == Places(v, V)
<1>. USE DEF Behind, Places, Beyond
<1>1. ASSUME NEW d \in D, d # 0
      PROVE  \E c \in C : c > o /\ d = c - o
  <2>1. d + o > o /\ d = (d + o) - o
    BY <1>1
  <2>2. d + o \in C
    <3>1. CASE d = V + 1
      BY <3>1
    <3>2. CASE d \in 1..V /\ v[d] = NL
      <4>1. d + o \in 1..U /\ u[d + o] = NL
        BY <3>2
      <4>. QED  BY <4>1
    <3>. QED  BY <1>1, <3>1, <3>2
  <2>. QED  BY <2>1, <2>2
<1>2. ASSUME NEW c \in C, c > o PROVE c - o \in D
  <2>1. CASE c = U + 1
    BY <2>1
  <2>2. CASE c \in 1..U /\ u[c] = NL
    <3>1. c - o \in 1..V /\ (c - o) + o = c
      BY <1>2, <2>2
    <3>2. v[c - o] = NL
      BY <2>2, <3>1
    <3>. QED  BY <3>1, <3>2
  <2>. QED  BY <1>2, <2>1, <2>2
<1>3. 0 \in D
  OBVIOUS
<1>4. ASSUME NEW d PROVE d \in D <=> d = 0 \/ \E c \in Beyond(C, o) : d = c - o
  <2>. HIDE DEF C, D
  <2>. QED  BY <1>1, <1>2, <1>3
<1>5. ASSUME NEW d PROVE d \in D <=> d \in {0} \union Down(Beyond(C, o), o)
  <2>. HIDE DEF C, D
  <2>. QED  BY <1>4 DEF Down
<1>. HIDE DEF Places
<1>. QED  BY <1>5

\* At most the last newline is trimmed off.
LEMMA OneTrimmed ==
    ASSUME NEW t, NEW T \in Nat, NEW V \in 1..T, LastText(t, T, V),
           \A i \in 1..T : i > 1 /\ t[i] = NL => t[i - 1] # NL,
           NEW i \in 1..T, t[i] = NL
    PROVE  i \in {c \in 1..V : t[c] = NL} \union {V + 1}
<1>. USE DEF LastText
<1>1. ~(i > V + 1)
  <2>. SUFFICES ASSUME i > V + 1 PROVE FALSE
    OBVIOUS
  <2>1. i - 1 \in (V + 1)..T /\ i > 1
    OBVIOUS
  <2>. QED  BY <2>1
<1>2. i = V + 1 \/ i \in 1..V
  BY <1>1
<1>. QED  BY <1>2

\* What was read last, element by element.
LEMMA ReadEnd ==
    ASSUME NEW s \in Seq(Nat), NEW o \in 1..Len(s)
    PROVE  LET t == SubSeq(s, o + 1, Len(s))
           IN  /\ t \in Seq(Nat) /\ Len(t) = Len(s) - o /\ Len(t) \in Nat
               /\ \A i \in 1..Len(t) : t[i] = s[i + o]
<1>. DEFINE n == Len(s)
<1>1. n \in Nat /\ o \in 1..n /\ s \in [1..n -> Nat]
  BY LenProperties
<1>2. \A i \in (o + 1)..n : s[i] \in Nat
  <2>. HIDE DEF n
  <2>1. \A i \in (o + 1)..n : i \in 1..n
    BY <1>1
  <2>. QED  BY <1>1, <2>1
<1>. DEFINE t == SubSeq(s, o + 1, n)
<1>3. /\ t \in Seq(Nat)
      /\ Len(t) = IF o + 1 <= n THEN n - (o + 1) + 1 ELSE 0
      /\ \A i \in 1..(n - (o + 1) + 1) : t[i] = s[(o + 1) + i - 1]
  BY <1>1, <1>2, SubSeqProperties
<1>. HIDE DEF n, t
<1>4. n - (o + 1) + 1 = n - o /\ (~(o + 1 <= n) => n - o = 0) /\ n - o \in Nat
  BY <1>1
<1>5. \A i \in 1..(n - o) : (o + 1) + i - 1 = i + o
  BY <1>1
<1>6. Len(t) = n - o
  BY <1>3, <1>4
<1>7. \A i \in 1..(n - o) : t[i] = s[i + o]
  BY <1>3, <1>4, <1>5
<1>. QED  BY <1>3, <1>4, <1>6, <1>7 DEF n, t

\* The end of a file that has more than n newlines, n > 0: it is cut where the
\* file is, and more than n times after its start.
LEMMA EndOfFile ==
    ASSUME NEW s, Lines(s), NEW o \in 1..Len(s), NEW n \in Nat \ {0},
           Newlines(SubSeq(s, o + 1, Len(s))) > n
    PROVE  LET t == SubSeq(s, o + 1, Len(s))
               u == Trimmed(s)
               v == Trimmed(t)
               A == Beyond(Cuts(u), o)
           IN  /\ Texts(s) # {} /\ Texts(t) # {}
               /\ Len(v) = Len(u) - o
               /\ \A i \in 1..Len(v) : v[i] = u[i + o]
               /\ Cuts(v) = {0} \union Down(A, o)
               /\ Cardinality(A) > n
<1>. DEFINE t == SubSeq(s, o + 1, Len(s))
            N == {i \in DOMAIN t : t[i] = NL}
<1>1. s \in Seq(Nat) /\ \A i \in 1..Len(s) : s[i] = NL => i > 1 /\ s[i - 1] # NL
  BY DEF Lines
<1>2. /\ t \in Seq(Nat) /\ Len(t) = Len(s) - o /\ Len(t) \in Nat
      /\ \A i \in 1..Len(t) : t[i] = s[i + o]
  BY <1>1, ReadEnd
<1>3. Cardinality(N) > n
  BY DEF Newlines
<1>. HIDE DEF t
<1>4. PICK S \in Nat : S = Len(s) /\ o \in 1..S /\ DOMAIN s = 1..S
  BY <1>1, LenProperties
<1>5. PICK T \in Nat : T = Len(t) /\ T = S - o /\ DOMAIN t = 1..T
  BY <1>2, <1>4, LenProperties
<1>6. \A i \in 1..T : t[i] = s[i + o]
  BY <1>2, <1>5
<1>7. \A i \in 1..T : i > 1 /\ t[i] = NL => t[i - 1] # NL
  <2>. SUFFICES ASSUME NEW i \in 1..T, i > 1, t[i] = NL PROVE t[i - 1] # NL
    OBVIOUS
  <2>1. i - 1 \in 1..T /\ i + o \in 1..S /\ (i - 1) + o = (i + o) - 1
    BY <1>4, <1>5
  <2>2. s[i + o] = NL /\ t[i - 1] = s[(i + o) - 1]
    BY <1>6, <2>1
  <2>. QED  BY <1>1, <1>4, <2>1, <2>2
<1>8. Texts(t) # {}
  <2>. SUFFICES ASSUME Texts(t) = {} PROVE FALSE
    OBVIOUS
  <2>1. \A i \in 1..T : t[i] = NL
    BY <1>5 DEF Texts
  <2>2. ~(2 \in 1..T)
    BY <1>7, <2>1
  <2>3. N \in SUBSET {1}
    BY <1>5, <2>2
  <2>. HIDE DEF N
  <2>4. Cardinality(N) <= 1 /\ Cardinality(N) \in Nat
    <3>1. IsFiniteSet({1}) /\ Cardinality({1}) = 1
      BY FS_Singleton
    <3>2. IsFiniteSet(N) /\ Cardinality(N) <= Cardinality({1})
      BY <2>3, <3>1, FS_Subset
    <3>. QED  BY <3>1, <3>2, FS_CardinalityType
  <2>. QED  BY <1>3, <2>4
<1>9. Texts(s) # {}
  <2>1. PICK i \in 1..T : t[i] # NL
    BY <1>5, <1>8 DEF Texts
  <2>2. i + o \in 1..S /\ s[i + o] # NL
    BY <1>4, <1>5, <1>6, <2>1
  <2>. QED  BY <1>4, <2>2 DEF Texts
<1>. DEFINE u == Trimmed(s)
            v == Trimmed(t)
            A == Beyond(Cuts(u), o)
            B == Down(A, o)
<1>10. PICK U \in 1..S :
         /\ u \in Seq(Nat) /\ U = Len(u) /\ s[U] # NL
         /\ \A i \in (U + 1)..S : s[i] = NL
         /\ \A i \in 1..U : u[i] = s[i]
  BY <1>1, <1>4, <1>9, TrimmedIs
<1>11. PICK V \in 1..T :
         /\ v \in Seq(Nat) /\ V = Len(v) /\ t[V] # NL
         /\ \A i \in (V + 1)..T : t[i] = NL
         /\ \A i \in 1..V : v[i] = t[i]
  BY <1>2, <1>5, <1>8, TrimmedIs
<1>. HIDE DEF u, v
<1>12. V = U - o
  <2>1. Behind(s, S, o, t, T)
    BY <1>5, <1>6 DEF Behind
  <2>2. LastText(s, S, U) /\ LastText(t, T, V)
    BY <1>10, <1>11 DEF LastText
  <2>. QED  BY <1>4, <2>1, <2>2, SameTrim
<1>13. \A i \in 1..V : v[i] = u[i + o]
  <2>1. ASSUME NEW i \in 1..V PROVE i \in 1..T /\ i + o \in 1..U
    BY <1>4, <1>5, <1>10, <1>11, <1>12
  <2>. QED  BY <1>6, <1>10, <1>11, <2>1
<1>14. DOMAIN u = 1..U /\ DOMAIN v = 1..V
  BY <1>10, <1>11, LenProperties
<1>15. Cuts(u) = Places(u, U) /\ Cuts(v) = Places(v, V)
  BY <1>10, <1>11, <1>14 DEF Cuts, Places
<1>16. Cuts(v) = {0} \union B
  <2>1. U \in Nat /\ V \in Nat /\ o \in Nat
    BY <1>4, <1>10, <1>11
  <2>2. Behind(u, U, o, v, V)
    BY <1>12, <1>13 DEF Behind
  <2>3. Places(v, V) = {0} \union Down(Beyond(Places(u, U), o), o)
    BY <2>1, <2>2, SameCuts
  <2>. QED  BY <1>15, <2>3
<1>17. N \subseteq B
  <2>1. ASSUME NEW i \in 1..T, t[i] = NL
        PROVE  i \in {c \in 1..V : t[c] = NL} \union {V + 1}
    BY <1>7, <1>11, <2>1, OneTrimmed DEF LastText
  <2>2. ASSUME NEW i \in 1..T, t[i] = NL PROVE i \in Cuts(v) /\ i # 0
    <3>1. i \in {c \in 1..V : t[c] = NL} \union {V + 1}
      BY <2>1, <2>2
    <3>. QED  BY <1>11, <1>15, <3>1 DEF Places
  <2>3. N = {i \in 1..T : t[i] = NL}
    BY <1>5
  <2>. HIDE DEF N, B
  <2>. QED  BY <1>16, <2>2, <2>3
<1>18. A \in SUBSET Nat /\ IsFiniteSet(A)
  <2>1. A \in SUBSET Cuts(u)
    BY DEF Beyond
  <2>2. Cuts(u) \in SUBSET Nat /\ IsFiniteSet(Cuts(u))
    BY <1>10, CutsType
  <2>. HIDE DEF A
  <2>. QED  BY <2>1, <2>2, FS_Subset
<1>19. Cardinality(A) > n
  <2>. HIDE DEF A, N
  <2>1. IsFiniteSet(B) /\ Cardinality(B) = Cardinality(A)
    <3>1. o \in Nat
      BY <1>4
    <3>. QED  BY <1>18, <3>1, Moved
  <2>. HIDE DEF B
  <2>2. Cardinality(N) <= Cardinality(B) /\ IsFiniteSet(N)
    BY <1>17, <2>1, FS_Subset
  <2>3. Cardinality(A) \in Nat /\ Cardinality(N) \in Nat
    BY <1>18, <2>2, FS_CardinalityType
  <2>. QED  BY <1>3, <2>1, <2>2, <2>3
<1>20. Len(v) = Len(u) - o /\ \A i \in 1..Len(v) : v[i] = u[i + o]
  BY <1>10, <1>11, <1>12, <1>13
<1>. QED  BY <1>8, <1>9, <1>16, <1>19, <1>20 DEF u, v, t

\* A line between two cuts beyond o is the same in what was moved down.
LEMMA SameLine ==
    ASSUME NEW u \in Seq(Nat), NEW v \in Seq(Nat), NEW o \in Nat,
           Behind(u, Len(u), o, v, Len(v)),
           NEW p \in Beyond(Cuts(u), o), NEW q \in Beyond(Cuts(u), o)
    PROVE  SubSeq(v, (p - o) + 1, (q - o) - 1) = SubSeq(u, p + 1, q - 1)
<1>1. PICK U \in Nat : U = Len(u)
  BY LenProperties
<1>2. PICK V \in Nat : V = Len(v)
  BY LenProperties
<1>3. V = U - o /\ \A i \in 1..V : v[i] = u[i + o]
  BY <1>1, <1>2 DEF Behind
<1>4. p \in Nat /\ q \in Nat /\ p > o /\ q > o /\ p <= U + 1 /\ q <= U + 1
  BY <1>1, CutsType DEF Beyond
<1>5. PICK a, b, c, d \in Int : a = p + 1 /\ b = q - 1 /\ c = (p - o) + 1 /\ d = (q - o) - 1
  BY <1>4
<1>6. u \in [1..U -> Nat] /\ v \in [1..V -> Nat]
  BY <1>1, <1>2, LenProperties
<1>7. (\A i \in a..b : u[i] \in Nat) /\ (\A i \in c..d : v[i] \in Nat)
  <2>1. (\A i \in a..b : i \in 1..U) /\ (\A i \in c..d : i \in 1..V)
    BY <1>3, <1>4, <1>5
  <2>. QED  BY <1>6, <2>1
<1>. DEFINE x == SubSeq(u, a, b)
            y == SubSeq(v, c, d)
<1>8. /\ x \in Seq(Nat)
      /\ Len(x) = IF a <= b THEN b - a + 1 ELSE 0
      /\ \A i \in 1..(b - a + 1) : x[i] = u[a + i - 1]
  BY <1>7, SubSeqProperties
<1>9. /\ y \in Seq(Nat)
      /\ Len(y) = IF c <= d THEN d - c + 1 ELSE 0
      /\ \A i \in 1..(d - c + 1) : y[i] = v[c + i - 1]
  BY <1>7, SubSeqProperties
<1>. HIDE DEF x, y
<1>10. PICK l \in Nat : Len(x) = l /\ Len(y) = l /\ (l # 0 => l = b - a + 1 /\ l = d - c + 1)
  <2>1. b - a + 1 = d - c + 1 /\ (a <= b <=> c <= d)
    BY <1>4, <1>5
  <2>2. Len(x) \in Nat
    BY <1>8, LenProperties
  <2>3. Len(y) = Len(x)
    BY <1>8, <1>9, <2>1
  <2>4. Len(x) # 0 => Len(x) = b - a + 1 /\ Len(x) = d - c + 1
    BY <1>8, <2>1
  <2>. QED  BY <2>2, <2>3, <2>4
<1>11. ASSUME NEW i \in 1..l PROVE y[i] = x[i]
  <2>1. c + i - 1 \in 1..V /\ (c + i - 1) + o = a + i - 1
    BY <1>3, <1>4, <1>5, <1>10
  <2>2. y[i] = v[c + i - 1] /\ x[i] = u[a + i - 1]
    <3>1. i \in 1..(b - a + 1) /\ i \in 1..(d - c + 1)
      BY <1>10
    <3>. QED  BY <1>8, <1>9, <3>1
  <2>. QED  BY <1>3, <2>1, <2>2
<1>12. y = x
  BY <1>8, <1>9, <1>10, <1>11, SeqEqual
<1>. QED  BY <1>5, <1>12 DEF x, y

\* The last lines of a file are those of its end, if that has more newlines.
LEMMA EndLines ==
    ASSUME NEW s, Lines(s), NEW o \in 1..Len(s), NEW n \in Nat \ {0},
           Newlines(SubSeq(s, o + 1, Len(s))) > n
    PROVE  LastOf(SplitLines(SubSeq(s, o + 1, Len(s))), n) = LastOf(SplitLines(s), n)
<1>. DEFINE t == SubSeq(s, o + 1, Len(s))
            u == Trimmed(s)
            v == Trimmed(t)
            C == Cuts(u)
            D == Cuts(v)
            A == Beyond(C, o)
            a == Cardinality(A)
<1>1. s \in Seq(Nat) /\ t \in Seq(Nat)
  BY ReadEnd DEF Lines
<1>2. /\ Texts(s) # {} /\ Texts(t) # {}
      /\ Len(v) = Len(u) - o /\ \A i \in 1..Len(v) : v[i] = u[i + o]
      /\ D = {0} \union Down(A, o) /\ a > n
  BY EndOfFile
<1>. HIDE DEF t
<1>3. u \in Seq(Nat) /\ v \in Seq(Nat) /\ o \in Nat
  <2>1. o \in Nat
    BY <1>1, LenProperties
  <2>. QED  BY <1>1, <1>2, <2>1, TrimmedIs
<1>4. /\ Len(SplitLines(s)) = Cardinality(C) - 1 /\ Len(SplitLines(t)) = Cardinality(D) - 1
      /\ \A k \in 1..(Cardinality(C) - 1) :
           SplitLines(s)[k] = SubSeq(u, Nth(C, k) + 1, Nth(C, k + 1) - 1)
      /\ \A k \in 1..(Cardinality(D) - 1) :
           SplitLines(t)[k] = SubSeq(v, Nth(D, k) + 1, Nth(D, k + 1) - 1)
  BY <1>1, <1>2, SplitType
<1>5. Behind(u, Len(u), o, v, Len(v))
  BY <1>2 DEF Behind
<1>. HIDE DEF u, v
<1>6. C \in SUBSET Nat /\ IsFiniteSet(C) /\ 0 \in C /\ a \in Nat
  <2>1. C \in SUBSET Nat /\ IsFiniteSet(C) /\ 0 \in C
    BY <1>3, CutsType DEF Cuts
  <2>2. A \in SUBSET C
    BY DEF Beyond
  <2>. HIDE DEF C, A
  <2>3. IsFiniteSet(A)
    BY <2>1, <2>2, FS_Subset
  <2>. QED  BY <2>1, <2>3, FS_CardinalityType
<1>7. PICK b \in Nat \ {0} :
        /\ Cardinality(C) = a + b
        /\ Cardinality(D) = a + 1
        /\ \A i \in 2..(a + 1) : Nth(C, i + b - 1) \in A /\ Nth(D, i) = Nth(C, i + b - 1) - o
  <2>. HIDE DEF C, D
  <2>. QED  BY <1>2, <1>3, <1>6, SameEnd
<1>. DEFINE X == SplitLines(s)
            Y == SplitLines(t)
<1>8. ASSUME NEW i \in 2..a PROVE Y[i] = X[i + b - 1]
  <2>. DEFINE p == Nth(C, i + b - 1)
              q == Nth(C, (i + 1) + b - 1)
  <2>1. /\ i \in 2..(a + 1) /\ i + 1 \in 2..(a + 1) /\ i \in 1..(Cardinality(D) - 1)
        /\ i + b - 1 \in 1..(Cardinality(C) - 1) /\ (i + 1) + b - 1 = (i + b - 1) + 1
    <3>. HIDE DEF C, D, a
    <3>. QED  BY <1>6, <1>7
  <2>2. p \in A /\ q \in A /\ Nth(D, i) = p - o /\ Nth(D, i + 1) = q - o
    <3>. HIDE DEF C, D, A, a
    <3>. QED  BY <1>7, <2>1
  <2>3. Y[i] = SubSeq(v, Nth(D, i) + 1, Nth(D, i + 1) - 1)
    <3>. HIDE DEF C, D
    <3>. QED  BY <1>4, <2>1
  <2>4. X[i + b - 1] = SubSeq(u, p + 1, q - 1)
    <3>. HIDE DEF C, D, p, q
    <3>1. X[i + b - 1] = SubSeq(u, Nth(C, i + b - 1) + 1, Nth(C, (i + b - 1) + 1) - 1)
      BY <1>4, <2>1
    <3>. QED  BY <2>1, <3>1 DEF p, q
  <2>. HIDE DEF p, q
  <2>5. SubSeq(v, (p - o) + 1, (q - o) - 1) = SubSeq(u, p + 1, q - 1)
    BY <1>3, <1>5, <2>2, SameLine
  <2>. QED  BY <2>2, <2>3, <2>4, <2>5
<1>9. Len(X) = a + b - 1 /\ Len(Y) = a
  <2>. HIDE DEF C, D, a
  <2>. QED  BY <1>4, <1>6, <1>7
<1>10. (\E R : X \in Seq(R)) /\ (\E R : Y \in Seq(R))
  BY <1>1, SplitType
<1>. HIDE DEF X, Y, a
<1>11. /\ LastOf(X, n) = [j \in 1..n |-> LastOf(X, n)[j]]
       /\ LastOf(Y, n) = [j \in 1..n |-> LastOf(Y, n)[j]]
       /\ \A j \in 1..n : LastOf(X, n)[j] = X[(a + b - 1) - n + j]
       /\ \A j \in 1..n : LastOf(Y, n)[j] = Y[a - n + j]
  <2>1. Len(X) > n /\ Len(Y) > n
    BY <1>2, <1>6, <1>9
  <2>2. /\ LastOf(X, n) = [j \in 1..n |-> LastOf(X, n)[j]]
        /\ \A j \in 1..n : LastOf(X, n)[j] = X[Len(X) - n + j]
    BY <1>10, <2>1, LastIs
  <2>3. /\ LastOf(Y, n) = [j \in 1..n |-> LastOf(Y, n)[j]]
        /\ \A j \in 1..n : LastOf(Y, n)[j] = Y[Len(Y) - n + j]
    BY <1>10, <2>1, LastIs
  <2>. QED  BY <1>9, <2>2, <2>3
<1>12. \A j \in 1..n : Y[a - n + j] = X[(a + b - 1) - n + j]
  <2>1. ASSUME NEW j \in 1..n
        PROVE  a - n + j \in 2..a /\ (a - n + j) + b - 1 = (a + b - 1) - n + j
    BY <1>2, <1>6
  <2>. QED  BY <1>8, <2>1
<1>13. LastOf(Y, n) = LastOf(X, n)
  BY <1>11, <1>12
<1>. QED  BY <1>13 DEF X, Y, t

\* Tail returns the last n lines of a file of whole lines (tailFile, splitLines).
LEMMA TailOfLines ==
    ASSUME NEW s, Lines(s), NEW n \in Nat
    PROVE  TailFile(s, n) = LastOf(SplitLines(s), n)
<1>1. s \in Seq(Nat)
  BY DEF Lines
<1>2. CASE s = <<>>
  <2>1. Texts(s) = {}
    BY <1>2 DEF Texts
  <2>2. SplitLines(s) = <<>>
    BY <2>1, SplitIs DEF Trimmed
  <2>3. LastOf(<<>>, n) = <<>>
    BY DEF LastOf
  <2>. QED  BY <1>2, <2>2, <2>3 DEF TailFile
<1>3. CASE s # <<>>
  <2>. DEFINE From(o) == SubSeq(s, o + 1, Len(s))
              stops == {o \in Offsets(Len(s)) : o = 0 \/ Enough(From(o), n)}
  <2>1. PICK S \in Nat \ {0} : S = Len(s)
    BY <1>1, <1>3, EmptySeq
  <2>2. \A o \in Offsets(S) : o \in 0..(S - 1)
    <3>1. ASSUME NEW k \in 1..S PROVE k * ChunkSize \in Nat \ {0}
      BY LogAssumption
    <3>. QED  BY <3>1 DEF Offsets
  <2>3. 0 \in Offsets(S)
    <3>1. S * ChunkSize >= S /\ S \in 1..S
      BY LogAssumption
    <3>. QED  BY <3>1 DEF Offsets
  <2>4. Max(stops) \in stops
    <3>1. stops \in SUBSET (0..(S - 1)) /\ 0 \in stops
      BY <2>1, <2>2, <2>3
    <3>2. IsFiniteSet(0..(S - 1))
      BY FS_Interval
    <3>. HIDE DEF stops
    <3>3. IsFiniteSet(stops)
      BY <3>1, <3>2, FS_Subset
    <3>4. stops \in SUBSET Nat /\ stops # {}
      BY <3>1
    <3>. QED  BY <3>3, <3>4, Greatest
  <2>5. TailFile(s, n) = LastOf(SplitLines(From(Max(stops))), n)
    BY <1>3 DEF TailFile
  <2>6. PICK o \in stops : o = Max(stops)
    BY <2>4
  <2>7. o \in 0..(S - 1) /\ (o = 0 \/ Newlines(From(o)) > n)
    BY <2>1, <2>2 DEF Enough
  <2>8. LastOf(SplitLines(From(o)), n) = LastOf(SplitLines(s), n)
    <3>1. CASE o = 0
      <4>1. From(o) = s
        BY <1>1, <3>1, SubSeqFull
      <4>. QED  BY <4>1
    <3>2. CASE o # 0 /\ n # 0
      <4>1. o \in 1..Len(s) /\ n \in Nat \ {0} /\ Newlines(SubSeq(s, o + 1, Len(s))) > n
        BY <2>1, <2>7, <3>2
      <4>. QED  BY <4>1, EndLines
    <3>3. CASE o # 0 /\ n = 0
      <4>1. o \in 1..Len(s)
        BY <2>1, <2>7, <3>3
      <4>2. From(o) \in Seq(Nat)
        BY <1>1, <4>1, ReadEnd
      <4>. HIDE DEF From
      <4>. QED  BY <1>1, <3>3, <4>2, SplitType, LastNone
    <3>. QED  BY <3>1, <3>2, <3>3
  <2>. QED  BY <2>5, <2>6, <2>8
<1>. QED  BY <1>2, <1>3
=============================================================================
