------------------------- MODULE EventStreamProofs -------------------------
(***************************************************************************)
(* Proofs about EventStream for every set of kinds and answers of any      *)
(* number of lines: whatever pieces an answer's events come in, the client *)
(* returns what it makes of the stream in one piece, or fails; what it has *)
(* shown ends with what it will return; and of lines that are no JSON it   *)
(* delivers the full answer.  The state of the client is a function of how *)
(* many pieces it has taken; the invariant says which.                     *)
(***************************************************************************)
EXTENDS EventStream, FiniteSetTheorems, WellFoundedInduction, TLAPS

-----------------------------------------------------------------------------
(* The places of a set, in order                                            *)

\* "Less than" on the naturals, as the relation the library proves well-founded.
LessThan == { p \in Nat \X Nat : p[1] < p[2] }

LEMMA LessThanWellFounded == IsWellFoundedOn(LessThan, Nat)
BY NatLessThanWellFounded DEF OpToRel, LessThan

\* A set with zero and with the successor of each of its naturals has them all.
LEMMA Counting ==
    ASSUME NEW T, 0 \in T, \A n \in Nat : n \in T => n + 1 \in T
    PROVE  \A n \in Nat : n \in T
<1>. SUFFICES ASSUME Nat \ T # {} PROVE FALSE
  OBVIOUS
<1>1. PICK n \in Nat \ T : \A m \in Nat \ T : <<m, n>> \notin LessThan
  BY LessThanWellFounded, WFMin, Nat \ T \subseteq Nat
<1>2. n # 0 /\ n - 1 \in Nat /\ (n - 1) + 1 = n
  OBVIOUS
<1>3. <<n - 1, n>> \in LessThan
  BY <1>2 DEF LessThan
<1>. QED
  BY <1>1, <1>2, <1>3

LEMMA EmptyInOrder == Cardinality({}) = 0 /\ InOrder({}) = <<>>
BY FS_EmptySet DEF InOrder

\* A place behind all the others comes last, and the others stay where they are.
LEMMA InOrderGrows ==
    ASSUME NEW S, IsFiniteSet(S), S \subseteq Nat,
           NEW x \in Nat, \A i \in S : i < x
    PROVE  /\ Cardinality(S) \in Nat /\ IsFiniteSet(S \cup {x})
           /\ Cardinality(S \cup {x}) = Cardinality(S) + 1
           /\ InOrder(S \cup {x})[Cardinality(S) + 1] = x
           /\ \A k \in 1 .. Cardinality(S) : InOrder(S \cup {x})[k] = InOrder(S)[k]
<1>. DEFINE T == S \cup {x}
            c == Cardinality(S)
<1>1. IsFiniteSet(T) /\ Cardinality(T) = c + 1 /\ c \in Nat
  <2>1. x \notin S
    OBVIOUS
  <2>. QED
    BY <2>1, FS_AddElement, FS_CardinalityType
<1>2. \A i \in S : {j \in T : j <= i} = {j \in S : j <= i}
  <2>1. \A i \in S : ~(x <= i)
    OBVIOUS
  <2>. QED
    BY <2>1, Zenon
<1>3. {j \in T : j <= x} = T
  <2>1. \A j \in T : j <= x
    OBVIOUS
  <2>. QED
    BY <2>1, Zenon
<1>4. \A i \in S : Cardinality({j \in S : j <= i}) \in Nat /\ Cardinality({j \in S : j <= i}) <= c
  <2>1. \A U \in SUBSET S : Cardinality(U) \in Nat /\ Cardinality(U) <= c
    BY FS_Subset, FS_CardinalityType
  <2>. QED
    BY <2>1
<1>. HIDE DEF c
<1>5. \A k \in 1 .. c : Ranked(T, k) = Ranked(S, k)
  <2>. TAKE k \in 1 .. c
  <2>1. Cardinality({j \in T : j <= x}) # k
    BY <1>1, <1>3
  <2>. QED
    BY <1>2, <2>1, Zenon DEF Ranked
<1>6. Ranked(T, c + 1) = {x}
  <2>1. \A i \in S : Cardinality({j \in T : j <= i}) # c + 1
    BY <1>1, <1>2, <1>4
  <2>2. Cardinality({j \in T : j <= x}) = c + 1
    BY <1>1, <1>3
  <2>. QED
    BY <2>1, <2>2, Zenon DEF Ranked
<1>7. (CHOOSE i \in {x} : TRUE) = x
  OBVIOUS
<1>. HIDE DEF T
<1>8. \A k \in 1 .. c + 1 : InOrder(T)[k] = CHOOSE i \in Ranked(T, k) : TRUE
  BY <1>1 DEF InOrder
<1>9. \A k \in 1 .. c : InOrder(S)[k] = CHOOSE i \in Ranked(S, k) : TRUE
  BY <1>1 DEF InOrder, c
<1>10. InOrder(T)[c + 1] = x
  BY <1>1, <1>6, <1>7, <1>8
<1>11. \A k \in 1 .. c : InOrder(T)[k] = InOrder(S)[k]
  <2>1. \A k \in 1 .. c : k \in 1 .. c + 1
    BY <1>1
  <2>. QED
    BY <2>1, <1>5, <1>8, <1>9, Zenon
<1>. QED
  BY <1>1, <1>10, <1>11 DEF T, c

\* What being in order means.
IsOrdered(S) ==
    /\ IsFiniteSet(S) /\ Cardinality(S) \in Nat
    /\ \A k \in 1 .. Cardinality(S) : InOrder(S)[k] \in S
    /\ \A j, k \in 1 .. Cardinality(S) : j < k => InOrder(S)[j] < InOrder(S)[k]
    /\ \A i \in S : \E k \in 1 .. Cardinality(S) : InOrder(S)[k] = i

\* The places of any set of lines are put in order.
LEMMA PlacesInOrder ==
    ASSUME NEW n \in Nat, NEW S \in SUBSET (1 .. n)
    PROVE  IsOrdered(S)
<1>. DEFINE N == { m \in Nat : IsOrdered(S \cap 1 .. m) }
<1>1. 0 \in N
  <2>1. S \cap 1 .. 0 = {}
    OBVIOUS
  <2>2. IsOrdered({})
    BY EmptyInOrder, FS_EmptySet DEF IsOrdered
  <2>. QED
    BY <2>1, <2>2
<1>2. ASSUME NEW m \in Nat, m \in N PROVE m + 1 \in N
  <2>. DEFINE A == S \cap 1 .. m
  <2>1. CASE m + 1 \notin S
    <3>1. S \cap 1 .. (m + 1) = A
      <4>1. \A i \in 1 .. (m + 1) : i \in 1 .. m \/ i = m + 1
        OBVIOUS
      <4>2. 1 .. m \subseteq 1 .. (m + 1)
        OBVIOUS
      <4>. QED
        BY <2>1, <4>1, <4>2, Zenon
    <3>. QED
      BY <3>1, <1>2
  <2>2. CASE m + 1 \in S
    <3>1. S \cap 1 .. (m + 1) = A \cup {m + 1}
      <4>1. \A i \in 1 .. (m + 1) : i \in 1 .. m \/ i = m + 1
        OBVIOUS
      <4>2. 1 .. m \subseteq 1 .. (m + 1) /\ m + 1 \in 1 .. (m + 1)
        OBVIOUS
      <4>. QED
        BY <2>2, <4>1, <4>2, Zenon
    <3>2. A \subseteq Nat /\ m + 1 \in Nat /\ \A i \in A : i < m + 1
      OBVIOUS
    <3>3. IsOrdered(A)
      BY <1>2
    <3>. HIDE DEF A
    <3>4. IsFiniteSet(A)
      BY <3>3 DEF IsOrdered
    <3>5. /\ Cardinality(A) \in Nat /\ IsFiniteSet(A \cup {m + 1})
          /\ Cardinality(A \cup {m + 1}) = Cardinality(A) + 1
          /\ InOrder(A \cup {m + 1})[Cardinality(A) + 1] = m + 1
          /\ \A k \in 1 .. Cardinality(A) : InOrder(A \cup {m + 1})[k] = InOrder(A)[k]
      BY <3>2, <3>4, InOrderGrows, Zenon
    <3>6. IsOrdered(A \cup {m + 1})
      <4>. DEFINE B == A \cup {m + 1}
      <4>1. \A k \in 1 .. Cardinality(B) : k \in 1 .. Cardinality(A) \/ k = Cardinality(A) + 1
        BY <3>5
      <4>2. \A k \in 1 .. Cardinality(B) : InOrder(B)[k] \in B
        BY <3>3, <3>5, <4>1 DEF IsOrdered
      <4>3. \A j, k \in 1 .. Cardinality(B) : j < k => InOrder(B)[j] < InOrder(B)[k]
        <5>. SUFFICES ASSUME NEW j \in 1 .. Cardinality(B), NEW k \in 1 .. Cardinality(B), j < k
                      PROVE  InOrder(B)[j] < InOrder(B)[k]
          OBVIOUS
        <5>1. j \in 1 .. Cardinality(A)
          <6>1. \A n1, k1, j1 \in Nat :
                    1 <= j1 /\ j1 < k1 /\ k1 <= n1 + 1 => j1 \in 1 .. n1
            OBVIOUS
          <6>2. k \in Nat /\ k <= Cardinality(A) + 1 /\ j \in Nat /\ 1 <= j
            BY <3>5
          <6>. QED
            BY <3>5, <6>1, <6>2, Zenon
        <5>2. InOrder(B)[j] = InOrder(A)[j] /\ InOrder(A)[j] \in A
          BY <3>3, <3>5, <5>1 DEF IsOrdered
        <5>. QED
          BY <3>2, <3>3, <3>5, <4>1, <5>1, <5>2 DEF IsOrdered
      <4>4. \A i \in B : \E k \in 1 .. Cardinality(B) : InOrder(B)[k] = i
        <5>. TAKE i \in B
        <5>1. CASE i = m + 1
          BY <3>5, <5>1
        <5>2. CASE i \in A
          <6>1. PICK k \in 1 .. Cardinality(A) : InOrder(A)[k] = i
            BY <3>3, <5>2 DEF IsOrdered
          <6>. QED
            BY <3>5, <6>1
        <5>. QED
          BY <5>1, <5>2
      <4>. QED
        BY <3>5, <4>2, <4>3, <4>4 DEF IsOrdered
    <3>. QED
      BY <3>1, <3>2, <3>6 DEF A
  <2>. QED
    BY <2>1, <2>2
<1>3. S \cap 1 .. n = S
  OBVIOUS
<1>. HIDE DEF N
<1>4. n \in N
  BY <1>1, <1>2, Counting
<1>. QED
  BY <1>3, <1>4 DEF N

-----------------------------------------------------------------------------
(* What is told of a set of places                                          *)

\* The kinds of a line that the client takes a token from, the token, the tokens
\* of a set of places, and those that are left when the stream has ended.
Words == {"text", "null", "string", "answer"}
Token(lines, i) == <<IF lines[i] \in {"text", "null"} THEN "line" ELSE "parsed", i>>
Tokens(lines, places) ==
    [k \in 1 .. Cardinality(places) |-> Token(lines, InOrder(places)[k])]
Meaning(lines) ==
    Tokens(lines, {i \in DOMAIN lines : /\ lines[i] \in Words
                                       /\ \A j \in DOMAIN lines : lines[j] = "answer" => j <= i})

AllTokens == {"line", "parsed"} \X Nat

LEMMA TokensType ==
    ASSUME NEW lines, NEW n \in Nat, NEW S \in SUBSET (1 .. n)
    PROVE  Tokens(lines, S) \in Seq(AllTokens) /\ Len(Tokens(lines, S)) = Cardinality(S)
<1>1. Cardinality(S) \in Nat /\ \A k \in 1 .. Cardinality(S) : InOrder(S)[k] \in Nat
  <2>1. IsOrdered(S)
    BY PlacesInOrder, Zenon
  <2>2. S \subseteq Nat
    OBVIOUS
  <2>. QED
    BY <2>1, <2>2, Zenon DEF IsOrdered
<1>2. \A i \in Nat : Token(lines, i) \in AllTokens
  BY DEF Token, AllTokens
<1>3. \A k \in 1 .. Cardinality(S) : Token(lines, InOrder(S)[k]) \in AllTokens
  BY <1>1, <1>2
<1>. QED
  BY <1>1, <1>3 DEF Tokens

LEMMA TokensOfNone == ASSUME NEW lines PROVE Tokens(lines, {}) = <<>>
BY EmptyInOrder DEF Tokens

\* A place behind all the others is told last.
LEMMA TokensGrow ==
    ASSUME NEW lines, NEW n \in Nat, NEW S \in SUBSET (1 .. n),
           NEW x \in Nat, \A i \in S : i < x
    PROVE  Tokens(lines, S \cup {x}) = Append(Tokens(lines, S), Token(lines, x))
<1>. DEFINE c == Cardinality(S)
            T == S \cup {x}
<1>1. IsFiniteSet(S) /\ S \subseteq Nat
  <2>1. IsOrdered(S)
    BY PlacesInOrder, Zenon
  <2>2. S \subseteq Nat
    OBVIOUS
  <2>. QED
    BY <2>1, <2>2, Zenon DEF IsOrdered
<1>2. /\ c \in Nat /\ Cardinality(T) = c + 1 /\ InOrder(T)[c + 1] = x
      /\ \A k \in 1 .. c : InOrder(T)[k] = InOrder(S)[k]
  BY <1>1, InOrderGrows, Zenon
<1>3. Tokens(lines, S) \in Seq(AllTokens) /\ Len(Tokens(lines, S)) = c
  BY TokensType
<1>4. /\ Tokens(lines, S) = [k \in 1 .. c |-> Token(lines, InOrder(S)[k])]
      /\ Tokens(lines, T) = [k \in 1 .. Cardinality(T) |-> Token(lines, InOrder(T)[k])]
  BY DEF Tokens
<1>. HIDE DEF c, T
<1>5. Tokens(lines, T) = [k \in 1 .. c + 1 |-> Token(lines, InOrder(T)[k])]
  BY <1>2, <1>4
<1>. DEFINE s == Tokens(lines, S)
            t == Token(lines, x)
<1>6. Append(s, t) = [k \in 1 .. c + 1 |-> IF k = c + 1 THEN t ELSE s[k]]
  <2>. HIDE DEF s, t
  <2>1. s \in Seq(AllTokens) /\ Len(s) = c
    BY <1>3 DEF s
  <2>2. t \in AllTokens
    BY DEF t, Token, AllTokens
  <2>3. /\ Append(s, t) \in Seq(AllTokens) /\ Len(Append(s, t)) = c + 1
        /\ \A k \in 1 .. c + 1 : Append(s, t)[k] = IF k = c + 1 THEN t ELSE s[k]
    BY <2>1, <2>2, <1>2
  <2>4. Append(s, t) = [k \in 1 .. c + 1 |-> Append(s, t)[k]]
    <3>. DEFINE a == Append(s, t)
    <3>1. a \in Seq(AllTokens) /\ Len(a) = c + 1
      BY <2>3
    <3>. HIDE DEF a
    <3>2. a = [k \in 1 .. c + 1 |-> a[k]]
      BY <1>2, <3>1
    <3>. QED
      BY <3>2 DEF a
  <2>. QED
    BY <2>3, <2>4, Zenon
<1>7. \A k \in 1 .. c + 1 : Token(lines, InOrder(T)[k]) = IF k = c + 1 THEN t ELSE s[k]
  <2>1. \A k \in 1 .. c + 1 : k # c + 1 => k \in 1 .. c
    BY <1>2
  <2>. QED
    BY <1>2, <1>4, <2>1, Zenon
<1>. QED
  BY <1>5, <1>6, <1>7, Zenon DEF T

-----------------------------------------------------------------------------
(* Ends of sequences                                                        *)

LEMMA SuffixMeans ==
    ASSUME NEW D, NEW s \in Seq(D), NEW t \in Seq(D)
    PROVE  IsSuffix(s, t) <=> /\ Len(s) <= Len(t)
                              /\ \A k \in 1 .. Len(s) : s[Len(s) - k + 1] = t[Len(t) - k + 1]
<1>. DEFINE r == Reverse(s)
            u == Reverse(t)
<1>1. /\ r \in Seq(D) /\ Len(r) = Len(s)
      /\ \A k \in 1 .. Len(s) : r[k] = s[Len(s) - k + 1]
  BY DEF Reverse
<1>2. /\ u \in Seq(D) /\ Len(u) = Len(t)
      /\ \A k \in 1 .. Len(t) : u[k] = t[Len(t) - k + 1]
  BY DEF Reverse
<1>3. IsSuffix(s, t) <=> /\ Len(r) <= Len(u)
                         /\ SubSeq(r, 1, Len(r)) = SubSeq(u, 1, Len(r))
  BY DEF IsSuffix, IsPrefix
<1>. HIDE DEF r, u
<1>4. SubSeq(r, 1, Len(r)) = [k \in 1 .. Len(r) |-> r[k]]
  BY <1>1
<1>5. ASSUME Len(r) <= Len(u)
      PROVE  SubSeq(u, 1, Len(r)) = [k \in 1 .. Len(r) |-> u[k]]
  BY <1>1, <1>2, <1>5
<1>6. ASSUME Len(r) <= Len(u)
      PROVE  (SubSeq(r, 1, Len(r)) = SubSeq(u, 1, Len(r)))
                <=> \A k \in 1 .. Len(r) : r[k] = u[k]
  BY <1>4, <1>5, <1>6
<1>7. ASSUME Len(s) <= Len(t) PROVE \A k \in 1 .. Len(s) : k \in 1 .. Len(t)
  BY <1>7
<1>8. ASSUME Len(s) <= Len(t)
      PROVE  (\A k \in 1 .. Len(r) : r[k] = u[k])
                <=> \A k \in 1 .. Len(s) : s[Len(s) - k + 1] = t[Len(t) - k + 1]
  <2>1. Len(r) = Len(s)
    BY <1>1
  <2>2. \A k \in 1 .. Len(s) :
            (r[k] = u[k]) <=> (s[Len(s) - k + 1] = t[Len(t) - k + 1])
    BY <1>1, <1>2, <1>7, <1>8, Zenon
  <2>. QED
    BY <2>1, <2>2
<1>9. Len(r) <= Len(u) <=> Len(s) <= Len(t)
  BY <1>1, <1>2
<1>. QED
  BY <1>3, <1>6, <1>8, <1>9, Zenon

LEMMA SuffixOfAll == ASSUME NEW D, NEW t \in Seq(D) PROVE IsSuffix(<<>>, t)
<1>1. <<>> \in Seq(D) /\ Len(<<>>) <= Len(t) /\ 1 .. Len(<<>>) = {}
  OBVIOUS
<1>. QED
  BY <1>1, SuffixMeans, Zenon

\* What ends a sequence still ends it when both get one more.
LEMMA SuffixGrows ==
    ASSUME NEW D, NEW s \in Seq(D), NEW t \in Seq(D), NEW x \in D, IsSuffix(s, t)
    PROVE  IsSuffix(Append(s, x), Append(t, x)) /\ IsSuffix(<<x>>, Append(t, x))
<1>1. /\ Len(s) <= Len(t)
      /\ \A k \in 1 .. Len(s) : s[Len(s) - k + 1] = t[Len(t) - k + 1]
  BY SuffixMeans
<1>. DEFINE u == Append(s, x)
            v == Append(t, x)
<1>2. u \in Seq(D) /\ v \in Seq(D) /\ <<x>> \in Seq(D)
  OBVIOUS
<1>3. /\ Len(s) \in Nat /\ Len(u) = Len(s) + 1 /\ u[Len(s) + 1] = x
      /\ \A k \in 1 .. Len(s) : u[k] = s[k]
  OBVIOUS
<1>4. /\ Len(t) \in Nat /\ Len(v) = Len(t) + 1 /\ v[Len(t) + 1] = x
      /\ \A k \in 1 .. Len(t) : v[k] = t[k]
  OBVIOUS
<1>5. Len(<<x>>) = 1 /\ <<x>>[1] = x
  OBVIOUS
<1>. HIDE DEF u, v
<1>6. \A k \in 1 .. Len(u) : u[Len(u) - k + 1] = v[Len(v) - k + 1]
  <2>. TAKE k \in 1 .. Len(u)
  <2>1. CASE k = 1
    BY <1>3, <1>4, <2>1
  <2>2. CASE k # 1
    <3>1. k - 1 \in 1 .. Len(s) /\ k - 1 \in 1 .. Len(t)
      BY <1>1, <1>3, <1>4, <2>2
    <3>2. /\ Len(s) - (k - 1) + 1 \in 1 .. Len(s) /\ Len(u) - k + 1 = Len(s) - (k - 1) + 1
          /\ Len(t) - (k - 1) + 1 \in 1 .. Len(t) /\ Len(v) - k + 1 = Len(t) - (k - 1) + 1
      BY <1>3, <1>4, <3>1
    <3>. QED
      BY <1>1, <1>3, <1>4, <3>1, <3>2
  <2>. QED
    BY <2>1, <2>2
<1>7. IsSuffix(u, v)
  <2>1. Len(u) <= Len(v)
    BY <1>1, <1>3, <1>4
  <2>. QED
    BY <1>2, <1>6, <2>1, SuffixMeans, Zenon
<1>8. IsSuffix(<<x>>, v)
  <2>. DEFINE w == <<x>>
  <2>1. w \in Seq(D) /\ Len(w) = 1 /\ w[1] = x
    BY <1>2, <1>5
  <2>. HIDE DEF w
  <2>2. Len(w) <= Len(v) /\ \A k \in 1 .. Len(w) : w[Len(w) - k + 1] = v[Len(v) - k + 1]
    BY <1>4, <2>1
  <2>3. IsSuffix(w, v)
    BY <1>2, <2>1, <2>2, SuffixMeans, Zenon
  <2>. QED
    BY <2>3 DEF w
<1>. QED
  BY <1>7, <1>8 DEF u, v

-----------------------------------------------------------------------------
(* The chunks of an answer and what they tell                               *)

LEMMA InSeq ==
    ASSUME NEW D, NEW s \in Seq(D)
    PROVE  Len(s) \in Nat /\ \A k \in 1 .. Len(s) : s[k] \in D
OBVIOUS

\* An answer is so many lines.
AreLines(lines, n) == n \in Nat /\ DOMAIN lines = 1 .. n

Said(lines) == {i \in DOMAIN lines : lines[i] # "blank"}

\* The chunks are the lines that are not blank, in order, or the place 0.
LEMMA ChunksMean ==
    ASSUME NEW lines, NEW n, AreLines(lines, n)
    PROVE  /\ Chunks(lines) \in Seq(0 .. n) /\ Len(Chunks(lines)) > 0
           /\ \A j, k \in 1 .. Len(Chunks(lines)) :
                  j < k => Chunks(lines)[j] < Chunks(lines)[k]
           /\ \A i \in Said(lines) : \E k \in 1 .. Len(Chunks(lines)) : Chunks(lines)[k] = i
           /\ \A k \in 1 .. Len(Chunks(lines)) :
                  Chunks(lines)[k] # 0 => Chunks(lines)[k] \in Said(lines)
<1>1. Chunks(lines) = IF Said(lines) = {} THEN <<0>> ELSE InOrder(Said(lines))
  BY DEF Chunks, Said
<1>2. n \in Nat /\ Said(lines) \in SUBSET (1 .. n)
  BY DEF Said, AreLines
<1>3. CASE Said(lines) = {}
  <2>1. Chunks(lines) = <<0>>
    BY <1>1, <1>3
  <2>. QED
    BY <1>2, <1>3, <2>1
<1>4. CASE Said(lines) # {}
  <2>. DEFINE S == Said(lines)
              c == Chunks(lines)
              m == Cardinality(S)
  <2>1. c = InOrder(S)
    BY <1>1, <1>4
  <2>2. IsOrdered(S)
    BY <1>2, PlacesInOrder, Zenon
  <2>3. S \subseteq 1 .. n /\ 1 .. n \subseteq 0 .. n /\ 0 \notin 1 .. n
    BY <1>2
  <2>4. c = [k \in 1 .. m |-> CHOOSE i \in Ranked(S, k) : TRUE]
    BY <2>1 DEF InOrder
  <2>. HIDE DEF S, c
  <2>5. m \in Nat
    BY <2>2 DEF IsOrdered
  <2>6. \A k \in 1 .. m : c[k] \in 0 .. n
    BY <2>1, <2>2, <2>3, Zenon DEF IsOrdered
  <2>. DEFINE v(k) == CHOOSE i \in Ranked(S, k) : TRUE
  <2>. HIDE DEF v, m
  <2>7. c = [k \in 1 .. m |-> v(k)]
    BY <2>4, Zenon DEF v
  <2>8. c \in Seq(0 .. n) /\ Len(c) = m
    BY <2>5, <2>6, <2>7
  <2>9. m # 0
    <3>. SUFFICES ASSUME m = 0 PROVE FALSE
      OBVIOUS
    <3>1. 1 .. m = {}
      OBVIOUS
    <3>. QED
      BY <1>4, <2>2, <3>1, Zenon DEF IsOrdered, m, S
  <2>10. /\ \A j, k \in 1 .. m : j < k => c[j] < c[k]
         /\ \A i \in S : \E k \in 1 .. m : c[k] = i
         /\ \A k \in 1 .. m : c[k] \in S
    BY <2>1, <2>2, Zenon DEF IsOrdered, m
  <2>. QED
    BY <2>5, <2>8, <2>9, <2>10 DEF S, c
<1>. QED
  BY <1>3, <1>4

\* The last place of the first d chunks.
UpTo(lines, d) == IF d = 0 THEN 0 ELSE Chunks(lines)[d]

\* Up to a place: the lines that are words, and those of them that are left by
\* the last answer in JSON.
WordsUpTo(lines, x) == {i \in DOMAIN lines : i <= x /\ lines[i] \in Words}
ToldUpTo(lines, x) ==
    {i \in DOMAIN lines :
        /\ i <= x /\ lines[i] \in Words
        /\ \A j \in DOMAIN lines : j <= x /\ lines[j] = "answer" => j <= i}

\* Between a chunk and the next there are blank lines only.
LEMMA NextChunk ==
    ASSUME NEW lines, NEW n, AreLines(lines, n),
           NEW d \in Nat, d < Len(Chunks(lines))
    PROVE  /\ UpTo(lines, d) \in 0 .. n /\ UpTo(lines, d + 1) \in 0 .. n
           /\ UpTo(lines, d + 1) = 0 => UpTo(lines, d) = 0
           /\ UpTo(lines, d + 1) # 0 =>
                 /\ UpTo(lines, d) < UpTo(lines, d + 1)
                 /\ UpTo(lines, d + 1) \in Said(lines)
           /\ \A i \in DOMAIN lines :
                 i <= UpTo(lines, d + 1) =>
                     i <= UpTo(lines, d) \/ i = UpTo(lines, d + 1) \/ lines[i] = "blank"
<1>. DEFINE c == Chunks(lines)
<1>1. /\ c \in Seq(0 .. n) /\ Len(c) > 0
      /\ \A j, k \in 1 .. Len(c) : j < k => c[j] < c[k]
      /\ \A i \in Said(lines) : \E k \in 1 .. Len(c) : c[k] = i
      /\ \A k \in 1 .. Len(c) : c[k] # 0 => c[k] \in Said(lines)
  BY ChunksMean
<1>2. n \in Nat /\ DOMAIN lines = 1 .. n
  BY DEF AreLines
<1>3. /\ UpTo(lines, d) = IF d = 0 THEN 0 ELSE c[d]
      /\ UpTo(lines, d + 1) = c[d + 1]
  BY DEF UpTo
<1>. HIDE DEF c
<1>4. d + 1 \in 1 .. Len(c) /\ (d # 0 => d \in 1 .. Len(c))
  BY <1>1 DEF c
<1>5. c[d + 1] \in 0 .. n /\ (d # 0 => c[d] \in 0 .. n /\ c[d] < c[d + 1])
  <2>1. \A k \in 1 .. Len(c) : c[k] \in 0 .. n
    BY <1>1, InSeq, Zenon
  <2>2. d < d + 1
    OBVIOUS
  <2>. QED
    BY <1>1, <1>4, <2>1, <2>2, Zenon
<1>6. \A i \in DOMAIN lines : i <= c[d + 1] /\ lines[i] # "blank"
          => i = c[d + 1] \/ (d # 0 /\ i <= c[d])
  <2>. SUFFICES ASSUME NEW i \in 1 .. n, i <= c[d + 1], lines[i] # "blank"
                PROVE  i = c[d + 1] \/ (d # 0 /\ i <= c[d])
    BY <1>2
  <2>1. PICK k \in 1 .. Len(c) : c[k] = i
    BY <1>1, <1>2 DEF Said
  <2>2. k <= d + 1
    BY <1>1, <1>4, <1>5, <2>1
  <2>. QED
    BY <1>1, <1>4, <1>5, <2>1, <2>2
<1>. QED
  BY <1>1, <1>2, <1>3, <1>4, <1>5, <1>6

\* What the next chunk adds to the lines that are words, and to those told.
LEMMA NextTold ==
    ASSUME NEW lines, NEW n, AreLines(lines, n),
           NEW d \in Nat, d < Len(Chunks(lines)),
           NEW x, x = UpTo(lines, d + 1), NEW y, y = UpTo(lines, d)
    PROVE  /\ x = 0 \/ lines[x] \notin Words =>
                 WordsUpTo(lines, x) = WordsUpTo(lines, y) /\ ToldUpTo(lines, x) = ToldUpTo(lines, y)
           /\ x # 0 /\ lines[x] \in Words =>
                 /\ WordsUpTo(lines, x) = WordsUpTo(lines, y) \cup {x}
                 /\ lines[x] # "answer" => ToldUpTo(lines, x) = ToldUpTo(lines, y) \cup {x}
                 /\ lines[x] = "answer" => ToldUpTo(lines, x) = {} \cup {x}
<1>1. /\ n \in Nat /\ DOMAIN lines = 1 .. n
      /\ y \in 0 .. n /\ x \in 0 .. n
      /\ x = 0 => y = 0
      /\ x # 0 => y < x /\ x \in Said(lines)
      /\ \A i \in DOMAIN lines : i <= x => i <= y \/ i = x \/ lines[i] = "blank"
  BY NextChunk DEF AreLines
<1>2. "blank" \notin Words /\ "answer" \in Words
  BY DEF Words
<1>3. CASE x = 0
  BY <1>1, <1>2, <1>3
<1>4. CASE x # 0
  <2>1. x \in DOMAIN lines
    BY <1>1, <1>4 DEF Said
  <2>2. \A i \in DOMAIN lines : i <= y => i <= x /\ i < x /\ i # x
    BY <1>1, <1>4
  <2>3. \A i \in DOMAIN lines : i <= x => i <= y \/ i = x \/ lines[i] = "blank"
    BY <1>1
  <2>4. x <= x /\ ~(x <= y) /\ \A i \in DOMAIN lines : i <= x /\ x <= i => i = x
    BY <1>1, <1>4
  <2>5. CASE lines[x] \notin Words
    <3>1. \A i \in DOMAIN lines : (i <= x /\ lines[i] \in Words) <=> (i <= y /\ lines[i] \in Words)
      BY <1>2, <2>2, <2>3, <2>5, Zenon
    <3>2. \A i \in DOMAIN lines : (i <= x /\ lines[i] = "answer") <=> (i <= y /\ lines[i] = "answer")
      BY <1>2, <3>1, Zenon
    <3>3. WordsUpTo(lines, x) = WordsUpTo(lines, y)
      BY <3>1, Zenon DEF WordsUpTo
    <3>4. ToldUpTo(lines, x) = ToldUpTo(lines, y)
      BY <3>1, <3>2, Zenon DEF ToldUpTo
    <3>. QED
      BY <2>5, <3>3, <3>4
  <2>6. CASE lines[x] \in Words
    <3>1. \A i \in DOMAIN lines : (i <= x /\ lines[i] \in Words)
              <=> ((i <= y /\ lines[i] \in Words) \/ i = x)
      BY <1>2, <2>2, <2>3, <2>4, <2>6, Zenon
    <3>2. WordsUpTo(lines, x) = WordsUpTo(lines, y) \cup {x}
      BY <2>1, <3>1, Zenon DEF WordsUpTo
    <3>3. ASSUME lines[x] # "answer" PROVE ToldUpTo(lines, x) = ToldUpTo(lines, y) \cup {x}
      <4>1. \A i \in DOMAIN lines : (i <= x /\ lines[i] = "answer") <=> (i <= y /\ lines[i] = "answer")
        BY <1>2, <2>2, <3>1, <3>3, Zenon
      <4>2. \A j \in DOMAIN lines : j <= y => j <= x
        BY <2>2
      <4>. QED
        BY <2>1, <3>1, <4>1, <4>2, Zenon DEF ToldUpTo
    <3>4. ASSUME lines[x] = "answer" PROVE ToldUpTo(lines, x) = {} \cup {x}
      <4>1. \A j \in DOMAIN lines : j <= x /\ lines[j] = "answer" => j <= x
        OBVIOUS
      <4>. QED
        BY <2>1, <2>4, <2>6, <3>4, <4>1, Zenon DEF ToldUpTo
    <3>. QED
      BY <1>4, <2>6, <3>2, <3>3, <3>4
  <2>. QED
    BY <2>5, <2>6
<1>. QED
  BY <1>3, <1>4

\* What the client makes of the first d chunks: the answer, and what it has shown.
FullBy(lines, d) == Tokens(lines, ToldUpTo(lines, UpTo(lines, d)))
ShownBy(lines, d) == Tokens(lines, WordsUpTo(lines, UpTo(lines, d)))

\* Each chunk that is words is shown behind the others and told behind them, or
\* told in their place; every other one changes nothing.
LEMMA OneChunk ==
    ASSUME NEW lines, NEW n, AreLines(lines, n),
           NEW d \in Nat, d < Len(Chunks(lines)),
           NEW x, x = UpTo(lines, d + 1)
    PROVE  /\ x = 0 \/ lines[x] \notin Words =>
                 FullBy(lines, d + 1) = FullBy(lines, d) /\ ShownBy(lines, d + 1) = ShownBy(lines, d)
           /\ x # 0 /\ lines[x] \in Words =>
                 /\ ShownBy(lines, d + 1) = Append(ShownBy(lines, d), Token(lines, x))
                 /\ lines[x] # "answer" =>
                        FullBy(lines, d + 1) = Append(FullBy(lines, d), Token(lines, x))
                 /\ lines[x] = "answer" => FullBy(lines, d + 1) = <<Token(lines, x)>>
<1>. DEFINE y == UpTo(lines, d)
<1>1. /\ n \in Nat /\ DOMAIN lines = 1 .. n
      /\ y \in 0 .. n /\ x \in 0 .. n /\ (x # 0 => y < x)
  BY NextChunk DEF AreLines
<1>2. /\ FullBy(lines, d) = Tokens(lines, ToldUpTo(lines, y))
      /\ FullBy(lines, d + 1) = Tokens(lines, ToldUpTo(lines, x))
      /\ ShownBy(lines, d) = Tokens(lines, WordsUpTo(lines, y))
      /\ ShownBy(lines, d + 1) = Tokens(lines, WordsUpTo(lines, x))
  BY DEF FullBy, ShownBy
<1>3. /\ x = 0 \/ lines[x] \notin Words =>
            WordsUpTo(lines, x) = WordsUpTo(lines, y) /\ ToldUpTo(lines, x) = ToldUpTo(lines, y)
      /\ x # 0 /\ lines[x] \in Words =>
            /\ WordsUpTo(lines, x) = WordsUpTo(lines, y) \cup {x}
            /\ lines[x] # "answer" => ToldUpTo(lines, x) = ToldUpTo(lines, y) \cup {x}
            /\ lines[x] = "answer" => ToldUpTo(lines, x) = {} \cup {x}
  <2>. HIDE DEF y
  <2>1. y = UpTo(lines, d)
    BY DEF y
  <2>. QED
    BY <2>1, NextTold
<1>4. /\ WordsUpTo(lines, y) \in SUBSET (1 .. n) /\ ToldUpTo(lines, y) \in SUBSET (1 .. n)
      /\ \A i \in WordsUpTo(lines, y) \cup ToldUpTo(lines, y) : i <= y
  BY <1>1 DEF WordsUpTo, ToldUpTo
<1>5. CASE x = 0 \/ lines[x] \notin Words
  BY <1>2, <1>3, <1>5, Zenon
<1>6. CASE x # 0 /\ lines[x] \in Words
  <2>. HIDE DEF y
  <2>1. /\ \A i \in WordsUpTo(lines, y) : i < x
        /\ \A i \in ToldUpTo(lines, y) : i < x
        /\ x \in Nat
    BY <1>1, <1>4, <1>6
  <2>2. Tokens(lines, WordsUpTo(lines, y) \cup {x})
            = Append(Tokens(lines, WordsUpTo(lines, y)), Token(lines, x))
    BY <1>1, <1>4, <2>1, TokensGrow, Zenon
  <2>3. Tokens(lines, ToldUpTo(lines, y) \cup {x})
            = Append(Tokens(lines, ToldUpTo(lines, y)), Token(lines, x))
    BY <1>1, <1>4, <2>1, TokensGrow, Zenon
  <2>4. Tokens(lines, {} \cup {x}) = Append(Tokens(lines, {}), Token(lines, x))
    <3>1. {} \in SUBSET (1 .. n) /\ \A i \in {} : i < x
      OBVIOUS
    <3>. QED
      BY <1>1, <2>1, <3>1, TokensGrow, Zenon
  <2>5. Append(<<>>, Token(lines, x)) = <<Token(lines, x)>>
    OBVIOUS
  <2>. QED
    BY <1>2, <1>3, <1>6, <2>2, <2>3, <2>4, <2>5, TokensOfNone, Zenon
<1>. QED
  BY <1>5, <1>6

LEMMA ByType ==
    ASSUME NEW lines, NEW n, AreLines(lines, n),
           NEW d \in Nat, d <= Len(Chunks(lines))
    PROVE  FullBy(lines, d) \in Seq(AllTokens) /\ ShownBy(lines, d) \in Seq(AllTokens)
<1>1. n \in Nat /\ DOMAIN lines = 1 .. n
  BY DEF AreLines
<1>2. /\ WordsUpTo(lines, UpTo(lines, d)) \in SUBSET (1 .. n)
      /\ ToldUpTo(lines, UpTo(lines, d)) \in SUBSET (1 .. n)
  BY <1>1 DEF WordsUpTo, ToldUpTo
<1>. QED
  BY <1>1, <1>2, TokensType, Zenon DEF FullBy, ShownBy

\* Nothing is told or shown of no chunk.
LEMMA ByNone ==
    ASSUME NEW lines, NEW n, AreLines(lines, n)
    PROVE  FullBy(lines, 0) = <<>> /\ ShownBy(lines, 0) = <<>>
<1>1. WordsUpTo(lines, 0) = {} /\ ToldUpTo(lines, 0) = {}
  BY DEF AreLines, WordsUpTo, ToldUpTo
<1>. QED
  BY <1>1, TokensOfNone DEF FullBy, ShownBy, UpTo

\* Of all of the chunks the client makes what the answer means.
LEMMA ByAll ==
    ASSUME NEW lines, NEW n, AreLines(lines, n)
    PROVE  FullBy(lines, Len(Chunks(lines))) = Meaning(lines)
<1>. DEFINE c == Chunks(lines)
            x == UpTo(lines, Len(c))
<1>1. /\ c \in Seq(0 .. n) /\ Len(c) > 0
      /\ \A j, k \in 1 .. Len(c) : j < k => c[j] < c[k]
      /\ \A i \in Said(lines) : \E k \in 1 .. Len(c) : c[k] = i
  BY ChunksMean
<1>2. n \in Nat /\ DOMAIN lines = 1 .. n
  BY DEF AreLines
<1>3. x = c[Len(c)]
  BY <1>1 DEF UpTo
<1>. HIDE DEF c, x
<1>4. \A i \in DOMAIN lines : lines[i] # "blank" => i <= x
  <2>. SUFFICES ASSUME NEW i \in 1 .. n, lines[i] # "blank" PROVE i <= x
    BY <1>2
  <2>1. PICK k \in 1 .. Len(c) : c[k] = i
    BY <1>1, <1>2 DEF Said
  <2>2. Len(c) \in 1 .. Len(c) /\ (k = Len(c) \/ k < Len(c))
    BY <1>1
  <2>3. c[k] \in 0 .. n /\ c[Len(c)] \in 0 .. n
    BY <1>1, <2>2, InSeq, Zenon
  <2>4. c[k] = c[Len(c)] \/ c[k] < c[Len(c)]
    BY <1>1, <2>2, Zenon
  <2>. QED
    BY <1>2, <1>3, <2>1, <2>3, <2>4
<1>5. "blank" \notin Words /\ "answer" # "blank"
  BY DEF Words
<1>6. ToldUpTo(lines, x)
        = {i \in DOMAIN lines : /\ lines[i] \in Words
                                /\ \A j \in DOMAIN lines : lines[j] = "answer" => j <= i}
  BY <1>4, <1>5, Zenon DEF ToldUpTo
<1>. QED
  BY <1>6, Zenon DEF FullBy, Meaning, c, x

\* What has been shown of any of the chunks ends with what is told of them.
LEMMA ShownEndsWithFull ==
    ASSUME NEW lines, NEW n, AreLines(lines, n),
           NEW d \in Nat, d <= Len(Chunks(lines))
    PROVE  IsSuffix(FullBy(lines, d), ShownBy(lines, d))
<1>. DEFINE N == { k \in Nat : k <= Len(Chunks(lines)) =>
                                  IsSuffix(FullBy(lines, k), ShownBy(lines, k)) }
<1>0. Len(Chunks(lines)) \in Nat
  BY ChunksMean
<1>1. 0 \in N
  <2>1. <<>> \in Seq(AllTokens)
    OBVIOUS
  <2>2. IsSuffix(FullBy(lines, 0), ShownBy(lines, 0))
    BY <2>1, ByNone, SuffixOfAll, Zenon
  <2>. QED
    BY <2>2
<1>2. ASSUME NEW k \in Nat, k \in N PROVE k + 1 \in N
  <2>. SUFFICES ASSUME k + 1 <= Len(Chunks(lines))
                PROVE  IsSuffix(FullBy(lines, k + 1), ShownBy(lines, k + 1))
    OBVIOUS
  <2>. DEFINE f == FullBy(lines, k)
              s == ShownBy(lines, k)
              x == UpTo(lines, k + 1)
              t == Token(lines, x)
  <2>1. k < Len(Chunks(lines)) /\ k <= Len(Chunks(lines))
    BY <1>0
  <2>2. IsSuffix(f, s) /\ f \in Seq(AllTokens) /\ s \in Seq(AllTokens)
    BY <1>2, <2>1, ByType
  <2>3. t \in AllTokens
    <3>1. n \in Nat /\ x \in 0 .. n
      BY <2>1, NextChunk, Zenon DEF AreLines
    <3>. QED
      BY <3>1 DEF Token, AllTokens
  <2>4. IsSuffix(Append(f, t), Append(s, t)) /\ IsSuffix(<<t>>, Append(s, t))
    <3>. HIDE DEF f, s, t
    <3>. QED
      BY <2>2, <2>3, SuffixGrows
  <2>. QED
    BY <2>1, <2>2, <2>4, OneChunk, Zenon
<1>. HIDE DEF N
<1>3. d \in N
  BY <1>1, <1>2, Counting
<1>. QED
  BY <1>3 DEF N

-----------------------------------------------------------------------------
(* The pieces of the stream and what the client makes of them               *)

Pieces == {<<"data: ">>, <<"\n">>, <<"event: done">>, <<"[DONE]">>} \cup ({"line"} \X Nat)

\* The pieces of the events yielded so far: four of each chunk, six of the end.
YieldedPieces(lines, events) ==
    IF events <= Len(Chunks(lines)) THEN 4 * events ELSE 4 * Len(Chunks(lines)) + 6

\* The piece at a position of the stream.
PieceAt(lines, p) ==
    IF p <= 4 * Len(Chunks(lines))
    THEN DataEvent(Chunks(lines)[(p - 1) \div 4 + 1])[((p - 1) % 4) + 1]
    ELSE DoneEvent[p - 4 * Len(Chunks(lines))]

\* The chunks that the first p pieces complete the data of, and what they leave
\* of a line.
ChunksBy(lines, p) ==
    IF p <= 4 * Len(Chunks(lines)) THEN (p + 1) \div 4 ELSE Len(Chunks(lines))

RestBy(lines, p) ==
    IF p <= 4 * Len(Chunks(lines))
    THEN IF p % 4 = 1 THEN <<<<"data: ">>>>
         ELSE IF p % 4 = 2 THEN <<<<"data: ">>, <<"line", Chunks(lines)[p \div 4 + 1]>>>>
         ELSE <<>>
    ELSE IF p - 4 * Len(Chunks(lines)) = 1 THEN <<<<"event: done">>>>
         ELSE IF p - 4 * Len(Chunks(lines)) = 3 THEN <<<<"data: ">>>>
         ELSE IF p - 4 * Len(Chunks(lines)) = 4 THEN <<<<"data: ">>, <<"[DONE]">>>>
         ELSE <<>>

\* The client after the first p pieces.
ClientBy(lines, p) ==
    [full |-> FullBy(lines, ChunksBy(lines, p)),
     shown |-> ShownBy(lines, ChunksBy(lines, p)),
     rest |-> RestBy(lines, p)]

LEMMA Quarters ==
    ASSUME NEW d \in Nat, NEW r \in 0 .. 3
    PROVE  (4 * d + r) \div 4 = d /\ (4 * d + r) % 4 = r
OBVIOUS

LEMMA InQuarters ==
    ASSUME NEW p \in Nat
    PROVE  \E d \in Nat, r \in 0 .. 3 : p = 4 * d + r
<1>. WITNESS p \div 4 \in Nat, p % 4 \in 0 .. 3
<1>. QED
  OBVIOUS

\* Where the stream and the client are in the pieces of a chunk.
LEMMA InChunk ==
    ASSUME NEW lines, NEW m \in Nat, m = Len(Chunks(lines)), NEW d \in Nat, d < m
    PROVE  /\ RestBy(lines, 4 * d) = <<>> /\ ChunksBy(lines, 4 * d) = d
           /\ PieceAt(lines, 4 * d + 1) = <<"data: ">>
           /\ RestBy(lines, 4 * d + 1) = <<<<"data: ">>>> /\ ChunksBy(lines, 4 * d + 1) = d
           /\ PieceAt(lines, 4 * d + 2) = <<"line", Chunks(lines)[d + 1]>>
           /\ RestBy(lines, 4 * d + 2) = <<<<"data: ">>, <<"line", Chunks(lines)[d + 1]>>>>
           /\ ChunksBy(lines, 4 * d + 2) = d
           /\ PieceAt(lines, 4 * d + 3) = NewLine
           /\ RestBy(lines, 4 * d + 3) = <<>> /\ ChunksBy(lines, 4 * d + 3) = d + 1
           /\ PieceAt(lines, 4 * d + 4) = NewLine
           /\ RestBy(lines, 4 * d + 4) = <<>> /\ ChunksBy(lines, 4 * d + 4) = d + 1
<1>1. \A r \in 0 .. 4 : 4 * d + r <= 4 * m /\ 4 * d + r \in Nat
  OBVIOUS
<1>2. /\ (4 * d) \div 4 = d /\ (4 * d) % 4 = 0
      /\ (4 * d + 1) \div 4 = d /\ (4 * d + 1) % 4 = 1
      /\ (4 * d + 2) \div 4 = d /\ (4 * d + 2) % 4 = 2
      /\ (4 * d + 3) \div 4 = d /\ (4 * d + 3) % 4 = 3
      /\ (4 * d + 4) \div 4 = d + 1 /\ (4 * d + 4) % 4 = 0
      /\ (4 * d + 5) \div 4 = d + 1
  OBVIOUS
<1>3. \A p : p <= 4 * Len(Chunks(lines)) =>
          /\ p % 4 = 1 => RestBy(lines, p) = <<<<"data: ">>>>
          /\ p % 4 = 2 => RestBy(lines, p)
                             = <<<<"data: ">>, <<"line", Chunks(lines)[p \div 4 + 1]>>>>
          /\ p % 4 # 1 /\ p % 4 # 2 => RestBy(lines, p) = <<>>
  <2>1. 1 # 2
    OBVIOUS
  <2>. QED
    BY <2>1, Zenon DEF RestBy
<1>a. /\ RestBy(lines, 4 * d) = <<>>
      /\ RestBy(lines, 4 * d + 3) = <<>> /\ RestBy(lines, 4 * d + 4) = <<>>
  <2>1. /\ 4 * d <= 4 * Len(Chunks(lines)) /\ 4 * d + 3 <= 4 * Len(Chunks(lines))
        /\ 4 * d + 4 <= 4 * Len(Chunks(lines))
        /\ (4 * d) % 4 # 1 /\ (4 * d) % 4 # 2 /\ (4 * d + 3) % 4 # 1 /\ (4 * d + 3) % 4 # 2
        /\ (4 * d + 4) % 4 # 1 /\ (4 * d + 4) % 4 # 2
    BY <1>1, <1>2
  <2>. QED
    BY <1>3, <2>1, Zenon
<1>b. /\ RestBy(lines, 4 * d + 1) = <<<<"data: ">>>>
      /\ RestBy(lines, 4 * d + 2) = <<<<"data: ">>, <<"line", Chunks(lines)[d + 1]>>>>
  <2>1. 4 * d + 1 <= 4 * Len(Chunks(lines)) /\ 4 * d + 2 <= 4 * Len(Chunks(lines))
    BY <1>1
  <2>. QED
    BY <1>2, <1>3, <2>1, Zenon
<1>4. /\ ChunksBy(lines, 4 * d) = d /\ ChunksBy(lines, 4 * d + 1) = d
      /\ ChunksBy(lines, 4 * d + 2) = d /\ ChunksBy(lines, 4 * d + 3) = d + 1
      /\ ChunksBy(lines, 4 * d + 4) = d + 1
  BY <1>1, <1>2 DEF ChunksBy
<1>5. \A r \in 1 .. 4 : (4 * d + r - 1) \div 4 = d /\ (4 * d + r - 1) % 4 = r - 1
  OBVIOUS
<1>6. \A r \in 1 .. 4 : PieceAt(lines, 4 * d + r) = DataEvent(Chunks(lines)[d + 1])[r]
  <2>. TAKE r \in 1 .. 4
  <2>1. /\ 4 * d + r <= 4 * Len(Chunks(lines)) /\ (4 * d + r - 1) \div 4 + 1 = d + 1
        /\ ((4 * d + r - 1) % 4) + 1 = r
    BY <1>5
  <2>2. \A p, k, q : /\ p <= 4 * Len(Chunks(lines)) /\ (p - 1) \div 4 + 1 = k
                     /\ ((p - 1) % 4) + 1 = q
                     => PieceAt(lines, p) = DataEvent(Chunks(lines)[k])[q]
    BY Zenon DEF PieceAt
  <2>. DEFINE p == 4 * d + r
  <2>3. p <= 4 * Len(Chunks(lines)) /\ (p - 1) \div 4 + 1 = d + 1 /\ ((p - 1) % 4) + 1 = r
    BY <2>1
  <2>. HIDE DEF p
  <2>4. PieceAt(lines, p) = DataEvent(Chunks(lines)[d + 1])[r]
    BY <2>2, <2>3, Zenon
  <2>. QED
    BY <2>4 DEF p
<1>7. \A i : /\ DataEvent(i)[1] = <<"data: ">> /\ DataEvent(i)[2] = <<"line", i>>
             /\ DataEvent(i)[3] = NewLine /\ DataEvent(i)[4] = NewLine
  BY DEF DataEvent
<1>. QED
  <2>1. 1 \in 1 .. 4 /\ 2 \in 1 .. 4 /\ 3 \in 1 .. 4 /\ 4 \in 1 .. 4
    OBVIOUS
  <2>2. /\ PieceAt(lines, 4 * d + 1) = <<"data: ">>
        /\ PieceAt(lines, 4 * d + 2) = <<"line", Chunks(lines)[d + 1]>>
        /\ PieceAt(lines, 4 * d + 3) = NewLine /\ PieceAt(lines, 4 * d + 4) = NewLine
    BY <1>6, <1>7, <2>1, Zenon
  <2>. QED
    BY <1>a, <1>b, <1>4, <2>2, Zenon

\* And where they are in the pieces of the end.
LEMMA InEnd ==
    ASSUME NEW lines, NEW m \in Nat, m = Len(Chunks(lines))
    PROVE  /\ RestBy(lines, 4 * m) = <<>>
           /\ PieceAt(lines, 4 * m + 1) = <<"event: done">>
           /\ RestBy(lines, 4 * m + 1) = <<<<"event: done">>>>
           /\ PieceAt(lines, 4 * m + 2) = NewLine /\ RestBy(lines, 4 * m + 2) = <<>>
           /\ PieceAt(lines, 4 * m + 3) = <<"data: ">>
           /\ RestBy(lines, 4 * m + 3) = <<<<"data: ">>>>
           /\ PieceAt(lines, 4 * m + 4) = <<"[DONE]">>
           /\ RestBy(lines, 4 * m + 4) = <<<<"data: ">>, <<"[DONE]">>>>
           /\ PieceAt(lines, 4 * m + 5) = NewLine /\ RestBy(lines, 4 * m + 5) = <<>>
           /\ PieceAt(lines, 4 * m + 6) = NewLine /\ RestBy(lines, 4 * m + 6) = <<>>
           /\ \A q \in 0 .. 6 : ChunksBy(lines, 4 * m + q) = m
<1>1. \A q \in 1 .. 6 : ~(4 * m + q <= 4 * m) /\ (4 * m + q) - 4 * m = q
  OBVIOUS
<1>2. (4 * m) % 4 = 0 /\ (4 * m + 1) \div 4 = m /\ 4 * m <= 4 * m /\ 4 * m + 0 = 4 * m
  OBVIOUS
<1>3. /\ RestBy(lines, 4 * m) = <<>>
      /\ RestBy(lines, 4 * m + 1) = <<<<"event: done">>>>
      /\ RestBy(lines, 4 * m + 2) = <<>>
      /\ RestBy(lines, 4 * m + 3) = <<<<"data: ">>>>
      /\ RestBy(lines, 4 * m + 4) = <<<<"data: ">>, <<"[DONE]">>>>
      /\ RestBy(lines, 4 * m + 5) = <<>> /\ RestBy(lines, 4 * m + 6) = <<>>
  <2>1. \A q : /\ ~(4 * m + q <= 4 * Len(Chunks(lines)))
               /\ (4 * m + q) - 4 * Len(Chunks(lines)) = q
               => /\ q = 1 => RestBy(lines, 4 * m + q) = <<<<"event: done">>>>
                  /\ q = 3 => RestBy(lines, 4 * m + q) = <<<<"data: ">>>>
                  /\ q = 4 => RestBy(lines, 4 * m + q) = <<<<"data: ">>, <<"[DONE]">>>>
                  /\ q # 1 /\ q # 3 /\ q # 4 => RestBy(lines, 4 * m + q) = <<>>
    <3>1. 1 # 3 /\ 1 # 4 /\ 3 # 4
      OBVIOUS
    <3>. QED
      BY <3>1, Zenon DEF RestBy
  <2>2. \A q \in 1 .. 6 : /\ ~(4 * m + q <= 4 * Len(Chunks(lines)))
                          /\ (4 * m + q) - 4 * Len(Chunks(lines)) = q
    BY <1>1
  <2>3. /\ 1 \in 1 .. 6 /\ 2 \in 1 .. 6 /\ 3 \in 1 .. 6 /\ 4 \in 1 .. 6
        /\ 5 \in 1 .. 6 /\ 6 \in 1 .. 6
        /\ 2 # 1 /\ 2 # 3 /\ 2 # 4 /\ 5 # 1 /\ 5 # 3 /\ 5 # 4 /\ 6 # 1 /\ 6 # 3 /\ 6 # 4
    OBVIOUS
  <2>4. RestBy(lines, 4 * m) = <<>>
    <3>1. 4 * m <= 4 * Len(Chunks(lines)) /\ (4 * m) % 4 # 1 /\ (4 * m) % 4 # 2
      BY <1>2
    <3>. QED
      BY <3>1, Zenon DEF RestBy
  <2>. QED
    BY <2>1, <2>2, <2>3, <2>4, Zenon
<1>4. \A q \in 0 .. 6 : ChunksBy(lines, 4 * m + q) = m
  BY <1>1, <1>2 DEF ChunksBy
<1>5. \A q \in 1 .. 6 : PieceAt(lines, 4 * m + q) = DoneEvent[q]
  BY <1>1 DEF PieceAt
<1>6. /\ DoneEvent[1] = <<"event: done">> /\ DoneEvent[2] = NewLine
      /\ DoneEvent[3] = <<"data: ">> /\ DoneEvent[4] = <<"[DONE]">>
      /\ DoneEvent[5] = NewLine /\ DoneEvent[6] = NewLine
  BY DEF DoneEvent
<1>7. /\ 1 \in 1 .. 6 /\ 2 \in 1 .. 6 /\ 3 \in 1 .. 6 /\ 4 \in 1 .. 6
      /\ 5 \in 1 .. 6 /\ 6 \in 1 .. 6
  OBVIOUS
<1>. QED
  BY <1>3, <1>4, <1>5, <1>6, <1>7, Zenon

\* What the client has, and what becomes of it when a part changes.
LEMMA Emptied ==
    ASSUME NEW f, NEW s, NEW r, NEW got, got = [full |-> f, shown |-> s, rest |-> r]
    PROVE  got.rest = r /\ [got EXCEPT !.rest = <<>>] = [full |-> f, shown |-> s, rest |-> <<>>]
OBVIOUS

\* A piece that ends no line is kept.
LEMMA KeepsPiece ==
    ASSUME NEW f, NEW s, NEW r, NEW piece, piece # NewLine
    PROVE  Take([full |-> f, shown |-> s, rest |-> r], piece)
             = [full |-> f, shown |-> s, rest |-> Append(r, piece)]
<1>. DEFINE got == [full |-> f, shown |-> s, rest |-> r]
            q == Append(r, piece)
<1>1. got.rest = r /\ [got EXCEPT !.rest = q] = [full |-> f, shown |-> s, rest |-> q]
  <2>. HIDE DEF q
  <2>. QED
    OBVIOUS
<1>. HIDE DEF got
<1>2. Take(got, piece) = [got EXCEPT !.rest = Append(got.rest, piece)]
  BY Zenon DEF Take
<1>3. Take(got, piece) = [got EXCEPT !.rest = q]
  BY <1>1, <1>2, Zenon
<1>. QED
  BY <1>1, <1>3, Zenon DEF got

LEMMA NoData == /\ Len(<<>>) # 2 /\ Len(<<<<"event: done">>>>) # 2
                /\ <<<<"data: ">>, <<"[DONE]">>>>[2] = <<"[DONE]">>
OBVIOUS

\* The end of a line without data changes nothing but the rest.
LEMMA PassesLine ==
    ASSUME NEW f, NEW s, NEW r, r \in {<<>>, <<<<"event: done">>>>, <<<<"data: ">>, <<"[DONE]">>>>}
    PROVE  Take([full |-> f, shown |-> s, rest |-> r], NewLine)
             = [full |-> f, shown |-> s, rest |-> <<>>]
<1>. DEFINE got == [full |-> f, shown |-> s, rest |-> r]
            left == [full |-> f, shown |-> s, rest |-> <<>>]
<1>1. ~(Len(r) = 2 /\ r[1] = <<"data: ">> /\ r[2] # <<"[DONE]">>)
  BY NoData, Zenon
<1>2. got.rest = r /\ [got EXCEPT !.rest = <<>>] = left
  BY Emptied, Zenon
<1>. HIDE DEF got, left
<1>3. Line(left, r) = left
  BY <1>1, Zenon DEF Line
<1>4. Take(got, NewLine) = Line([got EXCEPT !.rest = <<>>], got.rest)
  BY Zenon DEF Take
<1>5. Take(got, NewLine) = left
  BY <1>2, <1>3, <1>4, Zenon
<1>. QED
  BY <1>5, Zenon DEF got, left

\* The end of a line of data has it taken apart.
LEMMA TakesApart ==
    ASSUME NEW f, NEW s, NEW i
    PROVE  Take([full |-> f, shown |-> s, rest |-> <<<<"data: ">>, <<"line", i>>>>], NewLine)
             = Data([full |-> f, shown |-> s, rest |-> <<>>], i)
<1>. DEFINE q == <<<<"data: ">>, <<"line", i>>>>
            got == [full |-> f, shown |-> s, rest |-> q]
            left == [full |-> f, shown |-> s, rest |-> <<>>]
<1>1. /\ Len(q) = 2 /\ q[1] = <<"data: ">> /\ q[2] = <<"line", i>>
      /\ q[2][2] = i /\ <<"line", i>> # <<"[DONE]">>
  <2>1. Len(<<"line", i>>) = 2 /\ Len(<<"[DONE]">>) = 1
    OBVIOUS
  <2>. QED
    BY <2>1
<1>. HIDE DEF q
<1>2. got.rest = q /\ [got EXCEPT !.rest = <<>>] = left
  OBVIOUS
<1>. HIDE DEF got, left
<1>3. Line(left, q) = Data(left, i)
  BY <1>1, Zenon DEF Line
<1>4. Take(got, NewLine) = Line([got EXCEPT !.rest = <<>>], got.rest)
  BY Zenon DEF Take
<1>5. Take(got, NewLine) = Data(left, i)
  BY <1>2, <1>3, <1>4, Zenon
<1>. QED
  BY <1>5, Zenon DEF got, left, q

LEMMA PiecesAddUp ==
    /\ <<<<"data: ">>>> = Append(<<>>, <<"data: ">>)
    /\ <<<<"event: done">>>> = Append(<<>>, <<"event: done">>)
    /\ <<<<"data: ">>, <<"[DONE]">>>> = Append(<<<<"data: ">>>>, <<"[DONE]">>)
    /\ \A i : <<<<"data: ">>, <<"line", i>>>> = Append(<<<<"data: ">>>>, <<"line", i>>)
<1>1. <<<<"data: ">>>> = Append(<<>>, <<"data: ">>)
  OBVIOUS
<1>2. <<<<"event: done">>>> = Append(<<>>, <<"event: done">>)
  OBVIOUS
<1>3. \A a, b : <<a, b>> = Append(<<a>>, b)
  OBVIOUS
<1>. QED
  BY <1>1, <1>2, <1>3, Zenon

\* A line is kept piece by piece.
LEMMA KeepsLine ==
    ASSUME NEW f, NEW s
    PROVE  /\ Take([full |-> f, shown |-> s, rest |-> <<>>], <<"data: ">>)
                = [full |-> f, shown |-> s, rest |-> <<<<"data: ">>>>]
           /\ Take([full |-> f, shown |-> s, rest |-> <<>>], <<"event: done">>)
                = [full |-> f, shown |-> s, rest |-> <<<<"event: done">>>>]
           /\ Take([full |-> f, shown |-> s, rest |-> <<<<"data: ">>>>], <<"[DONE]">>)
                = [full |-> f, shown |-> s, rest |-> <<<<"data: ">>, <<"[DONE]">>>>]
           /\ \A i : Take([full |-> f, shown |-> s, rest |-> <<<<"data: ">>>>], <<"line", i>>)
                = [full |-> f, shown |-> s, rest |-> <<<<"data: ">>, <<"line", i>>>>]
<1>1. NewLine = <<"\n">> /\ <<"data: ">> # NewLine /\ <<"event: done">> # NewLine /\ <<"[DONE]">> # NewLine
  BY DEF NewLine
<1>2. \A i : <<"line", i>> # NewLine
  <2>1. \A i : Len(<<"line", i>>) = 2 /\ Len(<<"\n">>) = 1
    OBVIOUS
  <2>. QED
    BY <1>1, <2>1, Zenon
<1>3. Take([full |-> f, shown |-> s, rest |-> <<>>], <<"data: ">>)
        = [full |-> f, shown |-> s, rest |-> Append(<<>>, <<"data: ">>)]
  BY <1>1, KeepsPiece, Zenon
<1>4. Take([full |-> f, shown |-> s, rest |-> <<>>], <<"event: done">>)
        = [full |-> f, shown |-> s, rest |-> Append(<<>>, <<"event: done">>)]
  BY <1>1, KeepsPiece, Zenon
<1>5. Take([full |-> f, shown |-> s, rest |-> <<<<"data: ">>>>], <<"[DONE]">>)
        = [full |-> f, shown |-> s, rest |-> Append(<<<<"data: ">>>>, <<"[DONE]">>)]
  BY <1>1, KeepsPiece, Zenon
<1>6. \A i : Take([full |-> f, shown |-> s, rest |-> <<<<"data: ">>>>], <<"line", i>>)
        = [full |-> f, shown |-> s, rest |-> Append(<<<<"data: ">>>>, <<"line", i>>)]
  <2>. TAKE i
  <2>. DEFINE piece == <<"line", i>>
              r == <<<<"data: ">>>>
  <2>1. piece # NewLine
    BY <1>2
  <2>. HIDE DEF piece, r
  <2>2. Take([full |-> f, shown |-> s, rest |-> r], piece)
          = [full |-> f, shown |-> s, rest |-> Append(r, piece)]
    BY <2>1, KeepsPiece
  <2>. QED
    BY <2>2 DEF piece, r
<1>7. \A i : Take([full |-> f, shown |-> s, rest |-> <<<<"data: ">>>>], <<"line", i>>)
        = [full |-> f, shown |-> s, rest |-> <<<<"data: ">>, <<"line", i>>>>]
  BY <1>6, PiecesAddUp, Zenon
<1>. QED
  BY <1>3, <1>4, <1>5, <1>7, PiecesAddUp, Zenon

-----------------------------------------------------------------------------
(* The client takes the stream                                              *)

\* The data of a chunk makes of what the client has what it has by the next.
LEMMA DataTells ==
    ASSUME NEW n, AreLines(answer, n),
           NEW d \in Nat, d < Len(Chunks(answer)), NEW r,
           NEW x, x = UpTo(answer, d + 1)
    PROVE  Data([full |-> FullBy(answer, d), shown |-> ShownBy(answer, d), rest |-> r], x)
             = [full |-> FullBy(answer, d + 1), shown |-> ShownBy(answer, d + 1), rest |-> r]
<1>. DEFINE f == FullBy(answer, d)
            s == ShownBy(answer, d)
            got == [full |-> f, shown |-> s, rest |-> r]
            K == KindAt(x)
<1>1. K = IF x = 0 THEN "blank" ELSE answer[x]
  BY DEF KindAt
<1>2. /\ x = 0 \/ answer[x] \notin Words =>
            FullBy(answer, d + 1) = f /\ ShownBy(answer, d + 1) = s
      /\ x # 0 /\ answer[x] \in Words =>
            /\ ShownBy(answer, d + 1) = Append(s, Token(answer, x))
            /\ answer[x] # "answer" => FullBy(answer, d + 1) = Append(f, Token(answer, x))
            /\ answer[x] = "answer" => FullBy(answer, d + 1) = <<Token(answer, x)>>
  BY OneChunk, Zenon
<1>3. Token(answer, x) = <<IF answer[x] \in {"text", "null"} THEN "line" ELSE "parsed", x>>
  BY DEF Token
<1>. DEFINE fx == FullBy(answer, d + 1)
            sx == ShownBy(answer, d + 1)
<1>. HIDE DEF f, s, K, fx, sx
<1>4a. got.full = f /\ got.shown = s /\ got.rest = r
  OBVIOUS
<1>. HIDE DEF got
<1>4. \A t : /\ Say(got, t) = [full |-> Append(f, t), shown |-> Append(s, t), rest |-> r]
            /\ Replace(got, t) = [full |-> <<t>>, shown |-> Append(s, t), rest |-> r]
  BY <1>4a, Zenon DEF Say, Replace
<1>5. CASE K \in {"text", "null"}
  <2>1. x # 0 /\ answer[x] \in Words /\ answer[x] # "answer" /\ answer[x] \in {"text", "null"}
    BY <1>1, <1>5 DEF Words
  <2>2. Data(got, x) = Say(got, <<"line", x>>)
    BY <1>5, Zenon DEF Data, K
  <2>3. Token(answer, x) = <<"line", x>>
    BY <1>3, <2>1, Zenon
  <2>4. fx = Append(f, <<"line", x>>) /\ sx = Append(s, <<"line", x>>)
    BY <1>2, <2>1, <2>3, Zenon DEF fx, sx
  <2>. QED
    BY <1>4, <2>2, <2>4, Zenon DEF got, f, s, fx, sx
<1>6. CASE K = "string"
  <2>1. x # 0 /\ answer[x] \in Words /\ answer[x] # "answer" /\ answer[x] \notin {"text", "null"}
    BY <1>1, <1>6 DEF Words
  <2>2. Data(got, x) = Say(got, <<"parsed", x>>)
    <3>1. "string" \notin {"text", "null"}
      OBVIOUS
    <3>. QED
      BY <1>6, <3>1, Zenon DEF Data, K
  <2>3. Token(answer, x) = <<"parsed", x>>
    BY <1>3, <2>1, Zenon
  <2>4. fx = Append(f, <<"parsed", x>>) /\ sx = Append(s, <<"parsed", x>>)
    BY <1>2, <2>1, <2>3, Zenon DEF fx, sx
  <2>. QED
    BY <1>4, <2>2, <2>4, Zenon DEF got, f, s, fx, sx
<1>7. CASE K = "answer"
  <2>1. x # 0 /\ answer[x] \in Words /\ answer[x] = "answer" /\ answer[x] \notin {"text", "null"}
    BY <1>1, <1>7 DEF Words
  <2>2. Data(got, x) = Replace(got, <<"parsed", x>>)
    <3>1. "answer" \notin {"text", "null"} /\ "answer" # "string"
      OBVIOUS
    <3>. QED
      BY <1>7, <3>1, Zenon DEF Data, K
  <2>3. Token(answer, x) = <<"parsed", x>>
    BY <1>3, <2>1, Zenon
  <2>4. fx = <<<<"parsed", x>>>> /\ sx = Append(s, <<"parsed", x>>)
    BY <1>2, <2>1, <2>3, Zenon DEF fx, sx
  <2>. QED
    BY <1>4, <2>2, <2>4, Zenon DEF got, f, s, fx, sx
<1>8. CASE K \notin Words
  <2>1. x = 0 \/ answer[x] \notin Words
    BY <1>1, <1>8
  <2>2. Data(got, x) = got
    <3>1. K \notin {"text", "null"} /\ K # "string" /\ K # "answer"
      BY <1>8 DEF Words
    <3>. QED
      BY <3>1, Zenon DEF Data, K
  <2>3. fx = f /\ sx = s
    BY <1>2, <2>1, Zenon DEF fx, sx
  <2>. QED
    BY <1>4, <2>2, <2>3, Zenon DEF got, f, s, fx, sx
<1>. QED
  BY <1>5, <1>6, <1>7, <1>8 DEF Words

\* One more piece of the stream takes the client one further.
LEMMA OnePiece ==
    ASSUME NEW n, AreLines(answer, n),
           NEW p \in Nat, p < 4 * Len(Chunks(answer)) + 6
    PROVE  Take(ClientBy(answer, p), PieceAt(answer, p + 1)) = ClientBy(answer, p + 1)
<1>. DEFINE m == Len(Chunks(answer))
<1>1. m \in Nat
  BY ChunksMean
<1>5. CASE p < 4 * m
  <2>1. PICK d \in Nat, r \in 0 .. 3 : p = 4 * d + r
    BY InQuarters
  <2>2. d < m
    BY <1>1, <1>5, <2>1
  <2>. DEFINE x == Chunks(answer)[d + 1]
              f == FullBy(answer, d)
              s == ShownBy(answer, d)
              g == FullBy(answer, d + 1)
              t == ShownBy(answer, d + 1)
  <2>3. /\ RestBy(answer, 4 * d) = <<>> /\ ChunksBy(answer, 4 * d) = d
        /\ PieceAt(answer, 4 * d + 1) = <<"data: ">>
        /\ RestBy(answer, 4 * d + 1) = <<<<"data: ">>>> /\ ChunksBy(answer, 4 * d + 1) = d
        /\ PieceAt(answer, 4 * d + 2) = <<"line", x>>
        /\ RestBy(answer, 4 * d + 2) = <<<<"data: ">>, <<"line", x>>>>
        /\ ChunksBy(answer, 4 * d + 2) = d
        /\ PieceAt(answer, 4 * d + 3) = NewLine
        /\ RestBy(answer, 4 * d + 3) = <<>> /\ ChunksBy(answer, 4 * d + 3) = d + 1
        /\ PieceAt(answer, 4 * d + 4) = NewLine
        /\ RestBy(answer, 4 * d + 4) = <<>> /\ ChunksBy(answer, 4 * d + 4) = d + 1
    BY <1>1, <2>2, InChunk, Zenon
  <2>4. /\ ClientBy(answer, 4 * d) = [full |-> f, shown |-> s, rest |-> <<>>]
        /\ ClientBy(answer, 4 * d + 1) = [full |-> f, shown |-> s, rest |-> <<<<"data: ">>>>]
        /\ ClientBy(answer, 4 * d + 2)
             = [full |-> f, shown |-> s, rest |-> <<<<"data: ">>, <<"line", x>>>>]
        /\ ClientBy(answer, 4 * d + 3) = [full |-> g, shown |-> t, rest |-> <<>>]
        /\ ClientBy(answer, 4 * d + 4) = [full |-> g, shown |-> t, rest |-> <<>>]
    BY <2>3, Zenon DEF ClientBy
  <2>5. x = UpTo(answer, d + 1)
    BY <2>1 DEF UpTo
  <2>. HIDE DEF x, f, s, g, t
  <2>6. Take(ClientBy(answer, 4 * d), <<"data: ">>) = ClientBy(answer, 4 * d + 1)
    BY <2>4, KeepsLine, Zenon
  <2>7. Take(ClientBy(answer, 4 * d + 1), <<"line", x>>) = ClientBy(answer, 4 * d + 2)
    BY <2>4, KeepsLine, Zenon
  <2>8. Take(ClientBy(answer, 4 * d + 2), NewLine) = ClientBy(answer, 4 * d + 3)
    <3>1. Take([full |-> f, shown |-> s, rest |-> <<<<"data: ">>, <<"line", x>>>>], NewLine)
            = Data([full |-> f, shown |-> s, rest |-> <<>>], x)
      BY TakesApart, Zenon
    <3>2. Data([full |-> f, shown |-> s, rest |-> <<>>], x)
            = [full |-> g, shown |-> t, rest |-> <<>>]
      BY <2>2, <2>5, DataTells, Zenon DEF f, s, g, t
    <3>. QED
      BY <2>4, <3>1, <3>2, Zenon
  <2>9. Take(ClientBy(answer, 4 * d + 3), NewLine) = ClientBy(answer, 4 * d + 4)
    <3>1. <<>> \in {<<>>, <<<<"event: done">>>>, <<<<"data: ">>, <<"[DONE]">>>>}
      OBVIOUS
    <3>. QED
      BY <2>4, <3>1, PassesLine, Zenon
  <2>10. \/ p = 4 * d /\ p + 1 = 4 * d + 1
         \/ p = 4 * d + 1 /\ p + 1 = 4 * d + 2
         \/ p = 4 * d + 2 /\ p + 1 = 4 * d + 3
         \/ p = 4 * d + 3 /\ p + 1 = 4 * d + 4
    BY <2>1
  <2>. QED
    BY <2>3, <2>6, <2>7, <2>8, <2>9, <2>10, Zenon DEF x
<1>6. CASE p >= 4 * m
  <2>. DEFINE f == FullBy(answer, m)
              s == ShownBy(answer, m)
  <2>1. /\ RestBy(answer, 4 * m) = <<>>
        /\ PieceAt(answer, 4 * m + 1) = <<"event: done">>
        /\ RestBy(answer, 4 * m + 1) = <<<<"event: done">>>>
        /\ PieceAt(answer, 4 * m + 2) = NewLine /\ RestBy(answer, 4 * m + 2) = <<>>
        /\ PieceAt(answer, 4 * m + 3) = <<"data: ">>
        /\ RestBy(answer, 4 * m + 3) = <<<<"data: ">>>>
        /\ PieceAt(answer, 4 * m + 4) = <<"[DONE]">>
        /\ RestBy(answer, 4 * m + 4) = <<<<"data: ">>, <<"[DONE]">>>>
        /\ PieceAt(answer, 4 * m + 5) = NewLine /\ RestBy(answer, 4 * m + 5) = <<>>
        /\ PieceAt(answer, 4 * m + 6) = NewLine /\ RestBy(answer, 4 * m + 6) = <<>>
        /\ \A q \in 0 .. 6 : ChunksBy(answer, 4 * m + q) = m
    BY <1>1, InEnd, Zenon
  <2>. HIDE DEF m
  <2>2. 4 * m + 0 = 4 * m
    BY <1>1
  <2>3. /\ ClientBy(answer, 4 * m) = [full |-> f, shown |-> s, rest |-> <<>>]
        /\ \A q \in 1 .. 6 : ClientBy(answer, 4 * m + q)
               = [full |-> f, shown |-> s, rest |-> RestBy(answer, 4 * m + q)]
    <3>1. 0 \in 0 .. 6 /\ \A q \in 1 .. 6 : q \in 0 .. 6
      OBVIOUS
    <3>2. ChunksBy(answer, 4 * m) = m
      BY <2>1, <2>2, <3>1
    <3>. QED
      BY <2>1, <3>1, <3>2, Zenon DEF ClientBy
  <2>4. /\ 1 \in 1 .. 6 /\ 2 \in 1 .. 6 /\ 3 \in 1 .. 6 /\ 4 \in 1 .. 6
        /\ 5 \in 1 .. 6 /\ 6 \in 1 .. 6
    OBVIOUS
  <2>5. \A r \in {<<>>, <<<<"event: done">>>>, <<<<"data: ">>, <<"[DONE]">>>>} :
            Take([full |-> f, shown |-> s, rest |-> r], NewLine)
              = [full |-> f, shown |-> s, rest |-> <<>>]
    BY PassesLine, Zenon
  <2>. DEFINE C(q) == ClientBy(answer, 4 * m + q)
  <2>6. Take(ClientBy(answer, 4 * m), <<"event: done">>) = C(1)
    BY <2>1, <2>3, <2>4, KeepsLine, Zenon
  <2>7. Take(C(1), NewLine) = C(2)
    BY <2>1, <2>3, <2>4, <2>5, Zenon
  <2>8. Take(C(2), <<"data: ">>) = C(3)
    BY <2>1, <2>3, <2>4, KeepsLine, Zenon
  <2>9. Take(C(3), <<"[DONE]">>) = C(4)
    BY <2>1, <2>3, <2>4, KeepsLine, Zenon
  <2>10. Take(C(4), NewLine) = C(5)
    BY <2>1, <2>3, <2>4, <2>5, Zenon
  <2>11. Take(C(5), NewLine) = C(6)
    BY <2>1, <2>3, <2>4, <2>5, Zenon
  <2>12. \/ p = 4 * m /\ p + 1 = 4 * m + 1
         \/ p = 4 * m + 1 /\ p + 1 = 4 * m + 2
         \/ p = 4 * m + 2 /\ p + 1 = 4 * m + 3
         \/ p = 4 * m + 3 /\ p + 1 = 4 * m + 4
         \/ p = 4 * m + 4 /\ p + 1 = 4 * m + 5
         \/ p = 4 * m + 5 /\ p + 1 = 4 * m + 6
    BY <1>1, <1>6 DEF m
  <2>. QED
    BY <2>1, <2>6, <2>7, <2>8, <2>9, <2>10, <2>11, <2>12, Zenon
<1>. QED
  BY <1>1, <1>5, <1>6

\* What is taken of the pieces is what taking them one by one makes.
LEMMA TakenBy ==
    ASSUME NEW got, NEW pieces, NEW n \in Nat, Len(pieces) = n, NEW g, g[0] = got,
           \A k \in 1 .. n : Take(g[k - 1], pieces[k]) = g[k]
    PROVE  Taken(got, pieces) = g[n]
<1>. DEFINE F(f) == [k \in 0 .. n |-> IF k = 0 THEN got ELSE Take(f[k - 1], pieces[k])]
            after == CHOOSE f : f = F(f)
            h == [k \in 0 .. n |-> g[k]]
<1>1. h = F(h)
  <2>1. \A k \in 0 .. n : g[k] = IF k = 0 THEN got ELSE Take(h[k - 1], pieces[k])
    <3>1. \A k \in 0 .. n : k # 0 => k \in 1 .. n /\ k - 1 \in 0 .. n
      OBVIOUS
    <3>2. \A k \in 0 .. n : k # 0 => h[k - 1] = g[k - 1]
      BY <3>1
    <3>. HIDE DEF h
    <3>. QED
      BY <3>1, <3>2, Zenon
  <2>. QED
    BY <2>1
<1>2. after = F(after)
  BY <1>1, Zenon
<1>3. Taken(got, pieces) = after[n]
  BY Zenon DEF Taken
<1>. HIDE DEF after, h
<1>4. /\ 0 \in 0 .. n
      /\ \A k \in Nat : k + 1 <= n =>
            /\ k <= n /\ k + 1 \in 0 .. n /\ k + 1 \in 1 .. n /\ k + 1 # 0 /\ (k + 1) - 1 = k
  OBVIOUS
<1>5. after[0] = got
  BY <1>2, <1>4, Zenon
<1>6. \A k \in Nat : k + 1 <= n => after[k + 1] = Take(after[k], pieces[k + 1])
  <2>1. \A k \in 0 .. n : after[k] = IF k = 0 THEN got ELSE Take(after[k - 1], pieces[k])
    BY <1>2, Zenon
  <2>. QED
    BY <1>4, <2>1, Zenon
<1>7. \A k \in Nat : k + 1 <= n => g[k + 1] = Take(g[k], pieces[k + 1])
  BY <1>4, Zenon
<1>. DEFINE T == {k \in Nat : k <= n => after[k] = g[k]}
<1>8. 0 \in T
  BY <1>5
<1>9. \A k \in Nat : k \in T => k + 1 \in T
  BY <1>4, <1>6, <1>7
<1>. HIDE DEF T
<1>10. n \in T
  BY <1>8, <1>9, Counting, Zenon
<1>. QED
  BY <1>3, <1>10 DEF T

-----------------------------------------------------------------------------
(* The stream                                                               *)

LEMMA FourOf ==
    ASSUME NEW D, NEW a \in D, NEW b \in D, NEW c \in D, NEW d \in D
    PROVE  <<a, b, c, d>> \in Seq(D)
OBVIOUS

LEMMA SixOf ==
    ASSUME NEW D, NEW a \in D, NEW b \in D, NEW c \in D, NEW d \in D, NEW e \in D, NEW f \in D
    PROVE  <<a, b, c, d, e, f>> \in Seq(D)
OBVIOUS

\* The next event is the pieces of the stream that follow those yielded.
LEMMA OneEvent ==
    ASSUME NEW lines, NEW n, AreLines(lines, n),
           NEW e \in Nat, e < Len(Events(lines))
    PROVE  /\ Len(Events(lines)) = Len(Chunks(lines)) + 1
           /\ Events(lines)[e + 1] \in Seq(Pieces)
           /\ YieldedPieces(lines, e) + Len(Events(lines)[e + 1]) = YieldedPieces(lines, e + 1)
           /\ \A k \in 1 .. Len(Events(lines)[e + 1]) :
                  Events(lines)[e + 1][k] = PieceAt(lines, YieldedPieces(lines, e) + k)
<1>. DEFINE c == Chunks(lines)
            m == Len(c)
<1>1. n \in Nat /\ c \in Seq(0 .. n) /\ m \in Nat
  BY ChunksMean DEF AreLines
<1>2. /\ Len(Events(lines)) = m + 1
      /\ \A k \in 1 .. m : Events(lines)[k] = DataEvent(c[k])
      /\ Events(lines)[m + 1] = DoneEvent
  <2>. HIDE DEF c
  <2>. DEFINE s == [k \in DOMAIN c |-> DataEvent(c[k])]
              D == {DataEvent(c[k]) : k \in DOMAIN c} \cup {DoneEvent}
  <2>1. DOMAIN c = 1 .. m
    BY <1>1
  <2>2. Events(lines) = s \o <<DoneEvent>>
    BY Zenon DEF Events, c
  <2>3. /\ s \in Seq(D) /\ Len(s) = m /\ \A k \in 1 .. m : s[k] = DataEvent(c[k])
        /\ DoneEvent \in D
    BY <1>1, <2>1
  <2>. HIDE DEF m, s, D
  <2>4. /\ Len(s \o <<DoneEvent>>) = m + 1
        /\ \A k \in 1 .. m : (s \o <<DoneEvent>>)[k] = s[k]
        /\ (s \o <<DoneEvent>>)[m + 1] = DoneEvent
    <3>. DEFINE z == DoneEvent
    <3>. HIDE DEF z
    <3>1. /\ Len(s \o <<z>>) = m + 1 /\ \A k \in 1 .. m : (s \o <<z>>)[k] = s[k]
          /\ (s \o <<z>>)[m + 1] = z
      BY <1>1, <2>3 DEF z
    <3>. QED
      BY <3>1 DEF z
  <2>. QED
    BY <2>2, <2>3, <2>4, Zenon
<1>3. CASE e < m
  <2>. DEFINE d == DataEvent(c[e + 1])
  <2>1. /\ Events(lines)[e + 1] = d
        /\ YieldedPieces(lines, e) = 4 * e /\ YieldedPieces(lines, e + 1) = 4 * e + 4
    <3>1. e + 1 \in 1 .. m /\ e <= m /\ e + 1 <= m /\ 4 * (e + 1) = 4 * e + 4
      BY <1>1, <1>3
    <3>. QED
      BY <1>2, <3>1, Zenon DEF YieldedPieces
  <2>2. /\ Len(d) = 4 /\ d[1] = <<"data: ">> /\ d[2] = <<"line", c[e + 1]>>
        /\ d[3] = NewLine /\ d[4] = NewLine
    BY DEF DataEvent
  <2>3. d \in Seq(Pieces)
    <3>1. c[e + 1] \in Nat
      BY <1>1, <1>3
    <3>2. /\ <<"data: ">> \in Pieces /\ <<"line", c[e + 1]>> \in Pieces /\ NewLine \in Pieces
      BY <3>1 DEF Pieces, NewLine
    <3>. QED
      BY <3>2, FourOf, Zenon DEF DataEvent
  <2>4. \A k \in 1 .. 4 : d[k] = PieceAt(lines, 4 * e + k)
    <3>1. /\ PieceAt(lines, 4 * e + 1) = <<"data: ">>
          /\ PieceAt(lines, 4 * e + 2) = <<"line", c[e + 1]>>
          /\ PieceAt(lines, 4 * e + 3) = NewLine
          /\ PieceAt(lines, 4 * e + 4) = NewLine
      BY <1>1, <1>3, InChunk, Zenon
    <3>. HIDE DEF d
    <3>2. \A k \in 1 .. 4 : k = 1 \/ k = 2 \/ k = 3 \/ k = 4
      OBVIOUS
    <3>. QED
      BY <2>2, <3>1, <3>2, Zenon
  <2>. HIDE DEF d, m, c
  <2>. QED
    BY <1>2, <2>1, <2>2, <2>3, <2>4, Zenon DEF m, c
<1>4. CASE e = m
  <2>1. /\ Events(lines)[e + 1] = DoneEvent
        /\ YieldedPieces(lines, e) = 4 * m /\ YieldedPieces(lines, e + 1) = 4 * m + 6
    <3>1. e <= m /\ ~ (e + 1 <= m)
      BY <1>1, <1>4
    <3>. QED
      BY <1>2, <1>4, <3>1, Zenon DEF YieldedPieces
  <2>2. Len(DoneEvent) = 6
    BY DEF DoneEvent
  <2>3. DoneEvent \in Seq(Pieces)
    <3>1. /\ <<"data: ">> \in Pieces /\ <<"event: done">> \in Pieces /\ NewLine \in Pieces
          /\ <<"[DONE]">> \in Pieces
      BY DEF Pieces, NewLine
    <3>. QED
      BY <3>1, SixOf, Zenon DEF DoneEvent
  <2>4. \A k \in 1 .. 6 : DoneEvent[k] = PieceAt(lines, 4 * m + k)
    <3>1. \A p, k : ~ (p <= 4 * m) /\ p - 4 * m = k => PieceAt(lines, p) = DoneEvent[k]
      BY Zenon DEF PieceAt
    <3>. TAKE k \in 1 .. 6
    <3>. DEFINE p == 4 * m + k
    <3>2. ~ (p <= 4 * m) /\ p - 4 * m = k
      BY <1>1
    <3>. HIDE DEF p, m
    <3>3. DoneEvent[k] = PieceAt(lines, p)
      BY <3>1, <3>2, Zenon
    <3>. QED
      BY <3>3, Zenon DEF p
  <2>. HIDE DEF m, c
  <2>. QED
    BY <1>2, <2>1, <2>2, <2>3, <2>4, Zenon DEF m, c
<1>5. e < m \/ e = m
  BY <1>1, <1>2
<1>. QED
  BY <1>3, <1>4, <1>5

LEMMA Joined ==
    ASSUME NEW D, NEW s \in Seq(D), NEW e \in Seq(D)
    PROVE  /\ s \o e \in Seq(D) /\ Len(s \o e) = Len(s) + Len(e)
           /\ \A k \in 1 .. Len(s \o e) :
                  (s \o e)[k] = IF k <= Len(s) THEN s[k] ELSE e[k - Len(s)]
OBVIOUS

\* What the events come to is what putting them together one by one makes.
LEMMA StreamBy ==
    ASSUME NEW lines, NEW n \in Nat, Len(Events(lines)) = n, NEW g, g[0] = <<>>,
           \A k \in 1 .. n : g[k - 1] \o Events(lines)[k] = g[k]
    PROVE  Stream(lines) = g[n]
<1>. DEFINE F(f) == [k \in 0 .. n |-> IF k = 0 THEN <<>> ELSE f[k - 1] \o Events(lines)[k]]
            upTo == CHOOSE f : f = F(f)
            h == [k \in 0 .. n |-> g[k]]
<1>1. h = F(h)
  <2>1. \A k \in 0 .. n : g[k] = IF k = 0 THEN <<>> ELSE h[k - 1] \o Events(lines)[k]
    <3>1. \A k \in 0 .. n : k # 0 => k \in 1 .. n /\ k - 1 \in 0 .. n
      OBVIOUS
    <3>2. \A k \in 0 .. n : k # 0 => h[k - 1] = g[k - 1]
      BY <3>1, Zenon
    <3>. HIDE DEF h
    <3>. QED
      BY <3>1, <3>2, Zenon
  <2>. QED
    BY <2>1, Zenon
<1>2. upTo = F(upTo)
  BY <1>1, Zenon
<1>3. Stream(lines) = upTo[n]
  BY Zenon DEF Stream
<1>. HIDE DEF upTo, h
<1>4. /\ 0 \in 0 .. n
      /\ \A k \in Nat : k + 1 <= n =>
            /\ k <= n /\ k + 1 \in 0 .. n /\ k + 1 \in 1 .. n /\ k + 1 # 0 /\ (k + 1) - 1 = k
  OBVIOUS
<1>5. upTo[0] = <<>>
  BY <1>2, <1>4, Zenon
<1>6. \A k \in Nat : k + 1 <= n => upTo[k + 1] = upTo[k] \o Events(lines)[k + 1]
  <2>1. \A k \in 0 .. n : upTo[k] = IF k = 0 THEN <<>> ELSE upTo[k - 1] \o Events(lines)[k]
    BY <1>2, Zenon
  <2>. QED
    BY <1>4, <2>1, Zenon
<1>7. \A k \in Nat : k + 1 <= n => g[k + 1] = g[k] \o Events(lines)[k + 1]
  BY <1>4, Zenon
<1>. DEFINE T == {k \in Nat : k <= n => upTo[k] = g[k]}
<1>8. 0 \in T
  BY <1>5, Zenon
<1>9. \A k \in Nat : k \in T => k + 1 \in T
  <2>. TAKE k \in Nat
  <2>1. k + 1 \in Nat
    OBVIOUS
  <2>. QED
    BY <1>4, <1>6, <1>7, <2>1, Zenon
<1>. HIDE DEF T
<1>10. n \in T
  BY <1>8, <1>9, Counting, Zenon
<1>. QED
  BY <1>3, <1>10 DEF T

LEMMA IsItsMembers ==
    ASSUME NEW D, NEW s \in Seq(D) PROVE s = [k \in 1 .. Len(s) |-> s[k]]
OBVIOUS

\* The first so many pieces of the stream.
FirstPieces(lines, p) == [k \in 1 .. p |-> PieceAt(lines, k)]

LEMMA ArePieces ==
    ASSUME NEW lines, NEW p \in Nat, NEW s \in Seq(Pieces), Len(s) = p,
           \A k \in 1 .. p : s[k] = PieceAt(lines, k)
    PROVE  s = FirstPieces(lines, p)
<1>1. s = [k \in 1 .. p |-> s[k]]
  BY IsItsMembers, Zenon
<1>. QED
  BY <1>1, Zenon DEF FirstPieces

\* The stream of an answer is its pieces, one after the other.
LEMMA StreamIsPieces ==
    ASSUME NEW lines, NEW n, AreLines(lines, n)
    PROVE  Stream(lines) = FirstPieces(lines, 4 * Len(Chunks(lines)) + 6)
<1>. DEFINE m == Len(Chunks(lines))
            y(k) == YieldedPieces(lines, k)
            s(k) == FirstPieces(lines, y(k))
            g == [k \in 0 .. m + 1 |-> s(k)]
<1>1. m \in Nat /\ Len(Events(lines)) = m + 1
  <2>1. m \in Nat /\ Chunks(lines) \in Seq(0 .. n)
    BY ChunksMean
  <2>2. Events(lines) = [k \in DOMAIN Chunks(lines) |-> DataEvent(Chunks(lines)[k])] \o <<DoneEvent>>
    BY Zenon DEF Events
  <2>3. 0 \in Nat /\ 0 < Len(Events(lines))
    BY <2>1, <2>2
  <2>. QED
    BY <2>1, <2>3, OneEvent, Zenon
<1>2. \A k \in Nat : y(k) \in Nat
  <2>. HIDE DEF m
  <2>1. \A k : y(k) = IF k <= m THEN 4 * k ELSE 4 * m + 6
    BY Zenon DEF YieldedPieces, m
  <2>. HIDE DEF y
  <2>. QED
    BY <1>1, <2>1
<1>3. y(0) = 0 /\ y(m + 1) = 4 * m + 6
  BY <1>1 DEF YieldedPieces
<1>. HIDE DEF m, y
\* The first k events are pieces of the stream.
<1>4. ASSUME NEW k \in Nat, s(k) \in Seq(Pieces) /\ Len(s(k)) = y(k), k < m + 1
      PROVE  /\ s(k) \o Events(lines)[k + 1] = s(k + 1)
             /\ s(k + 1) \in Seq(Pieces) /\ Len(s(k + 1)) = y(k + 1)
  <2>. DEFINE e == Events(lines)[k + 1]
              z == s(k) \o e
  <2>1. /\ e \in Seq(Pieces) /\ y(k) + Len(e) = y(k + 1)
        /\ \A q \in 1 .. Len(e) : e[q] = PieceAt(lines, y(k) + q)
    BY <1>1, <1>4, OneEvent, Zenon DEF y
  <2>2. \A q \in 1 .. y(k) : s(k)[q] = PieceAt(lines, q)
    BY Zenon DEF FirstPieces
  <2>. HIDE DEF e, s
  <2>3. /\ z \in Seq(Pieces) /\ Len(z) = Len(s(k)) + Len(e)
        /\ \A q \in 1 .. Len(z) : z[q] = IF q <= Len(s(k)) THEN s(k)[q] ELSE e[q - Len(s(k))]
        /\ Len(e) \in Nat
    BY <1>4, <2>1, Joined
  <2>. HIDE DEF z
  <2>4. Len(z) = y(k + 1)
    BY <1>4, <2>1, <2>3, Zenon
  <2>5. \A q \in 1 .. y(k + 1) : z[q] = PieceAt(lines, q)
    <3>. TAKE q \in 1 .. y(k + 1)
    <3>0. y(k) \in Nat /\ y(k + 1) \in Nat
      BY <1>2
    <3>1. CASE q <= y(k)
      <4>1. q \in 1 .. y(k)
        BY <3>0, <3>1
      <4>. QED
        BY <1>4, <2>2, <2>3, <2>4, <3>1, <4>1, Zenon
    <3>2. CASE ~ (q <= y(k))
      <4>1. q - y(k) \in 1 .. Len(e) /\ y(k) + (q - y(k)) = q
        BY <2>1, <2>3, <3>0, <3>2
      <4>2. e[q - y(k)] = PieceAt(lines, q)
        BY <2>1, <4>1, Zenon
      <4>. QED
        BY <1>4, <2>3, <2>4, <3>2, <4>2, Zenon
    <3>. QED
      BY <3>1, <3>2
  <2>6. y(k + 1) \in Nat
    BY <1>2
  <2>7. z = s(k + 1)
    BY <2>3, <2>4, <2>5, <2>6, ArePieces, Zenon DEF s
  <2>. QED
    BY <2>3, <2>4, <2>7, Zenon DEF z, e
<1>5. s(0) = <<>>
  <2>1. s(0) = [k \in {} |-> PieceAt(lines, k)]
    <3>1. 1 .. y(0) = {}
      BY <1>3
    <3>. QED
      BY <3>1, Zenon DEF FirstPieces
  <2>2. \A a : a = [k \in {} |-> PieceAt(lines, k)] => a = <<>>
    OBVIOUS
  <2>. HIDE DEF s
  <2>. QED
    BY <2>1, <2>2, Zenon
<1>6. \A k \in Nat : k <= m + 1 => s(k) \in Seq(Pieces) /\ Len(s(k)) = y(k)
  <2>. HIDE DEF s
  <2>. DEFINE T == {k \in Nat : k <= m + 1 => s(k) \in Seq(Pieces) /\ Len(s(k)) = y(k)}
  <2>1. 0 \in T
    <3>1. <<>> \in Seq(Pieces) /\ Len(<<>>) = 0 /\ 0 \in Nat
      OBVIOUS
    <3>. QED
      BY <1>3, <1>5, <3>1, Zenon
  <2>2. \A k \in Nat : k \in T => k + 1 \in T
    <3>. TAKE k \in Nat
    <3>. HAVE k \in T
    <3>. SUFFICES ASSUME k + 1 <= m + 1 PROVE s(k + 1) \in Seq(Pieces) /\ Len(s(k + 1)) = y(k + 1)
      OBVIOUS
    <3>1. k <= m + 1 /\ k < m + 1
      BY <1>1
    <3>. QED
      BY <1>4, <3>1, Zenon
  <2>. HIDE DEF T
  <2>3. \A k \in Nat : k \in T
    BY <2>1, <2>2, Counting, Zenon
  <2>. QED
    BY <2>3, Zenon DEF T
<1>. HIDE DEF s
<1>7. \A k \in 1 .. m + 1 : g[k - 1] \o Events(lines)[k] = g[k]
  <2>. TAKE k \in 1 .. m + 1
  <2>1. /\ k - 1 \in 0 .. m + 1 /\ k \in 0 .. m + 1 /\ k - 1 \in Nat /\ (k - 1) + 1 = k
        /\ k - 1 < m + 1 /\ k - 1 <= m + 1
    BY <1>1
  <2>2. g[k - 1] = s(k - 1) /\ g[k] = s(k)
    BY <2>1, Zenon
  <2>3. s(k - 1) \in Seq(Pieces) /\ Len(s(k - 1)) = y(k - 1)
    BY <1>6, <2>1, Zenon
  <2>4. s(k - 1) \o Events(lines)[(k - 1) + 1] = s((k - 1) + 1)
    <3>. DEFINE j == k - 1
    <3>1. j \in Nat /\ j < m + 1 /\ s(j) \in Seq(Pieces) /\ Len(s(j)) = y(j)
      BY <2>1, <2>3, Zenon
    <3>. HIDE DEF j
    <3>2. s(j) \o Events(lines)[j + 1] = s(j + 1)
      BY <1>4, <3>1, Zenon
    <3>. QED
      BY <3>2 DEF j
  <2>. QED
    BY <2>1, <2>2, <2>4, Zenon
<1>8. g[0] = <<>> /\ g[m + 1] = s(m + 1) /\ m + 1 \in Nat
  <2>1. 0 \in 0 .. m + 1 /\ m + 1 \in 0 .. m + 1 /\ m + 1 \in Nat
    BY <1>1
  <2>. QED
    BY <1>5, <2>1, Zenon
<1>. HIDE DEF g
<1>9. Stream(lines) = g[m + 1]
  BY <1>1, <1>7, <1>8, StreamBy, Zenon
<1>. QED
  BY <1>3, <1>8, <1>9, Zenon DEF s, m

\* The client of the stream in one piece has what the lines mean to it.
LEMMA OnePieceMeans ==
    ASSUME NEW n, AreLines(answer, n)
    PROVE  InOnePiece.full = Meaning(answer)
<1>. DEFINE m == Len(Chunks(answer))
            c == 4 * m + 6
            begun == [full |-> <<>>, shown |-> <<>>, rest |-> <<>>]
            pieces == Stream(answer)
            g == [k \in 0 .. c |-> ClientBy(answer, k)]
<1>1. m \in Nat /\ c \in Nat
  BY ChunksMean
<1>2. ClientBy(answer, 0) = begun
  <2>1. ChunksBy(answer, 0) = 0 /\ RestBy(answer, 0) = <<>>
    BY <1>1 DEF ChunksBy, RestBy
  <2>2. FullBy(answer, 0) = <<>> /\ ShownBy(answer, 0) = <<>>
    BY ByNone
  <2>. QED
    BY <2>1, <2>2, Zenon DEF ClientBy
<1>3. pieces = FirstPieces(answer, c)
  BY StreamIsPieces, Zenon
<1>4. Len(pieces) = c /\ \A k \in 1 .. c : pieces[k] = PieceAt(answer, k)
  <2>. DEFINE piece(k) == PieceAt(answer, k)
  <2>1. pieces = [k \in 1 .. c |-> piece(k)]
    BY <1>3, Zenon DEF FirstPieces
  <2>. HIDE DEF piece, pieces, c
  <2>2. Len(pieces) = c /\ \A k \in 1 .. c : pieces[k] = piece(k)
    BY <1>1, <2>1
  <2>. QED
    BY <2>2, Zenon DEF piece
<1>. HIDE DEF pieces, begun
<1>5. g[0] = begun /\ g[c] = ClientBy(answer, c)
  <2>1. 0 \in 0 .. c /\ c \in 0 .. c
    BY <1>1
  <2>. QED
    BY <1>2, <2>1, Zenon
<1>6. \A k \in 1 .. c : Take(g[k - 1], pieces[k]) = g[k]
  <2>. TAKE k \in 1 .. c
  <2>. DEFINE q == k - 1
  <2>1. /\ k \in 0 .. c /\ q \in 0 .. c /\ q \in Nat /\ q < 4 * m + 6 /\ q + 1 = k
    BY <1>1
  <2>2. g[k - 1] = ClientBy(answer, q) /\ g[k] = ClientBy(answer, q + 1)
    BY <2>1, Zenon
  <2>3. pieces[k] = PieceAt(answer, q + 1)
    BY <1>4, <2>1, Zenon
  <2>. HIDE DEF q, g
  <2>4. Take(ClientBy(answer, q), PieceAt(answer, q + 1)) = ClientBy(answer, q + 1)
    BY <2>1, OnePiece
  <2>. QED
    BY <2>2, <2>3, <2>4, Zenon
<1>. HIDE DEF g
<1>7. Taken(begun, pieces) = ClientBy(answer, c)
  <2>. HIDE DEF c
  <2>1. Taken(begun, pieces) = g[c]
    BY <1>1, <1>4, <1>5, <1>6, TakenBy
  <2>. QED
    BY <1>5, <2>1, Zenon
<1>8. InOnePiece = ClientBy(answer, c)
  BY <1>7, Zenon DEF InOnePiece, begun, pieces
<1>9. ChunksBy(answer, c) = m
  BY <1>1 DEF ChunksBy
<1>10. ClientBy(answer, c).full = FullBy(answer, ChunksBy(answer, c))
  <2>1. \A f, s, r : [full |-> f, shown |-> s, rest |-> r].full = f
    OBVIOUS
  <2>. QED
    BY <2>1, Zenon DEF ClientBy
<1>. HIDE DEF c
<1>. QED
  BY <1>8, <1>9, <1>10, ByAll, Zenon

\* Lines that are no JSON mean what they say.
LEMMA PlainMeans ==
    ASSUME NEW lines, NEW n, AreLines(lines, n),
           \A i \in DOMAIN lines : lines[i] \in {"text", "null", "blank"}
    PROVE  Meaning(lines) = Full(lines)
<1>. DEFINE left == {i \in DOMAIN lines : /\ lines[i] \in Words
                                         /\ \A j \in DOMAIN lines : lines[j] = "answer" => j <= i}
            said == {i \in DOMAIN lines : lines[i] # "blank"}
<1>1. left = said
  <2>1. /\ "blank" \notin Words /\ "text" \in Words /\ "null" \in Words
        /\ "answer" \notin {"text", "null", "blank"}
        /\ \A w \in {"text", "null", "blank"} : w = "blank" \/ w = "text" \/ w = "null"
    BY DEF Words
  <2>. QED
    BY <2>1, Zenon
<1>2. \A i \in said : Token(lines, i) = <<"line", i>>
  <2>1. \A w \in {"text", "null", "blank"} : w # "blank" => w \in {"text", "null"}
    OBVIOUS
  <2>. QED
    BY <2>1, Zenon DEF Token
<1>3. \A k \in 1 .. Cardinality(said) : InOrder(said)[k] \in said
  <2>1. n \in Nat /\ said \in SUBSET (1 .. n)
    BY DEF AreLines
  <2>2. IsOrdered(said)
    BY <2>1, PlacesInOrder, Zenon
  <2>. QED
    BY <2>2, Zenon DEF IsOrdered
<1>. DEFINE a(k) == Token(lines, InOrder(said)[k])
            b(k) == <<"line", InOrder(said)[k]>>
            c == Cardinality(said)
<1>4. Meaning(lines) = [k \in 1 .. c |-> a(k)]
  <2>1. Meaning(lines) = Tokens(lines, left)
    BY Zenon DEF Meaning
  <2>. HIDE DEF left, said
  <2>. QED
    BY <1>1, <2>1, Zenon DEF Tokens
<1>5. Full(lines) = [k \in 1 .. c |-> b(k)]
  BY Zenon DEF Full
<1>6. \A k \in 1 .. c : a(k) = b(k)
  BY <1>2, <1>3, Zenon
<1>. HIDE DEF a, b, c
<1>7. [k \in 1 .. c |-> a(k)] = [k \in 1 .. c |-> b(k)]
  BY <1>6
<1>. QED
  BY <1>4, <1>5, <1>7, Zenon

-----------------------------------------------------------------------------
(* The invariant                                                            *)

\* The client has taken the first p pieces, and the wire holds the next ones.
ClientAt(p) ==
    [full |-> fullAnswer, shown |-> preview, rest |-> buffer] = ClientBy(answer, p)

WireFrom(p) ==
    /\ wire \in Seq(Pieces) /\ p + Len(wire) = YieldedPieces(answer, sent)
    /\ \A k \in 1 .. Len(wire) : wire[k] = PieceAt(answer, p + k)

Inv ==
    /\ answer \in Answers
    /\ phase \in {"asked", "streaming", "returned", "failed"}
    /\ sent \in Nat /\ sent <= Len(Chunks(answer)) + 1
    /\ \E p \in Nat : /\ p <= 4 * Len(Chunks(answer)) + 6 /\ ClientAt(p)
                      /\ phase # "failed" => WireFrom(p)
    /\ phase = "returned" => fullAnswer = Meaning(answer)

LEMMA Parted ==
    ASSUME NEW D, NEW s \in Seq(D), NEW n \in 1 .. Len(s)
    PROVE  /\ Len(SubSeq(s, 1, n)) = n /\ \A k \in 1 .. n : SubSeq(s, 1, n)[k] = s[k]
           /\ SubSeq(s, n + 1, Len(s)) \in Seq(D)
           /\ Len(SubSeq(s, n + 1, Len(s))) = Len(s) - n
           /\ \A k \in 1 .. (Len(s) - n) : SubSeq(s, n + 1, Len(s))[k] = s[n + k]
OBVIOUS

LEMMA AnswersAreLines ==
    ASSUME NEW a \in Answers
    PROVE  \E n : AreLines(a, n)
<1>1. PICK n \in 0 .. MaxLines : a \in [1 .. n -> Kinds]
  BY DEF Answers
<1>2. n \in Nat
  BY KindsAssumption
<1>. QED
  BY <1>1, <1>2 DEF AreLines

LEMMA InitHolds == Init => Inv
<1>. SUFFICES ASSUME Init PROVE Inv
  OBVIOUS
<1>1. PICK n : AreLines(answer, n)
  BY AnswersAreLines DEF Init
<1>2. Len(Chunks(answer)) \in Nat
  BY <1>1, ChunksMean
<1>3. ClientAt(0)
  <2>1. ChunksBy(answer, 0) = 0 /\ RestBy(answer, 0) = <<>>
    BY <1>2 DEF ChunksBy, RestBy
  <2>2. FullBy(answer, 0) = <<>> /\ ShownBy(answer, 0) = <<>>
    BY <1>1, ByNone
  <2>. QED
    BY <2>1, <2>2, Zenon DEF ClientAt, ClientBy, Init
<1>4. WireFrom(0)
  <2>1. <<>> \in Seq(Pieces) /\ Len(<<>>) = 0
    OBVIOUS
  <2>2. YieldedPieces(answer, 0) = 0
    BY <1>2 DEF YieldedPieces
  <2>3. wire = <<>> /\ sent = 0
    BY DEF Init
  <2>. QED
    BY <2>1, <2>2, <2>3 DEF WireFrom
<1>. QED
  <2>1. /\ 0 \in Nat /\ 0 <= Len(Chunks(answer)) + 1 /\ 0 <= 4 * Len(Chunks(answer)) + 6
        /\ "asked" # "returned"
    BY <1>2
  <2>. QED
    BY <1>3, <1>4, <2>1, Zenon DEF Inv, Init

\* An event is yielded: the wire is longer by its pieces.
LEMMA YieldHolds == Inv /\ Yield => Inv'
<1>. SUFFICES ASSUME Inv, Yield PROVE Inv'
  OBVIOUS
<1>. DEFINE m == Len(Chunks(answer))
            e == Events(answer)[sent + 1]
<1>1. PICK n : AreLines(answer, n)
  BY AnswersAreLines DEF Inv
<1>2. m \in Nat
  BY <1>1, ChunksMean
<1>3. /\ phase = "streaming" /\ sent < Len(Events(answer)) /\ sent' = sent + 1
      /\ wire' = wire \o e
      /\ answer' = answer /\ phase' = phase /\ buffer' = buffer
      /\ fullAnswer' = fullAnswer /\ preview' = preview
  BY Zenon DEF Yield
<1>4. answer \in Answers /\ sent \in Nat
  BY Zenon DEF Inv
<1>5. PICK p \in Nat : p <= 4 * m + 6 /\ ClientAt(p) /\ WireFrom(p)
  <2>1. "streaming" # "failed"
    OBVIOUS
  <2>. QED
    BY <1>3, <2>1, Zenon DEF Inv
<1>6. /\ Len(Events(answer)) = m + 1 /\ e \in Seq(Pieces)
      /\ YieldedPieces(answer, sent) + Len(e) = YieldedPieces(answer, sent + 1)
      /\ \A k \in 1 .. Len(e) : e[k] = PieceAt(answer, YieldedPieces(answer, sent) + k)
  BY <1>1, <1>3, <1>4, OneEvent, Zenon
<1>7. sent' \in Nat /\ sent' <= m + 1
  BY <1>2, <1>3, <1>4, <1>6
<1>8. /\ wire \in Seq(Pieces) /\ p + Len(wire) = YieldedPieces(answer, sent)
      /\ \A k \in 1 .. Len(wire) : wire[k] = PieceAt(answer, p + k)
  BY <1>5, Zenon DEF WireFrom
<1>. DEFINE w == wire \o e
            piece(q) == PieceAt(answer, q)
            y == YieldedPieces(answer, sent)
            z == YieldedPieces(answer, sent + 1)
<1>. HIDE DEF m, e, piece, y, z
<1>9. /\ w \in Seq(Pieces) /\ Len(w) = Len(wire) + Len(e)
      /\ \A k \in 1 .. Len(w) : w[k] = IF k <= Len(wire) THEN wire[k] ELSE e[k - Len(wire)]
      /\ Len(wire) \in Nat /\ Len(e) \in Nat
  BY <1>6, <1>8, Joined
<1>. HIDE DEF w
<1>10. p + Len(w) = z
  BY <1>6, <1>8, <1>9 DEF y, z
<1>11. \A k \in 1 .. Len(w) : w[k] = piece(p + k)
  <2>. TAKE k \in 1 .. Len(w)
  <2>1. CASE k <= Len(wire)
    <3>1. k \in 1 .. Len(wire)
      BY <1>9, <2>1
    <3>. QED
      BY <1>8, <1>9, <2>1, <3>1, Zenon DEF piece
  <2>2. CASE ~ (k <= Len(wire))
    <3>1. k - Len(wire) \in 1 .. Len(e) /\ y + (k - Len(wire)) = p + k
      BY <1>8, <1>9, <2>2 DEF y
    <3>2. e[k - Len(wire)] = PieceAt(answer, y + (k - Len(wire)))
      BY <1>6, <3>1 DEF y
    <3>. QED
      BY <1>9, <2>2, <3>1, <3>2, Zenon DEF piece
  <2>. QED
    BY <2>1, <2>2
<1>12. WireFrom(p)'
  BY <1>3, <1>9, <1>10, <1>11, Zenon DEF WireFrom, w, z, piece
<1>13. ClientAt(p)'
  BY <1>3, <1>5, Zenon DEF ClientAt
<1>. QED
  <2>1. "streaming" # "returned"
    OBVIOUS
  <2>. QED
    BY <1>3, <1>4, <1>5, <1>7, <1>12, <1>13, <2>1, Zenon DEF Inv, m

LEMMA ClientIsRecord ==
    ASSUME NEW lines, NEW p, NEW got, got = ClientBy(lines, p)
    PROVE  got = [full |-> got.full, shown |-> got.shown, rest |-> got.rest]
<1>1. \A f, s, r : LET g == [full |-> f, shown |-> s, rest |-> r]
                   IN  g = [full |-> g.full, shown |-> g.shown, rest |-> g.rest]
  OBVIOUS
<1>. QED
  BY <1>1, Zenon DEF ClientBy

\* Pieces arrive: the client is further by as many as the wire is shorter.
LEMMA ReadHolds == ASSUME Inv, NEW c \in 1 .. Len(wire), Read(c) PROVE Inv'
<1>. DEFINE m == Len(Chunks(answer))
            begun == [full |-> fullAnswer, shown |-> preview, rest |-> buffer]
            pieces == SubSeq(wire, 1, c)
            left == SubSeq(wire, c + 1, Len(wire))
            got == Taken(begun, pieces)
<1>1. PICK n : AreLines(answer, n)
  BY AnswersAreLines DEF Inv
<1>2. m \in Nat
  BY <1>1, ChunksMean
<1>3. /\ phase = "streaming" /\ wire' = left
      /\ fullAnswer' = got.full /\ preview' = got.shown /\ buffer' = got.rest
      /\ answer' = answer /\ phase' = phase /\ sent' = sent
  BY Zenon DEF Read
<1>4. answer \in Answers /\ sent \in Nat /\ sent <= m + 1
  BY Zenon DEF Inv
<1>5. PICK p \in Nat : p <= 4 * m + 6 /\ ClientAt(p) /\ WireFrom(p)
  <2>1. "streaming" # "failed"
    OBVIOUS
  <2>. QED
    BY <1>3, <2>1, Zenon DEF Inv
<1>6. /\ wire \in Seq(Pieces) /\ p + Len(wire) = YieldedPieces(answer, sent)
      /\ \A k \in 1 .. Len(wire) : wire[k] = PieceAt(answer, p + k)
      /\ begun = ClientBy(answer, p)
  BY <1>5, Zenon DEF WireFrom, ClientAt
<1>7. /\ Len(pieces) = c /\ \A k \in 1 .. c : pieces[k] = wire[k]
      /\ left \in Seq(Pieces) /\ Len(left) = Len(wire) - c
      /\ \A k \in 1 .. (Len(wire) - c) : left[k] = wire[c + k]
  BY <1>6, Parted
<1>8. Len(wire) \in Nat /\ c \in Nat
  BY <1>6
<1>9. p + Len(wire) <= 4 * m + 6
  <2>1. YieldedPieces(answer, sent) <= 4 * m + 6
    <3>. HIDE DEF m
    <3>1. YieldedPieces(answer, sent) = IF sent <= m THEN 4 * sent ELSE 4 * m + 6
      BY Zenon DEF YieldedPieces, m
    <3>. QED
      BY <1>2, <1>4, <3>1
  <2>. QED
    BY <1>6, <2>1, Zenon
<1>. HIDE DEF m, begun, pieces, left, got
<1>10. got = ClientBy(answer, p + c)
  <2>. DEFINE g == [k \in 0 .. c |-> ClientBy(answer, p + k)]
  <2>1. g[0] = begun /\ g[c] = ClientBy(answer, p + c)
    <3>1. 0 \in 0 .. c /\ c \in 0 .. c /\ p + 0 = p
      BY <1>8
    <3>. QED
      BY <1>6, <3>1, Zenon
  <2>2. \A k \in 1 .. c : Take(g[k - 1], pieces[k]) = g[k]
    <3>. TAKE k \in 1 .. c
    <3>. DEFINE q == p + (k - 1)
    <3>1. /\ k \in 0 .. c /\ k - 1 \in 0 .. c /\ k \in 1 .. Len(wire)
          /\ q \in Nat /\ q < 4 * m + 6 /\ q + 1 = p + k
      BY <1>8, <1>9, <1>2
    <3>2. g[k - 1] = ClientBy(answer, q) /\ g[k] = ClientBy(answer, q + 1)
      BY <3>1, Zenon
    <3>3. pieces[k] = PieceAt(answer, q + 1)
      BY <1>6, <1>7, <3>1, Zenon
    <3>. HIDE DEF q, g
    <3>4. Take(ClientBy(answer, q), PieceAt(answer, q + 1)) = ClientBy(answer, q + 1)
      BY <1>1, <3>1, OnePiece DEF m
    <3>. QED
      BY <3>2, <3>3, <3>4, Zenon
  <2>. HIDE DEF g
  <2>3. Taken(begun, pieces) = g[c]
    BY <1>7, <1>8, <2>1, <2>2, TakenBy
  <2>. QED
    BY <2>1, <2>3, Zenon DEF got
<1>11. ClientAt(p + c)'
  <2>1. got = [full |-> got.full, shown |-> got.shown, rest |-> got.rest]
    BY <1>10, ClientIsRecord
  <2>. QED
    BY <1>3, <1>10, <2>1, Zenon DEF ClientAt
<1>12. WireFrom(p + c)'
  <2>1. (p + c) + Len(left) = YieldedPieces(answer, sent)
    BY <1>6, <1>7, <1>8
  <2>2. \A k \in 1 .. Len(left) : left[k] = PieceAt(answer, (p + c) + k)
    <3>. TAKE k \in 1 .. Len(left)
    <3>1. /\ k \in 1 .. (Len(wire) - c) /\ c + k \in 1 .. Len(wire)
          /\ p + (c + k) = (p + c) + k
      BY <1>7, <1>8
    <3>. QED
      BY <1>6, <1>7, <3>1, Zenon
  <2>. QED
    BY <1>3, <1>7, <2>1, <2>2, Zenon DEF WireFrom
<1>13. p + c \in Nat /\ p + c <= 4 * m + 6
  BY <1>2, <1>8, <1>9
<1>. QED
  <2>1. "streaming" # "returned"
    OBVIOUS
  <2>. QED
    BY <1>3, <1>4, <1>11, <1>12, <1>13, <2>1, Zenon DEF Inv, m

\* Every event has been yielded and read: the client has the whole answer.
LEMMA ReturnHolds == Inv /\ Return => Inv'
<1>. SUFFICES ASSUME Inv, Return PROVE Inv'
  OBVIOUS
<1>. DEFINE m == Len(Chunks(answer))
<1>1. PICK n : AreLines(answer, n)
  BY AnswersAreLines DEF Inv
<1>2. m \in Nat
  BY <1>1, ChunksMean
<1>3. /\ phase = "streaming" /\ sent = Len(Events(answer)) /\ wire = <<>> /\ phase' = "returned"
      /\ answer' = answer /\ sent' = sent /\ wire' = wire /\ buffer' = buffer
      /\ fullAnswer' = fullAnswer /\ preview' = preview
  BY Zenon DEF Return
<1>4. answer \in Answers /\ sent \in Nat /\ sent <= m + 1
  BY Zenon DEF Inv
<1>5. PICK p \in Nat : p <= 4 * m + 6 /\ ClientAt(p) /\ WireFrom(p)
  <2>1. "streaming" # "failed"
    OBVIOUS
  <2>. QED
    BY <1>3, <2>1, Zenon DEF Inv
<1>6. Len(Events(answer)) = m + 1
  <2>. 0 \in Nat /\ 0 < Len(Events(answer))
    <3>1. Events(answer) = [k \in DOMAIN Chunks(answer) |-> DataEvent(Chunks(answer)[k])] \o <<DoneEvent>>
      BY Zenon DEF Events
    <3>2. Chunks(answer) \in Seq(0 .. n)
      BY <1>1, ChunksMean
    <3>. QED
      BY <3>1, <3>2
  <2>. QED
    BY <1>1, OneEvent
<1>7. p = 4 * m + 6
  <2>1. p + Len(wire) = YieldedPieces(answer, sent) /\ ~ (sent <= m)
    BY <1>2, <1>3, <1>5, <1>6 DEF WireFrom
  <2>2. Len(<<>>) = 0
    OBVIOUS
  <2>3. p + Len(wire) = 4 * m + 6
    BY <2>1, Zenon DEF YieldedPieces
  <2>. QED
    BY <1>3, <2>2, <2>3
<1>8. fullAnswer = Meaning(answer)
  <2>1. ChunksBy(answer, p) = m
    BY <1>2, <1>7 DEF ChunksBy
  <2>. DEFINE got == [full |-> fullAnswer, shown |-> preview, rest |-> buffer]
              f == FullBy(answer, ChunksBy(answer, p))
              s == ShownBy(answer, ChunksBy(answer, p))
              r == RestBy(answer, p)
  <2>2. got = [full |-> f, shown |-> s, rest |-> r]
    BY <1>5, Zenon DEF ClientAt, ClientBy
  <2>. HIDE DEF f, s, r
  <2>3. fullAnswer = f
    BY <2>2
  <2>. QED
    BY <1>1, <2>1, <2>3, ByAll, Zenon DEF f
<1>9. ClientAt(p)' /\ WireFrom(p)'
  BY <1>3, <1>5, Zenon DEF ClientAt, WireFrom
<1>. QED
  BY <1>3, <1>4, <1>5, <1>8, <1>9, Zenon DEF Inv, m

\* What the client has at a failure stays what some pieces make.
LEMMA FailHolds == Inv /\ Fail => Inv'
<1>. SUFFICES ASSUME Inv, Fail PROVE Inv'
  OBVIOUS
<1>1. /\ phase' = "failed"
      /\ answer' = answer /\ sent' = sent /\ buffer' = buffer
      /\ fullAnswer' = fullAnswer /\ preview' = preview
  BY Zenon DEF Fail
<1>2. "failed" # "returned"
  OBVIOUS
<1>3. \A p : ClientAt(p) => ClientAt(p)'
  BY <1>1, Zenon DEF ClientAt
<1>. QED
  BY <1>1, <1>2, <1>3, Zenon DEF Inv

LEMMA AskHolds == Inv /\ Ask => Inv'
<1>. SUFFICES ASSUME Inv, Ask PROVE Inv'
  OBVIOUS
<1>1. /\ phase = "asked" /\ phase' = "streaming"
      /\ answer' = answer /\ sent' = sent /\ wire' = wire /\ buffer' = buffer
      /\ fullAnswer' = fullAnswer /\ preview' = preview
  BY Zenon DEF Ask
<1>2. "asked" # "failed" /\ "streaming" # "returned"
  OBVIOUS
<1>3. \A p : (ClientAt(p) => ClientAt(p)') /\ (WireFrom(p) => WireFrom(p)')
  BY <1>1, Zenon DEF ClientAt, WireFrom
<1>. QED
  BY <1>1, <1>2, <1>3, Zenon DEF Inv

LEMMA StutterHolds == Inv /\ UNCHANGED vars => Inv'
<1>. SUFFICES ASSUME Inv, UNCHANGED vars PROVE Inv'
  OBVIOUS
<1>1. /\ answer' = answer /\ phase' = phase /\ sent' = sent /\ wire' = wire
      /\ buffer' = buffer /\ fullAnswer' = fullAnswer /\ preview' = preview
  BY DEF vars
<1>. QED
  BY <1>1, Zenon DEF Inv, ClientAt, WireFrom

\* At every moment the client is what some first pieces of the stream make of
\* it, and the wire holds the pieces that follow (routers/chat.py:127-133 against
\* api/chat.ts:55-95).
THEOREM ClientFollowsStream == Spec => []Inv
<1>1. Inv /\ [Next]_vars => Inv'
  BY YieldHolds, ReadHolds, ReturnHolds, FailHolds, AskHolds, StutterHolds, Zenon DEF Next
<1>. QED
  BY <1>1, InitHolds, PTL DEF Spec

\* What the reader has been shown ends with what will be returned, at every
\* moment (api/chat.ts:66-88: a token is shown whenever it is told).
THEOREM ShownWhatIsReturned == Spec => []ShownBeforeReturned
<1>1. Inv => ShownBeforeReturned
  <2>. SUFFICES ASSUME Inv PROVE ShownBeforeReturned
    OBVIOUS
  <2>. DEFINE m == Len(Chunks(answer))
  <2>1. PICK n : AreLines(answer, n)
    BY AnswersAreLines DEF Inv
  <2>2. m \in Nat
    BY <2>1, ChunksMean
  <2>3. PICK p \in Nat : p <= 4 * m + 6 /\ ClientAt(p)
    BY Zenon DEF Inv
  <2>. DEFINE d == ChunksBy(answer, p)
              f == FullBy(answer, d)
              s == ShownBy(answer, d)
              r == RestBy(answer, p)
  <2>4. d \in Nat /\ d <= m
    BY <2>2, <2>3 DEF ChunksBy
  <2>5. [full |-> fullAnswer, shown |-> preview, rest |-> buffer] = [full |-> f, shown |-> s, rest |-> r]
    BY <2>3, Zenon DEF ClientAt, ClientBy
  <2>6. IsSuffix(f, s)
    <3>. HIDE DEF d
    <3>. QED
      BY <2>1, <2>4, ShownEndsWithFull, Zenon
  <2>. HIDE DEF f, s, r
  <2>7. fullAnswer = f /\ preview = s
    BY <2>5
  <2>. QED
    BY <2>6, <2>7, Zenon DEF ShownBeforeReturned
<1>. QED
  BY ClientFollowsStream, <1>1, PTL

\* What is returned is what the client makes of the stream in one piece, and the
\* full answer when no line of it is JSON (api/chat.ts:55-95: the loop and its buffer).
THEOREM ReturnIsWhatWasSent == Spec => []ReturnsWhatWasSent
<1>1. Inv => ReturnsWhatWasSent
  <2>. SUFFICES ASSUME Inv, phase = "returned"
                PROVE  /\ fullAnswer = InOnePiece.full
                       /\ (\A i \in DOMAIN answer : answer[i] \in {"text", "null", "blank"})
                              => fullAnswer = Full(answer)
    BY Zenon DEF ReturnsWhatWasSent
  <2>1. PICK n : AreLines(answer, n)
    BY AnswersAreLines DEF Inv
  <2>2. fullAnswer = Meaning(answer)
    BY Zenon DEF Inv
  <2>3. InOnePiece.full = Meaning(answer)
    BY <2>1, OnePieceMeans
  <2>4. (\A i \in DOMAIN answer : answer[i] \in {"text", "null", "blank"})
            => Meaning(answer) = Full(answer)
    BY <2>1, PlainMeans, Zenon
  <2>. QED
    BY <2>2, <2>3, <2>4, Zenon
<1>. QED
  BY ClientFollowsStream, <1>1, PTL

\* Of answers without a line of JSON the call delivers the full answer or fails,
\* and never a part of it: on them the stream implements AnswerDelivery, which it
\* does not when a line is a number (api/chat.ts:21-95).
THEOREM StreamDelivers ==
    ASSUME Kinds \subseteq {"text", "null", "blank"}
    PROVE  Spec => DeliversAnswer
<1>. DEFINE result == CASE phase = "returned" -> fullAnswer
                        [] phase = "failed" -> Failed
                        [] OTHER -> Pending
            full == Full(answer)
<1>1. Init => Delivery!Init
  <2>. SUFFICES ASSUME Init PROVE Delivery!Init
    OBVIOUS
  <2>1. "asked" # "returned" /\ "asked" # "failed"
    OBVIOUS
  <2>2. result = Pending
    BY <2>1, Zenon DEF Init
  <2>3. full \in {Full(a) : a \in Answers}
    BY DEF Init
  <2>. QED
    BY <2>2, <2>3, Zenon DEF Delivery!Init
<1>2. Inv /\ Inv' /\ [Next]_vars => [Delivery!Next]_<<full, result>>
  <2>. SUFFICES ASSUME Inv, Inv', [Next]_vars
                PROVE  Delivery!Next \/ (full' = full /\ result' = result)
    OBVIOUS
  <2>1. answer' = answer
    BY DEF Next, vars, Ask, Yield, Read, Return, Fail
  <2>2. full' = full
    BY <2>1, Zenon
  <2>3. "streaming" # "returned" /\ "streaming" # "failed" /\ "asked" # "returned"
        /\ "asked" # "failed" /\ "failed" # "returned"
    OBVIOUS
  <2>4. phase \in {"asked", "streaming"} => result = Pending
    BY <2>3, Zenon
  <2>5. CASE phase' = phase /\ fullAnswer' = fullAnswer
    BY <2>2, <2>5, Zenon
  <2>6. CASE phase = "streaming" /\ phase' = phase
    <3>1. result' = Pending
      BY <2>3, <2>6, Zenon
    <3>. QED
      BY <2>2, <2>4, <2>6, <3>1, Zenon
  <2>7. CASE phase = "asked" /\ phase' = "streaming"
    <3>1. result' = Pending
      BY <2>3, <2>7, Zenon
    <3>. QED
      BY <2>2, <2>4, <2>7, <3>1, Zenon
  <2>8. CASE phase = "streaming" /\ phase' = "returned"
    <3>1. result' = fullAnswer'
      BY <2>8, Zenon
    <3>2. fullAnswer' = Meaning(answer')
      BY <2>8, Zenon DEF Inv
    <3>3. Meaning(answer) = Full(answer)
      <4>1. PICK n : AreLines(answer, n)
        BY AnswersAreLines DEF Inv
      <4>2. \A i \in DOMAIN answer : answer[i] \in {"text", "null", "blank"}
        <5>1. PICK j \in 0 .. MaxLines : answer \in [1 .. j -> Kinds]
          BY DEF Inv, Answers
        <5>. QED
          BY <5>1
      <4>. QED
        BY <4>1, <4>2, PlainMeans, Zenon
    <3>4. result' = full
      BY <2>1, <3>1, <3>2, <3>3, Zenon
    <3>. QED
      BY <2>2, <2>4, <2>8, <3>4, Zenon DEF Delivery!Next, Delivery!Deliver
  <2>9. CASE phase \in {"asked", "streaming"} /\ phase' = "failed"
    <3>1. result' = Failed
      BY <2>3, <2>9, Zenon
    <3>. QED
      BY <2>2, <2>4, <2>9, <3>1, Zenon DEF Delivery!Next, Delivery!Fail
  <2>10. \/ phase' = phase /\ fullAnswer' = fullAnswer
         \/ phase = "streaming" /\ phase' = phase
         \/ phase = "asked" /\ phase' = "streaming"
         \/ phase = "streaming" /\ phase' = "returned"
         \/ phase \in {"asked", "streaming"} /\ phase' = "failed"
    BY DEF Next, vars, Ask, Yield, Read, Return, Fail
  <2>. QED
    BY <2>5, <2>6, <2>7, <2>8, <2>9, <2>10
<1>. QED
  BY <1>1, <1>2, ClientFollowsStream, PTL DEF Spec, DeliversAnswer, Delivery!Spec
=============================================================================
