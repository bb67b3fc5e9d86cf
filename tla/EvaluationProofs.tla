-------------------------- MODULE EvaluationProofs --------------------------
(***************************************************************************)
(* Proofs about Evaluation for every set of entries and data sets of any   *)
(* length: what the five metrics say of a reply, and what the summary says *)
(* of a run.  The averages are sums over the results, so the proofs need   *)
(* sums first.                                                             *)
(***************************************************************************)
EXTENDS Evaluation, FiniteSetTheorems, WellFoundedInduction, TLAPS

-----------------------------------------------------------------------------
(* Sums                                                                     *)

\* "Less than" on the naturals, as the relation the library proves well-founded.
LessThan == { p \in Nat \X Nat : p[1] < p[2] }

LEMMA LessThanWellFounded == IsWellFoundedOn(LessThan, Nat)
BY NatLessThanWellFounded DEF OpToRel, LessThan

\* A set with zero and with the successor of each of its naturals has them all.
LEMMA Counting ==
    ASSUME NEW T, 0 \in T, \A n \in Nat : n \in T => n + 1 \in T
    PROVE  \A n \in Nat : n \in T
<1>. SUFFICES ASSUME Nat \ T # {} PROVE FALSE
  OBVIOUS
<1>1. PICK n \in Nat \ T : \A m \in Nat \ T : <<m, n>> \notin LessThan
  BY LessThanWellFounded, WFMin, Nat \ T \subseteq Nat
<1>2. n # 0 /\ n - 1 \in Nat /\ (n - 1) + 1 = n
  OBVIOUS
<1>3. <<n - 1, n>> \in LessThan
  BY <1>2 DEF LessThan
<1>. QED
  BY <1>1, <1>2, <1>3

\* The element that SumFunction takes from a set next.
Pick(s) == CHOOSE x \in s : TRUE

\* A property of the empty set that a set has when it has it without its next
\* element is one of every part of a finite set.
LEMMA OneByOne ==
    ASSUME NEW S, IsFiniteSet(S), NEW T, {} \in T,
           \A s \in SUBSET S : s # {} /\ s \ {Pick(s)} \in T => s \in T
    PROVE  \A s \in SUBSET S : s \in T
<1>. DEFINE N == { n \in Nat : \A s \in SUBSET S : Cardinality(s) = n => s \in T }
<1>1. \A s \in SUBSET S : IsFiniteSet(s) /\ Cardinality(s) \in Nat
  BY FS_Subset, FS_CardinalityType
<1>2. 0 \in N
  BY <1>1, FS_EmptySet
<1>3. ASSUME NEW n \in Nat, n \in N PROVE n + 1 \in N
  <2>. SUFFICES ASSUME NEW s \in SUBSET S, Cardinality(s) = n + 1 PROVE s \in T
    BY <1>3
  <2>1. s # {} /\ Pick(s) \in s
    BY <1>1, FS_EmptySet DEF Pick
  <2>2. Cardinality(s \ {Pick(s)}) = n
    BY <1>1, <2>1, FS_RemoveElement
  <2>. QED
    BY <1>3, <2>1, <2>2
<1>. HIDE DEF N
<1>4. \A n \in Nat : n \in N
  BY <1>2, <1>3, Counting
<1>. QED
  BY <1>1, <1>4 DEF N

\* The sums of the parts of a function's domain, as SumFunction makes them.
IsPartial(g, f, P) ==
    g = [s \in P |-> IF s = {} THEN 0 ELSE f[Pick(s)] + g[s \ {Pick(s)}]]

Partial(f) == CHOOSE g : IsPartial(g, f, SUBSET DOMAIN f)

LEMMA PartialExists ==
    ASSUME NEW f, NEW S, IsFiniteSet(S)
    PROVE  \E g : IsPartial(g, f, SUBSET S)
<1>. DEFINE UpTo(n) == { s \in SUBSET S : Cardinality(s) <= n }
            N == { n \in Nat : \E g : IsPartial(g, f, UpTo(n)) }
<1>1. \A s \in SUBSET S : IsFiniteSet(s) /\ Cardinality(s) \in Nat
  BY FS_Subset, FS_CardinalityType
<1>2. 0 \in N
  <2>1. \A s \in UpTo(0) : s = {}
    BY <1>1, FS_EmptySet
  <2>2. IsPartial([s \in UpTo(0) |-> 0], f, UpTo(0))
    BY <2>1 DEF IsPartial
  <2>. QED
    BY <2>2
<1>3. ASSUME NEW n \in Nat, n \in N PROVE n + 1 \in N
  <2>1. PICK g : IsPartial(g, f, UpTo(n))
    BY <1>3
  <2>. DEFINE h == [s \in UpTo(n + 1) |-> IF s = {} THEN 0 ELSE f[Pick(s)] + g[s \ {Pick(s)}]]
  <2>2. \A s \in UpTo(n + 1) : s # {} => s \ {Pick(s)} \in UpTo(n) /\ Pick(s) \in s
    <3>. SUFFICES ASSUME NEW s \in UpTo(n + 1), s # {}
                  PROVE  s \ {Pick(s)} \in UpTo(n) /\ Pick(s) \in s
      OBVIOUS
    <3>1. Pick(s) \in s
      BY DEF Pick
    <3>2. Cardinality(s \ {Pick(s)}) = Cardinality(s) - 1
      BY <1>1, <3>1, FS_RemoveElement
    <3>. QED
      BY <1>1, <3>1, <3>2
  <2>3. UpTo(n) \subseteq UpTo(n + 1)
    BY <1>1
  <2>. HIDE DEF UpTo
  <2>4. \A s \in UpTo(n) : h[s] = g[s]
    BY <2>1, <2>3 DEF IsPartial
  <2>5. IsPartial(h, f, UpTo(n + 1))
    BY <2>2, <2>4 DEF IsPartial
  <2>6. \E k : IsPartial(k, f, UpTo(n + 1))
    BY <2>5
  <2>. QED
    BY <2>6
<1>. HIDE DEF N, UpTo
<1>4. \A n \in Nat : n \in N
  BY <1>2, <1>3, Counting
<1>5. Cardinality(S) \in Nat /\ \A s \in SUBSET S : Cardinality(s) <= Cardinality(S)
  BY FS_Subset, FS_CardinalityType
<1>6. UpTo(Cardinality(S)) = SUBSET S
  BY <1>5 DEF UpTo
<1>. QED
  BY <1>4, <1>5, <1>6 DEF N

\* How a sum unfolds.
LEMMA SumUnfolds ==
    ASSUME NEW f, IsFiniteSet(DOMAIN f)
    PROVE  /\ SumFunction(f) = Partial(f)[DOMAIN f]
           /\ Partial(f)[{}] = 0
           /\ \A s \in SUBSET DOMAIN f : s # {} =>
                 /\ Pick(s) \in s
                 /\ Partial(f)[s] = f[Pick(s)] + Partial(f)[s \ {Pick(s)}]
<1>1. SumFunction(f) = Partial(f)[DOMAIN f]
  BY Zenon DEF SumFunction, SumFunctionOnSet, FoldFunctionOnSet, MapThenFoldSet,
     Partial, IsPartial, Pick
<1>2. IsPartial(Partial(f), f, SUBSET DOMAIN f)
  BY PartialExists, Zenon DEF Partial
<1>. DEFINE g == Partial(f)
<1>. HIDE DEF g
<1>3. g = [s \in SUBSET DOMAIN f |-> IF s = {} THEN 0 ELSE f[Pick(s)] + g[s \ {Pick(s)}]]
  BY <1>2 DEF g, IsPartial
<1>4. \A s : s # {} => Pick(s) \in s
  BY DEF Pick
<1>. QED
  BY <1>1, <1>3, <1>4 DEF g

\* Sums of naturals are naturals and grow with what is summed.
LEMMA SumsGrow ==
    ASSUME NEW S, IsFiniteSet(S), NEW f \in [S -> Nat], NEW h \in [S -> Nat],
           \A i \in S : f[i] <= h[i]
    PROVE  /\ SumFunction(f) \in Nat /\ SumFunction(h) \in Nat
           /\ SumFunction(f) <= SumFunction(h)
           /\ (\E i \in S : f[i] < h[i]) => SumFunction(f) < SumFunction(h)
<1>. DEFINE F == Partial(f)
            H == Partial(h)
            T == { s \in SUBSET S : /\ F[s] \in Nat /\ H[s] \in Nat /\ F[s] <= H[s]
                                    /\ (\E i \in s : f[i] < h[i]) => F[s] < H[s] }
<1>1. DOMAIN f = S /\ DOMAIN h = S
  OBVIOUS
<1>2. /\ SumFunction(f) = F[S] /\ SumFunction(h) = H[S] /\ F[{}] = 0 /\ H[{}] = 0
      /\ \A s \in SUBSET S : s # {} =>
            /\ Pick(s) \in s
            /\ F[s] = f[Pick(s)] + F[s \ {Pick(s)}] /\ H[s] = h[Pick(s)] + H[s \ {Pick(s)}]
  BY <1>1, SumUnfolds
<1>. HIDE DEF F, H
<1>3. {} \in T
  BY <1>2
<1>4. ASSUME NEW s \in SUBSET S, s # {}, s \ {Pick(s)} \in T PROVE s \in T
  <2>. DEFINE x == Pick(s)
              t == s \ {x}
  <2>1. /\ x \in s /\ f[x] \in Nat /\ h[x] \in Nat /\ f[x] <= h[x]
        /\ F[s] = f[x] + F[t] /\ H[s] = h[x] + H[t]
        /\ F[t] \in Nat /\ H[t] \in Nat /\ F[t] <= H[t]
        /\ (\E i \in t : f[i] < h[i]) => F[t] < H[t]
    BY <1>2, <1>4
  <2>2. \A i \in s : i = x \/ i \in t
    OBVIOUS
  <2>. HIDE DEF x, t
  <2>. QED
    BY <2>1, <2>2
<1>. HIDE DEF T
<1>5. S \in T
  BY <1>3, <1>4, OneByOne
<1>. QED
  BY <1>2, <1>5 DEF T

\* Two sums are the sum of what they sum, place by place.
LEMMA SumsAdd ==
    ASSUME NEW S, IsFiniteSet(S), NEW f \in [S -> Nat], NEW g \in [S -> Nat],
           NEW h \in [S -> Nat], \A i \in S : h[i] = f[i] + g[i]
    PROVE  /\ SumFunction(f) \in Nat /\ SumFunction(g) \in Nat
           /\ SumFunction(h) = SumFunction(f) + SumFunction(g)
<1>. DEFINE F == Partial(f)
            G == Partial(g)
            H == Partial(h)
            T == { s \in SUBSET S : F[s] \in Nat /\ G[s] \in Nat /\ H[s] = F[s] + G[s] }
<1>1. DOMAIN f = S /\ DOMAIN g = S /\ DOMAIN h = S
  OBVIOUS
<1>2. /\ SumFunction(f) = F[S] /\ SumFunction(g) = G[S] /\ SumFunction(h) = H[S]
      /\ F[{}] = 0 /\ G[{}] = 0 /\ H[{}] = 0
      /\ \A s \in SUBSET S : s # {} =>
            /\ Pick(s) \in s
            /\ F[s] = f[Pick(s)] + F[s \ {Pick(s)}] /\ G[s] = g[Pick(s)] + G[s \ {Pick(s)}]
            /\ H[s] = h[Pick(s)] + H[s \ {Pick(s)}]
  BY <1>1, SumUnfolds
<1>. HIDE DEF F, G, H
<1>3. {} \in T
  BY <1>2
<1>4. ASSUME NEW s \in SUBSET S, s # {}, s \ {Pick(s)} \in T PROVE s \in T
  <2>. DEFINE x == Pick(s)
              t == s \ {x}
  <2>1. /\ x \in s /\ f[x] \in Nat /\ g[x] \in Nat /\ h[x] = f[x] + g[x]
        /\ F[s] = f[x] + F[t] /\ G[s] = g[x] + G[t] /\ H[s] = h[x] + H[t]
        /\ F[t] \in Nat /\ G[t] \in Nat /\ H[t] = F[t] + G[t]
    BY <1>2, <1>4
  <2>. HIDE DEF x, t
  <2>. QED
    BY <2>1
<1>. HIDE DEF T
<1>5. S \in T
  BY <1>3, <1>4, OneByOne
<1>. QED
  BY <1>2, <1>5 DEF T

\* One more of one is one more of all.
LEMMA SumCounts ==
    ASSUME NEW S, IsFiniteSet(S), NEW f \in [S -> Nat], NEW i \in S, NEW h \in [S -> Nat],
           h[i] = f[i] + 1, \A j \in S \ {i} : h[j] = f[j]
    PROVE  SumFunction(h) = SumFunction(f) + 1
<1>. DEFINE F == Partial(f)
            H == Partial(h)
            T == { s \in SUBSET S : /\ F[s] \in Nat
                                    /\ H[s] = F[s] + (IF i \in s THEN 1 ELSE 0) }
<1>1. DOMAIN f = S /\ DOMAIN h = S
  OBVIOUS
<1>2. /\ SumFunction(f) = F[S] /\ SumFunction(h) = H[S] /\ F[{}] = 0 /\ H[{}] = 0
      /\ \A s \in SUBSET S : s # {} =>
            /\ Pick(s) \in s
            /\ F[s] = f[Pick(s)] + F[s \ {Pick(s)}] /\ H[s] = h[Pick(s)] + H[s \ {Pick(s)}]
  BY <1>1, SumUnfolds
<1>. HIDE DEF F, H
<1>3. {} \in T
  BY <1>2
<1>4. ASSUME NEW s \in SUBSET S, s # {}, s \ {Pick(s)} \in T PROVE s \in T
  <2>. DEFINE x == Pick(s)
              t == s \ {x}
  <2>1. /\ x \in s /\ x \notin t /\ f[x] \in Nat
        /\ F[s] = f[x] + F[t] /\ H[s] = h[x] + H[t]
        /\ F[t] \in Nat /\ H[t] = F[t] + (IF i \in t THEN 1 ELSE 0)
        /\ i \in s <=> (i = x \/ i \in t)
    BY <1>2, <1>4
  <2>2. h[x] = f[x] + (IF i = x THEN 1 ELSE 0)
    BY <2>1
  <2>. HIDE DEF x, t
  <2>3. H[s] = F[s] + (IF i \in s THEN 1 ELSE 0)
    <3>1. CASE i = x
      BY <2>1, <2>2, <3>1
    <3>2. CASE i # x /\ i \in t
      BY <2>1, <2>2, <3>2
    <3>3. CASE i # x /\ i \notin t
      BY <2>1, <2>2, <3>3
    <3>. QED
      BY <3>1, <3>2, <3>3
  <2>4. F[s] \in Nat
    BY <2>1
  <2>. QED
    BY <2>3, <2>4
<1>. HIDE DEF T
<1>5. S \in T
  BY <1>3, <1>4, OneByOne
<1>. QED
  BY <1>2, <1>5 DEF T

\* Nothing adds up to nothing.
LEMMA SumOfZeros ==
    ASSUME NEW S, IsFiniteSet(S), NEW f \in [S -> Nat], \A i \in S : f[i] = 0
    PROVE  SumFunction(f) = 0
<1>. DEFINE F == Partial(f)
            T == { s \in SUBSET S : F[s] = 0 }
<1>1. DOMAIN f = S
  OBVIOUS
<1>2. /\ SumFunction(f) = F[S] /\ F[{}] = 0
      /\ \A s \in SUBSET S : s # {} =>
            Pick(s) \in s /\ F[s] = f[Pick(s)] + F[s \ {Pick(s)}]
  BY <1>1, SumUnfolds
<1>. HIDE DEF F
<1>3. {} \in T
  BY <1>2
<1>4. ASSUME NEW s \in SUBSET S, s # {}, s \ {Pick(s)} \in T PROVE s \in T
  <2>1. f[Pick(s)] = 0 /\ F[s \ {Pick(s)}] = 0
    BY <1>2, <1>4
  <2>2. F[s] = 0 + 0
    BY <1>2, <1>4, <2>1
  <2>. QED
    BY <2>2
<1>. HIDE DEF T
<1>5. S \in T
  BY <1>3, <1>4, OneByOne
<1>. QED
  BY <1>2, <1>5 DEF T

-----------------------------------------------------------------------------
(* Scores                                                                   *)

LEMMA Division ==
    ASSUME NEW x \in Nat, NEW d \in Nat \ {0}
    PROVE  /\ x \div d \in Nat
           /\ d * (x \div d) <= x /\ x < d * (x \div d) + d
OBVIOUS

\* A share of a part is between none and all, and all only of the whole.
LEMMA Shares ==
    ASSUME NEW p \in Nat, NEW n \in Nat \ {0}, p <= n
    PROVE  Share(p, n) \in 0 .. Full /\ (Share(p, n) = Full <=> p = n)
<1>. DEFINE q == (60 * p) \div n
<1>1. /\ q \in Nat /\ n * q <= 60 * p /\ 60 * p < n * q + n
  BY Division
<1>2. Share(p, n) = q
  BY DEF Share, Full
<1>. HIDE DEF q
<1>3. q <= 60
  <2>. SUFFICES ASSUME q > 60 PROVE FALSE
    BY <1>1
  <2>1. PICK e \in Nat : q = 61 + e
    <3>1. q - 61 \in Nat /\ q = 61 + (q - 61)
      BY <1>1
    <3>. QED
      BY <3>1
  <2>2. n * q = 61 * n + n * e /\ n * e \in Nat
    BY <2>1
  <2>. QED
    BY <1>1, <2>2
<1>4. q = 60 => p = n
  <2>. SUFFICES ASSUME q = 60 PROVE p = n
    OBVIOUS
  <2>1. n * q = 60 * n
    OBVIOUS
  <2>. QED
    BY <1>1, <2>1
<1>5. p = n => q = 60
  <2>. SUFFICES ASSUME p = n, q < 60 PROVE FALSE
    BY <1>1, <1>3
  <2>1. PICK e \in Nat : 59 = q + e
    <3>1. 59 - q \in Nat /\ 59 = q + (59 - q)
      BY <1>1
    <3>. QED
      BY <3>1
  <2>2. n * 59 = n * q + n * e /\ n * e \in Nat /\ n * q \in Nat
    BY <1>1, <2>1
  <2>. QED
    BY <1>1, <2>2
<1>. QED
  BY <1>1, <1>2, <1>3, <1>4, <1>5 DEF Full

\* The larger part has the larger share.
LEMMA SharesGrow ==
    ASSUME NEW p \in Nat, NEW r \in Nat, NEW n \in Nat \ {0}, p <= r
    PROVE  Share(p, n) <= Share(r, n)
<1>. DEFINE a == (60 * p) \div n
            b == (60 * r) \div n
<1>1. /\ a \in Nat /\ n * a <= 60 * p
      /\ b \in Nat /\ 60 * r < n * b + n
  BY Division
<1>2. Share(p, n) = a /\ Share(r, n) = b
  BY DEF Share, Full
<1>. HIDE DEF a, b
<1>3. ASSUME b < a PROVE FALSE
  <2>1. PICK e \in Nat : a = b + 1 + e
    <3>1. a - (b + 1) \in Nat /\ a = b + 1 + (a - (b + 1))
      BY <1>1, <1>3
    <3>. QED
      BY <3>1
  <2>2. n * a = n * b + n + n * e /\ n * e \in Nat /\ n * b \in Nat
    BY <1>1, <2>1
  <2>. QED
    BY <1>1, <2>2
<1>. QED
  BY <1>1, <1>2, <1>3

\* The share of a part of a finite set, and of a larger part.
LEMMA PartsShare ==
    ASSUME NEW S, IsFiniteSet(S), S # {}, NEW A \in SUBSET S, NEW B \in SUBSET S, A \subseteq B
    PROVE  /\ Share(Cardinality(A), Cardinality(S)) \in 0 .. Full
           /\ Share(Cardinality(A), Cardinality(S)) = Full <=> A = S
           /\ Share(Cardinality(A), Cardinality(S)) <= Share(Cardinality(B), Cardinality(S))
<1>1. /\ Cardinality(S) \in Nat \ {0}
      /\ IsFiniteSet(A) /\ Cardinality(A) \in Nat /\ Cardinality(A) <= Cardinality(S)
      /\ Cardinality(A) = Cardinality(S) <=> A = S
  BY FS_Subset, FS_CardinalityType, FS_EmptySet
<1>2. IsFiniteSet(B) /\ Cardinality(B) \in Nat
  BY FS_Subset, FS_CardinalityType
<1>3. Cardinality(A) <= Cardinality(B)
  BY <1>2, A \in SUBSET B, FS_Subset
<1>4. /\ Share(Cardinality(A), Cardinality(S)) \in 0 .. Full
      /\ Share(Cardinality(A), Cardinality(S)) = Full <=> Cardinality(A) = Cardinality(S)
  BY <1>1, Shares
<1>5. Share(Cardinality(A), Cardinality(S)) <= Share(Cardinality(B), Cardinality(S))
  BY <1>1, <1>2, <1>3, SharesGrow
<1>. QED
  BY <1>1, <1>4, <1>5

\* Sequences one after the other.
LEMMA Joined ==
    ASSUME NEW D, NEW s \in Seq(D), NEW t \in Seq(D)
    PROVE  /\ s \o t \in Seq(D) /\ Len(s) \in Nat /\ Len(t) \in Nat
           /\ Len(s \o t) = Len(s) + Len(t)
           /\ DOMAIN (s \o t) = 1 .. Len(s) + Len(t)
           /\ \A k \in 1 .. Len(t) : (s \o t)[Len(s) + k] = t[k]
OBVIOUS

\* The notice is one claim or two; the last has words that evidence must have.
LEMMA Notices ==
    /\ NoticeOfResubmit.size = "long" /\ NoticeOfResubmit.tokens # {}
    /\ NoticeOfResubmit.points \in Seq(STRING) /\ NoticeOfBlock.points \in Seq(STRING)
BY DEF NoticeOfResubmit, NoticeOfBlock, Notice

\* An answer has finitely many claims, each with a sequence of data points, and
\* the notice at its end when tools were held.
LEMMA AnswerShape ==
    ASSUME NEW e \in Entries
    PROVE  /\ IsFiniteSet(DOMAIN Answer(e))
           /\ Answer(e) = <<>> <=> e.answer = <<>>
           /\ \A i \in DOMAIN Answer(e) : Answer(e)[i].points \in Seq(STRING)
           /\ Noticed(e) => \E i \in DOMAIN Answer(e) : Answer(e)[i] = NoticeOfResubmit
<1>. DEFINE a == NoticeOfBlock
            b == NoticeOfResubmit
            n == Len(e.answer)
            own == [i \in 1 .. n |-> ClaimOf(e, i)]
            held == Noticed(e)
            added == IF ~held THEN <<>> ELSE IF e.stopped THEN <<a, b>> ELSE <<b>>
            D == { ClaimOf(e, i) : i \in 1 .. n } \cup {a, b}
<1>2. n \in Nat /\ (e.answer = <<>> <=> n = 0) /\ \A i \in 1 .. n : e.answer[i] \in Claim
  BY EntriesAssumption
<1>3. own \in Seq(D) /\ Len(own) = n
  BY <1>2
<1>5. \A d \in D : d.points \in Seq(STRING)
  <2>1. \A c \in Claim : Deferred(c).points \in Seq(STRING)
    BY DEF Claim, Deferred
  <2>2. \A c \in Claim : WithNotice(Deferred(c)).points \in Seq(STRING)
    BY DEF Claim, Deferred, WithNotice
  <2>3. \A i \in 1 .. n : ClaimOf(e, i).points \in Seq(STRING)
    <3>1. \A i \in 1 .. n : \/ ClaimOf(e, i) = WithNotice(Deferred(e.answer[i]))
                             \/ ClaimOf(e, i) = Deferred(e.answer[i])
      BY Zenon DEF ClaimOf
    <3>. QED
      BY <1>2, <2>1, <2>2, <3>1, Zenon
  <2>4. \A d \in D : d = a \/ d = b \/ \E i \in 1 .. n : d = ClaimOf(e, i)
    OBVIOUS
  <2>. HIDE DEF D
  <2>. QED
    BY <2>3, <2>4, Notices, Zenon
<1>6. Answer(e) = own \o added
  BY Zenon DEF Answer
<1>7. n = 0 => ~held
  BY <1>2 DEF Noticed
<1>. HIDE DEF own, n
<1>4. /\ held => Len(added) > 0 /\ added[Len(added)] = b
      /\ ~held => added = <<>>
      /\ added \in Seq(D) /\ Len(added) \in Nat
      /\ Len(added) = 0 <=> ~held
  <2>1. a \in D /\ b \in D
    OBVIOUS
  <2>. HIDE DEF D, held, a, b
  <2>2. /\ <<a, b>> \in Seq(D) /\ Len(<<a, b>>) = 2 /\ <<a, b>>[2] = b
        /\ <<b>> \in Seq(D) /\ Len(<<b>>) = 1 /\ <<b>>[1] = b
        /\ <<>> \in Seq(D) /\ Len(<<>>) = 0
    BY <2>1
  <2>3. CASE held /\ e.stopped
    <3>1. added = <<a, b>>
      BY <2>3, Zenon
    <3>. HIDE DEF added
    <3>2. Len(added) = 2 /\ added[2] = b /\ added \in Seq(D)
      BY <2>2, <3>1, Zenon
    <3>. QED
      BY <2>3, <3>2
  <2>4. CASE held /\ ~e.stopped
    <3>1. added = <<b>>
      BY <2>4, Zenon
    <3>. HIDE DEF added
    <3>2. Len(added) = 1 /\ added[1] = b /\ added \in Seq(D)
      BY <2>2, <3>1, Zenon
    <3>. QED
      BY <2>4, <3>2
  <2>5. CASE ~held
    <3>1. added = <<>>
      BY <2>5, Zenon
    <3>. HIDE DEF added
    <3>. QED
      BY <2>2, <2>5, <3>1
  <2>. QED
    BY <2>3, <2>4, <2>5
<1>. HIDE DEF added, D
<1>8. /\ Answer(e) \in Seq(D)
      /\ DOMAIN Answer(e) = 1 .. n + Len(added)
      /\ Len(Answer(e)) = n + Len(added)
      /\ \A k \in 1 .. Len(added) : Answer(e)[n + k] = added[k]
  <2>1. /\ own \o added \in Seq(D)
        /\ Len(own \o added) = Len(own) + Len(added)
        /\ DOMAIN (own \o added) = 1 .. Len(own) + Len(added)
        /\ \A k \in 1 .. Len(added) : (own \o added)[Len(own) + k] = added[k]
    <3>1. own \in Seq(D) /\ added \in Seq(D)
      BY <1>3, <1>4, Zenon
    <3>. QED
      BY <3>1, Joined, Zenon
  <2>. QED
    BY <1>3, <1>6, <2>1, Zenon
<1>. HIDE DEF held
<1>9. IsFiniteSet(DOMAIN Answer(e))
  <2>1. n + Len(added) \in Nat
    BY <1>2, <1>4
  <2>. QED
    BY <1>8, <2>1, FS_Interval
<1>10. Answer(e) = <<>> <=> e.answer = <<>>
  <2>1. Answer(e) = <<>> <=> n + Len(added) = 0
    BY <1>8
  <2>. QED
    BY <1>2, <1>4, <1>7, <2>1
<1>11. \A i \in DOMAIN Answer(e) : Answer(e)[i].points \in Seq(STRING)
  BY <1>5, <1>8
<1>12. ASSUME held
       PROVE  \E i \in DOMAIN Answer(e) : Answer(e)[i] = NoticeOfResubmit
  <2>1. Len(added) \in 1 .. Len(added) /\ added[Len(added)] = b
    BY <1>4, <1>12
  <2>2. n + Len(added) \in DOMAIN Answer(e) /\ Answer(e)[n + Len(added)] = b
    BY <1>2, <1>8, <2>1
  <2>. QED
    BY <2>2
<1>. QED
  BY <1>9, <1>10, <1>11, <1>12 DEF held

\* What groundedness says: a share of the claims, less than all of them when a
\* claim is unsupported.
LEMMA GroundednessIsShare ==
    ASSUME NEW e \in Entries
    PROVE  /\ Groundedness(e) \in 0 .. Full
           /\ (/\ Answer(e) # <<>>
               /\ \E i \in Claims(Answer(e)) : ~Supported(Answer(e)[i], EvidenceText(e))) =>
                  Groundedness(e) < Full
<1>. DEFINE answer == Answer(e)
            claims == Claims(answer)
            supported == {i \in claims : Supported(answer[i], EvidenceText(e))}
<1>1. IsFiniteSet(claims) /\ supported \in SUBSET claims
  BY AnswerShape, FS_Subset DEF Claims
<1>2. Groundedness(e) =
        IF answer = <<>> THEN Full
        ELSE IF e.sources = {} THEN 0
        ELSE IF claims = {} THEN Full ELSE Share(Cardinality(supported), Cardinality(claims))
  BY Zenon DEF Groundedness
<1>. DEFINE bare == \E i \in claims : ~Supported(answer[i], EvidenceText(e))
<1>3. bare => supported # claims /\ claims # {}
  OBVIOUS
<1>. HIDE DEF answer, claims, supported, bare
<1>4. claims # {} =>
        /\ Share(Cardinality(supported), Cardinality(claims)) \in 0 .. Full
        /\ Share(Cardinality(supported), Cardinality(claims)) = Full <=> supported = claims
  BY <1>1, PartsShare
<1>5. Groundedness(e) \in 0 .. Full /\ (answer # <<>> /\ bare => Groundedness(e) < Full)
  <2>. DEFINE v == Share(Cardinality(supported), Cardinality(claims))
  <2>1. claims # {} => v \in 0 .. 60 /\ (bare => v # 60)
    BY <1>3, <1>4 DEF Full
  <2>2. Groundedness(e) = IF answer = <<>> THEN 60 ELSE IF e.sources = {} THEN 0
                          ELSE IF claims = {} THEN 60 ELSE v
    BY <1>2 DEF Full
  <2>. HIDE DEF v
  <2>3. CASE answer = <<>> \/ e.sources = {} \/ claims = {}
    BY <1>3, <2>2, <2>3 DEF Full
  <2>4. CASE ~(answer = <<>> \/ e.sources = {} \/ claims = {})
    <3>1. Groundedness(e) = v /\ claims # {}
      BY <2>2, <2>4, Zenon
    <3>2. v \in 0 .. 60 /\ (bare => v < 60)
      BY <2>1, <3>1
    <3>. QED
      BY <3>1, <3>2 DEF Full
  <2>. QED
    BY <2>3, <2>4
<1>. QED
  BY <1>5 DEF answer, claims, bare

\* What the risk says: a share of the factual claims.
LEMMA RiskIsShare ==
    ASSUME NEW e \in Entries
    PROVE  HallucinationRisk(e) \in 0 .. Full
<1>. DEFINE claims == FactualClaims(Answer(e))
            flagged == {i \in claims : \/ e.sources = {}
                                       \/ Hallucinated(Answer(e)[i], EvidenceText(e))}
<1>1. IsFiniteSet(claims) /\ flagged \in SUBSET claims
  BY AnswerShape, FS_Subset DEF FactualClaims
<1>2. HallucinationRisk(e) =
        IF claims = {} THEN 0 ELSE Share(Cardinality(flagged), Cardinality(claims))
  BY DEF HallucinationRisk
<1>. HIDE DEF claims, flagged
<1>. QED
  BY <1>1, <1>2, PartsShare DEF Full

\* Evidence is covered in part or all of it.
LEMMA CoverageIsShare ==
    ASSUME NEW e \in Entries
    PROVE  EvidenceCoverage(e) \in 0 .. Full
<1>. DEFINE snippets == { Snippet(src) : src \in e.sources }
            covered == { src \in e.sources : Covered(src.words, snippets) }
<1>1. IsFiniteSet(e.sources) /\ covered \in SUBSET e.sources
  BY EntriesAssumption
<1>2. EvidenceCoverage(e) =
        IF e.sources = {} THEN Full
        ELSE Share(Cardinality(covered), Cardinality(e.sources))
  BY DEF EvidenceCoverage
<1>. HIDE DEF covered
<1>. QED
  BY <1>1, <1>2, PartsShare DEF Full

\* The tools of a plan that is the expectation are all expected and all called.
LEMMA ToolsAreFull ==
    ASSUME NEW e \in Entries
    PROVE  ToolF1(ReportedTools(e), e.tools) = Full
<1>1. IsFiniteSet(e.tools) /\ Cardinality(e.tools) \in Nat
  BY EntriesAssumption, FS_CardinalityType
<1>2. e.tools \cup e.tools = e.tools /\ e.tools \cap e.tools = e.tools
  OBVIOUS
<1>3. ToolF1(e.tools, e.tools) =
        IF e.tools = {} THEN Full
        ELSE Share(2 * Cardinality(e.tools), Cardinality(e.tools) + Cardinality(e.tools))
  BY <1>2 DEF ToolF1
<1>4. e.tools # {} => Cardinality(e.tools) # 0
  BY <1>1, FS_EmptySet
<1>. DEFINE c == Cardinality(e.tools)
<1>. HIDE DEF c
<1>5. c \in Nat /\ c # 0 => Share(2 * c, c + c) = Full
  BY Shares
<1>. QED
  BY <1>1, <1>3, <1>4, <1>5 DEF ReportedTools, c

\* With the same answer and more evidence no claim loses its support and none
\* becomes a risk.
LEMMA MoreEvidence ==
    ASSUME NEW d \in Entries, NEW e \in Entries,
           Answer(d) = Answer(e), d.sources \subseteq e.sources
    PROVE  /\ Groundedness(d) <= Groundedness(e)
           /\ HallucinationRisk(e) <= HallucinationRisk(d)
<1>1. EvidenceText(d) \subseteq EvidenceText(e)
  BY DEF EvidenceText
<1>. DEFINE answer == Answer(e)
            claims == Claims(answer)
            supported(t) == {i \in claims : Supported(answer[i], t)}
<1>2. /\ IsFiniteSet(claims)
      /\ supported(EvidenceText(d)) \in SUBSET claims
      /\ supported(EvidenceText(e)) \in SUBSET claims
      /\ supported(EvidenceText(d)) \subseteq supported(EvidenceText(e))
  BY <1>1, AnswerShape, FS_Subset DEF Claims, Supported
<1>3. ASSUME NEW x \in {d, e}
      PROVE  Groundedness(x) =
               IF answer = <<>> THEN Full
               ELSE IF x.sources = {} THEN 0
               ELSE IF claims = {} THEN Full
               ELSE Share(Cardinality(supported(EvidenceText(x))), Cardinality(claims))
  BY Zenon DEF Groundedness
<1>4. Groundedness(d) <= Groundedness(e)
  <2>. DEFINE v(t) == Share(Cardinality(supported(t)), Cardinality(claims))
  <2>. HIDE DEF answer, claims, supported
  <2>1. claims # {} => v(EvidenceText(d)) <= v(EvidenceText(e))
    BY <1>2, PartsShare
  <2>2. Groundedness(d) \in 0 .. 60 /\ Groundedness(e) \in 0 .. 60
    BY GroundednessIsShare DEF Full
  <2>3. e.sources = {} => d.sources = {}
    OBVIOUS
  <2>4. \A x \in {d, e} : Groundedness(x) =
          IF answer = <<>> THEN 60 ELSE IF x.sources = {} THEN 0
          ELSE IF claims = {} THEN 60 ELSE v(EvidenceText(x))
    BY <1>3 DEF Full
  <2>. HIDE DEF v
  <2>5. CASE answer = <<>> \/ claims = {}
    BY <2>2, <2>3, <2>4, <2>5
  <2>6. CASE answer # <<>> /\ claims # {} /\ d.sources = {}
    <3>1. Groundedness(d) = 0
      BY <2>4, <2>6, Zenon
    <3>. QED
      BY <2>2, <3>1
  <2>7. CASE answer # <<>> /\ claims # {} /\ d.sources # {}
    <3>1. Groundedness(d) = v(EvidenceText(d)) /\ Groundedness(e) = v(EvidenceText(e))
      BY <2>3, <2>4, <2>7, Zenon
    <3>. QED
      BY <2>1, <2>7, <3>1, Zenon
  <2>. QED
    BY <2>5, <2>6, <2>7
<1>. DEFINE facts == FactualClaims(answer)
            flagged(x) == {i \in facts : \/ x.sources = {}
                                         \/ Hallucinated(answer[i], EvidenceText(x))}
<1>5. \A i \in facts : Hallucinated(answer[i], EvidenceText(e)) =>
                          Hallucinated(answer[i], EvidenceText(d))
  <2>. SUFFICES ASSUME NEW i \in facts, Hallucinated(answer[i], EvidenceText(e))
                PROVE  Hallucinated(answer[i], EvidenceText(d))
    OBVIOUS
  <2>. DEFINE points == answer[i].points
              missing(t) == {k \in DOMAIN points : points[k] \notin t}
  <2>1. points # <<>> /\ 2 * Cardinality(missing(EvidenceText(e))) >= Len(points)
    BY DEF Hallucinated
  <2>2. missing(EvidenceText(e)) \in SUBSET missing(EvidenceText(d))
    BY <1>1
  <2>3. points \in Seq(STRING)
    BY AnswerShape DEF FactualClaims
  <2>4. IsFiniteSet(DOMAIN points) /\ Len(points) \in Nat
    BY <2>3, FS_Interval
  <2>5. missing(EvidenceText(d)) \in SUBSET DOMAIN points
    OBVIOUS
  <2>6. IsFiniteSet(missing(EvidenceText(d)))
    BY <2>4, <2>5, FS_Subset
  <2>. HIDE DEF missing
  <2>7. /\ Cardinality(missing(EvidenceText(e))) \in Nat
        /\ Cardinality(missing(EvidenceText(d))) \in Nat
        /\ Cardinality(missing(EvidenceText(e))) <= Cardinality(missing(EvidenceText(d)))
    BY <2>2, <2>6, FS_Subset, FS_CardinalityType
  <2>8. 2 * Cardinality(missing(EvidenceText(d))) >= Len(points)
    BY <2>1, <2>4, <2>7
  <2>. QED
    BY <2>1, <2>8 DEF Hallucinated, missing
<1>6. IsFiniteSet(facts) /\ flagged(d) \in SUBSET facts /\ flagged(e) \in SUBSET flagged(d)
  BY <1>5, AnswerShape, FS_Subset DEF FactualClaims
<1>7. ASSUME NEW x \in {d, e}
      PROVE  HallucinationRisk(x) =
               IF facts = {} THEN 0 ELSE Share(Cardinality(flagged(x)), Cardinality(facts))
  BY DEF HallucinationRisk
<1>8. HallucinationRisk(e) <= HallucinationRisk(d)
  <2>. HIDE DEF facts, flagged
  <2>1. facts # {} =>
          Share(Cardinality(flagged(e)), Cardinality(facts))
            <= Share(Cardinality(flagged(d)), Cardinality(facts))
    BY <1>6, PartsShare
  <2>. QED
    BY <1>7, <2>1
<1>. QED
  BY <1>4, <1>8

-----------------------------------------------------------------------------
(* A run                                                                    *)

\* A result that is there is that of its line, the rows are two for each result
\* until a prompt fails, and a report is of the results it was made from.
RunInv ==
    /\ dataset \in Seq(Entries) /\ DOMAIN results = DOMAIN dataset
    /\ \A i \in DOMAIN dataset :
          /\ results[i].times \in Nat
          /\ results[i].times > 0 => results[i].metrics = Metrics(dataset[i])
    /\ phase \in {"loading", "running", "reported", "aborted"}
    /\ phase = "loading" => dataset = <<>>
    /\ phase # "aborted" => turns = 2 * Evaluated
    /\ phase = "aborted" => turns - 2 * Evaluated \in 0 .. 2
    /\ phase # "reported" => warnings = <<>>
    /\ phase = "reported" => warnings = IF Evaluated = 0 THEN <<>> ELSE SummaryWarnings

\* How often each line has been evaluated.
Times == [i \in DOMAIN dataset |-> results[i].times]

LEMMA EvaluatedCounts ==
    ASSUME RunInv
    PROVE  /\ IsFiniteSet(DOMAIN dataset) /\ Times \in [DOMAIN dataset -> Nat]
           /\ Evaluated = SumFunction(Times) /\ Evaluated \in Nat
<1>1. IsFiniteSet(DOMAIN dataset)
  <2>1. dataset \in Seq(Entries)
    BY Zenon DEF RunInv
  <2>2. DOMAIN dataset = 1 .. Len(dataset) /\ Len(dataset) \in Nat
    BY <2>1
  <2>3. 1 \in Int /\ Len(dataset) \in Int
    BY <2>2
  <2>. QED
    BY <2>2, <2>3, FS_Interval, Zenon
<1>2. Times \in [DOMAIN dataset -> Nat]
  BY DEF RunInv, Times
<1>3. Evaluated = SumFunction(Times)
  BY DEF Evaluated, Times
<1>. QED
  BY <1>1, <1>2, <1>3, SumsGrow

\* What a run has counted and will report is a matter of its lines and results.
LEMMA SameRun ==
    ASSUME dataset' = dataset, results' = results
    PROVE  Evaluated' = Evaluated /\ SummaryWarnings' = SummaryWarnings
BY DEF Evaluated, SummaryWarnings

\* Every step keeps it.
LEMMA StepRun ==
    ASSUME RunInv, Next
    PROVE  RunInv'
<1>n. Evaluated \in Nat
  BY EvaluatedCounts
<1>1. ASSUME NEW lines \in Seq(Entries), LoadDataset(lines) PROVE RunInv'
  <2>1. /\ dataset' = lines /\ phase' = "running" /\ phase = "loading"
        /\ results' = [i \in DOMAIN lines |-> [times |-> 0, metrics |-> NoMetrics]]
        /\ turns' = turns /\ warnings' = warnings
    BY <1>1 DEF LoadDataset
  <2>2. \A i \in DOMAIN dataset' : results'[i].times = 0
    BY <2>1
  <2>3. Evaluated' = 0
    <3>1. IsFiniteSet(DOMAIN lines)
      BY FS_Interval
    <3>. DEFINE f == [i \in DOMAIN lines |-> results'[i].times]
    <3>2. f \in [DOMAIN lines -> Nat] /\ \A i \in DOMAIN lines : f[i] = 0
      BY <2>1, <2>2
    <3>3. Evaluated' = SumFunction(f)
      BY <2>1 DEF Evaluated
    <3>. HIDE DEF f
    <3>. QED
      BY <3>1, <3>2, <3>3, SumOfZeros
  <2>4. Evaluated = 0
    <3>1. DOMAIN dataset = {}
      BY <2>1 DEF RunInv
    <3>2. \A i \in DOMAIN dataset : Times[i] = 0
      BY <3>1
    <3>. QED
      BY <3>2, EvaluatedCounts, SumOfZeros
  <2>. QED
    BY <2>1, <2>2, <2>3, <2>4 DEF RunInv
<1>2. CASE LoadFails
  BY <1>2, <1>n, SameRun DEF LoadFails, RunInv
<1>3. ASSUME NEW i \in DOMAIN dataset, EvaluatePrompt(i) PROVE RunInv'
  <2>1. /\ phase = "running" /\ phase' = phase /\ dataset' = dataset
        /\ turns' = turns + 2 /\ warnings' = warnings
        /\ results' = [results EXCEPT ![i] = [times |-> results[i].times + 1,
                                             metrics |-> Metrics(dataset[i])]]
    BY <1>3 DEF EvaluatePrompt
  <2>2. /\ DOMAIN results' = DOMAIN dataset
        /\ results'[i].times = results[i].times + 1
        /\ results'[i].metrics = Metrics(dataset[i])
        /\ \A j \in DOMAIN dataset \ {i} : results'[j] = results[j]
    BY <2>1 DEF RunInv
  <2>3. \A j \in DOMAIN dataset :
          /\ results'[j].times \in Nat
          /\ results'[j].times > 0 => results'[j].metrics = Metrics(dataset[j])
    <3>. SUFFICES ASSUME NEW j \in DOMAIN dataset
                  PROVE  /\ results'[j].times \in Nat
                         /\ results'[j].times > 0 => results'[j].metrics = Metrics(dataset[j])
      OBVIOUS
    <3>1. CASE j = i
      BY <2>2, <3>1 DEF RunInv
    <3>2. CASE j # i
      BY <2>2, <3>2 DEF RunInv
    <3>. QED
      BY <3>1, <3>2
  <2>4. Evaluated' = Evaluated + 1
    <3>. DEFINE h == [j \in DOMAIN dataset |-> results'[j].times]
    <3>1. h \in [DOMAIN dataset -> Nat]
      BY <2>3
    <3>2. h[i] = Times[i] + 1 /\ \A j \in DOMAIN dataset \ {i} : h[j] = Times[j]
      BY <2>2 DEF Times
    <3>3. Evaluated' = SumFunction(h)
      BY <2>1 DEF Evaluated
    <3>. HIDE DEF h
    <3>. QED
      BY <3>1, <3>2, <3>3, EvaluatedCounts, SumCounts
  <2>5. Metrics(dataset[i])' = Metrics(dataset'[i]) /\ dataset' \in Seq(Entries)
    BY <2>1 DEF RunInv, Metrics
  <2>. QED
    BY <1>n, <2>1, <2>2, <2>3, <2>4 DEF RunInv
<1>4. ASSUME NEW saved \in {0, 1, 2}, PromptFails(saved) PROVE RunInv'
  <2>1. Evaluated' = Evaluated
    BY <1>4, SameRun DEF PromptFails
  <2>2. turns' - 2 * Evaluated \in 0 .. 2
    BY <1>4, <1>n DEF PromptFails, RunInv
  <2>. QED
    BY <1>4, <2>1, <2>2 DEF PromptFails, RunInv
<1>5. CASE PrintSummary
  BY <1>5, SameRun DEF PrintSummary, RunInv
<1>6. <<>> \in Seq(Entries) /\ \A a, b \in Entries : <<a, b>> \in Seq(Entries)
  OBVIOUS
<1>. QED
  BY <1>1, <1>2, <1>3, <1>4, <1>5, <1>6, Zenon DEF Next

\* The run's invariant holds in every reachable state.
THEOREM RunHolds == Spec => []RunInv
<1>1. Init => RunInv
  <2>. SUFFICES ASSUME Init PROVE RunInv
    OBVIOUS
  <2>1. dataset = <<>> /\ results = <<>> /\ turns = 0
    BY DEF Init
  <2>2. Evaluated = 0
    <3>. DEFINE f == [i \in DOMAIN dataset |-> results[i].times]
    <3>1. DOMAIN dataset = {} /\ IsFiniteSet({})
      BY <2>1, FS_EmptySet
    <3>2. f \in [{} -> Nat] /\ \A i \in {} : f[i] = 0
      BY <3>1
    <3>3. Evaluated = SumFunction(f)
      BY DEF Evaluated
    <3>. HIDE DEF f
    <3>. QED
      BY <3>1, <3>2, <3>3, SumOfZeros
  <2>. QED
    BY <2>1, <2>2 DEF Init, RunInv
<1>2. RunInv /\ [Next]_vars => RunInv'
  <2>1. CASE UNCHANGED vars
    <3>1. Evaluated' = Evaluated /\ SummaryWarnings' = SummaryWarnings
      BY <2>1, SameRun DEF vars
    <3>. QED
      BY <2>1, <3>1 DEF RunInv, vars
  <2>. QED
    BY <2>1, StepRun
<1>. QED
  BY <1>1, <1>2, PTL DEF Spec

-----------------------------------------------------------------------------
(* What the scores and the summary say                                      *)

LEMMA ScoredResults ==
    ASSUME RunInv, NEW i \in Scored
    PROVE  /\ i \in DOMAIN dataset /\ dataset[i] \in Entries
           /\ results[i].times \in Nat /\ results[i].times > 0
           /\ results[i].metrics.groundedness = Groundedness(dataset[i])
           /\ results[i].metrics.evidence_coverage = EvidenceCoverage(dataset[i])
           /\ results[i].metrics.tool_f1 = ToolF1(ReportedTools(dataset[i]), dataset[i].tools)
           /\ results[i].metrics.approval_compliance = Complies(dataset[i])
           /\ results[i].metrics.hallucination_risk = HallucinationRisk(dataset[i])
<1>1. i \in DOMAIN dataset /\ dataset[i] \in Entries
  BY DEF RunInv, Scored
<1>2. results[i].metrics = Metrics(dataset[i])
  BY DEF RunInv, Scored
<1>. QED
  BY <1>1, <1>2 DEF RunInv, Scored, Metrics

\* Scores are between 0 and 1, and more evidence for the same reply is never
\* scored as worse (groundedness.py:53, hallucination_risk.py:57), for any
\* answers, claims and sources.
THEOREM ScoresMeanWhatTheyAverage == Spec => []ScoresAreSound
<1>1. RunInv => ScoresInRange
  <2>. SUFFICES ASSUME RunInv, NEW i \in Scored
                PROVE  {results[i].metrics.groundedness, results[i].metrics.evidence_coverage,
                        results[i].metrics.tool_f1,
                        results[i].metrics.hallucination_risk} \subseteq 0 .. Full
    BY DEF ScoresInRange
  <2>1. dataset[i] \in Entries
    BY ScoredResults
  <2>2. Full \in 0 .. Full
    BY DEF Full
  <2>. QED
    BY <2>1, <2>2, ScoredResults, GroundednessIsShare, CoverageIsShare, ToolsAreFull, RiskIsShare
<1>2. RunInv => MoreEvidenceNeverWorse
  <2>. SUFFICES ASSUME RunInv, NEW i \in Scored, NEW j \in Scored,
                       Answer(dataset[i]) = Answer(dataset[j]),
                       dataset[i].sources \subseteq dataset[j].sources
                PROVE  /\ results[i].metrics.groundedness <= results[j].metrics.groundedness
                       /\ results[j].metrics.hallucination_risk
                            <= results[i].metrics.hallucination_risk
    BY DEF MoreEvidenceNeverWorse
  <2>. QED
    BY ScoredResults, MoreEvidence
<1>. QED
  BY <1>1, <1>2, RunHolds, PTL DEF ScoresAreSound

\* A held prompt is never scored fully grounded by evidence without a word of the
\* notice's last sentence (chat_service.py:268, groundedness.py:139-176), however its
\* answer ends and whatever it says.
THEOREM HeldPromptsScoreLess == Spec => []NoticeCostsGroundedness
<1>1. RunInv => NoticeCostsGroundedness
  <2>. SUFFICES ASSUME RunInv, NEW i \in Scored, Noticed(dataset[i]),
                       NoticeOfResubmit.tokens \cap EvidenceText(dataset[i]) = {}
                PROVE  results[i].metrics.groundedness < Full
    BY DEF NoticeCostsGroundedness
  <2>. DEFINE e == dataset[i]
  <2>1. e \in Entries
    BY ScoredResults
  <2>2. PICK k \in DOMAIN Answer(e) : Answer(e)[k] = NoticeOfResubmit
    BY <2>1, AnswerShape
  <2>3. k \in Claims(Answer(e)) /\ ~Supported(Answer(e)[k], EvidenceText(e))
    <3>1. "long" # "tiny"
      OBVIOUS
    <3>. QED
      BY <2>2, <3>1, Notices, Zenon DEF Claims, Supported
  <2>4. Answer(e) # <<>>
    BY <2>1, AnswerShape DEF Noticed
  <2>. QED
    BY <2>1, <2>3, <2>4, GroundednessIsShare, ScoredResults
<1>. QED
  BY <1>1, RunHolds, PTL

\* Of so many results the passed are below nine tenths when the others are more
\* than one tenth.
LEMMA NineOfTen ==
    ASSUME NEW passed \in Nat, NEW wrong \in Nat, NEW n \in Nat, n = passed + wrong
    PROVE  10 * passed < 9 * n <=> 10 * wrong > n
OBVIOUS

\* Sequences put one behind the other are a sequence.
LEMMA JoinedSeqs ==
    ASSUME NEW D, NEW s \in Seq(D), NEW t \in Seq(D)
    PROVE  s \o t \in Seq(D)
OBVIOUS

\* A sequence with one more, which is the last.
LEMMA EndsSo ==
    ASSUME NEW D, NEW s \in Seq(D), NEW w \in D
    PROVE  /\ s \o <<w>> \in Seq(D) /\ Len(s \o <<w>>) > 0
           /\ (s \o <<w>>)[Len(s \o <<w>>)] = w
<1>1. <<w>> \in Seq(D) /\ Len(<<w>>) = 1 /\ <<w>>[1] = w
  OBVIOUS
<1>2. Len(s \o <<w>>) = Len(s) + 1 /\ Len(s) \in Nat
  OBVIOUS
<1>3. (s \o <<w>>)[Len(s) + 1] = w
  OBVIOUS
<1>. QED
  BY <1>1, <1>2, <1>3, JoinedSeqs

\* The last of the warnings is one of them, whatever comes before.
LEMMA EndIsThere ==
    ASSUME NEW D, NEW s \in Seq(D), NEW t \in Seq(D), Len(t) > 0
    PROVE  t[Len(t)] \in Range(s \o t)
<1>1. /\ Len(s) + Len(t) \in DOMAIN (s \o t)
      /\ (s \o t)[Len(s) + Len(t)] = t[Len(t)]
  OBVIOUS
<1>. QED
  BY <1>1, Zenon DEF Range

\* What is in a sequence is a member of the set it is over.
LEMMA RangeOfMembers ==
    ASSUME NEW D, NEW s \in Seq(D) PROVE Range(s) \subseteq D
<1>1. \A k \in DOMAIN s : s[k] \in D
  OBVIOUS
<1>. QED
  BY <1>1, Zenon DEF Range

\* A report is of the whole run (run_eval.py:312-338), and it warns of wrong flags
\* exactly when more than one prompt in ten got one (run_eval.py:401-417).
THEOREM SummariesAreSound == Spec => []SummaryIsSound
<1>1. RunInv => SummaryIsOfWholeRun
  BY DEF RunInv, SummaryIsOfWholeRun
<1>2. RunInv => WrongFlagsWarned
  <2>. SUFFICES ASSUME RunInv, phase = "reported"
                PROVE  "approval" \in Range(warnings) <=> 10 * WrongFlags > Evaluated
    BY DEF WrongFlagsWarned
  <2>. DEFINE f == [k \in DOMAIN dataset |-> IF results[k].metrics.approval_compliance
                                             THEN results[k].times ELSE 0]
              g == [k \in DOMAIN dataset |->
                      IF ApprovalFlag(dataset[k]) # dataset[k].requires_approval
                      THEN results[k].times ELSE 0]
  <2>1. /\ f \in [DOMAIN dataset -> Nat] /\ g \in [DOMAIN dataset -> Nat]
        /\ \A k \in DOMAIN dataset : Times[k] = f[k] + g[k]
    <3>. SUFFICES ASSUME NEW k \in DOMAIN dataset
                  PROVE  f[k] \in Nat /\ g[k] \in Nat /\ Times[k] = f[k] + g[k]
      OBVIOUS
    <3>1. Times[k] = results[k].times /\ results[k].times \in Nat
      BY DEF Times, RunInv
    <3>2. results[k].times > 0 =>
            (results[k].metrics.approval_compliance
                <=> ApprovalFlag(dataset[k]) = dataset[k].requires_approval)
      <4>. SUFFICES ASSUME results[k].times > 0
                    PROVE  results[k].metrics.approval_compliance
                             <=> ApprovalFlag(dataset[k]) = dataset[k].requires_approval
        OBVIOUS
      <4>1. k \in Scored
        BY DEF Scored
      <4>. QED
        BY <4>1, ScoredResults, Zenon DEF Complies
    <3>. DEFINE P == results[k].metrics.approval_compliance
                Q == ApprovalFlag(dataset[k]) # dataset[k].requires_approval
                t == results[k].times
    <3>3. /\ P => f[k] = t
          /\ ~P => f[k] = 0
          /\ Q => g[k] = t
          /\ ~Q => g[k] = 0
      BY Zenon
    <3>. HIDE DEF P, Q, t, f, g
    <3>4. t > 0 => (P <=> ~Q)
      BY <3>2, Zenon DEF P, Q, t
    <3>5. t \in Nat /\ Times[k] = t
      BY <3>1 DEF t
    <3>. QED
      BY <3>3, <3>4, <3>5
  <2>2. WrongFlags = SumFunction(g)
    BY Zenon DEF WrongFlags
  <2>. DEFINE passed == SumFunction(f)
              wrong == SumFunction(g)
  <2>3. passed \in Nat /\ wrong \in Nat /\ Evaluated = passed + wrong /\ Evaluated \in Nat
    <3>. HIDE DEF f, g
    <3>. QED
      BY <2>1, EvaluatedCounts, SumsAdd
  <2>. HIDE DEF passed, wrong
  <2>4. 10 * passed < 9 * Evaluated <=> 10 * wrong > Evaluated
    BY <2>3, NineOfTen
  <2>. DEFINE risk == SumFunction([k \in DOMAIN dataset |->
                         results[k].times * results[k].metrics.hallucination_risk])
              grounded == SumFunction([k \in DOMAIN dataset |->
                             results[k].times * results[k].metrics.groundedness])
              weak == Warn(10 * grounded < 7 * Full * Evaluated, "groundedness")
              again == weak \o Warn(10 * passed < 9 * Evaluated, "approval")
              first == Warn(10 * risk > 3 * Full * Evaluated, "risk")
              V == {"risk", "groundedness"}
              W == {"risk", "groundedness", "approval"}
  <2>5. CASE Evaluated = 0
    <3>1. warnings = <<>>
      BY <2>5, Zenon DEF RunInv
    <3>2. Range(<<>>) = {}
      <4>1. DOMAIN <<>> = {}
        OBVIOUS
      <4>. QED
        BY <4>1, Zenon DEF Range
    <3>3. ~(10 * wrong > Evaluated)
      BY <2>3, <2>5
    <3>. QED
      BY <2>2, <3>1, <3>2, <3>3, Zenon DEF wrong
  <2>6. CASE Evaluated # 0
    <3>1. warnings = first \o again \o again \o again
      <4>1. warnings = SummaryWarnings
        BY <2>6, Zenon DEF RunInv
      <4>. QED
        BY <4>1, Zenon DEF SummaryWarnings, passed
    <3>2. /\ first \in Seq(V) /\ weak \in Seq(V)
          /\ first \in Seq(W) /\ weak \in Seq(W)
      <4>1. /\ <<>> \in Seq(V) /\ <<"risk">> \in Seq(V) /\ <<"groundedness">> \in Seq(V)
            /\ <<>> \in Seq(W) /\ <<"risk">> \in Seq(W) /\ <<"groundedness">> \in Seq(W)
        OBVIOUS
      <4>. HIDE DEF V, W, risk, grounded
      <4>. QED
        BY <4>1, Zenon DEF Warn
    <3>3. CASE 10 * passed < 9 * Evaluated
      <4>1. Warn(10 * passed < 9 * Evaluated, "approval") = <<"approval">>
        BY <3>3, Zenon DEF Warn
      <4>. HIDE DEF first, weak
      <4>2. again \in Seq(W) /\ Len(again) > 0 /\ again[Len(again)] = "approval"
        <5>1. again = weak \o <<"approval">>
          BY <4>1, Zenon
        <5>. HIDE DEF again
        <5>2. "approval" \in W
          OBVIOUS
        <5>. HIDE DEF W
        <5>. QED
          BY <3>2, <5>1, <5>2, EndsSo, Zenon
      <4>. HIDE DEF again, W
      <4>3. (first \o again) \o again \in Seq(W)
        BY <3>2, <4>2, JoinedSeqs, Zenon
      <4>4. again[Len(again)] \in Range(((first \o again) \o again) \o again)
        BY <4>2, <4>3, EndIsThere, Zenon
      <4>5. "approval" \in Range(warnings)
        BY <3>1, <4>2, <4>4, Zenon
      <4>. QED
        BY <2>2, <2>4, <3>3, <4>5, Zenon DEF wrong
    <3>4. CASE ~(10 * passed < 9 * Evaluated)
      <4>1. Warn(10 * passed < 9 * Evaluated, "approval") = <<>>
        BY <3>4, Zenon DEF Warn
      <4>. HIDE DEF first, weak
      <4>2. again \in Seq(V)
        <5>1. again = weak \o <<>>
          BY <4>1, Zenon
        <5>. HIDE DEF again
        <5>2. <<>> \in Seq(V)
          OBVIOUS
        <5>. HIDE DEF V
        <5>. QED
          BY <3>2, <5>1, <5>2, JoinedSeqs, Zenon
      <4>. HIDE DEF again
      <4>3. "approval" \notin V
        OBVIOUS
      <4>. HIDE DEF V
      <4>4. ((first \o again) \o again) \o again \in Seq(V)
        BY <3>2, <4>2, JoinedSeqs, Zenon
      <4>5. "approval" \notin Range(warnings)
        BY <3>1, <4>3, <4>4, RangeOfMembers, Zenon
      <4>. QED
        BY <2>2, <2>4, <3>4, <4>5, Zenon DEF wrong
    <3>. QED
      BY <3>3, <3>4
  <2>. QED
    BY <2>5, <2>6
<1>. QED
  BY <1>1, <1>2, RunHolds, PTL DEF SummaryIsSound
=============================================================================
