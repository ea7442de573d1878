----------------------------- MODULE ProofLemmas -----------------------------
(***************************************************************************)
(* What the proofs of several components need to know of numbers, of       *)
(* finite sets and of queues.                                              *)
(***************************************************************************)
EXTENDS Integers, Sequences, FiniteSets, FiniteSetsExt, FiniteSetTheorems,
        WellFoundedInduction, SequenceTheorems, TLAPS

(* The order of the natural numbers as a set of pairs.                     *)
NatLess == {ss \in Nat \X Nat : ss[1] < ss[2]}

LEMMA NatLessWellFounded == IsWellFoundedOn(NatLess, Nat)
  BY NatLessThanWellFounded DEF OpToRel, NatLess

(* Every inhabited set of natural numbers has a least element.             *)
LEMMA LeastElement ==
  ASSUME NEW T \in SUBSET Nat, T # {}
  PROVE  \E x \in T : \A y \in T : x <= y
  <1>1. PICK x \in T : \A y \in T : ~ (<<y, x>> \in NatLess)
        BY NatLessWellFounded, WFMin
  <1>2. ASSUME NEW y \in T, ~ (x <= y) PROVE FALSE
    <2>1. <<y, x>> \in Nat \X Nat /\ y < x
          BY <1>2
    <2>2. QED
          BY <1>1, <2>1 DEF NatLess
  <1>3. QED
        BY <1>2

(* Induction, over a set that holds 0 and every successor.                 *)
LEMMA SetInduction ==
  ASSUME NEW S \in SUBSET Nat, 0 \in S, \A n \in S : n + 1 \in S
  PROVE  S = Nat
  <1>1. SUFFICES ASSUME S # Nat PROVE FALSE
        OBVIOUS
  <1>2. PICK x \in Nat \ S : \A y \in Nat \ S : x <= y
        BY <1>1, LeastElement
  <1>3. x # 0 /\ x - 1 \in Nat /\ x - 1 \in S
        BY <1>2
  <1>4. QED
        BY <1>3

(* Max chooses the greatest element of an inhabited set of 0 .. n.         *)
LEMMA MaxOfInterval ==
  ASSUME NEW n \in Nat, NEW T \in SUBSET (0 .. n), T # {}
  PROVE  Max(T) \in T /\ \A y \in T : y <= Max(T)
  <1> DEFINE D == {n - y : y \in T}
  <1>1. D \in SUBSET Nat /\ D # {}
    <2>1. PICK y \in T : TRUE
          OBVIOUS
    <2>2. n - y \in D
          OBVIOUS
    <2>3. \A z \in T : n - z \in Nat
          OBVIOUS
    <2>4. QED
          BY <2>2, <2>3
  <1>2. PICK d \in D : \A e \in D : d <= e
        BY <1>1, LeastElement
  <1>3. PICK x \in T : d = n - x
        BY <1>2
  <1>4. ASSUME NEW y \in T PROVE x >= y
    <2>1. n - y \in D
          OBVIOUS
    <2>2. x \in 0 .. n /\ y \in 0 .. n /\ n - x <= n - y
          BY <1>2, <1>3, <2>1
    <2>3. QED
          BY <2>2
  <1>5. Max(T) \in T /\ \A y \in T : Max(T) >= y
        BY <1>4 DEF Max
  <1>6. QED
        BY <1>5

(* The first n places, counted from 1 and from 0.                          *)
LEMMA CountOfPrefix ==
  ASSUME NEW n \in Nat
  PROVE  Cardinality(1 .. n) = n /\ Cardinality(0 .. (n - 1)) = n
  BY FS_Interval

(* Min of two numbers.                                                     *)
LEMMA MinOfTwo ==
  ASSUME NEW a \in Int, NEW b \in Int
  PROVE  Min({a, b}) = IF a <= b THEN a ELSE b
  <1> DEFINE m == IF a <= b THEN a ELSE b
  <1>1. m \in {a, b} /\ \A y \in {a, b} : m <= y
        OBVIOUS
  <1>2. \A x \in {a, b} : (\A y \in {a, b} : x <= y) => x = m
        OBVIOUS
  <1>3. QED
        BY <1>1, <1>2 DEF Min

-----------------------------------------------------------------------------
(* Head and Tail of a queue.                                               *)
LEMMA PopFront ==
  ASSUME NEW S, NEW s \in Seq(S), s # <<>>
  PROVE  /\ Tail(s) \in Seq(S)
         /\ Head(s) = s[1]
         /\ Head(s) \in S
         /\ Len(s) \in Nat \ {0}
         /\ Len(Tail(s)) = Len(s) - 1
         /\ DOMAIN s = 1 .. Len(s)
         /\ DOMAIN Tail(s) = 1 .. (Len(s) - 1)
         /\ \A i \in 1 .. (Len(s) - 1) : Tail(s)[i] = s[i + 1]
  OBVIOUS

(* The same of a queue given by its length n and its elements.             *)
LEMMA TailIs ==
  ASSUME NEW S, NEW s \in Seq(S), s # <<>>,
         NEW n \in Nat, Len(s) = n + 1, NEW r, r = [i \in 1 .. n |-> s[i + 1]]
  PROVE  r = Tail(s)
  <1>1. Tail(s) \in Seq(S) /\ Len(Tail(s)) = n /\ DOMAIN Tail(s) = 1 .. n
        BY PopFront
  <1>2. r \in [1 .. n -> S] /\ DOMAIN r = 1 .. n
        OBVIOUS
  <1>3. r \in Seq(S) /\ Len(r) = n
        BY <1>2
  <1>4. \A i \in 1 .. n : r[i] = Tail(s)[i]
        BY PopFront
  <1>5. QED
        BY <1>1, <1>3, <1>4, SeqEqual

(* What Append does to a queue.                                            *)
LEMMA PushBack ==
  ASSUME NEW S, NEW s \in Seq(S), NEW e \in S
  PROVE  /\ Append(s, e) \in Seq(S)
         /\ Append(s, e) # <<>>
         /\ Len(s) \in Nat
         /\ Len(Append(s, e)) = Len(s) + 1
         /\ DOMAIN s = 1 .. Len(s)
         /\ DOMAIN Append(s, e) = 1 .. (Len(s) + 1)
         /\ \A i \in 1 .. Len(s) : Append(s, e)[i] = s[i]
         /\ Append(s, e)[Len(s) + 1] = e
  OBVIOUS

LEMMA AppendIs ==
  ASSUME NEW S, NEW s \in Seq(S), NEW e \in S,
         NEW n \in Nat, n = Len(s) + 1, NEW r,
         r = [i \in 1 .. n |-> IF i = n THEN e ELSE s[i]]
  PROVE  r = Append(s, e)
  <1>1. Append(s, e) \in Seq(S) /\ Len(Append(s, e)) = n
        BY PushBack
  <1>2. r \in [1 .. n -> S]
        OBVIOUS
  <1>3. r \in Seq(S) /\ Len(r) = n
        BY <1>2
  <1>4. \A i \in 1 .. n : r[i] = Append(s, e)[i]
        BY PushBack
  <1>5. QED
        BY <1>1, <1>3, <1>4, SeqEqual

(* A queue without its first k elements.                                   *)
LEMMA DropFront ==
  ASSUME NEW S, NEW s \in Seq(S), NEW k \in 0 .. Len(s)
  PROVE  /\ SubSeq(s, k + 1, Len(s)) \in Seq(S)
         /\ Len(SubSeq(s, k + 1, Len(s))) = Len(s) - k
         /\ DOMAIN SubSeq(s, k + 1, Len(s)) = 1 .. (Len(s) - k)
         /\ \A i \in 1 .. (Len(s) - k) : SubSeq(s, k + 1, Len(s))[i] = s[i + k]
  OBVIOUS

(* A sequence with one element more, or one less, in front.                *)
LEMMA PushFront ==
  ASSUME NEW S, NEW s \in Seq(S), NEW e \in S
  PROVE  /\ <<e>> \o s \in Seq(S)
         /\ Len(s) \in Nat /\ Len(<<e>> \o s) = Len(s) + 1
         /\ DOMAIN s = 1 .. Len(s)
         /\ DOMAIN (<<e>> \o s) = 1 .. (Len(s) + 1)
         /\ (<<e>> \o s)[1] = e
         /\ \A i \in 1 .. Len(s) : (<<e>> \o s)[i + 1] = s[i]
         /\ \A i \in 2 .. (Len(s) + 1) : i - 1 \in 1 .. Len(s) /\ (<<e>> \o s)[i] = s[i - 1]
  OBVIOUS

LEMMA ConsIs ==
  ASSUME NEW S, NEW s \in Seq(S), NEW e \in S,
         NEW n \in Nat, n = Len(s) + 1, NEW r,
         r = [i \in 1 .. n |-> IF i = 1 THEN e ELSE s[i - 1]]
  PROVE  r = <<e>> \o s
  <1> DEFINE q == <<e>> \o s
  <1>1. /\ q \in Seq(S) /\ Len(q) = n /\ Len(s) \in Nat /\ DOMAIN s = 1 .. Len(s)
        /\ q[1] = e
        /\ \A i \in 2 .. n : i - 1 \in 1 .. Len(s) /\ q[i] = s[i - 1]
        BY PushFront
  <1> HIDE DEF q
  <1>2. \A i \in 1 .. n : i = 1 \/ i \in 2 .. n
        OBVIOUS
  <1>3. \A i \in 1 .. n : r[i] = q[i]
        BY <1>1, <1>2
  <1>4. \A i \in 1 .. n : (IF i = 1 THEN e ELSE s[i - 1]) \in S
        BY <1>1, <1>2
  <1>5. r \in [1 .. n -> S]
        BY <1>4
  <1>6. r \in Seq(S) /\ Len(r) = n
        BY <1>5
  <1>7. r = q
        BY <1>1, <1>3, <1>6, SeqEqual
  <1>8. QED
        BY <1>7 DEF q

LEMMA Joined ==
  ASSUME NEW S, NEW a \in Seq(S), NEW b \in Seq(S)
  PROVE  /\ a \o b \in Seq(S) /\ Len(a \o b) = Len(a) + Len(b)
         /\ \A j \in 1 .. (Len(a) + Len(b)) :
              (a \o b)[j] = IF j <= Len(a) THEN a[j] ELSE b[j - Len(a)]
  OBVIOUS

(* A queue holds no more different elements than it has places.            *)
LEMMA ElementsOfQueue ==
  ASSUME NEW S, NEW s \in Seq(S)
  PROVE  LET E == {s[i] : i \in DOMAIN s}
         IN  IsFiniteSet(E) /\ Cardinality(E) \in Nat /\ Cardinality(E) <= Len(s)
  <1> DEFINE E == {s[i] : i \in DOMAIN s}
             f == [i \in 1 .. Len(s) |-> s[i]]
  <1>1. DOMAIN s = 1 .. Len(s) /\ Len(s) \in Nat
        OBVIOUS
  <1>2. IsFiniteSet(1 .. Len(s)) /\ Cardinality(1 .. Len(s)) = Len(s)
        BY <1>1, FS_Interval
  <1>3. f \in Surjection(1 .. Len(s), E)
        BY <1>1 DEF Surjection
  <1>4. IsFiniteSet(E) /\ Cardinality(E) <= Cardinality(1 .. Len(s))
        BY <1>2, <1>3, FS_Surjection
  <1>5. QED
        BY <1>2, <1>4, FS_CardinalityType

(* The values a function takes on a finite set are no more than its        *)
(* arguments.                                                              *)
LEMMA ImageOfFinite ==
  ASSUME NEW A, NEW f, IsFiniteSet(A)
  PROVE  LET E == {f[a] : a \in A}
         IN  IsFiniteSet(E) /\ Cardinality(E) \in Nat /\ Cardinality(E) <= Cardinality(A)
  <1> DEFINE E == {f[a] : a \in A}
             g == [a \in A |-> f[a]]
  <1>1. g \in Surjection(A, E)
        BY DEF Surjection
  <1>2. QED
        BY <1>1, FS_Surjection, FS_CardinalityType

(* A number below twice the capacity, wrapped around once.                 *)
LEMMA WrapOnce ==
  ASSUME NEW C \in Nat \ {0}, NEW a \in 0 .. (2 * C - 1)
  PROVE  a % C = IF a < C THEN a ELSE a - C
  OBVIOUS

LEMMA WrapSum ==
  ASSUME NEW C \in Nat \ {0}, NEW F \in 0 .. (C - 1), NEW j \in 0 .. C
  PROVE  (F + j) % C = IF F + j < C THEN F + j ELSE F + j - C
  OBVIOUS

LEMMA WrapRange ==
  ASSUME NEW C \in Nat \ {0}, NEW a \in Nat
  PROVE  a % C \in 0 .. (C - 1)
  OBVIOUS

(* Of a set of numbers, at most k have fewer than k smaller ones in it.    *)
LEMMA LowestFew ==
  ASSUME NEW E \in SUBSET Int, IsFiniteSet(E), NEW k \in Nat
  PROVE  LET F == {i \in E : Cardinality({j \in E : j < i}) < k}
         IN  IsFiniteSet(F) /\ Cardinality(F) \in Nat /\ Cardinality(F) <= k
  <1> DEFINE below(i) == {j \in E : j < i}
             F == {i \in E : Cardinality(below(i)) < k}
             rank == [i \in F |-> Cardinality(below(i))]
  <1>1. ASSUME NEW i \in E
        PROVE  IsFiniteSet(below(i)) /\ Cardinality(below(i)) \in Nat
        BY FS_Subset, FS_CardinalityType
  <1>2. ASSUME NEW i \in E, NEW j \in E, i < j
        PROVE  Cardinality(below(i)) < Cardinality(below(j))
    <2>1. /\ \A x \in E : x < i => x < j
          /\ i < j /\ ~ (i < i)
          BY <1>2
    <2>a. below(i) \subseteq below(j) /\ i \in below(j) /\ i \notin below(i)
          BY <2>1
    <2>2. below(i) # below(j)
          BY <2>a
    <2>3. /\ Cardinality(below(i)) <= Cardinality(below(j))
          /\ Cardinality(below(j)) # Cardinality(below(i))
          BY <1>1, <2>a, <2>2, FS_Subset
    <2>4. QED
          BY <1>1, <2>3
  <1>3. \A i, j \in E : Cardinality(below(i)) = Cardinality(below(j)) => i = j
    <2> HIDE DEF below
    <2> SUFFICES ASSUME NEW i \in E, NEW j \in E, i # j
                 PROVE  Cardinality(below(i)) # Cardinality(below(j))
        OBVIOUS
    <2>1. CASE i < j
          BY <1>1, <1>2, <2>1
    <2>2. CASE j < i
          BY <1>1, <1>2, <2>2
    <2>3. QED
          BY <2>1, <2>2
  <1>4. \A i \in F : rank[i] \in 0 .. (k - 1)
    <2> HIDE DEF below
    <2>1. QED
          BY <1>1
  <1>5. rank \in Injection(F, 0 .. (k - 1))
    <2> HIDE DEF below
    <2>1. \A i, j \in F : rank[i] = rank[j] => i = j
          BY <1>3
    <2>2. rank \in [F -> 0 .. (k - 1)]
          BY <1>4
    <2> HIDE DEF rank, F
    <2>3. QED
          BY <2>1, <2>2 DEF Injection, IsInjective
  <1>6. IsFiniteSet(0 .. (k - 1)) /\ Cardinality(0 .. (k - 1)) = k
        BY FS_Interval
  <1>7. IsFiniteSet(F) /\ Cardinality(F) <= k
    <2> HIDE DEF F
    <2>1. QED
          BY <1>5, <1>6, FS_Injection
  <1>8. QED
        BY <1>7, FS_CardinalityType

-----------------------------------------------------------------------------
(* The tasks of a pool, each in one place: in the queue q, held by one of  *)
(* the workers hold (task[w] is the one w holds) or finished.              *)
Conserved(q, hold, task, finished, added) ==
  LET queued == {q[i] : i \in DOMAIN q}
      running == {task[w] : w \in hold}
  IN  /\ IsFiniteSet(hold) /\ IsFiniteSet(added)
      /\ added = queued \cup running \cup finished
      /\ Cardinality(added) = Len(q) + Cardinality(hold) + Cardinality(finished)
      /\ \A i, j \in DOMAIN q : q[i] = q[j] => i = j
      /\ \A v, w \in hold : task[v] = task[w] => v = w
      /\ \A i \in DOMAIN q : q[i] \notin finished /\ \A w \in hold : q[i] # task[w]
      /\ \A w \in hold : task[w] \notin finished

(* A new task is appended to the queue.                                    *)
LEMMA ConservedBySubmit ==
  ASSUME NEW S, NEW q \in Seq(S), NEW hold, NEW task, NEW finished, NEW added,
         Conserved(q, hold, task, finished, added),
         NEW x \in S, x \notin added
  PROVE  Conserved(Append(q, x), hold, task, finished, added \cup {x})
  <1> DEFINE r == Append(q, x)
             running == {task[w] : w \in hold}
  <1>1. /\ Len(q) \in Nat /\ Len(r) = Len(q) + 1
        /\ DOMAIN q = 1 .. Len(q) /\ DOMAIN r = 1 .. (Len(q) + 1)
        /\ \A i \in 1 .. Len(q) : r[i] = q[i]
        /\ r[Len(q) + 1] = x
        BY PushBack
  <1> HIDE DEF r
  <1>2. /\ IsFiniteSet(added \cup {x})
        /\ Cardinality(added \cup {x}) = Cardinality(added) + 1
        BY FS_AddElement DEF Conserved
  <1>3. /\ Cardinality(hold) \in Nat /\ Cardinality(finished) \in Nat
        BY FS_CardinalityType, FS_Subset DEF Conserved
  <1>4. {r[i] : i \in DOMAIN r} = {q[i] : i \in DOMAIN q} \cup {x}
        BY <1>1
  <1>5. /\ \A i \in DOMAIN q : q[i] # x
        /\ \A w \in hold : task[w] # x
        /\ x \notin finished
        BY DEF Conserved
  <1>6. \A i \in DOMAIN r : \/ i \in DOMAIN q /\ r[i] = q[i]
                            \/ i = Len(q) + 1 /\ r[i] = x
        BY <1>1
  <1>7. Cardinality(added \cup {x}) = Len(r) + Cardinality(hold) + Cardinality(finished)
        BY <1>1, <1>2, <1>3 DEF Conserved
  <1>8. \A i, j \in DOMAIN r : r[i] = r[j] => i = j
        BY <1>5, <1>6 DEF Conserved
  <1>9. \A i \in DOMAIN r : r[i] \notin finished /\ \A w \in hold : r[i] # task[w]
        BY <1>5, <1>6 DEF Conserved
  <1>10. Conserved(r, hold, task, finished, added \cup {x})
        BY <1>2, <1>4, <1>7, <1>8, <1>9 DEF Conserved
  <1>11. QED
        BY <1>10 DEF r

(* Worker w takes the front of the queue.                                  *)
LEMMA ConservedByStart ==
  ASSUME NEW S, NEW q \in Seq(S), q # <<>>,
         NEW hold, NEW task, NEW finished, NEW added,
         Conserved(q, hold, task, finished, added),
         NEW w, w \notin hold, NEW after,
         after[w] = Head(q), \A v \in hold : after[v] = task[v]
  PROVE  Conserved(Tail(q), hold \cup {w}, after, finished, added)
  <1> DEFINE r == Tail(q)
             more == hold \cup {w}
  <1>1. /\ Len(q) \in Nat \ {0} /\ Len(r) = Len(q) - 1
        /\ DOMAIN q = 1 .. Len(q) /\ DOMAIN r = 1 .. (Len(q) - 1)
        /\ \A i \in 1 .. (Len(q) - 1) : r[i] = q[i + 1]
        /\ Head(q) = q[1] /\ 1 \in DOMAIN q
        BY PopFront
  <1> HIDE DEF r
  <1>2. /\ IsFiniteSet(more) /\ Cardinality(more) = Cardinality(hold) + 1
        BY FS_AddElement DEF Conserved
  <1>3. /\ Cardinality(hold) \in Nat /\ Cardinality(finished) \in Nat
        BY FS_CardinalityType, FS_Subset DEF Conserved
  <1>4. \A i \in DOMAIN r : i \in Int /\ i + 1 \in DOMAIN q /\ r[i] = q[i + 1]
        BY <1>1
  <1>5. \A i \in DOMAIN r : r[i] # q[1]
    <2>1. \A i \in DOMAIN r : i + 1 # 1 /\ i + 1 \in DOMAIN q
          BY <1>1
    <2>2. QED
          BY <1>1, <1>4, <2>1 DEF Conserved
  <1>6. \A i, j \in DOMAIN r : r[i] = r[j] => i = j
    <2>1. \A i, j \in DOMAIN r : r[i] = r[j] => i + 1 = j + 1
          BY <1>4 DEF Conserved
    <2>2. QED
          BY <1>4, <2>1
  <1>7. {q[i] : i \in DOMAIN q} = {r[i] : i \in DOMAIN r} \cup {q[1]}
    <2>1. ASSUME NEW i \in DOMAIN q, i # 1
          PROVE  i - 1 \in DOMAIN r /\ r[i - 1] = q[i]
      <3>1. i - 1 \in 1 .. (Len(q) - 1) /\ (i - 1) + 1 = i
            BY <1>1, <2>1
      <3>2. QED
            BY <1>1, <3>1
    <2>2. ASSUME NEW i \in DOMAIN q
          PROVE  q[i] \in {r[j] : j \in DOMAIN r} \cup {q[1]}
      <3>1. CASE i = 1
            BY <3>1
      <3>2. CASE i # 1
        <4>1. i - 1 \in DOMAIN r /\ r[i - 1] = q[i]
              BY <2>1, <3>2
        <4>2. q[i] \in {r[j] : j \in DOMAIN r}
              BY <4>1
        <4>3. QED
              BY <4>2
      <3>3. QED
            BY <3>1, <3>2
    <2>3. QED
          BY <1>1, <1>4, <2>2
  <1>8. {after[v] : v \in more} = {task[v] : v \in hold} \cup {q[1]}
        BY <1>1
  <1>9. added = {r[i] : i \in DOMAIN r} \cup {after[v] : v \in more} \cup finished
        BY <1>7, <1>8 DEF Conserved
  <1>10. Cardinality(added) = Len(r) + Cardinality(more) + Cardinality(finished)
        BY <1>1, <1>2, <1>3 DEF Conserved
  <1>11. /\ \A u, v \in more : after[u] = after[v] => u = v
         /\ \A v \in more : after[v] \notin finished
        BY <1>1 DEF Conserved
  <1>12. \A i \in DOMAIN r : r[i] \notin finished /\ \A v \in more : r[i] # after[v]
        BY <1>1, <1>4, <1>5 DEF Conserved
  <1>13. Conserved(r, more, after, finished, added)
        BY <1>2, <1>6, <1>9, <1>10, <1>11, <1>12 DEF Conserved
  <1>14. QED
        BY <1>13 DEF r

(* Worker w finishes the task it holds.                                    *)
LEMMA ConservedByFinish ==
  ASSUME NEW q, NEW hold, NEW task, NEW finished, NEW added,
         Len(q) \in Nat,
         Conserved(q, hold, task, finished, added),
         NEW w \in hold, NEW after,
         \A v \in hold \ {w} : after[v] = task[v]
  PROVE  Conserved(q, hold \ {w}, after, finished \cup {task[w]}, added)
  <1> DEFINE less == hold \ {w}
             more == finished \cup {task[w]}
  <1>1. /\ IsFiniteSet(less) /\ Cardinality(less) = Cardinality(hold) - 1
        BY FS_RemoveElement DEF Conserved
  <1>2. IsFiniteSet(finished)
        BY FS_Subset DEF Conserved
  <1>3. Cardinality(more) = Cardinality(finished) + 1
        BY <1>2, FS_AddElement DEF Conserved
  <1>4. /\ Cardinality(hold) \in Nat /\ Cardinality(finished) \in Nat
        BY <1>2, FS_CardinalityType DEF Conserved
  <1>5. {task[v] : v \in hold} = {after[v] : v \in less} \cup {task[w]}
        OBVIOUS
  <1>6. added = {q[i] : i \in DOMAIN q} \cup {after[v] : v \in less} \cup more
        BY <1>5 DEF Conserved
  <1>7. Cardinality(added) = Len(q) + Cardinality(less) + Cardinality(more)
        BY <1>1, <1>3, <1>4 DEF Conserved
  <1>8. QED
        BY <1>1, <1>6, <1>7 DEF Conserved
=============================================================================
