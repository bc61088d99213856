----------------------------- MODULE WireProofs -----------------------------
(***************************************************************************)
(* What the decoders of Wire return, for any string: whatever is in a      *)
(* text, a message or a node made of it has fields of the right type, and  *)
(* no field contains the delimiter it was cut at.                          *)
(***************************************************************************)
EXTENDS Wire, ProcList, SequenceTheorems, FiniteSetTheorems, WellFoundedInduction, NaturalsInduction, TLAPS

\* A nonempty set of naturals has a least element.
LEMMA LeastElement ==
  ASSUME NEW S \in SUBSET Nat, S # {}
  PROVE  \E m \in S : \A k \in S : m <= k
<1>1. \E m \in S : \A k \in S : ~ (<<k, m>> \in OpToRel(<, Nat))
  BY WFMin, NatLessThanWellFounded
<1>2. PICK m \in S : \A k \in S : ~ (<<k, m>> \in OpToRel(<, Nat))
  BY <1>1
<1>3. \A k \in S : ~ (k < m)
  BY <1>2 DEF OpToRel
<1> QED
  BY <1>3

\* The lookup by pid returns a position that holds the pid, or 0 when no
\* position does.
LEMMA FindByPid ==
  ASSUME NEW S, NEW t \in Seq(S), NEW pid
  PROVE  LET i == proc_node_find_by_pid(t, pid)
         IN  \/ i = 0 /\ pid \notin Pids(t)
             \/ i \in 1..Len(t) /\ t[i].pid = pid
<1> DEFINE I == {k \in 1..Len(t) : t[k].pid = pid}
<1>1. proc_node_find_by_pid(t, pid) = IF I # {} THEN Min(I) ELSE 0
  BY DEF proc_node_find_by_pid, SelectInSeq
<1>2. CASE I = {}
  BY <1>1, <1>2 DEF Pids
<1>3. CASE I # {}
  <2>1. I \in SUBSET Nat
    OBVIOUS
  <2>2. \E m \in I : \A k \in I : m <= k
    BY <1>3, <2>1, LeastElement
  <2>3. Min(I) \in I
    BY <2>2 DEF Min
  <2> QED
    BY <1>1, <1>3, <2>3
<1> QED
  BY <1>2, <1>3

\* The subtree of a node ends: every node after it up to the end is deeper,
\* and the next one is not.
LEMMA SubtreeEnds ==
  ASSUME NEW S, NEW t \in Seq(S), \A k \in 1..Len(t) : t[k].depth \in Nat,
         NEW i \in 1..Len(t)
  PROVE  LET e == SubtreeEnd(t, i)
         IN  /\ e \in i..Len(t)
             /\ \A k \in (i+1)..e : t[k].depth > t[i].depth
             /\ e = Len(t) \/ t[e+1].depth <= t[i].depth
<1> DEFINE Shallow == {k \in (i+1)..Len(t) : t[k].depth <= t[i].depth}
           Ends(j) == /\ \A k \in (i+1)..j : t[k].depth > t[i].depth
                      /\ j = Len(t) \/ t[j+1].depth <= t[i].depth
<1>0. Len(t) \in Nat
  OBVIOUS
<1>1. \E j \in i..Len(t) : Ends(j)
  <2>1. CASE Shallow = {}
    <3>1. Ends(Len(t))
      BY <2>1, <1>0
    <3> QED
      BY <3>1, <1>0
  <2>2. CASE Shallow # {}
    <3>1. Shallow \in SUBSET Nat
      BY <1>0
    <3>2. PICK m \in Shallow : \A k \in Shallow : m <= k
      BY <2>2, <3>1, LeastElement
    <3>3. m - 1 \in i..Len(t) /\ m \in (i+1)..Len(t)
      BY <1>0
    <3>4. \A k \in (i+1)..(m-1) : t[k].depth > t[i].depth
      BY <3>2, <3>3, <1>0
    <3>5. Ends(m - 1)
      BY <3>3, <3>4, <1>0
    <3> QED
      BY <3>3, <3>5
  <2> QED
    BY <2>1, <2>2
<1>2. SubtreeEnd(t, i) = CHOOSE j \in i..Len(t) : Ends(j)
  BY DEF SubtreeEnd
<1> HIDE DEF Ends
<1>3. SubtreeEnd(t, i) \in i..Len(t) /\ Ends(SubtreeEnd(t, i))
  BY <1>1, <1>2
<1> QED
  BY <1>3 DEF Ends

\* The elements of a sequence with one inserted.
LEMMA Inserted ==
  ASSUME NEW S, NEW t \in Seq(S), NEW i \in 1..(Len(t) + 1), NEW x \in S
  PROVE  /\ InsertAt(t, i, x) \in Seq(S)
         /\ Len(InsertAt(t, i, x)) = Len(t) + 1
         /\ \A k \in 1..(Len(t) + 1) :
              InsertAt(t, i, x)[k] = IF k < i THEN t[k] ELSE IF k = i THEN x ELSE t[k-1]
<1> DEFINE a == SubSeq(t, 1, i-1)
           b == SubSeq(t, i, Len(t))
<1>0. Len(t) \in Nat
  OBVIOUS
<1>1. a \in Seq(S) /\ Len(a) = i-1 /\ \A k \in 1..(i-1) : a[k] = t[k]
  BY <1>0, SubSeqProperties
<1>2. b \in Seq(S) /\ Len(b) = Len(t)-i+1 /\ \A k \in 1..(Len(t)-i+1) : b[k] = t[i+k-1]
  BY <1>0, SubSeqProperties
<1>3. InsertAt(t, i, x) = a \o <<x>> \o b
  BY DEF InsertAt
<1> HIDE DEF a, b
<1>4. /\ a \o <<x>> \in Seq(S)
      /\ Len(a \o <<x>>) = i
      /\ \A k \in 1..i : (a \o <<x>>)[k] = IF k < i THEN t[k] ELSE x
  BY <1>1, <1>0
<1> DEFINE c == a \o <<x>>
<1> HIDE DEF c
<1>5. /\ c \o b \in Seq(S)
      /\ Len(c \o b) = Len(t) + 1
      /\ \A k \in 1..(Len(t) + 1) : (c \o b)[k] = IF k <= i THEN c[k] ELSE b[k-i]
  <2>1. c \in Seq(S) /\ Len(c) = i /\ Len(c) + Len(b) = Len(t) + 1
    BY <1>0, <1>2, <1>4 DEF c
  <2>2. /\ c \o b \in Seq(S)
        /\ Len(c \o b) = Len(c) + Len(b)
        /\ \A k \in 1..(Len(c) + Len(b)) : (c \o b)[k] = IF k <= Len(c) THEN c[k] ELSE b[k - Len(c)]
    BY <2>1, <1>2, ConcatProperties
  <2> QED
    BY <2>1, <2>2
<1>6. \A k \in (i+1)..(Len(t) + 1) : b[k-i] = t[k-1]
  BY <1>0, <1>2
<1> QED
  BY <1>0, <1>3, <1>4, <1>5, <1>6 DEF c

\* The elements of a sequence with one removed.
LEMMA Removed ==
  ASSUME NEW S, NEW t \in Seq(S), NEW i \in 1..Len(t)
  PROVE  /\ RemoveAt(t, i) \in Seq(S)
         /\ Len(RemoveAt(t, i)) = Len(t) - 1
         /\ \A k \in 1..(Len(t) - 1) :
              RemoveAt(t, i)[k] = IF k < i THEN t[k] ELSE t[k+1]
<1> DEFINE a == SubSeq(t, 1, i-1)
           b == SubSeq(t, i+1, Len(t))
<1>0. Len(t) \in Nat
  OBVIOUS
<1>1. a \in Seq(S) /\ Len(a) = i-1 /\ \A k \in 1..(i-1) : a[k] = t[k]
  BY <1>0, SubSeqProperties
<1>2. b \in Seq(S) /\ Len(b) = Len(t)-i /\ \A k \in 1..(Len(t)-i) : b[k] = t[i+k]
  BY <1>0, SubSeqProperties
<1>3. RemoveAt(t, i) = a \o b
  BY DEF RemoveAt
<1> HIDE DEF a, b
<1>4. /\ a \o b \in Seq(S)
      /\ Len(a \o b) = Len(t) - 1
      /\ \A k \in 1..(Len(t) - 1) : (a \o b)[k] = IF k <= i-1 THEN a[k] ELSE b[k-(i-1)]
  <2>1. Len(a) = i-1 /\ Len(a) + Len(b) = Len(t) - 1
    BY <1>0, <1>1, <1>2
  <2>2. /\ a \o b \in Seq(S)
        /\ Len(a \o b) = Len(a) + Len(b)
        /\ \A k \in 1..(Len(a) + Len(b)) : (a \o b)[k] = IF k <= Len(a) THEN a[k] ELSE b[k - Len(a)]
    BY <1>1, <1>2, ConcatProperties
  <2> QED
    BY <2>1, <2>2
<1>5. \A k \in i..(Len(t) - 1) : b[k-(i-1)] = t[k+1]
  BY <1>0, <1>2
<1>6. ASSUME NEW k \in 1..(Len(t) - 1)
      PROVE  (a \o b)[k] = IF k < i THEN t[k] ELSE t[k+1]
  <2>1. CASE k < i
    BY <1>0, <1>1, <1>4, <2>1
  <2>2. CASE k >= i
    <3>1. k \in i..(Len(t) - 1) /\ ~(k <= i-1) /\ ~(k < i)
      BY <1>0, <2>2
    <3>2. (a \o b)[k] = b[k-(i-1)]
      BY <1>4, <3>1
    <3> QED
      BY <1>5, <3>1, <3>2
  <2>3. k < i \/ k >= i
    BY <1>0
  <2> QED
    BY <2>1, <2>2, <2>3
<1> QED
  BY <1>3, <1>4, <1>6

-----------------------------------------------------------------------------

\* How many elements of S come before i.
Rank(S, i) == Cardinality({j \in S : j < i})

LEMMA Ranks ==
  ASSUME NEW S \in SUBSET Nat, IsFiniteSet(S)
  PROVE  /\ Cardinality(S) \in Nat
         /\ \A i \in S : Rank(S, i) \in 0..(Cardinality(S)-1)
         /\ \A i, j \in S : i < j => Rank(S, i) < Rank(S, j)
<1> DEFINE Below(i) == {j \in S : j < i}
           n == Cardinality(S)
<1>1. n \in Nat
  BY FS_CardinalityType
<1>2. \A i \in S : /\ IsFiniteSet(Below(i))
                   /\ Cardinality(Below(i)) \in 0..(n-1)
  <2> TAKE i \in S
  <2>1. Below(i) \in SUBSET S /\ Below(i) # S
    OBVIOUS
  <2>2. IsFiniteSet(Below(i)) /\ Cardinality(Below(i)) <= n /\ Cardinality(Below(i)) # n
    BY <2>1, FS_Subset
  <2>3. Cardinality(Below(i)) \in Nat
    BY <2>2, FS_CardinalityType
  <2> HIDE DEF Below, n
  <2> QED
    BY <1>1, <2>2, <2>3
<1>3. \A i, j \in S : i < j => Cardinality(Below(i)) < Cardinality(Below(j))
  <2> SUFFICES ASSUME NEW i \in S, NEW j \in S, i < j
               PROVE  Cardinality(Below(i)) < Cardinality(Below(j))
    OBVIOUS
  <2>1. i \in Nat /\ j \in Nat /\ \A x \in S : x \in Nat
    OBVIOUS
  <2>2. \A x \in Below(i) : x \in Below(j)
    BY <2>1
  <2>3. i \in Below(j) /\ i \notin Below(i)
    BY <2>1
  <2> HIDE DEF Below
  <2>4. Below(i) # Below(j)
    BY <2>3
  <2>5. Cardinality(Below(i)) <= Cardinality(Below(j)) /\ Cardinality(Below(i)) # Cardinality(Below(j))
    BY <1>2, <2>2, <2>4, FS_Subset
  <2> HIDE DEF n
  <2> QED
    BY <1>1, <1>2, <2>5
<1> QED
  BY <1>1, <1>2, <1>3 DEF Rank

\* The k-th smallest element of a finite set of naturals exists: the numbers of
\* smaller elements are 0, 1, ... up to the size of the set.
LEMMA NthExists ==
  ASSUME NEW S \in SUBSET Nat, IsFiniteSet(S), NEW k \in 1..Cardinality(S)
  PROVE  Nth(S, k) \in S /\ Rank(S, Nth(S, k)) = k - 1
<1> DEFINE n == Cardinality(S)
           f == [i \in S |-> Rank(S, i)]
<1>1. n \in Nat /\ \A i \in S : Rank(S, i) \in 0..(n-1)
  BY Ranks
<1>2. \A i, j \in S : f[i] = f[j] => i = j
  <2> SUFFICES ASSUME NEW i \in S, NEW j \in S, Rank(S, i) = Rank(S, j)
               PROVE  i = j
    OBVIOUS
  <2>1. i \in Nat /\ j \in Nat /\ Rank(S, i) \in Int
    BY <1>1
  <2>2. ~(i < j) /\ ~(j < i)
    BY <2>1, Ranks
  <2> QED
    BY <2>1, <2>2
<1>3. f \in Injection(S, 0..(n-1))
  <2>1. f \in [S -> 0..(n-1)]
    <3> HIDE DEF n
    <3> QED
      BY <1>1
  <2> HIDE DEF f
  <2> QED
    BY <1>2, <2>1 DEF Injection, IsInjective
<1>4. IsFiniteSet(0..(n-1)) /\ Cardinality(0..(n-1)) = n
  <2> HIDE DEF n
  <2> QED
    BY <1>1, FS_Interval
<1>5. f \in Surjection(S, 0..(n-1))
  BY <1>3, <1>4, FS_Injection
<1>6. \E i \in S : f[i] = k - 1
  <2>1. k - 1 \in 0..(n-1)
    BY <1>1
  <2> HIDE DEF f, n
  <2> QED
    BY <1>5, <2>1 DEF Surjection
<1>7. \E i \in S : Cardinality({j \in S : j < i}) = k - 1
  BY <1>6 DEF Rank
<1> QED
  BY <1>7 DEF Nth, Rank

\* An element of S is the one after those that come before it.
LEMMA NthIs ==
  ASSUME NEW S \in SUBSET Nat, IsFiniteSet(S), NEW i \in S
  PROVE  /\ Rank(S, i) + 1 \in 1..Cardinality(S)
         /\ Nth(S, Rank(S, i) + 1) = i
<1> DEFINE k == Rank(S, i) + 1
           m == Nth(S, k)
<1>1. Rank(S, i) \in Nat /\ k \in 1..Cardinality(S) /\ k - 1 = Rank(S, i)
  BY Ranks
<1>2. m \in S /\ Rank(S, m) = Rank(S, i)
  BY <1>1, NthExists
<1>3. ~(m < i) /\ ~(i < m)
  <2> HIDE DEF m
  <2> SUFFICES ASSUME m < i \/ i < m PROVE FALSE
    OBVIOUS
  <2>1. Rank(S, m) < Rank(S, i) \/ Rank(S, i) < Rank(S, m)
    BY <1>2, Ranks
  <2> QED
    BY <1>1, <1>2, <2>1
<1>4. m \in Nat /\ i \in Nat
  BY <1>2
<1>5. m = i
  <2> HIDE DEF m
  <2> QED
    BY <1>3, <1>4
<1> QED
  BY <1>1, <1>5

\* The token that starts at position i ends: there is a last position before
\* the next delimiter or the end of the string.
LEMMA TokenEnds ==
  ASSUME NEW str \in Str, NEW delim, NEW i \in TokenStarts(str, delim)
  PROVE  LET e == TokenEnd(str, delim, i)
         IN  /\ e \in i..Len(str) /\ \A k \in i..e : str[k] # delim
             /\ e = Len(str) \/ str[e+1] = delim
<1> DEFINE Delims == {k \in i..Len(str) : str[k] = delim}
           Ends(j) == /\ \A k \in i..j : str[k] # delim
                      /\ j = Len(str) \/ str[j+1] = delim
<1>1. Len(str) \in Nat /\ i \in 1..Len(str) /\ str[i] # delim
  BY DEF Str, TokenStarts
<1>2. \E j \in i..Len(str) : Ends(j)
  <2>1. CASE Delims = {}
    <3>1. Len(str) \in i..Len(str) /\ Ends(Len(str))
      BY <1>1, <2>1
    <3> QED
      BY <3>1
  <2>2. CASE Delims # {}
    <3>1. Delims \in SUBSET Nat
      BY <1>1
    <3>2. PICK m \in Delims : \A k \in Delims : m <= k
      BY <2>2, <3>1, LeastElement
    <3>3. m \in i..Len(str) /\ str[m] = delim /\ m # i
      BY <1>1
    <3>4. m - 1 \in i..Len(str) /\ (m - 1) + 1 = m
      BY <1>1, <3>3
    <3>5. \A k \in i..(m-1) : str[k] # delim
      BY <1>1, <3>2, <3>3
    <3>6. Ends(m - 1)
      BY <3>3, <3>4, <3>5
    <3> QED
      BY <3>4, <3>6
  <2> QED
    BY <2>1, <2>2
<1>3. TokenEnd(str, delim, i) = CHOOSE j \in i..Len(str) : Ends(j)
  BY DEF TokenEnd
<1> HIDE DEF Ends
<1>4. TokenEnd(str, delim, i) \in i..Len(str) /\ Ends(TokenEnd(str, delim, i))
  BY <1>2, <1>3
<1> QED
  BY <1>4 DEF Ends

LEMMA TokenEndIs ==
  ASSUME NEW str \in Str, NEW delim, NEW i \in Nat, NEW e \in i..Len(str),
         \A k \in i..e : str[k] # delim, e = Len(str) \/ str[e+1] = delim
  PROVE  TokenEnd(str, delim, i) = e
<1> DEFINE Ends(j) == /\ \A k \in i..j : str[k] # delim
                      /\ j = Len(str) \/ str[j+1] = delim
<1>1. Len(str) \in Nat /\ Ends(e)
  BY DEF Str
<1>2. ASSUME NEW j \in i..Len(str), Ends(j) PROVE j = e
  <2>1. CASE j < e
    <3>1. j + 1 \in i..e /\ j # Len(str)
      BY <1>1, <2>1
    <3>2. str[j+1] = delim /\ str[j+1] # delim
      BY <1>2, <3>1
    <3> QED
      BY <3>2
  <2>2. CASE e < j
    <3>1. e + 1 \in i..j /\ e # Len(str)
      BY <1>1, <2>2
    <3>2. str[e+1] = delim /\ str[e+1] # delim
      BY <1>2, <3>1
    <3> QED
      BY <3>2
  <2>3. j \in Int /\ e \in Int
    BY <1>1
  <2> QED
    BY <2>1, <2>2, <2>3
<1>3. TokenEnd(str, delim, i) = CHOOSE j \in i..Len(str) : Ends(j)
  BY DEF TokenEnd
<1> HIDE DEF Ends
<1> QED
  BY <1>1, <1>2, <1>3

\* A token is a nonempty string of characters of str, none of them a delimiter.
IsToken(token, str, delim) ==
  /\ token \in Str
  /\ Len(token) > 0
  /\ \A c \in 1..Len(token) : token[c] # delim /\ \E i \in 1..Len(str) : token[c] = str[i]

LEMMA Tokens ==
  ASSUME NEW str \in Str, NEW delim
  PROVE  /\ Len(tokenize(str, delim)) \in Nat
         /\ \A k \in 1..Len(tokenize(str, delim)) : IsToken(tokenize(str, delim)[k], str, delim)
<1> DEFINE starts == TokenStarts(str, delim)
           n == Cardinality(starts)
           Token(k) == SubSeq(str, Nth(starts, k), TokenEnd(str, delim, Nth(starts, k)))
<1>1. Len(str) \in Nat /\ \A i \in 1..Len(str) : str[i] \in Atom
  BY DEF Str
<1>2. starts \in SUBSET (1..Len(str)) /\ starts \in SUBSET Nat
  BY <1>1 DEF TokenStarts
<1>3. IsFiniteSet(starts) /\ n \in Nat
  <2>1. IsFiniteSet(1..Len(str))
    BY <1>1, FS_Interval
  <2> QED
    BY <1>2, <2>1, FS_Subset, FS_CardinalityType
<1>4. ASSUME NEW k \in 1..n  PROVE  IsToken(Token(k), str, delim)
  <2> DEFINE i == Nth(starts, k)
             e == TokenEnd(str, delim, i)
  <2>1. i \in starts
    BY <1>2, <1>3, NthExists
  <2>2. e \in i..Len(str) /\ \A c \in i..e : str[c] # delim
    BY <2>1, TokenEnds
  <2>3. i \in 1..Len(str)
    BY <1>2, <2>1
  <2> HIDE DEF i, e
  <2>4. /\ i \in Int /\ e \in Int /\ i <= e
        /\ \A c \in i..e : c \in 1..Len(str) /\ str[c] \in Atom
    BY <1>1, <2>2, <2>3
  <2>5. /\ SubSeq(str, i, e) \in Seq(Atom)
        /\ Len(SubSeq(str, i, e)) = e-i+1
        /\ \A c \in 1..(e-i+1) : SubSeq(str, i, e)[c] = str[i+c-1]
    BY <2>4, SubSeqProperties
  <2>6. ASSUME NEW c \in 1..(e-i+1)
        PROVE  SubSeq(str, i, e)[c] # delim /\ \E j \in 1..Len(str) : SubSeq(str, i, e)[c] = str[j]
    <3>1. i+c-1 \in i..e
      BY <2>4
    <3> QED
      BY <2>2, <2>4, <2>5, <3>1
  <2>7. SubSeq(str, i, e) \in Str /\ Len(SubSeq(str, i, e)) = e-i+1 /\ e-i+1 > 0
    BY <2>4, <2>5 DEF Str
  <2>8. IsToken(SubSeq(str, i, e), str, delim)
    BY <2>6, <2>7 DEF IsToken
  <2> QED
    BY <2>8 DEF i, e
<1>5. tokenize(str, delim) = [k \in 1..n |-> Token(k)]
  BY DEF tokenize
<1> HIDE DEF n, Token
<1> QED
  BY <1>3, <1>4, <1>5

-----------------------------------------------------------------------------
(***************************************************************************)
(* What tokenize() makes of the texts the programs write.                  *)
(***************************************************************************)
LEMMA Starts ==
  ASSUME NEW str \in Str, NEW delim
  PROVE  /\ Len(str) \in Nat /\ IsFiniteSet(TokenStarts(str, delim))
         /\ Cardinality(TokenStarts(str, delim)) \in Nat
         /\ TokenStarts(str, delim) \in SUBSET (1..Len(str))
         /\ TokenStarts(str, delim) \in SUBSET Nat
<1>1. Len(str) \in Nat
  BY DEF Str
<1>2. TokenStarts(str, delim) \in SUBSET (1..Len(str))
  BY DEF TokenStarts
<1>3. IsFiniteSet(1..Len(str))
  BY <1>1, FS_Interval
<1> QED
  BY <1>1, <1>2, <1>3, FS_Subset, FS_CardinalityType

\* One more start before those of the rest.
LEMMA OneMore ==
  ASSUME NEW S \in SUBSET Nat, IsFiniteSet(S), 0 \notin S
  PROVE  Cardinality({1} \union {i + 2 : i \in S}) = Cardinality(S) + 1
<1> DEFINE T == {i + 2 : i \in S}
           f == [i \in S |-> i + 2]
<1>1. f \in Bijection(S, T)
  BY DEF Bijection, Injection, Surjection, IsInjective
<1>2. IsFiniteSet(T) /\ Cardinality(T) = Cardinality(S)
  BY <1>1, FS_Bijection DEF ExistsBijection
<1>3. 1 \notin T
  OBVIOUS
<1> HIDE DEF T
<1>4. Cardinality(T \union {1}) = Cardinality(S) + 1
  BY <1>2, <1>3, FS_AddElement
<1>5. T \union {1} = {1} \union T
  OBVIOUS
<1> QED
  BY <1>4, <1>5 DEF T

\* A field of one character and the delimiter after it are cut off.
LEMMA FirstField ==
  ASSUME NEW a \in Atom, NEW d \in Atom, a # d, NEW r \in Str
  PROVE  LET t == tokenize(<<a, d>> \o r, d)
         IN  /\ Len(t) = Len(tokenize(r, d)) + 1
             /\ t[1] = <<a>>
             /\ \A k \in 1..Len(tokenize(r, d)) : t[k + 1] = tokenize(r, d)[k]
<1> DEFINE w == <<a, d>> \o r
           S == TokenStarts(r, d)
           T == TokenStarts(w, d)
           n == Cardinality(S)
           Field(str, starts, k) == SubSeq(str, Nth(starts, k), TokenEnd(str, d, Nth(starts, k)))
<1>1. /\ Len(r) \in Nat /\ IsFiniteSet(S) /\ n \in Nat
      /\ S \in SUBSET (1..Len(r)) /\ S \in SUBSET Nat
  BY Starts
<1>2. /\ w \in Str /\ Len(w) = Len(r) + 2 /\ w[1] = a /\ w[2] = d
      /\ \A k \in 1..Len(r) : w[k+2] = r[k]
  <2>1. <<a, d>> \in Seq(Atom) /\ Len(<<a, d>>) = 2 /\ <<a, d>>[1] = a /\ <<a, d>>[2] = d
    OBVIOUS
  <2> HIDE DEF Atom
  <2> QED
    BY <1>1, <2>1, ConcatProperties DEF Str
<1>3. T = {1} \union {i + 2 : i \in S}
  <2>1. \A i \in T : i \in 1..Len(w) /\ w[i] # d /\ (i = 1 \/ w[i-1] = d)
    BY DEF TokenStarts
  <2>2. \A i \in T : i = 1 \/ i - 2 \in S
    <3> SUFFICES ASSUME NEW i \in T, i # 1 PROVE i - 2 \in S
      OBVIOUS
    <3> HIDE DEF T, w
    <3>1. i \in 3..Len(w) /\ i - 2 \in 1..Len(r)
      BY <1>1, <1>2, <2>1
    <3>2. w[i] = r[i-2]
      BY <1>1, <1>2, <3>1
    <3>3. i - 2 = 1 \/ (i - 3 \in 1..Len(r) /\ w[i-1] = r[i-3])
      <4>1. i # 3 => i - 3 \in 1..Len(r) /\ (i - 3) + 2 = i - 1
        BY <1>1, <3>1
      <4> QED
        BY <1>2, <3>1, <4>1
    <3>4. i - 2 = 1 \/ r[(i-2)-1] = d
      <4>1. (i-2) - 1 = i - 3
        BY <3>1
      <4> QED
        BY <2>1, <3>3, <4>1
    <3> QED
      BY <2>1, <3>1, <3>2, <3>4 DEF TokenStarts
  <2>3. 1 \in T
    BY <1>1, <1>2 DEF TokenStarts
  <2>4. \A i \in S : i + 2 \in T
    <3> SUFFICES ASSUME NEW i \in S PROVE i + 2 \in T
      OBVIOUS
    <3>1. i \in 1..Len(r) /\ r[i] # d /\ (i = 1 \/ r[i-1] = d)
      BY DEF TokenStarts
    <3> HIDE DEF w
    <3>2. i + 2 \in 1..Len(w) /\ w[i+2] = r[i] /\ (i + 2) - 1 = i + 1
      BY <1>1, <1>2, <3>1
    <3>3. w[i+1] = d
      <4>1. CASE i = 1
        BY <1>2, <4>1
      <4>2. CASE i # 1
        <5>1. i - 1 \in 1..Len(r) /\ (i-1) + 2 = i + 1
          BY <1>1, <3>1, <4>2
        <5> QED
          BY <1>2, <3>1, <4>2, <5>1
      <4> QED
        BY <4>1, <4>2
    <3> QED
      BY <3>1, <3>2, <3>3 DEF TokenStarts
  <2> HIDE DEF T, S
  <2>5. \A i \in T : i \in Nat
    BY <2>1
  <2>6. \A i \in T : i = 1 \/ \E j \in S : i = j + 2
    <3> SUFFICES ASSUME NEW i \in T, i # 1 PROVE \E j \in S : i = j + 2
      OBVIOUS
    <3>1. i = (i - 2) + 2
      BY <2>5
    <3> QED
      BY <2>2, <3>1
  <2> QED
    BY <2>3, <2>4, <2>6
<1>4. Cardinality(T) = n + 1 /\ IsFiniteSet(T) /\ T \in SUBSET Nat
  <2>1. 0 \notin S
    BY <1>1
  <2> QED
    BY <1>1, <1>2, <1>3, <2>1, OneMore, Starts
<1>5. Nth(T, 1) = 1 /\ TokenEnd(w, d, 1) = 1
  <2>1. {j \in T : j < 1} = {}
    BY <1>2, Starts
  <2>2. Rank(T, 1) = 0 /\ 1 \in T
    BY <1>3, <2>1, FS_EmptySet DEF Rank
  <2>3. Nth(T, 1) = 1
    BY <1>4, <2>2, NthIs
  <2> HIDE DEF w
  <2>4. 1 \in 1..Len(w) /\ (\A k \in 1..1 : w[k] # d) /\ w[1+1] = d
    BY <1>1, <1>2
  <2>5. TokenEnd(w, d, 1) = 1
    BY <1>2, <2>4, TokenEndIs
  <2> QED
    BY <2>3, <2>5
<1>6. ASSUME NEW k \in 1..n
      PROVE  Field(w, T, k + 1) = Field(r, S, k)
  <2> DEFINE i == Nth(S, k)
             e == TokenEnd(r, d, i)
  <2>1. i \in S /\ Rank(S, i) = k - 1
    BY <1>1, NthExists
  <2>2. /\ e \in i..Len(r) /\ \A j \in i..e : r[j] # d
        /\ e = Len(r) \/ r[e+1] = d
    BY <2>1, TokenEnds
  <2> HIDE DEF i, e
  <2>3. i \in Nat /\ i \in 1..Len(r) /\ e \in Nat
    BY <1>1, <2>1, <2>2
  <2>4. Rank(T, i + 2) = Rank(S, i) + 1
    <3> DEFINE B == {j \in S : j < i}
    <3>1. B \in SUBSET Nat /\ IsFiniteSet(B) /\ 0 \notin B
      BY <1>1, FS_Subset
    <3>2. {j \in T : j < i + 2} = {1} \union {j + 2 : j \in B}
      <4> HIDE DEF T, S
      <4> QED
        BY <1>1, <1>3, <2>3
    <3> HIDE DEF B
    <3>3. Cardinality({1} \union {j + 2 : j \in B}) = Cardinality(B) + 1
      BY <3>1, OneMore
    <3> QED
      BY <3>2, <3>3 DEF Rank, B
  <2>5. i + 2 \in T
    BY <1>3, <2>1
  <2>6. Rank(T, i + 2) + 1 = k + 1
    BY <2>1, <2>4
  <2>7. Nth(T, k + 1) = i + 2
    BY <1>4, <2>5, <2>6, NthIs
  <2>8. TokenEnd(w, d, i + 2) = e + 2
    <3> HIDE DEF w
    <3>1. i + 2 \in Nat /\ e + 2 \in (i+2)..Len(w)
      BY <1>1, <1>2, <2>2, <2>3
    <3>2. ASSUME NEW j \in (i+2)..(e+2) PROVE w[j] # d
      <4>1. j - 2 \in i..e /\ j - 2 \in 1..Len(r) /\ (j - 2) + 2 = j
        BY <1>1, <2>2, <2>3
      <4> QED
        BY <1>2, <2>2, <4>1
    <3>3. e + 2 = Len(w) \/ w[(e+2)+1] = d
      <4>1. CASE e = Len(r)
        BY <1>2, <4>1
      <4>2. CASE e # Len(r)
        <5>1. e + 1 \in 1..Len(r) /\ (e+1) + 2 = (e+2) + 1
          BY <1>1, <2>2, <2>3, <4>2
        <5> QED
          BY <1>2, <2>2, <4>2, <5>1
      <4> QED
        BY <4>1, <4>2
    <3> DEFINE i2 == i + 2
               e2 == e + 2
    <3>4. i2 \in Nat /\ e2 \in i2..Len(w) /\ (\A j \in i2..e2 : w[j] # d) /\ (e2 = Len(w) \/ w[e2+1] = d)
      BY <3>1, <3>2, <3>3
    <3> HIDE DEF i2, e2
    <3>5. TokenEnd(w, d, i2) = e2
      BY <1>2, <3>4, TokenEndIs
    <3> QED
      BY <3>5 DEF i2, e2
  <2>9. SubSeq(w, i + 2, e + 2) = SubSeq(r, i, e)
    <3> HIDE DEF w
    <3>1. \A j \in i..e : j \in 1..Len(r) /\ r[j] \in Atom
      BY <1>1, <2>2, <2>3 DEF Str
    <3>2. ASSUME NEW j \in (i+2)..(e+2) PROVE w[j] \in Atom /\ w[j] = r[j-2]
      <4>1. j - 2 \in i..e /\ (j - 2) + 2 = j
        BY <2>3
      <4> QED
        BY <1>2, <3>1, <4>1
    <3> DEFINE u == SubSeq(w, i + 2, e + 2)
               v == SubSeq(r, i, e)
    <3> HIDE DEF Atom
    <3>3. /\ u \in Seq(Atom) /\ Len(u) = IF i+2 <= e+2 THEN (e+2)-(i+2)+1 ELSE 0
          /\ \A j \in 1..(e+2)-(i+2)+1 : u[j] = w[(i+2)+j-1]
      <4>1. i+2 \in Int /\ e+2 \in Int
        BY <2>3
      <4> QED
        BY <3>2, <4>1, SubSeqProperties
    <3>4. /\ v \in Seq(Atom) /\ Len(v) = IF i <= e THEN e-i+1 ELSE 0
          /\ \A j \in 1..e-i+1 : v[j] = r[i+j-1]
      <4>1. i \in Int /\ e \in Int
        BY <2>3
      <4> QED
        BY <3>1, <4>1, SubSeqProperties
    <3> HIDE DEF u, v
    <3>5. i <= e /\ (e+2)-(i+2)+1 = e-i+1
      BY <2>2, <2>3
    <3>6. Len(u) = e-i+1 /\ Len(v) = e-i+1
      BY <2>3, <3>3, <3>4, <3>5
    <3>7. ASSUME NEW j \in 1..e-i+1 PROVE u[j] = v[j]
      <4>1. (i+2)+j-1 \in (i+2)..(e+2) /\ ((i+2)+j-1) - 2 = i+j-1
        BY <2>3
      <4>2. u[j] = w[(i+2)+j-1] /\ v[j] = r[i+j-1]
        BY <3>3, <3>4, <3>5
      <4> QED
        BY <3>2, <4>1, <4>2
    <3>8. u = v
      BY <3>3, <3>4, <3>6, <3>7
    <3> QED
      BY <3>8 DEF u, v
  <2> QED
    BY <2>7, <2>8, <2>9 DEF i, e
<1>7. Field(w, T, 1) = <<a>>
  <2>1. SubSeq(w, 1, 1) = <<w[1]>>
    <3> HIDE DEF w
    <3> HIDE DEF Atom
    <3>1. \A j \in 1..1 : w[j] \in Atom
      BY <1>2
    <3>2. SubSeq(w, 1, 1) \in Seq(Atom) /\ Len(SubSeq(w, 1, 1)) = 1 /\ SubSeq(w, 1, 1)[1] = w[1]
      BY <3>1, SubSeqProperties
    <3>3. \A u \in Seq(Atom) : Len(u) = 1 => u = <<u[1]>>
      OBVIOUS
    <3> QED
      BY <3>2, <3>3
  <2> QED
    BY <1>2, <1>5, <2>1
<1>8. /\ tokenize(r, d) = [k \in 1..n |-> Field(r, S, k)]
      /\ tokenize(w, d) = [k \in 1..n+1 |-> Field(w, T, k)]
  BY <1>4 DEF tokenize
<1> HIDE DEF w, S, T, Field, n
<1>9. Len(tokenize(r, d)) = n /\ Len(tokenize(w, d)) = n + 1
  BY <1>1, <1>8
<1>10. tokenize(w, d)[1] = <<a>>
  <2>1. 1 \in 1..n+1
    BY <1>1
  <2> QED
    BY <1>7, <1>8, <2>1
<1>11. ASSUME NEW k \in 1..n PROVE tokenize(w, d)[k+1] = tokenize(r, d)[k]
  <2>1. k + 1 \in 1..n+1
    BY <1>1
  <2>2. tokenize(w, d)[k+1] = Field(w, T, k+1) /\ tokenize(r, d)[k] = Field(r, S, k)
    BY <1>8, <2>1
  <2> QED
    BY <1>6, <2>2
<1> QED
  BY <1>9, <1>10, <1>11 DEF w

\* The first field of a string that does not begin with a delimiter.
LEMMA Beginning ==
  ASSUME NEW str \in Str, NEW d, Len(str) > 0, str[1] # d
  PROVE  /\ Len(tokenize(str, d)) > 0
         /\ tokenize(str, d)[1] = SubSeq(str, 1, TokenEnd(str, d, 1))
         /\ 1 \in TokenStarts(str, d)
<1> DEFINE S == TokenStarts(str, d)
           n == Cardinality(S)
<1>1. 1 \in S /\ IsFiniteSet(S) /\ S \in SUBSET Nat /\ n \in Nat
  <2>1. 1 \in S
    BY Starts DEF TokenStarts
  <2> QED
    BY <2>1, Starts
<1>2. {j \in S : j < 1} = {}
  BY Starts
<1>3. Rank(S, 1) = 0
  BY <1>2, FS_EmptySet DEF Rank
<1>4. 1 \in 1..n /\ Nth(S, 1) = 1
  BY <1>1, <1>3, NthIs
<1>5. tokenize(str, d) =
        [k \in 1..n |-> SubSeq(str, Nth(S, k), TokenEnd(str, d, Nth(S, k)))]
  BY DEF tokenize
<1> HIDE DEF n
<1>6. Len(tokenize(str, d)) = n /\ n > 0
  BY <1>1, <1>4, <1>5
<1> HIDE DEF S
<1>7. tokenize(str, d)[1] = SubSeq(str, 1, TokenEnd(str, d, 1))
  BY <1>4, <1>5
<1> QED
  BY <1>1, <1>6, <1>7 DEF S

\* A string without a delimiter is one field.
LEMMA OneField ==
  ASSUME NEW str \in Str, NEW d, Len(str) > 0, \A i \in 1..Len(str) : str[i] # d
  PROVE  Len(tokenize(str, d)) = 1 /\ tokenize(str, d)[1] = str
<1>1. Len(str) \in Nat /\ str[1] # d
  BY DEF Str
<1>2. TokenStarts(str, d) = {1}
  <2>1. \A i \in 2..Len(str) : i - 1 \in 1..Len(str)
    BY <1>1
  <2> QED
    BY <1>1, <2>1 DEF TokenStarts
<1>3. Cardinality(TokenStarts(str, d)) = 1
  BY <1>2, FS_Singleton
<1>4. TokenEnd(str, d, 1) = Len(str)
  BY <1>1, TokenEndIs
<1>5. SubSeq(str, 1, Len(str)) = str
  BY DEF Str
<1>6. tokenize(str, d)[1] = str
  BY <1>1, <1>4, <1>5, Beginning
<1>7. Len(tokenize(str, d)) = 1
  <2>1. PICK n \in Nat : n = Cardinality(TokenStarts(str, d))
    BY Starts
  <2>2. Len(tokenize(str, d)) = n
    BY <2>1 DEF tokenize
  <2> QED
    BY <1>3, <2>1, <2>2
<1> QED
  BY <1>6, <1>7

\* The tokens of two fields of one character and a rest.
LEMMA TwoFields ==
  ASSUME NEW a \in Atom, NEW b \in Atom, NEW d \in Atom, d # a, d # b, NEW r \in Str,
         NEW head, head = <<a, d, b, d>>
  PROVE  /\ Len(tokenize(head \o r, d)) = Len(tokenize(r, d)) + 2
         /\ tokenize(head \o r, d)[1] = <<a>> /\ tokenize(head \o r, d)[2] = <<b>>
         /\ Len(tokenize(r, d)) = 1 => tokenize(head \o r, d)[3] = tokenize(r, d)[1]
<1>1. <<a, d>> \in Seq(Atom) /\ <<b, d>> \in Seq(Atom) /\ <<a, d, b, d>> = <<a, d>> \o <<b, d>>
  OBVIOUS
<1>2. r \in Seq(Atom)
  BY DEF Str
<1> DEFINE s == <<b, d>> \o r
<1>3. \A S : \A x, y, z \in Seq(S) : (x \o y) \o z = x \o (y \o z)
  OBVIOUS
<1>4. <<a, d, b, d>> \o r = <<a, d>> \o s /\ s \in Str
  <2>1. s \in Str
    BY <1>1, <1>2, ConcatProperties DEF Str
  <2> DEFINE x == <<a, d>>
             y == <<b, d>>
  <2>2. x \in Seq(Atom) /\ y \in Seq(Atom) /\ <<a, d, b, d>> = x \o y
    BY <1>1
  <2> HIDE DEF x, y
  <2>3. (x \o y) \o r = x \o (y \o r)
    BY <1>2, <1>3, <2>2
  <2> QED
    BY <2>1, <2>2, <2>3 DEF x, y
<1>5. /\ Len(tokenize(s, d)) = Len(tokenize(r, d)) + 1
      /\ tokenize(s, d)[1] = <<b>>
      /\ \A k \in 1..Len(tokenize(r, d)) : tokenize(s, d)[k+1] = tokenize(r, d)[k]
  BY FirstField
<1> HIDE DEF s
<1>6. /\ Len(tokenize(<<a, d>> \o s, d)) = Len(tokenize(s, d)) + 1
      /\ tokenize(<<a, d>> \o s, d)[1] = <<a>>
      /\ \A k \in 1..Len(tokenize(s, d)) : tokenize(<<a, d>> \o s, d)[k+1] = tokenize(s, d)[k]
  BY <1>4, FirstField
<1>7. Len(tokenize(r, d)) \in Nat
  BY Tokens
<1>8. 1 \in 1..Len(tokenize(s, d)) /\ (Len(tokenize(r, d)) = 1 => 2 \in 1..Len(tokenize(s, d)))
  <2>1. \A m \in Nat : 1 \in 1..(m + 1) /\ (m = 1 => 2 \in 1..(m + 1))
    OBVIOUS
  <2> QED
    BY <1>5, <1>7, <2>1
<1>9. tokenize(<<a, d>> \o s, d)[2] = <<b>>
  <2>1. 1 + 1 = 2
    OBVIOUS
  <2> QED
    BY <1>5, <1>6, <1>8, <2>1
<1>10. Len(tokenize(r, d)) = 1 => tokenize(<<a, d>> \o s, d)[3] = tokenize(r, d)[1]
  <2>1. 2 + 1 = 3 /\ 1 + 1 = 2 /\ 1 \in 1..1
    OBVIOUS
  <2> SUFFICES ASSUME Len(tokenize(r, d)) = 1
               PROVE  tokenize(<<a, d>> \o s, d)[3] = tokenize(r, d)[1]
    OBVIOUS
  <2>2. tokenize(s, d)[2] = tokenize(r, d)[1]
    BY <1>5, <2>1
  <2> QED
    BY <1>6, <1>8, <2>1, <2>2
<1>11. Len(tokenize(<<a, d>> \o s, d)) = Len(tokenize(r, d)) + 2
  BY <1>5, <1>6, <1>7
<1> QED
  BY <1>4, <1>6, <1>9, <1>10, <1>11

\* What message_read() makes of what message_send() has written.
LEMMA Sent ==
  ASSUME NEW sender \in Nat, NEW type \in MsgType, NEW content \in Str
  PROVE  MessageOf(MessageText(sender, type, content)) =
           IF Len(tokenize(content, Colon)) = 1
           THEN [sender |-> sender, type |-> type, content |-> tokenize(content, Colon)[1]]
           ELSE NULL
<1> DEFINE f == tokenize(content, Colon)
           head == <<sender, Colon, type, Colon>>
           t == tokenize(head \o content, Colon)
<1>1. /\ sender \in Atom /\ type \in Atom /\ Colon \in Atom /\ Colon # sender /\ Colon # type
      /\ Len(f) \in Nat
  BY AtomAssumption, Tokens DEF Atom
<1>2. /\ Len(t) = Len(f) + 2 /\ t[1] = <<sender>> /\ t[2] = <<type>>
      /\ Len(f) = 1 => t[3] = f[1]
  <2>1. head = <<sender, Colon, type, Colon>>
    OBVIOUS
  <2> HIDE DEF head, t, f
  <2>2. /\ Len(tokenize(head \o content, Colon)) = Len(tokenize(content, Colon)) + 2
        /\ tokenize(head \o content, Colon)[1] = <<sender>>
        /\ tokenize(head \o content, Colon)[2] = <<type>>
        /\ Len(tokenize(content, Colon)) = 1 =>
             tokenize(head \o content, Colon)[3] = tokenize(content, Colon)[1]
    <3>1. /\ sender \in Atom /\ type \in Atom /\ Colon \in Atom /\ Colon # sender /\ Colon # type
          /\ head = <<sender, Colon, type, Colon>>
      BY <1>1, <2>1
    <3> QED
      BY ONLY <3>1, TwoFields, content \in Str
  <2> QED
    BY <2>2 DEF t, f
<1>3. MessageOf(MessageText(sender, type, content)) =
        IF Len(t) = 3 THEN [sender |-> atol(t[1]), type |-> TypeOf(t[2]), content |-> t[3]] ELSE NULL
  BY DEF MessageOf, MessageText
<1>4. atol(<<sender>>) = sender /\ TypeOf(<<type>>) = type
  BY DEF atol, TypeOf
<1> HIDE DEF t, f
<1>5. Len(t) = 3 <=> Len(f) = 1
  <2>1. Len(t) = Len(f) + 2 /\ Len(f) \in Nat
    BY <1>1, <1>2
  <2>2. \A m, n : n \in Nat /\ m = n + 2 => (m = 3 <=> n = 1)
    OBVIOUS
  <2> QED
    BY <2>1, <2>2
<1> QED
  BY <1>2, <1>3, <1>4, <1>5 DEF f

\* What proc_node_fromstr() makes of what proc_node_tostr() has written.
LEMMA NodeSent ==
  ASSUME NEW pid \in Nat, NEW ppid \in Nat, NEW name \in Str
  PROVE  proc_node_fromstr(proc_node_tostr(pid, ppid, name)) =
           IF Len(tokenize(name, Semi)) = 1
           THEN [pid |-> pid, ppid |-> ppid, name |-> tokenize(name, Semi)[1]]
           ELSE NULL
<1> DEFINE f == tokenize(name, Semi)
           head == <<pid, Semi, ppid, Semi>>
           t == tokenize(head \o name, Semi)
<1>1. /\ pid \in Atom /\ ppid \in Atom /\ Semi \in Atom /\ Semi # pid /\ Semi # ppid
      /\ Len(f) \in Nat
  BY AtomAssumption, Tokens DEF Atom
<1>2. /\ Len(t) = Len(f) + 2 /\ t[1] = <<pid>> /\ t[2] = <<ppid>>
      /\ Len(f) = 1 => t[3] = f[1]
  <2>1. head = <<pid, Semi, ppid, Semi>>
    OBVIOUS
  <2> HIDE DEF head
  <2> QED
    <3>1. /\ pid \in Atom /\ ppid \in Atom /\ Semi \in Atom /\ Semi # pid /\ Semi # ppid
          /\ head = <<pid, Semi, ppid, Semi>>
      BY <1>1, <2>1
    <3> QED
      BY ONLY <3>1, TwoFields, name \in Str
<1>3. proc_node_fromstr(proc_node_tostr(pid, ppid, name)) =
        IF Len(t) = 3 THEN [pid |-> atol(t[1]), ppid |-> atol(t[2]), name |-> t[3]] ELSE NULL
  BY DEF proc_node_fromstr, proc_node_tostr
<1>4. atol(<<pid>>) = pid /\ atol(<<ppid>>) = ppid
  BY DEF atol
<1> HIDE DEF t, f
<1>5. Len(t) = 3 <=> Len(f) = 1
  <2>1. Len(t) = Len(f) + 2 /\ Len(f) \in Nat
    BY <1>1, <1>2
  <2>2. \A m, n : n \in Nat /\ m = n + 2 => (m = 3 <=> n = 1)
    OBVIOUS
  <2> QED
    BY <2>1, <2>2
<1> QED
  BY <1>2, <1>3, <1>4, <1>5 DEF f

\* A node that is carried by a message keeps its pids, whatever its name.
LEMMA NodeCarried ==
  ASSUME NEW sender \in Nat, NEW type \in MsgType,
         NEW pid \in Nat, NEW ppid \in Nat, NEW name \in Str,
         NEW msg, msg = MessageOf(MessageText(sender, type, proc_node_tostr(pid, ppid, name))), msg # NULL
  PROVE  /\ msg.type = type
         /\ \/ proc_node_fromstr(msg.content) = NULL
            \/ /\ proc_node_fromstr(msg.content).pid = pid
               /\ proc_node_fromstr(msg.content).ppid = ppid
<1> DEFINE head == <<pid, Semi, ppid, Semi>>
           c == head \o name
           e == TokenEnd(c, Colon, 1)
           rest == SubSeq(name, 1, e - 4)
<1>1. /\ head \in Seq(Atom) /\ Len(head) = 4 /\ \A i \in 1..4 : head[i] # Colon
      /\ name \in Seq(Atom) /\ Len(name) \in Nat
  <2>1. pid \in Atom /\ ppid \in Atom /\ Semi \in Atom
    BY DEF Atom
  <2>2. pid # Colon /\ ppid # Colon /\ Semi # Colon
    BY AtomAssumption
  <2>3. \A i \in 1..4 : i = 1 \/ i = 2 \/ i = 3 \/ i = 4
    OBVIOUS
  <2> QED
    BY <2>1, <2>2, <2>3 DEF Str
<1> HIDE DEF head
<1>2. /\ c \in Seq(Atom) /\ Len(c) = 4 + Len(name)
      /\ \A i \in 1..4 + Len(name) : c[i] = IF i <= 4 THEN head[i] ELSE name[i - 4]
  <2> HIDE DEF Atom
  <2>1. /\ c \in Seq(Atom) /\ Len(c) = Len(head) + Len(name)
        /\ \A i \in 1..Len(head) + Len(name) :
             c[i] = IF i <= Len(head) THEN head[i] ELSE name[i - Len(head)]
    BY <1>1, ConcatProperties
  <2> HIDE DEF c
  <2>2. Len(head) = 4
    BY <1>1
  <2> QED
    BY <2>1, <2>2
<1> HIDE DEF c
<1>3. \A i \in 1..4 : i \in 1..Len(c) /\ c[i] = head[i] /\ c[i] # Colon
  BY <1>1, <1>2, SMTT(30)
<1>4. c \in Str /\ Len(c) > 0 /\ c[1] # Colon
  BY <1>1, <1>2, <1>3 DEF Str
<1>5. 1 \in TokenStarts(c, Colon) /\ tokenize(c, Colon)[1] = SubSeq(c, 1, e)
  BY <1>4, Beginning
<1>6. e \in 1..Len(c) /\ (e = Len(c) \/ c[e+1] = Colon)
  BY <1>4, <1>5, TokenEnds
<1> HIDE DEF e
<1>7. e \in 4..Len(c)
  <2>1. e \in Int /\ Len(c) \in Int /\ Len(c) >= 4
    BY <1>1, <1>2, <1>6
  <2>2. ASSUME e < 4 PROVE FALSE
    <3>1. e + 1 \in 1..4 /\ e # Len(c)
      BY <1>6, <2>1, <2>2
    <3> QED
      BY <1>3, <1>6, <3>1
  <2> QED
    BY <1>6, <2>1, <2>2
<1>8. /\ rest \in Seq(Atom) /\ Len(rest) = e - 4
      /\ \A i \in 1..e-4 : rest[i] = name[i]
  <2> HIDE DEF Atom
  <2>1. e - 4 \in Int /\ \A i \in 1..e-4 : name[i] \in Atom
    BY <1>1, <1>2, <1>7
  <2>2. /\ SubSeq(name, 1, e-4) \in Seq(Atom)
        /\ Len(SubSeq(name, 1, e-4)) = IF 1 <= e-4 THEN (e-4)-1+1 ELSE 0
        /\ \A i \in 1..(e-4)-1+1 : SubSeq(name, 1, e-4)[i] = name[1+i-1]
    BY <2>1, SubSeqProperties
  <2>3. e \in Int /\ e >= 4 /\ (e-4)-1+1 = e-4
    BY <1>7
  <2>4. Len(rest) = e - 4
    BY <2>2, <2>3
  <2>5. \A i \in 1..e-4 : rest[i] = name[i]
    <3>1. \A i \in 1..e-4 : 1+i-1 = i
      BY <2>1
    <3> QED
      BY <2>2, <2>3, <3>1
  <2> QED
    BY <2>2, <2>4, <2>5
<1> HIDE DEF rest
<1>9. SubSeq(c, 1, e) = head \o rest
  <2> HIDE DEF Atom
  <2> DEFINE u == SubSeq(c, 1, e)
             v == head \o rest
  <2>1. e \in Int /\ e >= 4 /\ e <= 4 + Len(name) /\ Len(c) = 4 + Len(name)
    BY <1>1, <1>2, <1>7
  <2>2. \A i \in 1..e : i \in 1..Len(c) /\ c[i] \in Atom
    BY <1>2, <1>7
  <2>3. /\ u \in Seq(Atom) /\ Len(u) = e /\ \A i \in 1..e : u[i] = c[i]
    <3>1. /\ SubSeq(c, 1, e) \in Seq(Atom)
          /\ Len(SubSeq(c, 1, e)) = IF 1 <= e THEN e-1+1 ELSE 0
          /\ \A i \in 1..e-1+1 : SubSeq(c, 1, e)[i] = c[1+i-1]
      BY <2>1, <2>2, SubSeqProperties
    <3>2. e - 1 + 1 = e /\ 1 <= e /\ \A i \in 1..e : 1+i-1 = i
      BY <2>1
    <3> QED
      BY <3>1, <3>2
  <2>4. /\ v \in Seq(Atom) /\ Len(v) = 4 + (e-4)
        /\ \A i \in 1..4+(e-4) : v[i] = IF i <= 4 THEN head[i] ELSE rest[i-4]
    <3>1. head \in Seq(Atom) /\ rest \in Seq(Atom)
      BY <1>1, <1>8
    <3>2. /\ v \in Seq(Atom) /\ Len(v) = Len(head) + Len(rest)
          /\ \A i \in 1..Len(head) + Len(rest) :
               v[i] = IF i <= Len(head) THEN head[i] ELSE rest[i - Len(head)]
      BY <3>1, ConcatProperties
    <3> HIDE DEF v
    <3>3. Len(head) = 4 /\ Len(rest) = e - 4
      BY <1>1, <1>8
    <3> QED
      BY <3>2, <3>3
  <2> HIDE DEF u, v
  <2>5. 4 + (e-4) = e
    BY <2>1
  <2>6. ASSUME NEW i \in 1..e PROVE u[i] = v[i]
    <3>1. CASE i <= 4
      BY <1>2, <2>1, <2>3, <2>4, <2>5, <2>6, <3>1
    <3>2. CASE ~(i <= 4)
      <4>1. i - 4 \in 1..e-4 /\ i \in 1..4+Len(name) /\ i \in 1..4+(e-4)
        BY <2>1, <2>6, <3>2
      <4>2. c[i] = name[i-4] /\ v[i] = rest[i-4] /\ u[i] = c[i]
        BY <1>2, <2>3, <2>4, <2>6, <3>2, <4>1
      <4> QED
        BY <1>8, <4>1, <4>2
    <3> QED
      BY <3>1, <3>2
  <2>7. u = v
    BY <2>3, <2>4, <2>5, <2>6
  <2> QED
    BY <2>7 DEF u, v
<1>10. SubSeq(c, 1, e) = proc_node_tostr(pid, ppid, rest) /\ c = proc_node_tostr(pid, ppid, name)
  BY <1>9 DEF proc_node_tostr, head, c
<1>11. msg = [sender |-> sender, type |-> type, content |-> tokenize(c, Colon)[1]]
  BY <1>4, <1>10, Sent
<1>12. msg.type = type /\ msg.content = proc_node_tostr(pid, ppid, rest)
  <2>1. msg.type = type /\ msg.content = tokenize(c, Colon)[1]
    BY <1>11
  <2> QED
    BY <1>5, <1>10, <2>1
<1>13. rest \in Str
  BY <1>8 DEF Str
<1> QED
  BY <1>12, <1>13, NodeSent

-----------------------------------------------------------------------------
\* atol() of a token is a number.
LEMMA AtolIsNat ==
  ASSUME NEW field \in Str, Len(field) > 0
  PROVE  atol(field) \in Nat
<1>1. CASE field[1] \notin Nat
  BY <1>1 DEF atol
<1>2. CASE field[1] \in Nat /\ Len(field) > 1 /\ {field[1], field[2]} \subseteq Nat
  <2>1. field[2] \in Nat /\ atol(field) = 1000 * field[1] + field[2]
    BY <1>2 DEF atol
  <2> QED
    BY <1>2, <2>1
<1>3. CASE field[1] \in Nat /\ ~(Len(field) > 1 /\ {field[1], field[2]} \subseteq Nat)
  BY <1>3 DEF atol
<1> QED
  BY <1>1, <1>2, <1>3

\* A message that could be decoded has a content without ':' whose characters
\* were in the text.
LEMMA Decoded ==
  ASSUME NEW text \in Str
  PROVE  \/ MessageOf(text) = NULL
         \/ /\ MessageOf(text) \in Message
            /\ IsToken(MessageOf(text).content, text, Colon)
<1> DEFINE fields == tokenize(text, Colon)
<1>1. CASE Len(fields) # 3
  BY <1>1 DEF MessageOf
<1>2. CASE Len(fields) = 3
  <2>1. \A k \in {1, 2, 3} : IsToken(fields[k], text, Colon)
    BY <1>2, Tokens
  <2>2. MessageOf(text) =
          [sender |-> atol(fields[1]), type |-> TypeOf(fields[2]), content |-> fields[3]]
    BY <1>2 DEF MessageOf
  <2> HIDE DEF fields
  <2>3. atol(fields[1]) \in Nat
    BY <2>1, AtolIsNat DEF IsToken
  <2>4. TypeOf(fields[2]) \in Atom
    <3>1. fields[2] \in Seq(Atom)
      BY <2>1 DEF IsToken, Str
    <3>2. Pad \in Atom
      BY DEF Atom
    <3> QED
      BY <3>1, <3>2 DEF TypeOf
  <2>5. fields[3] \in Str /\ IsToken(fields[3], text, Colon)
    BY <2>1 DEF IsToken
  <2> QED
    BY <2>2, <2>3, <2>4, <2>5 DEF Message
<1> QED
  BY <1>1, <1>2

\* A node that could be decoded has a name without ';' whose characters were in
\* the string.
LEMMA NodeDecoded ==
  ASSUME NEW str \in Str
  PROVE  \/ proc_node_fromstr(str) = NULL
         \/ /\ proc_node_fromstr(str) \in ProcInfo
            /\ IsToken(proc_node_fromstr(str).name, str, Semi)
<1> DEFINE fields == tokenize(str, Semi)
<1>1. CASE Len(fields) # 3
  BY <1>1 DEF proc_node_fromstr
<1>2. CASE Len(fields) = 3
  <2>1. \A k \in {1, 2, 3} : IsToken(fields[k], str, Semi)
    BY <1>2, Tokens
  <2>2. proc_node_fromstr(str) =
          [pid |-> atol(fields[1]), ppid |-> atol(fields[2]), name |-> fields[3]]
    BY <1>2 DEF proc_node_fromstr
  <2> HIDE DEF fields
  <2>3. atol(fields[1]) \in Nat /\ atol(fields[2]) \in Nat
    BY <2>1, AtolIsNat DEF IsToken
  <2>4. fields[3] \in Str /\ IsToken(fields[3], str, Semi)
    BY <2>1 DEF IsToken
  <2> QED
    BY <2>2, <2>3, <2>4 DEF ProcInfo
<1> QED
  BY <1>1, <1>2
=============================================================================
