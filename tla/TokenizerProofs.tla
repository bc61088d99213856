-------------------------- MODULE TokenizerProofs --------------------------
(***************************************************************************)
(* That the loop of tokenize() returns what the decoders take it to        *)
(* return, for strings of any length, and never writes outside its array.  *)
(***************************************************************************)
EXTENDS Tokenizer, WireProofs

\* No token of s lies on both sides of position k.
Between(s, d, k) == k \in Nat /\ k > 0 /\ (k = 1 \/ k > Len(s) \/ s[k-1] = d)

\* c tokens have been taken from s; the one that follows has been found, and the
\* search goes on from k.
Found(s, d, c, token, k) ==
  IF token = NULL
  THEN c = Len(tokenize(s, d))
  ELSE /\ c + 1 \in 1..Len(tokenize(s, d))
       /\ token = tokenize(s, d)[c+1]
       /\ Between(s, d, k)
       /\ Rank(TokenStarts(s, d), k) = c + 1

\* The array holds the tokens found so far.
Filled(array, s, d, c) ==
  /\ array \in Seq(Str \union {Unset})
  /\ c <= Len(array)
  /\ \A i \in 1..c : array[i] = tokenize(s, d)[i]

TokenInv ==
  /\ str \in Str
  /\ tokens_count \in Nat
  /\ Filled(tokens, str, delim, tokens_count)
  /\ Found(str, delim, tokens_count, current_token, rest)
  /\ done \in BOOLEAN
  /\ done => current_token = NULL /\ Len(tokens) = tokens_count

-----------------------------------------------------------------------------
(***************************************************************************)
(* strtok().                                                               *)
(***************************************************************************)
LEMMA MinIs ==
  ASSUME NEW S \in SUBSET Nat, NEW m \in S, \A k \in S : m <= k
  PROVE  Min(S) = m
<1>1. ASSUME NEW x \in S, \A k \in S : x <= k PROVE x = m
  BY <1>1
<1> QED
  BY <1>1 DEF Min

\* It returns the token that starts at or after position k, if there is one.
LEMMA StrtokFinds ==
  ASSUME NEW s \in Str, NEW d, NEW k, Between(s, d, k), NEW x, x = strtok(s, d, k)
  PROVE  \/ x.token = NULL /\ \A i \in TokenStarts(s, d) : i < k
         \/ \E i \in TokenStarts(s, d) :
              /\ k <= i
              /\ \A j \in TokenStarts(s, d) : k <= j => i <= j
              /\ x.token = SubSeq(s, i, TokenEnd(s, d, i))
              /\ x.rest = TokenEnd(s, d, i) + 2
<1> DEFINE starts == {i \in k..Len(s) : s[i] # d}
           ends(m) == {i \in m..Len(s) : s[i] = d}
           end(m) == IF ends(m) = {} THEN Len(s) + 1 ELSE Min(ends(m))
<1>1. Len(s) \in Nat /\ k \in Nat /\ k > 0
  BY DEF Str, Between
<1>2. CASE starts = {}
  <2>1. x.token = NULL
    BY <1>2 DEF strtok
  <2>2. \A i \in TokenStarts(s, d) : i < k
    BY <1>1, <1>2 DEF TokenStarts
  <2> QED
    BY <2>1, <2>2
<1>3. CASE starts # {}
  <2>1. starts \in SUBSET Nat
    BY <1>1
  <2>2. PICK m \in starts : \A j \in starts : m <= j
    BY <1>3, <2>1, LeastElement
  <2>3. Min(starts) = m
    BY <2>1, <2>2, MinIs
  <2>4. m \in k..Len(s) /\ m \in 1..Len(s) /\ s[m] # d
    BY <1>1, <2>2
  <2>5. m = 1 \/ s[m-1] = d
    <3>1. CASE m = k
      BY <1>1, <2>4, <3>1 DEF Between
    <3>2. CASE m # k
      <4>1. m - 1 \in k..Len(s) /\ ~(m <= m - 1)
        BY <1>1, <2>4, <3>2
      <4>2. m - 1 \notin starts
        BY <2>2, <4>1
      <4> QED
        BY <4>1, <4>2
    <3> QED
      BY <3>1, <3>2
  <2>6. m \in TokenStarts(s, d)
    BY <2>4, <2>5 DEF TokenStarts
  <2>7. ASSUME NEW j \in TokenStarts(s, d), k <= j PROVE m <= j
    <3>1. j \in starts
      BY <1>1, <2>7 DEF TokenStarts
    <3> QED
      BY <2>2, <3>1
  <2>8. x.token = SubSeq(s, m, end(m) - 1) /\ x.rest = end(m) + 1
    BY <1>3, <2>3 DEF strtok
  <2>9. end(m) = TokenEnd(s, d, m) + 1
    <3>1. CASE ends(m) = {}
      <4>1. Len(s) \in m..Len(s) /\ \A i \in m..Len(s) : s[i] # d
        BY <1>1, <2>4, <3>1
      <4>2. TokenEnd(s, d, m) = Len(s)
        BY <2>4, <4>1, TokenEndIs
      <4> QED
        BY <3>1, <4>2
    <3>2. CASE ends(m) # {}
      <4>1. ends(m) \in SUBSET Nat
        BY <1>1, <2>4
      <4>2. PICK e \in ends(m) : \A j \in ends(m) : e <= j
        BY <3>2, <4>1, LeastElement
      <4>3. Min(ends(m)) = e
        BY <4>1, <4>2, MinIs
      <4>4. e \in m..Len(s) /\ s[e] = d /\ e # m
        BY <2>4
      <4>5. e - 1 \in m..Len(s) /\ (e - 1) + 1 = e
        BY <1>1, <2>4, <4>4
      <4>6. \A i \in m..(e-1) : s[i] # d
        BY <1>1, <2>4, <4>2, <4>4
      <4>7. TokenEnd(s, d, m) = e - 1
        BY <2>4, <4>4, <4>5, <4>6, TokenEndIs
      <4> QED
        BY <3>2, <4>3, <4>5, <4>7
    <3> QED
      BY <3>1, <3>2
  <2>10. TokenEnd(s, d, m) \in m..Len(s)
    BY <2>6, TokenEnds
  <2> HIDE DEF end
  <2>11. end(m) - 1 = TokenEnd(s, d, m) /\ end(m) + 1 = TokenEnd(s, d, m) + 2
    BY <1>1, <2>4, <2>9, <2>10
  <2>12. x.token = SubSeq(s, m, TokenEnd(s, d, m)) /\ x.rest = TokenEnd(s, d, m) + 2
    BY <2>8, <2>11
  <2>13. k <= m
    BY <1>1, <2>4
  <2> QED
    BY <2>6, <2>7, <2>12, <2>13
<1> QED
  BY <1>2, <1>3

\* Where c tokens start before position k, it returns the next one after them.
LEMMA StrtokCounts ==
  ASSUME NEW s \in Str, NEW d, NEW k, Between(s, d, k), NEW x, x = strtok(s, d, k)
  PROVE  Found(s, d, Rank(TokenStarts(s, d), k), x.token, x.rest)
<1> DEFINE S == TokenStarts(s, d)
           n == Cardinality(S)
<1>1. /\ Len(s) \in Nat /\ k \in Nat /\ S \in SUBSET (1..Len(s)) /\ S \in SUBSET Nat
      /\ IsFiniteSet(S) /\ n \in Nat
  BY Starts DEF Between
<1>2. /\ Len(tokenize(s, d)) = n
      /\ \A i \in 1..n : tokenize(s, d)[i] = SubSeq(s, Nth(S, i), TokenEnd(s, d, Nth(S, i)))
  <2> DEFINE Token(i) == SubSeq(s, Nth(S, i), TokenEnd(s, d, Nth(S, i)))
  <2>1. tokenize(s, d) = [i \in 1..n |-> Token(i)]
    BY DEF tokenize
  <2>2. Len(tokenize(s, d)) = n /\ \A i \in 1..n : tokenize(s, d)[i] = Token(i)
    <3> HIDE DEF S, n, Token
    <3> QED
      BY <1>1, <2>1
  <2> QED
    BY <2>2
<1>3. CASE x.token = NULL /\ \A i \in S : i < k
  <2>1. {j \in S : j < k} = S
    BY <1>3
  <2> QED
    BY <1>2, <1>3, <2>1 DEF Rank, Found
<1>4. ASSUME NEW i \in S, k <= i, \A j \in S : k <= j => i <= j,
             x.token = SubSeq(s, i, TokenEnd(s, d, i)), x.rest = TokenEnd(s, d, i) + 2
      PROVE  Found(s, d, Rank(S, k), x.token, x.rest)
  <2> HIDE DEF S, n
  <2>1. {j \in S : j < k} = {j \in S : j < i}
    <3>1. ASSUME NEW j \in S PROVE j < k <=> j < i
      <4>1. j \in Nat /\ i \in Nat /\ k \in Nat
        BY <1>1, <1>4
      <4>2. k <= j => i <= j
        BY <1>4
      <4> QED
        BY <1>4, <4>1, <4>2
    <3> QED
      BY <3>1
  <2>2. Rank(S, k) = Rank(S, i)
    BY <2>1 DEF Rank
  <2>3. PICK c : c = Rank(S, i)
    OBVIOUS
  <2>4. c + 1 \in 1..n /\ Nth(S, c + 1) = i /\ c \in Nat
    <3>1. c \in 0..(n-1)
      BY <1>1, <2>3, Ranks DEF n
    <3> QED
      BY <1>1, <2>3, <3>1, NthIs DEF n
  <2>5. x.token = tokenize(s, d)[c+1]
    BY <1>2, <1>4, <2>4
  <2>6. x.token # NULL
    <3>1. IsToken(tokenize(s, d)[c+1], s, d)
      BY <1>2, <2>4, Tokens
    <3> QED
      BY <2>5, <3>1, NullAssumption DEF IsToken
  <2>7. PICK e : e = TokenEnd(s, d, i)
    OBVIOUS
  <2>8. e \in i..Len(s) /\ (\A j \in i..e : s[j] # d) /\ (e = Len(s) \/ s[e+1] = d)
    BY <1>4, <2>7, TokenEnds DEF S
  <2>9. i \in Nat /\ i > 0 /\ e \in Nat
    BY <1>1, <1>4, <2>8
  <2>10. Between(s, d, e + 2)
    <3>1. e + 2 \in Nat /\ e + 2 > 0 /\ (e + 2) - 1 = e + 1
      BY <2>9
    <3> QED
      BY <1>1, <2>8, <2>9, <3>1 DEF Between
  <2>11. Rank(S, e + 2) = c + 1
    <3>1. ASSUME NEW j \in S, j < e + 2 PROVE j < i \/ j = i
      <4>1. j \in Nat /\ (j = 1 \/ s[j-1] = d) /\ s[j] # d /\ j \in 1..Len(s)
        BY DEF S, TokenStarts
      <4>2. CASE j > i /\ j <= e + 1
        <5>1. j - 1 \in i..e /\ j # 1
          BY <2>9, <4>1, <4>2
        <5> QED
          BY <2>8, <4>1, <5>1
      <4> QED
        BY <2>9, <3>1, <4>1, <4>2
    <3>2. {j \in S : j < e + 2} = {j \in S : j < i} \union {i}
      <4>1. ASSUME NEW j \in S PROVE j < e + 2 <=> j < i \/ j = i
        <5>1. j \in Nat /\ i <= e
          BY <1>1, <2>8
        <5> QED
          BY <2>9, <3>1, <5>1
      <4> QED
        BY <1>4, <4>1
    <3>3. IsFiniteSet({j \in S : j < i}) /\ i \notin {j \in S : j < i}
      BY <1>1, <2>9, FS_Subset
    <3>4. Cardinality({j \in S : j < i} \union {i}) = Cardinality({j \in S : j < i}) + 1
      BY <3>3, FS_AddElement
    <3> QED
      BY <2>3, <3>2, <3>4 DEF Rank
  <2> QED
    BY <1>2, <1>4, <2>2, <2>3, <2>4, <2>5, <2>6, <2>7, <2>10, <2>11 DEF Found, S
<1> QED
  BY <1>3, <1>4, StrtokFinds

-----------------------------------------------------------------------------
(***************************************************************************)
(* The loop.                                                               *)
(***************************************************************************)
LEMMA StringsAreStr == Strings \subseteq Str
<1>1. ASSUME NEW m \in 0..MaxLen, NEW s \in [1..m -> Words \union {Colon, Semi}] PROVE s \in Str
  <2>1. m \in Nat /\ s \in [1..m -> Atom]
    BY <1>1, MaxLenAssumption DEF Atom
  <2> QED
    BY <2>1 DEF Str
<1> QED
  BY <1>1 DEF Strings, SeqOf

LEMMA InitTokens == Init => TokenInv
<1> SUFFICES ASSUME Init PROVE TokenInv
  OBVIOUS
<1>1. PICK s, d : s = str /\ d = delim
  OBVIOUS
<1>2. s \in Str
  BY <1>1, StringsAreStr DEF Init
<1>3. PICK x : x = strtok(s, d, 1)
  OBVIOUS
<1>4. current_token = x.token /\ rest = x.rest
  BY <1>1, <1>3 DEF Init
<1>5. Between(s, d, 1)
  BY DEF Between
<1>6. Rank(TokenStarts(s, d), 1) = 0
  <2>1. TokenStarts(s, d) \in SUBSET (1..Len(s)) /\ Len(s) \in Nat
    BY <1>2, Starts
  <2>2. {j \in TokenStarts(s, d) : j < 1} = {}
    BY <2>1
  <2> QED
    BY <2>2, FS_EmptySet DEF Rank
<1>7. Found(s, d, 0, x.token, x.rest)
  BY <1>2, <1>3, <1>5, <1>6, StrtokCounts
<1>8. tokens = <<>> /\ tokens_count = 0 /\ done = FALSE
  BY DEF Init
<1>9. <<>> \in Seq(Str \union {Unset}) /\ Len(<<>>) = 0
  OBVIOUS
<1>10. Filled(tokens, str, delim, tokens_count)
  BY <1>8, <1>9 DEF Filled
<1> QED
  BY <1>1, <1>2, <1>4, <1>7, <1>8, <1>10 DEF TokenInv

\* The array has room for one more token, and keeps those it has.
LEMMA Grows ==
  ASSUME NEW array \in Seq(Str \union {Unset}), NEW c \in Nat, c <= Len(array), NEW more,
         more = IF c = Len(array)
                THEN array \o [i \in 1..(IF Len(array) = 0 THEN 2 ELSE Len(array)) |-> Unset]
                ELSE array
  PROVE  /\ more \in Seq(Str \union {Unset}) /\ c + 1 \in 1..Len(more)
         /\ \A i \in 1..c : more[i] = array[i]
<1>1. Len(array) \in Nat
  OBVIOUS
<1>2. CASE c = Len(array)
  <2>1. PICK n : n = IF Len(array) = 0 THEN 2 ELSE Len(array)
    OBVIOUS
  <2>2. n \in Nat /\ n > 0
    BY <1>1, <2>1
  <2>3. PICK blank : blank = [i \in 1..n |-> Unset]
    OBVIOUS
  <2>4. blank \in Seq(Str \union {Unset}) /\ Len(blank) = n
    BY <2>2, <2>3
  <2>5. more = array \o blank
    BY <1>2, <2>1, <2>3
  <2> QED
    BY <1>1, <1>2, <2>2, <2>4, <2>5
<1>3. CASE c # Len(array)
  BY <1>1, <1>3
<1> QED
  BY <1>2, <1>3

\* The loop keeps what it has found.
LEMMA AddTokens == TokenInv /\ AddToken => TokenInv'
<1> SUFFICES ASSUME TokenInv, AddToken PROVE TokenInv'
  OBVIOUS
<1>1. PICK s, d, c, k : s = str /\ d = delim /\ c = tokens_count /\ k = rest
  OBVIOUS
<1>2. s \in Str /\ c \in Nat /\ str' = s /\ delim' = d /\ tokens_count' = c + 1 /\ done' = done
  BY <1>1 DEF TokenInv, AddToken
<1>3. /\ current_token # NULL /\ current_token = tokenize(s, d)[c+1]
      /\ c + 1 \in 1..Len(tokenize(s, d))
      /\ Between(s, d, k) /\ Rank(TokenStarts(s, d), k) = c + 1
  BY <1>1 DEF TokenInv, Found, AddToken
<1>4. PICK x : x = strtok(s, d, k)
  OBVIOUS
<1>5. current_token' = x.token /\ rest' = x.rest
  BY <1>1, <1>4 DEF AddToken
<1>6. Found(s, d, c + 1, x.token, x.rest)
  BY <1>2, <1>3, <1>4, StrtokCounts
<1>7. PICK array \in Seq(Str \union {Unset}) :
        /\ array = tokens /\ c <= Len(array) /\ \A i \in 1..c : array[i] = tokenize(s, d)[i]
  BY <1>1 DEF TokenInv, Filled
<1>8. PICK more : more = IF c = Len(array)
                        THEN array \o [i \in 1..(IF Len(array) = 0 THEN 2 ELSE Len(array)) |-> Unset]
                        ELSE array
  OBVIOUS
<1>9. Grown = more
  BY <1>1, <1>7, <1>8 DEF Grown, tokens_size
<1>10. /\ more \in Seq(Str \union {Unset}) /\ c + 1 \in 1..Len(more)
       /\ \A i \in 1..c : more[i] = array[i]
  BY <1>2, <1>7, <1>8, Grows
<1>11. PICK token \in Str : token = current_token
  <2>1. IsToken(tokenize(s, d)[c+1], s, d)
    BY <1>2, <1>3, Tokens
  <2> QED
    BY <1>3, <2>1 DEF IsToken
<1>12. tokens' = [more EXCEPT ![c+1] = token]
  BY <1>1, <1>9, <1>11 DEF AddToken
<1>13. Filled([more EXCEPT ![c+1] = token], s, d, c + 1)
  <2>1. PICK new : new = [more EXCEPT ![c+1] = token]
    OBVIOUS
  <2>2. new \in Seq(Str \union {Unset}) /\ Len(new) = Len(more)
    BY <1>10, <1>11, <2>1
  <2>3. c + 1 <= Len(new)
    BY <1>2, <1>10, <2>2
  <2>4. ASSUME NEW i \in 1..(c+1) PROVE new[i] = tokenize(s, d)[i]
    <3>1. CASE i = c + 1
      <4>1. new[c+1] = token
        BY <1>10, <2>1
      <4> QED
        BY <1>3, <1>11, <3>1, <4>1
    <3>2. CASE i # c + 1
      <4>1. i \in 1..c /\ i \in 1..Len(more)
        BY <1>2, <1>10, <3>2
      <4>2. new[i] = more[i]
        BY <1>10, <2>1, <3>2, <4>1
      <4> QED
        BY <1>7, <1>10, <4>1, <4>2
    <3> QED
      BY <3>1, <3>2
  <2> QED
    BY <2>1, <2>2, <2>3, <2>4 DEF Filled
<1>14. done' = FALSE
  BY <1>2, <1>3 DEF TokenInv
<1>15. c + 1 \in Nat
  BY <1>2
<1> QED
  BY <1>2, <1>5, <1>6, <1>12, <1>13, <1>14, <1>15 DEF TokenInv

\* The slots that are cut off have no token.
LEMMA ShrinkKeeps == TokenInv /\ Shrink => TokenInv'
<1> SUFFICES ASSUME TokenInv, Shrink PROVE TokenInv'
  OBVIOUS
<1>1. PICK array \in Seq(Str \union {Unset}), c \in Nat :
        /\ array = tokens /\ c = tokens_count /\ c <= Len(array)
        /\ \A i \in 1..c : array[i] = tokenize(str, delim)[i]
  BY DEF TokenInv, Filled
<1>2. /\ tokens' = IF c < Len(array) THEN SubSeq(array, 1, c) ELSE array
      /\ current_token = NULL /\ done' = TRUE
      /\ UNCHANGED <<str, delim, rest, current_token, tokens_count>>
  BY <1>1 DEF Shrink, tokens_size
<1>3. PICK new : new = IF c < Len(array) THEN SubSeq(array, 1, c) ELSE array
  OBVIOUS
<1>4. new \in Seq(Str \union {Unset}) /\ Len(new) = c /\ \A i \in 1..c : new[i] = array[i]
  <2>1. CASE c < Len(array)
    <3>1. \A i \in 1..c : i \in 1..Len(array) /\ array[i] \in Str \union {Unset}
      BY <1>1
    <3>2. /\ SubSeq(array, 1, c) \in Seq(Str \union {Unset})
          /\ Len(SubSeq(array, 1, c)) = IF 1 <= c THEN c - 1 + 1 ELSE 0
          /\ \A i \in 1..(c-1+1) : SubSeq(array, 1, c)[i] = array[1+i-1]
      BY <3>1, SubSeqProperties, 1 \in Int, c \in Int
    <3> QED
      BY <1>1, <1>3, <2>1, <3>2
  <2>2. CASE ~(c < Len(array))
    BY <1>1, <1>3, <2>2
  <2> QED
    BY <2>1, <2>2
<1>5. \A i \in 1..c : new[i] = tokenize(str, delim)[i]
  BY <1>1, <1>4
<1>6. Filled(new, str, delim, c)
  BY <1>1, <1>4, <1>5 DEF Filled
<1>7. tokens' = new
  BY <1>2, <1>3
<1> QED
  BY <1>1, <1>2, <1>4, <1>6, <1>7 DEF TokenInv

LEMMA TokenInvHolds == Spec => []TokenInv
<1>1. TokenInv /\ [Next]_vars => TokenInv'
  <2>1. TokenInv /\ UNCHANGED vars => TokenInv'
    BY DEF TokenInv, vars
  <2> QED
    BY <2>1, AddTokens, ShrinkKeeps DEF Next
<1> QED
  BY <1>1, InitTokens, PTL DEF Spec

\* tokenize() returns all maximal runs without a delimiter, in order, and an array
\* of exactly their number: what the decoders of messages and nodes rest on.
THEOREM LoopIsTokenize == Spec => []TokensRight
<1>1. TokenInv => TokensRight
  <2> SUFFICES ASSUME TokenInv, done
               PROVE  tokens = tokenize(str, delim) /\ tokens_count = Len(tokens)
    BY DEF TokensRight
  <2>1. PICK s, d, array, c : s = str /\ d = delim /\ array = tokens /\ c = tokens_count
    OBVIOUS
  <2>2. /\ s \in Str /\ array \in Seq(Str \union {Unset}) /\ c \in Nat
        /\ \A i \in 1..c : array[i] = tokenize(s, d)[i]
        /\ c = Len(tokenize(s, d)) /\ Len(array) = c
    BY <2>1 DEF TokenInv, Filled, Found
  <2>3. PICK n \in Nat : n = Cardinality(TokenStarts(s, d))
    BY <2>2, Starts
  <2>4. DOMAIN tokenize(s, d) = 1..n /\ Len(tokenize(s, d)) = n
    BY <2>3 DEF tokenize
  <2>5. array = [i \in 1..c |-> array[i]] /\ tokenize(s, d) = [i \in 1..n |-> tokenize(s, d)[i]]
    <3> DEFINE S == TokenStarts(s, d)
               Token(i) == SubSeq(s, Nth(S, i), TokenEnd(s, d, Nth(S, i)))
    <3>1. tokenize(s, d) = [i \in 1..n |-> Token(i)]
      BY <2>3 DEF tokenize
    <3> HIDE DEF S, Token
    <3>2. tokenize(s, d) = [i \in 1..n |-> tokenize(s, d)[i]]
      BY <3>1
    <3>3. array = [i \in 1..c |-> array[i]]
      BY <2>2
    <3> QED
      BY <3>2, <3>3
  <2> QED
    BY <2>1, <2>2, <2>4, <2>5
<1> QED
  BY <1>1, TokenInvHolds, PTL

\* The array has grown before a token is written, and a slot below tokens_count
\* has been written.
THEOREM StaysInArray == Spec => []WithinArray
<1>1. TokenInv => WithinArray
  <2> SUFFICES ASSUME TokenInv
               PROVE  tokens_count <= Len(tokens) /\ \A i \in 1..tokens_count : tokens[i] # Unset
    BY DEF WithinArray, tokens_size
  <2>1. PICK s, d, array, c : s = str /\ d = delim /\ array = tokens /\ c = tokens_count
    OBVIOUS
  <2>2. /\ s \in Str /\ c \in Nat /\ c <= Len(array)
        /\ \A i \in 1..c : array[i] = tokenize(s, d)[i]
        /\ Found(s, d, c, current_token, rest)
    BY <2>1 DEF TokenInv, Filled
  <2>3. Len(tokenize(s, d)) \in Nat /\ c <= Len(tokenize(s, d))
    <3>1. Len(tokenize(s, d)) \in Nat
      BY <2>2, Tokens
    <3> QED
      BY <2>2, <3>1 DEF Found
  <2>4. ASSUME NEW i \in 1..c PROVE array[i] # Unset
    <3>1. i \in 1..Len(tokenize(s, d))
      BY <2>2, <2>3
    <3>2. IsToken(tokenize(s, d)[i], s, d)
      BY <2>2, <3>1, Tokens
    <3> QED
      BY <2>2, <3>2, UnsetAssumption DEF IsToken
  <2> QED
    BY <2>1, <2>2, <2>4
<1> QED
  BY <1>1, TokenInvHolds, PTL

-----------------------------------------------------------------------------
(***************************************************************************)
(* What the decoders make of the strings.                                  *)
(***************************************************************************)
\* A string with one token has a delimiter at an end or none.
LEMMA OneToken ==
  ASSUME NEW s \in Str, NEW d, Len(tokenize(s, d)) = 1, NEW i \in 1..Len(s), s[i] = d
  PROVE  d \in {s[1], s[Len(s)]}
<1> SUFFICES ASSUME s[1] # d, s[Len(s)] # d PROVE FALSE
  OBVIOUS
<1> DEFINE S == TokenStarts(s, d)
           After == {j \in 1..Len(s) : j > i /\ s[j] # d}
<1>1. Len(s) \in Nat /\ IsFiniteSet(S) /\ Cardinality(S) = 1
  <2>1. Len(tokenize(s, d)) = Cardinality(S)
    BY Starts DEF tokenize
  <2> QED
    BY <2>1, Starts
<1>2. 1 \in S
  BY <1>1 DEF TokenStarts
<1>3. Len(s) \in After /\ After \in SUBSET Nat
  <2>1. i # Len(s)
    OBVIOUS
  <2> QED
    BY <1>1, <2>1
<1>4. PICK m \in After : \A j \in After : m <= j
  BY <1>3, LeastElement
<1>5. m \in S /\ m # 1
  <2>1. m \in 1..Len(s) /\ m > i /\ s[m] # d
    BY <1>4
  <2>2. s[m-1] = d
    <3>1. CASE m - 1 = i
      BY <3>1
    <3>2. CASE m - 1 # i
      <4>1. m - 1 \in 1..Len(s) /\ m - 1 > i /\ ~(m <= m - 1)
        BY <1>1, <2>1, <3>2
      <4>2. m - 1 \notin After
        BY <1>4, <4>1
      <4> QED
        BY <4>1, <4>2
    <3> QED
      BY <3>1, <3>2
  <2> QED
    BY <2>1, <2>2 DEF TokenStarts
<1>6. {1, m} \subseteq S /\ Cardinality({1, m}) = 2
  <2>1. Cardinality({1}) = 1 /\ IsFiniteSet({1})
    BY FS_Singleton
  <2>2. m \notin {1}
    BY <1>5
  <2>3. Cardinality({1} \union {m}) = Cardinality({1}) + 1
    BY <2>1, <2>2, FS_AddElement
  <2>4. {1} \union {m} = {1, m}
    OBVIOUS
  <2>5. Cardinality({1, m}) = 2
    BY <2>1, <2>3, <2>4
  <2>6. {1, m} \subseteq S
    BY <1>2, <1>5
  <2> QED
    BY <2>5, <2>6
<1>7. Cardinality({1, m}) <= Cardinality(S)
  BY <1>1, <1>6, FS_Subset
<1> QED
  BY <1>1, <1>6, <1>7

\* What is left of a string cut at d is the whole string exactly when it is not
\* empty and has no d.
LEMMA OnlyToken ==
  ASSUME NEW s \in Str, NEW d
  PROVE  /\ (s # <<>> /\ \A i \in 1..Len(s) : s[i] # d)
              => Len(tokenize(s, d)) = 1 /\ tokenize(s, d)[1] = s
         /\ Len(tokenize(s, d)) = 1 /\ tokenize(s, d)[1] = s
              => s # <<>> /\ \A i \in 1..Len(s) : s[i] # d
<1>1. ASSUME s # <<>>, \A i \in 1..Len(s) : s[i] # d
      PROVE  Len(tokenize(s, d)) = 1 /\ tokenize(s, d)[1] = s
  <2>1. Len(s) > 0
    BY <1>1 DEF Str
  <2> QED
    BY <1>1, <2>1, OneField
<1>2. ASSUME Len(tokenize(s, d)) = 1, tokenize(s, d)[1] = s
      PROVE  s # <<>> /\ \A i \in 1..Len(s) : s[i] # d
  <2>1. IsToken(s, s, d)
    BY <1>2, Tokens
  <2> QED
    BY <2>1 DEF IsToken
<1> QED
  BY <1>1, <1>2

\* The string does not change.
LEMMA StrIsStr == Spec => [](str \in Str)
<1>1. TokenInv => str \in Str
  BY DEF TokenInv
<1> QED
  BY <1>1, TokenInvHolds, PTL

\* A message comes back from its text unless a ':' is in its content, whatever the
\* length of the content.
THEOREM MessagesReturn == Spec => []MessageRoundTrip
<1>1. str \in Str => MessageRoundTrip
  <2> SUFFICES ASSUME NEW s \in Str
               PROVE  LET msg == MessageOf(MessageText(3, MSG_INFO, s))
                          clean == \A i \in 1..Len(s) : s[i] # Colon
                      IN  /\ s # <<>> /\ clean <=> msg = [sender |-> 3, type |-> MSG_INFO, content |-> s]
                          /\ msg = NULL <=> Len(tokenize(s, Colon)) # 1
    BY DEF MessageRoundTrip
  <2>1. PICK n, t : n = Len(tokenize(s, Colon)) /\ t = tokenize(s, Colon)[1]
    OBVIOUS
  <2>2. PICK msg : msg = MessageOf(MessageText(3, MSG_INFO, s))
    OBVIOUS
  <2>3. msg = IF n = 1 THEN [sender |-> 3, type |-> MSG_INFO, content |-> t] ELSE NULL
    BY <2>1, <2>2, Sent DEF MsgType
  <2>4. \A x \in Str : [sender |-> 3, type |-> MSG_INFO, content |-> x] # NULL
    BY NullRecordAssumption DEF Message, Atom, MsgType
  <2>5. n = 1 => t \in Str
    <3>1. ASSUME Len(tokenize(s, Colon)) = 1 PROVE IsToken(tokenize(s, Colon)[1], s, Colon)
      BY <3>1, Tokens
    <3> QED
      BY <2>1, <3>1 DEF IsToken
  <2>6. (s # <<>> /\ \A i \in 1..Len(s) : s[i] # Colon) <=> n = 1 /\ t = s
    BY <2>1, OnlyToken
  <2>7. msg = [sender |-> 3, type |-> MSG_INFO, content |-> s] <=> n = 1 /\ t = s
    <3>1. \A x, y : [sender |-> 3, type |-> MSG_INFO, content |-> x]
                      = [sender |-> 3, type |-> MSG_INFO, content |-> y] => x = y
      OBVIOUS
    <3> QED
      BY <2>3, <2>4, <3>1
  <2>8. msg = NULL <=> n # 1
    BY <2>3, <2>4, <2>5
  <2> QED
    BY <2>1, <2>2, <2>6, <2>7, <2>8
<1> QED
  BY <1>1, StrIsStr, PTL

\* A node comes back from its text unless a ';' is in its name, and a name that is
\* changed had one at an end.
THEOREM NodesReturn == Spec => []NodeRoundTrip
<1>1. str \in Str => NodeRoundTrip
  <2> SUFFICES ASSUME NEW s \in Str
               PROVE  LET info == proc_node_fromstr(proc_node_tostr(2, 1, s))
                          clean == \A i \in 1..Len(s) : s[i] # Semi
                      IN  /\ s # <<>> /\ clean <=> info = [pid |-> 2, ppid |-> 1, name |-> s]
                          /\ info # NULL /\ ~clean => Semi \in {s[1], s[Len(s)]}
    BY DEF NodeRoundTrip
  <2>1. PICK n, t : n = Len(tokenize(s, Semi)) /\ t = tokenize(s, Semi)[1]
    OBVIOUS
  <2>2. PICK info : info = proc_node_fromstr(proc_node_tostr(2, 1, s))
    OBVIOUS
  <2>3. info = IF n = 1 THEN [pid |-> 2, ppid |-> 1, name |-> t] ELSE NULL
    BY <2>1, <2>2, NodeSent
  <2>4. \A x \in Str : [pid |-> 2, ppid |-> 1, name |-> x] # NULL
    BY NullRecordAssumption DEF ProcInfo
  <2>5. (s # <<>> /\ \A i \in 1..Len(s) : s[i] # Semi) <=> n = 1 /\ t = s
    BY <2>1, OnlyToken
  <2>6. info = [pid |-> 2, ppid |-> 1, name |-> s] <=> n = 1 /\ t = s
    <3>1. \A x, y : [pid |-> 2, ppid |-> 1, name |-> x] = [pid |-> 2, ppid |-> 1, name |-> y] => x = y
      OBVIOUS
    <3> QED
      BY <2>3, <2>4, <3>1
  <2>7. ASSUME info # NULL, NEW i \in 1..Len(s), s[i] = Semi
        PROVE  Semi \in {s[1], s[Len(s)]}
    <3>1. n = 1
      BY <2>3, <2>7
    <3> QED
      BY <2>1, <2>7, <3>1, OneToken
  <2> QED
    BY <2>2, <2>5, <2>6, <2>7
<1> QED
  BY <1>1, StrIsStr, PTL

\* Both, of nodes and of messages: nothing is changed on its way but a name with a
\* ';' at an end.
THEOREM TextsReturn == Spec => []RoundTrips
<1>1. NodeRoundTrip /\ MessageRoundTrip => RoundTrips
  BY DEF RoundTrips
<1> QED
  BY <1>1, NodesReturn, MessagesReturn, PTL
=============================================================================
