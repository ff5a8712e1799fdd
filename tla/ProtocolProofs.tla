--------------------------- MODULE ProtocolProofs ---------------------------
(***************************************************************************)
(* Facts about the participant vectors of Protocol, for vectors of every   *)
(* length.  The proofs of the modules that use Protocol rest on them.      *)
(***************************************************************************)
EXTENDS Protocol, WellFoundedInduction, TLAPS

-----------------------------------------------------------------------------
(* party_number and connections                                            *)

\* party_number on a vector without repetitions is the inverse of indexing.
LEMMA PartyNumberOfIndex ==
    ASSUME NEW S, NEW v \in Seq(S), DistinctKeys(v), NEW i \in DOMAIN v
    PROVE  party_number(v, v[i]) = i
<1>1. \E k \in DOMAIN v : v[k] = v[i]
  OBVIOUS
<1>2. \A k \in DOMAIN v : v[k] = v[i] => k = i
  BY DEF DistinctKeys
<1>3. /\ v[i] = v[i]
      /\ \A j \in DOMAIN v : v[j] = v[i] => i <= j
  BY <1>2
<1>4. (CHOOSE k \in DOMAIN v : /\ v[k] = v[i]
                               /\ \A j \in DOMAIN v : v[j] = v[i] => k <= j)
      = i
  BY <1>2, <1>3
<1> QED
  BY <1>1, <1>4 DEF party_number

\* SessionState::connections of the key at index i: the keys after it.
LEMMA ConnectionsOfIndex ==
    ASSUME NEW S, NEW v \in Seq(S), DistinctKeys(v), NEW i \in DOMAIN v
    PROVE  {connections(v, v[i])[k] : k \in DOMAIN connections(v, v[i])}
               = {v[j] : j \in {k \in DOMAIN v : i < k}}
<1> DEFINE c == connections(v, v[i])
<1>1. i \in 1..Len(v) /\ DOMAIN v = 1..Len(v) /\ Len(v) \in Nat
  OBVIOUS
<1>2. c = SubSeq(v, i + 1, Len(v))
  <2>1. party_number(v, v[i]) = i /\ i # 0
    BY PartyNumberOfIndex, <1>1
  <2> QED
    BY <2>1 DEF connections
<1>3. Len(c) = Len(v) - i /\ DOMAIN c = 1..(Len(v) - i)
  BY <1>1, <1>2
<1>4. \A k \in 1..(Len(v) - i) : c[k] = v[i + k]
  BY <1>1, <1>2, <1>3
<1>5. {c[k] : k \in DOMAIN c} \subseteq {v[j] : j \in {k \in DOMAIN v : i < k}}
  <2> SUFFICES ASSUME NEW k \in 1..(Len(v) - i)
               PROVE  c[k] \in {v[j] : j \in {m \in DOMAIN v : i < m}}
    BY <1>3
  <2>1. i + k \in DOMAIN v /\ i < i + k
    BY <1>1
  <2> QED
    BY <2>1, <1>4
<1>6. {v[j] : j \in {k \in DOMAIN v : i < k}} \subseteq {c[k] : k \in DOMAIN c}
  <2> SUFFICES ASSUME NEW j \in DOMAIN v, i < j
               PROVE  v[j] \in {c[k] : k \in DOMAIN c}
    OBVIOUS
  <2>1. j - i \in 1..(Len(v) - i) /\ i + (j - i) = j
    BY <1>1
  <2>2. c[j - i] = v[j]
    BY <2>1, <1>4
  <2> QED
    BY <2>1, <2>2, <1>3
<1> QED
  BY <1>5, <1>6

LEMMA PartyNumberRange ==
    ASSUME NEW S, NEW v \in Seq(S), DistinctKeys(v), NEW c
    PROVE  party_number(v, c) \in 0..Len(v)
<1>1. CASE \E i \in DOMAIN v : v[i] = c
  <2>1. PICK i \in DOMAIN v : v[i] = c
    BY <1>1
  <2>2. \A k \in DOMAIN v : v[k] = c => k = i
    BY <2>1 DEF DistinctKeys
  <2>3. (CHOOSE k \in DOMAIN v : /\ v[k] = c
                                 /\ \A j \in DOMAIN v : v[j] = c => k <= j)
        = i
    BY <2>1, <2>2
  <2>4. party_number(v, c) = i
    BY <1>1, <2>3 DEF party_number
  <2> QED
    BY <2>4
<1>2. CASE ~ \E i \in DOMAIN v : v[i] = c
  BY <1>2 DEF party_number
<1> QED
  BY <1>1, <1>2

-----------------------------------------------------------------------------
(* recipients                                                              *)

\* A set of natural numbers has a least element.
LEMMA Least ==
    ASSUME NEW T, T \subseteq Nat, T # {}
    PROVE  \E x \in T : \A y \in T : x <= y
<1> DEFINE R == OpToRel(<, Nat)
<1>1. IsWellFoundedOn(R, Nat)
  BY NatLessThanWellFounded
<1>2. \A x, y \in Nat : y < x => <<y, x>> \in R
  BY DEF OpToRel
<1> HIDE DEF R
<1>3. \E x \in T : \A y \in T : ~(<<y, x>> \in R)
  BY <1>1, WFMin
<1>4. PICK x \in T : \A y \in T : ~(<<y, x>> \in R)
  BY <1>3
<1>5. ASSUME NEW y \in T PROVE x <= y
  <2>1. ~(y < x)
    BY <1>2, <1>4
  <2> QED
    BY <2>1
<1> QED
  BY <1>5

\* The recursive function that recipients builds is the only one of its kind.
Kept(f, v, c) ==
    f = [i \in 0..Len(v) |->
            IF i = 0 THEN <<>>
            ELSE IF v[i] = c THEN f[i - 1] ELSE Append(f[i - 1], v[i])]

LEMMA KeptUnique ==
    ASSUME NEW S, NEW v \in Seq(S), NEW c, NEW f, NEW g, Kept(f, v, c),
           Kept(g, v, c)
    PROVE  f = g
<1> DEFINE T == {i \in 0..Len(v) : f[i] # g[i]}
<1>1. CASE T = {}
  BY <1>1 DEF Kept
<1>2. CASE T # {}
  <2>0. T \subseteq Nat
    OBVIOUS
  <2>1. PICK i \in T : \A j \in T : i <= j
    <3> HIDE DEF T
    <3> QED
      BY <1>2, <2>0, Least
  <2>2. i # 0
    BY <2>1 DEF Kept
  <2>3. i - 1 \in 0..Len(v) /\ i - 1 \notin T
    BY <2>1, <2>2
  <2>4. f[i - 1] = g[i - 1]
    BY <2>3
  <2>5. f[i] = g[i]
    BY <2>1, <2>2, <2>4 DEF Kept
  <2> QED
    BY <2>1, <2>5
<1> QED
  BY <1>1, <1>2

\* SessionState::recipients on a vector without repetitions: a message to
\* everybody goes to each of the others once.
LEMMA RecipientsOfIndex ==
    ASSUME NEW S, NEW v \in Seq(S), DistinctKeys(v), NEW p \in DOMAIN v
    PROVE  recipients(v, v[p]) =
               [k \in 1..(Len(v) - 1) |-> IF k < p THEN v[k] ELSE v[k + 1]]
<1> DEFINE c == v[p]
           n == Len(v)
           others(i) == [k \in 1..(IF i < p THEN i ELSE i - 1) |->
                            IF k < p THEN v[k] ELSE v[k + 1]]
           f == [i \in 0..n |-> others(i)]
<1>0. n \in Nat /\ p \in 1..n
  OBVIOUS
<1>1. ASSUME NEW i \in 0..n
      PROVE  f[i] = IF i = 0 THEN <<>>
                    ELSE IF v[i] = c THEN f[i - 1] ELSE Append(f[i - 1], v[i])
  <2>1. CASE i = 0
    BY <2>1, <1>0
  <2>2. CASE i = p
    <3>1. i - 1 \in 0..n /\ i # 0 /\ f[i] = others(i) /\ f[i - 1] = others(i - 1)
      BY <1>0, <2>2
    <3>2. others(i) = others(i - 1)
      BY <1>0, <2>2
    <3> QED
      BY <2>2, <3>1, <3>2
  <2>3. CASE i # 0 /\ i # p
    <3>1. v[i] # c
      BY <1>0, <2>3 DEF DistinctKeys
    <3>2. i - 1 \in 0..n /\ f[i] = others(i) /\ f[i - 1] = others(i - 1)
      BY <1>0, <2>3
    <3>3. others(i) = Append(others(i - 1), v[i])
      BY <1>0, <2>3
    <3> QED
      BY <2>3, <3>1, <3>2, <3>3
  <2> QED
    BY <2>1, <2>2, <2>3
<1>2. Kept(f, v, c)
  BY <1>1 DEF Kept
<1>3. recipients(v, c) = (CHOOSE g : Kept(g, v, c))[n]
  BY DEF recipients, Kept
<1>4. (CHOOSE g : Kept(g, v, c)) = f
  BY <1>2, KeptUnique
<1>5. f[n] = others(n)
  BY <1>0
<1>6. others(n) = [k \in 1..(n - 1) |-> IF k < p THEN v[k] ELSE v[k + 1]]
  BY <1>0
<1> HIDE DEF f, others
<1> QED
  BY <1>3, <1>4, <1>5, <1>6

=============================================================================
