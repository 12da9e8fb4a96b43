-------------------------- MODULE ProxyGatewaysProofs --------------------------
(***************************************************************************)
(* What ProxyGateways promises its callers, proved for every set of        *)
(* prefixes and names, every limit and every interleaving: first the       *)
(* operators on keys (ObjectKeys), then the two gateways.                  *)
(***************************************************************************)
EXTENDS ProxyGateways, TLAPS, FiniteSetTheorems, WellFoundedInduction,
        SequenceTheorems

-----------------------------------------------------------------------------
(* Numbers *)

(***************************************************************************)
(* Every set of natural numbers with an element has a least one: the       *)
(* intervals up to its elements are well-founded by inclusion.             *)
(***************************************************************************)
LEMMA LeastNumber ==
  ASSUME NEW T, T \subseteq Nat, NEW top \in T
  PROVE  \E n \in T : \A m \in T : n <= m
<1>. DEFINE S == 1 .. top
            U == {1 .. n : n \in {k \in T : k <= top}}
<1>1. IsWellFoundedOn(StrictSubsetOrdering(S), SUBSET S)
  <2>1. IsFiniteSet(S)
    BY FS_Interval
  <2>. QED
    BY <2>1, FS_StrictSubsetOrderingWellFounded, FS_FiniteSubsetsOfFinite
<1>2. U \subseteq SUBSET S /\ 1 .. top \in U
  OBVIOUS
<1>3. PICK x \in U : \A y \in U : <<y, x>> \notin StrictSubsetOrdering(S)
  <2>. HIDE DEF U, S
  <2>. QED
    BY <1>1, <1>2, WFMin
<1>4. PICK n \in T : x = 1 .. n /\ n <= top
  OBVIOUS
<1>5. ASSUME NEW m \in T, m < n PROVE FALSE
  <2>1. 1 .. m \in U
    BY <1>4, <1>5
  <2>2. n \in 1 .. n /\ n \notin 1 .. m
    BY <1>5
  <2>3. 1 .. m \subseteq 1 .. n /\ 1 .. m # 1 .. n
    BY <1>5, <2>2
  <2>. QED
    BY <1>2, <1>3, <1>4, <2>1, <2>3 DEF StrictSubsetOrdering
<1>. QED
  BY <1>5

-----------------------------------------------------------------------------
(* Keys *)

(***************************************************************************)
(* What a key is made of.  It is STRING: that a literal is a string is not *)
(* among the facts the provers know, so the two that matter are added.     *)
(***************************************************************************)
Token == STRING \cup {S3!Slash, "elsewhere"}

Key == Seq(Token)

USE DEF Key

(* the regular expressions that cut off what leads: the longest such run *)
LEMMA LeadingCounts ==
  ASSUME NEW s \in Key, NEW c
  PROVE  /\ S3!Leading(s, c) \in 0 .. Len(s)
         /\ \A i \in 1 .. S3!Leading(s, c) : s[i] = c
         /\ S3!Leading(s, c) < Len(s) => s[S3!Leading(s, c) + 1] # c
<1>. DEFINE T == {n \in 0 .. Len(s) : n < Len(s) => s[n + 1] # c}
<1>1. Len(s) \in T /\ T \subseteq Nat
  OBVIOUS
<1>2. PICK n \in T : \A m \in T : n <= m
  <2>. HIDE DEF T
  <2>. QED
    BY <1>1, LeastNumber
<1>3. ASSUME NEW i \in 1 .. n PROVE s[i] = c
  <2>1. n \in 0 .. Len(s)
    OBVIOUS
  <2>2. i - 1 \in 0 .. Len(s) /\ i - 1 < Len(s) /\ i - 1 < n
    BY <2>1
  <2>3. i - 1 \notin T
    BY <1>2, <2>1, <2>2
  <2>4. (i - 1) + 1 = i
    BY <2>1
  <2>. QED
    BY <2>2, <2>3, <2>4
<1>. QED
  BY <1>1, <1>2, <1>3 DEF S3!Leading

LEMMA TrailingCounts ==
  ASSUME NEW s \in Key, NEW c
  PROVE  /\ S3!Trailing(s, c) \in 0 .. Len(s)
         /\ \A i \in Len(s) - S3!Trailing(s, c) + 1 .. Len(s) : s[i] = c
         /\ S3!Trailing(s, c) < Len(s) => s[Len(s) - S3!Trailing(s, c)] # c
<1>. DEFINE T == {n \in 0 .. Len(s) : n < Len(s) => s[Len(s) - n] # c}
<1>1. Len(s) \in T /\ T \subseteq Nat
  OBVIOUS
<1>2. PICK n \in T : \A m \in T : n <= m
  <2>. HIDE DEF T
  <2>. QED
    BY <1>1, LeastNumber
<1>3. ASSUME NEW i \in Len(s) - n + 1 .. Len(s) PROVE s[i] = c
  <2>1. n \in 0 .. Len(s)
    OBVIOUS
  <2>2. Len(s) - i \in 0 .. Len(s) /\ Len(s) - i < Len(s) /\ Len(s) - i < n
    BY <2>1
  <2>3. Len(s) - i \notin T
    BY <1>2, <2>1, <2>2
  <2>4. Len(s) - (Len(s) - i) = i
    BY <2>1
  <2>. QED
    BY <2>2, <2>3, <2>4
<1>. QED
  BY <1>1, <1>2, <1>3 DEF S3!Trailing

(* what is left begins with another token, and is the end of what was there *)
LEMMA DropLeadingLeaves ==
  ASSUME NEW s \in Key, NEW c
  PROVE  LET r == S3!DropLeading(s, c) IN
         /\ r \in Key
         /\ Len(r) <= Len(s)
         /\ \A i \in 1 .. Len(r) : r[i] = s[i + (Len(s) - Len(r))]
         /\ Len(r) > 0 => r[1] # c
         /\ Len(s) > 0 /\ s[1] # c => r = s
<1>. DEFINE n == S3!Leading(s, c)
            r == S3!DropLeading(s, c)
<1>1. /\ n \in 0 .. Len(s)
      /\ \A i \in 1 .. n : s[i] = c
      /\ n < Len(s) => s[n + 1] # c
  BY LeadingCounts
<1>2. r = SubSeq(s, n + 1, Len(s))
  BY DEF S3!DropLeading
<1>. HIDE DEF n, r
<1>3. /\ r \in Key
      /\ Len(r) = Len(s) - n
      /\ \A i \in 1 .. Len(s) - n : r[i] = s[(n + 1) + i - 1]
  <2>1. \A i \in n + 1 .. Len(s) : s[i] \in Token
    BY <1>1
  <2>. QED
    BY <1>1, <1>2, <2>1, SubSeqProperties
<1>4. \A i \in 1 .. Len(r) : r[i] = s[i + (Len(s) - Len(r))]
  <2>1. Len(s) \in Nat /\ n \in Nat /\ Len(s) - Len(r) = n
    BY <1>1, <1>3
  <2>2. ASSUME NEW i \in 1 .. Len(r) PROVE r[i] = s[i + n]
    <3>1. (n + 1) + i - 1 = i + n /\ i \in 1 .. Len(s) - n
      BY <1>3, <2>1
    <3>. QED
      BY <1>3, <3>1
  <2>. QED
    BY <2>1, <2>2
<1>5. Len(r) > 0 => r[1] # c
  BY <1>1, <1>3
<1>6. ASSUME Len(s) > 0, s[1] # c PROVE r = s
  <2>1. n = 0
    BY <1>1, <1>6
  <2>. QED
    BY <1>2, <2>1, SubSeqFull
<1>. QED
  BY <1>1, <1>3, <1>4, <1>5, <1>6 DEF r

LEMMA DropTrailingLeaves ==
  ASSUME NEW s \in Key, NEW c
  PROVE  LET r == S3!DropTrailing(s, c) IN
         /\ r \in Key
         /\ Len(r) <= Len(s)
         /\ \A i \in 1 .. Len(r) : r[i] = s[i]
         /\ \A i \in Len(r) + 1 .. Len(s) : s[i] = c
         /\ Len(r) > 0 => r[Len(r)] # c
         /\ Len(s) > 0 /\ s[Len(s)] # c => r = s
<1>. DEFINE n == S3!Trailing(s, c)
            r == S3!DropTrailing(s, c)
<1>1. /\ n \in 0 .. Len(s)
      /\ \A i \in Len(s) - n + 1 .. Len(s) : s[i] = c
      /\ n < Len(s) => s[Len(s) - n] # c
  BY TrailingCounts
<1>2. r = SubSeq(s, 1, Len(s) - n)
  BY DEF S3!DropTrailing
<1>. HIDE DEF n, r
<1>3. /\ r \in Key
      /\ Len(r) = Len(s) - n
      /\ \A i \in 1 .. Len(s) - n : r[i] = s[i]
  <2>1. \A i \in 1 .. Len(s) - n : s[i] \in Token
    BY <1>1
  <2>2. /\ r \in Key
        /\ Len(r) = IF 1 <= Len(s) - n THEN (Len(s) - n) - 1 + 1 ELSE 0
        /\ \A i \in 1 .. (Len(s) - n) - 1 + 1 : r[i] = s[1 + i - 1]
    BY <1>1, <1>2, <2>1, SubSeqProperties
  <2>3. ASSUME NEW i \in 1 .. Len(s) - n PROVE r[i] = s[i]
    <3>1. i \in 1 .. (Len(s) - n) - 1 + 1 /\ 1 + i - 1 = i
      BY <1>1
    <3>. QED
      BY <2>2, <3>1
  <2>. QED
    BY <1>1, <2>2, <2>3
<1>4. Len(r) > 0 => r[Len(r)] # c
  BY <1>1, <1>3
<1>5. ASSUME Len(s) > 0, s[Len(s)] # c PROVE r = s
  <2>1. n = 0
    BY <1>1, <1>5
  <2>. QED
    BY <1>2, <2>1, SubSeqFull
<1>6. \A i \in Len(r) + 1 .. Len(s) : s[i] = c
  BY <1>1, <1>3
<1>. QED
  BY <1>1, <1>3, <1>4, <1>5, <1>6 DEF r

(* replaceAll("\\", "/") *)
LEMMA SlashesLeaves ==
  ASSUME NEW s \in Key
  PROVE  LET r == S3!Slashes(s) IN
         /\ r \in Key
         /\ Len(r) = Len(s)
         /\ \A i \in 1 .. Len(s) :
               /\ r[i] # S3!Backslash
               /\ s[i] # S3!Backslash => r[i] = s[i]
               /\ s[i] = S3!Backslash => r[i] = S3!Slash
<1>1. /\ Len(s) \in Nat
      /\ DOMAIN s = 1 .. Len(s)
      /\ \A i \in 1 .. Len(s) : s[i] \in Token
  BY LenProperties
<1>2. S3!Slashes(s) = [i \in 1 .. Len(s) |-> IF s[i] = "\\" THEN "/" ELSE s[i]]
  BY <1>1 DEF S3!Slashes, S3!Backslash, S3!Slash
<1>3. S3!Slashes(s) \in [1 .. Len(s) -> Token]
  <2>1. "/" \in Token
    BY DEF Token, S3!Slash
  <2>2. \A i \in 1 .. Len(s) : (IF s[i] = "\\" THEN "/" ELSE s[i]) \in Token
    BY <1>1, <2>1
  <2>. QED
    BY <1>2, <2>2
<1>4. S3!Slashes(s) \in Key /\ Len(S3!Slashes(s)) = Len(s)
  BY <1>1, <1>3
<1>. QED
  BY <1>2, <1>4 DEF S3!Backslash, S3!Slash

(* trim(): blanks only at its ends, so what is left ends in none *)
LEMMA TrimLeaves ==
  ASSUME NEW s \in Key
  PROVE  LET r == S3!Trim(s) IN
         /\ r \in Key
         /\ Len(r) > 0 => r[Len(r)] # S3!Blank
         /\ Len(s) > 0 /\ s[1] # S3!Blank /\ s[Len(s)] # S3!Blank => r = s
<1>. DEFINE m == S3!DropLeading(s, S3!Blank)
<1>1. /\ m \in Key
      /\ Len(s) > 0 /\ s[1] # S3!Blank => m = s
  BY DropLeadingLeaves
<1>2. S3!Trim(s) = S3!DropTrailing(m, S3!Blank)
  BY DEF S3!Trim
<1>. HIDE DEF m
<1>. QED
  BY <1>1, <1>2, DropTrailingLeaves

(***************************************************************************)
(* normalizeRelativeKey: what it returns holds no backslash, begins with   *)
(* no slash and ends in no blank.                                          *)
(***************************************************************************)
LEMMA NormalKeys ==
  ASSUME NEW v \in Key
  PROVE  LET k == S3!Normalize(v) IN
         /\ k \in Key
         /\ \A i \in 1 .. Len(k) : k[i] # S3!Backslash
         /\ Len(k) > 0 => k[1] # S3!Slash /\ k[Len(k)] # S3!Blank
<1>. DEFINE t == S3!Trim(v)
            u == S3!Slashes(t)
            k == S3!DropLeading(u, S3!Slash)
<1>1. t \in Key /\ (Len(t) > 0 => t[Len(t)] # S3!Blank)
  BY TrimLeaves
<1>. HIDE DEF t
<1>2. /\ u \in Key
      /\ Len(u) = Len(t)
      /\ \A i \in 1 .. Len(t) : u[i] # S3!Backslash
      /\ Len(t) > 0 => u[Len(t)] # S3!Blank
  <2>1. Len(t) > 0 => Len(t) \in 1 .. Len(t)
    BY <1>1
  <2>2. S3!Slash # S3!Blank
    BY DEF S3!Slash, S3!Blank
  <2>. QED
    BY <1>1, <2>1, <2>2, SlashesLeaves
<1>. HIDE DEF u
<1>3. /\ k \in Key
      /\ Len(k) <= Len(u)
      /\ \A i \in 1 .. Len(k) : k[i] = u[i + (Len(u) - Len(k))]
      /\ Len(k) > 0 => k[1] # S3!Slash
  BY <1>2, DropLeadingLeaves
<1>4. S3!Normalize(v) = k
  BY DEF S3!Normalize, k, u, t
<1>. HIDE DEF k
<1>5. ASSUME NEW i \in 1 .. Len(k)
      PROVE  i + (Len(u) - Len(k)) \in 1 .. Len(t) /\ k[i] # S3!Backslash
  BY <1>2, <1>3
<1>6. Len(k) > 0 => k[Len(k)] # S3!Blank
  <2>1. Len(k) > 0 => Len(k) \in 1 .. Len(k) /\ Len(k) + (Len(u) - Len(k)) = Len(t)
    BY <1>2, <1>3
  <2>. QED
    BY <1>2, <1>3, <2>1
<1>. QED
  BY <1>3, <1>4, <1>5, <1>6

(***************************************************************************)
(* Normalising is idempotent but for a key that begins with a blank, which *)
(* only a slash before it can leave there.                                 *)
(***************************************************************************)
LEMMA NormalAgain ==
  ASSUME NEW v \in Key,
         Len(S3!Normalize(v)) > 0, S3!Normalize(v)[1] # S3!Blank
  PROVE  S3!Normalize(S3!Normalize(v)) = S3!Normalize(v)
<1>. DEFINE k == S3!Normalize(v)
<1>1. /\ k \in Key
      /\ \A i \in 1 .. Len(k) : k[i] # S3!Backslash
      /\ Len(k) > 0 /\ k[1] # S3!Blank
      /\ k[1] # S3!Slash /\ k[Len(k)] # S3!Blank
  BY NormalKeys
<1>. HIDE DEF k
<1>2. S3!Trim(k) = k
  BY <1>1, TrimLeaves
<1>3. S3!Slashes(k) = k
  <2>1. /\ S3!Slashes(k) \in Key
        /\ Len(S3!Slashes(k)) = Len(k)
        /\ \A i \in 1 .. Len(k) : S3!Slashes(k)[i] = k[i]
    BY <1>1, SlashesLeaves
  <2>. QED
    BY <1>1, <2>1, SeqEqual
<1>4. S3!DropLeading(k, S3!Slash) = k
  BY <1>1, DropLeadingLeaves
<1>. QED
  BY <1>2, <1>3, <1>4 DEF S3!Normalize, k

(* a key that begins with a blank loses it *)
LEMMA BlanksAreCut ==
  ASSUME NEW k \in Key, Len(k) > 0, k[1] = S3!Blank
  PROVE  S3!Normalize(k) # k
<1>. DEFINE r == S3!DropLeading(k, S3!Blank)
            t == S3!Trim(k)
            u == S3!Slashes(t)
            n == S3!Normalize(k)
<1>1. /\ r \in Key
      /\ Len(r) <= Len(k)
      /\ \A i \in 1 .. Len(r) : r[i] = k[i + (Len(k) - Len(r))]
      /\ Len(r) > 0 => r[1] # S3!Blank
  BY DropLeadingLeaves
<1>2. t = S3!DropTrailing(r, S3!Blank)
  BY DEF S3!Trim
<1>3. n = S3!DropLeading(u, S3!Slash)
  BY DEF S3!Normalize
<1>. HIDE DEF r
<1>4. t \in Key /\ Len(t) <= Len(r)
  <2>. HIDE DEF t
  <2>. QED
    BY <1>1, <1>2, DropTrailingLeaves
<1>. HIDE DEF t
<1>5. u \in Key /\ Len(u) = Len(t)
  BY <1>4, SlashesLeaves
<1>. HIDE DEF u
<1>6. n \in Key /\ Len(n) <= Len(u)
  <2>. HIDE DEF n
  <2>. QED
    BY <1>3, <1>5, DropLeadingLeaves
<1>. HIDE DEF n
<1>7. Len(r) # Len(k)
  <2>1. SUFFICES ASSUME Len(r) = Len(k) PROVE FALSE
    OBVIOUS
  <2>2. Len(r) > 0 /\ 1 \in 1 .. Len(r) /\ 1 + (Len(k) - Len(r)) = 1
    BY <1>1, <2>1
  <2>3. r[1] = k[1]
    BY <1>1, <2>2
  <2>. QED
    BY <1>1, <2>2, <2>3
<1>8. Len(n) < Len(k)
  BY <1>1, <1>4, <1>5, <1>6, <1>7
<1>. QED
  BY <1>6, <1>8 DEF n

(***************************************************************************)
(* HasParent looks at a token and its two neighbours: that is a segment of *)
(* its own, between two neighbouring cuts.                                 *)
(***************************************************************************)
LEMMA ParentsAreSegments ==
  ASSUME NEW s \in Key
  PROVE  S3!HasParent(s) <=> S3!IsSegment(<<S3!Dots>>, s)
<1>. DEFINE n == Len(s)
            C == S3!Cuts(s)
<1>1. /\ n \in Nat
      /\ DOMAIN s = 1 .. n
      /\ \A i \in 1 .. n : s[i] \in Token
  BY LenProperties
<1>2. \A i : i \in C <=> i = 0 \/ i = n + 1 \/ (i \in 1 .. n /\ s[i] = S3!Slash)
  BY <1>1 DEF S3!Cuts
<1>3. S3!Dots # S3!Slash
  BY DEF S3!Dots, S3!Slash
<1>. HIDE DEF n, C
<1>4. ASSUME NEW i \in 1 .. n
      PROVE  /\ SubSeq(s, i, i) = <<s[i]>>
  <2>1. /\ SubSeq(s, i, i) \in Seq(Token)
        /\ Len(SubSeq(s, i, i)) = IF i <= i THEN i - i + 1 ELSE 0
        /\ \A m \in 1 .. i - i + 1 : SubSeq(s, i, i)[m] = s[i + m - 1]
    <3>1. \A m \in i .. i : s[m] \in Token
      BY <1>1
    <3>. QED
      BY <1>1, <3>1, SubSeqProperties
  <2>2. Len(SubSeq(s, i, i)) = 1 /\ SubSeq(s, i, i)[1] = s[i]
    <3>1. 1 \in 1 .. i - i + 1 /\ i + 1 - 1 = i /\ i <= i /\ i - i + 1 = 1
      BY <1>1
    <3>. QED
      BY <2>1, <3>1
  <2>. DEFINE one == SubSeq(s, i, i)
  <2>3. one \in Seq(Token) /\ Len(one) = 1 /\ one[1] = s[i]
    BY <2>1, <2>2
  <2>. HIDE DEF one
  <2>4. one = <<one[1]>>
    BY <2>3
  <2>. QED
    BY <2>3, <2>4 DEF one
<1>5. ASSUME S3!HasParent(s) PROVE S3!IsSegment(<<S3!Dots>>, s)
  <2>1. PICK i \in 1 .. n :
             /\ s[i] = S3!Dots
             /\ i = 1 \/ s[i - 1] = S3!Slash
             /\ i = n \/ s[i + 1] = S3!Slash
    BY <1>1, <1>5 DEF S3!HasParent, n
  <2>2. i - 1 \in C /\ i + 1 \in C
    BY <1>1, <1>2, <2>1
  <2>3. i \notin C
    BY <1>1, <1>2, <1>3, <2>1
  <2>4. C \subseteq Int
    BY <1>1, <1>2
  <2>5. \A k \in C : k <= i - 1 \/ i + 1 <= k
    BY <1>1, <2>3, <2>4
  <2>6. <<S3!Dots>> = SubSeq(s, (i - 1) + 1, (i + 1) - 1)
    <3>1. (i - 1) + 1 = i /\ (i + 1) - 1 = i
      BY <1>1
    <3>. QED
      BY <1>4, <2>1, <3>1
  <2>7. i - 1 < i + 1
    BY <1>1
  <2>. QED
    BY <2>2, <2>5, <2>6, <2>7 DEF S3!IsSegment, C
<1>6. ASSUME S3!IsSegment(<<S3!Dots>>, s) PROVE S3!HasParent(s)
  <2>1. PICK i \in C, j \in C :
             i < j /\ <<S3!Dots>> = SubSeq(s, i + 1, j - 1)
    BY <1>6 DEF S3!IsSegment, C
  <2>2. i \in 0 .. n + 1 /\ j \in 0 .. n + 1
    BY <1>1, <1>2
  <2>3. i + 1 \in 1 .. n + 1 /\ j - 1 \in 0 .. n
    BY <1>1, <2>1, <2>2
  <2>4. /\ Len(SubSeq(s, i + 1, j - 1)) =
              IF i + 1 <= j - 1 THEN (j - 1) - (i + 1) + 1 ELSE 0
        /\ \A m \in 1 .. (j - 1) - (i + 1) + 1 :
              SubSeq(s, i + 1, j - 1)[m] = s[(i + 1) + m - 1]
    <3>1. \A m \in i + 1 .. j - 1 : s[m] \in Token
      BY <1>1, <2>3
    <3>. QED
      BY <1>1, <2>3, <3>1, SubSeqProperties
  <2>5. Len(SubSeq(s, i + 1, j - 1)) = 1 /\ SubSeq(s, i + 1, j - 1)[1] = S3!Dots
    <3>1. Len(<<S3!Dots>>) = 1 /\ <<S3!Dots>>[1] = S3!Dots
      OBVIOUS
    <3>. QED
      BY <2>1, <3>1
  <2>6. j = i + 2
    BY <2>2, <2>4, <2>5
  <2>7. i + 1 \in 1 .. n /\ s[i + 1] = S3!Dots
    <3>1. /\ 1 \in 1 .. (j - 1) - (i + 1) + 1
          /\ (i + 1) + 1 - 1 = i + 1
          /\ i + 1 \in 1 .. n
      BY <1>1, <2>2, <2>6
    <3>. QED
      BY <2>4, <2>5, <3>1
  <2>8. i + 1 = 1 \/ s[(i + 1) - 1] = S3!Slash
    <3>1. (i + 1) - 1 = i /\ (i = 0 \/ i \in 1 .. n)
      BY <1>1, <2>2, <2>7
    <3>. QED
      BY <1>1, <1>2, <2>7, <3>1
  <2>9. i + 1 = n \/ s[(i + 1) + 1] = S3!Slash
    <3>1. (i + 1) + 1 = j /\ j # 0 /\ (j = n + 1 => i + 1 = n)
      BY <1>1, <2>2, <2>6
    <3>. QED
      BY <1>2, <3>1
  <2>. QED
    BY <1>1, <2>7, <2>8, <2>9 DEF S3!HasParent, n
<1>. QED
  BY <1>5, <1>6

(***************************************************************************)
(* normalizeRelativeKey, for every key a client may name: its test for     *)
(* ".." is the test of the segments that split("/") would give, what it    *)
(* returns holds no backslash, begins with no slash and ends in no blank,  *)
(* and normalising it again changes it just where it begins with a blank.  *)
(***************************************************************************)
THEOREM KeysNormalizeWell == \A raw \in Key : S3!NormalizesWell(raw)
<1>. SUFFICES ASSUME NEW raw \in Key PROVE S3!NormalizesWell(raw)
  OBVIOUS
<1>. DEFINE k == S3!Normalize(raw)
<1>1. /\ k \in Key
      /\ \A i \in 1 .. Len(k) : k[i] # S3!Backslash
      /\ Len(k) > 0 => k[1] # S3!Slash /\ k[Len(k)] # S3!Blank
  BY NormalKeys
<1>2. Len(k) > 0 /\ k[1] # S3!Blank => S3!Normalize(k) = k
  BY NormalAgain
<1>. HIDE DEF k
<1>3. S3!HasParent(k) <=> S3!IsSegment(<<S3!Dots>>, k)
  BY <1>1, ParentsAreSegments
<1>4. DOMAIN k = 1 .. Len(k) /\ (k # <<>> => Len(k) > 0)
  BY <1>1, LenProperties, EmptySeq
<1>5. k # <<>> => (S3!Normalize(k) = k <=> k[1] # S3!Blank)
  BY <1>1, <1>2, <1>4, BlanksAreCut
<1>6. \A i \in DOMAIN k : k[i] # S3!Backslash
  BY <1>1, <1>4
<1>. QED
  BY <1>1, <1>3, <1>4, <1>5, <1>6 DEF S3!NormalizesWell, k

(* basePrefix: nothing, or a path of the prefix's own tokens and one slash *)
LEMMA BaseLeaves ==
  ASSUME NEW p \in Key
  PROVE  LET b == S3!BasePrefix(p)
             k == S3!Normalize(p)
         IN  /\ b \in Key
             /\ b # <<>> => Len(b) > 0 /\ b[Len(b)] = S3!Slash
             /\ b # <<>> => \A i \in 1 .. Len(b) - 1 : i <= Len(k) /\ b[i] = k[i]
             /\ b # <<>> => \A i \in Len(b) .. Len(k) : k[i] = S3!Slash
<1>. DEFINE k == S3!Normalize(p)
            path == S3!DropTrailing(k, S3!Slash)
            b == S3!BasePrefix(p)
<1>1. k \in Key
  BY NormalKeys
<1>. HIDE DEF k
<1>2. /\ path \in Key
      /\ Len(path) <= Len(k)
      /\ \A i \in 1 .. Len(path) : path[i] = k[i]
      /\ \A i \in Len(path) + 1 .. Len(k) : k[i] = S3!Slash
  BY <1>1, DropTrailingLeaves
<1>3. b = IF path = <<>> THEN <<>> ELSE Append(path, S3!Slash)
  BY DEF S3!BasePrefix, k
<1>. HIDE DEF path, b
<1>4. CASE path = <<>>
  BY <1>3, <1>4 DEF b, k
<1>5. CASE path # <<>>
  <2>1. S3!Slash \in Token
    BY DEF Token
  <2>2. /\ b \in Key
        /\ Len(b) = Len(path) + 1
        /\ \A i \in 1 .. Len(path) : b[i] = path[i]
        /\ b[Len(path) + 1] = S3!Slash
    BY <1>2, <1>3, <1>5, <2>1, AppendProperties
  <2>3. \A i \in 1 .. Len(b) - 1 : i <= Len(k) /\ b[i] = k[i]
    BY <1>1, <1>2, <2>2
  <2>4. \A i \in Len(b) .. Len(k) : k[i] = S3!Slash
    BY <1>1, <1>2, <2>2
  <2>5. Len(b) > 0 /\ b[Len(b)] = S3!Slash
    BY <1>2, <2>2
  <2>. QED
    BY <2>2, <2>3, <2>4, <2>5 DEF b, k
<1>. QED
  BY <1>4, <1>5

(***************************************************************************)
(* objectKey: a base without parent segments, and a key without them, make *)
(* a path without them: the slash between them keeps two dots at the end   *)
(* of the one from joining the other.                                      *)
(***************************************************************************)
LEMMA NoParents ==
  ASSUME NEW p \in Key, ~S3!HasParent(S3!Normalize(p)),
         NEW k \in Key, ~S3!HasParent(k)
  PROVE  ~S3!HasParent(S3!BasePrefix(p) \o k)
<1>. DEFINE b == S3!BasePrefix(p)
            n == S3!Normalize(p)
            s == b \o k
<1>1. n \in Key
  BY NormalKeys
<1>2. /\ b \in Key
      /\ b # <<>> => Len(b) > 0 /\ b[Len(b)] = S3!Slash
      /\ b # <<>> => \A i \in 1 .. Len(b) - 1 : i <= Len(n) /\ b[i] = n[i]
      /\ b # <<>> => \A i \in Len(b) .. Len(n) : n[i] = S3!Slash
  BY BaseLeaves
<1>3. ~S3!HasParent(n)
  OBVIOUS
<1>. HIDE DEF b, n
<1>4. /\ s \in Key
      /\ Len(s) = Len(b) + Len(k)
      /\ DOMAIN s = 1 .. Len(s)
      /\ \A i \in 1 .. Len(s) : s[i] = IF i <= Len(b) THEN b[i] ELSE k[i - Len(b)]
  BY <1>2, ConcatProperties, LenProperties
<1>5. CASE b = <<>>
  BY <1>5, ConcatEmptySeq DEF b
<1>6. ASSUME b # <<>>, S3!HasParent(s) PROVE FALSE
  <2>1. PICK i \in 1 .. Len(s) :
             /\ s[i] = S3!Dots
             /\ i = 1 \/ s[i - 1] = S3!Slash
             /\ i = Len(s) \/ s[i + 1] = S3!Slash
    BY <1>4, <1>6 DEF S3!HasParent
  <2>2. i # Len(b)
    BY <1>2, <1>4, <1>6, <2>1 DEF S3!Dots, S3!Slash
  <2>. HIDE DEF s
  <2>3. ASSUME i < Len(b) PROVE FALSE
    <3>1. i \in 1 .. Len(b) - 1 /\ i <= Len(n) /\ n[i] = S3!Dots
      <4>1. i \in 1 .. Len(b) - 1
        BY <1>2, <1>4, <2>1, <2>3
      <4>2. b[i] = S3!Dots
        BY <1>4, <2>1, <2>3
      <4>. QED
        BY <1>2, <1>6, <4>1, <4>2
    <3>2. ASSUME i # 1 PROVE n[i - 1] = S3!Slash
      <4>1. /\ i - 1 \in 1 .. Len(s) /\ i - 1 <= Len(b)
            /\ i - 1 \in 1 .. Len(b) - 1
        BY <1>2, <1>4, <2>1, <2>3, <3>2
      <4>2. s[i - 1] = b[i - 1] /\ b[i - 1] = n[i - 1]
        BY <1>2, <1>4, <1>6, <4>1
      <4>. QED
        BY <2>1, <3>2, <4>2
    <3>3. i = Len(n) \/ n[i + 1] = S3!Slash
      <4>1. CASE i + 1 < Len(b)
        <5>1. /\ i + 1 \in 1 .. Len(s) /\ i + 1 <= Len(b) /\ i # Len(s)
              /\ i + 1 \in 1 .. Len(b) - 1
          BY <1>2, <1>4, <2>1, <4>1
        <5>2. s[i + 1] = b[i + 1] /\ b[i + 1] = n[i + 1]
          BY <1>2, <1>4, <1>6, <5>1
        <5>. QED
          BY <2>1, <5>1, <5>2
      <4>2. CASE i + 1 = Len(b)
        BY <1>1, <1>2, <1>6, <3>1, <4>2
      <4>. QED
        BY <1>2, <2>1, <2>3, <4>1, <4>2
    <3>4. i \in DOMAIN n
      BY <1>1, <3>1
    <3>. QED
      BY <1>3, <3>1, <3>2, <3>3, <3>4 DEF S3!HasParent
  <2>4. ASSUME i > Len(b) PROVE FALSE
    <3>. DEFINE j == i - Len(b)
    <3>1. j \in DOMAIN k /\ k[j] = S3!Dots
      BY <1>2, <1>4, <2>1, <2>4
    <3>2. j = 1 \/ k[j - 1] = S3!Slash
      <4>1. CASE i = Len(b) + 1
        <5>1. j = 1
          BY <1>2, <4>1
        <5>. QED
          BY <5>1
      <4>2. CASE i > Len(b) + 1
        <5>1. i - 1 \in 1 .. Len(s) /\ ~(i - 1 <= Len(b)) /\ (i - 1) - Len(b) = j - 1 /\ i # 1
          BY <1>2, <1>4, <2>1, <4>2
        <5>2. s[i - 1] = k[(i - 1) - Len(b)]
          BY <1>4, <5>1
        <5>3. s[i - 1] = k[j - 1]
          BY <5>1, <5>2
        <5>. QED
          BY <2>1, <5>1, <5>3
      <4>3. i = Len(b) + 1 \/ i > Len(b) + 1
        BY <1>2, <2>1, <2>4
      <4>. QED
        BY <4>1, <4>2, <4>3
    <3>3. j = Len(k) \/ k[j + 1] = S3!Slash
      <4>1. CASE i = Len(s)
        BY <1>2, <1>4, <4>1
      <4>2. CASE i < Len(s)
        <5>1. i + 1 \in 1 .. Len(s) /\ i + 1 > Len(b) /\ (i + 1) - Len(b) = j + 1
          BY <1>2, <1>4, <2>1, <2>4, <4>2
        <5>. QED
          BY <1>2, <1>4, <2>1, <4>2, <5>1
      <4>. QED
        BY <1>4, <2>1, <4>1, <4>2
    <3>. QED
      BY <3>1, <3>2, <3>3 DEF S3!HasParent
  <2>. QED
    BY <1>2, <2>1, <2>2, <2>3, <2>4
<1>. QED
  BY <1>5, <1>6 DEF b

(* what starts with a base is the base and the rest, and the other way round *)
LEMMA StartsAndEnds ==
  ASSUME NEW b \in Key, NEW s \in Key
  PROVE  /\ S3!StartsWith(b \o s, b)
         /\ SubSeq(b \o s, Len(b) + 1, Len(b \o s)) = s
         /\ S3!StartsWith(s, b) => b \o SubSeq(s, Len(b) + 1, Len(s)) = s
<1>1. /\ b \o s \in Key
      /\ Len(b \o s) = Len(b) + Len(s)
      /\ \A i \in 1 .. Len(b) + Len(s) :
            (b \o s)[i] = IF i <= Len(b) THEN b[i] ELSE s[i - Len(b)]
  BY ConcatProperties
<1>2. SubSeq(b \o s, 1, Len(b)) = b
  <2>. DEFINE r == SubSeq(b \o s, 1, Len(b))
  <2>1. \A i \in 1 .. Len(b) : (b \o s)[i] \in Token
    BY <1>1
  <2>2. /\ r \in Key
        /\ Len(r) = IF 1 <= Len(b) THEN Len(b) - 1 + 1 ELSE 0
        /\ \A i \in 1 .. Len(b) - 1 + 1 : r[i] = (b \o s)[1 + i - 1]
    BY <2>1, SubSeqProperties
  <2>. HIDE DEF r
  <2>3. Len(r) = Len(b)
    BY <2>2
  <2>4. ASSUME NEW i \in 1 .. Len(r) PROVE r[i] = b[i]
    <3>1. i \in 1 .. Len(b) - 1 + 1 /\ 1 + i - 1 = i /\ i <= Len(b) /\ i \in 1 .. Len(b) + Len(s)
      BY <2>3
    <3>. QED
      BY <1>1, <2>2, <3>1
  <2>5. r = b
    BY <2>2, <2>3, <2>4, SeqEqual
  <2>. QED
    BY <2>5 DEF r
<1>3. SubSeq(b \o s, Len(b) + 1, Len(b \o s)) = s
  <2>. DEFINE c == b \o s
              r == SubSeq(c, Len(b) + 1, Len(c))
  <2>1. \A i \in Len(b) + 1 .. Len(c) : c[i] \in Token
    BY <1>1
  <2>2. /\ r \in Key
        /\ Len(r) = IF Len(b) + 1 <= Len(c) THEN Len(c) - (Len(b) + 1) + 1 ELSE 0
        /\ \A i \in 1 .. Len(c) - (Len(b) + 1) + 1 : r[i] = c[(Len(b) + 1) + i - 1]
    BY <1>1, <2>1, SubSeqProperties
  <2>. HIDE DEF r
  <2>3. Len(r) = Len(s)
    BY <1>1, <2>2
  <2>4. ASSUME NEW i \in 1 .. Len(r) PROVE r[i] = s[i]
    <3>. DEFINE j == (Len(b) + 1) + i - 1
    <3>1. /\ i \in 1 .. Len(c) - (Len(b) + 1) + 1
          /\ j \in 1 .. Len(b) + Len(s) /\ ~(j <= Len(b)) /\ j - Len(b) = i
      BY <1>1, <2>3
    <3>. QED
      BY <1>1, <2>2, <3>1
  <2>5. r = s
    BY <2>2, <2>3, <2>4, SeqEqual
  <2>. QED
    BY <2>5 DEF r
<1>4. ASSUME S3!StartsWith(s, b) PROVE b \o SubSeq(s, Len(b) + 1, Len(s)) = s
  <2>1. Len(b) <= Len(s) /\ SubSeq(s, 1, Len(b)) = b
    BY <1>4 DEF S3!StartsWith
  <2>2. SubSeq(s, 1, Len(b)) \o SubSeq(s, Len(b) + 1, Len(s)) = SubSeq(s, 1, Len(s))
    <3>1. 1 \in 1 .. Len(s) + 1 /\ Len(b) \in 1 - 1 .. Len(s) /\ Len(s) \in Len(b) .. Len(s)
      BY <2>1
    <3>. QED
      BY <3>1, ConcatAdjacentSubSeq
  <2>3. SubSeq(s, 1, Len(s)) = s
    BY SubSeqFull
  <2>. QED
    BY <2>1, <2>2, <2>3
<1>. QED
  BY <1>1, <1>2, <1>3, <1>4 DEF S3!StartsWith

-----------------------------------------------------------------------------
(* The SQL gateway *)

(***************************************************************************)
(* What holds at every await of an SQL call: a session is there only once  *)
(* connected; nothing is answered, and nothing has effect, before the      *)
(* text; after an exec's text its write has taken effect, waits in the     *)
(* transaction, or is lost with the link.  The COMMIT is sent only by an   *)
(* exec whose caller was there at the check, and once it is sent a signal  *)
(* comes too late; the ROLLBACK is sent while `transaction` says so.       *)
(***************************************************************************)
SessionSound ==
    /\ pc \in {"start", "connect"} => conn = "none"
    /\ conn \in {"none", "ended"} => server = "none"

ProgressSound ==
    /\ pc \in SQL!Steps \ {"rollback", "end", "done"} => outcome # "ok"
    /\ pc \in {"start", "connect", "ping", "timeout", "begin", "statement"} => ~effect
    /\ pc = "ping" => SQL!Test
    /\ pc = "commit" => SQL!Exec /\ hungUp # "before"
    /\ pc \in {"statement", "check", "commit", "rollback"} => transaction
    /\ pc = "timeout" /\ ~SQL!MySQL => transaction
    /\ committed = "code" => pc \in {"rollback", "end", "done"}
    /\ pc \in {"check", "commit"} /\ SQL!Exec =>
          effect \/ server = "written" \/ conn # "up"

SqlInv ==
    /\ SQL!TypeOK
    /\ SessionSound
    /\ ProgressSound
    /\ SQL!SuccessIsDurable
    /\ SQL!FailureIsClean
    /\ SQL!NothingLeftOpen

LEMMA SqlInit == SQL!Init => SqlInv
BY DEF SQL!Init, SqlInv, SQL!TypeOK, SQL!Calls, SQL!Steps, SessionSound,
       ProgressSound, SQL!SuccessIsDurable, SQL!FailureIsClean,
       SQL!NothingLeftOpen, SQL!Done

(* every await of the four operations, and whatever happens meanwhile *)
LEMMA SqlStep == SqlInv /\ [SQL!Next]_sqlvars => SqlInv'
<1>. SUFFICES ASSUME SqlInv, [SQL!Next]_sqlvars PROVE SqlInv'
  OBVIOUS
<1>. USE DEF SqlInv, SQL!TypeOK, SQL!Calls, SQL!Steps, SessionSound, ProgressSound,
             SQL!SuccessIsDurable, SQL!FailureIsClean, SQL!NothingLeftOpen,
             SQL!Done, SQL!Exec, SQL!Test, SQL!MySQL, SQL!Aborted
<1>1. CASE SQL!Enter
  BY <1>1 DEF SQL!Enter
<1>2. CASE SQL!Connect
  BY <1>2 DEF SQL!Connect
<1>3. CASE SQL!Ping
  BY <1>3 DEF SQL!Ping, SQL!Fail, SQL!Finally
<1>4. CASE SQL!SetTimeout
  BY <1>4 DEF SQL!SetTimeout, SQL!Carried, SQL!Finally
<1>5. CASE SQL!Begin
  <2>1. /\ pc = "begin" /\ ~effect
        /\ UNCHANGED <<call, conn, hungUp, effect, committed>>
    BY <1>5 DEF SQL!Begin
  <2>2. CASE /\ conn = "up" /\ server' = "open" /\ transaction' = TRUE
             /\ pc' \in {"statement", "timeout"} /\ UNCHANGED outcome
    BY <2>1, <2>2
  <2>3. CASE SQL!Fail /\ UNCHANGED server
    BY <2>1, <2>3 DEF SQL!Fail, SQL!Finally
  <2>. QED
    BY <1>5, <2>2, <2>3 DEF SQL!Begin
<1>6. CASE SQL!Statement
  <2>1. PICK written \in BOOLEAN, commits \in BOOLEAN :
           /\ written => conn = "up" /\ call.op # "tables"
           /\ commits => written
           /\ \/ /\ conn = "up" /\ (SQL!Exec => written)
                 /\ pc' = "check" /\ UNCHANGED <<transaction, outcome>>
              \/ SQL!Fail
           /\ server' \in SQL!After(written, commits)
           /\ effect' = commits
           /\ committed' = IF commits THEN "text" ELSE committed
    BY <1>6 DEF SQL!Statement
  <2>2. pc = "statement" /\ UNCHANGED <<call, conn, hungUp>>
    BY <1>6 DEF SQL!Statement
  <2>3. /\ server' \in {"none", "idle", "open", "written"}
        /\ written /\ ~commits => server' = "written"
        /\ conn # "up" => server' = server
    BY <2>1 DEF SQL!After
  <2>4. CASE /\ conn = "up" /\ (SQL!Exec => written)
             /\ pc' = "check" /\ UNCHANGED <<transaction, outcome>>
    BY <2>1, <2>2, <2>3, <2>4
  <2>5. CASE SQL!Fail
    BY <2>1, <2>2, <2>3, <2>5 DEF SQL!Fail, SQL!Finally
  <2>. QED
    BY <2>1, <2>4, <2>5
<1>7. CASE SQL!CheckAbort
  <2>1. pc = "check" /\ UNCHANGED <<call, conn, hungUp, server, effect, committed>>
    BY <1>7 DEF SQL!CheckAbort
  <2>2. CASE SQL!Fail
    BY <2>1, <2>2 DEF SQL!Fail, SQL!Finally
  <2>3. CASE /\ hungUp = "no" /\ UNCHANGED transaction
             /\ pc' = IF SQL!Exec THEN "commit" ELSE "rollback"
             /\ outcome' = IF SQL!Exec THEN outcome ELSE "ok"
    BY <2>1, <2>3
  <2>. QED
    BY <1>7, <2>2, <2>3 DEF SQL!CheckAbort
<1>8. CASE SQL!Commit
  BY <1>8 DEF SQL!Commit, SQL!Finally
<1>9. CASE SQL!Rollback
  BY <1>9 DEF SQL!Rollback
<1>10. CASE SQL!End
  BY <1>10 DEF SQL!End
<1>11. CASE SQL!Abort
  BY <1>11 DEF SQL!Abort
<1>12. CASE SQL!LinkBreaks
  BY <1>12 DEF SQL!LinkBreaks
<1>13. CASE SQL!ServerCleansUp
  BY <1>13 DEF SQL!ServerCleansUp
<1>14. CASE UNCHANGED sqlvars
  BY <1>14 DEF sqlvars
<1>. QED
  BY <1>1, <1>2, <1>3, <1>4, <1>5, <1>6, <1>7, <1>8, <1>9, <1>10, <1>11,
     <1>12, <1>13, <1>14 DEF SQL!Next

-----------------------------------------------------------------------------
(* The S3 gateway: operators *)

(* the two copies of an operator of a library *)
LEMMA SameCardinality == ASSUME NEW S PROVE S3!Cardinality(S) = Cardinality(S)
BY DEF S3!Cardinality, Cardinality

(* SetToSeq: every element of a finite set, once *)
LEMMA SetToSeqLists ==
  ASSUME NEW S, IsFiniteSet(S)
  PROVE  LET q == S3!SetToSeq(S)
             n == Cardinality(S)
         IN  /\ n \in Nat
             /\ q \in [1 .. n -> S]
             /\ \A i, j \in 1 .. n : q[i] = q[j] => i = j
             /\ \A e \in S : \E i \in 1 .. n : q[i] = e
<1>. DEFINE n == Cardinality(S)
            q == S3!SetToSeq(S)
<1>1. n \in Nat /\ ExistsBijection(1 .. n, S)
  BY FS_CardinalityType
<1>2. PICK f \in [1 .. n -> S] : S3!IsInjective(f)
  BY <1>1 DEF ExistsBijection, Bijection, Injection, IsInjective, S3!IsInjective
<1>3. q = CHOOSE g \in [1 .. n -> S] : S3!IsInjective(g)
  BY SameCardinality DEF S3!SetToSeq
<1>. HIDE DEF q
<1>4. q \in [1 .. n -> S] /\ S3!IsInjective(q)
  BY <1>2, <1>3
<1>5. q \in Injection(1 .. n, S)
  BY <1>4 DEF Injection, IsInjective, S3!IsInjective
<1>6. Cardinality(1 .. n) = n
  BY <1>1, FS_Interval
<1>7. q \in Surjection(1 .. n, S)
  BY <1>5, <1>6, FS_Injection
<1>. QED
  BY <1>1, <1>4, <1>7 DEF q, Surjection, S3!IsInjective

Row == [key : Key, shown : Key]

(* listS3: every found key below the base once, shown without the base *)
LEMMA KeptListsThem ==
  ASSUME NEW F, F \subseteq Key, IsFiniteSet(F), prefix \in Key
  PROVE  LET kept == S3!Kept(F) IN
         /\ kept \in Seq(Row)
         /\ \A i \in 1 .. Len(kept) :
               /\ kept[i].key \in F
               /\ S3!StartsWith(kept[i].key, S3!Base)
               /\ kept[i].shown = S3!Shown(prefix, kept[i].key)
         /\ \A i, j \in 1 .. Len(kept) : kept[i].key = kept[j].key => i = j
         /\ \A k \in F : S3!StartsWith(k, S3!Base) =>
               \E i \in 1 .. Len(kept) : kept[i].key = k
<1>. DEFINE E == {k \in F : S3!StartsWith(k, S3!Base)}
            q == S3!SetToSeq(E)
            n == Cardinality(E)
            kept == S3!Kept(F)
<1>1. IsFiniteSet(E)
  BY FS_Subset
<1>2. /\ n \in Nat
      /\ q \in [1 .. n -> E]
      /\ \A i, j \in 1 .. n : q[i] = q[j] => i = j
      /\ \A e \in E : \E i \in 1 .. n : q[i] = e
  <2>. HIDE DEF E
  <2>. QED
    BY <1>1, SetToSeqLists
<1>3. kept = [i \in DOMAIN q |-> [key |-> q[i], shown |-> S3!Shown(prefix, q[i])]]
  BY DEF S3!Kept
<1>. HIDE DEF q, n, kept
<1>4. \A i \in 1 .. n : q[i] \in F /\ S3!StartsWith(q[i], S3!Base)
  BY <1>2
<1>. HIDE DEF E
<1>5. \A k \in Key : S3!Shown(prefix, k) \in Key
  <2>. SUFFICES ASSUME NEW k \in Key PROVE S3!Shown(prefix, k) \in Key
    OBVIOUS
  <2>1. S3!BasePrefix(prefix) \in Key
    BY BaseLeaves
  <2>2. \A i \in Len(S3!BasePrefix(prefix)) + 1 .. Len(k) : k[i] \in Token
    BY <2>1
  <2>. QED
    BY <2>1, <2>2, SubSeqProperties DEF S3!Shown
<1>6. \A i \in 1 .. n : [key |-> q[i], shown |-> S3!Shown(prefix, q[i])] \in Row
  <2>. HIDE DEF Key
  <2>. QED
    BY <1>4, <1>5 DEF Row
<1>7. kept \in [1 .. n -> Row]
  BY <1>2, <1>3, <1>6
<1>8. kept \in Seq(Row) /\ Len(kept) = n
  BY <1>2, <1>7
<1>9. \A i \in 1 .. n : kept[i].key = q[i] /\ kept[i].shown = S3!Shown(prefix, q[i])
  BY <1>2, <1>3
<1>10. ASSUME NEW k \in F, S3!StartsWith(k, S3!Base)
       PROVE  \E i \in 1 .. n : kept[i].key = k
  <2>1. k \in E
    BY <1>10 DEF E
  <2>. QED
    BY <1>2, <1>9, <2>1
<1>11. /\ \A i \in 1 .. Len(kept) :
             /\ kept[i].key \in F
             /\ S3!StartsWith(kept[i].key, S3!Base)
             /\ kept[i].shown = S3!Shown(prefix, kept[i].key)
       /\ \A i, j \in 1 .. Len(kept) : kept[i].key = kept[j].key => i = j
  BY <1>2, <1>4, <1>8, <1>9
<1>12. \A k \in F : S3!StartsWith(k, S3!Base) => \E i \in 1 .. Len(kept) : kept[i].key = k
  BY <1>8, <1>10
<1>. QED
  BY <1>8, <1>11, <1>12 DEF kept

-----------------------------------------------------------------------------
(* The S3 gateway: calls *)

Transfers == [op : S3!Ops, phase : {"asked", "moving", "ok", "failed"},
              size : Nat, sent : Nat, applied : BOOLEAN]

Listings == [op : {"list"}, phase : {"moving", "ok", "failed"}, below : Key,
             objects : Seq(Row), passed : SUBSET S3!OthersKeys,
             through : SUBSET S3!OthersKeys, ever : SUBSET S3!OthersKeys]

(* what is in the bucket, and that this connection uploads to one place *)
BucketSound ==
    \A o \in bucket :
        /\ o.key \in S3!OthersKeys
        /\ o.bytes \in Nat
        /\ o.mine => o.key = S3!Target /\ S3!Usable(FALSE)

(***************************************************************************)
(* A transfer never moves more than the limit, is applied with its whole   *)
(* body or not at all, and only at its end.                                *)
(***************************************************************************)
TransferSound(r) ==
    /\ r.op = "list" => r.phase = "failed"
    /\ r.phase \in {"asked", "moving"} => ~r.applied
    /\ r.phase = "asked" => r.sent = 0
    /\ r.phase = "moving" => r.op \in {"upload", "download"} /\ r.sent <= MaxBytes
    /\ r.phase = "ok" =>
          /\ r.op \in {"upload", "remove"} => r.applied
          /\ r.op \in {"upload", "download"} => r.sent = r.size /\ r.size <= MaxBytes
    /\ r.phase = "failed" /\ r.applied =>
          /\ r.op \in {"upload", "remove"}
          /\ r.op = "upload" => r.sent = r.size /\ r.size <= MaxBytes
    /\ r.phase # "failed" /\ r.op # "test" => S3!Usable(FALSE)

(* what a listing looks for *)
Sought(r, k) == S3!StartsWith(k, S3!Base \o r.below)

Listed(r, k) == \E i \in DOMAIN r.objects : r.objects[i].key = k

(***************************************************************************)
(* A listing has shown every object once that it has passed and that was   *)
(* there all the time, and only objects that were there at some time.      *)
(***************************************************************************)
ShownSound(r) ==
    /\ \A i \in DOMAIN r.objects :
          /\ r.objects[i].key \in r.passed \cap r.ever
          /\ Sought(r, r.objects[i].key)
          /\ S3!StartsWith(r.objects[i].key, S3!Base)
          /\ r.objects[i].shown = S3!Shown(prefix, r.objects[i].key)
    /\ \A i, j \in DOMAIN r.objects : r.objects[i].key = r.objects[j].key => i = j

ListedSound(r) ==
    /\ ~S3!HasParent(r.below)
    /\ S3!Acceptable(prefix, TRUE)
    /\ ShownSound(r)
    /\ \A k \in r.through \cap r.passed : Sought(r, k) => Listed(r, k)
    /\ r.phase = "ok" => \A k \in r.through : Sought(r, k) => Listed(r, k)

ListingSound(r) ==
    /\ ListedSound(r)
    /\ r.phase = "moving" => r.through \subseteq S3!Keys /\ S3!Keys \subseteq r.ever

RequestSound ==
    \/ request \in Transfers /\ TransferSound(request)
    \/ request \in Listings /\ ListingSound(request)

S3Inv ==
    /\ prefix \in Key /\ name \in Key
    /\ BucketSound
    /\ RequestSound

LEMMA S3Init == S3!Init => S3Inv
<1>. SUFFICES ASSUME S3!Init PROVE S3Inv
  OBVIOUS
<1>1. prefix \in Key /\ name \in Key
  <2>1. STRING \subseteq Token
    BY DEF Token
  <2>. QED
    BY <2>1, KeysAssumption, SeqMonotonic DEF S3!Init
<1>2. request \in Transfers /\ TransferSound(request)
  BY DEF S3!Init, Transfers, S3!Ops, TransferSound
<1>. QED
  BY <1>1, <1>2 DEF S3Inv, BucketSound, RequestSound, S3!Init

(* the places this connection and others may write to *)
LEMMA PlacesAreKeys ==
  ASSUME prefix \in Key, name \in Key
  PROVE  /\ S3!Base \in Key
         /\ S3!Target \in Key
         /\ S3!OthersKeys \subseteq Key
         /\ IsFiniteSet(S3!OthersKeys)
<1>1. S3!Base \in Key
  BY BaseLeaves DEF S3!Base
<1>2. S3!Normalize(name) \in Key
  BY NormalKeys
<1>3. S3!Target \in Key
  BY <1>1, <1>2, ConcatProperties DEF S3!Target, S3!ObjectKey, S3!Base
<1>4. <<"elsewhere">> \in Key
  <2>1. "elsewhere" \in Token
    BY DEF Token
  <2>. QED
    BY <2>1
<1>5. S3!OthersKeys \subseteq Key
  BY <1>1, <1>3, <1>4 DEF S3!OthersKeys
<1>6. IsFiniteSet(S3!OthersKeys)
  <2>1. IsFiniteSet({<<"elsewhere">>} \cup {S3!Target} \cup {S3!Base})
    BY FS_Singleton, FS_AddElement
  <2>2. S3!OthersKeys \subseteq {<<"elsewhere">>} \cup {S3!Target} \cup {S3!Base}
    BY DEF S3!OthersKeys
  <2>. QED
    BY <2>1, <2>2, FS_Subset
<1>. QED
  BY <1>1, <1>3, <1>5, <1>6

HIDE DEF Key

(* a connection's prefix and the key of this behaviour stay as they are *)
LEMMA PlacesStay ==
  ASSUME UNCHANGED <<prefix, name>>
  PROVE  /\ S3!Base' = S3!Base
         /\ S3!Target' = S3!Target
         /\ S3!OthersKeys' = S3!OthersKeys
         /\ S3!Usable(FALSE)' = S3!Usable(FALSE)
         /\ S3!Acceptable(prefix, TRUE)' = S3!Acceptable(prefix, TRUE)
BY DEF S3!Base, S3!Target, S3!OthersKeys, S3!Usable

LEMMA TransferStep ==
  ASSUME UNCHANGED <<prefix, name>>, NEW r, r = request',
         r \in Transfers, TransferSound(r)
  PROVE  RequestSound'
<1>1. TransferSound(request)'
  BY PlacesStay DEF TransferSound
<1>. QED
  BY <1>1 DEF RequestSound, Transfers, S3!Ops

LEMMA ListingStep ==
  ASSUME UNCHANGED <<prefix, name>>, NEW r, r = request',
         r \in Listings, ListedSound(r),
         r.phase = "moving" => r.through \subseteq S3!Keys' /\ S3!Keys' \subseteq r.ever
  PROVE  RequestSound'
<1>1. /\ S3!Base' = S3!Base
      /\ S3!OthersKeys' = S3!OthersKeys
      /\ S3!Acceptable(prefix, TRUE)' = S3!Acceptable(prefix, TRUE)
  BY PlacesStay
<1>2. ShownSound(request)'
  BY <1>1 DEF ListedSound, ShownSound, Sought
<1>3. ListedSound(request)'
  BY <1>1, <1>2 DEF ListedSound, Sought, Listed
<1>4. request' \in Listings'
  BY <1>1 DEF Listings
<1>. QED
  BY <1>3, <1>4 DEF RequestSound, ListingSound

(* the call in progress, by what it is *)
LEMMA TransferOrListing ==
  ASSUME S3Inv
  PROVE  /\ request.op # "list" =>
              request \in Transfers /\ TransferSound(request)
         /\ request.op = "list" /\ request.phase # "failed" =>
              request \in Listings /\ ListingSound(request)
BY DEF S3Inv, RequestSound, TransferSound, Listings

(* records of one shape with some fields set *)
LEMMA TransferPhase ==
  ASSUME NEW r \in Transfers, NEW p \in {"asked", "moving", "ok", "failed"}
  PROVE  /\ [r EXCEPT !.phase = p] \in Transfers
         /\ [r EXCEPT !.phase = p].phase = p
         /\ [r EXCEPT !.phase = p].op = r.op
         /\ [r EXCEPT !.phase = p].size = r.size
         /\ [r EXCEPT !.phase = p].sent = r.sent
         /\ [r EXCEPT !.phase = p].applied = r.applied
BY DEF Transfers

(* a request that was just made is sound, whatever became of it *)
LEMMA NewTransfers ==
  ASSUME NEW op \in S3!Ops \ {"list"}, NEW size \in Nat
  PROVE  /\ S3!Refused(op) \in Transfers /\ TransferSound(S3!Refused(op))
         /\ S3!Refused("list") \in Transfers /\ TransferSound(S3!Refused("list"))
         /\ S3!Asked(op, size) \in Transfers
         /\ op = "test" \/ S3!Usable(FALSE) => TransferSound(S3!Asked(op, size))
         /\ S3!Usable(FALSE) =>
              LET r == [S3!Asked("upload", size) EXCEPT !.phase = "moving"]
              IN  r \in Transfers /\ TransferSound(r)
<1>1. ASSUME NEW o \in S3!Ops, NEW n \in Nat
      PROVE  /\ S3!Asked(o, n) \in Transfers
             /\ S3!Asked(o, n).op = o /\ S3!Asked(o, n).phase = "asked"
             /\ S3!Asked(o, n).sent = 0 /\ ~S3!Asked(o, n).applied
  BY DEF Transfers, S3!Asked
<1>2. ASSUME NEW o \in S3!Ops
      PROVE  LET r == S3!Refused(o) IN
             r \in Transfers /\ r.phase = "failed" /\ ~r.applied
  <2>. DEFINE a == S3!Asked(o, 0)
  <2>1. a \in Transfers /\ ~a.applied
    BY <1>1
  <2>2. S3!Refused(o) = [a EXCEPT !.phase = "failed"]
    BY DEF S3!Refused
  <2>. HIDE DEF a
  <2>3. /\ [a EXCEPT !.phase = "failed"] \in Transfers
        /\ [a EXCEPT !.phase = "failed"].phase = "failed"
        /\ ~[a EXCEPT !.phase = "failed"].applied
    BY <2>1 DEF Transfers
  <2>. QED
    BY <2>2, <2>3
<1>3. \A o \in S3!Ops : S3!Refused(o) \in Transfers /\ TransferSound(S3!Refused(o))
  BY <1>2 DEF TransferSound
<1>4. "list" \in S3!Ops /\ "upload" \in S3!Ops
  BY DEF S3!Ops
<1>5. S3!Asked(op, size) \in Transfers
  BY DEF Transfers, S3!Asked
<1>6. op = "test" \/ S3!Usable(FALSE) => TransferSound(S3!Asked(op, size))
  BY DEF TransferSound, S3!Asked, S3!Ops
<1>7. ASSUME S3!Usable(FALSE)
      PROVE  LET r == [S3!Asked("upload", size) EXCEPT !.phase = "moving"]
             IN  r \in Transfers /\ TransferSound(r)
  <2>. DEFINE a == S3!Asked("upload", size)
              r == [a EXCEPT !.phase = "moving"]
  <2>. a \in Transfers /\ a.op = "upload" /\ a.sent = 0 /\ ~a.applied
    BY <1>1, <1>4
  <2>. HIDE DEF a
  <2>1. r \in Transfers /\ r.op = "upload" /\ r.phase = "moving" /\ r.sent = 0
        /\ ~r.applied
    BY DEF Transfers
  <2>. HIDE DEF r
  <2>2. r.sent <= MaxBytes
    BY <2>1, BytesAssumption
  <2>3. TransferSound(r)
    BY <1>7, <2>1, <2>2 DEF TransferSound
  <2>. QED
    BY <2>1, <2>3 DEF r, a
<1>. QED
  BY <1>3, <1>4, <1>5, <1>6, <1>7

(* asking for something, and being refused *)
LEMMA AskedStep ==
  ASSUME S3Inv, \/ S3!Test
                \/ \E size \in S3!Size, declared \in BOOLEAN : S3!Upload(size, declared)
                \/ S3!Ask("download") \/ S3!Ask("remove")
  PROVE  S3Inv'
<1>1. UNCHANGED <<prefix, name, bucket>>
  BY DEF S3!Test, S3!Upload, S3!Ask
<1>2. request' \in Transfers /\ TransferSound(request')
  <2>. {"test", "upload", "download", "remove"} \subseteq S3!Ops \ {"list"} /\ 0 \in Nat
    BY DEF S3!Ops
  <2>1. CASE S3!Test
    BY <2>1, NewTransfers DEF S3!Test
  <2>2. CASE S3!Ask("download") \/ S3!Ask("remove")
    BY <2>2, NewTransfers DEF S3!Ask
  <2>3. ASSUME NEW size \in S3!Size, NEW declared \in BOOLEAN, S3!Upload(size, declared)
        PROVE  request' \in Transfers /\ TransferSound(request')
    <3>1. size \in Nat
      BY BytesAssumption DEF S3!Size
    <3>. QED
      BY <2>3, <3>1, NewTransfers DEF S3!Upload
  <2>. QED
    BY <2>1, <2>2, <2>3
<1>3. RequestSound'
  <2>. DEFINE r == request'
  <2>. HIDE DEF r
  <2>1. r = request'
    BY DEF r
  <2>. QED
    BY <1>1, <1>2, <2>1, TransferStep
<1>. QED
  BY <1>1, <1>3, PlacesStay DEF S3Inv, BucketSound

(* limitBytes: a chunk more, and the end of the call above the limit *)
LEMMA ChunkStep == ASSUME S3Inv, S3!Chunk PROVE S3Inv'
<1>1. UNCHANGED <<prefix, name, bucket>>
  BY DEF S3!Chunk
<1>. DEFINE r == request
            q == request'
            p == IF S3!TooLarge(r.sent + 1) THEN "failed" ELSE "moving"
<1>2. /\ r \in Transfers /\ TransferSound(r)
      /\ r.phase = "moving" /\ r.op \in {"upload", "download"}
      /\ q = [r EXCEPT !.sent = r.sent + 1, !.phase = p]
  BY TransferOrListing DEF S3!Chunk
<1>3. p \in {"failed", "moving"} /\ (p = "moving" => ~(r.sent + 1 > MaxBytes))
  BY DEF S3!TooLarge
<1>. HIDE DEF r, q, p
<1>4. r.sent \in Nat
  BY <1>2 DEF Transfers
<1>5. /\ q \in Transfers
      /\ q.op = r.op /\ q.sent = r.sent + 1 /\ q.phase = p /\ q.applied = r.applied
  <2>. DEFINE n == r.sent + 1
  <2>1. n \in Nat /\ q = [r EXCEPT !.sent = n, !.phase = p]
    BY <1>2, <1>4
  <2>. HIDE DEF n
  <2>2. /\ q \in Transfers
        /\ q.op = r.op /\ q.sent = n /\ q.phase = p /\ q.applied = r.applied
    BY <1>2, <1>3, <2>1 DEF Transfers
  <2>. QED
    BY <2>2 DEF n
<1>6. S3!Usable(FALSE) /\ ~q.applied
  BY <1>2, <1>5 DEF TransferSound
<1>7. q.phase = "moving" => q.sent <= MaxBytes
  BY <1>3, <1>4, <1>5, BytesAssumption
<1>8. TransferSound(q)
  BY <1>2, <1>3, <1>5, <1>6, <1>7 DEF TransferSound
<1>9. q = request'
  BY DEF q
<1>10. RequestSound'
  BY <1>1, <1>5, <1>8, <1>9, TransferStep
<1>. QED
  BY <1>1, <1>10, PlacesStay DEF S3Inv, BucketSound

(* a download's answer comes with the length, or without *)
LEMMA GetStep ==
  ASSUME S3Inv, NEW known \in BOOLEAN, S3!Get(known)
  PROVE  S3Inv'
<1>1. UNCHANGED <<prefix, name, bucket>>
  BY DEF S3!Get
<1>. DEFINE r == request
            q == request'
            bytes == S3!At(S3!Target).bytes
            p == IF known /\ S3!TooLarge(bytes) THEN "failed" ELSE "moving"
<1>2. /\ r \in Transfers /\ TransferSound(r)
      /\ r.phase = "asked" /\ r.op = "download"
      /\ q = [r EXCEPT !.size = bytes, !.phase = p]
  BY TransferOrListing DEF S3!Get
<1>3. bytes \in Nat
  BY DEF S3!Get, S3!Keys, S3!At, S3Inv, BucketSound
<1>4. p \in {"failed", "moving"}
  OBVIOUS
<1>. HIDE DEF r, q, bytes, p
<1>5. /\ q \in Transfers
      /\ q.op = r.op /\ q.sent = r.sent /\ q.phase = p /\ q.applied = r.applied
  BY <1>2, <1>3, <1>4 DEF Transfers
<1>6. S3!Usable(FALSE) /\ ~q.applied /\ q.sent = 0
  BY <1>2, <1>5 DEF TransferSound
<1>7. q.sent <= MaxBytes
  BY <1>6, BytesAssumption
<1>8. TransferSound(q)
  BY <1>2, <1>4, <1>5, <1>6, <1>7 DEF TransferSound
<1>9. q = request'
  BY DEF q
<1>10. RequestSound'
  BY <1>1, <1>5, <1>8, <1>9, TransferStep
<1>. QED
  BY <1>1, <1>10, PlacesStay DEF S3Inv, BucketSound

(* the end of a transfer that leaves the bucket alone *)
LEMMA EndStep ==
  ASSUME S3Inv, \/ S3!StreamEnds \/ S3!TestAnswered
                \/ S3!Fail /\ request \in Transfers /\ TransferSound(request)
  PROVE  S3Inv'
<1>1. UNCHANGED <<prefix, name, bucket>>
  BY DEF S3!StreamEnds, S3!TestAnswered, S3!Fail
<1>. DEFINE r == request
            q == request'
<1>2. PICK p \in {"ok", "failed"} :
         /\ r \in Transfers /\ TransferSound(r)
         /\ q = [r EXCEPT !.phase = p]
         /\ \/ p = "failed" /\ r.phase \in {"asked", "moving"}
            \/ r.phase = "asked" /\ r.op = "test"
            \/ r.phase = "moving" /\ r.op = "download" /\ r.sent = r.size
  <2>1. CASE S3!StreamEnds
    BY <2>1, TransferOrListing DEF S3!StreamEnds, S3!Ends
  <2>2. CASE S3!TestAnswered
    BY <2>2, TransferOrListing DEF S3!TestAnswered, S3!Ends
  <2>3. CASE S3!Fail /\ request \in Transfers /\ TransferSound(request)
    <3>1. request.phase \in {"asked", "moving"}
      BY <2>3 DEF S3!Fail, S3!Done, Transfers
    <3>. QED
      BY <2>3, <3>1 DEF S3!Fail, S3!Ends
  <2>. QED
    BY <2>1, <2>2, <2>3
<1>. HIDE DEF r, q
<1>3. /\ q \in Transfers /\ q.phase = p /\ q.op = r.op
      /\ q.sent = r.sent /\ q.size = r.size /\ q.applied = r.applied
  BY <1>2 DEF Transfers
<1>4. ~q.applied
  BY <1>2, <1>3 DEF TransferSound
<1>5. TransferSound(q)
  BY <1>2, <1>3, <1>4 DEF TransferSound
<1>6. q = request'
  BY DEF q
<1>7. RequestSound'
  BY <1>1, <1>3, <1>5, <1>6, TransferStep
<1>. QED
  BY <1>1, <1>7, PlacesStay DEF S3Inv, BucketSound

(* a bucket with one object replaced, or gone *)
LEMMA BucketStep ==
  ASSUME S3Inv, UNCHANGED <<prefix, name>>, NEW o,
         bucket' \subseteq bucket \cup {o},
         o \in bucket' => /\ o.key \in S3!OthersKeys
                          /\ o.bytes \in Nat
                          /\ o.mine => o.key = S3!Target /\ S3!Usable(FALSE)
  PROVE  BucketSound'
<1>1. \A x \in bucket' : /\ x.key \in S3!OthersKeys
                         /\ x.bytes \in Nat
                         /\ x.mine => x.key = S3!Target /\ S3!Usable(FALSE)
  BY DEF S3Inv, BucketSound
<1>2. /\ S3!OthersKeys' = S3!OthersKeys
      /\ S3!Target' = S3!Target
      /\ S3!Usable(FALSE)' = S3!Usable(FALSE)
  BY PlacesStay
<1>. QED
  BY <1>1, <1>2 DEF BucketSound

(* PutObject: the whole body, answered or not *)
LEMMA PutStep ==
  ASSUME S3Inv, NEW applied \in BOOLEAN, NEW answered \in BOOLEAN,
         S3!Put(applied, answered)
  PROVE  S3Inv'
<1>1. UNCHANGED <<prefix, name>>
  BY DEF S3!Put
<1>. DEFINE r == request
            q == request'
            p == IF answered THEN "ok" ELSE "failed"
            o == [key |-> S3!Target, bytes |-> request.size, mine |-> TRUE]
<1>2. /\ r \in Transfers /\ TransferSound(r)
      /\ r.phase = "moving" /\ r.op = "upload" /\ r.sent = r.size
      /\ q = [r EXCEPT !.applied = applied, !.phase = p]
  BY TransferOrListing DEF S3!Put
<1>3. p \in {"ok", "failed"} /\ (p = "ok" => applied)
  BY DEF S3!Put
<1>4. S3!Usable(FALSE) /\ r.size <= MaxBytes /\ r.size \in Nat
  BY <1>2 DEF TransferSound, Transfers
<1>5. BucketSound'
  <2>1. bucket' \subseteq bucket \cup {o}
    BY DEF S3!Put, S3!Without
  <2>2. S3!Target \in S3!OthersKeys
    <3>1. S3!Normalize(name) # <<>> /\ S3!Normalize(name) \in Key /\ S3!Base \in Key
      BY <1>4, NormalKeys, PlacesAreKeys DEF S3!Usable, S3!Acceptable, S3Inv
    <3>2. S3!Target # <<>>
      BY <3>1, ConcatEqualIffEmpty DEF Key, S3!Target, S3!ObjectKey, S3!Base
    <3>. QED
      BY <3>2 DEF S3!OthersKeys
  <2>3. o.key = S3!Target /\ o.bytes = r.size
    OBVIOUS
  <2>. HIDE DEF o
  <2>. QED
    BY <1>1, <1>4, <2>1, <2>2, <2>3, BucketStep
<1>. HIDE DEF r, q, p
<1>6. /\ q \in Transfers /\ q.phase = p /\ q.op = r.op
      /\ q.sent = r.sent /\ q.size = r.size /\ (q.applied <=> applied)
  BY <1>2, <1>3 DEF Transfers
<1>7. TransferSound(q)
  BY <1>2, <1>3, <1>4, <1>6 DEF TransferSound
<1>8. q = request'
  BY DEF q
<1>9. RequestSound'
  BY <1>1, <1>6, <1>7, <1>8, TransferStep
<1>. QED
  BY <1>1, <1>5, <1>9 DEF S3Inv

(* DeleteObject *)
LEMMA DeleteStep ==
  ASSUME S3Inv, NEW applied \in BOOLEAN, NEW answered \in BOOLEAN,
         S3!Delete(applied, answered)
  PROVE  S3Inv'
<1>1. UNCHANGED <<prefix, name>>
  BY DEF S3!Delete
<1>. DEFINE r == request
            q == request'
            p == IF answered THEN "ok" ELSE "failed"
<1>2. /\ r \in Transfers /\ TransferSound(r)
      /\ r.phase = "asked" /\ r.op = "remove"
      /\ q = [r EXCEPT !.applied = applied, !.phase = p]
  BY TransferOrListing DEF S3!Delete
<1>3. p \in {"ok", "failed"} /\ (p = "ok" => applied)
  BY DEF S3!Delete
<1>4. S3!Usable(FALSE)
  BY <1>2 DEF TransferSound
<1>5. BucketSound'
  <2>1. bucket' \subseteq bucket
    BY DEF S3!Delete, S3!Without
  <2>. QED
    BY <1>1, <2>1, PlacesStay DEF S3Inv, BucketSound
<1>. HIDE DEF r, q, p
<1>6. /\ q \in Transfers /\ q.phase = p /\ q.op = r.op /\ (q.applied <=> applied)
  BY <1>2, <1>3 DEF Transfers
<1>7. TransferSound(q)
  BY <1>2, <1>3, <1>4, <1>6 DEF TransferSound
<1>8. q = request'
  BY DEF q
<1>9. RequestSound'
  BY <1>1, <1>6, <1>7, <1>8, TransferStep
<1>. QED
  BY <1>1, <1>5, <1>9 DEF S3Inv

(* a listing begins, with what is there now, or is refused *)
LEMMA ListStep ==
  ASSUME S3Inv, NEW below \in {<<>>, name}, S3!List(below)
  PROVE  S3Inv'
<1>1. UNCHANGED <<prefix, name, bucket>>
  BY DEF S3!List
<1>. DEFINE q == request'
            k == S3!Normalize(below)
<1>2. k \in Key
  <2>1. <<>> \in Key
    BY DEF Key
  <2>. QED
    BY <2>1, NormalKeys DEF S3Inv
<1>3. S3!Keys \subseteq S3!OthersKeys
  BY DEF S3Inv, BucketSound, S3!Keys
<1>4. CASE S3!Acceptable(prefix, TRUE) /\ S3!Acceptable(below, TRUE)
  <2>1. q = [op |-> "list", phase |-> "moving", below |-> k, objects |-> <<>>,
             passed |-> {}, through |-> S3!Keys, ever |-> S3!Keys]
    BY <1>4 DEF S3!List
  <2>2. ~S3!HasParent(k)
    BY <1>4 DEF S3!Acceptable
  <2>. HIDE DEF q, k
  <2>3. q \in Listings
    <3>1. <<>> \in Seq(Row)
      OBVIOUS
    <3>. QED
      BY <1>2, <1>3, <2>1, <3>1 DEF Listings
  <2>4. /\ q.below = k /\ q.objects = <<>> /\ q.passed = {} /\ q.phase = "moving"
        /\ q.through = S3!Keys /\ q.ever = S3!Keys
    BY <2>1
  <2>5. ListedSound(q)
    <3>1. DOMAIN q.objects = {}
      BY <2>4
    <3>2. ShownSound(q)
      BY <3>1 DEF ShownSound
    <3>. QED
      BY <1>4, <2>2, <2>4, <3>2 DEF ListedSound
  <2>6. S3!Keys' = S3!Keys
    BY <1>1 DEF S3!Keys
  <2>7. q = request'
    BY DEF q
  <2>8. RequestSound'
    BY <1>1, <2>3, <2>4, <2>5, <2>6, <2>7, ListingStep
  <2>. QED
    BY <1>1, <2>8, PlacesStay DEF S3Inv, BucketSound
<1>5. CASE ~(S3!Acceptable(prefix, TRUE) /\ S3!Acceptable(below, TRUE))
  <2>. DEFINE r == S3!Refused("list")
  <2>1. request' = r
    BY <1>5 DEF S3!List
  <2>2. r \in Transfers /\ TransferSound(r)
    <3>1. "test" \in S3!Ops \ {"list"} /\ 0 \in Nat
      BY DEF S3!Ops
    <3>. QED
      BY <3>1, NewTransfers
  <2>. HIDE DEF r
  <2>3. RequestSound'
    BY <1>1, <2>1, <2>2, TransferStep
  <2>. QED
    BY <1>1, <2>3, PlacesStay DEF S3Inv, BucketSound
<1>. QED
  BY <1>4, <1>5

(* a listing stays right when less was there all the time and more at some *)
LEMMA ListedStill ==
  ASSUME NEW r, NEW q, ListedSound(r),
         q.below = r.below, q.objects = r.objects, q.passed = r.passed,
         q.through \subseteq r.through, r.ever \subseteq q.ever,
         q.phase \in {r.phase, "failed"}
  PROVE  ListedSound(q)
<1>1. ShownSound(q)
  BY DEF ListedSound, ShownSound, Sought
<1>2. \A k : (Sought(q, k) <=> Sought(r, k)) /\ (Listed(q, k) <=> Listed(r, k))
  BY DEF Sought, Listed
<1>3. \A k \in q.through \cap q.passed : k \in r.through \cap r.passed
  OBVIOUS
<1>. QED
  BY <1>1, <1>2, <1>3 DEF ListedSound

(* what a listing is about does not depend on its phase *)
LEMMA ListFailStep ==
  ASSUME S3Inv, S3!Fail, request \in Listings, ListingSound(request)
  PROVE  S3Inv'
<1>1. UNCHANGED <<prefix, name, bucket>>
  BY DEF S3!Fail
<1>. DEFINE r == request
            q == request'
<1>2. r \in Listings /\ ListedSound(r) /\ q = [r EXCEPT !.phase = "failed"]
  BY DEF S3!Fail, S3!Ends, ListingSound
<1>. HIDE DEF r, q
<1>3. /\ q \in Listings /\ q.phase = "failed"
      /\ q.below = r.below /\ q.objects = r.objects
      /\ q.passed = r.passed /\ q.through = r.through /\ q.ever = r.ever
  BY <1>2 DEF Listings
<1>4. ListedSound(q)
  BY <1>2, <1>3, ListedStill
<1>5. q = request'
  BY DEF q
<1>6. RequestSound'
  BY <1>1, <1>3, <1>4, <1>5, ListingStep
<1>. QED
  BY <1>1, <1>6, PlacesStay DEF S3Inv, BucketSound

(* what a listing looks for is below the base *)
LEMMA SoughtIsBelow ==
  ASSUME S3Inv, NEW r \in Listings, NEW k \in S3!OthersKeys, Sought(r, k)
  PROVE  S3!StartsWith(k, S3!Base)
<1>. DEFINE b == S3!Base
            s == b \o r.below
<1>1. b \in Key /\ k \in Key /\ r.below \in Key
  BY PlacesAreKeys DEF S3Inv, Listings
<1>2. Len(s) <= Len(k) /\ SubSeq(k, 1, Len(s)) = s
  BY DEF Sought, S3!StartsWith
<1>. HIDE DEF b
<1>. USE DEF Key
<1>3. /\ s \in Key /\ Len(s) = Len(b) + Len(r.below)
      /\ S3!StartsWith(s, b)
  BY <1>1, ConcatProperties, StartsAndEnds
<1>4. Len(b) <= Len(k) /\ SubSeq(s, 1, Len(b)) = b
  BY <1>1, <1>2, <1>3 DEF S3!StartsWith
<1>5. SubSeq(k, 1, Len(b)) = SubSeq(s, 1, Len(b))
  <2>. HIDE DEF s
  <2>1. CASE Len(b) = 0
    BY <2>1, SubSeqEmpty
  <2>2. CASE Len(b) > 0
    <3>1. SubSeq(SubSeq(k, 1, Len(s)), 1, Len(b)) = SubSeq(k, 1 + 1 - 1, 1 + Len(b) - 1)
      <4>1. /\ 1 \in 1 .. Len(k) /\ Len(s) \in 1 .. Len(k)
            /\ 1 \in 1 .. Len(s) - 1 + 1 /\ Len(b) \in 1 .. Len(s) - 1 + 1
        BY <1>1, <1>2, <1>3, <2>2
      <4>. QED
        BY <1>1, <4>1, SubSeqOfSubSeq
    <3>2. 1 + 1 - 1 = 1 /\ 1 + Len(b) - 1 = Len(b)
      BY <1>1
    <3>. QED
      BY <1>2, <3>1, <3>2
  <2>. QED
    BY <1>1, <2>1, <2>2
<1>. QED
  BY <1>4, <1>5 DEF S3!StartsWith, b

(***************************************************************************)
(* ListObjectsV2, once more: what this page brings is behind the last      *)
(* token, so nothing is shown twice, and the last page reaches to the end  *)
(* of what matches.                                                        *)
(***************************************************************************)
LEMMA PageStep ==
  ASSUME S3Inv, NEW reach \in SUBSET S3!OthersKeys, S3!Page(reach)
  PROVE  S3Inv'
<1>1. UNCHANGED <<prefix, name, bucket>>
  BY DEF S3!Page
<1>. DEFINE r == request
            q == request'
            F == {k \in S3!Keys \cap (reach \ r.passed) : Sought(r, k)}
            kept == S3!Kept(F)
            p == IF \E k \in S3!Keys \ reach : Sought(r, k) THEN "moving" ELSE "ok"
<1>2. /\ r \in Listings /\ ListingSound(r)
      /\ r.phase = "moving" /\ r.passed \subseteq reach
  BY TransferOrListing DEF S3!Page
<1>3. q = [r EXCEPT !.phase = p, !.passed = reach, !.objects = r.objects \o kept]
  BY DEF S3!Page, S3!Matches, Sought
<1>4. /\ kept \in Seq(Row)
      /\ \A i \in 1 .. Len(kept) :
            /\ kept[i].key \in F
            /\ S3!StartsWith(kept[i].key, S3!Base)
            /\ kept[i].shown = S3!Shown(prefix, kept[i].key)
      /\ \A i, j \in 1 .. Len(kept) : kept[i].key = kept[j].key => i = j
      /\ \A k \in F : S3!StartsWith(k, S3!Base) =>
            \E i \in 1 .. Len(kept) : kept[i].key = k
  <2>1. S3!Keys \subseteq S3!OthersKeys
    BY DEF S3Inv, BucketSound, S3!Keys
  <2>2. F \subseteq S3!OthersKeys
    BY <2>1
  <2>. HIDE DEF F
  <2>3. F \subseteq Key /\ IsFiniteSet(F)
    BY <2>2, PlacesAreKeys, FS_Subset DEF S3Inv
  <2>. QED
    BY <2>3, KeptListsThem DEF S3Inv
<1>5. p \in {"moving", "ok"}
  OBVIOUS
<1>6. p = "ok" => \A k \in S3!Keys \ reach : ~Sought(r, k)
  OBVIOUS
<1>. HIDE DEF r, q, kept, p
<1>7. r.objects \in Seq(Row)
  BY <1>2 DEF Listings
<1>. DEFINE objects == r.objects \o kept
            m == Len(r.objects)
<1>8. /\ objects \in Seq(Row)
      /\ m \in Nat /\ Len(kept) \in Nat
      /\ DOMAIN objects = 1 .. m + Len(kept)
      /\ DOMAIN r.objects = 1 .. m
      /\ \A i \in 1 .. m + Len(kept) :
            objects[i] = IF i <= m THEN r.objects[i] ELSE kept[i - m]
  BY <1>4, <1>7, ConcatProperties, LenProperties
<1>9. /\ q \in Listings
      /\ q.phase = p /\ q.passed = reach /\ q.objects = objects
      /\ q.below = r.below /\ q.through = r.through /\ q.ever = r.ever
  <2>1. q = [r EXCEPT !.phase = p, !.passed = reach, !.objects = objects]
    BY <1>3
  <2>2. objects \in Seq(Row)
    BY <1>8
  <2>. HIDE DEF objects
  <2>. QED
    BY <1>2, <1>5, <2>1, <2>2 DEF Listings
<1>. HIDE DEF objects, m
<1>10. \A k : Sought(q, k) <=> Sought(r, k)
  BY <1>9 DEF Sought
<1>11. \A i \in DOMAIN objects :
          \/ i \in 1 .. m /\ objects[i] = r.objects[i]
          \/ i - m \in 1 .. Len(kept) /\ i = (i - m) + m /\ objects[i] = kept[i - m]
  BY <1>8
<1>12. S3!Keys \subseteq r.ever /\ r.through \subseteq S3!Keys
  BY <1>2 DEF ListingSound
<1>13. ShownSound(r)
  BY <1>2 DEF ListingSound, ListedSound
<1>14. ASSUME NEW i \in DOMAIN objects
       PROVE  /\ objects[i].key \in reach \cap r.ever
              /\ Sought(r, objects[i].key)
              /\ S3!StartsWith(objects[i].key, S3!Base)
              /\ objects[i].shown = S3!Shown(prefix, objects[i].key)
              /\ i \in 1 .. m => objects[i].key \in r.passed
              /\ i \notin 1 .. m => objects[i].key \notin r.passed
  <2>1. CASE i \in 1 .. m /\ objects[i] = r.objects[i]
    BY <1>2, <1>8, <1>13, <2>1 DEF ShownSound
  <2>2. CASE i - m \in 1 .. Len(kept) /\ objects[i] = kept[i - m] /\ i \notin 1 .. m
    BY <1>4, <1>12, <2>2
  <2>. QED
    BY <1>8, <1>11, <2>1, <2>2
<1>15. ASSUME NEW i \in DOMAIN objects, NEW j \in DOMAIN objects,
              objects[i].key = objects[j].key
       PROVE  i = j
  <2>1. i \in 1 .. m <=> j \in 1 .. m
    BY <1>14, <1>15
  <2>2. CASE i \in 1 .. m
    BY <1>8, <1>11, <1>13, <1>15, <2>1, <2>2 DEF ShownSound
  <2>3. CASE i \notin 1 .. m
    <3>1. /\ i - m \in 1 .. Len(kept) /\ i = (i - m) + m /\ objects[i] = kept[i - m]
          /\ j - m \in 1 .. Len(kept) /\ j = (j - m) + m /\ objects[j] = kept[j - m]
      BY <1>11, <2>1, <2>3
    <3>2. i - m = j - m
      BY <1>4, <1>15, <3>1
    <3>. QED
      BY <3>1, <3>2
  <2>. QED
    BY <2>2, <2>3
<1>16. ShownSound(q)
  BY <1>9, <1>10, <1>14, <1>15 DEF ShownSound
<1>17. \A k : Listed(r, k) => Listed(q, k)
  <2>1. \A i \in DOMAIN r.objects : i \in DOMAIN objects /\ objects[i] = r.objects[i]
    BY <1>8
  <2>. QED
    BY <1>9, <2>1 DEF Listed
<1>18. ASSUME NEW k \in r.through \cap reach, Sought(r, k)
       PROVE  Listed(q, k)
  <2>1. CASE k \in r.passed
    BY <1>2, <1>17, <1>18, <2>1 DEF ListingSound, ListedSound
  <2>2. CASE k \notin r.passed
    <3>1. k \in F
      BY <1>12, <1>18, <2>2
    <3>2. S3!StartsWith(k, S3!Base)
      BY <1>2, <1>18, <3>1, SoughtIsBelow DEF S3Inv
    <3>3. PICK i \in 1 .. Len(kept) : kept[i].key = k
      BY <1>4, <3>1, <3>2
    <3>4. i + m \in DOMAIN objects /\ objects[i + m] = kept[(i + m) - m] /\ (i + m) - m = i
      BY <1>8
    <3>. QED
      BY <1>9, <3>3, <3>4 DEF Listed
  <2>. QED
    BY <2>1, <2>2
<1>19. ListedSound(q)
  <2>1. \A k \in q.through \cap q.passed : Sought(q, k) => Listed(q, k)
    BY <1>9, <1>10, <1>18
  <2>2. q.phase = "ok" => \A k \in q.through : Sought(q, k) => Listed(q, k)
    BY <1>6, <1>9, <1>10, <1>12, <1>18
  <2>. QED
    BY <1>2, <1>9, <1>16, <2>1, <2>2 DEF ListingSound, ListedSound
<1>20. q.through \subseteq S3!Keys' /\ S3!Keys' \subseteq q.ever
  BY <1>1, <1>9, <1>12 DEF S3!Keys
<1>21. q = request'
  BY DEF q
<1>22. RequestSound'
  BY <1>1, <1>9, <1>19, <1>20, <1>21, ListingStep
<1>. QED
  BY <1>1, <1>22, PlacesStay DEF S3Inv, BucketSound

(* a change by others, seen by a listing that is under way *)
LEMMA OthersStep ==
  ASSUME S3Inv, UNCHANGED <<prefix, name>>, BucketSound',
         NEW gone, NEW come, come \subseteq S3!OthersKeys,
         S3!Keys' \subseteq S3!Keys \cup come, S3!Keys \ gone \subseteq S3!Keys',
         IF request.op = "list" /\ ~S3!Done
         THEN /\ request' \in Listings
              /\ request'.phase = request.phase /\ request'.below = request.below
              /\ request'.objects = request.objects /\ request'.passed = request.passed
              /\ request'.through = request.through \ gone
              /\ request'.ever = request.ever \cup come
         ELSE request' = request
  PROVE  S3Inv'
<1>. DEFINE r == request
            q == request'
<1>1. CASE request.op = "list" /\ ~S3!Done
  <2>1. /\ r \in Listings /\ ListingSound(r) /\ r.phase = "moving"
    BY <1>1, TransferOrListing DEF S3!Done, Listings
  <2>2. q = request'
    OBVIOUS
  <2>3. /\ q \in Listings /\ q.phase = r.phase
        /\ q.below = r.below /\ q.objects = r.objects /\ q.passed = r.passed
        /\ q.through = r.through \ gone /\ q.ever = r.ever \cup come
    BY <1>1
  <2>. HIDE DEF r, q
  <2>4. ListedSound(q)
    BY <2>1, <2>3, ListedStill DEF ListingSound
  <2>5. q.through \subseteq S3!Keys' /\ S3!Keys' \subseteq q.ever
    BY <2>1, <2>3 DEF ListingSound
  <2>6. RequestSound'
    BY <2>2, <2>3, <2>4, <2>5, ListingStep
  <2>. QED
    BY <2>6 DEF S3Inv
<1>2. CASE ~(request.op = "list" /\ ~S3!Done)
  <2>1. r = request'
    BY <1>2
  <2>2. CASE r \in Transfers /\ TransferSound(r)
    <3>. HIDE DEF r
    <3>1. RequestSound'
      BY <2>1, <2>2, TransferStep
    <3>. QED
      BY <3>1 DEF S3Inv
  <2>3. CASE r \in Listings /\ ListingSound(r)
    <3>1. r.phase # "moving"
      BY <1>2, <2>3 DEF S3!Done, Listings
    <3>. HIDE DEF r
    <3>2. RequestSound'
      BY <2>1, <2>3, <3>1, ListingStep DEF ListingSound
    <3>. QED
      BY <3>2 DEF S3Inv
  <2>. QED
    BY <2>2, <2>3 DEF S3Inv, RequestSound
<1>. QED
  BY <1>1, <1>2

LEMMA OthersPutStep ==
  ASSUME S3Inv, NEW k \in S3!OthersKeys, NEW bytes \in S3!Size, S3!OthersPut(k, bytes)
  PROVE  S3Inv'
<1>1. UNCHANGED <<prefix, name>>
  BY DEF S3!OthersPut
<1>. DEFINE o == [key |-> k, bytes |-> bytes, mine |-> FALSE]
<1>2. bucket' = S3!Without(k) \cup {o}
  BY DEF S3!OthersPut
<1>3. o.key = k /\ o.bytes = bytes /\ ~o.mine
  OBVIOUS
<1>. HIDE DEF o
<1>4. BucketSound'
  <2>1. bytes \in Nat
    BY BytesAssumption DEF S3!Size
  <2>2. bucket' \subseteq bucket \cup {o}
    BY <1>2 DEF S3!Without
  <2>. QED
    BY <1>1, <1>3, <2>1, <2>2, BucketStep
<1>. DEFINE gone == {}
            come == {k}
<1>5. /\ come \subseteq S3!OthersKeys
      /\ S3!Keys' \subseteq S3!Keys \cup come /\ S3!Keys \ gone \subseteq S3!Keys'
  BY <1>2, <1>3 DEF S3!Keys, S3!Without
<1>. DEFINE r == request
<1>6. CASE r.op = "list" /\ ~S3!Done
  <2>1. r \in Listings
    BY <1>6, TransferOrListing DEF S3!Done
  <2>2. request' = [r EXCEPT !.ever = r.ever \cup {k}]
    BY <1>6 DEF S3!OthersPut
  <2>. HIDE DEF r
  <2>3. /\ request' \in Listings
        /\ request'.phase = r.phase /\ request'.below = r.below
        /\ request'.objects = r.objects /\ request'.passed = r.passed
        /\ request'.through = r.through \ gone
        /\ request'.ever = r.ever \cup come
    BY <2>1, <2>2 DEF Listings
  <2>. HIDE DEF gone, come
  <2>. QED
    BY <1>1, <1>4, <1>5, <1>6, <2>3, OthersStep DEF r
<1>7. CASE ~(r.op = "list" /\ ~S3!Done)
  <2>1. request' = request
    BY <1>7 DEF S3!OthersPut
  <2>. HIDE DEF gone, come
  <2>. QED
    BY <1>1, <1>4, <1>5, <1>7, <2>1, OthersStep
<1>. QED
  BY <1>6, <1>7

LEMMA OthersDeleteStep ==
  ASSUME S3Inv, NEW k \in S3!OthersKeys, S3!OthersDelete(k)
  PROVE  S3Inv'
<1>1. UNCHANGED <<prefix, name>>
  BY DEF S3!OthersDelete
<1>2. bucket' = S3!Without(k)
  BY DEF S3!OthersDelete
<1>3. BucketSound'
  BY <1>1, <1>2, PlacesStay DEF S3Inv, BucketSound, S3!Without
<1>. DEFINE gone == {k}
            come == {}
<1>4. /\ come \subseteq S3!OthersKeys
      /\ S3!Keys' \subseteq S3!Keys \cup come /\ S3!Keys \ gone \subseteq S3!Keys'
  BY <1>2 DEF S3!Keys, S3!Without
<1>. DEFINE r == request
<1>5. CASE r.op = "list" /\ ~S3!Done
  <2>1. r \in Listings
    BY <1>5, TransferOrListing DEF S3!Done
  <2>2. request' = [r EXCEPT !.through = r.through \ {k}]
    BY <1>5 DEF S3!OthersDelete
  <2>. HIDE DEF r
  <2>3. /\ request' \in Listings
        /\ request'.phase = r.phase /\ request'.below = r.below
        /\ request'.objects = r.objects /\ request'.passed = r.passed
        /\ request'.through = r.through \ gone
        /\ request'.ever = r.ever \cup come
    BY <2>1, <2>2 DEF Listings
  <2>. HIDE DEF gone, come
  <2>. QED
    BY <1>1, <1>3, <1>4, <1>5, <2>3, OthersStep DEF r
<1>6. CASE ~(r.op = "list" /\ ~S3!Done)
  <2>1. request' = request
    BY <1>6 DEF S3!OthersDelete
  <2>. HIDE DEF gone, come
  <2>. QED
    BY <1>1, <1>3, <1>4, <1>6, <2>1, OthersStep
<1>. QED
  BY <1>5, <1>6

LEMMA S3Step == S3Inv /\ [S3!Next]_s3vars => S3Inv'
<1>. SUFFICES ASSUME S3Inv, [S3!Next]_s3vars PROVE S3Inv'
  OBVIOUS
<1>1. CASE S3!Next
  <2>1. CASE S3!Fail
    <3>1. CASE request \in Transfers /\ TransferSound(request)
      BY <2>1, <3>1, EndStep
    <3>2. CASE request \in Listings /\ ListingSound(request)
      BY <2>1, <3>2, ListFailStep
    <3>. QED
      BY <3>1, <3>2 DEF S3Inv, RequestSound
  <2>2. ASSUME NEW applied \in BOOLEAN, NEW answered \in BOOLEAN,
               S3!Put(applied, answered) \/ S3!Delete(applied, answered)
        PROVE  S3Inv'
    BY <2>2, PutStep, DeleteStep
  <2>3. ASSUME NEW known \in BOOLEAN, S3!Get(known) PROVE S3Inv'
    BY <2>3, GetStep
  <2>4. ASSUME NEW below \in {<<>>, name}, S3!List(below) PROVE S3Inv'
    BY <2>4, ListStep
  <2>5. ASSUME NEW reach \in SUBSET S3!OthersKeys, S3!Page(reach) PROVE S3Inv'
    BY <2>5, PageStep
  <2>6. ASSUME NEW k \in S3!OthersKeys, NEW bytes \in S3!Size, S3!OthersPut(k, bytes)
        PROVE  S3Inv'
    BY <2>6, OthersPutStep
  <2>7. ASSUME NEW k \in S3!OthersKeys, S3!OthersDelete(k) PROVE S3Inv'
    BY <2>7, OthersDeleteStep
  <2>. QED
    BY <1>1, <2>1, <2>2, <2>3, <2>4, <2>5, <2>6, <2>7, AskedStep, ChunkStep, EndStep
    DEF S3!Next
<1>2. CASE UNCHANGED s3vars
  <2>1. UNCHANGED <<prefix, name, bucket, request>>
    BY <1>2 DEF s3vars
  <2>. DEFINE r == request
  <2>2. r = request'
    BY <2>1
  <2>3. BucketSound' /\ prefix' \in Key /\ name' \in Key
    BY <2>1, PlacesStay DEF S3Inv, BucketSound
  <2>4. S3!Keys' = S3!Keys
    BY <2>1 DEF S3!Keys
  <2>5. CASE r \in Transfers /\ TransferSound(r)
    <3>. HIDE DEF r
    <3>1. RequestSound'
      BY <2>1, <2>2, <2>5, TransferStep
    <3>. QED
      BY <2>3, <3>1 DEF S3Inv
  <2>6. CASE r \in Listings /\ ListingSound(r)
    <3>. HIDE DEF r
    <3>1. RequestSound'
      BY <2>1, <2>2, <2>4, <2>6, ListingStep DEF ListingSound
    <3>. QED
      BY <2>3, <3>1 DEF S3Inv
  <2>. QED
    BY <2>5, <2>6 DEF S3Inv, RequestSound
<1>. QED
  BY <1>1, <1>2

-----------------------------------------------------------------------------
(* What the invariant says of the calls *)

LEMMA BodiesAreSound == S3Inv => S3!SuccessIsDurable /\ S3!FailureIsClean
<1>1. CASE request \in Transfers /\ TransferSound(request)
  BY <1>1 DEF TransferSound, S3!SuccessIsDurable, S3!FailureIsClean
<1>2. CASE request \in Listings
  BY <1>2 DEF Listings, S3!SuccessIsDurable, S3!FailureIsClean
<1>. QED
  BY <1>1, <1>2 DEF S3Inv, RequestSound

(* what a call reaches: the base and a key without parent segments *)
LEMMA ReachedIsInside ==
  ASSUME prefix \in Key, S3!Acceptable(prefix, TRUE),
         NEW k \in Key, ~S3!HasParent(k)
  PROVE  /\ S3!StartsWith(S3!Base \o k, S3!Base)
         /\ S3!Base # <<>> => S3!Base[Len(S3!Base)] = S3!Slash
         /\ ~S3!HasParent(S3!Base \o k)
         /\ k # <<>> => S3!Base \o k # S3!Base
<1>1. S3!Base \in Key /\ (S3!Base # <<>> => S3!Base[Len(S3!Base)] = S3!Slash)
  BY BaseLeaves DEF S3!Base
<1>2. ~S3!HasParent(S3!Base \o k)
  BY NoParents DEF S3!Base, S3!Acceptable
<1>3. k # <<>> => S3!Base \o k # S3!Base
  BY <1>1, ConcatEqualIffEmpty DEF Key
<1>. QED
  BY <1>1, <1>2, <1>3, StartsAndEnds

LEMMA KeysAreInside == S3Inv => S3!KeysStayInside
<1>. SUFFICES ASSUME S3Inv, S3!Served PROVE S3!KeysStayInside
  BY DEF S3!KeysStayInside
<1>1. request.phase # "failed" /\ request.op # "test"
  BY DEF S3!Served
<1>2. CASE request.op # "list"
  <2>1. S3!Usable(FALSE)
    BY <1>1, <1>2, TransferOrListing DEF TransferSound
  <2>. DEFINE k == S3!Normalize(name)
  <2>2. k \in Key /\ ~S3!HasParent(k) /\ k # <<>> /\ S3!Acceptable(prefix, TRUE)
    BY <2>1, NormalKeys DEF S3!Usable, S3!Acceptable, S3Inv
  <2>3. S3!Target = S3!Base \o k
    BY DEF S3!Target, S3!ObjectKey, S3!Base
  <2>. HIDE DEF k
  <2>4. /\ S3!StartsWith(S3!Target, S3!Base)
        /\ S3!Base # <<>> => S3!Base[Len(S3!Base)] = S3!Slash
        /\ ~S3!HasParent(S3!Target)
        /\ S3!Target # S3!Base
    BY <2>2, <2>3, ReachedIsInside DEF S3Inv
  <2>. QED
    BY <1>2, <2>4 DEF S3!KeysStayInside
<1>3. CASE request.op = "list"
  <2>. DEFINE r == request
  <2>1. r \in Listings /\ ListedSound(r)
    BY <1>1, <1>3, TransferOrListing DEF ListingSound
  <2>2. /\ r.below \in Key /\ ~S3!HasParent(r.below) /\ S3!Acceptable(prefix, TRUE)
        /\ r.objects \in Seq(Row)
    BY <2>1 DEF ListedSound, Listings
  <2>3. /\ S3!StartsWith(S3!Base \o r.below, S3!Base)
        /\ S3!Base # <<>> => S3!Base[Len(S3!Base)] = S3!Slash
        /\ ~S3!HasParent(S3!Base \o r.below)
    BY <2>2, ReachedIsInside DEF S3Inv
  <2>4. ASSUME NEW i \in DOMAIN r.objects
        PROVE  S3!Base \o r.objects[i].shown = r.objects[i].key
    <3>. DEFINE o == r.objects[i]
    <3>1. o.key \in Key
      <4>1. o \in Row
        BY <2>2, ElementOfSeq, LenProperties
      <4>. QED
        BY <4>1 DEF Row
    <3>2. S3!StartsWith(o.key, S3!Base) /\ o.shown = S3!Shown(prefix, o.key)
      BY <2>1 DEF ListedSound, ShownSound
    <3>. HIDE DEF o
    <3>3. S3!Base \o S3!Shown(prefix, o.key) = o.key
      <4>1. S3!Shown(prefix, o.key) = SubSeq(o.key, Len(S3!Base) + 1, Len(o.key))
        BY DEF S3!Shown, S3!Base
      <4>2. S3!Base \in Key
        BY PlacesAreKeys DEF S3Inv
      <4>. QED
        BY <3>1, <3>2, <4>1, <4>2, StartsAndEnds
    <3>. QED
      BY <3>2, <3>3 DEF o
  <2>. QED
    BY <1>3, <2>3, <2>4 DEF S3!KeysStayInside
<1>. QED
  BY <1>2, <1>3

(* as many objects as different keys: a sequence without repetitions *)
LEMMA ListingsAreWhole == S3Inv => S3!ListingIsComplete
<1>. SUFFICES ASSUME S3Inv, request.op = "list", request.phase = "ok"
              PROVE  S3!ListingIsComplete
  BY DEF S3!ListingIsComplete
<1>. DEFINE r == request
            found == {r.objects[i].key : i \in DOMAIN r.objects}
<1>1. r \in Listings /\ ListedSound(r) /\ r.phase = "ok"
  BY TransferOrListing DEF ListingSound
<1>2. r.objects \in Seq(Row) /\ ShownSound(r)
  BY <1>1 DEF Listings, ListedSound
<1>3. \A k : S3!Matches(k) <=> Sought(r, k)
  BY DEF S3!Matches, Sought
<1>4. {k \in r.through : S3!Matches(k)} \subseteq found
  BY <1>1, <1>3 DEF ListedSound, Listed
<1>5. found \subseteq {k \in r.ever : S3!Matches(k)}
  BY <1>2, <1>3 DEF ShownSound
<1>6. Len(r.objects) = Cardinality(found)
  <2>. DEFINE n == Len(r.objects)
              f == [i \in 1 .. n |-> r.objects[i].key]
  <2>1. n \in Nat /\ DOMAIN r.objects = 1 .. n
    BY <1>2, LenProperties
  <2>2. f \in [1 .. n -> found]
    BY <2>1
  <2>3. \A i, j \in 1 .. n : f[i] = f[j] => i = j
    BY <1>2, <2>1 DEF ShownSound
  <2>4. \A k \in found : \E i \in 1 .. n : f[i] = k
    BY <2>1
  <2>. HIDE DEF n, f, found
  <2>5. f \in Bijection(1 .. n, found)
    BY <2>2, <2>3, <2>4 DEF Bijection, Injection, Surjection, IsInjective
  <2>6. ExistsBijection(1 .. n, found)
    BY <2>5 DEF ExistsBijection
  <2>7. Cardinality(found) = n
    BY <2>1, <2>6, FS_CountingElements
  <2>. QED
    BY <2>7 DEF n
<1>7. Len(r.objects) = S3!Cardinality(found)
  <2>. HIDE DEF found
  <2>. QED
    BY <1>6, SameCardinality
<1>. QED
  BY <1>4, <1>5, <1>7 DEF S3!ListingIsComplete

(* what was put at Base \o k shows as k, and k opens it if normalising keeps k *)
LEMMA ListedOpen == S3Inv => S3!ListedOpensItself
<1>. SUFFICES ASSUME S3Inv, request.op = "list", request.phase # "failed",
                     NEW i \in DOMAIN request.objects,
                     \E q \in bucket : q.key = request.objects[i].key /\ q.mine
              PROVE  (/\ S3!Acceptable(request.objects[i].shown, FALSE)
                      /\ S3!ObjectKey(prefix, request.objects[i].shown)
                            = request.objects[i].key)
                     <=> request.objects[i].shown[1] # S3!Blank
  BY DEF S3!ListedOpensItself
<1>. DEFINE o == request.objects[i]
            k == S3!Normalize(name)
<1>1. o.shown = S3!Shown(prefix, o.key)
  BY TransferOrListing DEF ListingSound, ListedSound, ShownSound
<1>2. o.key = S3!Target /\ S3!Usable(FALSE)
  BY DEF S3Inv, BucketSound
<1>3. S3!Target = S3!Base \o k /\ S3!Base \in Key /\ k \in Key /\ name \in Key
  BY PlacesAreKeys, NormalKeys DEF S3Inv, S3!Target, S3!ObjectKey, S3!Base
<1>4. o.shown = k
  <2>1. S3!Shown(prefix, S3!Target)
          = SubSeq(S3!Base \o k, Len(S3!Base) + 1, Len(S3!Base \o k))
    BY <1>3 DEF S3!Shown, S3!Base
  <2>. HIDE DEF k, o
  <2>. QED
    BY <1>1, <1>2, <1>3, <2>1, StartsAndEnds
<1>5. k # <<>> /\ ~S3!HasParent(k)
  BY <1>2 DEF S3!Usable, S3!Acceptable
<1>6. S3!Normalize(k) = k <=> k[1] # S3!Blank
  <2>1. Len(k) > 0
    BY <1>3, <1>5, EmptySeq DEF Key
  <2>. QED
    BY <1>3, <2>1, NormalAgain, BlanksAreCut
<1>7. S3!ObjectKey(prefix, k) = S3!Base \o S3!Normalize(k)
  BY DEF S3!ObjectKey, S3!Base
<1>8. S3!Base \o S3!Normalize(k) = S3!Base \o k => S3!Normalize(k) = k
  <2>1. S3!Normalize(k) \in Key
    BY <1>3, NormalKeys
  <2>. DEFINE n == S3!Normalize(k)
              b == S3!Base
  <2>. HIDE DEF k, n, b
  <2>2. /\ SubSeq(b \o n, Len(b) + 1, Len(b \o n)) = n
        /\ SubSeq(b \o k, Len(b) + 1, Len(b \o k)) = k
    BY <1>3, <2>1, StartsAndEnds DEF b, n
  <2>. QED
    BY <2>2 DEF b, n
<1>9. S3!Normalize(k) = k => S3!Acceptable(k, FALSE)
  BY <1>5 DEF S3!Acceptable
<1>. QED
  BY <1>2, <1>3, <1>4, <1>6, <1>7, <1>8, <1>9

-----------------------------------------------------------------------------
(* Both gateways *)

ProxyInv == kind \in {"s3", "sql"} /\ SqlInv /\ S3Inv

(* a call on the one gateway is none on the other *)
LEMMA ProxyInvariant == Spec => []ProxyInv
<1>1. Init => ProxyInv
  BY SqlInit, S3Init DEF Init, ProxyInv
<1>2. ProxyInv /\ [Next]_<<kind, s3vars, sqlvars>> => ProxyInv'
  <2>. SUFFICES ASSUME ProxyInv, [Next]_<<kind, s3vars, sqlvars>> PROVE ProxyInv'
    OBVIOUS
  <2>1. [SQL!Next]_sqlvars /\ [S3!Next]_s3vars /\ UNCHANGED kind
    BY DEF Next
  <2>. QED
    BY <2>1, SqlStep, S3Step DEF ProxyInv
<1>. QED
  BY <1>1, <1>2, PTL DEF Spec

(***************************************************************************)
(* exec, uploadS3, downloadS3, deleteS3: success means done for good, and  *)
(* with the whole body.                                                    *)
(***************************************************************************)
THEOREM SuccessesLast == Spec => []SuccessIsDurable
<1>1. ProxyInv => SuccessIsDurable
  BY BodiesAreSound DEF ProxyInv, SqlInv, SuccessIsDurable
<1>. QED
  BY <1>1, ProxyInvariant, PTL

(***************************************************************************)
(* The same operations: what was not answered with success has changed     *)
(* nothing, unless the answer was lost or the text committed by itself;    *)
(* an exec's COMMIT is never sent for a caller that hung up before.        *)
(***************************************************************************)
THEOREM FailuresLeaveNothing == Spec => []FailureIsClean
<1>1. ProxyInv => FailureIsClean
  BY BodiesAreSound DEF ProxyInv, SqlInv, FailureIsClean
<1>. QED
  BY <1>1, ProxyInvariant, PTL

(***************************************************************************)
(* The finally blocks of DriverSQLGateway: no transaction waits on a       *)
(* connection that is up, and the only one without its end() broke before  *)
(* the ROLLBACK.                                                           *)
(***************************************************************************)
THEOREM ConnectionsAreReleased == Spec => []NothingLeftOpen
<1>1. ProxyInv => NothingLeftOpen
  BY DEF ProxyInv, SqlInv, NothingLeftOpen
<1>. QED
  BY <1>1, ProxyInvariant, PTL

(* objectKey and listS3: no call reaches beyond the connection's prefix *)
THEOREM CallsStayInside == Spec => []KeysStayInside
<1>1. ProxyInv => KeysStayInside
  BY KeysAreInside DEF ProxyInv, KeysStayInside
<1>. QED
  BY <1>1, ProxyInvariant, PTL

(* listS3: nothing is missed, invented or shown twice, page after page *)
THEOREM ListingsAreComplete == Spec => []ListingIsComplete
<1>1. ProxyInv => ListingIsComplete
  BY ListingsAreWhole DEF ProxyInv, ListingIsComplete
<1>. QED
  BY <1>1, ProxyInvariant, PTL

(***************************************************************************)
(* normalizeRelativeKey: the key a listing shows for an object uploaded    *)
(* here opens it exactly when it does not begin with a blank.              *)
(***************************************************************************)
THEOREM ListedOpensItselfAlways == Spec => []ListedOpensItself
<1>1. ProxyInv => ListedOpensItself
  BY ListedOpen DEF ProxyInv, ListedOpensItself
<1>. QED
  BY <1>1, ProxyInvariant, PTL

=============================================================================
