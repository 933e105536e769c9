------------------------- MODULE HttpConnectionProofs -------------------------
(***************************************************************************)
(* Proofs about one HTTP connection, for every number of requests and      *)
(* every length of a query string, and about ParseQuery for every string.  *)
(***************************************************************************)
EXTENDS HttpConnection, Integers, TLAPS, FiniteSetTheorems, SequenceTheorems,
        WellFoundedInduction

-----------------------------------------------------------------------------
(* Induction.                                                              *)

\* Every set of naturals that is not empty has a least element.
LEMMA LeastNatural ==
    ASSUME NEW S \in SUBSET Nat, S # {}
    PROVE  \E x \in S : \A y \in S : x <= y
<1>1. PICK x \in S : \A y \in S : ~ (<<y, x>> \in OpToRel(<, Nat))
  BY NatLessThanWellFounded, WFMin
<1>2. \A y \in S : y < x => <<y, x>> \in OpToRel(<, Nat)
  BY DEF OpToRel
<1>3. \A y \in S : ~ (y < x)
  BY <1>1, <1>2, Zenon
<1>4. \A y \in S : y \in Nat
  OBVIOUS
<1> QED
  BY <1>3, <1>4

LEMMA SetInduction ==
    ASSUME NEW S \in SUBSET Nat, 0 \in S, \A n \in S : n + 1 \in S
    PROVE  S = Nat
<1> SUFFICES ASSUME Nat \ S # {} PROVE FALSE
  OBVIOUS
<1>1. PICK x \in Nat \ S : \A y \in Nat \ S : x <= y
  BY LeastNatural
<1>2. x # 0 /\ x - 1 \in Nat
  BY <1>1
<1>3. x - 1 \in S
  BY <1>1, <1>2
<1>4. (x - 1) + 1 \in S
  BY <1>3
<1> QED
  BY <1>1, <1>4

-----------------------------------------------------------------------------
(* ParseQuery.                                                             *)

Begin == [key |-> <<>>, pos |-> 1, queries |-> NoQueries]

\* The turns of the loop are a function: they can be taken one by one.
LEMMA TurnsExist ==
    ASSUME NEW str, NEW l \in Nat, Len(str) = l
    PROVE  /\ Turns(str)[0] = Begin
           /\ \A i \in 1 .. l : Turns(str)[i] = Turn(str, Turns(str)[i - 1], i)
<1> DEFINE Def(f, n) == f = [i \in 0 .. n |-> IF i = 0 THEN Begin ELSE Turn(str, f[i - 1], i)]
           S == {n \in Nat : \E f : Def(f, n)}
<1>1. 0 \in S
  <2>1. PICK f : f = [i \in 0 .. 0 |-> Begin]
    OBVIOUS
  <2>2. \A i \in 0 .. 0 : i = 0
    OBVIOUS
  <2>3. Def(f, 0)
    BY <2>1, <2>2
  <2> QED
    BY <2>3
<1>2. ASSUME NEW n \in S PROVE n + 1 \in S
  <2>1. PICK f : Def(f, n)
    OBVIOUS
  <2>2. PICK g : g = [i \in 0 .. n + 1 |-> IF i = n + 1 THEN Turn(str, f[n], n + 1) ELSE f[i]]
    OBVIOUS
  <2>3. \A i \in 0 .. n : g[i] = f[i]
    BY <2>2
  <2>4. g[n + 1] = Turn(str, g[n], n + 1)
    BY <2>2, <2>3
  <2>5. \A i \in 0 .. n : g[i] = IF i = 0 THEN Begin ELSE Turn(str, g[i - 1], i)
    BY <2>1, <2>3
  <2>6. Def(g, n + 1)
    <3>1. PICK m \in Nat : m = n + 1 /\ m # 0 /\ m - 1 = n
      OBVIOUS
    <3>2. \A i \in 0 .. m : i \in 0 .. n \/ i = m
      BY <3>1
    <3>3. \A i \in 0 .. m : g[i] = IF i = 0 THEN Begin ELSE Turn(str, g[i - 1], i)
      BY <2>4, <2>5, <3>1, <3>2
    <3>4. g = [i \in 0 .. m |-> g[i]]
      BY <2>2, <3>1
    <3> HIDE DEF S
    <3>5. Def(g, m)
      BY <3>3, <3>4
    <3> QED
      BY <3>1, <3>5
  <2> QED
    BY <2>6
<1>3. S = Nat
  <2> HIDE DEF S
  <2>1. S \in SUBSET Nat
    BY DEF S
  <2> QED
    BY <1>1, <1>2, <2>1, SetInduction
<1>4. PICK f : Def(f, l)
  BY <1>3
<1>5. Turns(str) = CHOOSE g : Def(g, l)
  BY DEF Turns, Begin
<1>6. Def(Turns(str), l)
  BY <1>4, <1>5
<1> QED
  BY <1>6

State(k, p, q) == [key |-> k, pos |-> p, queries |-> q]

LEMMA OneTurn ==
    ASSUME NEW str, NEW i, NEW k, NEW p, NEW q
    PROVE  LET s == Turn(str, State(k, p, q), i) IN
           /\ str[i] = Equals => s = State(SubSeq(str, p, i - 1), i + 1, q)
           /\ str[i] = Ampersand => s = State(k, i + 1, Emplace(q, k, SubSeq(str, p, i - 1)))
           /\ str[i] \notin {Equals, Ampersand} => s = State(k, p, q)
BY DEF Turn, State, Equals, Ampersand

LEMMA EmplaceFacts ==
    ASSUME NEW q, NEW k, NEW v
    PROVE  LET r == Emplace(q, k, v) IN
           /\ \A x : x \in DOMAIN r <=> x \in DOMAIN q \/ x = k
           /\ \A x \in DOMAIN q : r[x] = q[x]
           /\ k \notin DOMAIN q => r[k] = v
BY DEF Emplace, Assign

\* A part of a string is a string that is not longer.
LEMMA PartOfString ==
    ASSUME NEW str \in Seq(Characters), NEW i \in 1 .. Len(str) + 1, NEW j \in 0 .. Len(str)
    PROVE  SubSeq(str, i, j) \in Seq(Characters) /\ Len(SubSeq(str, i, j)) <= Len(str)
<1>1. PICK l \in Nat : l = Len(str)
  OBVIOUS
<1>2. i \in Nat /\ i >= 1 /\ i <= l + 1 /\ j \in Nat /\ j <= l
  BY <1>1
<1>3. CASE i <= j
  BY <1>1, <1>2, <1>3, SubSeqProperties
<1>4. CASE ~(i <= j)
  BY <1>1, <1>2, <1>4, SubSeqProperties
<1> QED
  BY <1>3, <1>4

Parts(str) == {t \in Seq(Characters) : Len(t) <= Len(str)}

\* Every key is a part of the string.
LEMMA KeysAreParts ==
    ASSUME NEW str \in Seq(Characters)
    PROVE  DOMAIN ParseQuery(str) \subseteq Parts(str)
<1>1. PICK l \in Nat : l = Len(str)
  OBVIOUS
<1> DEFINE Typed(n) == \E k, p, q :
                           /\ k \in Parts(str) /\ p \in 1 .. n + 1
                           /\ Turns(str)[n] = State(k, p, q)
                           /\ DOMAIN q \subseteq Parts(str)
           S == {n \in Nat : n <= l => Typed(n)}
<1>2. 0 \in S
  <2>1. Turns(str)[0] = State(<<>>, 1, NoQueries)
    BY <1>1, TurnsExist DEF Begin, State
  <2>2. <<>> \in Parts(str)
    BY EmptySeq DEF Parts
  <2>3. DOMAIN NoQueries \subseteq Parts(str)
    BY DEF NoQueries
  <2>4. Typed(0)
    BY <2>1, <2>2, <2>3
  <2> QED
    BY <2>4
<1>3. ASSUME NEW n \in S PROVE n + 1 \in S
  <2>1. SUFFICES ASSUME n + 1 <= l PROVE Typed(n + 1)
    OBVIOUS
  <2>2. PICK k, p, q :
            /\ k \in Parts(str) /\ p \in 1 .. n + 1
            /\ Turns(str)[n] = State(k, p, q)
            /\ DOMAIN q \subseteq Parts(str)
    BY <2>1
  <2>3. PICK m \in 1 .. l : m = n + 1 /\ m - 1 = n
    BY <2>1
  <2>4. Turns(str)[m] = Turn(str, State(k, p, q), m)
    BY <1>1, <2>2, <2>3, TurnsExist
  <2>5. SubSeq(str, p, m - 1) \in Parts(str)
    BY <1>1, <2>2, <2>3, PartOfString DEF Parts
  <2>6. str[m] \in Characters
    BY <1>1
  <2>7. CASE str[m] = Equals
    BY <2>2, <2>3, <2>4, <2>5, <2>7, OneTurn
  <2>8. CASE str[m] = Ampersand
    <3>1. DOMAIN Emplace(q, k, SubSeq(str, p, m - 1)) \subseteq Parts(str)
      BY <2>2, EmplaceFacts
    <3> QED
      BY <2>2, <2>3, <2>4, <2>8, <3>1, OneTurn
  <2>9. CASE str[m] \notin {Equals, Ampersand}
    BY <2>2, <2>3, <2>4, <2>9, OneTurn
  <2> QED
    BY <2>7, <2>8, <2>9
<1>4. S = Nat
  <2> HIDE DEF S
  <2>1. S \in SUBSET Nat
    BY DEF S
  <2> QED
    BY <1>2, <1>3, <2>1, SetInduction
<1>5. PICK k, p, q :
          /\ k \in Parts(str) /\ p \in 1 .. l + 1
          /\ AfterLoop(str) = State(k, p, q)
          /\ DOMAIN q \subseteq Parts(str)
  BY <1>1, <1>4 DEF AfterLoop
<1>6. ParseQuery(str) = IF p = 1 THEN NoQueries ELSE Emplace(q, k, SubSeq(str, p, Len(str)))
  BY <1>5 DEF ParseQuery, State
<1>7. DOMAIN Emplace(q, k, SubSeq(str, p, Len(str))) \subseteq Parts(str)
  BY <1>5, EmplaceFacts
<1> QED
  BY <1>6, <1>7 DEF NoQueries

-----------------------------------------------------------------------------
(* ParseQuery and the reference: what the loop knows after i characters of *)
(* a well-formed string.                                                   *)

\* The token that is being read has begun at st.
TokenFrom(str, i, st) == /\ st \in 1 .. i + 1
                         /\ st = 1 \/ str[st - 1] = Ampersand
                         /\ \A j \in st .. i : str[j] # Ampersand

\* Its key has been read if its equals sign has.
NoKeyYet(str, i, st, p)  == p = st /\ \A j \in st .. i : str[j] # Equals
KeyRead(str, i, st, k, p) ==
    \E e \in st .. i : /\ str[e] = Equals
                       /\ \A j \in st .. i : str[j] = Equals => j = e
                       /\ k = SubSeq(str, st, e - 1)
                       /\ p = e + 1

\* The tokens that have ended have been found, and each key has its first value.
Found(str, i, q) ==
    /\ \A b \in Bounds(str) : b[2] < i => KeyIn(str, b) \in DOMAIN q
    /\ \A x \in DOMAIN q :
           \E b \in Bounds(str) : /\ b[2] < i
                                  /\ KeyIn(str, b) = x /\ q[x] = ValueIn(str, b)
                                  /\ \A c \in Bounds(str) : KeyIn(str, c) = x => b[1] <= c[1]

IsToken(str, l, f, t) == /\ f <= t + 1
                         /\ f = 1 \/ str[f - 1] = Ampersand
                         /\ t = l \/ str[t + 1] = Ampersand
                         /\ \A i \in f .. t : str[i] # Ampersand

LEMMA BoundsAre ==
    ASSUME NEW str, NEW l, l = Len(str)
    PROVE  /\ \A b \in Bounds(str) : \E f \in 1 .. l + 1, t \in 0 .. l :
                  b = <<f, t>> /\ IsToken(str, l, f, t)
           /\ \A f \in 1 .. l + 1, t \in 0 .. l :
                  IsToken(str, l, f, t) => <<f, t>> \in Bounds(str)
<1>1. ASSUME NEW b \in Bounds(str)
      PROVE  \E f \in 1 .. l + 1, t \in 0 .. l : b = <<f, t>> /\ IsToken(str, l, f, t)
  <2>1. PICK f \in 1 .. l + 1, t \in 0 .. l : b = <<f, t>>
    BY DEF Bounds
  <2>2. b[1] = f /\ b[2] = t
    BY <2>1
  <2>3. IsToken(str, l, f, t)
    BY <2>2 DEF Bounds, IsToken
  <2> QED
    BY <2>1, <2>3
<1>2. ASSUME NEW f \in 1 .. l + 1, NEW t \in 0 .. l, IsToken(str, l, f, t)
      PROVE  <<f, t>> \in Bounds(str)
  <2>1. PICK b : b = <<f, t>>
    OBVIOUS
  <2>2. b[1] = f /\ b[2] = t /\ b \in (1 .. Len(str) + 1) \X (0 .. Len(str))
    BY <2>1
  <2>3. b \in Bounds(str)
    BY <1>2, <2>2 DEF Bounds, IsToken
  <2> QED
    BY <2>1, <2>3
<1> QED
  BY <1>1, <1>2

\* Tokens that begin together end together; those that begin earlier end earlier.
LEMMA BoundsApart ==
    ASSUME NEW str \in Seq(Characters), NEW b \in Bounds(str), NEW c \in Bounds(str)
    PROVE  /\ b[1] \in Nat /\ b[2] \in Nat /\ b[2] <= Len(str) /\ b[1] <= b[2] + 1
           /\ b[1] = c[1] => b = c
           /\ c[1] < b[1] => c[2] + 1 < b[1]
<1>1. PICK l \in Nat : l = Len(str)
  OBVIOUS
<1>2. PICK f \in 1 .. l + 1, t \in 0 .. l : b = <<f, t>> /\ IsToken(str, l, f, t)
  BY <1>1, BoundsAre
<1>3. PICK g \in 1 .. l + 1, u \in 0 .. l : c = <<g, u>> /\ IsToken(str, l, g, u)
  BY <1>1, BoundsAre
<1> USE DEF IsToken
<1>4. ASSUME f = g PROVE t = u
  <2>1. CASE t < u
    <3>1. t + 1 \in g .. u /\ t # l
      BY <1>2, <1>3, <1>4, <2>1
    <3> QED
      BY <1>2, <1>3, <3>1
  <2>2. CASE u < t
    <3>1. u + 1 \in f .. t /\ u # l
      BY <1>2, <1>3, <1>4, <2>2
    <3> QED
      BY <1>2, <1>3, <3>1
  <2> QED
    BY <2>1, <2>2
<1>5. ASSUME g < f PROVE u + 1 < f
  <2>1. SUFFICES ASSUME u + 1 >= f PROVE FALSE
    OBVIOUS
  <2>2. f - 1 \in g .. u /\ f # 1
    BY <1>5, <2>1
  <2> QED
    BY <1>2, <1>3, <2>2
<1> QED
  BY <1>1, <1>2, <1>3, <1>4, <1>5

\* A token that has begun ends somewhere.
LEMMA TokenEnds ==
    ASSUME NEW str \in Seq(Characters), NEW i \in 0 .. Len(str), NEW st, TokenFrom(str, i, st)
    PROVE  \E b \in Bounds(str) : b[1] = st /\ b[2] >= i
<1>1. PICK l \in Nat : l = Len(str)
  OBVIOUS
<1> DEFINE S == {x \in Nat : x >= i /\ x <= l /\ (x = l \/ str[x + 1] = Ampersand)}
<1>2. PICK t \in S : \A y \in S : t <= y
  <2>1. l \in S
    BY <1>1
  <2> HIDE DEF S
  <2>2. S \in SUBSET Nat
    BY DEF S
  <2> QED
    BY <2>1, <2>2, LeastNatural
<1>3. t \in Nat /\ t >= i /\ t <= l /\ (t = l \/ str[t + 1] = Ampersand)
  OBVIOUS
<1>4. st \in 1 .. i + 1
  BY DEF TokenFrom
<1>5. ASSUME NEW j \in st .. t PROVE str[j] # Ampersand
  <2>1. CASE j <= i
    BY <1>4, <2>1 DEF TokenFrom
  <2>2. CASE j > i
    <3>1. j - 1 \in Nat /\ j - 1 >= i /\ j - 1 <= l /\ ~(t <= j - 1) /\ (j - 1) + 1 = j
      BY <1>3, <1>4, <2>2
    <3>2. j - 1 \notin S
      BY <1>2, <3>1
    <3> QED
      BY <3>1, <3>2
  <2> QED
    BY <1>3, <1>4, <2>1, <2>2
<1>6. <<st, t>> \in Bounds(str)
  <2>1. st \in 1 .. l + 1 /\ t \in 0 .. l /\ st <= t + 1
    BY <1>1, <1>3, <1>4
  <2> QED
    BY <1>1, <1>3, <1>5, <2>1, BoundsAre DEF TokenFrom, IsToken
<1> QED
  BY <1>3, <1>6

\* The key and the value of a token with one equals sign.
LEMMA KeyAndValue ==
    ASSUME NEW str, NEW b, NEW e \in b[1] .. b[2], str[e] = Equals,
           \A j \in b[1] .. b[2] : str[j] = Equals => j = e
    PROVE  /\ KeyIn(str, b) = SubSeq(str, b[1], e - 1)
           /\ ValueIn(str, b) = SubSeq(str, e + 1, b[2])
<1>1. EqualsIn(str, b) = {e}
  BY DEF EqualsIn
<1>2. (CHOOSE i \in EqualsIn(str, b) : TRUE) = e
  BY <1>1
<1> QED
  BY <1>2 DEF KeyIn, ValueIn

LEMMA OneEquals ==
    ASSUME NEW str, WellFormed(str), NEW b \in Bounds(str)
    PROVE  \E e \in b[1] .. b[2] : /\ str[e] = Equals
                                   /\ \A j \in b[1] .. b[2] : str[j] = Equals => j = e
<1>1. PICK e \in b[1] .. b[2] : EqualsIn(str, b) = {e}
  BY DEF WellFormed
<1> QED
  BY <1>1 DEF EqualsIn

\* At the end of a token its key is read, and the token is found.
LEMMA TokenFound ==
    ASSUME NEW str \in Seq(Characters), WellFormed(str), NEW i \in 0 .. Len(str),
           NEW st, NEW k, NEW p, NEW q,
           TokenFrom(str, i, st), i = Len(str) \/ str[i + 1] = Ampersand,
           NoKeyYet(str, i, st, p) \/ KeyRead(str, i, st, k, p),
           Found(str, i, q)
    PROVE  p # 1 /\ Found(str, i + 1, Emplace(q, k, SubSeq(str, p, i)))
<1>1. PICK l \in Nat : l = Len(str)
  OBVIOUS
<1>2. PICK b : b = <<st, i>>
  OBVIOUS
<1>3. b \in Bounds(str) /\ b[1] = st /\ b[2] = i
  <2>1. st \in 1 .. i + 1 /\ i \in 0 .. l
    BY <1>1 DEF TokenFrom
  <2>2. st \in 1 .. l + 1 /\ st <= i + 1
    BY <2>1
  <2> QED
    BY <1>1, <1>2, <2>1, <2>2, BoundsAre DEF TokenFrom, IsToken
<1>4. PICK d \in st .. i : str[d] = Equals
  BY <1>3, OneEquals
<1>5. KeyRead(str, i, st, k, p)
  BY <1>4 DEF NoKeyYet
<1>6. PICK e \in st .. i : /\ str[e] = Equals
                           /\ \A j \in st .. i : str[j] = Equals => j = e
                           /\ k = SubSeq(str, st, e - 1)
                           /\ p = e + 1
  BY <1>5 DEF KeyRead
<1>7. p # 1
  BY <1>6 DEF TokenFrom
<1>8. PICK v : v = SubSeq(str, p, i)
  OBVIOUS
<1>9. KeyIn(str, b) = k /\ ValueIn(str, b) = v
  BY <1>3, <1>6, <1>8, KeyAndValue
<1>10. PICK r : r = Emplace(q, k, v)
  OBVIOUS
<1>11. /\ \A x : x \in DOMAIN r <=> x \in DOMAIN q \/ x = k
       /\ \A x \in DOMAIN q : r[x] = q[x]
       /\ k \notin DOMAIN q => r[k] = v
  BY <1>10, EmplaceFacts
<1>12. ASSUME NEW c \in Bounds(str), c[2] < i + 1 PROVE KeyIn(str, c) \in DOMAIN r
  <2>1. CASE c[2] < i
    BY <1>11, <2>1 DEF Found
  <2>2. CASE c[2] >= i
    <3>1. c[2] = i /\ c[1] \in Nat /\ c[1] <= i + 1
      BY <1>12, <2>2, BoundsApart
    <3>2. c[1] = st
      <4>1. st \in Nat /\ st <= i + 1
        BY <1>3, BoundsApart
      <4>2. CASE c[1] < st
        <5>1. c[2] + 1 < st
          BY <1>3, <4>2, BoundsApart
        <5> QED
          BY <3>1, <4>1, <5>1, <1>6
      <4>3. CASE st < c[1]
        <5>1. b[2] + 1 < c[1]
          BY <1>3, <4>3, BoundsApart
        <5> QED
          BY <1>3, <3>1, <5>1
      <4> QED
        BY <3>1, <4>1, <4>2, <4>3
    <3>3. c = b
      BY <1>3, <3>2, BoundsApart
    <3> QED
      BY <1>9, <1>11, <3>3
  <2>3. c[2] \in Nat
    BY BoundsApart
  <2> QED
    BY <2>1, <2>2, <2>3
<1>13. ASSUME NEW x \in DOMAIN r
       PROVE  \E c \in Bounds(str) : /\ c[2] < i + 1
                                     /\ KeyIn(str, c) = x /\ r[x] = ValueIn(str, c)
                                     /\ \A a \in Bounds(str) : KeyIn(str, a) = x => c[1] <= a[1]
  <2>1. CASE x \in DOMAIN q
    <3>1. PICK c \in Bounds(str) : /\ c[2] < i
                                   /\ KeyIn(str, c) = x /\ q[x] = ValueIn(str, c)
                                   /\ \A a \in Bounds(str) : KeyIn(str, a) = x => c[1] <= a[1]
      BY <2>1 DEF Found
    <3>2. c[2] < i + 1
      BY <3>1, BoundsApart
    <3> QED
      BY <1>11, <2>1, <3>1, <3>2
  <2>2. CASE x \notin DOMAIN q
    <3>1. x = k /\ r[x] = v
      BY <1>11, <1>13, <2>2
    <3>2. ASSUME NEW a \in Bounds(str), KeyIn(str, a) = x, a[1] < st PROVE FALSE
      <4>1. a[2] + 1 < st /\ a[2] \in Nat
        BY <1>3, <3>2, BoundsApart
      <4>2. a[2] < i
        BY <1>6, <4>1 DEF TokenFrom
      <4> QED
        BY <2>2, <3>2, <4>2 DEF Found
    <3>3. \A a \in Bounds(str) : KeyIn(str, a) = x => b[1] <= a[1]
      <4>1. \A a \in Bounds(str) : a[1] \in Nat
        BY BoundsApart
      <4>2. st \in Nat
        BY <1>3, <4>1
      <4> QED
        BY <1>3, <3>2, <4>1, <4>2
    <3>4. b[2] < i + 1
      BY <1>3
    <3> QED
      BY <1>3, <1>9, <3>1, <3>3, <3>4
  <2> QED
    BY <2>1, <2>2
<1>14. Found(str, i + 1, r)
  BY <1>12, <1>13 DEF Found
<1> QED
  BY <1>7, <1>8, <1>10, <1>14

\* Within a token no other ends.
LEMMA FoundOn ==
    ASSUME NEW str \in Seq(Characters), NEW i \in 0 .. Len(str), i < Len(str),
           str[i + 1] # Ampersand, NEW q, Found(str, i, q)
    PROVE  Found(str, i + 1, q)
<1>1. PICK l \in Nat : l = Len(str)
  OBVIOUS
<1>2. ASSUME NEW b \in Bounds(str), b[2] < i + 1 PROVE b[2] < i
  <2>1. PICK f \in 1 .. l + 1, t \in 0 .. l : b = <<f, t>> /\ IsToken(str, l, f, t)
    BY <1>1, BoundsAre
  <2>2. b[2] = t
    BY <2>1
  <2>3. t # i
    BY <1>1, <2>1 DEF IsToken
  <2> QED
    BY <1>2, <2>2, <2>3
<1>3. \A b \in Bounds(str) : b[2] < i => b[2] < i + 1
  BY BoundsApart
<1> QED
  BY <1>2, <1>3 DEF Found

\* The loop is where it should be, after every character of a well-formed string.
LEMMA LoopFinds ==
    ASSUME NEW str \in Seq(Characters), WellFormed(str), NEW n \in 0 .. Len(str)
    PROVE  \E k, p, q, st : /\ Turns(str)[n] = State(k, p, q)
                            /\ TokenFrom(str, n, st)
                            /\ NoKeyYet(str, n, st, p) \/ KeyRead(str, n, st, k, p)
                            /\ Found(str, n, q)
<1>1. PICK l \in Nat : l = Len(str)
  OBVIOUS
<1> DEFINE Loop(i) == \E k, p, q, st : /\ Turns(str)[i] = State(k, p, q)
                                       /\ TokenFrom(str, i, st)
                                       /\ NoKeyYet(str, i, st, p) \/ KeyRead(str, i, st, k, p)
                                       /\ Found(str, i, q)
           S == {i \in Nat : i <= l => Loop(i)}
<1>2. 0 \in S
  <2>1. Turns(str)[0] = State(<<>>, 1, NoQueries)
    BY <1>1, TurnsExist DEF Begin, State
  <2>2. TokenFrom(str, 0, 1) /\ NoKeyYet(str, 0, 1, 1)
    BY DEF TokenFrom, NoKeyYet
  <2>3. Found(str, 0, NoQueries)
    <3>1. \A b \in Bounds(str) : ~(b[2] < 0)
      BY BoundsApart
    <3> QED
      BY <3>1 DEF Found, NoQueries
  <2>4. Loop(0)
    BY <2>1, <2>2, <2>3
  <2> QED
    BY <2>4
<1>3. ASSUME NEW i \in S PROVE i + 1 \in S
  <2>1. SUFFICES ASSUME i + 1 <= l PROVE Loop(i + 1)
    OBVIOUS
  <2>2. PICK k, p, q, st : /\ Turns(str)[i] = State(k, p, q)
                           /\ TokenFrom(str, i, st)
                           /\ NoKeyYet(str, i, st, p) \/ KeyRead(str, i, st, k, p)
                           /\ Found(str, i, q)
    BY <2>1
  <2> HIDE DEF S
  <2>3. i \in Nat
    BY DEF S
  <2>4. PICK m \in 1 .. l : m = i + 1 /\ m - 1 = i
    BY <2>1, <2>3
  <2>5. Turns(str)[m] = Turn(str, State(k, p, q), m)
    BY <1>1, <2>2, <2>4, TurnsExist
  <2>6. i \in 0 .. Len(str) /\ i < Len(str) /\ st \in 1 .. m
    BY <1>1, <2>2, <2>4 DEF TokenFrom
  <2>7. str[m] # Ampersand => TokenFrom(str, m, st) /\ Found(str, m, q)
    <3> SUFFICES ASSUME str[m] # Ampersand PROVE TokenFrom(str, m, st) /\ Found(str, m, q)
      OBVIOUS
    <3>1. Found(str, m, q)
      BY <2>2, <2>4, <2>6, FoundOn
    <3>2. \A j \in st .. m : j \in st .. i \/ j = m
      BY <2>4, <2>6
    <3> QED
      <4>1. \A j \in st .. m : str[j] # Ampersand
        BY <2>2, <3>2 DEF TokenFrom
      <4>2. st \in 1 .. m + 1
        BY <2>6
      <4> QED
        BY <2>2, <3>1, <4>1, <4>2 DEF TokenFrom
  <2>8. CASE str[m] = Equals
    <3>1. Turns(str)[m] = State(SubSeq(str, p, m - 1), m + 1, q)
      BY <2>5, <2>8, OneTurn
    <3>2. TokenFrom(str, m, st) /\ Found(str, m, q)
      BY <2>7, <2>8 DEF Equals, Ampersand
    <3>3. ~KeyRead(str, i, st, k, p)
      <4>1. SUFFICES ASSUME KeyRead(str, i, st, k, p) PROVE FALSE
        OBVIOUS
      <4>2. PICK e \in st .. i : str[e] = Equals
        BY <4>1 DEF KeyRead
      <4>3. m \in 0 .. Len(str)
        BY <1>1
      <4>4. PICK b \in Bounds(str) : b[1] = st /\ b[2] >= m
        BY <3>2, <4>3, TokenEnds
      <4>5. PICK d \in b[1] .. b[2] : \A j \in b[1] .. b[2] : str[j] = Equals => j = d
        BY OneEquals
      <4>6. b[2] \in Nat
        BY BoundsApart
      <4>7. e \in b[1] .. b[2] /\ m \in b[1] .. b[2] /\ e # m
        BY <2>4, <2>6, <4>4, <4>6
      <4> QED
        BY <2>8, <4>2, <4>5, <4>7
    <3>4. p = st /\ \A j \in st .. i : str[j] # Equals
      BY <2>2, <3>3 DEF NoKeyYet
    <3>5. KeyRead(str, m, st, SubSeq(str, p, m - 1), m + 1)
      <4>1. m \in st .. m /\ \A j \in st .. m : str[j] = Equals => j = m
        BY <2>4, <2>6, <3>4
      <4> QED
        BY <2>8, <3>4, <4>1 DEF KeyRead
    <3>6. Loop(m)
      BY <3>1, <3>2, <3>5
    <3> QED
      BY <2>4, <3>6
  <2>9. CASE str[m] = Ampersand
    <3>1. Turns(str)[m] = State(k, m + 1, Emplace(q, k, SubSeq(str, p, m - 1)))
      BY <2>5, <2>9, OneTurn
    <3>2. Found(str, m, Emplace(q, k, SubSeq(str, p, m - 1)))
      BY <2>2, <2>4, <2>6, <2>9, TokenFound
    <3>3. TokenFrom(str, m, m + 1) /\ NoKeyYet(str, m, m + 1, m + 1)
      BY <2>9 DEF TokenFrom, NoKeyYet
    <3>4. Loop(m)
      BY <3>1, <3>2, <3>3
    <3> QED
      BY <2>4, <3>4
  <2>10. CASE str[m] \notin {Equals, Ampersand}
    <3>1. Turns(str)[m] = State(k, p, q)
      BY <2>5, <2>10, OneTurn
    <3>2. TokenFrom(str, m, st) /\ Found(str, m, q)
      BY <2>7, <2>10
    <3>3. \A j \in st .. m : j \in st .. i \/ j = m
      BY <2>4, <2>6
    <3>4. \A j \in st .. i : j \in st .. m
      BY <2>4, <2>6
    <3>5. NoKeyYet(str, m, st, p) \/ KeyRead(str, m, st, k, p)
      BY <2>2, <2>10, <3>3, <3>4 DEF NoKeyYet, KeyRead
    <3>6. Loop(m)
      BY <3>1, <3>2, <3>5
    <3> QED
      BY <2>4, <3>6
  <2> QED
    BY <2>8, <2>9, <2>10
<1>4. S = Nat
  <2> HIDE DEF S
  <2>1. S \in SUBSET Nat
    BY DEF S
  <2> QED
    BY <1>2, <1>3, <2>1, SetInduction
<1>5. n \in Nat /\ n <= l
  BY <1>1
<1>6. Loop(n)
  <2> HIDE DEF Loop
  <2>1. n \in S
    BY <1>4, <1>5
  <2> QED
    BY <1>5, <2>1
<1> QED
  BY <1>6

\* ParseQuery finds every key of a well-formed query string of any length, no
\* other, and its first value.
THEOREM WellFormedIsParsed ==
    ASSUME NEW str \in Seq(Characters), WellFormed(str)
    PROVE  /\ DOMAIN ParseQuery(str) = DOMAIN Expected(str)
           /\ \A k \in DOMAIN Expected(str) : ParseQuery(str)[k] = Expected(str)[k]
<1>1. PICK l \in Nat : l = Len(str)
  OBVIOUS
<1>2. PICK k, p, q, st : /\ Turns(str)[l] = State(k, p, q)
                         /\ TokenFrom(str, l, st)
                         /\ NoKeyYet(str, l, st, p) \/ KeyRead(str, l, st, k, p)
                         /\ Found(str, l, q)
  BY <1>1, LoopFinds
<1>3. p # 1 /\ Found(str, l + 1, Emplace(q, k, SubSeq(str, p, l)))
  BY <1>1, <1>2, TokenFound
<1>4. PICK r : r = ParseQuery(str)
  OBVIOUS
<1>5. Found(str, l + 1, r)
  <2>1. AfterLoop(str) = State(k, p, q)
    BY <1>1, <1>2 DEF AfterLoop
  <2>2. ParseQuery(str) = Emplace(q, k, SubSeq(str, p, l))
    BY <1>1, <1>3, <2>1 DEF ParseQuery, State
  <2> QED
    BY <1>3, <1>4, <2>2
<1>6. \A b \in Bounds(str) : b[2] < l + 1
  BY <1>1, BoundsApart
<1>7. DOMAIN Expected(str) = {KeyIn(str, b) : b \in Bounds(str)}
  BY DEF Expected
<1>8. DOMAIN r = DOMAIN Expected(str)
  BY <1>5, <1>6, <1>7 DEF Found
<1>9. ASSUME NEW x \in DOMAIN Expected(str) PROVE r[x] = Expected(str)[x]
  <2> DEFINE Of == {b \in Bounds(str) : KeyIn(str, b) = x}
             first == CHOOSE b \in Of : \A c \in Of : b[1] <= c[1]
  <2>1. Expected(str)[x] = ValueIn(str, first)
    BY <1>7, <1>9 DEF Expected
  <2>2. PICK b \in Bounds(str) : /\ KeyIn(str, b) = x /\ r[x] = ValueIn(str, b)
                                 /\ \A c \in Bounds(str) : KeyIn(str, c) = x => b[1] <= c[1]
    BY <1>5, <1>8, <1>9 DEF Found
  <2>3. b \in Of /\ \A c \in Of : b[1] <= c[1]
    BY <2>2
  <2>4. first \in Of /\ \A c \in Of : first[1] <= c[1]
    BY <2>3
  <2>5. first[1] = b[1]
    <3>1. first[1] <= b[1] /\ b[1] <= first[1]
      BY <2>3, <2>4
    <3>2. first \in Bounds(str)
      BY <2>4
    <3> HIDE DEF first
    <3>3. first[1] \in Nat /\ b[1] \in Nat
      BY <3>2, BoundsApart
    <3> QED
      BY <3>1, <3>3
  <2>6. first = b
    <3>1. first \in Bounds(str)
      BY <2>4
    <3> HIDE DEF first
    <3> QED
      BY <2>5, <3>1, BoundsApart
  <2> QED
    BY <2>1, <2>2, <2>6
<1> QED
  BY <1>4, <1>8, <1>9

-----------------------------------------------------------------------------
(* Types.                                                                  *)

\* One sequence behind another.
LEMMA Joined ==
    ASSUME NEW S, NEW s \in Seq(S), NEW t \in Seq(S), NEW u, u = s \o t
    PROVE  /\ u \in Seq(S)
           /\ Len(u) = Len(s) + Len(t)
           /\ \A i \in 1 .. Len(s) : u[i] = s[i]
           /\ \A i \in 1 .. Len(t) : u[Len(s) + i] = t[i]
<1>1. PICK m \in Nat : m = Len(s)
  OBVIOUS
<1>2. PICK n \in Nat : n = Len(t)
  OBVIOUS
<1>3. s \o t \in Seq(S) /\ Len(s \o t) = m + n
  BY <1>1, <1>2, ConcatProperties
<1>4. \A i \in 1 .. m + n : (s \o t)[i] = IF i <= m THEN s[i] ELSE t[i - m]
  BY <1>1, <1>2, ConcatProperties
<1>5. \A i \in 1 .. n : m + i \in 1 .. m + n /\ ~(m + i <= m) /\ (m + i) - m = i
  OBVIOUS
<1>6. \A i \in 1 .. m : i \in 1 .. m + n
  OBVIOUS
<1> QED
  BY <1>1, <1>2, <1>3, <1>4, <1>5, <1>6

HeaderFields  == [field : {"Host", "Content-Length", "Date"}, value : Nat \cup {"Harold", "now"}]
PayloadFields == [field : Names,
                  value : Nat \cup {"Harold", "now", "String"} \cup Statuses \cup Seq(Pieces)]

\* The requests whose head has been built, and those that have been routed.
Built  == IF step \in {"route", "head"} THEN count - 1 ELSE count
Routed == IF step = "route" THEN count - 1 ELSE count

\* What is counted one by one grows only where a request goes on.
Counted == /\ step # "idle" => count > 0
           /\ awaited <= Routed
           /\ Len(headers) <= 2 * Built + 1
           /\ headers = <<>> \/ HasHost

TypeInv == /\ TypeOK
           /\ headers \in Seq(HeaderFields)
           /\ head \in Seq(PayloadFields)
           /\ Counted

LEMMA HttpConstants == MaxRequests \in Nat /\ MaxRequests > 0 /\ MaxQueryLength \in Nat
BY MaxRequestsAssumption, MaxQueryLengthAssumption

LEMMA StringsAre ==
    ASSUME NEW str
    PROVE  str \in Strings <=> str \in Seq(Characters) /\ Len(str) <= MaxQueryLength
<1>1. ASSUME str \in Strings PROVE str \in Seq(Characters) /\ Len(str) <= MaxQueryLength
  <2>1. PICK n \in 0 .. MaxQueryLength : str \in [1 .. n -> Characters]
    BY <1>1 DEF Strings
  <2>2. str \in Seq(Characters) /\ Len(str) = n
    BY <2>1, HttpConstants, SeqDef, LenProperties
  <2> QED
    BY <2>1, <2>2, HttpConstants
<1>2. ASSUME str \in Seq(Characters), Len(str) <= MaxQueryLength PROVE str \in Strings
  <2>1. PICK n \in Nat : n = Len(str)
    BY <1>2
  <2>2. n \in 0 .. MaxQueryLength /\ str \in [1 .. n -> Characters]
    BY <1>2, <2>1, HttpConstants, LenProperties
  <2> QED
    BY <2>2 DEF Strings
<1> QED
  BY <1>1, <1>2

\* The keys of a request are strings.
LEMMA KeysAreStrings ==
    ASSUME NEW r \in Requests
    PROVE  /\ r.query \in Seq(Characters)
           /\ DOMAIN ParseQuery(r.query) \subseteq Strings
<1>1. r.query \in Strings
  <2>1. <<>> \in Strings
    <3>1. PICK e : e = <<>>
      OBVIOUS
    <3>2. e \in Seq(Characters) /\ Len(e) = 0
      BY <3>1, EmptySeq
    <3>3. Len(e) <= MaxQueryLength
      BY <3>2, HttpConstants
    <3>4. e \in Strings
      BY <3>2, <3>3, StringsAre
    <3> QED
      BY <3>1, <3>4
  <2> QED
    BY <2>1 DEF Requests
<1>2. r.query \in Seq(Characters) /\ Len(r.query) <= MaxQueryLength
  BY <1>1, StringsAre
<1>3. ASSUME NEW t \in Parts(r.query) PROVE t \in Strings
  <2>1. t \in Seq(Characters) /\ Len(t) <= Len(r.query)
    BY DEF Parts
  <2>2. Len(t) <= MaxQueryLength
    BY <1>2, <2>1, HttpConstants
  <2> QED
    BY <2>1, <2>2, StringsAre
<1> QED
  BY <1>2, <1>3, KeysAreParts

LEMMA HeaderNames ==
    ASSUME NEW s \in Seq(HeaderFields), NEW i \in DOMAIN s
    PROVE  s[i].field \in {"Host", "Content-Length", "Date"}
<1>1. i \in 1 .. Len(s)
  OBVIOUS
<1>2. s[i] \in HeaderFields
  BY <1>1, ElementOfSeq
<1> QED
  BY <1>2 DEF HeaderFields

LEMMA PayloadNames ==
    ASSUME NEW s \in Seq(PayloadFields), NEW i \in DOMAIN s
    PROVE  s[i].field \in Names
<1>1. i \in 1 .. Len(s)
  OBVIOUS
<1>2. s[i] \in PayloadFields
  BY <1>1, ElementOfSeq
<1> QED
  BY <1>2 DEF PayloadFields

LEMMA InitTypes == Init => TypeInv
<1> SUFFICES ASSUME Init PROVE TypeInv
  OBVIOUS
<1>1. NoRequest \in Requests
  BY DEF NoRequest, Requests, Paths
<1>2. content \in Seq(Pieces) /\ headers \in Seq(HeaderFields) /\ head \in Seq(PayloadFields)
  BY EmptySeq DEF Init
<1>3. replies \in Seq(Nat)
  BY EmptySeq DEF Init
<1>4. Len(headers) = 0 /\ DOMAIN headers = {} /\ DOMAIN head = {}
  BY DEF Init
<1>5. TypeOK
  <2>1. step \in {"idle", "route", "head", "content"} /\ request \in Requests
    BY <1>1 DEF Init
  <2>2. count \in 0 .. MaxRequests /\ parsed \in 0 .. count /\ awaited \in 0 .. MaxRequests
    BY HttpConstants DEF Init
  <2>3. DOMAIN queries \subseteq Strings /\ stale \in BOOLEAN
    BY DEF Init, NoQueries
  <2>4. status \in Statuses /\ interfered \in BOOLEAN /\ fault \in BOOLEAN
    BY DEF Init, Statuses
  <2>5. Len(headers) <= 2 * count + 1
    BY <1>4 DEF Init
  <2> QED
    BY <1>2, <1>3, <1>4, <2>1, <2>2, <2>3, <2>4, <2>5 DEF TypeOK
<1>6. Counted
  BY <1>4, HttpConstants DEF Init, Counted, Built, Routed
<1> QED
  BY <1>2, <1>5, <1>6 DEF TypeInv

LEMMA ParseTypes ==
    ASSUME TypeInv, NEW r \in Requests, Parse(r) PROVE TypeInv'
<1> USE HttpConstants
<1>1. /\ step = "idle" /\ count < MaxRequests /\ count' = count + 1 /\ step' = "route"
      /\ UNCHANGED <<awaited, responseVars, replies, interfered, fault>>
  BY DEF Parse, AfterParse
<1>2. DOMAIN queries' \subseteq Strings
  <2>1. CASE r.parses
    <3>1. PICK found : found = ParseQuery(r.query)
      OBVIOUS
    <3>2. DOMAIN queries' \subseteq DOMAIN found
      BY <2>1, <3>1 DEF Parse, NewQueries, AmongStale
    <3> QED
      BY <3>1, <3>2, KeysAreStrings
  <2>2. CASE ~r.parses
    BY <2>2 DEF Parse, NoQueries
  <2> QED
    BY <2>1, <2>2
<1>3. stale' \in BOOLEAN /\ request' \in Requests
  BY DEF Parse, TypeInv, TypeOK
<1>4. PICK c \in 1 .. MaxRequests : c = count + 1 /\ count \in Nat
  BY <1>1 DEF TypeInv, TypeOK
<1>5. count' = c /\ parsed' \in 0 .. c
  BY <1>1, <1>4 DEF Parse, TypeInv, TypeOK
<1>6. Counted'
  <2>1. awaited <= c - 1 /\ Len(headers) <= 2 * (c - 1) + 1
    BY <1>1, <1>4 DEF TypeInv, Counted, Built, Routed
  <2> QED
    BY <1>1, <1>4, <1>5, <2>1 DEF TypeInv, Counted, Built, Routed, HasHost, responseVars
<1>7. Len(headers) <= 2 * c + 1
  BY <1>4 DEF TypeInv, TypeOK
<1>8. TypeOK'
  BY <1>1, <1>2, <1>3, <1>4, <1>5, <1>7 DEF TypeInv, TypeOK, responseVars
<1> QED
  BY <1>1, <1>6, <1>8 DEF TypeInv, responseVars

\* What a handler leaves in the response.
LEMMA HandlerTypes ==
    ASSUME TypeInv, NEW path \in Paths, Handler(path) \/ Throws
    PROVE  status' \in Statuses /\ content' \in Seq(Pieces) /\ fault' \in BOOLEAN
<1>1. /\ <<"hello">> \in Seq(Pieces) /\ <<"user">> \in Seq(Pieces)
      /\ status \in Statuses /\ content \in Seq(Pieces) /\ fault \in BOOLEAN
  BY DEF Pieces, TypeInv, TypeOK
<1>2. CASE Root
  BY <1>1, <1>2 DEF Root, Reply, SetStatusCode, SetContent, NoCrash, Statuses
<1>3. CASE Test
  BY <1>1, <1>3 DEF Test, NoCrash
<1>4. CASE NotFound
  BY <1>1, <1>4 DEF NotFound, SetStatusCode, NoCrash, Statuses
<1>5. CASE GetUserInfo
  BY <1>1, <1>5 DEF GetUserInfo, Reply, SetStatusCode, SetContent, NoCrash, Crash, Statuses
<1>6. CASE Throws
  BY <1>1, <1>6 DEF Throws, Unavailable, SetStatusCode, NoCrash, Statuses
<1> QED
  BY <1>2, <1>3, <1>4, <1>5, <1>6 DEF Handler

LEMMA RouteTypes ==
    ASSUME TypeInv, Route PROVE TypeInv'
<1> USE HttpConstants
<1>1. PICK path \in Routable : /\ Handler(path) \/ Throws
                               /\ awaited' \in {awaited, awaited + 1}
  BY DEF Route
<1>2. path \in Paths
  BY DEF Routable, TypeInv, TypeOK, Requests, Paths
<1>3. status' \in Statuses /\ content' \in Seq(Pieces) /\ fault' \in BOOLEAN
  BY <1>1, <1>2, HandlerTypes
<1>4. /\ step = "route" /\ step' = "head"
      /\ UNCHANGED <<request, count, parserVars, headers, head, replies, interfered>>
  BY DEF Route
<1>5. /\ count \in 1 .. MaxRequests /\ awaited \in Nat /\ awaited <= count - 1
      /\ Len(headers) <= 2 * (count - 1) + 1
  BY <1>4 DEF TypeInv, TypeOK, Counted, Built, Routed
<1>6. PICK a \in 0 .. MaxRequests : awaited' = a /\ a <= count
  BY <1>1, <1>5
<1>7. Counted'
  BY <1>4, <1>5, <1>6 DEF TypeInv, Counted, Built, Routed, HasHost
<1>8. TypeOK'
  BY <1>3, <1>4, <1>6 DEF TypeInv, TypeOK, parserVars
<1> QED
  BY <1>4, <1>7, <1>8 DEF TypeInv

\* The content of a reply, with the page of its status.
LEMMA PageTypes ==
    ASSUME TypeInv, NEW p, p = WithPage
    PROVE  /\ p \in Seq(Pieces)
           /\ IsError(status) => p # <<>> /\ p[Len(p)] = status
<1>1. content \in Seq(Pieces) /\ status \in Pieces
  BY DEF TypeInv, TypeOK, Pieces
<1>2. CASE IsError(status)
  <2>1. p = Append(content, status)
    BY <1>2 DEF WithPage
  <2>2. p \in Seq(Pieces) /\ Len(p) = Len(content) + 1 /\ p[Len(content) + 1] = status
    BY <1>1, <2>1, AppendProperties
  <2> QED
    BY <1>1, <2>2
<1>3. CASE ~IsError(status)
  BY <1>1, <1>3 DEF WithPage
<1> QED
  BY <1>2, <1>3

\* The headers of a reply are those of the replies before it and two new ones.
LEMMA HeadersAre ==
    ASSUME TypeInv, BuildResponseHead, NEW hs, hs = headers'
    PROVE  /\ hs \in Seq(HeaderFields)
           /\ IF headers = <<>> THEN Len(hs) = 3 ELSE Len(hs) = Len(headers) + 2
           /\ \E i \in DOMAIN hs : hs[i].field = "Host"
           /\ Len(hs) - 1 \in DOMAIN hs
           /\ hs[Len(hs) - 1] = Field("Content-Length", Len(content'))
           /\ hs[Len(hs)] = Field("Date", "now")
<1>1. PICK p : p = WithPage
  OBVIOUS
<1>2. p \in Seq(Pieces) /\ content' = p
  BY <1>1, PageTypes DEF BuildResponseHead
<1>3. PICK n \in Nat : n = Len(p)
  BY <1>2
<1>4. PICK h : h = Field("Host", "Harold")
  OBVIOUS
<1>5. PICK l : l = Field("Content-Length", n)
  OBVIOUS
<1>6. PICK d : d = Field("Date", "now")
  OBVIOUS
<1>7. h \in HeaderFields /\ l \in HeaderFields /\ d \in HeaderFields /\ h.field = "Host"
  BY <1>4, <1>5, <1>6 DEF Field, HeaderFields
<1>8. PICK y : y = <<l, d>>
  OBVIOUS
<1>9. y \in Seq(HeaderFields) /\ Len(y) = 2 /\ y[1] = l /\ y[2] = d
  BY <1>7, <1>8
<1>10. PICK x : x = IF AddHost THEN <<h>> ELSE <<>>
  OBVIOUS
<1>11. PICK b : b = headers \o x
  OBVIOUS
<1>12. hs = b \o y
  BY <1>2, <1>3, <1>4, <1>5, <1>6, <1>8, <1>10, <1>11 DEF BuildResponseHead, LengthOf
<1>13. headers \in Seq(HeaderFields) /\ (headers = <<>> \/ HasHost)
  BY DEF TypeInv, Counted
<1>14. /\ b \in Seq(HeaderFields)
       /\ IF headers = <<>> THEN Len(b) = 1 ELSE Len(b) = Len(headers)
       /\ \E i \in 1 .. Len(b) : b[i].field = "Host"
  <2>1. CASE headers = <<>>
    <3>1. ~HasHost
      BY <2>1 DEF HasHost
    <3>2. x = <<h>>
      BY <1>10, <3>1 DEF AddHost
    <3>3. x \in Seq(HeaderFields) /\ Len(x) = 1 /\ x[1] = h
      BY <1>7, <3>2
    <3>4. b = x
      BY <1>11, <2>1, <3>3, ConcatEmptySeq
    <3> QED
      BY <1>7, <2>1, <3>3, <3>4
  <2>2. CASE headers # <<>>
    <3>1. HasHost
      BY <1>13, <2>2
    <3>2. x = <<>>
      BY <1>10, <3>1 DEF AddHost
    <3>3. b = headers
      BY <1>11, <1>13, <3>2, ConcatEmptySeq
    <3>4. PICK i \in DOMAIN headers : headers[i].field = "Host"
      BY <3>1 DEF HasHost
    <3>5. i \in 1 .. Len(headers)
      BY <1>13, <3>4
    <3> QED
      BY <1>13, <2>2, <3>3, <3>4, <3>5
  <2> QED
    BY <2>1, <2>2
<1>15. /\ hs \in Seq(HeaderFields)
       /\ Len(hs) = Len(b) + Len(y)
       /\ \A i \in 1 .. Len(b) : hs[i] = b[i]
       /\ \A i \in 1 .. Len(y) : hs[Len(b) + i] = y[i]
  <2>1. b \in Seq(HeaderFields) /\ y \in Seq(HeaderFields)
    BY <1>9, <1>14
  <2> QED
    BY <1>12, <2>1, Joined
<1>16. PICK m \in Nat : m = Len(b)
  BY <1>14
<1>17. Len(hs) = m + 2 /\ hs[m + 1] = l /\ hs[m + 2] = d
  BY <1>9, <1>15, <1>16
<1>18. \E i \in DOMAIN hs : hs[i].field = "Host"
  BY <1>14, <1>15, <1>16, <1>17
<1>19. m + 1 \in DOMAIN hs /\ Len(hs) - 1 = m + 1
  BY <1>15, <1>17
<1>20. IF headers = <<>> THEN Len(hs) = 3 ELSE Len(hs) = Len(headers) + 2
  BY <1>14, <1>16, <1>17
<1>21. hs[Len(hs) - 1] = l
  BY <1>17, <1>19
<1>22. l = Field("Content-Length", Len(content'))
  BY <1>2, <1>3, <1>5
<1>23. hs[Len(hs)] = Field("Date", "now")
  BY <1>6, <1>17
<1> QED
  BY <1>15, <1>18, <1>19, <1>20, <1>21, <1>22, <1>23

\* The head grows by a status line and the headers.
LEMMA HeadGrows ==
    ASSUME TypeInv, BuildResponseHead, NEW hs, hs = headers', NEW hd, hd = head'
    PROVE  /\ hd \in Seq(PayloadFields)
           /\ Len(hd) = Len(head) + 1 + Len(hs)
           /\ \A i \in 1 .. Len(head) : hd[i] = head[i]
           /\ hd[Len(head) + 1] = Field("status", status)
           /\ \A i \in 1 .. Len(hs) : hd[Len(head) + 1 + i] = hs[i]
<1>1. PICK f : f = Field("status", status)
  OBVIOUS
<1>2. f \in PayloadFields
  BY <1>1 DEF Field, PayloadFields, Names, TypeInv, TypeOK
<1>3. PICK c : c = Append(head, f)
  OBVIOUS
<1>4. head \in Seq(PayloadFields)
  BY DEF TypeInv
<1>5. PICK m \in Nat : m = Len(head)
  BY <1>4
<1>6. /\ c \in Seq(PayloadFields) /\ Len(c) = m + 1 /\ c[m + 1] = f
      /\ \A i \in 1 .. m : c[i] = head[i]
  BY <1>2, <1>3, <1>4, <1>5, AppendProperties
<1>7. hs \in Seq(HeaderFields)
  BY HeadersAre
<1>8. hs \in Seq(PayloadFields)
  <2>1. HeaderFields \subseteq PayloadFields
    BY DEF HeaderFields, PayloadFields, Names
  <2> QED
    BY <1>7, <2>1
<1>9. hd = c \o hs
  BY <1>1, <1>3 DEF BuildResponseHead
<1>10. /\ hd \in Seq(PayloadFields)
       /\ Len(hd) = Len(c) + Len(hs)
       /\ \A i \in 1 .. Len(c) : hd[i] = c[i]
       /\ \A i \in 1 .. Len(hs) : hd[Len(c) + i] = hs[i]
  <2>1. c \in Seq(PayloadFields)
    BY <1>6
  <2> QED
    BY <1>8, <1>9, <2>1, Joined
<1> QED
  BY <1>1, <1>5, <1>6, <1>10

LEMMA BuildResponseHeadTypes ==
    ASSUME TypeInv, BuildResponseHead PROVE TypeInv'
<1> USE HttpConstants
<1>1. PICK p : p = WithPage
  OBVIOUS
<1>2. PICK hs : hs = headers'
  OBVIOUS
<1>3. PICK hd : hd = head'
  OBVIOUS
<1>4. /\ step = "head" /\ step' = "content" /\ content' = p
      /\ UNCHANGED <<request, count, parserVars, awaited, status, replies, interfered, fault>>
  BY <1>1 DEF BuildResponseHead
<1>5. p \in Seq(Pieces)
  BY <1>1, PageTypes
<1>6. /\ hs \in Seq(HeaderFields)
      /\ IF headers = <<>> THEN Len(hs) = 3 ELSE Len(hs) = Len(headers) + 2
      /\ \E i \in DOMAIN hs : hs[i].field = "Host"
  BY <1>2, HeadersAre
<1>7. hd \in Seq(PayloadFields)
  BY <1>2, <1>3, HeadGrows
<1>8. /\ count \in 1 .. MaxRequests /\ Len(headers) \in Nat
      /\ Len(headers) <= 2 * (count - 1) + 1 /\ awaited <= count
  BY <1>4 DEF TypeInv, TypeOK, Counted, Built, Routed
<1>9. Len(hs) <= 2 * count + 1
  <2>1. PICK n \in Nat : n = Len(headers)
    BY <1>8
  <2>2. PICK m \in Nat : m = Len(hs)
    BY <1>6
  <2>3. m = 3 \/ m = n + 2
    BY <1>6, <2>1, <2>2
  <2>4. PICK c \in Nat : c = count /\ c >= 1
    BY <1>8
  <2>5. n <= 2 * (c - 1) + 1
    BY <1>8, <2>1, <2>4
  <2>6. m <= 2 * c + 1
    BY <2>3, <2>4, <2>5
  <2> QED
    BY <2>2, <2>4, <2>6
<1>10. \A i \in DOMAIN hs : hs[i].field \in {"Host", "Content-Length", "Date"}
  BY <1>6, HeaderNames
<1>11. \A i \in DOMAIN hd : hd[i].field \in Names
  BY <1>7, PayloadNames
<1>12. Counted'
  BY <1>2, <1>4, <1>6, <1>8, <1>9 DEF Counted, Built, Routed, HasHost
<1>13. TypeOK'
  BY <1>2, <1>3, <1>4, <1>5, <1>8, <1>9, <1>10, <1>11 DEF TypeInv, TypeOK, parserVars
<1> QED
  BY <1>2, <1>3, <1>6, <1>7, <1>12, <1>13 DEF TypeInv

\* The payload grows by the type and the content.
LEMMA PayloadGrows ==
    ASSUME TypeInv, GetPayload, NEW hd, hd = head'
    PROVE  /\ hd \in Seq(PayloadFields)
           /\ Len(hd) = Len(head) + 2
           /\ \A i \in 1 .. Len(head) : hd[i] = head[i]
           /\ hd[Len(head) + 1] = Field("Content-Type", "String")
           /\ hd[Len(head) + 2] = Field("content", content)
<1>1. PICK t : t = Field("Content-Type", "String")
  OBVIOUS
<1>2. PICK c : c = Field("content", content)
  OBVIOUS
<1>3. content \in Seq(Pieces) /\ head \in Seq(PayloadFields)
  BY DEF TypeInv, TypeOK
<1>4. t \in PayloadFields /\ c \in PayloadFields
  BY <1>1, <1>2, <1>3 DEF Field, PayloadFields, Names
<1>5. PICK y : y = <<t, c>>
  OBVIOUS
<1>6. y \in Seq(PayloadFields) /\ Len(y) = 2 /\ y[1] = t /\ y[2] = c
  BY <1>4, <1>5
<1>7. hd = head \o y
  BY <1>1, <1>2, <1>5 DEF GetPayload
<1>8. /\ hd \in Seq(PayloadFields)
      /\ Len(hd) = Len(head) + Len(y)
      /\ \A i \in 1 .. Len(head) : hd[i] = head[i]
      /\ \A i \in 1 .. Len(y) : hd[Len(head) + i] = y[i]
  <2>1. y \in Seq(PayloadFields)
    BY <1>6
  <2> QED
    BY <1>3, <1>7, <2>1, Joined
<1>9. hd[Len(head) + 1] = t /\ hd[Len(head) + 2] = c
  BY <1>6, <1>8
<1> QED
  BY <1>1, <1>2, <1>6, <1>8, <1>9

LEMMA GetPayloadTypes ==
    ASSUME TypeInv, GetPayload PROVE TypeInv'
<1> USE HttpConstants
<1>1. PICK hd : hd = head'
  OBVIOUS
<1>2. hd \in Seq(PayloadFields)
  BY <1>1, PayloadGrows
<1>3. /\ step = "content" /\ step' = "idle" /\ request' = NoRequest
      /\ UNCHANGED <<count, parserVars, awaited, status, content, headers, interfered, fault>>
  BY DEF GetPayload
<1>4. replies' \in Seq(Nat)
  <2>1. PICK n \in Nat : n = Len(hd)
    BY <1>2
  <2>2. replies' = Append(replies, n) /\ replies \in Seq(Nat)
    BY <1>1, <2>1 DEF GetPayload, TypeInv, TypeOK
  <2> QED
    BY <2>1, <2>2, AppendProperties
<1>5. NoRequest \in Requests
  BY DEF NoRequest, Requests, Paths
<1>6. \A i \in DOMAIN hd : hd[i].field \in Names
  BY <1>2, PayloadNames
<1>7. Counted'
  BY <1>3 DEF TypeInv, Counted, Built, Routed, HasHost
<1>8. TypeOK'
  BY <1>1, <1>3, <1>4, <1>5, <1>6 DEF TypeInv, TypeOK, parserVars
<1> QED
  BY <1>1, <1>2, <1>3, <1>7, <1>8 DEF TypeInv

LEMMA ContinuationTypes ==
    ASSUME TypeInv, Continuation PROVE TypeInv'
<1> USE HttpConstants
<1>1. /\ awaited > 0 /\ awaited' = awaited - 1
      /\ interfered' = (interfered \/ step = "content")
      /\ UNCHANGED <<step, request, count, parserVars, headers, head, replies, fault>>
  BY DEF Continuation
<1>2. status' \in Statuses
  BY DEF Continuation, Reply, SetStatusCode, Statuses
<1>3. content' \in Seq(Pieces)
  <2>1. <<"row">> \in Seq(Pieces) /\ <<"failure">> \in Seq(Pieces)
    BY DEF Pieces
  <2> QED
    BY <2>1 DEF Continuation, Reply, SetContent
<1>4. awaited \in 0 .. MaxRequests
  BY DEF TypeInv, TypeOK
<1>5. PICK a \in 0 .. MaxRequests : awaited' = a /\ awaited = a + 1
  BY <1>1, <1>4
<1>6. Counted'
  <2>1. a <= Routed /\ Routed \in Int
    BY <1>5 DEF TypeInv, TypeOK, Counted, Routed
  <2> QED
    BY <1>1, <1>5, <2>1 DEF TypeInv, Counted, Built, Routed, HasHost
<1>7. interfered' \in BOOLEAN
  BY <1>1
<1>8. TypeOK'
  BY <1>1, <1>2, <1>3, <1>5, <1>7 DEF TypeInv, TypeOK, parserVars
<1> QED
  BY <1>1, <1>6, <1>8 DEF TypeInv

LEMMA StutterTypes ==
    ASSUME TypeInv, UNCHANGED vars PROVE TypeInv'
BY DEF TypeInv, TypeOK, Counted, Built, Routed, HasHost, vars, parserVars, responseVars

LEMMA NextTypes == TypeInv /\ [Next]_vars => TypeInv'
BY ParseTypes, RouteTypes, BuildResponseHeadTypes, GetPayloadTypes, ContinuationTypes,
   StutterTypes DEF Next, ReadHandler

\* However many requests a connection brings, its request, response and replies
\* keep their types, and the headers, which are never cleared, grow by two
\* fields a reply and one Host.
THEOREM TypeCorrect == Spec => []TypeOK
<1>1. Spec => []TypeInv
  BY InitTypes, NextTypes, PTL DEF Spec
<1>2. TypeInv => TypeOK
  BY DEF TypeInv
<1> QED
  BY <1>1, <1>2, PTL

-----------------------------------------------------------------------------
(* The queries of a request.                                               *)

LEMMA ParseFinds ==
    ASSUME TypeInv, NEW r \in Requests, Parse(r) PROVE QueriesFound'
<1>1. CASE ~r.parses
  <2>1. parsed' = parsed /\ count' = count + 1 /\ count \in Nat /\ parsed \in 0 .. count
    BY <1>1 DEF Parse, TypeInv, TypeOK
  <2>2. parsed' # count'
    BY <2>1
  <2> QED
    BY <2>2 DEF QueriesFound
<1>2. CASE r.parses
  <2>1. PICK str : str = r.query
    OBVIOUS
  <2>2. str \in Seq(Characters)
    BY <2>1, KeysAreStrings
  <2>3. PICK found : found = ParseQuery(str)
    OBVIOUS
  <2>4. ~stale' => queries' = found
    BY <1>2, <2>1, <2>3 DEF Parse, NewQueries
  <2>5. request'.query = str
    BY <2>1 DEF Parse
  <2>6. PICK e : e = Expected(str)
    OBVIOUS
  <2>7. WellFormed(str) => DOMAIN found = DOMAIN e /\ \A k \in DOMAIN e : found[k] = e[k]
    BY <2>2, <2>3, <2>6, WellFormedIsParsed
  <2> QED
    BY <2>4, <2>5, <2>6, <2>7 DEF QueriesFound
<1> QED
  BY <1>1, <1>2

LEMMA NextFinds == TypeInv /\ QueriesFound /\ [Next]_vars => QueriesFound'
<1> SUFFICES ASSUME TypeInv, QueriesFound, [Next]_vars PROVE QueriesFound'
  OBVIOUS
<1>1. ASSUME NEW r \in Requests, Parse(r) PROVE QueriesFound'
  BY <1>1, ParseFinds
<1>2. CASE Route
  BY <1>2 DEF Route, QueriesFound
<1>3. CASE BuildResponseHead
  BY <1>3 DEF BuildResponseHead, QueriesFound
<1>4. CASE GetPayload
  BY <1>4 DEF GetPayload, QueriesFound
<1>5. CASE Continuation
  BY <1>5 DEF Continuation, parserVars, QueriesFound
<1>6. CASE UNCHANGED vars
  BY <1>6 DEF vars, parserVars, QueriesFound
<1> QED
  BY <1>1, <1>2, <1>3, <1>4, <1>5, <1>6 DEF Next, ReadHandler

\* However long the query string of a connection's first request with a query is
\* and however many requests came before: of a well-formed one the parser finds
\* every key, each with its first value, and nothing else.
THEOREM EveryKeyIsFound == Spec => []QueriesFound
<1>1. Init => QueriesFound
  BY DEF Init, QueriesFound
<1> QED
  BY <1>1, InitTypes, NextTypes, NextFinds, PTL DEF Spec

-----------------------------------------------------------------------------
(* The sections of the payload.                                            *)

\* Where the last reply that was sent ends, and what is behind it.
Written == IF replies = <<>> THEN 0 ELSE replies[Len(replies)]
Unsent  == Written + 1 .. Len(head)

Ordered == /\ \A n \in DOMAIN replies : replies[n] <= Len(head)
           /\ step # "content" => Written = Len(head)

LastIn(h, S, name, i) == /\ i \in S
                         /\ h[i].field = name
                         /\ \A j \in S : h[j].field = name => j <= i
FromTo(r, n)          == (IF n = 1 THEN 1 ELSE r[n - 1] + 1) .. r[n]
EndsWithPage(s, c)    == IsError(s) => c # <<>> /\ c[Len(c)] = s

\* The head at S agrees with the response it was built from ...
HeadAgrees(h, S, s, c) ==
    \E i, j \in S : /\ LastIn(h, S, "status", i) /\ h[i].value = s
                    /\ LastIn(h, S, "Content-Length", j) /\ h[j].value = Len(c)
                    /\ EndsWithPage(s, c)

\* ... and the head of a reply at S with the content of that reply.
ReplyAgrees(h, S) ==
    \E i, j, k \in S : /\ LastIn(h, S, "status", i)
                       /\ LastIn(h, S, "Content-Length", j)
                       /\ LastIn(h, S, "content", k)
                       /\ h[j].value = Len(h[k].value)
                       /\ EndsWithPage(h[i].value, h[k].value)

RepliesAgree == \A n \in DOMAIN replies : ReplyAgrees(head, FromTo(replies, n))

SectionInv == /\ TypeInv
              /\ Ordered
              /\ ~interfered => /\ RepliesAgree
                                /\ step = "content" => HeadAgrees(head, Unsent, status, content)

LEMMA LastIsUnique ==
    ASSUME NEW S \in SUBSET Int, NEW name, NEW i \in S, LastIn(head, S, name, i)
    PROVE  LastOf(S, name) = head[i].value
<1>1. \A k : IsLast(S, name, k) <=> LastIn(head, S, name, k)
  BY DEF IsLast, LastIn
<1>2. PICK j : j = CHOOSE k \in S : IsLast(S, name, k)
  OBVIOUS
<1>3. j \in S /\ LastIn(head, S, name, j)
  BY <1>1, <1>2
<1>4. i <= j /\ j <= i
  BY <1>3 DEF LastIn
<1>5. i = j
  BY <1>3, <1>4
<1> QED
  BY <1>2, <1>5 DEF LastOf

\* What the property says of the replies.
LEMMA RepliesAgreeSections ==
    ASSUME TypeInv, Ordered, RepliesAgree, NEW n \in DOMAIN replies
    PROVE  /\ LastOf(Section(n), "Content-Length") = Len(LastOf(Section(n), "content"))
           /\ EndsWithPage(LastOf(Section(n), "status"), LastOf(Section(n), "content"))
<1>1. PICK S : S = Section(n)
  OBVIOUS
<1>2. S = FromTo(replies, n)
  BY <1>1 DEF Section, FromTo
<1>3. S \in SUBSET Int
  BY <1>1 DEF Section, TypeInv, TypeOK
<1>4. PICK i, j, k \in S : /\ LastIn(head, S, "status", i)
                           /\ LastIn(head, S, "Content-Length", j)
                           /\ LastIn(head, S, "content", k)
                           /\ head[j].value = Len(head[k].value)
                           /\ EndsWithPage(head[i].value, head[k].value)
  BY <1>2 DEF RepliesAgree, ReplyAgrees
<1>5. /\ LastOf(S, "status") = head[i].value
      /\ LastOf(S, "Content-Length") = head[j].value
      /\ LastOf(S, "content") = head[k].value
  BY <1>3, <1>4, LastIsUnique
<1> QED
  BY <1>1, <1>4, <1>5

\* A reply that was sent is not touched by what the payload grows by.
LEMMA ReplyIsKept ==
    ASSUME NEW g, NEW h, NEW S, \A i \in S : g[i] = h[i], ReplyAgrees(g, S)
    PROVE  ReplyAgrees(h, S)
BY DEF ReplyAgrees, LastIn

LEMMA RepliesAreKept ==
    ASSUME TypeInv, Ordered, RepliesAgree, NEW h, \A i \in 1 .. Len(head) : h[i] = head[i],
           NEW r, \A n \in DOMAIN replies : r[n] = replies[n], NEW n \in DOMAIN replies
    PROVE  ReplyAgrees(h, FromTo(r, n))
<1>1. PICK S : S = FromTo(replies, n)
  OBVIOUS
<1>2. replies \in Seq(Nat) /\ head \in Seq(PayloadFields) /\ n \in 1 .. Len(replies)
  BY DEF TypeInv, TypeOK
<1>3. n = 1 \/ n - 1 \in 1 .. Len(replies)
  BY <1>2
<1>4. FromTo(r, n) = S
  BY <1>1, <1>2, <1>3 DEF FromTo
<1>5. S \subseteq 1 .. Len(head)
  BY <1>1, <1>2, <1>3 DEF FromTo, Ordered
<1>6. ReplyAgrees(head, S)
  BY <1>1 DEF RepliesAgree
<1>7. \A i \in S : head[i] = h[i]
  BY <1>5
<1> QED
  BY <1>4, <1>6, <1>7, ReplyIsKept

\* The head that is built agrees with the response.
LEMMA HeadIsBuilt ==
    ASSUME TypeInv, BuildResponseHead, NEW hd, hd = head', NEW p, p = content'
    PROVE  HeadAgrees(hd, Len(head) + 1 .. Len(hd), status, p)
<1>1. PICK hs : hs = headers'
  OBVIOUS
<1>2. PICK m \in Nat : m = Len(head)
  BY DEF TypeInv
<1>3. /\ hs \in Seq(HeaderFields)
      /\ Len(hs) - 1 \in DOMAIN hs
      /\ hs[Len(hs) - 1] = Field("Content-Length", Len(p))
      /\ hs[Len(hs)] = Field("Date", "now")
  BY <1>1, HeadersAre
<1>4. PICK k \in Nat : k = Len(hs)
  BY <1>3
<1>5. k - 1 \in 1 .. k
  BY <1>3, <1>4
<1>6. /\ hd \in Seq(PayloadFields)
      /\ Len(hd) = m + 1 + k
      /\ hd[m + 1] = Field("status", status)
      /\ \A i \in 1 .. k : hd[m + 1 + i] = hs[i]
  BY <1>1, <1>2, <1>4, HeadGrows
<1>7. PICK S : S = m + 1 .. Len(hd)
  OBVIOUS
<1>8. \A j \in S : j = m + 1 \/ \E i \in 1 .. k : j = m + 1 + i
  <2>1. ASSUME NEW j \in S, j # m + 1 PROVE j - (m + 1) \in 1 .. k /\ j = m + 1 + (j - (m + 1))
    BY <1>6, <1>7, <2>1
  <2> QED
    BY <2>1
<1>9. \A i \in 1 .. k : hd[m + 1 + i].field \in {"Host", "Content-Length", "Date"}
  BY <1>3, <1>4, <1>6, HeaderNames
<1>10. LastIn(hd, S, "status", m + 1) /\ hd[m + 1].value = status
  <2>1. hd[m + 1].field = "status" /\ hd[m + 1].value = status
    BY <1>6 DEF Field
  <2>2. \A j \in S : j # m + 1 => hd[j].field # "status"
    <3>1. ASSUME NEW j \in S, j # m + 1 PROVE hd[j].field # "status"
      <4>1. PICK i \in 1 .. k : j = m + 1 + i
        BY <1>8, <3>1
      <4>2. hd[j].field \in {"Host", "Content-Length", "Date"}
        BY <1>9, <4>1
      <4> QED
        BY <4>2
    <3> QED
      BY <3>1
  <2>3. m + 1 \in S
    BY <1>6, <1>7
  <2>4. \A j \in S : hd[j].field = "status" => j <= m + 1
    BY <2>2
  <2> QED
    BY <2>1, <2>3, <2>4 DEF LastIn
<1>11. PICK l \in Nat : l = m + 1 + (k - 1)
  BY <1>5
<1>12. hd[l] = Field("Content-Length", Len(p)) /\ hd[l + 1].field = "Date"
  <2>1. hd[l] = hs[k - 1]
    BY <1>5, <1>6, <1>11
  <2>2. k \in 1 .. k /\ l + 1 = m + 1 + k
    BY <1>5, <1>11
  <2>3. hd[l + 1] = hs[k]
    BY <1>6, <2>2
  <2>4. hs[k].field = "Date"
    BY <1>3, <1>4 DEF Field
  <2> QED
    BY <1>3, <1>4, <2>1, <2>3, <2>4
<1>13. l \in S /\ \A j \in S : j <= l \/ j = l + 1
  BY <1>5, <1>6, <1>7, <1>11
<1>14. LastIn(hd, S, "Content-Length", l) /\ hd[l].value = Len(p)
  <2>1. hd[l].field = "Content-Length" /\ hd[l].value = Len(p)
    BY <1>12 DEF Field
  <2>2. \A j \in S : hd[j].field = "Content-Length" => j <= l
    BY <1>12, <1>13
  <2> QED
    BY <1>13, <2>1, <2>2 DEF LastIn
<1>15. EndsWithPage(status, p)
  BY PageTypes DEF BuildResponseHead, EndsWithPage
<1>16. m + 1 \in S
  BY <1>10 DEF LastIn
<1>17. HeadAgrees(hd, S, status, p)
  BY <1>10, <1>13, <1>14, <1>15, <1>16 DEF HeadAgrees
<1> QED
  BY <1>2, <1>7, <1>17

\* With its content the reply agrees with itself.
LEMMA ReplyIsClosed ==
    ASSUME TypeInv, GetPayload, NEW w \in Nat, w <= Len(head), NEW hd, hd = head',
           HeadAgrees(head, w + 1 .. Len(head), status, content)
    PROVE  ReplyAgrees(hd, w + 1 .. Len(hd))
<1>1. PICK m \in Nat : m = Len(head)
  BY DEF TypeInv
<1>2. /\ Len(hd) = m + 2
      /\ \A i \in 1 .. m : hd[i] = head[i]
      /\ hd[m + 1] = Field("Content-Type", "String")
      /\ hd[m + 2] = Field("content", content)
  BY <1>1, PayloadGrows
<1>3. PICK S : S = w + 1 .. m
  OBVIOUS
<1>4. PICK T : T = w + 1 .. Len(hd)
  OBVIOUS
<1>5. \A j \in T : j \in S \/ j = m + 1 \/ j = m + 2
  BY <1>1, <1>2, <1>3, <1>4
<1>6. /\ m + 1 \in T /\ m + 2 \in T
      /\ \A j \in S : j \in T /\ hd[j] = head[j]
      /\ \A j \in T : j <= m + 2
  BY <1>1, <1>2, <1>3, <1>4
<1>7. /\ hd[m + 1].field = "Content-Type" /\ hd[m + 2].field = "content"
      /\ hd[m + 2].value = content
  BY <1>2 DEF Field
<1>8. PICK i, j \in S : /\ LastIn(head, S, "status", i) /\ head[i].value = status
                        /\ LastIn(head, S, "Content-Length", j) /\ head[j].value = Len(content)
                        /\ EndsWithPage(status, content)
  BY <1>1, <1>3 DEF HeadAgrees
<1>9. LastIn(hd, T, "status", i)
  BY <1>5, <1>6, <1>7, <1>8 DEF LastIn
<1>10. LastIn(hd, T, "Content-Length", j)
  BY <1>5, <1>6, <1>7, <1>8 DEF LastIn
<1>11. LastIn(hd, T, "content", m + 2)
  BY <1>6, <1>7 DEF LastIn
<1>12. hd[j].value = Len(hd[m + 2].value) /\ EndsWithPage(hd[i].value, hd[m + 2].value)
  BY <1>6, <1>7, <1>8
<1>13. i \in T /\ j \in T
  BY <1>6
<1>14. ReplyAgrees(hd, T)
  BY <1>6, <1>9, <1>10, <1>11, <1>12, <1>13 DEF ReplyAgrees
<1> QED
  BY <1>4, <1>14

LEMMA InitSections == Init => SectionInv
<1> SUFFICES ASSUME Init PROVE SectionInv
  OBVIOUS
<1>1. DOMAIN replies = {} /\ Written = 0 /\ Len(head) = 0 /\ step # "content"
  BY DEF Init, Written
<1>2. Ordered /\ RepliesAgree
  BY <1>1 DEF Ordered, RepliesAgree
<1> QED
  BY <1>1, <1>2, InitTypes DEF SectionInv

\* What leaves the payload alone, and changes the response only if no head
\* has been built from it or it is interference.
LEMMA PayloadIsLeft ==
    ASSUME SectionInv, TypeInv', UNCHANGED <<head, replies>>,
           step' = "content" => step = "content",
           step = "content" => step' = "content",
           ~interfered' => ~interfered,
           step = "content" => interfered' \/ UNCHANGED <<status, content>>
    PROVE  SectionInv'
<1>1. Written' = Written /\ Unsent' = Unsent
  BY DEF Written, Unsent
<1>2. Ordered'
  BY <1>1 DEF SectionInv, Ordered
<1>3. RepliesAgree => RepliesAgree'
  BY DEF RepliesAgree
<1>4. ASSUME ~interfered', step' = "content" PROVE HeadAgrees(head, Unsent, status, content)'
  <2>1. HeadAgrees(head, Unsent, status, content) /\ UNCHANGED <<status, content>>
    BY <1>4 DEF SectionInv
  <2> QED
    BY <1>1, <2>1
<1> QED
  BY <1>2, <1>3, <1>4 DEF SectionInv

LEMMA BuildResponseHeadSections ==
    ASSUME SectionInv, BuildResponseHead PROVE SectionInv'
<1>1. TypeInv /\ Ordered
  BY DEF SectionInv
<1>2. PICK hd : hd = head'
  OBVIOUS
<1>3. PICK p : p = content'
  OBVIOUS
<1>4. PICK hs : hs = headers'
  OBVIOUS
<1>5. PICK m \in Nat : m = Len(head)
  BY <1>1 DEF TypeInv
<1>6. /\ Len(hd) \in Nat /\ m <= Len(hd)
      /\ \A i \in 1 .. Len(head) : hd[i] = head[i]
  <2>1. hs \in Seq(HeaderFields)
    BY <1>1, <1>4, HeadersAre
  <2>2. hd \in Seq(PayloadFields) /\ Len(hd) = m + 1 + Len(hs)
    BY <1>1, <1>2, <1>4, <1>5, HeadGrows
  <2>3. \A i \in 1 .. Len(head) : hd[i] = head[i]
    BY <1>1, <1>2, <1>4, HeadGrows
  <2> QED
    BY <1>5, <2>1, <2>2, <2>3
<1>7. /\ step = "head" /\ step' = "content" /\ replies' = replies
      /\ interfered' = interfered /\ status' = status
  BY DEF BuildResponseHead
<1>8. Written' = m
  BY <1>1, <1>5, <1>7 DEF Ordered, Written
<1>9. Ordered'
  <2>1. \A n \in DOMAIN replies : replies[n] \in Nat /\ replies[n] <= m
    BY <1>1, <1>5 DEF Ordered, TypeInv, TypeOK
  <2>2. \A n \in DOMAIN replies : replies[n] <= Len(hd)
    BY <1>5, <1>6, <2>1
  <2> QED
    BY <1>2, <1>7, <2>2 DEF Ordered
<1>10. ASSUME RepliesAgree PROVE RepliesAgree'
  <2>1. PICK r : r = replies
    OBVIOUS
  <2>2. \A n \in DOMAIN r : ReplyAgrees(hd, FromTo(r, n))
    BY <1>1, <1>6, <1>10, <2>1, RepliesAreKept
  <2> QED
    BY <1>2, <1>7, <2>1, <2>2 DEF RepliesAgree
<1>11. HeadAgrees(hd, m + 1 .. Len(hd), status, p)
  BY <1>1, <1>2, <1>3, <1>5, HeadIsBuilt
<1>12. HeadAgrees(head, Unsent, status, content)'
  BY <1>2, <1>3, <1>7, <1>8, <1>11 DEF Unsent
<1>13. TypeInv'
  BY <1>1, BuildResponseHeadTypes
<1> QED
  BY <1>7, <1>9, <1>10, <1>12, <1>13 DEF SectionInv

LEMMA GetPayloadSections ==
    ASSUME SectionInv, GetPayload PROVE SectionInv'
<1>1. TypeInv /\ Ordered
  BY DEF SectionInv
<1>2. PICK hd : hd = head'
  OBVIOUS
<1>3. PICK m \in Nat : m = Len(head)
  BY <1>1 DEF TypeInv
<1>4. Len(hd) = m + 2 /\ \A i \in 1 .. Len(head) : hd[i] = head[i]
  BY <1>1, <1>2, <1>3, PayloadGrows
<1>5. PICK r : r = replies'
  OBVIOUS
<1>6. PICK N \in Nat : N = Len(replies)
  BY <1>1 DEF TypeInv, TypeOK
<1>7. /\ r \in Seq(Nat) /\ Len(r) = N + 1 /\ r[N + 1] = m + 2
      /\ \A n \in 1 .. N : r[n] = replies[n]
  <2>1. r = Append(replies, m + 2)
    BY <1>2, <1>4, <1>5 DEF GetPayload
  <2>2. replies \in Seq(Nat) /\ m + 2 \in Nat
    BY <1>1 DEF TypeInv, TypeOK
  <2> QED
    BY <1>6, <2>1, <2>2, AppendProperties
<1>8. DOMAIN replies = 1 .. N /\ DOMAIN r = 1 .. N + 1
  BY <1>1, <1>6, <1>7 DEF TypeInv, TypeOK
<1>9. step = "content" /\ step' = "idle" /\ interfered' = interfered
  BY DEF GetPayload
<1>10. PICK w \in Nat : w = Written /\ w <= m /\ w + 1 = (IF N + 1 = 1 THEN 1 ELSE r[N] + 1)
  <2>1. CASE N = 0
    <3>1. replies = <<>>
      BY <1>1, <1>6, <2>1, EmptySeq DEF TypeInv, TypeOK
    <3>2. Written = 0
      BY <3>1 DEF Written
    <3> QED
      BY <2>1, <3>2
  <2>2. CASE N # 0
    <3>1. N \in 1 .. N /\ replies # <<>>
      BY <1>6, <2>2
    <3>2. Written = replies[N] /\ replies[N] = r[N] /\ replies[N] <= m /\ replies[N] \in Nat
      BY <1>1, <1>3, <1>6, <1>7, <1>8, <3>1 DEF Written, Ordered, TypeInv, TypeOK
    <3> QED
      BY <2>2, <3>2
  <2> QED
    BY <2>1, <2>2
<1>11. Ordered'
  <2>1. \A n \in 1 .. N : r[n] \in Nat /\ r[n] <= m
    <3> SUFFICES ASSUME NEW n \in 1 .. N PROVE r[n] \in Nat /\ r[n] <= m
      OBVIOUS
    <3>1. replies[n] <= m
      BY <1>1, <1>3, <1>8 DEF Ordered
    <3>2. replies[n] \in Nat
      BY <1>1, <1>6, ElementOfSeq DEF TypeInv, TypeOK
    <3> QED
      BY <1>7, <3>1, <3>2
  <2>2. \A n \in 1 .. N + 1 : n \in 1 .. N \/ n = N + 1
    OBVIOUS
  <2>3. \A n \in 1 .. N + 1 : r[n] <= Len(hd)
    BY <1>4, <1>7, <2>1, <2>2
  <2>4. r # <<>>
    BY <1>7
  <2>5. Written' = m + 2
    BY <1>5, <1>7, <2>4 DEF Written
  <2> QED
    BY <1>2, <1>4, <1>5, <1>8, <2>3, <2>5 DEF Ordered
<1>12. ASSUME ~interfered PROVE RepliesAgree'
  <2>1. HeadAgrees(head, w + 1 .. Len(head), status, content)
    BY <1>9, <1>10, <1>12 DEF SectionInv, Unsent
  <2>2. ReplyAgrees(hd, w + 1 .. Len(hd))
    BY <1>1, <1>2, <1>3, <1>10, <2>1, ReplyIsClosed
  <2>3. FromTo(r, N + 1) = w + 1 .. Len(hd)
    BY <1>4, <1>7, <1>10 DEF FromTo
  <2>4. ReplyAgrees(hd, FromTo(r, N + 1))
    BY <2>2, <2>3
  <2>5. RepliesAgree
    BY <1>12 DEF SectionInv
  <2>6. \A n \in 1 .. N : ReplyAgrees(hd, FromTo(r, n))
    BY <1>1, <1>4, <1>7, <1>8, <2>5, RepliesAreKept
  <2>7. \A n \in 1 .. N + 1 : n \in 1 .. N \/ n = N + 1
    OBVIOUS
  <2> QED
    BY <1>2, <1>5, <1>8, <2>4, <2>6, <2>7 DEF RepliesAgree
<1>13. TypeInv'
  BY <1>1, GetPayloadTypes
<1> QED
  BY <1>9, <1>11, <1>12, <1>13 DEF SectionInv

LEMMA NextSections == SectionInv /\ [Next]_vars => SectionInv'
<1> SUFFICES ASSUME SectionInv, [Next]_vars PROVE SectionInv'
  OBVIOUS
<1>1. TypeInv'
  BY NextTypes DEF SectionInv
<1>2. ASSUME NEW r \in Requests, Parse(r) PROVE SectionInv'
  <2>1. /\ step = "idle" /\ step' = "route"
        /\ UNCHANGED <<head, replies, interfered>>
    BY <1>2 DEF Parse, AfterParse, responseVars
  <2> QED
    BY <1>1, <2>1, PayloadIsLeft
<1>3. CASE Route
  <2>1. /\ step = "route" /\ step' = "head"
        /\ UNCHANGED <<head, replies, interfered>>
    BY <1>3 DEF Route
  <2> QED
    BY <1>1, <2>1, PayloadIsLeft
<1>4. CASE BuildResponseHead
  BY <1>4, BuildResponseHeadSections
<1>5. CASE GetPayload
  BY <1>5, GetPayloadSections
<1>6. CASE Continuation
  <2>1. /\ UNCHANGED <<step, head, replies>>
        /\ interfered' = (interfered \/ step = "content")
    BY <1>6 DEF Continuation
  <2>2. (~interfered' => ~interfered) /\ (step = "content" => interfered')
    BY <2>1
  <2> QED
    BY <1>1, <2>1, <2>2, PayloadIsLeft
<1>7. CASE UNCHANGED vars
  BY <1>1, <1>7, PayloadIsLeft DEF vars, responseVars
<1> QED
  BY <1>2, <1>3, <1>4, <1>5, <1>6, <1>7 DEF Next, ReadHandler

\* However many replies are behind each other in the payload: in each of them
\* the last Content-Length counts the content that follows it, and the content
\* of an error ends with the page of that error, unless a continuation has run
\* while a payload was being built.
THEOREM SectionsDoAgree == Spec => []SectionsAgree
<1>1. Spec => []SectionInv
  BY InitSections, NextSections, PTL DEF Spec
<1>2. SectionInv => SectionsAgree
  <2> SUFFICES ASSUME SectionInv, ~interfered, NEW n \in DOMAIN replies
               PROVE  /\ LastOf(Section(n), "Content-Length") = Len(LastOf(Section(n), "content"))
                      /\ EndsWithPage(LastOf(Section(n), "status"), LastOf(Section(n), "content"))
    BY DEF SectionsAgree, EndsWithPage
  <2> QED
    BY RepliesAgreeSections DEF SectionInv
<1> QED
  BY <1>1, <1>2, PTL
================================================================================
