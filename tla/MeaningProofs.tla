---------------------------- MODULE MeaningProofs ----------------------------
(***************************************************************************)
(* The words of a server are read as they say, whatever they are: what has *)
(* been read is always what the words behind the index say.                *)
(***************************************************************************)
EXTENDS StartupProofs

-----------------------------------------------------------------------------
(* Words and places.                                                       *)

AWords(ws) == IsSeq(ws)

LEMMA WordsDomain ==
    ASSUME NEW ws, AWords(ws)
    PROVE  Len(ws) \in Nat /\ DOMAIN ws = 1..Len(ws)
  BY SeqDomain DEF AWords

AllKeys == ServerKeys \cup LocationKeys \cup {RBrace, LBrace}

\* The name of a directive does not end in a semicolon, nor does a brace.
LEMMA KeysAreBare ==
    ASSUME NEW key \in AllKeys
    PROVE  ~checkSemiColon(<<key>>)
<1>1. Last(<<key>>) = key
  BY DEF Last
<1>2. key # ";"
  BY DEF AllKeys, ServerKeys, LocationKeys, RBrace, LBrace
<1>3. QED
  BY <1>1, <1>2 DEF checkSemiColon

LEMMA KeysDiffer ==
    ASSUME NEW key, NEW other, key # other
    PROVE  <<key>> # <<other>>
  OBVIOUS

\* A location that goes on at a place goes on at all before it.
LEMMA HoldsBefore ==
    ASSUME NEW ws, AWords(ws), NEW o \in Nat, NEW j \in Nat, NEW k \in Nat,
           Holds(ws, o, k), o < j, j <= k
    PROVE  Holds(ws, o, j)
<1>1. \A m \in o + 1..j - 1 : m \in o + 1..k - 1
  OBVIOUS
<1>2. QED
  BY <1>1 DEF Holds

\* As long as no location is named, the words are the server's own.
LEMMA OwnStays ==
    ASSUME NEW ws, AWords(ws), NEW k \in OwnWords(ws), NEW p \in Nat, k <= p, p <= Len(ws) + 1,
           \A m \in k..p - 1 : ws[m] # <<"location">>
    PROVE  \A m \in k..p : m <= Len(ws) => m \in OwnWords(ws)
<1>1. Len(ws) \in Nat /\ DOMAIN ws = 1..Len(ws) /\ k \in 1..Len(ws)
  BY WordsDomain DEF OwnWords
<1>2. ASSUME NEW m \in k..p, m <= Len(ws), NEW o \in DOMAIN ws, Holds(ws, o, m)
      PROVE  FALSE
  <2>1. CASE o < k
    <3>1. Holds(ws, o, k)
      BY <1>1, <1>2, <2>1, HoldsBefore
    <3>2. QED
      BY <3>1 DEF OwnWords
  <2>2. CASE k <= o
    <3>1. o < m /\ ws[o] = <<"location">>
      BY <1>2 DEF Holds
    <3>2. o \in k..p - 1
      BY <1>1, <1>2, <2>2, <3>1
    <3>3. QED
      BY <3>1, <3>2
  <2>3. QED
    BY <1>1, <2>1, <2>2
<1>3. ASSUME NEW m \in k..p, m <= Len(ws) PROVE m \in OwnWords(ws)
  <2>1. m \in DOMAIN ws
    BY <1>1, <1>3
  <2>2. QED
    BY <1>2, <1>3, <2>1 DEF OwnWords
<1>4. QED
  BY <1>3

\* Behind its name, its path and its brace a location has begun.
LEMMA Opens ==
    ASSUME NEW ws, AWords(ws), NEW o \in DOMAIN ws, o + 2 <= Len(ws),
           ws[o] = <<"location">>, ws[o + 1] # <<RBrace>>, ws[o + 2] = <<LBrace>>
    PROVE  /\ Holds(ws, o, o + 3)
           /\ o + 3 <= Len(ws) => o + 3 \in WordsIn(ws, o) /\ ~IsValue(ws, o, o + 3)
           /\ \A k \in WordsIn(ws, o) : k >= o + 3
<1>1. Len(ws) \in Nat /\ DOMAIN ws = 1..Len(ws) /\ o \in 1..Len(ws)
  BY WordsDomain
<1>2. ws[o + 2] # <<RBrace>>
  <2>1. LBrace # RBrace
    BY DEF LBrace, RBrace
  <2>2. QED
    BY <2>1, KeysDiffer
<1>3. \A m \in o + 1..(o + 3) - 1 : m = o + 1 \/ m = o + 2
  BY <1>1
<1>4. Holds(ws, o, o + 3)
  BY <1>1, <1>2, <1>3 DEF Holds
<1>5. ~Listed(ws, o + 3, o + 3)
  BY <1>1 DEF Listed
<1>6. ASSUME o + 3 <= Len(ws)
      PROVE  o + 3 \in WordsIn(ws, o) /\ ~IsValue(ws, o, o + 3)
  <2>1. o + 3 \in WordsIn(ws, o)
    BY <1>1, <1>4, <1>5, <1>6 DEF WordsIn
  <2>2. (o + 3) - 1 \notin WordsIn(ws, o)
    BY <1>1 DEF WordsIn
  <2>3. QED
    BY <2>1, <2>2 DEF IsValue
<1>7. QED
  BY <1>4, <1>6 DEF WordsIn

LEMMA ListedFrom ==
    ASSUME NEW ws, NEW p \in Nat, NEW q \in Nat, q <= p, NEW k \in Nat, Listed(ws, p, k)
    PROVE  Listed(ws, q, k)
<1>1. PICK c \in p..k - 1 : /\ \E key \in ListKeys : ws[c] = <<key>>
                            /\ \A m \in c + 1..k - 1 : ~checkSemiColon(ws[m])
  BY DEF Listed
<1>2. c \in q..k - 1
  OBVIOUS
<1>3. QED
  BY <1>1, <1>2 DEF Listed

\* Behind its closing brace a location is over.
LEMMA Closes ==
    ASSUME NEW ws, AWords(ws), NEW o \in OwnWords(ws), ws[o] = <<"location">>,
           NEW k \in WordsIn(ws, o), ws[k] = <<RBrace>>
    PROVE  /\ k + 1 <= Len(ws) => k + 1 \in OwnWords(ws)
           /\ \A m \in WordsIn(ws, o) : m <= k
<1>1. /\ Len(ws) \in Nat /\ DOMAIN ws = 1..Len(ws) /\ o \in 1..Len(ws) /\ k \in 1..Len(ws)
      /\ k >= o + 3 /\ Holds(ws, o, k) /\ ~Listed(ws, o + 3, k)
  BY WordsDomain DEF OwnWords, WordsIn
<1>2. ASSUME NEW q \in DOMAIN ws, NEW m \in Nat, m > k, Holds(ws, q, m), o <= q, q <= k
      PROVE  FALSE
  <2>1. q < m /\ ws[q] = <<"location">>
        /\ \A j \in q + 1..m - 1 : ws[j] = <<RBrace>> => Listed(ws, q + 3, j)
    BY <1>2 DEF Holds
  <2>2. CASE q < k
    <3>1. k \in q + 1..m - 1
      BY <1>1, <1>2, <2>2
    <3>2. Listed(ws, q + 3, k)
      BY <2>1, <3>1
    <3>3. Listed(ws, o + 3, k)
      <4>1. q + 3 \in Nat /\ o + 3 \in Nat /\ o + 3 <= q + 3 /\ k \in Nat
        BY <1>1, <1>2
      <4>2. QED
        BY <3>2, <4>1, ListedFrom
    <3>4. QED
      BY <1>1, <3>3
  <2>3. CASE q = k
    <3>1. <<RBrace>> # <<"location">>
      BY KeysDiffer DEF RBrace
    <3>2. QED
      BY <2>1, <2>3, <3>1
  <2>4. QED
    BY <1>1, <1>2, <2>2, <2>3
<1>3. ASSUME k + 1 <= Len(ws) PROVE k + 1 \in OwnWords(ws)
  <2>1. ASSUME NEW q \in DOMAIN ws, Holds(ws, q, k + 1) PROVE FALSE
    <3>1. CASE q < o
      <4>1. q \in Nat /\ o \in Nat /\ k + 1 \in Nat /\ o <= k + 1
        BY <1>1
      <4>2. Holds(ws, q, o)
        BY <2>1, <3>1, <4>1, HoldsBefore
      <4>3. QED
        BY <4>2 DEF OwnWords
    <3>2. CASE o <= q
      <4>1. k + 1 \in Nat /\ k + 1 > k /\ q <= k
        BY <1>1, <2>1 DEF Holds
      <4>2. QED
        BY <1>2, <2>1, <3>2, <4>1
    <3>3. QED
      BY <1>1, <3>1, <3>2
  <2>2. k + 1 \in DOMAIN ws
    BY <1>1, <1>3
  <2>3. QED
    BY <2>1, <2>2 DEF OwnWords
<1>4. ASSUME NEW m \in WordsIn(ws, o), m > k PROVE FALSE
  <2>1. m \in Nat /\ Holds(ws, o, m) /\ o <= o /\ o <= k /\ o \in DOMAIN ws
    BY <1>1 DEF WordsIn
  <2>2. QED
    BY <1>1, <1>2, <1>4, <2>1
<1>5. QED
  <2>1. \A m \in WordsIn(ws, o) : m \in 1..Len(ws)
    BY <1>1 DEF WordsIn
  <2>2. QED
    BY <1>1, <1>3, <1>4, <2>1

\* A location that never closes has all the words behind its name.
LEMMA NeverCloses ==
    ASSUME NEW ws, AWords(ws), NEW o \in OwnWords(ws), Holds(ws, o, Len(ws) + 1)
    PROVE  \A m \in OwnWords(ws) : m <= o
<1>1. /\ Len(ws) \in Nat /\ DOMAIN ws = 1..Len(ws) /\ o \in 1..Len(ws)
      /\ \A m \in OwnWords(ws) : m \in 1..Len(ws)
  BY WordsDomain DEF OwnWords
<1>2. ASSUME NEW m \in OwnWords(ws), o < m PROVE FALSE
  <2>1. m \in Nat /\ o \in Nat /\ Len(ws) + 1 \in Nat /\ m <= Len(ws) + 1
    BY <1>1
  <2>2. Holds(ws, o, m)
    BY <1>2, <2>1, HoldsBefore
  <2>3. QED
    BY <1>1, <2>2 DEF OwnWords
<1>3. QED
  BY <1>1, <1>2

\* What is in a location and in no list, and the place behind.
LEMMA InsideHas ==
    ASSUME NEW ws, AWords(ws), NEW o \in DOMAIN ws, NEW k \in WordsIn(ws, o)
    PROVE  /\ Len(ws) \in Nat /\ DOMAIN ws = 1..Len(ws) /\ o \in 1..Len(ws) /\ k \in 1..Len(ws)
           /\ k >= o + 3 /\ Holds(ws, o, k) /\ ~Listed(ws, o + 3, k)
  BY WordsDomain DEF WordsIn

\* Behind the value of a directive a location goes on.
LEMMA ValuePassed ==
    ASSUME NEW ws, AWords(ws), NEW o \in DOMAIN ws, NEW k \in WordsIn(ws, o), k < Len(ws),
           NEW key \in ValueKeys, ws[k] = <<key>>, checkSemiColon(ws[k + 1])
    PROVE  /\ Holds(ws, o, k + 2)
           /\ k + 2 <= Len(ws) => k + 2 \in WordsIn(ws, o) /\ ~IsValue(ws, o, k + 2)
           /\ k + 1 \in WordsIn(ws, o) /\ IsValue(ws, o, k + 1)
<1>1. /\ Len(ws) \in Nat /\ DOMAIN ws = 1..Len(ws) /\ o \in 1..Len(ws) /\ k \in 1..Len(ws)
      /\ k >= o + 3 /\ Holds(ws, o, k) /\ ~Listed(ws, o + 3, k)
  BY InsideHas
<1>2. \A other \in AllKeys : ws[k + 1] # <<other>>
  BY KeysAreBare
<1>3. /\ \A other \in ListKeys : ws[k] # <<other>>
      /\ ws[k] # <<RBrace>> /\ ws[k + 1] # <<RBrace>>
      /\ \A other \in ListKeys : ws[k + 1] # <<other>>
  <2>1. \A other \in ListKeys : other # key /\ other \in AllKeys
    BY DEF ListKeys, ValueKeys, AllKeys, LocationKeys
  <2>2. RBrace # key /\ RBrace \in AllKeys
    BY DEF ValueKeys, AllKeys, LocationKeys, RBrace
  <2>3. QED
    BY <1>2, <2>1, <2>2, KeysDiffer
<1>4. Holds(ws, o, k + 1) /\ Holds(ws, o, k + 2)
  <2>1. \A m \in o + 1..k + 1 : m \in o + 1..k - 1 \/ m = k \/ m = k + 1
    BY <1>1
  <2>2. (k + 2) - 1 = k + 1 /\ (k + 1) - 1 = k /\ o < k + 1 /\ o < k + 2
    BY <1>1
  <2>3. \A m \in o + 1..k : m \in o + 1..k + 1
    BY <1>1
  <2>4. QED
    BY <1>1, <1>3, <2>1, <2>2, <2>3 DEF Holds
<1>5. ~Listed(ws, o + 3, k + 1)
  <2>1. SUFFICES ASSUME Listed(ws, o + 3, k + 1) PROVE FALSE
    OBVIOUS
  <2>2. PICK c \in o + 3..(k + 1) - 1 : /\ \E other \in ListKeys : ws[c] = <<other>>
                                      /\ \A m \in c + 1..(k + 1) - 1 : ~checkSemiColon(ws[m])
    BY <2>1, Zenon DEF Listed
  <2>3. c # k
    BY <1>3, <2>2
  <2>4. c \in o + 3..k - 1 /\ \A m \in c + 1..k - 1 : m \in c + 1..(k + 1) - 1
    BY <1>1, <2>3
  <2>5. QED
    BY <1>1, <2>2, <2>4, Zenon DEF Listed
<1>6. ~Listed(ws, o + 3, k + 2)
  <2>1. SUFFICES ASSUME Listed(ws, o + 3, k + 2) PROVE FALSE
    OBVIOUS
  <2>2. PICK c \in o + 3..(k + 2) - 1 : /\ \E other \in ListKeys : ws[c] = <<other>>
                                      /\ \A m \in c + 1..(k + 2) - 1 : ~checkSemiColon(ws[m])
    BY <2>1, Zenon DEF Listed
  <2>3. c # k + 1
    BY <1>3, <2>2
  <2>4. k + 1 \in c + 1..(k + 2) - 1
    BY <1>1, <2>3
  <2>5. QED
    BY <2>2, <2>4
<1>7. k + 1 \in WordsIn(ws, o) /\ IsValue(ws, o, k + 1)
  <2>1. k + 1 \in WordsIn(ws, o)
    BY <1>1, <1>4, <1>5 DEF WordsIn
  <2>2. (k + 1) - 1 = k
    BY <1>1
  <2>3. \E other \in ValueKeys : ws[k] = <<other>>
    OBVIOUS
  <2>4. QED
    BY <2>1, <2>2, <2>3, Zenon DEF IsValue
<1>8. ASSUME k + 2 <= Len(ws) PROVE k + 2 \in WordsIn(ws, o) /\ ~IsValue(ws, o, k + 2)
  <2>1. k + 2 \in WordsIn(ws, o)
    BY <1>1, <1>4, <1>6, <1>8 DEF WordsIn
  <2>2. (k + 2) - 1 = k + 1
    BY <1>1
  <2>3. \A other \in ValueKeys : other \in AllKeys
    BY DEF ValueKeys, AllKeys
  <2>4. QED
    BY <1>2, <2>1, <2>2, <2>3, Zenon DEF IsValue
<1>9. QED
  BY <1>4, <1>7, <1>8

\* A list behind place k has its last word at e.
EndsList(ws, k, e) ==
    /\ e \in k..Len(ws) /\ \A m \in k + 1..e - 1 : ~checkSemiColon(ws[m])
    /\ e = Len(ws) \/ (k < e /\ checkSemiColon(ws[e]))

\* Behind a list a location goes on; what is in the list is not its own.
LEMMA ListPassed ==
    ASSUME NEW ws, AWords(ws), NEW o \in DOMAIN ws, NEW k \in WordsIn(ws, o),
           NEW key \in ListKeys, ws[k] = <<key>>,
           NEW e, EndsList(ws, k, e)
    PROVE  /\ Holds(ws, o, e + 1)
           /\ e + 1 <= Len(ws) => e + 1 \in WordsIn(ws, o) /\ ~IsValue(ws, o, e + 1)
           /\ \A m \in k + 1..e : m \notin WordsIn(ws, o)
<1>1. /\ Len(ws) \in Nat /\ DOMAIN ws = 1..Len(ws) /\ o \in 1..Len(ws) /\ k \in 1..Len(ws)
      /\ k >= o + 3 /\ Holds(ws, o, k) /\ ~Listed(ws, o + 3, k) /\ e \in k..Len(ws)
      /\ \A m \in k + 1..e - 1 : ~checkSemiColon(ws[m])
      /\ e = Len(ws) \/ (k < e /\ checkSemiColon(ws[e]))
  BY InsideHas DEF EndsList
<1>0. Len(ws) \in Nat /\ o \in Nat /\ k \in Nat /\ e \in Nat /\ k >= o + 3 /\ k <= e
  BY <1>1
<1>2. \A m \in k + 1..e : Listed(ws, o + 3, m)
  <2>1. ASSUME NEW m \in k + 1..e PROVE Listed(ws, o + 3, m)
    <3>1. k \in o + 3..m - 1
      BY <1>0
    <3>2. \A j \in k + 1..m - 1 : j \in k + 1..e - 1
      BY <1>0
    <3>3. QED
      BY <1>1, <3>1, <3>2, Zenon DEF Listed
  <2>2. QED
    BY <2>1
<1>3. Holds(ws, o, e + 1)
  <2>1. ws[k] # <<RBrace>>
    <3>1. key # RBrace
      BY DEF ListKeys, RBrace
    <3>2. QED
      BY <3>1, KeysDiffer
  <2>2. \A m \in o + 1..(e + 1) - 1 : m \in o + 1..k - 1 \/ m = k \/ m \in k + 1..e
    BY <1>0
  <2>3. o < e + 1
    BY <1>0
  <2>4. QED
    BY <1>1, <1>2, <2>1, <2>2, <2>3, Zenon DEF Holds
<1>4. \A m \in k + 1..e : m \notin WordsIn(ws, o)
  BY <1>2 DEF WordsIn
<1>5. ASSUME e + 1 <= Len(ws) PROVE e + 1 \in WordsIn(ws, o) /\ ~IsValue(ws, o, e + 1)
  <2>1. k < e /\ checkSemiColon(ws[e])
    <3>1. e # Len(ws)
      BY ONLY <1>0, <1>5, SMT
    <3>2. QED
      BY <1>1, <3>1, Zenon
  <2>2. ~Listed(ws, o + 3, e + 1)
    <3>1. ASSUME NEW c \in o + 3..(e + 1) - 1, NEW other \in ListKeys, ws[c] = <<other>>,
                 \A m \in c + 1..(e + 1) - 1 : ~checkSemiColon(ws[m])
          PROVE  FALSE
      <4>1. CASE c = e
        <5>1. other \in AllKeys
          BY DEF ListKeys, AllKeys, LocationKeys
        <5>2. QED
          BY <2>1, <3>1, <4>1, <5>1, KeysAreBare
      <4>2. CASE c # e
        <5>1. e \in c + 1..(e + 1) - 1
          BY <1>0, <4>2
        <5>2. QED
          BY <2>1, <3>1, <5>1
      <4>3. QED
        BY <4>1, <4>2
    <3>2. QED
      BY <3>1 DEF Listed
  <2>3. e + 1 \in WordsIn(ws, o)
    <3>1. e + 1 \in 1..Len(ws) /\ e + 1 >= o + 3
      BY ONLY <1>0, <1>5, SMT
    <3>2. e + 1 \in DOMAIN ws
      BY <1>1, <3>1
    <3>3. QED
      BY <1>3, <2>2, <3>1, <3>2, Zenon DEF WordsIn
  <2>4. (e + 1) - 1 = e /\ e \in k + 1..e
    BY <1>0, <2>1
  <2>5. QED
    BY <1>4, <2>3, <2>4 DEF IsValue
<1>6. QED
  BY <1>3, <1>4, <1>5

-----------------------------------------------------------------------------
(* What one more word says.                                                *)

LEMMA MaxIsLast ==
    ASSUME NEW T \in SUBSET Nat, NEW k \in Nat, \A t \in T : t <= k
    PROVE  Max(T \cup {k}) = k
<1> DEFINE M == T \cup {k}
<1>1. k \in M /\ \A y \in M : k >= y
  OBVIOUS
<1>2. \A x \in M : (\A y \in M : x >= y) => x = k
  <2>1. ASSUME NEW x \in M, \A y \in M : x >= y PROVE x = k
    <3>1. x \in Nat /\ x >= k /\ k >= x
      BY <1>1, <2>1
    <3>2. QED
      BY ONLY k \in Nat, <3>1, SMT
  <2>2. QED
    BY <2>1
<1> HIDE DEF M
<1>3. Max(M) = k
  BY <1>1, <1>2, Zenon DEF Max
<1>4. QED
  BY <1>3 DEF M

\* S has more than R the place k, behind all of R, and places of words that
\* are no names.
Adds(ws, R, S, k) ==
    /\ R \in SUBSET Nat /\ IsFiniteSet(R) /\ k \in Nat /\ \A j \in R : j < k
    /\ R \subseteq S /\ k \in S
    /\ \A m \in S \ R : m # k => \A key \in AllKeys : ws[m] # <<key>>

LEMMA AddsGiven ==
    ASSUME NEW ws, NEW R, NEW S, NEW k, Adds(ws, R, S, k), NEW key \in AllKeys
    PROVE  /\ ws[k] = <<key>> =>
                  /\ GivenAt(ws, S, key) = GivenAt(ws, R, key) \cup {k}
                  /\ GivenAt(ws, S, key) # {} /\ Max(GivenAt(ws, S, key)) = k
           /\ ws[k] # <<key>> => GivenAt(ws, S, key) = GivenAt(ws, R, key)
<1>1. ASSUME ws[k] # <<key>> PROVE GivenAt(ws, S, key) = GivenAt(ws, R, key)
  BY <1>1, Zenon DEF Adds, GivenAt
<1>2. ASSUME ws[k] = <<key>>
      PROVE  /\ GivenAt(ws, S, key) = GivenAt(ws, R, key) \cup {k}
             /\ GivenAt(ws, S, key) # {} /\ Max(GivenAt(ws, S, key)) = k
  <2>1. GivenAt(ws, S, key) = GivenAt(ws, R, key) \cup {k}
    <3>1. \A m \in GivenAt(ws, S, key) : m \in GivenAt(ws, R, key) \/ m = k
      BY Zenon DEF Adds, GivenAt
    <3>2. \A m \in GivenAt(ws, R, key) : m \in GivenAt(ws, S, key)
      BY Zenon DEF Adds, GivenAt
    <3>3. k \in GivenAt(ws, S, key)
      BY <1>2, Zenon DEF Adds, GivenAt
    <3>4. QED
      BY <3>1, <3>2, <3>3, Zenon
  <2>2. /\ GivenAt(ws, R, key) \in SUBSET Nat /\ k \in Nat
        /\ \A t \in GivenAt(ws, R, key) : t <= k
    <3>1. GivenAt(ws, R, key) \in SUBSET R
      BY DEF GivenAt
    <3>2. \A t \in R : t <= k
      BY DEF Adds
    <3>3. QED
      BY <3>1, <3>2 DEF Adds
  <2>3. Max(GivenAt(ws, R, key) \cup {k}) = k
    BY <2>2, MaxIsLast
  <2>4. QED
    BY <2>1, <2>3
<1>3. QED
  BY <1>1, <1>2

\* The value of a name is the one behind its last place.
LEMMA AddsValue ==
    ASSUME NEW ws, NEW R, NEW S, NEW k, Adds(ws, R, S, k), NEW key \in AllKeys
    PROVE  /\ ws[k] = <<key>> =>
                  /\ WordOf(ws, S, key) = ValueAt(ws, k)
                  /\ NumberFor(ws, S, key) = Number(ValueAt(ws, k))
                  /\ ListOf(ws, S, key) = ListAt(ws, k)
           /\ ws[k] # <<key>> =>
                  /\ GivenAt(ws, S, key) = GivenAt(ws, R, key)
                  /\ WordOf(ws, S, key) = WordOf(ws, R, key)
                  /\ NumberFor(ws, S, key) = NumberFor(ws, R, key)
                  /\ ListOf(ws, S, key) = ListOf(ws, R, key)
<1>1. CASE ws[k] = <<key>>
  <2>1. GivenAt(ws, S, key) # {} /\ Max(GivenAt(ws, S, key)) = k
    BY <1>1, AddsGiven
  <2>2. QED
    BY <1>1, <2>1, Zenon DEF WordOf, NumberFor, ListOf
<1>2. CASE ws[k] # <<key>>
  <2>1. GivenAt(ws, S, key) = GivenAt(ws, R, key)
    BY <1>2, AddsGiven
  <2>2. QED
    BY <1>2, <2>1, Zenon DEF WordOf, NumberFor, ListOf
<1>3. QED
  BY <1>1, <1>2

LEMMA AddsPage ==
    ASSUME NEW ws, NEW R, NEW S, NEW k, Adds(ws, R, S, k)
    PROVE  /\ ws[k] = <<"error_page">> =>
                  PagesOf(ws, S) =
                      WithPage(PagesOf(ws, R), Number(ws[k + 1]), cutSemiColon(ws[k + 2]))
           /\ ws[k] # <<"error_page">> => PagesOf(ws, S) = PagesOf(ws, R)
<1> DEFINE GR == GivenAt(ws, R, "error_page")
           GS == GivenAt(ws, S, "error_page")
           none == NewServer.error_pages[404]
           Codes(G) == {Number(ws[j + 1]) : j \in G} \cup {404}
           Of(G, code) == {j \in G : Number(ws[j + 1]) = code}
           Page(G, code) == IF Of(G, code) = {} THEN none
                            ELSE cutSemiColon(ws[Max(Of(G, code)) + 2])
           Pages(G) == [code \in Codes(G) |-> Page(G, code)]
<1>0. "error_page" \in AllKeys
  BY DEF AllKeys, ServerKeys
<1>9. PagesOf(ws, S) = Pages(GS) /\ PagesOf(ws, R) = Pages(GR)
  BY DEF PagesOf, PagesFor
<1>1. CASE ws[k] # <<"error_page">>
  <2>1. GS = GR
    BY <1>0, <1>1, AddsGiven
  <2> HIDE DEF GS, GR, Pages
  <2>2. QED
    BY <1>1, <1>9, <2>1
<1>2. CASE ws[k] = <<"error_page">>
  <2> DEFINE new  == Number(ws[k + 1])
             page == cutSemiColon(ws[k + 2])
  <2>1. GS = GR \cup {k} /\ GR \in SUBSET Nat /\ k \in Nat /\ \A j \in GR : j <= k
    <3>1. GR \in SUBSET R
      BY DEF GivenAt
    <3>2. \A t \in R : t <= k
      BY DEF Adds
    <3>3. R \in SUBSET Nat /\ k \in Nat
      BY DEF Adds
    <3>4. GS = GR \cup {k}
      BY <1>0, <1>2, AddsGiven
    <3>5. QED
      BY <3>1, <3>2, <3>3, <3>4
  <2> HIDE DEF GS, GR
  <2>3. Codes(GS) = {new} \cup Codes(GR)
    BY <2>1
  <2>4. ASSUME NEW code, code # new PROVE Page(GS, code) = Page(GR, code)
    <3>1. Of(GS, code) = Of(GR, code)
      BY <2>1, <2>4
    <3>2. QED
      BY <3>1
  <2>5. Page(GS, new) = page
    <3>1. Of(GS, new) = Of(GR, new) \cup {k}
      BY <2>1
    <3>2. Of(GR, new) \in SUBSET Nat /\ \A t \in Of(GR, new) : t <= k
      BY <2>1
    <3> HIDE DEF Of, new
    <3>3. Max(Of(GR, new) \cup {k}) = k
      BY <2>1, <3>2, MaxIsLast
    <3>4. Of(GS, new) # {}
      BY <3>1
    <3>5. QED
      BY <3>1, <3>3, <3>4
  <2> HIDE DEF Page, Codes, new, page
  <2>6. PagesOf(ws, S) = WithPage(PagesOf(ws, R), new, page)
    <3>1. WithPage(PagesOf(ws, R), new, page)
             = [c \in Codes(GR) \cup {new} |-> IF c = new THEN page ELSE Page(GR, c)]
      BY <1>9 DEF WithPage
    <3>2. \A c \in {new} \cup Codes(GR) :
              Page(GS, c) = IF c = new THEN page ELSE Page(GR, c)
      BY <2>4, <2>5
    <3>3. QED
      BY <1>9, <2>3, <3>1, <3>2
  <2>7. QED
    BY <1>2, <2>6 DEF new, page
<1>3. QED
  BY <1>1, <1>2

\* A function on the first numbers is a sequence, and what is appended to it
\* comes last.
LEMMA AppendIs ==
    ASSUME NEW N \in Nat, NEW f, f = [n \in 1..N |-> f[n]], NEW x
    PROVE  /\ IsSeq(f) /\ Len(f) = N
           /\ Append(f, x) = [n \in 1..N + 1 |-> IF n = N + 1 THEN x ELSE f[n]]
<1> DEFINE T == {f[n] : n \in 1..N}
           a == Append(f, x)
<1>1. f \in [1..N -> T]
  OBVIOUS
<1>2. f \in Seq(T) /\ Len(f) = N
  BY <1>1
<1> HIDE DEF T
<1>3. IsSeq(f)
  BY <1>2 DEF IsSeq, T
<1>4. f \in Seq(T \cup {x}) /\ x \in T \cup {x}
  <2>1. f \in [1..N -> T \cup {x}]
    BY <1>1
  <2>2. QED
    BY <2>1
<1>5. /\ a \in Seq(T \cup {x}) /\ Len(a) = N + 1
      /\ \A n \in 1..N : a[n] = f[n]
      /\ a[N + 1] = x
  BY <1>2, <1>4
<1> HIDE DEF a
<1>6. a = [n \in 1..N + 1 |-> a[n]]
  BY <1>5, LenProperties
<1>7. \A n \in 1..N + 1 : a[n] = IF n = N + 1 THEN x ELSE f[n]
  <2>1. \A n \in 1..N + 1 : n = N + 1 \/ (n \in 1..N /\ n # N + 1)
    OBVIOUS
  <2>2. QED
    BY <1>5, <2>1
<1>8. QED
  BY <1>2, <1>3, <1>6, <1>7 DEF a

LEMMA AddsLocation ==
    ASSUME NEW ws, NEW R, NEW S, NEW k, Adds(ws, R, S, k)
    PROVE  /\ ws[k] = <<"location">> =>
                  LocationsSaid(ws, S) =
                      Append(LocationsSaid(ws, R), LocationSaid(ws, ws[k + 1], WordsIn(ws, k)))
           /\ ws[k] # <<"location">> => LocationsSaid(ws, S) = LocationsSaid(ws, R)
           /\ IsSeq(LocationsSaid(ws, R))
<1> DEFINE GR == GivenAt(ws, R, "location")
           GS == GivenAt(ws, S, "location")
           Of(o) == LocationSaid(ws, ws[o + 1], WordsIn(ws, o))
           N == Cardinality(GR)
           L(G) == [n \in 1..Cardinality(G) |-> Of(InOrder(G)[n])]
<1>0. "location" \in AllKeys
  BY DEF AllKeys, ServerKeys
<1>1. LocationsSaid(ws, R) = L(GR) /\ LocationsSaid(ws, S) = L(GS)
  <2>1. DOMAIN InOrder(GR) = 1..Cardinality(GR) /\ DOMAIN InOrder(GS) = 1..Cardinality(GS)
    BY DEF InOrder
  <2>2. QED
    BY <2>1 DEF LocationsSaid
<1>2. GR \in SUBSET R /\ R \in SUBSET Nat /\ IsFiniteSet(R) /\ \A j \in R : j < k
  BY DEF GivenAt, Adds
<1>3. GR \in SUBSET Nat /\ IsFiniteSet(GR) /\ k \in Nat /\ \A j \in GR : j < k
  <2>1. GR \in SUBSET Nat /\ k \in Nat /\ \A j \in GR : j < k
    BY <1>2 DEF Adds
  <2>2. IsFiniteSet(GR)
    BY <1>2, FS_Subset
  <2>3. QED
    BY <2>1, <2>2
<1>4. N \in Nat
  BY <1>3, FS_CardinalityType
<1>5. L(GR) = [n \in 1..N |-> L(GR)[n]]
  OBVIOUS
<1>6. CASE ws[k] # <<"location">>
  <2>1. GS = GR
    BY <1>0, <1>6, AddsGiven
  <2> HIDE DEF GS, GR, N, L
  <2>2. IsSeq(L(GR))
    BY <1>4, <1>5, AppendIs
  <2>3. QED
    BY <1>1, <1>6, <2>1, <2>2
<1>7. CASE ws[k] = <<"location">>
  <2>1. GS = GR \cup {k}
    BY <1>0, <1>7, AddsGiven
  <2>2. /\ Cardinality(GS) = N + 1
        /\ \A n \in 1..N : InOrder(GS)[n] = InOrder(GR)[n]
        /\ InOrder(GS)[N + 1] = k
    <3> HIDE DEF GS, GR
    <3>1. QED
      BY <1>3, <2>1, InOrderAppend
  <2> HIDE DEF Of
  <2>3. L(GS) = [n \in 1..N + 1 |-> Of(InOrder(GS)[n])]
    BY <2>2
  <2>4. \A n \in 1..N + 1 : Of(InOrder(GS)[n]) = IF n = N + 1 THEN Of(k) ELSE L(GR)[n]
    <3>1. \A n \in 1..N + 1 : n = N + 1 \/ (n \in 1..N /\ n # N + 1)
      BY <1>4
    <3> HIDE DEF GS, GR
    <3>2. \A n \in 1..N : L(GR)[n] = Of(InOrder(GR)[n])
      OBVIOUS
    <3> HIDE DEF N, L
    <3>3. QED
      BY <2>2, <3>1, <3>2
  <2> HIDE DEF GS, GR, N, L
  <2>5. IsSeq(L(GR)) /\ Append(L(GR), Of(k)) =
            [n \in 1..N + 1 |-> IF n = N + 1 THEN Of(k) ELSE L(GR)[n]]
    BY <1>4, <1>5, AppendIs
  <2>6. L(GS) = Append(L(GR), Of(k))
    BY <2>3, <2>4, <2>5
  <2>7. QED
    BY <1>1, <1>7, <2>5, <2>6 DEF Of
<1>8. QED
  BY <1>6, <1>7

\* What a server is once one more directive is read.
LEMMA AddsServer ==
    ASSUME NEW ws, NEW R, NEW S, NEW k, Adds(ws, R, S, k), NEW s, s = ServerSaid(ws, R)
    PROVE  /\ ws[k] = <<"listen">> =>
                  ServerSaid(ws, S) = [s EXCEPT !["port"] = Number(ValueAt(ws, k))]
           /\ ws[k] = <<"server_name">> =>
                  ServerSaid(ws, S) = [s EXCEPT !["server_name"] = ValueAt(ws, k)]
           /\ ws[k] = <<"host">> =>
                  ServerSaid(ws, S) = [s EXCEPT !["host"] = Host(ValueAt(ws, k))]
           /\ ws[k] = <<"root">> =>
                  ServerSaid(ws, S) = [s EXCEPT !["root"] = Root(ValueAt(ws, k))]
           /\ ws[k] = <<"index">> =>
                  ServerSaid(ws, S) = [s EXCEPT !["index"] = ValueAt(ws, k)]
           /\ ws[k] = <<"client_max_body_size">> =>
                  ServerSaid(ws, S) = [s EXCEPT !["cmbz"] = Number(ValueAt(ws, k))]
           /\ ws[k] = <<"error_page">> =>
                  ServerSaid(ws, S) = [s EXCEPT !.error_pages =
                      WithPage(@, Number(ws[k + 1]), cutSemiColon(ws[k + 2]))]
           /\ ws[k] = <<"location">> =>
                  ServerSaid(ws, S) = [s EXCEPT !.locations =
                      Append(@, LocationSaid(ws, ws[k + 1], WordsIn(ws, k)))]
           /\ (\A key \in ServerKeys : ws[k] # <<key>>) => ServerSaid(ws, S) = s
<1>1. \A key \in ServerKeys : key \in AllKeys
  BY DEF AllKeys
<1>2. \A key \in ServerKeys :
          /\ ws[k] = <<key>> =>
                 /\ WordOf(ws, S, key) = ValueAt(ws, k)
                 /\ NumberFor(ws, S, key) = Number(ValueAt(ws, k))
                 /\ GivenAt(ws, S, key) # {}
          /\ ws[k] # <<key>> =>
                 /\ WordOf(ws, S, key) = WordOf(ws, R, key)
                 /\ NumberFor(ws, S, key) = NumberFor(ws, R, key)
                 /\ GivenAt(ws, S, key) = GivenAt(ws, R, key)
  BY <1>1, AddsGiven, AddsValue
<1>3. "host" \in ServerKeys /\ "root" \in ServerKeys
  BY DEF ServerKeys
<1> DEFINE value == ValueAt(ws, k)
<1>4. /\ ws[k] = <<"host">> => HostFor(ws, S) = Host(value)
      /\ ws[k] # <<"host">> => HostFor(ws, S) = HostFor(ws, R)
  BY <1>2, <1>3, Zenon DEF HostFor
<1>5. /\ ws[k] = <<"root">> => RootFor(ws, S) = Root(value)
      /\ ws[k] # <<"root">> => RootFor(ws, S) = RootFor(ws, R)
  BY <1>2, <1>3, Zenon DEF RootFor
<1>6. /\ ws[k] = <<"listen">> => NumberFor(ws, S, "listen") = Number(value)
      /\ ws[k] # <<"listen">> => NumberFor(ws, S, "listen") = NumberFor(ws, R, "listen")
      /\ ws[k] = <<"server_name">> => WordOf(ws, S, "server_name") = value
      /\ ws[k] # <<"server_name">> =>
             WordOf(ws, S, "server_name") = WordOf(ws, R, "server_name")
      /\ ws[k] = <<"index">> => WordOf(ws, S, "index") = value
      /\ ws[k] # <<"index">> => WordOf(ws, S, "index") = WordOf(ws, R, "index")
      /\ ws[k] = <<"client_max_body_size">> =>
             NumberFor(ws, S, "client_max_body_size") = Number(value)
      /\ ws[k] # <<"client_max_body_size">> =>
             NumberFor(ws, S, "client_max_body_size") = NumberFor(ws, R, "client_max_body_size")
  BY <1>2 DEF ServerKeys
<1>7. \A p, q : p # q => <<p>> # <<q>>
  OBVIOUS
<1> HIDE DEF value
<1> DEFINE SameValues ==
        /\ NumberFor(ws, S, "listen") = NumberFor(ws, R, "listen")
        /\ WordOf(ws, S, "server_name") = WordOf(ws, R, "server_name")
        /\ HostFor(ws, S) = HostFor(ws, R) /\ RootFor(ws, S) = RootFor(ws, R)
        /\ WordOf(ws, S, "index") = WordOf(ws, R, "index")
        /\ NumberFor(ws, S, "client_max_body_size") = NumberFor(ws, R, "client_max_body_size")
<1>8. ASSUME ws[k] = <<"listen">>
      PROVE  ServerSaid(ws, S) = [s EXCEPT !["port"] = Number(value)]
  <2>1. \A key \in ServerKeys \ {"listen"} : ws[k] # <<key>>
    BY <1>7, <1>8, Zenon
  <2>2. QED
    BY <1>4, <1>5, <1>6, <1>8, <2>1, AddsPage, AddsLocation DEF ServerSaid, ServerKeys
<1>9. ASSUME ws[k] = <<"server_name">>
      PROVE  ServerSaid(ws, S) = [s EXCEPT !["server_name"] = value]
  <2>1. \A key \in ServerKeys \ {"server_name"} : ws[k] # <<key>>
    BY <1>7, <1>9, Zenon
  <2>2. QED
    BY <1>4, <1>5, <1>6, <1>9, <2>1, AddsPage, AddsLocation DEF ServerSaid, ServerKeys
<1>10. ASSUME ws[k] = <<"host">>
      PROVE  ServerSaid(ws, S) = [s EXCEPT !["host"] = Host(value)]
  <2>1. \A key \in ServerKeys \ {"host"} : ws[k] # <<key>>
    BY <1>7, <1>10, Zenon
  <2>2. QED
    BY <1>4, <1>5, <1>6, <1>10, <2>1, AddsPage, AddsLocation DEF ServerSaid, ServerKeys
<1>11. ASSUME ws[k] = <<"root">>
      PROVE  ServerSaid(ws, S) = [s EXCEPT !["root"] = Root(value)]
  <2>1. \A key \in ServerKeys \ {"root"} : ws[k] # <<key>>
    BY <1>7, <1>11, Zenon
  <2>2. QED
    BY <1>4, <1>5, <1>6, <1>11, <2>1, AddsPage, AddsLocation DEF ServerSaid, ServerKeys
<1>12. ASSUME ws[k] = <<"index">>
      PROVE  ServerSaid(ws, S) = [s EXCEPT !["index"] = value]
  <2>1. \A key \in ServerKeys \ {"index"} : ws[k] # <<key>>
    BY <1>7, <1>12, Zenon
  <2>2. QED
    BY <1>4, <1>5, <1>6, <1>12, <2>1, AddsPage, AddsLocation DEF ServerSaid, ServerKeys
<1>13. ASSUME ws[k] = <<"client_max_body_size">>
      PROVE  ServerSaid(ws, S) = [s EXCEPT !["cmbz"] = Number(value)]
  <2>1. \A key \in ServerKeys \ {"client_max_body_size"} : ws[k] # <<key>>
    BY <1>7, <1>13, Zenon
  <2>2. QED
    BY <1>4, <1>5, <1>6, <1>13, <2>1, AddsPage, AddsLocation DEF ServerSaid, ServerKeys
<1>14. ASSUME ws[k] = <<"error_page">>
      PROVE  ServerSaid(ws, S) = [s EXCEPT !.error_pages =
             WithPage(@, Number(ws[k + 1]), cutSemiColon(ws[k + 2]))]
  <2>1. \A key \in ServerKeys \ {"error_page"} : ws[k] # <<key>>
    BY <1>7, <1>14, Zenon
  <2>2. /\ SameValues
        /\ PagesOf(ws, S) =
               WithPage(PagesOf(ws, R), Number(ws[k + 1]), cutSemiColon(ws[k + 2]))
        /\ LocationsSaid(ws, S) = LocationsSaid(ws, R)
    BY <1>4, <1>5, <1>6, <1>14, <2>1, AddsPage, AddsLocation DEF ServerKeys
  <2>3. /\ s.error_pages = PagesOf(ws, R)
        /\ ServerSaid(ws, S) = [s EXCEPT !.error_pages = PagesOf(ws, S)]
    BY <2>2 DEF ServerSaid
  <2>4. QED
    BY <2>2, <2>3, Zenon
<1>15. ASSUME ws[k] = <<"location">>
      PROVE  ServerSaid(ws, S) = [s EXCEPT !.locations =
             Append(@, LocationSaid(ws, ws[k + 1], WordsIn(ws, k)))]
  <2>1. \A key \in ServerKeys \ {"location"} : ws[k] # <<key>>
    BY <1>7, <1>15, Zenon
  <2>2. SameValues /\ PagesOf(ws, S) = PagesOf(ws, R)
    BY <1>4, <1>5, <1>6, <1>15, <2>1, AddsPage DEF ServerKeys
  <2>3. LocationsSaid(ws, S) =
            Append(LocationsSaid(ws, R), LocationSaid(ws, ws[k + 1], WordsIn(ws, k)))
    BY <1>15, AddsLocation, Zenon
  <2>4. /\ s.locations = LocationsSaid(ws, R)
        /\ ServerSaid(ws, S) = [s EXCEPT !.locations = LocationsSaid(ws, S)]
    BY <2>2 DEF ServerSaid
  <2>5. QED
    BY <2>3, <2>4, Zenon
<1>16. ASSUME \A key \in ServerKeys : ws[k] # <<key>> PROVE ServerSaid(ws, S) = s
  BY <1>4, <1>5, <1>6, <1>16, AddsPage, AddsLocation DEF ServerSaid, ServerKeys
<1>17. QED
  BY <1>8, <1>9, <1>10, <1>11, <1>12, <1>13, <1>14, <1>15, <1>16 DEF value

\* What a location is once one more directive is read.
LEMMA AddsInside ==
    ASSUME NEW ws, NEW R, NEW S, NEW k, Adds(ws, R, S, k), NEW path, NEW l,
           l = LocationSaid(ws, path, R)
    PROVE  /\ ws[k] = <<"root">> =>
                  LocationSaid(ws, path, S) = [l EXCEPT !["root"] = ValueAt(ws, k)]
           /\ ws[k] = <<"index">> =>
                  LocationSaid(ws, path, S) = [l EXCEPT !["index"] = ValueAt(ws, k)]
           /\ ws[k] = <<"return">> =>
                  LocationSaid(ws, path, S) = [l EXCEPT !["return"] = ValueAt(ws, k)]
           /\ ws[k] = <<"alias">> =>
                  LocationSaid(ws, path, S) = [l EXCEPT !["alias"] = ValueAt(ws, k)]
           /\ ws[k] = <<"autoindex">> =>
                  LocationSaid(ws, path, S) = [l EXCEPT !["autoindex"] = ValueAt(ws, k)]
           /\ ws[k] = <<"client_max_body_size">> =>
                  LocationSaid(ws, path, S) = [l EXCEPT !["cmbz"] = Number(ValueAt(ws, k))]
           /\ ws[k] = <<"allow_methods">> =>
                  LocationSaid(ws, path, S) = [l EXCEPT !["methods"] = ListAt(ws, k)]
           /\ ws[k] = <<"cgi_path">> =>
                  LocationSaid(ws, path, S) = [l EXCEPT !["cgi_path"] = ListAt(ws, k)]
           /\ ws[k] = <<"cgi_ext">> =>
                  LocationSaid(ws, path, S) = [l EXCEPT !["cgi_ext"] = ListAt(ws, k)]
           /\ (\A key \in LocationKeys : ws[k] # <<key>>) => LocationSaid(ws, path, S) = l
<1>1. \A key \in LocationKeys : key \in AllKeys
  BY DEF AllKeys
<1> DEFINE value == ValueAt(ws, k)
           list  == ListAt(ws, k)
<1>2. \A key \in LocationKeys :
          /\ ws[k] = <<key>> =>
                 /\ WordOf(ws, S, key) = value
                 /\ NumberFor(ws, S, key) = Number(value)
                 /\ ListOf(ws, S, key) = list
          /\ ws[k] # <<key>> =>
                 /\ WordOf(ws, S, key) = WordOf(ws, R, key)
                 /\ NumberFor(ws, S, key) = NumberFor(ws, R, key)
                 /\ ListOf(ws, S, key) = ListOf(ws, R, key)
  BY <1>1, AddsValue
<1> HIDE DEF value, list
<1>3. /\ ws[k] = <<"root">> => WordOf(ws, S, "root") = value
      /\ ws[k] # <<"root">> =>
             WordOf(ws, S, "root") = WordOf(ws, R, "root")
      /\ ws[k] = <<"index">> => WordOf(ws, S, "index") = value
      /\ ws[k] # <<"index">> =>
             WordOf(ws, S, "index") = WordOf(ws, R, "index")
      /\ ws[k] = <<"return">> => WordOf(ws, S, "return") = value
      /\ ws[k] # <<"return">> =>
             WordOf(ws, S, "return") = WordOf(ws, R, "return")
      /\ ws[k] = <<"alias">> => WordOf(ws, S, "alias") = value
      /\ ws[k] # <<"alias">> =>
             WordOf(ws, S, "alias") = WordOf(ws, R, "alias")
      /\ ws[k] = <<"autoindex">> => WordOf(ws, S, "autoindex") = value
      /\ ws[k] # <<"autoindex">> =>
             WordOf(ws, S, "autoindex") = WordOf(ws, R, "autoindex")
      /\ ws[k] = <<"client_max_body_size">> =>
             NumberFor(ws, S, "client_max_body_size") = Number(value)
      /\ ws[k] # <<"client_max_body_size">> =>
             NumberFor(ws, S, "client_max_body_size") = NumberFor(ws, R, "client_max_body_size")
      /\ ws[k] = <<"allow_methods">> => ListOf(ws, S, "allow_methods") = list
      /\ ws[k] # <<"allow_methods">> =>
             ListOf(ws, S, "allow_methods") = ListOf(ws, R, "allow_methods")
      /\ ws[k] = <<"cgi_path">> => ListOf(ws, S, "cgi_path") = list
      /\ ws[k] # <<"cgi_path">> =>
             ListOf(ws, S, "cgi_path") = ListOf(ws, R, "cgi_path")
      /\ ws[k] = <<"cgi_ext">> => ListOf(ws, S, "cgi_ext") = list
      /\ ws[k] # <<"cgi_ext">> =>
             ListOf(ws, S, "cgi_ext") = ListOf(ws, R, "cgi_ext")
  BY <1>2 DEF LocationKeys
<1>4. \A p, q : p # q => <<p>> # <<q>>
  OBVIOUS
<1>5. ASSUME ws[k] = <<"root">>
      PROVE  LocationSaid(ws, path, S) = [l EXCEPT !["root"] = value]
  <2>1. \A key \in LocationKeys \ {"root"} : ws[k] # <<key>>
    BY <1>4, <1>5, Zenon
  <2>2. QED
    BY <1>3, <1>5, <2>1 DEF LocationSaid, LocationKeys
<1>6. ASSUME ws[k] = <<"index">>
      PROVE  LocationSaid(ws, path, S) = [l EXCEPT !["index"] = value]
  <2>1. \A key \in LocationKeys \ {"index"} : ws[k] # <<key>>
    BY <1>4, <1>6, Zenon
  <2>2. QED
    BY <1>3, <1>6, <2>1 DEF LocationSaid, LocationKeys
<1>7. ASSUME ws[k] = <<"return">>
      PROVE  LocationSaid(ws, path, S) = [l EXCEPT !["return"] = value]
  <2>1. \A key \in LocationKeys \ {"return"} : ws[k] # <<key>>
    BY <1>4, <1>7, Zenon
  <2>2. QED
    BY <1>3, <1>7, <2>1 DEF LocationSaid, LocationKeys
<1>8. ASSUME ws[k] = <<"alias">>
      PROVE  LocationSaid(ws, path, S) = [l EXCEPT !["alias"] = value]
  <2>1. \A key \in LocationKeys \ {"alias"} : ws[k] # <<key>>
    BY <1>4, <1>8, Zenon
  <2>2. QED
    BY <1>3, <1>8, <2>1 DEF LocationSaid, LocationKeys
<1>9. ASSUME ws[k] = <<"autoindex">>
      PROVE  LocationSaid(ws, path, S) = [l EXCEPT !["autoindex"] = value]
  <2>1. \A key \in LocationKeys \ {"autoindex"} : ws[k] # <<key>>
    BY <1>4, <1>9, Zenon
  <2>2. QED
    BY <1>3, <1>9, <2>1 DEF LocationSaid, LocationKeys
<1>10. ASSUME ws[k] = <<"client_max_body_size">>
      PROVE  LocationSaid(ws, path, S) = [l EXCEPT !["cmbz"] = Number(value)]
  <2>1. \A key \in LocationKeys \ {"client_max_body_size"} : ws[k] # <<key>>
    BY <1>4, <1>10, Zenon
  <2>2. QED
    BY <1>3, <1>10, <2>1 DEF LocationSaid, LocationKeys
<1>11. ASSUME ws[k] = <<"allow_methods">>
      PROVE  LocationSaid(ws, path, S) = [l EXCEPT !["methods"] = list]
  <2>1. \A key \in LocationKeys \ {"allow_methods"} : ws[k] # <<key>>
    BY <1>4, <1>11, Zenon
  <2>2. QED
    BY <1>3, <1>11, <2>1 DEF LocationSaid, LocationKeys
<1>12. ASSUME ws[k] = <<"cgi_path">>
      PROVE  LocationSaid(ws, path, S) = [l EXCEPT !["cgi_path"] = list]
  <2>1. \A key \in LocationKeys \ {"cgi_path"} : ws[k] # <<key>>
    BY <1>4, <1>12, Zenon
  <2>2. QED
    BY <1>3, <1>12, <2>1 DEF LocationSaid, LocationKeys
<1>13. ASSUME ws[k] = <<"cgi_ext">>
      PROVE  LocationSaid(ws, path, S) = [l EXCEPT !["cgi_ext"] = list]
  <2>1. \A key \in LocationKeys \ {"cgi_ext"} : ws[k] # <<key>>
    BY <1>4, <1>13, Zenon
  <2>2. QED
    BY <1>3, <1>13, <2>1 DEF LocationSaid, LocationKeys
<1>14. ASSUME \A key \in LocationKeys : ws[k] # <<key>>
      PROVE  LocationSaid(ws, path, S) = l
  BY <1>3, <1>14 DEF LocationSaid, LocationKeys
<1>15. QED
  BY <1>5, <1>6, <1>7, <1>8, <1>9, <1>10, <1>11, <1>12, <1>13, <1>14 DEF value, list

-----------------------------------------------------------------------------
(* What has been read, up to a place.                                      *)

\* Every directive of the server before place p is right, with its location.
OwnRightTo(ws, p) ==
    \A k \in Earlier(OwnWords(ws), p) :
        /\ RightOwn(ws, k)
        /\ ws[k] = <<"location">> => \A m \in WordsIn(ws, k) : RightIn(ws, k, m)

\* s is what the words before p say, and the next is the server's own.
OwnAt(ws, p, s) ==
    /\ p \in 1..Len(ws) + 2
    /\ p <= Len(ws) => p \in OwnWords(ws)
    /\ s = ServerSaid(ws, Earlier(OwnWords(ws), p))
    /\ OwnRightTo(ws, p)

\* The same in the location named at o: l is what its words before p say.
InAt(ws, o, p, s, l) ==
    /\ o \in OwnWords(ws) /\ ws[o] = <<"location">> /\ RightOwn(ws, o)
    /\ p \in o + 3..Len(ws) + 1 /\ Holds(ws, o, p)
    /\ p <= Len(ws) => p \in WordsIn(ws, o) /\ ~IsValue(ws, o, p)
    /\ s = ServerSaid(ws, Earlier(OwnWords(ws), o)) /\ OwnRightTo(ws, o)
    /\ l = LocationSaid(ws, ws[o + 1], Earlier(WordsIn(ws, o), p))
    /\ \A m \in Earlier(WordsIn(ws, o), p) : RightIn(ws, o, m)

LEMMA EarlierAre ==
    ASSUME NEW N \in Nat, NEW S \in SUBSET (1..N), NEW p \in Nat
    PROVE  /\ Earlier(S, p) \in SUBSET Nat /\ IsFiniteSet(Earlier(S, p))
           /\ \A j \in Earlier(S, p) : j < p
<1>1. IsFiniteSet(1..N)
  BY FS_Interval
<1>2. Earlier(S, p) \in SUBSET (1..N)
  BY DEF Earlier
<1>3. IsFiniteSet(Earlier(S, p))
  BY <1>1, <1>2, FS_Subset
<1>4. QED
  BY <1>2, <1>3 DEF Earlier

LEMMA OwnAre ==
    ASSUME NEW ws, AWords(ws)
    PROVE  /\ Len(ws) \in Nat /\ DOMAIN ws = 1..Len(ws)
           /\ OwnWords(ws) \in SUBSET (1..Len(ws))
           /\ \A o : WordsIn(ws, o) \in SUBSET (1..Len(ws))
  BY WordsDomain DEF OwnWords, WordsIn

\* From a place to a later one, with a single directive, or none, at the first.
LEMMA EarlierAdds ==
    ASSUME NEW ws, NEW N \in Nat, NEW S \in SUBSET (1..N), NEW k \in S, NEW p \in Nat, k < p,
           \A m \in k + 1..p - 1 : m \in S => \A key \in AllKeys : ws[m] # <<key>>
    PROVE  Adds(ws, Earlier(S, k), Earlier(S, p), k)
<1>1. k \in Nat /\ \A j \in S : j \in Nat
  OBVIOUS
<1>2. /\ Earlier(S, k) \in SUBSET Nat /\ IsFiniteSet(Earlier(S, k))
      /\ \A j \in Earlier(S, k) : j < k
  BY <1>1, EarlierAre
<1>3. Earlier(S, k) \subseteq Earlier(S, p) /\ k \in Earlier(S, p)
  <2>1. \A j \in S : j < k => j < p
    BY <1>1
  <2>2. QED
    BY <2>1, Zenon DEF Earlier
<1>4. \A m \in Earlier(S, p) \ Earlier(S, k) : m \in S /\ (m = k \/ m \in k + 1..p - 1)
  BY <1>1 DEF Earlier
<1>5. QED
  BY <1>1, <1>2, <1>3, <1>4 DEF Adds

\* Nothing is said before the first word.
LEMMA NothingSaid ==
    ASSUME NEW ws, NEW path
    PROVE  /\ ServerSaid(ws, {}) = NewServer
           /\ LocationSaid(ws, path, {}) = LocationAt(path)
<1>1. \A key : GivenAt(ws, {}, key) = {}
  BY DEF GivenAt
<1>2. \A key : /\ WordOf(ws, {}, key) = <<>> /\ NumberFor(ws, {}, key) = 0
               /\ ListOf(ws, {}, key) = <<>>
  BY <1>1 DEF WordOf, NumberFor, ListOf
<1>3. HostFor(ws, {}) = 0 /\ RootFor(ws, {}) = <<>>
  BY <1>1 DEF HostFor, RootFor
<1>4. PagesOf(ws, {}) = NewServer.error_pages
  <2>1. PagesOf(ws, {}) = [code \in {404} |-> NewServer.error_pages[404]]
    BY <1>1 DEF PagesOf, PagesFor
  <2>2. NewServer.error_pages = [code \in {404} |-> <<"error_pages/404.html">>]
    BY DEF NewServer
  <2>3. QED
    BY <2>1, <2>2
<1>5. LocationsSaid(ws, {}) = <<>>
  <2> DEFINE P == LocationsSaid(ws, {})
  <2>1. Cardinality(GivenAt(ws, {}, "location")) = 0
    BY <1>1, FS_EmptySet
  <2>2. DOMAIN InOrder(GivenAt(ws, {}, "location")) = 1..0
    BY <2>1 DEF InOrder
  <2>3. P = [n \in 1..0 |-> P[n]]
    BY <2>2 DEF LocationsSaid
  <2> HIDE DEF P
  <2>4. P \in [1..0 -> {}] /\ 0 \in Nat
    BY <2>3
  <2>5. P \in Seq({}) /\ Len(P) = 0
    BY <2>4
  <2>6. P = <<>>
    BY <2>5, EmptySeq
  <2>7. QED
    BY <2>6 DEF P
<1>6. ServerSaid(ws, {}) = NewServer
  BY <1>2, <1>3, <1>4, <1>5 DEF ServerSaid, NewServer
<1>7. LocationSaid(ws, path, {}) = LocationAt(path)
  BY <1>2 DEF LocationSaid, LocationAt, NewLocation
<1>8. QED
  BY <1>6, <1>7

LEMMA OwnStarts == ASSUME NEW ws, AWords(ws) PROVE OwnAt(ws, 1, NewServer)
<1>1. Len(ws) \in Nat /\ DOMAIN ws = 1..Len(ws) /\ OwnWords(ws) \in SUBSET (1..Len(ws))
  BY OwnAre
<1>2. Earlier(OwnWords(ws), 1) = {}
  <2>1. \A j \in OwnWords(ws) : ~(j < 1)
    BY <1>1
  <2>2. QED
    BY <2>1 DEF Earlier
<1>3. 1 <= Len(ws) => 1 \in OwnWords(ws)
  <2>1. \A o \in DOMAIN ws : ~(o < 1)
    BY <1>1
  <2>2. 1 <= Len(ws) => 1 \in DOMAIN ws
    BY <1>1
  <2>3. QED
    BY <2>1, <2>2 DEF OwnWords, Holds
<1>4. 1 \in 1..Len(ws) + 2
  BY <1>1
<1>5. QED
  BY <1>2, <1>3, <1>4, NothingSaid DEF OwnAt, OwnRightTo

\* The keys of the server.  A word that is none of them is right as it is.
LEMMA NoKeyIsRight ==
    ASSUME NEW ws, NEW k, \A key \in ServerKeys : ws[k] # <<key>>
    PROVE  RightOwn(ws, k) /\ ws[k] # <<"location">>
<1>1. /\ ws[k] # <<"listen">> /\ ws[k] # <<"server_name">> /\ ws[k] # <<"host">>
      /\ ws[k] # <<"root">> /\ ws[k] # <<"index">> /\ ws[k] # <<"client_max_body_size">>
      /\ ws[k] # <<"error_page">> /\ ws[k] # <<"location">>
  BY Zenon DEF ServerKeys
<1>2. QED
  BY <1>1, Zenon DEF RightOwn

\* A directive of the server is behind.
LEMMA OwnGoesOn ==
    ASSUME NEW ws, AWords(ws), NEW k \in 1..Len(ws), NEW s, OwnAt(ws, k, s),
           RightOwn(ws, k), ws[k] # <<"location">>, NEW p \in k + 1..Len(ws) + 1,
           \A m \in k + 1..p - 1 : \A key \in AllKeys : ws[m] # <<key>>
    PROVE  /\ Adds(ws, Earlier(OwnWords(ws), k), Earlier(OwnWords(ws), p), k)
           /\ OwnAt(ws, p, ServerSaid(ws, Earlier(OwnWords(ws), p)))
<1>1. Len(ws) \in Nat /\ DOMAIN ws = 1..Len(ws) /\ OwnWords(ws) \in SUBSET (1..Len(ws))
  BY OwnAre
<1>2. k \in OwnWords(ws) /\ k \in Nat /\ p \in Nat /\ k < p /\ p <= Len(ws) + 1
  BY <1>1 DEF OwnAt
<1>3. Adds(ws, Earlier(OwnWords(ws), k), Earlier(OwnWords(ws), p), k)
  BY <1>1, <1>2, EarlierAdds
<1>4. "location" \in AllKeys
  BY DEF AllKeys, ServerKeys
<1>5. \A m \in k..p - 1 : m = k \/ m \in k + 1..p - 1
  BY <1>2
<1>6. p <= Len(ws) => p \in OwnWords(ws)
  <2>1. \A m \in k..p - 1 : ws[m] # <<"location">>
    BY <1>4, <1>5
  <2>2. k <= p
    BY <1>2
  <2>3. \A m \in k..p : m <= Len(ws) => m \in OwnWords(ws)
    BY <1>2, <2>1, <2>2, OwnStays, Zenon
  <2>4. p \in k..p
    BY <1>2
  <2>5. QED
    BY <2>3, <2>4
<1>7. OwnRightTo(ws, p)
  <2>1. ASSUME NEW m \in Earlier(OwnWords(ws), p)
        PROVE  /\ RightOwn(ws, m)
               /\ ws[m] = <<"location">> => \A j \in WordsIn(ws, m) : RightIn(ws, m, j)
    <3>1. m \in OwnWords(ws) /\ m \in Nat /\ m < p
      BY <1>1 DEF Earlier
    <3>2. CASE m < k
      <4>1. m \in Earlier(OwnWords(ws), k)
        BY <3>1, <3>2 DEF Earlier
      <4>2. QED
        BY <4>1 DEF OwnAt, OwnRightTo
    <3>3. CASE m = k
      BY <3>3
    <3>4. CASE k < m
      <4>1. m \in k + 1..p - 1
        BY <1>2, <3>1, <3>4
      <4>2. \A key \in ServerKeys : ws[m] # <<key>>
        BY <4>1 DEF AllKeys
      <4>3. QED
        BY <4>2, NoKeyIsRight
    <3>5. QED
      BY <1>2, <3>1, <3>2, <3>3, <3>4
  <2>2. QED
    BY <2>1 DEF OwnRightTo
<1>8. p \in 1..Len(ws) + 2
  BY <1>1, <1>2
<1>9. QED
  BY <1>3, <1>6, <1>7, <1>8, Zenon DEF OwnAt

\* A word of a location that is right because it is a value.
LEMMA ValueIsRight ==
    ASSUME NEW ws, NEW o, NEW k, IsValue(ws, o, k), \A key \in AllKeys : ws[k] # <<key>>
    PROVE  RightIn(ws, o, k)
<1>1. /\ ws[k] # <<"root">> /\ ws[k] # <<"autoindex">> /\ ws[k] # <<"index">>
      /\ ws[k] # <<"return">> /\ ws[k] # <<"alias">> /\ ws[k] # <<"client_max_body_size">>
      /\ ws[k] # <<"allow_methods">> /\ ws[k] # <<"cgi_path">>
  BY Zenon DEF AllKeys, LocationKeys
<1>2. QED
  BY <1>1, Zenon DEF RightIn

\* A directive of a location is behind.
LEMMA InGoesOn ==
    ASSUME NEW ws, AWords(ws), NEW o, NEW k \in 1..Len(ws), NEW s, NEW l, InAt(ws, o, k, s, l),
           RightIn(ws, o, k), NEW p \in k + 1..Len(ws) + 1,
           Holds(ws, o, p), p <= Len(ws) => p \in WordsIn(ws, o) /\ ~IsValue(ws, o, p),
           \A m \in k + 1..p - 1 : m \in WordsIn(ws, o) =>
               IsValue(ws, o, m) /\ \A key \in AllKeys : ws[m] # <<key>>
    PROVE  /\ Adds(ws, Earlier(WordsIn(ws, o), k), Earlier(WordsIn(ws, o), p), k)
           /\ InAt(ws, o, p, s, LocationSaid(ws, ws[o + 1], Earlier(WordsIn(ws, o), p)))
<1>1. /\ Len(ws) \in Nat /\ DOMAIN ws = 1..Len(ws) /\ OwnWords(ws) \in SUBSET (1..Len(ws))
      /\ WordsIn(ws, o) \in SUBSET (1..Len(ws))
  BY OwnAre
<1>2. /\ k \in WordsIn(ws, o) /\ k \in Nat /\ p \in Nat /\ k < p /\ p <= Len(ws) + 1
      /\ o \in Nat /\ k >= o + 3
  BY <1>1 DEF InAt
<1>3. Adds(ws, Earlier(WordsIn(ws, o), k), Earlier(WordsIn(ws, o), p), k)
  BY <1>1, <1>2, EarlierAdds
<1>4. ASSUME NEW m \in Earlier(WordsIn(ws, o), p) PROVE RightIn(ws, o, m)
  <2>1. m \in WordsIn(ws, o) /\ m \in Nat /\ m < p
    BY <1>1 DEF Earlier
  <2>2. CASE m < k
    <3>1. m \in Earlier(WordsIn(ws, o), k)
      BY <2>1, <2>2 DEF Earlier
    <3>2. QED
      BY <3>1 DEF InAt
  <2>3. CASE m = k
    BY <2>3
  <2>4. CASE k < m
    <3>1. m \in k + 1..p - 1
      BY <1>2, <2>1, <2>4
    <3>2. QED
      BY <2>1, <3>1, ValueIsRight
  <2>5. QED
    BY <1>2, <2>1, <2>2, <2>3, <2>4
<1>5. p \in o + 3..Len(ws) + 1
  BY <1>1, <1>2
<1>6. QED
  BY <1>3, <1>4, <1>5, Zenon DEF InAt

-----------------------------------------------------------------------------
(* When one directive is right.                                            *)

LEMMA RightOwnIs ==
    ASSUME NEW ws, NEW k, NEW s, s = ServerSaid(ws, Earlier(OwnWords(ws), k))
    PROVE  /\ ws[k] = <<"listen">> =>
                  (RightOwn(ws, k) <=> RightValue(ws, k, s.port, 0, IsPort(ValueAt(ws, k))))
           /\ ws[k] = <<"server_name">> =>
                  (RightOwn(ws, k) <=> RightValue(ws, k, s.server_name, <<>>, TRUE))
           /\ ws[k] = <<"host">> =>
                  (RightOwn(ws, k) <=> RightValue(ws, k, s.host, 0, IsHost(ValueAt(ws, k))))
           /\ ws[k] = <<"root">> =>
                  (RightOwn(ws, k) <=> RightValue(ws, k, s.root, <<>>, IsRoot(ValueAt(ws, k))))
           /\ ws[k] = <<"index">> =>
                  (RightOwn(ws, k) <=> RightValue(ws, k, s.index, <<>>, TRUE))
           /\ ws[k] = <<"client_max_body_size">> =>
                  (RightOwn(ws, k) <=> RightValue(ws, k, s.cmbz, 0, IsNumber(ValueAt(ws, k))))
           /\ ws[k] = <<"error_page">> =>
                  (RightOwn(ws, k) <=> RightPage(ws, k, s.error_pages))
           /\ ws[k] = <<"location">> => (RightOwn(ws, k) <=> RightPlace(ws, k))
<1> DEFINE Own(key) ==
        /\ key # "listen" => ws[k] # <<"listen">>
        /\ key # "server_name" => ws[k] # <<"server_name">>
        /\ key # "host" => ws[k] # <<"host">>
        /\ key # "root" => ws[k] # <<"root">>
        /\ key # "index" => ws[k] # <<"index">>
        /\ key # "client_max_body_size" => ws[k] # <<"client_max_body_size">>
        /\ key # "error_page" => ws[k] # <<"error_page">>
        /\ key # "location" => ws[k] # <<"location">>
<1>1. \A key : ws[k] = <<key>> => Own(key)
  BY KeysDiffer
<1>2. QED
  BY <1>1 DEF RightOwn

LEMMA RightInIs ==
    ASSUME NEW ws, NEW o, NEW k, NEW s, s = ServerSaid(ws, Earlier(OwnWords(ws), o)),
           NEW l, l = LocationSaid(ws, ws[o + 1], Earlier(WordsIn(ws, o), k))
    PROVE  /\ ws[k] = <<"root">> => (RightIn(ws, o, k) <=>
                  RightValue(ws, k, l.root, <<>>, IsRootBelow(s.root, ValueAt(ws, k))))
           /\ ws[k] = <<"autoindex">> => (RightIn(ws, o, k) <=>
                  RightValue(ws, k, l.autoindex, <<>>, IsOnOff(ValueAt(ws, k))))
           /\ ws[k] = <<"index">> =>
                  (RightIn(ws, o, k) <=> RightValue(ws, k, l.index, <<>>, TRUE))
           /\ ws[k] = <<"return">> =>
                  (RightIn(ws, o, k) <=> RightValue(ws, k, l.return, <<>>, TRUE))
           /\ ws[k] = <<"alias">> =>
                  (RightIn(ws, o, k) <=> RightValue(ws, k, l.alias, <<>>, TRUE))
           /\ ws[k] = <<"client_max_body_size">> => (RightIn(ws, o, k) <=>
                  RightValue(ws, k, l.cmbz, 0, IsNumber(ValueAt(ws, k))))
           /\ ws[k] = <<"allow_methods">> =>
                  (RightIn(ws, o, k) <=> RightMethods(ListAt(ws, k), l.methods))
           /\ ws[k] = <<"cgi_path">> => (RightIn(ws, o, k) <=> RightCgiPath(ws, k))
           /\ ws[k] \in {<<"cgi_ext">>, <<RBrace>>} => RightIn(ws, o, k)
           /\ (~IsValue(ws, o, k) /\ \A key \in LocationKeys \cup {RBrace} : ws[k] # <<key>>)
                  => ~RightIn(ws, o, k)
<1> DEFINE In(key) ==
        /\ key # "root" => ws[k] # <<"root">>
        /\ key # "autoindex" => ws[k] # <<"autoindex">>
        /\ key # "index" => ws[k] # <<"index">>
        /\ key # "return" => ws[k] # <<"return">>
        /\ key # "alias" => ws[k] # <<"alias">>
        /\ key # "client_max_body_size" => ws[k] # <<"client_max_body_size">>
        /\ key # "allow_methods" => ws[k] # <<"allow_methods">>
        /\ key # "cgi_path" => ws[k] # <<"cgi_path">>
<1>1. \A key : ws[k] = <<key>> => In(key)
  BY KeysDiffer
<1>2. s.root = RootFor(ws, Earlier(OwnWords(ws), o))
  BY DEF ServerSaid
<1>3. \A key \in LocationKeys \cup {RBrace} : ws[k] = <<key>> =>
          \E other \in LocationKeys \cup {RBrace} : ws[k] = <<other>>
  OBVIOUS
<1>4. RBrace = "}"
  BY DEF RBrace
<1> DEFINE Known == \E other \in LocationKeys \cup {RBrace} : ws[k] = <<other>>
<1>5. /\ ws[k] = <<"root">> => Known
      /\ ws[k] = <<"autoindex">> => Known
      /\ ws[k] = <<"index">> => Known
      /\ ws[k] = <<"return">> => Known
      /\ ws[k] = <<"alias">> => Known
      /\ ws[k] = <<"client_max_body_size">> => Known
      /\ ws[k] = <<"allow_methods">> => Known
      /\ ws[k] = <<"cgi_path">> => Known
      /\ ws[k] = <<"cgi_ext">> => Known
      /\ ws[k] = <<RBrace>> => Known
  BY <1>3 DEF LocationKeys
<1>6. Known \/ ~Known
  OBVIOUS
<1>7. ~Known <=> \A key \in LocationKeys \cup {RBrace} : ws[k] # <<key>>
  OBVIOUS
<1> HIDE DEF Known
<1>8. RightIn(ws, o, k) <=>
         /\ ws[k] = <<"root">> =>
                RightValue(ws, k, l.root, <<>>, IsRootBelow(s.root, ValueAt(ws, k)))
         /\ ws[k] = <<"autoindex">> =>
                RightValue(ws, k, l.autoindex, <<>>, IsOnOff(ValueAt(ws, k)))
         /\ ws[k] = <<"index">> => RightValue(ws, k, l.index, <<>>, TRUE)
         /\ ws[k] = <<"return">> => RightValue(ws, k, l.return, <<>>, TRUE)
         /\ ws[k] = <<"alias">> => RightValue(ws, k, l.alias, <<>>, TRUE)
         /\ ws[k] = <<"client_max_body_size">> =>
                RightValue(ws, k, l.cmbz, 0, IsNumber(ValueAt(ws, k)))
         /\ ws[k] = <<"allow_methods">> => RightMethods(ListAt(ws, k), l.methods)
         /\ ws[k] = <<"cgi_path">> => RightCgiPath(ws, k)
         /\ IsValue(ws, o, k) \/ Known
  BY <1>2 DEF RightIn, Known
<1>9. ASSUME ws[k] = <<"root">>
      PROVE  RightIn(ws, o, k) <=>
                RightValue(ws, k, l.root, <<>>, IsRootBelow(s.root, ValueAt(ws, k)))
  <2>1. In("root") /\ Known
    BY <1>1, <1>5, <1>9
  <2>2. QED
    BY <1>8, <1>9, <2>1
<1>10. ASSUME ws[k] = <<"autoindex">>
      PROVE  RightIn(ws, o, k) <=> RightValue(ws, k, l.autoindex, <<>>, IsOnOff(ValueAt(ws, k)))
  <2>1. In("autoindex") /\ Known
    BY <1>1, <1>5, <1>10
  <2>2. QED
    BY <1>8, <1>10, <2>1
<1>11. ASSUME ws[k] = <<"index">>
      PROVE  RightIn(ws, o, k) <=> RightValue(ws, k, l.index, <<>>, TRUE)
  <2>1. In("index") /\ Known
    BY <1>1, <1>5, <1>11
  <2>2. QED
    BY <1>8, <1>11, <2>1
<1>12. ASSUME ws[k] = <<"return">>
      PROVE  RightIn(ws, o, k) <=> RightValue(ws, k, l.return, <<>>, TRUE)
  <2>1. In("return") /\ Known
    BY <1>1, <1>5, <1>12
  <2>2. QED
    BY <1>8, <1>12, <2>1
<1>13. ASSUME ws[k] = <<"alias">>
      PROVE  RightIn(ws, o, k) <=> RightValue(ws, k, l.alias, <<>>, TRUE)
  <2>1. In("alias") /\ Known
    BY <1>1, <1>5, <1>13
  <2>2. QED
    BY <1>8, <1>13, <2>1
<1>14. ASSUME ws[k] = <<"client_max_body_size">>
      PROVE  RightIn(ws, o, k) <=> RightValue(ws, k, l.cmbz, 0, IsNumber(ValueAt(ws, k)))
  <2>1. In("client_max_body_size") /\ Known
    BY <1>1, <1>5, <1>14
  <2>2. QED
    BY <1>8, <1>14, <2>1
<1>15. ASSUME ws[k] = <<"allow_methods">>
      PROVE  RightIn(ws, o, k) <=> RightMethods(ListAt(ws, k), l.methods)
  <2>1. In("allow_methods") /\ Known
    BY <1>1, <1>5, <1>15
  <2>2. QED
    BY <1>8, <1>15, <2>1
<1>16. ASSUME ws[k] = <<"cgi_path">>
      PROVE  RightIn(ws, o, k) <=> RightCgiPath(ws, k)
  <2>1. In("cgi_path") /\ Known
    BY <1>1, <1>5, <1>16
  <2>2. QED
    BY <1>8, <1>16, <2>1
<1>17. ASSUME NEW key \in {"cgi_ext", RBrace}, ws[k] = <<key>> PROVE RightIn(ws, o, k)
  <2>1. In(key) /\ Known
    BY <1>1, <1>5, <1>17
  <2>2. QED
    BY <1>4, <1>8, <1>17, <2>1
<1>18. ASSUME ~IsValue(ws, o, k), ~Known PROVE ~RightIn(ws, o, k)
  BY <1>8, <1>18
<1>19. QED
  BY <1>7, <1>9, <1>10, <1>11, <1>12, <1>13, <1>14, <1>15, <1>16, <1>17, <1>18

-----------------------------------------------------------------------------
(* The directives of a server are read.                                    *)

\* A directive with one value, and its value, are behind.
LEMMA OwnValueRead ==
    ASSUME NEW ws, AWords(ws), NEW k \in 1..Len(ws), NEW s, OwnAt(ws, k, s), RightOwn(ws, k),
           NEW key \in ServerKeys \ {"error_page", "location"}, ws[k] = <<key>>,
           k < Len(ws), checkSemiColon(ws[k + 1])
    PROVE  /\ Adds(ws, Earlier(OwnWords(ws), k), Earlier(OwnWords(ws), k + 2), k)
           /\ OwnAt(ws, k + 2, ServerSaid(ws, Earlier(OwnWords(ws), k + 2)))
           /\ s = ServerSaid(ws, Earlier(OwnWords(ws), k))
<1>1. Len(ws) \in Nat /\ k \in Nat
  BY WordsDomain
<1>2. k + 2 \in k + 1..Len(ws) + 1
  BY <1>1
<1>3. \A m \in k + 1..(k + 2) - 1 : \A other \in AllKeys : ws[m] # <<other>>
  <2>1. \A m \in k + 1..(k + 2) - 1 : m = k + 1
    BY <1>1
  <2>2. QED
    BY <2>1, KeysAreBare
<1>4. ws[k] # <<"location">>
  BY KeysDiffer
<1>5. QED
  BY <1>2, <1>3, <1>4, OwnGoesOn DEF OwnAt

\* A step that reads on, or gives up at a directive that is wrong.
ReadsOwn ==
    /\ pc = "server" /\ i <= Len(words)
    /\ \/ GivesUp /\ ~RightOwn(words, i)
       \/ /\ OwnAt(words, i', server')
          /\ UNCHANGED <<pc, words, servers, splitVars>>

LEMMA ServerValueRead ==
    ASSUME AWords(words), i \in Nat, OwnAt(words, i, server),
           \/ setPort \/ setServerName \/ setHost \/ setRoot \/ setIndex
           \/ setClientMaxBodySize
    PROVE  ReadsOwn
<1> DEFINE value == ValueAt(words, i)
           next  == ServerSaid(words, Earlier(OwnWords(words), i + 2))
<1>0. Len(words) \in Nat
  BY WordsDomain
<1>1. i \in 1..Len(words) + 2 /\ server = ServerSaid(words, Earlier(OwnWords(words), i))
  BY DEF OwnAt
<1>2. ASSUME NEW key \in ServerKeys \ {"error_page", "location"}, words[i] = <<key>>,
             RightOwn(words, i), i < Len(words), checkSemiColon(words[i + 1])
      PROVE  /\ Adds(words, Earlier(OwnWords(words), i), Earlier(OwnWords(words), i + 2), i)
             /\ OwnAt(words, i + 2, next)
  <2>1. i \in 1..Len(words)
    BY <1>0, <1>1, <1>2
  <2>2. QED
    BY <1>2, <2>1, OwnValueRead
<1>3. CASE setPort
  <2>1. /\ pc = "server" /\ i <= Len(words) /\ words[i] = <<"listen">>
        /\ \/ GivesUp /\ ~(i < Len(words) /\ checkSemiColon(words[i + 1])
                             /\ server.port = 0 /\ IsPort(value))
           \/ /\ i < Len(words) /\ checkSemiColon(words[i + 1])
              /\ server.port = 0 /\ IsPort(value)
              /\ server' = [server EXCEPT !["port"] = Number(value)]
              /\ i' = i + 2 /\ UNCHANGED <<pc, words, servers, splitVars>>
    BY <1>0, <1>1, <1>3
    DEF setPort, ServerValue, Names, ReadsPast, Ends, Accepts, GivesUp, ValueAt
  <2>2. RightOwn(words, i) <=> RightValue(words, i, server.port, 0, IsPort(value))
    BY <1>1, <2>1, RightOwnIs
  <2>3. CASE RightOwn(words, i)
    <3>1. /\ i < Len(words) /\ checkSemiColon(words[i + 1])
          /\ server' = [server EXCEPT !["port"] = Number(value)]
          /\ i' = i + 2 /\ UNCHANGED <<pc, words, servers, splitVars>>
      BY <2>1, <2>2, <2>3 DEF RightValue
    <3>2. "listen" \in ServerKeys \ {"error_page", "location"}
      BY DEF ServerKeys
    <3>3. /\ Adds(words, Earlier(OwnWords(words), i), Earlier(OwnWords(words), i + 2), i)
          /\ OwnAt(words, i + 2, next)
      BY <1>2, <2>1, <2>3, <3>1, <3>2
    <3>4. next = [server EXCEPT !["port"] = Number(value)]
      BY <1>1, <2>1, <3>3, AddsServer
    <3> HIDE DEF next, value
    <3>5. QED
      BY <2>1, <3>1, <3>3, <3>4 DEF ReadsOwn
  <2>4. CASE ~RightOwn(words, i)
    <3>1. ~(/\ i < Len(words) /\ checkSemiColon(words[i + 1])
            /\ server.port = 0 /\ IsPort(value))
      BY <2>2, <2>4 DEF RightValue
    <3>2. GivesUp
      BY <2>1, <3>1
    <3>3. QED
      BY <2>1, <2>4, <3>2 DEF ReadsOwn
  <2>5. QED
    BY <2>3, <2>4
<1>4. CASE setServerName
  <2>1. /\ pc = "server" /\ i <= Len(words) /\ words[i] = <<"server_name">>
        /\ \/ GivesUp /\ ~(i < Len(words) /\ checkSemiColon(words[i + 1])
                             /\ server.server_name = <<>> /\ TRUE)
           \/ /\ i < Len(words) /\ checkSemiColon(words[i + 1])
              /\ server.server_name = <<>> /\ TRUE
              /\ server' = [server EXCEPT !["server_name"] = value]
              /\ i' = i + 2 /\ UNCHANGED <<pc, words, servers, splitVars>>
    BY <1>0, <1>1, <1>4
    DEF setServerName, ServerValue, Names, ReadsPast, Ends, Accepts, GivesUp, ValueAt, AnyWord,
        Itself
  <2>2. RightOwn(words, i) <=> RightValue(words, i, server.server_name, <<>>, TRUE)
    BY <1>1, <2>1, RightOwnIs
  <2>3. CASE RightOwn(words, i)
    <3>1. /\ i < Len(words) /\ checkSemiColon(words[i + 1])
          /\ server' = [server EXCEPT !["server_name"] = value]
          /\ i' = i + 2 /\ UNCHANGED <<pc, words, servers, splitVars>>
      BY <2>1, <2>2, <2>3 DEF RightValue
    <3>2. "server_name" \in ServerKeys \ {"error_page", "location"}
      BY DEF ServerKeys
    <3>3. /\ Adds(words, Earlier(OwnWords(words), i), Earlier(OwnWords(words), i + 2), i)
          /\ OwnAt(words, i + 2, next)
      BY <1>2, <2>1, <2>3, <3>1, <3>2
    <3>4. next = [server EXCEPT !["server_name"] = value]
      BY <1>1, <2>1, <3>3, AddsServer
    <3> HIDE DEF next, value
    <3>5. QED
      BY <2>1, <3>1, <3>3, <3>4 DEF ReadsOwn
  <2>4. CASE ~RightOwn(words, i)
    <3>1. ~(/\ i < Len(words) /\ checkSemiColon(words[i + 1])
            /\ server.server_name = <<>> /\ TRUE)
      BY <2>2, <2>4 DEF RightValue
    <3>2. GivesUp
      BY <2>1, <3>1
    <3>3. QED
      BY <2>1, <2>4, <3>2 DEF ReadsOwn
  <2>5. QED
    BY <2>3, <2>4
<1>5. CASE setHost
  <2>1. /\ pc = "server" /\ i <= Len(words) /\ words[i] = <<"host">>
        /\ \/ GivesUp /\ ~(i < Len(words) /\ checkSemiColon(words[i + 1])
                             /\ server.host = 0 /\ IsHost(value))
           \/ /\ i < Len(words) /\ checkSemiColon(words[i + 1])
              /\ server.host = 0 /\ IsHost(value)
              /\ server' = [server EXCEPT !["host"] = Host(value)]
              /\ i' = i + 2 /\ UNCHANGED <<pc, words, servers, splitVars>>
    BY <1>0, <1>1, <1>5
    DEF setHost, ServerValue, Names, ReadsPast, Ends, Accepts, GivesUp, ValueAt
  <2>2. RightOwn(words, i) <=> RightValue(words, i, server.host, 0, IsHost(value))
    BY <1>1, <2>1, RightOwnIs
  <2>3. CASE RightOwn(words, i)
    <3>1. /\ i < Len(words) /\ checkSemiColon(words[i + 1])
          /\ server' = [server EXCEPT !["host"] = Host(value)]
          /\ i' = i + 2 /\ UNCHANGED <<pc, words, servers, splitVars>>
      BY <2>1, <2>2, <2>3 DEF RightValue
    <3>2. "host" \in ServerKeys \ {"error_page", "location"}
      BY DEF ServerKeys
    <3>3. /\ Adds(words, Earlier(OwnWords(words), i), Earlier(OwnWords(words), i + 2), i)
          /\ OwnAt(words, i + 2, next)
      BY <1>2, <2>1, <2>3, <3>1, <3>2
    <3>4. next = [server EXCEPT !["host"] = Host(value)]
      BY <1>1, <2>1, <3>3, AddsServer
    <3> HIDE DEF next, value
    <3>5. QED
      BY <2>1, <3>1, <3>3, <3>4 DEF ReadsOwn
  <2>4. CASE ~RightOwn(words, i)
    <3>1. ~(/\ i < Len(words) /\ checkSemiColon(words[i + 1])
            /\ server.host = 0 /\ IsHost(value))
      BY <2>2, <2>4 DEF RightValue
    <3>2. GivesUp
      BY <2>1, <3>1
    <3>3. QED
      BY <2>1, <2>4, <3>2 DEF ReadsOwn
  <2>5. QED
    BY <2>3, <2>4
<1>6. CASE setRoot
  <2>1. /\ pc = "server" /\ i <= Len(words) /\ words[i] = <<"root">>
        /\ \/ GivesUp /\ ~(i < Len(words) /\ checkSemiColon(words[i + 1])
                             /\ server.root = <<>> /\ IsRoot(value))
           \/ /\ i < Len(words) /\ checkSemiColon(words[i + 1])
              /\ server.root = <<>> /\ IsRoot(value)
              /\ server' = [server EXCEPT !["root"] = Root(value)]
              /\ i' = i + 2 /\ UNCHANGED <<pc, words, servers, splitVars>>
    BY <1>0, <1>1, <1>6
    DEF setRoot, ServerValue, Names, ReadsPast, Ends, Accepts, GivesUp, ValueAt
  <2>2. RightOwn(words, i) <=> RightValue(words, i, server.root, <<>>, IsRoot(value))
    BY <1>1, <2>1, RightOwnIs
  <2>3. CASE RightOwn(words, i)
    <3>1. /\ i < Len(words) /\ checkSemiColon(words[i + 1])
          /\ server' = [server EXCEPT !["root"] = Root(value)]
          /\ i' = i + 2 /\ UNCHANGED <<pc, words, servers, splitVars>>
      BY <2>1, <2>2, <2>3 DEF RightValue
    <3>2. "root" \in ServerKeys \ {"error_page", "location"}
      BY DEF ServerKeys
    <3>3. /\ Adds(words, Earlier(OwnWords(words), i), Earlier(OwnWords(words), i + 2), i)
          /\ OwnAt(words, i + 2, next)
      BY <1>2, <2>1, <2>3, <3>1, <3>2
    <3>4. next = [server EXCEPT !["root"] = Root(value)]
      BY <1>1, <2>1, <3>3, AddsServer
    <3> HIDE DEF next, value
    <3>5. QED
      BY <2>1, <3>1, <3>3, <3>4 DEF ReadsOwn
  <2>4. CASE ~RightOwn(words, i)
    <3>1. ~(/\ i < Len(words) /\ checkSemiColon(words[i + 1])
            /\ server.root = <<>> /\ IsRoot(value))
      BY <2>2, <2>4 DEF RightValue
    <3>2. GivesUp
      BY <2>1, <3>1
    <3>3. QED
      BY <2>1, <2>4, <3>2 DEF ReadsOwn
  <2>5. QED
    BY <2>3, <2>4
<1>7. CASE setIndex
  <2>1. /\ pc = "server" /\ i <= Len(words) /\ words[i] = <<"index">>
        /\ \/ GivesUp /\ ~(i < Len(words) /\ checkSemiColon(words[i + 1])
                             /\ server.index = <<>> /\ TRUE)
           \/ /\ i < Len(words) /\ checkSemiColon(words[i + 1])
              /\ server.index = <<>> /\ TRUE
              /\ server' = [server EXCEPT !["index"] = value]
              /\ i' = i + 2 /\ UNCHANGED <<pc, words, servers, splitVars>>
    BY <1>0, <1>1, <1>7
    DEF setIndex, ServerValue, Names, ReadsPast, Ends, Accepts, GivesUp, ValueAt, AnyWord,
        Itself
  <2>2. RightOwn(words, i) <=> RightValue(words, i, server.index, <<>>, TRUE)
    BY <1>1, <2>1, RightOwnIs
  <2>3. CASE RightOwn(words, i)
    <3>1. /\ i < Len(words) /\ checkSemiColon(words[i + 1])
          /\ server' = [server EXCEPT !["index"] = value]
          /\ i' = i + 2 /\ UNCHANGED <<pc, words, servers, splitVars>>
      BY <2>1, <2>2, <2>3 DEF RightValue
    <3>2. "index" \in ServerKeys \ {"error_page", "location"}
      BY DEF ServerKeys
    <3>3. /\ Adds(words, Earlier(OwnWords(words), i), Earlier(OwnWords(words), i + 2), i)
          /\ OwnAt(words, i + 2, next)
      BY <1>2, <2>1, <2>3, <3>1, <3>2
    <3>4. next = [server EXCEPT !["index"] = value]
      BY <1>1, <2>1, <3>3, AddsServer
    <3> HIDE DEF next, value
    <3>5. QED
      BY <2>1, <3>1, <3>3, <3>4 DEF ReadsOwn
  <2>4. CASE ~RightOwn(words, i)
    <3>1. ~(/\ i < Len(words) /\ checkSemiColon(words[i + 1])
            /\ server.index = <<>> /\ TRUE)
      BY <2>2, <2>4 DEF RightValue
    <3>2. GivesUp
      BY <2>1, <3>1
    <3>3. QED
      BY <2>1, <2>4, <3>2 DEF ReadsOwn
  <2>5. QED
    BY <2>3, <2>4
<1>8. CASE setClientMaxBodySize
  <2>1. /\ pc = "server" /\ i <= Len(words) /\ words[i] = <<"client_max_body_size">>
        /\ \/ GivesUp /\ ~(i < Len(words) /\ checkSemiColon(words[i + 1])
                             /\ server.cmbz = 0 /\ IsNumber(value))
           \/ /\ i < Len(words) /\ checkSemiColon(words[i + 1])
              /\ server.cmbz = 0 /\ IsNumber(value)
              /\ server' = [server EXCEPT !["cmbz"] = Number(value)]
              /\ i' = i + 2 /\ UNCHANGED <<pc, words, servers, splitVars>>
    BY <1>0, <1>1, <1>8
    DEF setClientMaxBodySize, ServerValue, Names, ReadsPast, Ends, Accepts, GivesUp, ValueAt
  <2>2. RightOwn(words, i) <=> RightValue(words, i, server.cmbz, 0, IsNumber(value))
    BY <1>1, <2>1, RightOwnIs
  <2>3. CASE RightOwn(words, i)
    <3>1. /\ i < Len(words) /\ checkSemiColon(words[i + 1])
          /\ server' = [server EXCEPT !["cmbz"] = Number(value)]
          /\ i' = i + 2 /\ UNCHANGED <<pc, words, servers, splitVars>>
      BY <2>1, <2>2, <2>3 DEF RightValue
    <3>2. "client_max_body_size" \in ServerKeys \ {"error_page", "location"}
      BY DEF ServerKeys
    <3>3. /\ Adds(words, Earlier(OwnWords(words), i), Earlier(OwnWords(words), i + 2), i)
          /\ OwnAt(words, i + 2, next)
      BY <1>2, <2>1, <2>3, <3>1, <3>2
    <3>4. next = [server EXCEPT !["cmbz"] = Number(value)]
      BY <1>1, <2>1, <3>3, AddsServer
    <3> HIDE DEF next, value
    <3>5. QED
      BY <2>1, <3>1, <3>3, <3>4 DEF ReadsOwn
  <2>4. CASE ~RightOwn(words, i)
    <3>1. ~(/\ i < Len(words) /\ checkSemiColon(words[i + 1])
            /\ server.cmbz = 0 /\ IsNumber(value))
      BY <2>2, <2>4 DEF RightValue
    <3>2. GivesUp
      BY <2>1, <3>1
    <3>3. QED
      BY <2>1, <2>4, <3>2 DEF ReadsOwn
  <2>5. QED
    BY <2>3, <2>4
<1>9. QED
  BY <1>3, <1>4, <1>5, <1>6, <1>7, <1>8

LEMMA CodesAreBare ==
    ASSUME NEW w, IsCode(w)
    PROVE  \A key \in AllKeys : w # <<key>>
<1>1. Len(w) = 1 /\ w[1] \in DOMAIN NumberOf
  BY DEF IsCode, IsNumber
<1>2. w[1] \notin AllKeys
  BY <1>1, StartupAssumption, Zenon DEF AllKeys
<1>3. \A key : <<key>>[1] = key
  OBVIOUS
<1>4. QED
  BY <1>2, <1>3

LEMMA ErrorPageRead ==
    ASSUME AWords(words), i \in Nat, OwnAt(words, i, server), setErrorPage
    PROVE  ReadsOwn
<1> DEFINE code == Number(words[i + 1])
           file == cutSemiColon(words[i + 2])
           next == ServerSaid(words, Earlier(OwnWords(words), i + 3))
           Page == [server EXCEPT !.error_pages = WithPage(@, code, file)]
<1>0. Len(words) \in Nat
  BY WordsDomain
<1>1. i \in 1..Len(words) + 2 /\ server = ServerSaid(words, Earlier(OwnWords(words), i))
  BY DEF OwnAt
<1>2. /\ pc = "server" /\ i <= Len(words) /\ words[i] = <<"error_page">>
      /\ \/ GivesUp /\ ~(i + 2 <= Len(words) /\ IsErrorPage(words[i + 1], words[i + 2]))
         \/ /\ i + 2 <= Len(words) /\ IsErrorPage(words[i + 1], words[i + 2])
            /\ server' = Page
            /\ i' = i + 3 /\ UNCHANGED <<pc, words, servers, splitVars>>
  BY <1>0, <1>1 DEF setErrorPage, Names, ReadsPast, Ends, GivesUp
<1>3. RightOwn(words, i) <=> RightPage(words, i, server.error_pages)
  BY <1>1, <1>2, RightOwnIs
<1>4. RightPage(words, i, server.error_pages) <=>
          i + 2 <= Len(words) /\ IsErrorPage(words[i + 1], words[i + 2])
  BY Zenon DEF RightPage, IsErrorPage
<1> HIDE DEF next, code, file, Page
<1>5. CASE RightOwn(words, i)
  <2>1. /\ i + 2 <= Len(words) /\ IsErrorPage(words[i + 1], words[i + 2])
        /\ server' = Page
        /\ i' = i + 3 /\ UNCHANGED <<pc, words, servers, splitVars>>
    BY <1>2, <1>3, <1>4, <1>5, Zenon
  <2>2. \A m \in i + 1..(i + 3) - 1 : \A key \in AllKeys : words[m] # <<key>>
    <3>1. \A m \in i + 1..(i + 3) - 1 : m = i + 1 \/ m = i + 2
      BY <1>0, <1>1
    <3>2. IsCode(words[i + 1]) /\ checkSemiColon(words[i + 2])
      BY <2>1, Zenon DEF IsErrorPage
    <3>3. /\ \A key \in AllKeys : words[i + 1] # <<key>>
          /\ \A key \in AllKeys : words[i + 2] # <<key>>
      BY <3>2, CodesAreBare, KeysAreBare
    <3>4. QED
      BY <3>1, <3>3
  <2>3. i \in 1..Len(words) /\ i + 3 \in i + 1..Len(words) + 1
    BY <1>0, <1>1, <2>1
  <2>4. words[i] # <<"location">>
    BY <1>2, KeysDiffer
  <2>5. /\ Adds(words, Earlier(OwnWords(words), i), Earlier(OwnWords(words), i + 3), i)
        /\ OwnAt(words, i + 3, next)
    BY <1>5, <2>2, <2>3, <2>4, OwnGoesOn DEF next
  <2>6. next = Page
    BY <1>1, <1>2, <2>5, AddsServer DEF next, Page, code, file
  <2>7. QED
    BY <1>2, <2>1, <2>5, <2>6 DEF ReadsOwn
<1>6. CASE ~RightOwn(words, i)
  BY <1>2, <1>3, <1>4, <1>6, Zenon DEF ReadsOwn
<1>7. QED
  BY <1>5, <1>6

LEMMA WordSkipped ==
    ASSUME AWords(words), i \in Nat, OwnAt(words, i, server), SkipWord
    PROVE  ReadsOwn
<1>0. Len(words) \in Nat
  BY WordsDomain
<1>1. i \in 1..Len(words) + 2 /\ server = ServerSaid(words, Earlier(OwnWords(words), i))
  BY DEF OwnAt
<1>2. /\ pc = "server" /\ i <= Len(words) /\ \A key \in ServerKeys : words[i] # <<key>>
      /\ i' = i + 1 /\ UNCHANGED <<pc, words, server, servers, splitVars>>
  BY DEF SkipWord, NoDirective
<1>3. RightOwn(words, i) /\ words[i] # <<"location">>
  BY <1>2, NoKeyIsRight
<1>4. i \in 1..Len(words) /\ i + 1 \in i + 1..Len(words) + 1
  BY <1>0, <1>1, <1>2
<1>5. \A m \in i + 1..(i + 1) - 1 : FALSE
  BY <1>4
<1> DEFINE next == ServerSaid(words, Earlier(OwnWords(words), i + 1))
<1>6. /\ Adds(words, Earlier(OwnWords(words), i), Earlier(OwnWords(words), i + 1), i)
      /\ OwnAt(words, i + 1, next)
  BY <1>3, <1>4, <1>5, OwnGoesOn
<1>7. next = server
  BY <1>1, <1>2, <1>6, AddsServer
<1> HIDE DEF next
<1>8. QED
  BY <1>2, <1>6, <1>7 DEF ReadsOwn

-----------------------------------------------------------------------------
(* A location is opened, read and closed.                                  *)

LEMMA InStarts ==
    ASSUME NEW ws, AWords(ws), NEW o \in 1..Len(ws), NEW s, OwnAt(ws, o, s),
           ws[o] = <<"location">>, RightOwn(ws, o)
    PROVE  InAt(ws, o, o + 3, s, LocationAt(ws[o + 1]))
<1>1. Len(ws) \in Nat /\ DOMAIN ws = 1..Len(ws) /\ o \in DOMAIN ws
  BY WordsDomain
<1>2. RightPlace(ws, o)
  BY RightOwnIs
<1>3. o + 2 <= Len(ws) /\ ws[o + 2] = <<LBrace>> /\ ws[o + 1] # <<RBrace>>
  BY <1>2, Zenon DEF RightPlace, IsLocationPath
<1>4. /\ Holds(ws, o, o + 3)
      /\ o + 3 <= Len(ws) => o + 3 \in WordsIn(ws, o) /\ ~IsValue(ws, o, o + 3)
      /\ \A k \in WordsIn(ws, o) : k >= o + 3
  BY <1>1, <1>3, Opens
<1>5. Earlier(WordsIn(ws, o), o + 3) = {}
  <2>1. \A k \in WordsIn(ws, o) : k \in Nat
    BY <1>1 DEF WordsIn
  <2>2. \A k \in WordsIn(ws, o) : ~(k < o + 3)
    BY <1>1, <1>4, <2>1
  <2>3. QED
    BY <2>2, Zenon DEF Earlier
<1>6. o \in OwnWords(ws) /\ s = ServerSaid(ws, Earlier(OwnWords(ws), o)) /\ OwnRightTo(ws, o)
  BY DEF OwnAt
<1>7. o + 3 \in o + 3..Len(ws) + 1
  BY <1>1, <1>3
<1>8. LocationAt(ws[o + 1]) = LocationSaid(ws, ws[o + 1], {})
  BY NothingSaid, Zenon
<1>9. QED
  BY <1>4, <1>5, <1>6, <1>7, <1>8, Zenon DEF InAt

OpensRight ==
    /\ pc = "server" /\ i <= Len(words)
    /\ \/ GivesUp /\ ~RightOwn(words, i)
       \/ /\ InAt(words, i, i', server', location')
          /\ pc' = "location" /\ UNCHANGED <<words, servers, splitVars>>

LEMMA LocationOpened ==
    ASSUME AWords(words), i \in Nat, OwnAt(words, i, server), validateLocationPath
    PROVE  OpensRight
<1>0. Len(words) \in Nat
  BY WordsDomain
<1>1. i \in 1..Len(words) + 2 /\ server = ServerSaid(words, Earlier(OwnWords(words), i))
  BY DEF OwnAt
<1>2. pc = "server" /\ i <= Len(words) /\ words[i] = <<"location">>
  BY DEF validateLocationPath, Names
<1>3. RightOwn(words, i) <=> RightPlace(words, i)
  BY <1>1, <1>2, RightOwnIs
<1>4. \/ GivesUp /\ ~RightPlace(words, i)
      \/ /\ RightPlace(words, i)
         /\ location' = LocationAt(words[i + 1]) /\ i' = i + 3
         /\ pc' = "location" /\ UNCHANGED <<words, server, servers, splitVars>>
  BY <1>0, <1>1 DEF validateLocationPath, RightPlace, ReadsPast, Ends, GivesUp
<1>5. CASE RightOwn(words, i)
  <2>1. i \in 1..Len(words)
    BY <1>0, <1>1, <1>2
  <2>2. InAt(words, i, i + 3, server, LocationAt(words[i + 1]))
    BY <1>2, <1>5, <2>1, InStarts
  <2>3. QED
    BY <1>2, <1>3, <1>4, <1>5, <2>2 DEF OpensRight
<1>6. CASE ~RightOwn(words, i)
  BY <1>2, <1>3, <1>4, <1>6 DEF OpensRight
<1>7. QED
  BY <1>5, <1>6

\* A directive with one value, and its value, are behind.
LEMMA InValueRead ==
    ASSUME NEW ws, AWords(ws), NEW o, NEW k \in 1..Len(ws), NEW s, NEW l, InAt(ws, o, k, s, l),
           RightIn(ws, o, k), NEW key \in ValueKeys, ws[k] = <<key>>,
           k < Len(ws), checkSemiColon(ws[k + 1])
    PROVE  /\ Adds(ws, Earlier(WordsIn(ws, o), k), Earlier(WordsIn(ws, o), k + 2), k)
           /\ InAt(ws, o, k + 2, s, LocationSaid(ws, ws[o + 1], Earlier(WordsIn(ws, o), k + 2)))
<1>1. /\ Len(ws) \in Nat /\ DOMAIN ws = 1..Len(ws) /\ k \in Nat /\ o \in DOMAIN ws
      /\ k \in WordsIn(ws, o)
  <2>1. Len(ws) \in Nat /\ DOMAIN ws = 1..Len(ws) /\ OwnWords(ws) \in SUBSET (1..Len(ws))
    BY OwnAre
  <2>2. QED
    BY <2>1 DEF InAt
<1>2. /\ Holds(ws, o, k + 2)
      /\ k + 2 <= Len(ws) => k + 2 \in WordsIn(ws, o) /\ ~IsValue(ws, o, k + 2)
      /\ IsValue(ws, o, k + 1)
  BY <1>1, ValuePassed
<1>3. \A m \in k + 1..(k + 2) - 1 : m \in WordsIn(ws, o) =>
          IsValue(ws, o, m) /\ \A other \in AllKeys : ws[m] # <<other>>
  <2>1. \A m \in k + 1..(k + 2) - 1 : m = k + 1
    BY <1>1
  <2>2. \A other \in AllKeys : ws[k + 1] # <<other>>
    BY KeysAreBare
  <2>3. QED
    BY <1>2, <2>1, <2>2
<1>4. k + 2 \in k + 1..Len(ws) + 1
  BY <1>1
<1>5. QED
  BY <1>2, <1>3, <1>4, InGoesOn

ReadsIn(o) ==
    /\ pc = "location" /\ i <= Len(words)
    /\ \/ GivesUp /\ ~RightIn(words, o, i)
       \/ /\ InAt(words, o, i', server', location')
          /\ UNCHANGED <<pc, words, servers, splitVars>>

LEMMA InIndex ==
    ASSUME AWords(words), NEW o, InAt(words, o, i, server, location)
    PROVE  /\ Len(words) \in Nat /\ i \in Nat /\ i \in 1..Len(words) + 1
           /\ server = ServerSaid(words, Earlier(OwnWords(words), o))
           /\ location = LocationSaid(words, words[o + 1], Earlier(WordsIn(words, o), i))
<1>1. Len(words) \in Nat /\ OwnWords(words) \in SUBSET (1..Len(words))
  BY OwnAre
<1>2. o \in OwnWords(words) /\ i \in o + 3..Len(words) + 1
  BY DEF InAt
<1>3. o \in 1..Len(words)
  BY <1>1, <1>2
<1>4. i \in 1..Len(words) + 1
  BY <1>1, <1>2, <1>3
<1>5. QED
  BY <1>1, <1>4 DEF InAt

LEMMA LocationValueRead ==
    ASSUME AWords(words), NEW o, InAt(words, o, i, server, location),
           \/ validateLocationRoot \/ setAutoIndex \/ setLocationIndex \/ setReturn
           \/ setAlias \/ setLocationClientMaxBodySize
    PROVE  ReadsIn(o)
<1> DEFINE value == ValueAt(words, i)
           next  == LocationSaid(words, words[o + 1], Earlier(WordsIn(words, o), i + 2))
<1>1. /\ Len(words) \in Nat /\ i \in Nat /\ i \in 1..Len(words) + 1
      /\ server = ServerSaid(words, Earlier(OwnWords(words), o))
      /\ location = LocationSaid(words, words[o + 1], Earlier(WordsIn(words, o), i))
  BY InIndex
<1>2. ASSUME NEW key \in ValueKeys, words[i] = <<key>>,
             RightIn(words, o, i), i < Len(words), checkSemiColon(words[i + 1])
      PROVE  /\ Adds(words, Earlier(WordsIn(words, o), i), Earlier(WordsIn(words, o), i + 2), i)
             /\ InAt(words, o, i + 2, server, next)
  <2>1. i \in 1..Len(words)
    BY <1>1, <1>2
  <2>2. QED
    BY <1>2, <2>1, InValueRead
<1>3. CASE validateLocationRoot
  <2>1. /\ pc = "location" /\ i <= Len(words) /\ words[i] = <<"root">>
        /\ \/ GivesUp /\ ~(i < Len(words) /\ checkSemiColon(words[i + 1])
                             /\ location.root = <<>> /\ IsRootBelow(server.root, value))
           \/ /\ i < Len(words) /\ checkSemiColon(words[i + 1])
              /\ location.root = <<>> /\ IsRootBelow(server.root, value)
              /\ location' = [location EXCEPT !["root"] = value]
              /\ i' = i + 2 /\ UNCHANGED <<pc, words, server, servers, splitVars>>
    BY <1>1, <1>3
    DEF validateLocationRoot, LocationValue, Names, ReadsPast, Ends, Accepts, GivesUp,
       ValueAt, IsLocationRoot, IsRootBelow, Itself
  <2>2. RightIn(words, o, i) <=>
            RightValue(words, i, location.root, <<>>, IsRootBelow(server.root, value))
    BY <1>1, <2>1, RightInIs
  <2>3. CASE RightIn(words, o, i)
    <3>1. /\ i < Len(words) /\ checkSemiColon(words[i + 1])
          /\ location' = [location EXCEPT !["root"] = value]
          /\ i' = i + 2 /\ UNCHANGED <<pc, words, server, servers, splitVars>>
      BY <2>1, <2>2, <2>3 DEF RightValue
    <3>2. "root" \in ValueKeys
      BY DEF ValueKeys, LocationKeys, ListKeys
    <3>3. /\ Adds(words, Earlier(WordsIn(words, o), i), Earlier(WordsIn(words, o), i + 2), i)
          /\ InAt(words, o, i + 2, server, next)
      BY <1>2, <2>1, <2>3, <3>1, <3>2
    <3>4. next = [location EXCEPT !["root"] = value]
      BY <1>1, <2>1, <3>3, AddsInside
    <3> HIDE DEF next, value
    <3>5. QED
      BY <2>1, <3>1, <3>3, <3>4 DEF ReadsIn
  <2>4. CASE ~RightIn(words, o, i)
    <3>1. ~(/\ i < Len(words) /\ checkSemiColon(words[i + 1])
            /\ location.root = <<>> /\ IsRootBelow(server.root, value))
      BY <2>2, <2>4 DEF RightValue
    <3>2. GivesUp
      BY <2>1, <3>1
    <3>3. QED
      BY <2>1, <2>4, <3>2 DEF ReadsIn
  <2>5. QED
    BY <2>3, <2>4
<1>4. CASE setAutoIndex
  <2>1. /\ pc = "location" /\ i <= Len(words) /\ words[i] = <<"autoindex">>
        /\ \/ GivesUp /\ ~(i < Len(words) /\ checkSemiColon(words[i + 1])
                             /\ location.autoindex = <<>> /\ IsOnOff(value))
           \/ /\ i < Len(words) /\ checkSemiColon(words[i + 1])
              /\ location.autoindex = <<>> /\ IsOnOff(value)
              /\ location' = [location EXCEPT !["autoindex"] = value]
              /\ i' = i + 2 /\ UNCHANGED <<pc, words, server, servers, splitVars>>
    BY <1>1, <1>4 DEF setAutoIndex, LocationValue, Names, ReadsPast, Ends, Accepts, GivesUp,
       ValueAt, Itself
  <2>2. RightIn(words, o, i) <=> RightValue(words, i, location.autoindex, <<>>, IsOnOff(value))
    BY <1>1, <2>1, RightInIs
  <2>3. CASE RightIn(words, o, i)
    <3>1. /\ i < Len(words) /\ checkSemiColon(words[i + 1])
          /\ location' = [location EXCEPT !["autoindex"] = value]
          /\ i' = i + 2 /\ UNCHANGED <<pc, words, server, servers, splitVars>>
      BY <2>1, <2>2, <2>3 DEF RightValue
    <3>2. "autoindex" \in ValueKeys
      BY DEF ValueKeys, LocationKeys, ListKeys
    <3>3. /\ Adds(words, Earlier(WordsIn(words, o), i), Earlier(WordsIn(words, o), i + 2), i)
          /\ InAt(words, o, i + 2, server, next)
      BY <1>2, <2>1, <2>3, <3>1, <3>2
    <3>4. next = [location EXCEPT !["autoindex"] = value]
      BY <1>1, <2>1, <3>3, AddsInside
    <3> HIDE DEF next, value
    <3>5. QED
      BY <2>1, <3>1, <3>3, <3>4 DEF ReadsIn
  <2>4. CASE ~RightIn(words, o, i)
    <3>1. ~(/\ i < Len(words) /\ checkSemiColon(words[i + 1])
            /\ location.autoindex = <<>> /\ IsOnOff(value))
      BY <2>2, <2>4 DEF RightValue
    <3>2. GivesUp
      BY <2>1, <3>1
    <3>3. QED
      BY <2>1, <2>4, <3>2 DEF ReadsIn
  <2>5. QED
    BY <2>3, <2>4
<1>5. CASE setLocationIndex
  <2>1. /\ pc = "location" /\ i <= Len(words) /\ words[i] = <<"index">>
        /\ \/ GivesUp /\ ~(i < Len(words) /\ checkSemiColon(words[i + 1])
                             /\ location.index = <<>> /\ TRUE)
           \/ /\ i < Len(words) /\ checkSemiColon(words[i + 1])
              /\ location.index = <<>> /\ TRUE
              /\ location' = [location EXCEPT !["index"] = value]
              /\ i' = i + 2 /\ UNCHANGED <<pc, words, server, servers, splitVars>>
    BY <1>1, <1>5 DEF setLocationIndex, LocationValue, Names, ReadsPast, Ends, Accepts, GivesUp,
       ValueAt, AnyWord, Itself
  <2>2. RightIn(words, o, i) <=> RightValue(words, i, location.index, <<>>, TRUE)
    BY <1>1, <2>1, RightInIs
  <2>3. CASE RightIn(words, o, i)
    <3>1. /\ i < Len(words) /\ checkSemiColon(words[i + 1])
          /\ location' = [location EXCEPT !["index"] = value]
          /\ i' = i + 2 /\ UNCHANGED <<pc, words, server, servers, splitVars>>
      BY <2>1, <2>2, <2>3 DEF RightValue
    <3>2. "index" \in ValueKeys
      BY DEF ValueKeys, LocationKeys, ListKeys
    <3>3. /\ Adds(words, Earlier(WordsIn(words, o), i), Earlier(WordsIn(words, o), i + 2), i)
          /\ InAt(words, o, i + 2, server, next)
      BY <1>2, <2>1, <2>3, <3>1, <3>2
    <3>4. next = [location EXCEPT !["index"] = value]
      BY <1>1, <2>1, <3>3, AddsInside
    <3> HIDE DEF next, value
    <3>5. QED
      BY <2>1, <3>1, <3>3, <3>4 DEF ReadsIn
  <2>4. CASE ~RightIn(words, o, i)
    <3>1. ~(/\ i < Len(words) /\ checkSemiColon(words[i + 1])
            /\ location.index = <<>> /\ TRUE)
      BY <2>2, <2>4 DEF RightValue
    <3>2. GivesUp
      BY <2>1, <3>1
    <3>3. QED
      BY <2>1, <2>4, <3>2 DEF ReadsIn
  <2>5. QED
    BY <2>3, <2>4
<1>6. CASE setReturn
  <2>1. /\ pc = "location" /\ i <= Len(words) /\ words[i] = <<"return">>
        /\ \/ GivesUp /\ ~(i < Len(words) /\ checkSemiColon(words[i + 1])
                             /\ location.return = <<>> /\ TRUE)
           \/ /\ i < Len(words) /\ checkSemiColon(words[i + 1])
              /\ location.return = <<>> /\ TRUE
              /\ location' = [location EXCEPT !["return"] = value]
              /\ i' = i + 2 /\ UNCHANGED <<pc, words, server, servers, splitVars>>
    BY <1>1, <1>6 DEF setReturn, LocationValue, Names, ReadsPast, Ends, Accepts, GivesUp,
       ValueAt, AnyWord, Itself
  <2>2. RightIn(words, o, i) <=> RightValue(words, i, location.return, <<>>, TRUE)
    BY <1>1, <2>1, RightInIs
  <2>3. CASE RightIn(words, o, i)
    <3>1. /\ i < Len(words) /\ checkSemiColon(words[i + 1])
          /\ location' = [location EXCEPT !["return"] = value]
          /\ i' = i + 2 /\ UNCHANGED <<pc, words, server, servers, splitVars>>
      BY <2>1, <2>2, <2>3 DEF RightValue
    <3>2. "return" \in ValueKeys
      BY DEF ValueKeys, LocationKeys, ListKeys
    <3>3. /\ Adds(words, Earlier(WordsIn(words, o), i), Earlier(WordsIn(words, o), i + 2), i)
          /\ InAt(words, o, i + 2, server, next)
      BY <1>2, <2>1, <2>3, <3>1, <3>2
    <3>4. next = [location EXCEPT !["return"] = value]
      BY <1>1, <2>1, <3>3, AddsInside
    <3> HIDE DEF next, value
    <3>5. QED
      BY <2>1, <3>1, <3>3, <3>4 DEF ReadsIn
  <2>4. CASE ~RightIn(words, o, i)
    <3>1. ~(/\ i < Len(words) /\ checkSemiColon(words[i + 1])
            /\ location.return = <<>> /\ TRUE)
      BY <2>2, <2>4 DEF RightValue
    <3>2. GivesUp
      BY <2>1, <3>1
    <3>3. QED
      BY <2>1, <2>4, <3>2 DEF ReadsIn
  <2>5. QED
    BY <2>3, <2>4
<1>7. CASE setAlias
  <2>1. /\ pc = "location" /\ i <= Len(words) /\ words[i] = <<"alias">>
        /\ \/ GivesUp /\ ~(i < Len(words) /\ checkSemiColon(words[i + 1])
                             /\ location.alias = <<>> /\ TRUE)
           \/ /\ i < Len(words) /\ checkSemiColon(words[i + 1])
              /\ location.alias = <<>> /\ TRUE
              /\ location' = [location EXCEPT !["alias"] = value]
              /\ i' = i + 2 /\ UNCHANGED <<pc, words, server, servers, splitVars>>
    BY <1>1, <1>7 DEF setAlias, LocationValue, Names, ReadsPast, Ends, Accepts, GivesUp,
       ValueAt, AnyWord, Itself
  <2>2. RightIn(words, o, i) <=> RightValue(words, i, location.alias, <<>>, TRUE)
    BY <1>1, <2>1, RightInIs
  <2>3. CASE RightIn(words, o, i)
    <3>1. /\ i < Len(words) /\ checkSemiColon(words[i + 1])
          /\ location' = [location EXCEPT !["alias"] = value]
          /\ i' = i + 2 /\ UNCHANGED <<pc, words, server, servers, splitVars>>
      BY <2>1, <2>2, <2>3 DEF RightValue
    <3>2. "alias" \in ValueKeys
      BY DEF ValueKeys, LocationKeys, ListKeys
    <3>3. /\ Adds(words, Earlier(WordsIn(words, o), i), Earlier(WordsIn(words, o), i + 2), i)
          /\ InAt(words, o, i + 2, server, next)
      BY <1>2, <2>1, <2>3, <3>1, <3>2
    <3>4. next = [location EXCEPT !["alias"] = value]
      BY <1>1, <2>1, <3>3, AddsInside
    <3> HIDE DEF next, value
    <3>5. QED
      BY <2>1, <3>1, <3>3, <3>4 DEF ReadsIn
  <2>4. CASE ~RightIn(words, o, i)
    <3>1. ~(/\ i < Len(words) /\ checkSemiColon(words[i + 1])
            /\ location.alias = <<>> /\ TRUE)
      BY <2>2, <2>4 DEF RightValue
    <3>2. GivesUp
      BY <2>1, <3>1
    <3>3. QED
      BY <2>1, <2>4, <3>2 DEF ReadsIn
  <2>5. QED
    BY <2>3, <2>4
<1>8. CASE setLocationClientMaxBodySize
  <2>1. /\ pc = "location" /\ i <= Len(words) /\ words[i] = <<"client_max_body_size">>
        /\ \/ GivesUp /\ ~(i < Len(words) /\ checkSemiColon(words[i + 1])
                             /\ location.cmbz = 0 /\ IsNumber(value))
           \/ /\ i < Len(words) /\ checkSemiColon(words[i + 1])
              /\ location.cmbz = 0 /\ IsNumber(value)
              /\ location' = [location EXCEPT !["cmbz"] = Number(value)]
              /\ i' = i + 2 /\ UNCHANGED <<pc, words, server, servers, splitVars>>
    BY <1>1, <1>8
    DEF setLocationClientMaxBodySize, LocationValue, Names, ReadsPast, Ends, Accepts, GivesUp,
       ValueAt
  <2>2. RightIn(words, o, i) <=> RightValue(words, i, location.cmbz, 0, IsNumber(value))
    BY <1>1, <2>1, RightInIs
  <2>3. CASE RightIn(words, o, i)
    <3>1. /\ i < Len(words) /\ checkSemiColon(words[i + 1])
          /\ location' = [location EXCEPT !["cmbz"] = Number(value)]
          /\ i' = i + 2 /\ UNCHANGED <<pc, words, server, servers, splitVars>>
      BY <2>1, <2>2, <2>3 DEF RightValue
    <3>2. "client_max_body_size" \in ValueKeys
      BY DEF ValueKeys, LocationKeys, ListKeys
    <3>3. /\ Adds(words, Earlier(WordsIn(words, o), i), Earlier(WordsIn(words, o), i + 2), i)
          /\ InAt(words, o, i + 2, server, next)
      BY <1>2, <2>1, <2>3, <3>1, <3>2
    <3>4. next = [location EXCEPT !["cmbz"] = Number(value)]
      BY <1>1, <2>1, <3>3, AddsInside
    <3> HIDE DEF next, value
    <3>5. QED
      BY <2>1, <3>1, <3>3, <3>4 DEF ReadsIn
  <2>4. CASE ~RightIn(words, o, i)
    <3>1. ~(/\ i < Len(words) /\ checkSemiColon(words[i + 1])
            /\ location.cmbz = 0 /\ IsNumber(value))
      BY <2>2, <2>4 DEF RightValue
    <3>2. GivesUp
      BY <2>1, <3>1
    <3>3. QED
      BY <2>1, <2>4, <3>2 DEF ReadsIn
  <2>5. QED
    BY <2>3, <2>4
<1>9. QED
  BY <1>3, <1>4, <1>5, <1>6, <1>7, <1>8

LEMMA MinIsFirst ==
    ASSUME NEW T \in SUBSET Nat, NEW k \in T, \A t \in T : k <= t
    PROVE  Min(T) = k
<1>1. \A x \in T : (\A y \in T : x <= y) => x = k
  <2>1. ASSUME NEW x \in T, \A y \in T : x <= y PROVE x = k
    <3>1. x \in Nat /\ k \in Nat /\ x <= k /\ k <= x
      BY <2>1
    <3>2. QED
      BY ONLY <3>1, SMT
  <2>2. QED
    BY <2>1
<1>2. QED
  BY <1>1, Zenon DEF Min

SemicolonsBehind(ws, k) == {m \in k + 1..Len(ws) : checkSemiColon(ws[m])}

\* Where a list ends, for the reader and for its words.
LEMMA ListEndIs ==
    ASSUME AWords(words), i \in 1..Len(words)
    PROVE  /\ EndsList(words, i, ListEnd)
           /\ ListEnd = IF SemicolonsBehind(words, i) = {} THEN Len(words)
                        ELSE Min(SemicolonsBehind(words, i))
<1> DEFINE T == SemicolonsBehind(words, i)
<1>1. Len(words) \in Nat /\ i \in Nat
  BY WordsDomain
<1>2. CASE T = {}
  <2>1. \A k \in i + 1..Len(words) : ~checkSemiColon(words[k])
    BY <1>2 DEF SemicolonsBehind
  <2>2. ListEnd = Len(words)
    BY <2>1, Zenon DEF ListEnd
  <2>3. /\ Len(words) \in i..Len(words)
        /\ \A m \in i + 1..Len(words) - 1 : m \in i + 1..Len(words)
    BY <1>1
  <2>4. QED
    BY <1>2, <2>1, <2>2, <2>3, Zenon DEF EndsList
<1>3. CASE T # {}
  <2>1. T \in SUBSET Nat /\ T \subseteq i + 1..Len(words)
    BY <1>1 DEF SemicolonsBehind
  <2>2. PICK e \in T : \A j \in T : e <= j
    BY <1>3, <2>1, Least
  <2>3. e \in i + 1..Len(words) /\ checkSemiColon(words[e]) /\ e \in Nat
    BY <2>1, <2>2, Zenon DEF SemicolonsBehind
  <2>4. \A j \in i + 1..e - 1 : ~checkSemiColon(words[j])
    <3>1. ASSUME NEW j \in i + 1..e - 1, checkSemiColon(words[j]) PROVE FALSE
      <4>1. j \in i + 1..Len(words) /\ j \in Nat /\ j < e
        BY <1>1, <2>3, <3>1
      <4>2. j \in T
        BY <3>1, <4>1, Zenon DEF SemicolonsBehind
      <4>3. e <= j
        BY <2>2, <4>2
      <4>4. QED
        BY ONLY <2>3, <4>1, <4>3, SMT
    <3>2. QED
      BY <3>1
  <2>5. ASSUME NEW k \in i + 1..Len(words), checkSemiColon(words[k]),
               \A j \in i + 1..k - 1 : ~checkSemiColon(words[j])
        PROVE  k = e
    <3>1. k \in T /\ k \in Nat
      BY <1>1, <2>5 DEF SemicolonsBehind
    <3>2. e <= k
      BY <2>2, <3>1
    <3>3. e \notin i + 1..k - 1
      BY <2>3, <2>5
    <3>4. QED
      BY <1>1, <2>3, <3>1, <3>2, <3>3
  <2>6. ListEnd = e
    BY <2>3, <2>4, <2>5, Zenon DEF ListEnd
  <2>7. Min(T) = e
    BY <2>1, <2>2, MinIsFirst
  <2>8. e \in i..Len(words) /\ i < e
    BY <1>1, <2>3
  <2>9. QED
    BY <1>3, <2>3, <2>4, <2>6, <2>7, <2>8, Zenon DEF EndsList
<1>4. QED
  BY <1>2, <1>3

LEMMA ListIs ==
    ASSUME AWords(words), i \in 1..Len(words)
    PROVE  List = ListAt(words, i) /\ DOMAIN List = 1..ListEnd - i
<1> DEFINE list == SubSeq(words, i + 1, ListEnd)
<1>1. Len(words) \in Nat /\ i \in Nat /\ ListEnd \in i..Len(words)
  BY WordsDomain, ListEndIs DEF EndsList
<1>2. list = [n \in 1..ListEnd - i |-> words[i + n]]
  <2>1. words \in Seq({words[k] : k \in 1..Len(words)})
    BY DEF AWords, IsSeq
  <2>2. list = [n \in 1..(ListEnd - (i + 1) + 1) |-> words[(i + 1) + n - 1]]
    BY <1>1, <2>1
  <2>3. ListEnd - (i + 1) + 1 = ListEnd - i
    BY <1>1
  <2>4. \A n \in 1..ListEnd - i : (i + 1) + n - 1 = i + n
    BY <1>1
  <2>5. QED
    BY <2>2, <2>3, <2>4
<1> HIDE DEF list
<1>3. ListAt(words, i) = [n \in DOMAIN list |->
            IF checkSemiColon(list[n]) THEN cutSemiColon(list[n]) ELSE list[n]]
  BY ListEndIs DEF ListAt, SemicolonsBehind, list
<1>4. QED
  BY <1>2, <1>3 DEF List

\* A directive with a list is behind, with its list.
LEMMA InListRead ==
    ASSUME NEW ws, AWords(ws), NEW o, NEW k \in 1..Len(ws), NEW s, NEW l, InAt(ws, o, k, s, l),
           RightIn(ws, o, k), NEW key \in ListKeys, ws[k] = <<key>>, NEW e, EndsList(ws, k, e)
    PROVE  /\ Adds(ws, Earlier(WordsIn(ws, o), k), Earlier(WordsIn(ws, o), e + 1), k)
           /\ InAt(ws, o, e + 1, s, LocationSaid(ws, ws[o + 1], Earlier(WordsIn(ws, o), e + 1)))
<1>1. /\ Len(ws) \in Nat /\ DOMAIN ws = 1..Len(ws) /\ k \in Nat /\ o \in DOMAIN ws
      /\ k \in WordsIn(ws, o)
  <2>1. Len(ws) \in Nat /\ DOMAIN ws = 1..Len(ws) /\ OwnWords(ws) \in SUBSET (1..Len(ws))
    BY OwnAre
  <2>2. QED
    BY <2>1 DEF InAt
<1>2. /\ Holds(ws, o, e + 1)
      /\ e + 1 <= Len(ws) => e + 1 \in WordsIn(ws, o) /\ ~IsValue(ws, o, e + 1)
      /\ \A m \in k + 1..e : m \notin WordsIn(ws, o)
  BY <1>1, ListPassed
<1>3. e + 1 \in k + 1..Len(ws) + 1 /\ (e + 1) - 1 = e
  <2>1. e \in k..Len(ws)
    BY Zenon DEF EndsList
  <2>2. QED
    BY ONLY <1>1, <2>1, SMT
<1>4. \A m \in k + 1..(e + 1) - 1 : m \in WordsIn(ws, o) =>
          IsValue(ws, o, m) /\ \A other \in AllKeys : ws[m] # <<other>>
  BY <1>2, <1>3
<1>5. QED
  BY <1>2, <1>3, <1>4, InGoesOn

LEMMA MethodsAre ==
    ASSUME NEW list
    PROVE  IsMethods(list) <=> RightMethods(list, location.methods)
<1>1. ToSet(list) \subseteq Methods <=> \A n \in DOMAIN list : list[n] \in Methods
  BY DEF ToSet
<1>2. IsInjective(list) <=>
          \A n \in DOMAIN list : \A m \in DOMAIN list : list[m] = list[n] => m = n
  BY Zenon DEF IsInjective
<1>3. ToSet(list) \cap ToSet(location.methods) = {} <=>
          \A n \in DOMAIN list : \A m \in DOMAIN location.methods :
              location.methods[m] # list[n]
  BY DEF ToSet
<1>4. QED
  BY <1>1, <1>2, <1>3, Zenon DEF IsMethods, RightMethods

LEMMA LocationListRead ==
    ASSUME AWords(words), NEW o, InAt(words, o, i, server, location),
           validateLocationMethods \/ validateLocationCgiPath \/ validateLocationCgiExt
    PROVE  ReadsIn(o)
<1> DEFINE list == ListAt(words, i)
           next == LocationSaid(words, words[o + 1], Earlier(WordsIn(words, o), ListEnd + 1))
<1>1. /\ Len(words) \in Nat /\ i \in Nat /\ i \in 1..Len(words) + 1
      /\ server = ServerSaid(words, Earlier(OwnWords(words), o))
      /\ location = LocationSaid(words, words[o + 1], Earlier(WordsIn(words, o), i))
  BY InIndex
<1>2. pc = "location" /\ i <= Len(words)
  BY DEF validateLocationMethods, validateLocationCgiPath, validateLocationCgiExt,
         TakesList, Names
<1>3. i \in 1..Len(words)
  BY <1>1, <1>2
<1>4. List = list /\ EndsList(words, i, ListEnd)
  BY <1>3, ListIs, ListEndIs
<1>5. ASSUME NEW key \in ListKeys, words[i] = <<key>>, RightIn(words, o, i)
      PROVE  /\ Adds(words, Earlier(WordsIn(words, o), i),
                    Earlier(WordsIn(words, o), ListEnd + 1), i)
             /\ InAt(words, o, ListEnd + 1, server, next)
  BY <1>3, <1>4, <1>5, InListRead
<1> HIDE DEF next, list
<1>6. CASE validateLocationMethods
  <2>1. /\ words[i] = <<"allow_methods">>
        /\ \/ GivesUp /\ ~IsMethods(list)
           \/ /\ IsMethods(list)
              /\ location' = [location EXCEPT !["methods"] = list]
              /\ i' = ListEnd + 1 /\ UNCHANGED <<pc, words, server, servers, splitVars>>
    BY <1>4, <1>6 DEF validateLocationMethods, TakesList, Names, Ends, GivesUp
  <2>2. RightIn(words, o, i) <=> IsMethods(list)
    BY <1>1, <2>1, RightInIs, MethodsAre DEF list
  <2>3. CASE RightIn(words, o, i)
    <3>1. /\ Adds(words, Earlier(WordsIn(words, o), i), Earlier(WordsIn(words, o), ListEnd + 1), i)
          /\ InAt(words, o, ListEnd + 1, server, next)
      BY <1>5, <2>1, <2>3 DEF ListKeys
    <3>2. next = [location EXCEPT !["methods"] = list]
      BY <1>1, <2>1, <3>1, AddsInside DEF next, list
    <3>3. QED
      BY <1>2, <2>1, <2>2, <2>3, <3>1, <3>2 DEF ReadsIn
  <2>4. CASE ~RightIn(words, o, i)
    BY <1>2, <2>1, <2>2, <2>4 DEF ReadsIn
  <2>5. QED
    BY <2>3, <2>4
<1>7. CASE validateLocationCgiPath
  <2>1. /\ words[i] = <<"cgi_path">>
        /\ \/ GivesUp /\ ~IsCgiPath(list)
           \/ /\ IsCgiPath(list)
              /\ location' = [location EXCEPT !["cgi_path"] = list]
              /\ i' = ListEnd + 1 /\ UNCHANGED <<pc, words, server, servers, splitVars>>
    BY <1>4, <1>7 DEF validateLocationCgiPath, TakesList, Names, Ends, GivesUp
  <2>2. IsCgiPath(list) <=> RightCgiPath(words, i)
    <3>1. \A w : ToSet(w) \cap Interpreters # {} <=> \E k \in DOMAIN w : w[k] \in Interpreters
      BY DEF ToSet
    <3>2. QED
      BY <3>1, Zenon DEF IsCgiPath, RightCgiPath, list
  <2>3. RightIn(words, o, i) <=> RightCgiPath(words, i)
    BY <1>1, <2>1, RightInIs
  <2>4. CASE RightIn(words, o, i)
    <3>1. /\ Adds(words, Earlier(WordsIn(words, o), i), Earlier(WordsIn(words, o), ListEnd + 1), i)
          /\ InAt(words, o, ListEnd + 1, server, next)
      BY <1>5, <2>1, <2>4 DEF ListKeys
    <3>2. next = [location EXCEPT !["cgi_path"] = list]
      BY <1>1, <2>1, <3>1, AddsInside DEF next, list
    <3>3. QED
      BY <1>2, <2>1, <2>2, <2>3, <2>4, <3>1, <3>2 DEF ReadsIn
  <2>5. CASE ~RightIn(words, o, i)
    BY <1>2, <2>1, <2>2, <2>3, <2>5 DEF ReadsIn
  <2>6. QED
    BY <2>4, <2>5
<1>8. CASE validateLocationCgiExt
  <2>1. /\ words[i] = <<"cgi_ext">>
        /\ location' = [location EXCEPT !["cgi_ext"] = list]
        /\ i' = ListEnd + 1 /\ UNCHANGED <<pc, words, server, servers, splitVars>>
    BY <1>4, <1>8 DEF validateLocationCgiExt, TakesList, Names, AnyWord
  <2>2. RightIn(words, o, i)
    BY <1>1, <2>1, RightInIs
  <2>3. /\ Adds(words, Earlier(WordsIn(words, o), i), Earlier(WordsIn(words, o), ListEnd + 1), i)
        /\ InAt(words, o, ListEnd + 1, server, next)
    BY <1>5, <2>1, <2>2 DEF ListKeys
  <2>4. next = [location EXCEPT !["cgi_ext"] = list]
    BY <1>1, <2>1, <2>3, AddsInside DEF next, list
  <2>5. QED
    BY <1>2, <2>1, <2>3, <2>4 DEF ReadsIn
<1>9. QED
  BY <1>6, <1>7, <1>8

LEMMA WrongIsWrong ==
    ASSUME AWords(words), NEW o, InAt(words, o, i, server, location), WrongDirective
    PROVE  ReadsIn(o)
<1>1. /\ server = ServerSaid(words, Earlier(OwnWords(words), o))
      /\ location = LocationSaid(words, words[o + 1], Earlier(WordsIn(words, o), i))
  BY InIndex
<1>2. /\ pc = "location" /\ i <= Len(words) /\ GivesUp
      /\ \A key \in LocationKeys \cup {RBrace} : words[i] # <<key>>
  BY DEF WrongDirective, Ends, GivesUp
<1>3. ~IsValue(words, o, i)
  BY <1>2 DEF InAt
<1>4. ~RightIn(words, o, i)
  BY <1>1, <1>2, <1>3, RightInIs
<1>5. QED
  BY <1>2, <1>4, Zenon DEF ReadsIn

\* A location is over: the server goes on behind it, or all words are read.
LEMMA InEnds ==
    ASSUME NEW ws, AWords(ws), NEW o \in OwnWords(ws), ws[o] = <<"location">>,
           RightOwn(ws, o), \A j \in WordsIn(ws, o) : RightIn(ws, o, j),
           NEW s, s = ServerSaid(ws, Earlier(OwnWords(ws), o)), OwnRightTo(ws, o),
           NEW p \in 1..Len(ws) + 2, o < p, p <= Len(ws) => p \in OwnWords(ws),
           \A m \in o + 1..p - 1 : m \notin OwnWords(ws)
    PROVE  OwnAt(ws, p, [s EXCEPT !.locations =
                             Append(@, LocationSaid(ws, ws[o + 1], WordsIn(ws, o)))])
<1>1. Len(ws) \in Nat /\ OwnWords(ws) \in SUBSET (1..Len(ws)) /\ o \in Nat /\ p \in Nat
  <2>1. Len(ws) \in Nat /\ OwnWords(ws) \in SUBSET (1..Len(ws))
    BY OwnAre
  <2>2. QED
    BY <2>1
<1>2. Adds(ws, Earlier(OwnWords(ws), o), Earlier(OwnWords(ws), p), o)
  BY <1>1, EarlierAdds
<1>3. ServerSaid(ws, Earlier(OwnWords(ws), p)) = [s EXCEPT !.locations =
          Append(@, LocationSaid(ws, ws[o + 1], WordsIn(ws, o)))]
  BY <1>2, AddsServer
<1>4. ASSUME NEW m \in Earlier(OwnWords(ws), p)
      PROVE  /\ RightOwn(ws, m)
             /\ ws[m] = <<"location">> => \A j \in WordsIn(ws, m) : RightIn(ws, m, j)
  <2>1. m \in OwnWords(ws) /\ m \in Nat /\ m < p
    BY <1>1 DEF Earlier
  <2>2. CASE m < o
    <3>1. m \in Earlier(OwnWords(ws), o)
      BY <2>1, <2>2 DEF Earlier
    <3>2. QED
      BY <3>1 DEF OwnRightTo
  <2>3. CASE m = o
    BY <2>3
  <2>4. CASE o < m
    BY <1>1, <2>1, <2>4
  <2>5. QED
    BY <1>1, <2>1, <2>2, <2>3, <2>4
<1>5. OwnRightTo(ws, p)
  BY <1>4 DEF OwnRightTo
<1>6. QED
  BY <1>3, <1>5, Zenon DEF OwnAt

LEMMA LocationClosed ==
    ASSUME AWords(words), NEW o, InAt(words, o, i, server, location), PushLocation
    PROVE  OwnAt(words, i', server') /\ pc' = "server" /\ UNCHANGED <<words, servers, splitVars>>
<1> DEFINE path == words[o + 1]
           all  == LocationSaid(words, path, WordsIn(words, o))
<1>1. /\ Len(words) \in Nat /\ i \in Nat /\ i \in 1..Len(words) + 1
      /\ server = ServerSaid(words, Earlier(OwnWords(words), o))
      /\ location = LocationSaid(words, path, Earlier(WordsIn(words, o), i))
  BY InIndex
<1>2. /\ i <= Len(words) => words[i] = <<RBrace>>
      /\ server' = [server EXCEPT !.locations = Append(@, location)]
      /\ i' = i + 1 /\ pc' = "server" /\ UNCHANGED <<words, servers, splitVars>>
  BY DEF PushLocation
<1>3. /\ o \in OwnWords(words) /\ words[o] = <<"location">> /\ RightOwn(words, o)
      /\ Holds(words, o, i) /\ OwnRightTo(words, o)
      /\ \A m \in Earlier(WordsIn(words, o), i) : RightIn(words, o, m)
      /\ i <= Len(words) => i \in WordsIn(words, o)
      /\ i \in o + 3..Len(words) + 1
  BY DEF InAt
<1>4. /\ DOMAIN words = 1..Len(words) /\ OwnWords(words) \in SUBSET (1..Len(words))
      /\ WordsIn(words, o) \in SUBSET (1..Len(words))
  BY OwnAre
<1>5. o \in Nat /\ o \in DOMAIN words /\ o < i
  BY <1>1, <1>3, <1>4
<1>6. /\ \A m \in o + 1..i : m \notin OwnWords(words)
      /\ i + 1 <= Len(words) => i + 1 \in OwnWords(words)
      /\ \A m \in WordsIn(words, o) : m <= i
      /\ location = all
      /\ i <= Len(words) => RightIn(words, o, i)
  <2>1. ASSUME NEW m \in o + 1..i, m \in OwnWords(words) PROVE FALSE
    <3>1. m \in Nat /\ o < m /\ m <= i
      BY <1>1, <1>5, <2>1
    <3>2. Holds(words, o, m)
      BY <1>1, <1>3, <1>5, <3>1, HoldsBefore
    <3>3. QED
      BY <1>5, <2>1, <3>2 DEF OwnWords
  <2>2. CASE i <= Len(words)
    <3>1. i \in WordsIn(words, o) /\ words[i] = <<RBrace>>
      BY <1>2, <1>3, <2>2
    <3>2. /\ i + 1 <= Len(words) => i + 1 \in OwnWords(words)
          /\ \A m \in WordsIn(words, o) : m <= i
      BY <1>3, <3>1, Closes
    <3>3. Adds(words, Earlier(WordsIn(words, o), i), WordsIn(words, o), i)
      <4>1. /\ Earlier(WordsIn(words, o), i) \in SUBSET Nat
            /\ IsFiniteSet(Earlier(WordsIn(words, o), i))
            /\ \A j \in Earlier(WordsIn(words, o), i) : j < i
        BY <1>1, <1>4, EarlierAre
      <4>2. Earlier(WordsIn(words, o), i) \subseteq WordsIn(words, o)
        BY DEF Earlier
      <4>3. \A m \in WordsIn(words, o) \ Earlier(WordsIn(words, o), i) : m = i
        <5>1. \A m \in WordsIn(words, o) : m = i \/ m < i
          BY <1>1, <1>4, <3>2
        <5>2. QED
          BY <5>1, Zenon DEF Earlier
      <4>4. QED
        BY <1>1, <3>1, <4>1, <4>2, <4>3, Zenon DEF Adds
    <3>4. \A key \in LocationKeys : words[i] # <<key>>
      <4>1. \A key \in LocationKeys : key # RBrace
        BY DEF LocationKeys, RBrace
      <4>2. QED
        BY <3>1, <4>1, KeysDiffer
    <3>5. location = all
      BY <1>1, <3>3, <3>4, AddsInside
    <3>6. RightIn(words, o, i)
      BY <1>1, <3>1, RightInIs
    <3>7. QED
      BY <2>1, <3>2, <3>5, <3>6
  <2>3. CASE i = Len(words) + 1
    <3>1. \A m \in WordsIn(words, o) : m < i
      BY <1>1, <1>4, <2>3
    <3>2. Earlier(WordsIn(words, o), i) = WordsIn(words, o)
      BY <3>1, Zenon DEF Earlier
    <3>3. \A m \in WordsIn(words, o) : m <= i
      BY <1>1, <1>4, <2>3
    <3>4. ~(i + 1 <= Len(words)) /\ ~(i <= Len(words))
      BY <1>1, <2>3
    <3>5. QED
      BY <1>1, <2>1, <3>2, <3>3, <3>4
  <2>4. QED
    BY <1>1, <2>2, <2>3
<1>7. ASSUME NEW j \in WordsIn(words, o) PROVE RightIn(words, o, j)
  <2>1. j \in 1..Len(words) /\ j <= i
    BY <1>4, <1>6
  <2>2. CASE j = i
    BY <1>6, <2>1, <2>2
  <2>3. CASE j # i
    <3>1. j < i
      BY <1>1, <2>1, <2>3
    <3>2. QED
      BY <1>3, <3>1 DEF Earlier
  <2>4. QED
    BY <2>2, <2>3
<1>8. /\ i + 1 \in 1..Len(words) + 2 /\ o < i + 1
      /\ \A m \in o + 1..(i + 1) - 1 : m \notin OwnWords(words)
  <2>1. (i + 1) - 1 = i
    BY <1>1
  <2>2. QED
    BY <1>1, <1>5, <1>6, <2>1
<1> HIDE DEF all
<1>9. OwnAt(words, i + 1, [server EXCEPT !.locations = Append(@, all)])
  BY <1>1, <1>3, <1>6, <1>7, <1>8, InEnds DEF all
<1>10. QED
  BY <1>2, <1>6, <1>9

-----------------------------------------------------------------------------
(* Piece after piece.                                                      *)

LEMMA SplitIsSeq ==
    ASSUME NEW s \in Seq(Tokens)
    PROVE  AWords(splitDirectives(s))
<1> DEFINE S == WordStarts(s)
           f == splitDirectives(s)
<1>1. Len(s) \in Nat /\ DOMAIN s = 1..Len(s) /\ S \in SUBSET (1..Len(s))
  BY DEF WordStarts
<1>2. Cardinality(S) \in Nat
  <2>1. IsFiniteSet(1..Len(s))
    BY <1>1, FS_Interval
  <2>2. IsFiniteSet(S)
    BY <1>1, <2>1, FS_Subset
  <2>3. QED
    BY <2>2, FS_CardinalityType
<1>3. f = [n \in 1..Cardinality(S) |-> f[n]]
  <2>1. f = [n \in 1..Cardinality(S) |-> SubSeq(s, InOrder(S)[n], EndOf(s, InOrder(S)[n]) - 1)]
    BY DEF splitDirectives, InOrder
  <2> HIDE DEF S, f
  <2>2. QED
    BY <2>1
<1> HIDE DEF S, f
<1>4. IsSeq(f)
  BY <1>2, <1>3, AppendIs
<1>5. QED
  BY <1>4 DEF f, AWords

\* All words of a server are read.
LEMMA OwnEnds ==
    ASSUME NEW ws, AWords(ws), NEW p, NEW s, OwnAt(ws, p, s), p > Len(ws)
    PROVE  s = Said(ws) /\ RightWords(ws)
<1>1. Len(ws) \in Nat /\ OwnWords(ws) \in SUBSET (1..Len(ws))
  BY OwnAre
<1>2. p \in 1..Len(ws) + 2 /\ s = ServerSaid(ws, Earlier(OwnWords(ws), p)) /\ OwnRightTo(ws, p)
  BY DEF OwnAt
<1>3. Earlier(OwnWords(ws), p) = OwnWords(ws)
  <2>1. \A m \in OwnWords(ws) : m < p
    BY <1>1, <1>2
  <2>2. QED
    BY <2>1, Zenon DEF Earlier
<1>4. /\ \A k \in OwnWords(ws) : RightOwn(ws, k)
      /\ \A k \in OwnWords(ws) : ws[k] = <<"location">> =>
             \A m \in WordsIn(ws, k) : RightIn(ws, k, m)
  BY <1>2, <1>3 DEF OwnRightTo
<1>5. RightWords(ws)
  BY <1>4, Zenon DEF RightWords, GivenAt
<1>6. QED
  BY <1>2, <1>3, <1>5 DEF Said

WordsAt(n) == splitDirectives(serversConf[n])

\* What has been read, whatever is said.
SaidInv ==
    /\ AWords(words)
    /\ pc \in {"server", "location"} => words = WordsAt(Len(servers) + 1)
    /\ \A n \in 1..Len(servers) : servers[n] = Said(WordsAt(n)) /\ RightWords(WordsAt(n))
    /\ pc = "server" => OwnAt(words, i, server)
    /\ pc = "location" => \E o : InAt(words, o, i, server, location)
    /\ pc \in {"refused", "undefined"} => ~RightPieces
    /\ pc \in Built => Len(servers) = Len(serversConf) /\ RightPieces

LEMMA SaidInvInit == Init => SaidInv
<1> SUFFICES ASSUME Init PROVE SaidInv
  OBVIOUS
<1>1. words = <<>> /\ servers = <<>> /\ pc = "read"
  BY DEF Init, SplitInit, ReadInit
<1>2. AWords(<<>>) /\ Len(<<>>) = 0
  BY SeqEmpty DEF AWords
<1>3. \A n \in 1..0 : FALSE
  OBVIOUS
<1>4. QED
  BY <1>1, <1>2, <1>3 DEF SaidInv, Built

LEMMA SaidInvScan ==
    ASSUME SaidInv, WordInv, SplitNext, UNCHANGED <<readVars, socketVars>>
    PROVE  SaidInv'
<1>1. UNCHANGED <<words, servers>> /\ pc \in Scanning
  BY DEF readVars, SplitNext, takeServersConfig, searchServer, searchStartBracket,
         searchEndBracket, PushServerConf, MissingBracket, SplitEnds, Scanning
<1>2. pc' \in Scanning \cup {"nofile", "malformed", "servers"}
  BY DEF SplitNext, takeServersConfig, searchServer, searchStartBracket,
         searchEndBracket, PushServerConf, MissingBracket, SplitEnds, Scanning
<1>3. servers' = <<>> /\ Len(<<>>) = 0 /\ \A n \in 1..0 : FALSE
  BY <1>1, SeqEmpty DEF WordInv
<1>4. QED
  BY <1>1, <1>2, <1>3 DEF SaidInv, Scanning, Built

\* A word that is wrong is of a piece that is wrong.
LEMMA WrongPiece ==
    ASSUME SplitInv, ReadInv, WordInv, SaidInv, pc \in {"server", "location"},
           ~RightWords(words)
    PROVE  ~RightPieces
<1> DEFINE n == Len(servers) + 1
<1>1. words = WordsAt(n)
  BY DEF SaidInv
<1>2. n \in DOMAIN serversConf
  <2>1. Len(servers) < Len(serversConf) /\ serversConf \in Seq(Seq(Tokens))
    BY DEF WordInv, SplitInv
  <2>2. Len(servers) \in Nat
    BY SeqDomain DEF ReadInv
  <2>3. QED
    BY <2>1, <2>2
<1> HIDE DEF n
<1>3. QED
  BY <1>1, <1>2, Zenon DEF RightPieces, WordsAt

LEMMA SaidInvGivesUp ==
    ASSUME SplitInv, ReadInv, WordInv, SaidInv, pc \in {"server", "location"}, GivesUp,
           ~RightWords(words)
    PROVE  SaidInv'
<1>1. ~RightPieces
  BY WrongPiece
<1>2. /\ pc' \in {"refused", "undefined"}
      /\ UNCHANGED <<serversConf, words, i, server, location, servers>>
  BY DEF GivesUp, splitVars, readVars
<1>3. ~RightPieces'
  BY <1>1, <1>2 DEF RightPieces
<1>4. \A n \in 1..Len(servers') : servers'[n] = Said(WordsAt(n)') /\ RightWords(WordsAt(n)')
  BY <1>2 DEF SaidInv, WordsAt
<1>5. AWords(words')
  BY <1>2 DEF SaidInv
<1>6. QED
  BY <1>2, <1>3, <1>4, <1>5 DEF SaidInv, Built, WordsAt

\* A step that leaves the pieces, the words and the servers.
LEMMA SaidInvStep ==
    ASSUME SaidInv, pc \in {"server", "location"}, pc' \in {"server", "location"},
           UNCHANGED <<words, servers, splitVars>>,
           pc' = "server" => OwnAt(words, i', server'),
           pc' = "location" => \E o : InAt(words, o, i', server', location')
    PROVE  SaidInv'
<1>1. UNCHANGED <<serversConf, words, servers>>
  BY DEF splitVars
<1>2. QED
  BY <1>1 DEF SaidInv, Built, WordsAt

LEMMA SaidInvServer ==
    ASSUME SplitInv, ReadInv, WordInv, SaidInv, pc = "server", ReadsOwn \/ OpensRight
    PROVE  SaidInv'
<1>1. AWords(words) /\ OwnAt(words, i, server)
  BY DEF SaidInv
<1>2. i <= Len(words)
  BY DEF ReadsOwn, OpensRight
<1>3. CASE GivesUp /\ ~RightOwn(words, i)
  <2>1. i \in OwnWords(words)
    BY <1>1, <1>2 DEF OwnAt
  <2>2. ~RightWords(words)
    BY <1>3, <2>1 DEF RightWords
  <2>3. QED
    BY <1>3, <2>2, SaidInvGivesUp
<1>4. CASE OwnAt(words, i', server') /\ UNCHANGED <<pc, words, servers, splitVars>>
  BY <1>4, SaidInvStep
<1>5. CASE /\ InAt(words, i, i', server', location')
           /\ pc' = "location" /\ UNCHANGED <<words, servers, splitVars>>
  BY <1>5, SaidInvStep
<1>6. QED
  BY <1>3, <1>4, <1>5 DEF ReadsOwn, OpensRight

LEMMA SaidInvLocation ==
    ASSUME SplitInv, ReadInv, WordInv, SaidInv, pc = "location",
           NEW o, InAt(words, o, i, server, location), ReadsIn(o)
    PROVE  SaidInv'
<1>1. CASE GivesUp /\ ~RightIn(words, o, i)
  <2>1. o \in GivenAt(words, OwnWords(words), "location")
    BY DEF InAt, GivenAt
  <2>2. i \in WordsIn(words, o)
    BY DEF InAt, ReadsIn
  <2>3. ~RightWords(words)
    BY <1>1, <2>1, <2>2 DEF RightWords
  <2>4. QED
    BY <1>1, <2>3, SaidInvGivesUp
<1>2. CASE /\ InAt(words, o, i', server', location')
           /\ UNCHANGED <<pc, words, servers, splitVars>>
  BY <1>2, SaidInvStep
<1>3. QED
  BY <1>1, <1>2 DEF ReadsIn

LEMMA SaidInvCreate ==
    ASSUME SplitInv, ReadInv, SaidInv, CreateServer
    PROVE  SaidInv'
<1> DEFINE n == Len(servers) + 1
<1>1. /\ pc' = "server" /\ words' = WordsAt(n) /\ i' = 1 /\ server' = NewServer
      /\ UNCHANGED <<serversConf, servers>> /\ Len(servers) < Len(serversConf)
  BY DEF CreateServer, WordsAt, splitVars
<1>2. serversConf[n] \in Seq(Tokens)
  <2>1. Len(servers) \in Nat /\ serversConf \in Seq(Seq(Tokens))
    BY SeqDomain DEF ReadInv, SplitInv
  <2>2. n \in 1..Len(serversConf)
    BY <1>1, <2>1
  <2>3. QED
    BY <2>1, <2>2
<1> HIDE DEF n
<1>3. AWords(words')
  BY <1>1, <1>2, SplitIsSeq DEF WordsAt
<1>4. OwnAt(words', 1, NewServer)
  BY <1>3, OwnStarts
<1>5. WordsAt(n)' = WordsAt(n)
  BY <1>1 DEF WordsAt, n
<1>6. QED
  BY <1>1, <1>3, <1>4, <1>5 DEF SaidInv, Built, WordsAt, n

LEMMA SaidInvPush ==
    ASSUME ReadInv, SaidInv, PushServer
    PROVE  SaidInv'
<1> DEFINE a == Append(servers, server)
<1>1. /\ pc = "server" /\ pc' = "servers" /\ servers' = a /\ i > Len(words)
      /\ UNCHANGED <<serversConf, words>>
  BY DEF PushServer, splitVars
<1>2. /\ AWords(words) /\ OwnAt(words, i, server) /\ words = WordsAt(Len(servers) + 1)
      /\ \A n \in 1..Len(servers) : servers[n] = Said(WordsAt(n)) /\ RightWords(WordsAt(n))
  BY <1>1 DEF SaidInv
<1>3. server = Said(words) /\ RightWords(words)
  BY <1>1, <1>2, OwnEnds
<1>4. /\ Len(servers) \in Nat /\ Len(a) = Len(servers) + 1
      /\ \A n \in 1..Len(servers) : a[n] = servers[n]
      /\ a[Len(servers) + 1] = server
  BY SeqAppend DEF ReadInv
<1> HIDE DEF a
<1>5. ASSUME NEW n \in 1..Len(a) PROVE a[n] = Said(WordsAt(n)) /\ RightWords(WordsAt(n))
  <2>1. n \in 1..Len(servers) \/ n = Len(servers) + 1
    BY <1>4
  <2>2. QED
    BY <1>2, <1>3, <1>4, <2>1
<1>6. QED
  BY <1>1, <1>2, <1>5 DEF SaidInv, Built, WordsAt

-----------------------------------------------------------------------------
(* The servers together.                                                   *)

\* Two of them are compared once, and the locations of each among themselves.
LEMMA LocationsTogether ==
    ASSUME NEW s, IsSeq(s.locations)
    PROVE  validateLocation(s) <=>
               (Len(s.locations) > 1 =>
                   /\ \A k \in DOMAIN s.locations :
                          s.locations[k].index # <<>> => IndexPath(s.locations[k]) \in Files
                   /\ \A j, k \in DOMAIN s.locations :
                          j # k => s.locations[j].path # s.locations[k].path)
<1> DEFINE ls == s.locations
<1>1. DOMAIN ls = 1..Len(ls) /\ Len(ls) \in Nat
  BY SeqDomain
<1>2. (\A j, k \in DOMAIN ls : j # k => ls[j].path # ls[k].path) <=>
          \A j \in DOMAIN ls : \A k \in j + 1..Len(ls) : ls[j].path # ls[k].path
  <2> HIDE DEF ls
  <2>1. ASSUME \A j, k \in DOMAIN ls : j # k => ls[j].path # ls[k].path,
               NEW j \in DOMAIN ls, NEW k \in j + 1..Len(ls)
        PROVE  ls[j].path # ls[k].path
    <3>1. k \in DOMAIN ls /\ j # k
      BY <1>1
    <3>2. QED
      BY <2>1, <3>1
  <2>2. ASSUME \A j \in DOMAIN ls : \A k \in j + 1..Len(ls) : ls[j].path # ls[k].path,
               NEW j \in DOMAIN ls, NEW k \in DOMAIN ls, j # k
        PROVE  ls[j].path # ls[k].path
    <3>1. k \in j + 1..Len(ls) \/ j \in k + 1..Len(ls)
      BY <1>1, <2>2
    <3>2. QED
      BY <2>2, <3>1
  <2>3. QED
    BY <2>1, <2>2
<1>3. QED
  BY <1>2, Zenon DEF validateLocation

LEMMA Together ==
    ASSUME ReadInv
    PROVE  RightTogether(servers) <=>
               /\ \A m, n \in DOMAIN servers : m < n => ~Repeated(servers[m], servers[n])
               /\ \A n \in DOMAIN servers : validateLocation(servers[n])
<1>1. DOMAIN servers = 1..Len(servers) /\ Len(servers) \in Nat
  BY SeqDomain DEF ReadInv
<1>2. (\A m, n \in DOMAIN servers : m < n => ~Repeated(servers[m], servers[n])) <=>
      \A m, n \in DOMAIN servers :
          m # n => servers[m].host # servers[n].host \/ servers[m].port # servers[n].port
  <2>1. ASSUME \A m, n \in DOMAIN servers : m < n => ~Repeated(servers[m], servers[n]),
               NEW m \in DOMAIN servers, NEW n \in DOMAIN servers, m # n
        PROVE  servers[m].host # servers[n].host \/ servers[m].port # servers[n].port
    <3>1. m < n \/ n < m
      BY <1>1, <2>1
    <3>2. ~Repeated(servers[m], servers[n]) \/ ~Repeated(servers[n], servers[m])
      BY <2>1, <3>1
    <3>3. QED
      BY <3>2 DEF Repeated
  <2>2. ASSUME \A m, n \in DOMAIN servers : m # n =>
                   servers[m].host # servers[n].host \/ servers[m].port # servers[n].port,
               NEW m \in DOMAIN servers, NEW n \in DOMAIN servers, m < n
        PROVE  ~Repeated(servers[m], servers[n])
    <3>1. m # n
      BY <1>1, <2>2
    <3>2. QED
      BY <2>2, <3>1 DEF Repeated
  <2>3. QED
    BY <2>1, <2>2
<1>3. ASSUME NEW n \in DOMAIN servers
      PROVE  validateLocation(servers[n]) <=>
                 (Len(servers[n].locations) > 1 =>
                     /\ \A k \in DOMAIN servers[n].locations :
                            servers[n].locations[k].index # <<>> =>
                                IndexPath(servers[n].locations[k]) \in Files
                     /\ \A j, k \in DOMAIN servers[n].locations :
                            j # k => servers[n].locations[j].path # servers[n].locations[k].path)
  <2>1. IsSeq(servers[n].locations)
    BY <1>1 DEF ReadInv, GoodServer
  <2>2. QED
    BY <2>1, LocationsTogether
<1>4. QED
  BY <1>2, <1>3, Zenon DEF RightTogether

\* All servers are read, and are what their pieces say.
LEMMA AllSaid ==
    ASSUME SplitInv, ReadInv, SaidInv, Len(servers) = Len(serversConf)
    PROVE  /\ servers = [n \in DOMAIN serversConf |-> Said(WordsAt(n))]
           /\ RightPieces <=> RightTogether(servers)
<1>1. /\ DOMAIN servers = 1..Len(servers) /\ servers = [n \in 1..Len(servers) |-> servers[n]]
      /\ DOMAIN serversConf = 1..Len(serversConf)
  <2>1. IsSeq(servers) /\ serversConf \in Seq(Seq(Tokens))
    BY DEF ReadInv, SplitInv
  <2>2. servers = [n \in 1..Len(servers) |-> servers[n]]
    BY <2>1 DEF IsSeq
  <2>3. QED
    BY <2>1, <2>2, SeqDomain
<1>2. \A n \in 1..Len(servers) : servers[n] = Said(WordsAt(n)) /\ RightWords(WordsAt(n))
  BY DEF SaidInv
<1>3. servers = [n \in DOMAIN serversConf |-> Said(WordsAt(n))]
  BY <1>1, <1>2
<1>4. \A n \in DOMAIN serversConf : RightWords(WordsAt(n))
  BY <1>1, <1>2
<1>5. RightPieces <=> RightTogether([n \in DOMAIN serversConf |-> Said(WordsAt(n))])
  BY <1>4, Zenon DEF RightPieces, WordsAt
<1>6. QED
  BY <1>3, <1>5

LEMMA SaidInvValidate ==
    ASSUME SplitInv, ReadInv, SaidInv, validateServers
    PROVE  SaidInv'
<1>1. /\ pc = "servers" /\ Len(servers) = Len(serversConf)
      /\ UNCHANGED <<serversConf, words, servers>>
      /\ \/ pc' = "listen" /\ RightTogether(servers)
         \/ pc' = "refused" /\ ~RightTogether(servers)
  BY Together DEF validateServers, Ends, splitVars, readVars
<1>2. RightPieces <=> RightTogether(servers)
  BY <1>1, AllSaid
<1>3. RightPieces' <=> RightPieces
  BY <1>1 DEF RightPieces
<1>4. QED
  BY <1>1, <1>2, <1>3 DEF SaidInv, Built, WordsAt

LEMMA SaidInvStays ==
    ASSUME SaidInv, UNCHANGED <<splitVars, readVars>>,
           pc' = pc \/ (pc \in Built /\ pc' \in Built)
    PROVE  SaidInv'
<1>1. UNCHANGED <<serversConf, words, i, server, location, servers>>
  BY DEF splitVars, readVars
<1>2. RightPieces' <=> RightPieces
  BY <1>1 DEF RightPieces
<1>3. QED
  BY <1>1, <1>2 DEF SaidInv, Built, WordsAt

LEMMA SaidInvRead ==
    ASSUME SplitInv, ReadInv, WordInv, SaidInv, ReadNext
    PROVE  SaidInv'
<1>1. AWords(words) /\ i \in Nat
  BY DEF SaidInv, WordInv
<1>2. CASE CreateServer
  BY <1>2, SaidInvCreate
<1>3. CASE PushServer
  BY <1>3, SaidInvPush
<1>4. CASE validateServers
  BY <1>4, SaidInvValidate
<1>5. CASE \/ setPort \/ setServerName \/ setHost \/ setRoot \/ setIndex
           \/ setClientMaxBodySize \/ setErrorPage \/ SkipWord \/ validateLocationPath
  <2>1. pc = "server"
    BY <1>5 DEF setPort, setServerName, setHost, setRoot, setIndex, setClientMaxBodySize,
                setErrorPage, SkipWord, validateLocationPath, ServerValue, Names
  <2>2. OwnAt(words, i, server)
    BY <2>1 DEF SaidInv
  <2>3. ReadsOwn \/ OpensRight
    BY <1>1, <1>5, <2>2, ServerValueRead, ErrorPageRead, WordSkipped, LocationOpened
  <2>4. QED
    BY <2>1, <2>3, SaidInvServer
<1>6. CASE \/ validateLocationRoot \/ validateLocationMethods
           \/ setAutoIndex \/ setLocationIndex \/ setReturn \/ setAlias
           \/ validateLocationCgiPath \/ validateLocationCgiExt
           \/ setLocationClientMaxBodySize \/ WrongDirective \/ PushLocation
  <2>1. pc = "location"
    BY <1>6 DEF validateLocationRoot, validateLocationMethods, setAutoIndex,
                setLocationIndex, setReturn, setAlias, validateLocationCgiPath,
                validateLocationCgiExt, setLocationClientMaxBodySize, WrongDirective,
                PushLocation, LocationValue, TakesList, Names
  <2>2. PICK o : InAt(words, o, i, server, location)
    BY <2>1 DEF SaidInv
  <2>3. CASE PushLocation
    <3>1. OwnAt(words, i', server') /\ pc' = "server" /\ UNCHANGED <<words, servers, splitVars>>
      BY <1>1, <2>2, <2>3, LocationClosed
    <3>2. QED
      BY <2>1, <3>1, SaidInvStep
  <2>4. CASE ~PushLocation
    <3>1. ReadsIn(o)
      BY <1>1, <1>6, <2>2, <2>4, LocationValueRead, LocationListRead, WrongIsWrong
    <3>2. QED
      BY <2>1, <2>2, <3>1, SaidInvLocation
  <2>5. QED
    BY <2>3, <2>4
<1>7. QED
  BY <1>2, <1>3, <1>4, <1>5, <1>6 DEF ReadNext

LEMMA SaidInvNext ==
    SplitInv /\ ReadInv /\ WordInv /\ SaidInv /\ [Next]_vars => SaidInv'
<1> SUFFICES ASSUME SplitInv, ReadInv, WordInv, SaidInv, [Next]_vars PROVE SaidInv'
  OBVIOUS
<1>1. CASE SplitNext /\ UNCHANGED <<readVars, socketVars>>
  BY <1>1, SaidInvScan
<1>2. CASE ReadNext
  BY <1>2, SaidInvRead
<1>3. CASE Listen \/ startListen
  <2>1. /\ pc \in Built /\ pc' \in Built /\ UNCHANGED <<splitVars, readVars>>
    BY <1>3 DEF Listen, startListen, Built
  <2>2. QED
    BY <2>1, SaidInvStays
<1>4. CASE UNCHANGED vars
  BY <1>4, SaidInvStays DEF vars
<1>5. QED
  BY <1>1, <1>2, <1>3, <1>4 DEF Next

\* Whatever the text, the servers of a configuration that is accepted are what
\* the words of its pieces say, directive by directive.
THEOREM MeansItsWordsHolds == Spec => []MeansItsWords
<1>1. SplitInv /\ ReadInv /\ SaidInv => MeansItsWords
  <2> SUFFICES ASSUME SplitInv, ReadInv, SaidInv, pc \in Built
               PROVE  servers = [n \in DOMAIN serversConf |->
                                     Said(splitDirectives(serversConf[n]))]
    BY DEF MeansItsWords, Accepted, Built
  <2>1. Len(servers) = Len(serversConf)
    BY DEF SaidInv
  <2>2. servers = [n \in DOMAIN serversConf |-> Said(WordsAt(n))]
    BY <2>1, AllSaid
  <2>3. QED
    BY <2>2 DEF WordsAt
<1>2. QED
  BY <1>1, SplitInvInit, SplitInvNext, ReadInvInit, ReadInvNext, WordInvInit, WordInvNext,
     SaidInvInit, SaidInvNext, PTL DEF Spec

\* Whatever the text, a configuration is accepted only if every directive in
\* its pieces is right, and given up only if one of them is wrong.
THEOREM AcceptsWhatIsRightHolds == Spec => []AcceptsWhatIsRight
<1>1. SaidInv => AcceptsWhatIsRight
  BY DEF SaidInv, AcceptsWhatIsRight, Accepted, Built
<1>2. QED
  BY <1>1, SplitInvInit, SplitInvNext, ReadInvInit, ReadInvNext, WordInvInit, WordInvNext,
     SaidInvInit, SaidInvNext, PTL DEF Spec
=============================================================================
