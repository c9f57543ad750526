---------------------------- MODULE StartupProofs ----------------------------
(***************************************************************************)
(* What the start of the program guarantees for every text, file system    *)
(* and set of addresses.                                                   *)
(***************************************************************************)
EXTENDS Startup, FiniteSetTheorems, SequenceTheorems, WellFoundedInduction, TLAPS

-----------------------------------------------------------------------------
(* Counting braces.                                                        *)

\* A count is a natural number.
LEMMA CountType ==
    ASSUME NEW s, NEW k \in Nat, NEW x
    PROVE  Count(s, k, x) \in Nat
<1> DEFINE S == {j \in 1..k : s[j] = x}
<1>1. IsFiniteSet(1..k)
  BY FS_Interval
<1>2. IsFiniteSet(S)
  BY <1>1, FS_Subset
<1>3. QED
  BY <1>2, FS_CardinalityType DEF Count

\* A token appended is counted, and does not change the counts before it.
LEMMA CountAppend ==
    ASSUME NEW s \in Seq(Tokens), NEW t \in Tokens, NEW x
    PROVE  /\ \A k \in 1..Len(s) : Count(Append(s, t), k, x) = Count(s, k, x)
           /\ Count(Append(s, t), Len(s) + 1, x)
                  = Count(s, Len(s), x) + IF t = x THEN 1 ELSE 0
<1> DEFINE a == Append(s, t)
           n == Len(s)
           S == {j \in 1..n : s[j] = x}
<1>1. n \in Nat /\ \A j \in 1..n : a[j] = s[j]
  OBVIOUS
<1>2. a[n + 1] = t
  OBVIOUS
<1>3. ASSUME NEW k \in 1..n PROVE Count(a, k, x) = Count(s, k, x)
  <2>1. {j \in 1..k : a[j] = x} = {j \in 1..k : s[j] = x}
    BY <1>1
  <2>2. QED
    BY <2>1 DEF Count
<1>4. IsFiniteSet(S)
  <2>1. IsFiniteSet(1..n)
    BY <1>1, FS_Interval
  <2>2. QED
    BY <2>1, FS_Subset
<1>5. CASE t = x
  <2>1. {j \in 1..(n + 1) : a[j] = x} = S \cup {n + 1}
    BY <1>1, <1>2, <1>5
  <2>2. n + 1 \notin S
    BY <1>1
  <2>3. Cardinality(S \cup {n + 1}) = Cardinality(S) + 1
    BY <1>4, <2>2, FS_AddElement
  <2>4. Count(a, n + 1, x) = Cardinality(S) + 1 /\ Count(s, n, x) = Cardinality(S)
    BY <2>1, <2>3 DEF Count
  <2>5. QED
    BY <1>3, <1>5, <2>4
<1>6. CASE t # x
  <2>1. {j \in 1..(n + 1) : a[j] = x} = S
    BY <1>1, <1>2, <1>6
  <2>2. Cardinality(S) \in Nat
    BY <1>4, FS_CardinalityType
  <2>3. Count(a, n + 1, x) = Cardinality(S) /\ Count(s, n, x) = Cardinality(S)
    BY <2>1 DEF Count
  <2>4. QED
    BY <1>3, <1>6, <2>2, <2>3
<1>7. QED
  BY <1>5, <1>6

\* How a token changes the depth.
Weight(t) == IF t = LBrace THEN 1 ELSE IF t = RBrace THEN -1 ELSE 0

LEMMA DepthAppend ==
    ASSUME NEW s \in Seq(Tokens), NEW t \in Tokens
    PROVE  /\ \A k \in 1..Len(s) : Depth(Append(s, t), k) = Depth(s, k)
           /\ Depth(s, Len(s)) \in Int
           /\ Depth(Append(s, t), Len(s) + 1) = Depth(s, Len(s)) + Weight(t)
<1> DEFINE a == Append(s, t)
           n == Len(s)
<1>1. n \in Nat
  OBVIOUS
<1>2. \A k \in 1..n : Count(a, k, LBrace) = Count(s, k, LBrace)
  BY CountAppend
<1>3. \A k \in 1..n : Count(a, k, RBrace) = Count(s, k, RBrace)
  BY CountAppend
<1>4. Count(s, n, LBrace) \in Nat /\ Count(s, n, RBrace) \in Nat
  BY <1>1, CountType
<1>5. Count(a, n + 1, LBrace) = Count(s, n, LBrace) + IF t = LBrace THEN 1 ELSE 0
  BY CountAppend
<1>6. Count(a, n + 1, RBrace) = Count(s, n, RBrace) + IF t = RBrace THEN 1 ELSE 0
  BY CountAppend
<1>7. LBrace # RBrace
  BY DEF LBrace, RBrace
<1>8. \A k \in 1..n : Depth(a, k) = Depth(s, k)
  BY <1>2, <1>3 DEF Depth
<1>9. Depth(s, n) \in Int
  BY <1>4 DEF Depth
<1>10. Depth(a, n + 1) = Depth(s, n) + Weight(t)
  BY <1>4, <1>5, <1>6, <1>7 DEF Depth, Weight
<1>11. QED
  BY <1>8, <1>9, <1>10

\* A piece of the text that ends one token later.
LEMMA SubSeqAppend ==
    ASSUME NEW s \in Seq(Tokens), NEW a \in 1..Len(s), NEW b \in a..Len(s)
    PROVE  /\ SubSeq(s, a, b - 1) \in Seq(Tokens)
           /\ Len(SubSeq(s, a, b - 1)) = b - a
           /\ s[b] \in Tokens
           /\ SubSeq(s, a, b) = Append(SubSeq(s, a, b - 1), s[b])
  OBVIOUS

\* The end of the blanks lies in the text or just behind it.
LEMMA SkipBlanksInText ==
    ASSUME text \in Seq(Tokens), NEW k \in 1..(Len(text) + 1)
    PROVE  SkipBlanks(k) \in k..(Len(text) + 1)
<1> DEFINE S == {j \in k..Len(text) : \A m \in k..j : text[m] = Blank}
<1>1. k \in Int /\ Len(text) \in Int /\ k <= Len(text) + 1
  OBVIOUS
<1>2. /\ IsFiniteSet(k..Len(text))
      /\ Cardinality(k..Len(text)) = IF k > Len(text) THEN 0 ELSE Len(text) - k + 1
  BY <1>1, FS_Interval
<1>3. IsFiniteSet(S) /\ Cardinality(S) <= Cardinality(k..Len(text))
  BY <1>2, FS_Subset
<1>4. Cardinality(S) \in Nat
  BY <1>3, FS_CardinalityType
<1>5. SkipBlanks(k) = k + Cardinality(S)
  BY DEF SkipBlanks
<1> HIDE DEF S
<1>6. Cardinality(S) <= IF k > Len(text) THEN 0 ELSE Len(text) - k + 1
  BY <1>2, <1>3, Zenon
<1>7. QED
  BY <1>1, <1>4, <1>5, <1>6

-----------------------------------------------------------------------------
(* The scan.                                                               *)

\* What lies between the opening brace and end has pair more open braces.
InBlock ==
    /\ start \in 1..Len(text) /\ end \in start + 1..Len(text) + 1 /\ pair \in Nat
    /\ Depth(SubSeq(text, start, end - 1), end - start) = pair + 1
    /\ \A k \in 1..end - start : Depth(SubSeq(text, start, end - 1), k) > 0

\* The pieces cut so far are blocks: each is closed by its last brace.
Balanced == \A n \in DOMAIN serversConf : IsBlock(serversConf[n])

SplitInv ==
    /\ text \in Seq(Tokens) /\ serversConf \in Seq(Seq(Tokens))
    /\ Balanced
    /\ pc \in {"read", "split", "bracket"} => start \in 1..Len(text) + 1
    /\ pc = "braces" => InBlock

\* A token behind the brace that opened.
LEMMA InBlockScan ==
    ASSUME SplitInv, pc = "braces", searchEndBracket
    PROVE  InBlock'
<1> DEFINE s == SubSeq(text, start, end - 1)
           t == text[end]
<1>1. /\ text \in Seq(Tokens) /\ start \in 1..Len(text) /\ end \in start + 1..Len(text)
      /\ pair \in Nat /\ Len(text) \in Nat
  BY DEF SplitInv, InBlock, searchEndBracket
<1>2. /\ s \in Seq(Tokens) /\ Len(s) = end - start
      /\ t \in Tokens /\ SubSeq(text, start, end) = Append(s, t)
  BY <1>1, SubSeqAppend
<1>3. /\ text' = text /\ start' = start /\ end' = end + 1 /\ pair' = pair + Weight(t)
      /\ ~(t = RBrace /\ pair = 0)
  BY <1>1 DEF searchEndBracket, Deeper, Weight, At, Closing
<1>4. /\ Depth(s, end - start) = pair + 1
      /\ \A k \in 1..end - start : Depth(s, k) > 0
  BY DEF SplitInv, InBlock
<1>5. /\ \A k \in 1..end - start : Depth(Append(s, t), k) = Depth(s, k)
      /\ Depth(Append(s, t), end - start + 1) = Depth(s, end - start) + Weight(t)
  BY <1>2, DepthAppend
<1>6. LBrace # RBrace
  BY DEF LBrace, RBrace
<1>7. pair' \in Nat
  BY <1>1, <1>3, <1>6 DEF Weight
<1>8. SubSeq(text', start', end' - 1) = Append(s, t)
  BY <1>1, <1>2, <1>3
<1> HIDE DEF s, t
<1>9. /\ start' \in 1..Len(text') /\ end' \in start' + 1..Len(text') + 1
      /\ end' - start' = end - start + 1
  BY <1>1, <1>3
<1>10. Depth(Append(s, t), end - start + 1) = pair' + 1
  BY <1>1, <1>3, <1>4, <1>5 DEF Weight
<1>11. \A k \in 1..end - start + 1 : Depth(Append(s, t), k) > 0
  BY <1>1, <1>4, <1>5, <1>7, <1>10
<1>12. QED
  BY <1>7, <1>8, <1>9, <1>10, <1>11 DEF InBlock

\* The brace that opens is the block's first token.
LEMMA InBlockStart ==
    ASSUME SplitInv, searchStartBracket, pc' = "braces"
    PROVE  InBlock'
<1> DEFINE v == SkipBlanks(start)
           s == SubSeq(text, v, v - 1)
<1>1. text \in Seq(Tokens) /\ start \in 1..Len(text) + 1 /\ Len(text) \in Nat
  BY DEF SplitInv, searchStartBracket
<1>2. v \in start..Len(text) + 1
  BY <1>1, SkipBlanksInText
<1>3. /\ At(v) = LBrace
      /\ start' = v /\ end' = v + 1 /\ pair' = 0 /\ text' = text
  BY DEF searchStartBracket
<1> HIDE DEF v
<1>4. LBrace # "end" /\ LBrace # RBrace
  BY DEF LBrace, RBrace
<1>5. v \in 1..Len(text) /\ text[v] = LBrace
  BY <1>1, <1>2, <1>3, <1>4 DEF At
<1>6. /\ s \in Seq(Tokens) /\ Len(s) = 0
      /\ text[v] \in Tokens /\ SubSeq(text, v, v) = Append(s, text[v])
  BY <1>1, <1>5, SubSeqAppend
<1>7. Depth(s, 0) = 0
  <2>1. \A x : {j \in 1..0 : s[j] = x} = {}
    OBVIOUS
  <2>2. \A x : Count(s, 0, x) = 0
    BY <2>1, FS_EmptySet DEF Count
  <2>3. QED
    BY <2>2 DEF Depth
<1> HIDE DEF s
<1>8. Depth(Append(s, text[v]), 1) = 1
  <2>1. Depth(Append(s, text[v]), Len(s) + 1) = Depth(s, Len(s)) + Weight(text[v])
    BY <1>6, DepthAppend
  <2>2. Weight(text[v]) = 1
    BY <1>5 DEF Weight
  <2>3. Depth(Append(s, text[v]), 0 + 1) = Depth(s, 0) + Weight(text[v])
    BY <1>6, <2>1, Zenon
  <2>4. QED
    BY <1>7, <2>2, <2>3
<1>9. end' - start' = 1 /\ end' - 1 = v
  BY <1>3, <1>5
<1>10. SubSeq(text', start', end' - 1) = Append(s, text[v])
  BY <1>3, <1>6, <1>9
<1>11. /\ start' \in 1..Len(text') /\ end' \in start' + 1..Len(text') + 1 /\ pair' \in Nat
  BY <1>1, <1>3, <1>5
<1>12. \A k \in 1..1 : k = 1
  OBVIOUS
<1>13. Depth(Append(s, text[v]), 1) > 0
  BY <1>8
<1>14. Depth(Append(s, text[v]), 1) = pair' + 1
  BY <1>3, <1>8
<1>15. QED
  BY <1>9, <1>10, <1>11, <1>12, <1>13, <1>14, Zenon DEF InBlock

\* The piece that is cut out is a block.
LEMMA CutIsBlock ==
    ASSUME SplitInv, PushServerConf
    PROVE  SubSeq(text, start, end) \in Seq(Tokens) /\ IsBlock(SubSeq(text, start, end))
<1> DEFINE s == SubSeq(text, start, end - 1)
           b == SubSeq(text, start, end)
<1>1. /\ text \in Seq(Tokens) /\ start \in 1..Len(text) /\ end \in start + 1..Len(text)
      /\ Len(text) \in Nat
      /\ Depth(s, end - start) = 1
      /\ \A k \in 1..end - start : Depth(s, k) > 0
      /\ text[end] = RBrace
  BY DEF SplitInv, InBlock, PushServerConf, Closing, At
<1>2. /\ s \in Seq(Tokens) /\ Len(s) = end - start
      /\ text[end] \in Tokens /\ b = Append(s, text[end])
  BY <1>1, SubSeqAppend
<1>3. b \in Seq(Tokens) /\ Len(b) = end - start + 1 /\ b # <<>>
  <2>1. b \in Seq(Tokens) /\ Len(b) = Len(s) + 1
    BY <1>2
  <2>2. Len(b) = end - start + 1 /\ Len(b) > 0
    BY <1>1, <1>2, <2>1
  <2>3. Len(b) # 0 /\ Len(<<>>) = 0
    BY <2>2
  <2>4. b # <<>>
    BY <2>3, Zenon
  <2>5. QED
    BY <2>1, <2>2, <2>4
<1> HIDE DEF s, b
<1>4. LBrace # RBrace
  BY DEF LBrace, RBrace
<1>5. /\ \A k \in 1..end - start : Depth(b, k) = Depth(s, k)
      /\ Depth(b, end - start + 1) = 0
  BY <1>1, <1>2, <1>4, DepthAppend DEF Weight
<1>6. IsBlock(b)
  BY <1>1, <1>3, <1>5 DEF IsBlock
<1>7. QED
  BY <1>3, <1>6 DEF b

LEMMA SplitInvInit == Init => SplitInv
  BY DEF Init, SplitInit, SplitInv, Balanced

LEMMA SplitInvScan == SplitInv /\ SplitNext => SplitInv'
<1> SUFFICES ASSUME SplitInv, SplitNext PROVE SplitInv'
  OBVIOUS
<1>1. text \in Seq(Tokens) /\ Len(text) \in Nat
  BY DEF SplitInv
<1>2. CASE takeServersConfig
  BY <1>2 DEF takeServersConfig, splitVars, SplitInv, Balanced
<1>3. CASE searchServer
  <2>1. start \in 1..Len(text) + 1
    BY <1>3 DEF searchServer, SplitInv
  <2>2. SkipBlanks(start) \in start..Len(text) + 1
    BY <1>1, <2>1, SkipBlanksInText
  <2>3. At(SkipBlanks(start)) = "server" => SkipBlanks(start) <= Len(text)
    BY <1>1, <2>2 DEF At
  <2>4. start' \in 1..Len(text) + 1 /\ pc' \in {"bracket", "malformed"}
    BY <1>1, <1>3, <2>1, <2>2, <2>3 DEF searchServer
  <2>5. QED
    BY <1>3, <2>4 DEF searchServer, SplitInv, Balanced
<1>4. CASE searchStartBracket
  <2>1. pc' \in {"braces", "malformed"}
    BY <1>4 DEF searchStartBracket
  <2>2. pc' = "braces" => InBlock'
    BY <1>4, InBlockStart
  <2>3. QED
    BY <1>4, <2>1, <2>2 DEF searchStartBracket, SplitInv, Balanced
<1>5. CASE searchEndBracket
  <2>1. InBlock'
    BY <1>5, InBlockScan DEF searchEndBracket
  <2>2. QED
    BY <1>5, <2>1 DEF searchEndBracket, SplitInv, Balanced
<1>6. CASE PushServerConf
  <2> DEFINE b == SubSeq(text, start, end)
  <2>1. b \in Seq(Tokens) /\ IsBlock(b)
    BY <1>6, CutIsBlock
  <2> HIDE DEF b
  <2>2. serversConf \in Seq(Seq(Tokens)) /\ \A n \in 1..Len(serversConf) : IsBlock(serversConf[n])
    BY DEF SplitInv, Balanced
  <2>3. serversConf' = Append(serversConf, b)
    BY <1>6 DEF PushServerConf, b
  <2>4. /\ serversConf' \in Seq(Seq(Tokens)) /\ Len(serversConf') = Len(serversConf) + 1
        /\ \A n \in 1..Len(serversConf) : serversConf'[n] = serversConf[n]
        /\ serversConf'[Len(serversConf) + 1] = b
    BY <2>1, <2>2, <2>3
  <2>5. Balanced'
    <3>1. SUFFICES ASSUME NEW n \in 1..Len(serversConf) + 1 PROVE IsBlock(serversConf'[n])
      BY <2>4 DEF Balanced
    <3>2. CASE n \in 1..Len(serversConf)
      BY <2>2, <2>4, <3>2
    <3>3. CASE n = Len(serversConf) + 1
      BY <2>1, <2>4, <3>3
    <3>4. QED
      BY <2>2, <3>2, <3>3
  <2>6. start' \in 1..Len(text) + 1 /\ pc' = "split" /\ text' = text
    BY <1>1, <1>6 DEF PushServerConf, NextStart, SplitInv, InBlock
  <2>7. QED
    BY <1>1, <2>4, <2>5, <2>6 DEF SplitInv
<1>7. CASE MissingBracket
  BY <1>7 DEF MissingBracket, splitVars, SplitInv, Balanced
<1>8. CASE SplitEnds
  BY <1>8 DEF SplitEnds, splitVars, SplitInv, Balanced
<1>9. QED
  BY <1>2, <1>3, <1>4, <1>5, <1>6, <1>7, <1>8 DEF SplitNext

-----------------------------------------------------------------------------
(* What a step of the reading may do.                                      *)

\* The program gives up.
GivesUp == pc' \in {"refused", "undefined"} /\ UNCHANGED <<splitVars, readVars>>

\* A field of the server other than those that later code relies on is set, or
\* none.
SetsServer ==
    /\ pc = "server" /\ pc' = pc
    /\ \/ UNCHANGED server
       \/ \E f \in DOMAIN NewServer \ {"port", "locations"} : \E v :
              server' = [server EXCEPT ![f] = v]
    /\ UNCHANGED <<splitVars, location, servers>>

SetsPort ==
    /\ pc = "server" /\ pc' = pc
    /\ \E n \in 0..MaxPort : server' = [server EXCEPT !.port = n]
    /\ UNCHANGED <<splitVars, location, servers>>

SetsLocation ==
    /\ pc = "location" /\ pc' = pc
    /\ \E f \in DOMAIN NewLocation \ {"path", "methods"} : \E v :
           location' = [location EXCEPT ![f] = v]
    /\ UNCHANGED <<splitVars, server, servers>>

SetsMethods ==
    /\ pc = "location" /\ pc' = pc
    /\ \E list : /\ IsMethods(list)
                 /\ location' = [location EXCEPT !.methods = list]
    /\ UNCHANGED <<splitVars, server, servers>>

OpensLocation ==
    /\ pc = "server" /\ pc' = "location"
    /\ \E path : IsLocationPath(path) /\ location' = LocationAt(path)
    /\ UNCHANGED <<splitVars, server, servers>>

LEMMA PortIsSet == setPort => GivesUp \/ SetsPort
<1> SUFFICES ASSUME setPort, ~GivesUp PROVE SetsPort
  OBVIOUS
<1> DEFINE w == cutSemiColon(words[i + 1])
<1>1. /\ pc = "server" /\ pc' = pc /\ IsPort(w)
      /\ server' = [server EXCEPT !["port"] = Number(w)]
      /\ UNCHANGED <<splitVars, location, servers>>
  BY DEF setPort, ServerValue, Names, Accepts, ReadsPast, Ends, GivesUp
<1> HIDE DEF w
<1>2. Number(w) \in 0..MaxPort
  <2>1. Number(w) \in Nat
    BY <1>1, StartupAssumption, Zenon DEF IsPort, IsNumber, Number
  <2>2. Number(w) <= MaxPort
    BY <1>1, Zenon DEF IsPort
  <2>3. MaxPort \in Nat
    BY DEF MaxPort
  <2> DEFINE n == Number(w)
  <2>4. n \in Nat /\ n <= MaxPort
    BY <2>1, <2>2
  <2> HIDE DEF n
  <2>5. n \in 0..MaxPort
    BY <2>3, <2>4
  <2>6. QED
    BY <2>5 DEF n
<1>3. QED
  BY <1>1, <1>2 DEF SetsPort

LEMMA ServerIsSet ==
    \/ setServerName \/ setHost \/ setRoot \/ setIndex \/ setClientMaxBodySize
    \/ setErrorPage \/ SkipWord
    => GivesUp \/ SetsServer
<1>1. setServerName => GivesUp \/ SetsServer
  BY DEF setServerName, ServerValue, Names, ReadsPast, Ends, GivesUp, SetsServer, NewServer
<1>2. setHost => GivesUp \/ SetsServer
  BY DEF setHost, ServerValue, Names, ReadsPast, Ends, GivesUp, SetsServer, NewServer
<1>3. setRoot => GivesUp \/ SetsServer
  BY DEF setRoot, ServerValue, Names, ReadsPast, Ends, GivesUp, SetsServer, NewServer
<1>4. setIndex => GivesUp \/ SetsServer
  BY DEF setIndex, ServerValue, Names, ReadsPast, Ends, GivesUp, SetsServer, NewServer
<1>5. setClientMaxBodySize => GivesUp \/ SetsServer
  BY DEF setClientMaxBodySize, ServerValue, Names, ReadsPast, Ends, GivesUp, SetsServer,
         NewServer
<1>6. setErrorPage => GivesUp \/ SetsServer
  BY DEF setErrorPage, Names, ReadsPast, Ends, GivesUp, SetsServer, NewServer
<1>7. SkipWord => GivesUp \/ SetsServer
  BY DEF SkipWord, SetsServer
<1>8. QED
  BY <1>1, <1>2, <1>3, <1>4, <1>5, <1>6, <1>7

LEMMA LocationIsSet ==
    \/ validateLocationRoot \/ setAutoIndex \/ setLocationIndex \/ setReturn \/ setAlias
    \/ validateLocationCgiPath \/ validateLocationCgiExt \/ setLocationClientMaxBodySize
    => GivesUp \/ SetsLocation
<1>1. validateLocationRoot => GivesUp \/ SetsLocation
  BY DEF validateLocationRoot, LocationValue, Names, ReadsPast, Ends, GivesUp, SetsLocation,
         NewLocation
<1>2. setAutoIndex => GivesUp \/ SetsLocation
  BY DEF setAutoIndex, LocationValue, Names, ReadsPast, Ends, GivesUp, SetsLocation,
         NewLocation
<1>3. setLocationIndex => GivesUp \/ SetsLocation
  BY DEF setLocationIndex, LocationValue, Names, ReadsPast, Ends, GivesUp, SetsLocation,
         NewLocation
<1>4. setReturn => GivesUp \/ SetsLocation
  BY DEF setReturn, LocationValue, Names, ReadsPast, Ends, GivesUp, SetsLocation,
         NewLocation
<1>5. setAlias => GivesUp \/ SetsLocation
  BY DEF setAlias, LocationValue, Names, ReadsPast, Ends, GivesUp, SetsLocation,
         NewLocation
<1>6. validateLocationCgiPath => GivesUp \/ SetsLocation
  BY DEF validateLocationCgiPath, TakesList, Names, Ends, GivesUp, SetsLocation,
         NewLocation
<1>7. validateLocationCgiExt => GivesUp \/ SetsLocation
  BY DEF validateLocationCgiExt, TakesList, Names, Ends, GivesUp, SetsLocation,
         NewLocation
<1>8. setLocationClientMaxBodySize => GivesUp \/ SetsLocation
  BY DEF setLocationClientMaxBodySize, LocationValue, Names, ReadsPast, Ends, GivesUp,
         SetsLocation, NewLocation
<1>9. QED
  BY <1>1, <1>2, <1>3, <1>4, <1>5, <1>6, <1>7, <1>8

LEMMA ReadKinds ==
    ReadNext =>
        \/ GivesUp \/ SetsServer \/ SetsPort \/ SetsLocation \/ SetsMethods \/ OpensLocation
        \/ CreateServer \/ PushLocation \/ PushServer \/ validateServers
<1>1. validateLocationPath => GivesUp \/ OpensLocation
  BY DEF validateLocationPath, Names, ReadsPast, Ends, GivesUp, OpensLocation
<1>2. validateLocationMethods => GivesUp \/ SetsMethods
  BY DEF validateLocationMethods, TakesList, Names, Ends, GivesUp, SetsMethods
<1>3. WrongDirective => GivesUp
  BY DEF WrongDirective, Ends, GivesUp
<1>4. QED
  BY <1>1, <1>2, <1>3, PortIsSet, ServerIsSet, LocationIsSet DEF ReadNext

\* While the words are read, pc is one of three.
LEMMA ReadsWhen == ReadNext => pc \in Reading
  BY DEF ReadNext, CreateServer, setPort, setServerName, setHost, setRoot, setIndex,
         setClientMaxBodySize, setErrorPage, SkipWord, validateLocationPath,
         validateLocationRoot, validateLocationMethods, setAutoIndex, setLocationIndex,
         setReturn, setAlias, validateLocationCgiPath, validateLocationCgiExt,
         setLocationClientMaxBodySize, WrongDirective, PushLocation, PushServer,
         validateServers, ServerValue, LocationValue, TakesList, Names, Reading

\* Reading and listening leave the pieces, and do not go back to cutting.
LEMMA ReadLeavesPieces ==
    ReadNext \/ Listen \/ startListen => UNCHANGED splitVars /\ pc' \notin Scanning
<1>1. GivesUp => UNCHANGED splitVars /\ pc' \notin Scanning
  BY DEF GivesUp, Scanning
<1>2. SetsServer \/ SetsPort \/ SetsLocation \/ SetsMethods \/ OpensLocation
         => UNCHANGED splitVars /\ pc' \notin Scanning
  BY DEF SetsServer, SetsPort, SetsLocation, SetsMethods, OpensLocation, Scanning
<1>3. CreateServer \/ PushLocation \/ PushServer \/ validateServers
         => UNCHANGED splitVars /\ pc' \notin Scanning
  BY DEF CreateServer, PushLocation, PushServer, validateServers, Ends, Scanning
<1>4. Listen \/ startListen => UNCHANGED splitVars /\ pc' \notin Scanning
  BY DEF Listen, startListen, Scanning
<1>5. QED
  BY <1>1, <1>2, <1>3, <1>4, ReadKinds

LEMMA SplitInvNext == SplitInv /\ [Next]_vars => SplitInv'
<1> SUFFICES ASSUME SplitInv, [Next]_vars PROVE SplitInv'
  OBVIOUS
<1>1. CASE SplitNext
  BY <1>1, SplitInvScan
<1>2. CASE ReadNext \/ Listen \/ startListen
  <2>1. UNCHANGED splitVars /\ pc' \notin Scanning
    BY <1>2, ReadLeavesPieces
  <2>2. QED
    BY <2>1 DEF SplitInv, splitVars, Balanced, Scanning
<1>3. CASE UNCHANGED vars
  BY <1>3 DEF vars, splitVars, SplitInv, Balanced, InBlock
<1>4. QED
  BY <1>1, <1>2, <1>3 DEF Next

-----------------------------------------------------------------------------
(* The servers.                                                            *)

IsSeq(s) == s \in Seq({s[k] : k \in 1..Len(s)})

LEMMA SeqAppend ==
    ASSUME NEW s, IsSeq(s), NEW x
    PROVE  /\ IsSeq(Append(s, x))
           /\ Len(s) \in Nat /\ Len(Append(s, x)) = Len(s) + 1
           /\ \A k \in 1..Len(s) : Append(s, x)[k] = s[k]
           /\ Append(s, x)[Len(s) + 1] = x
<1> DEFINE R == {s[k] : k \in 1..Len(s)} \cup {x}
           a == Append(s, x)
<1>1. s \in Seq(R) /\ x \in R
  BY DEF IsSeq
<1> HIDE DEF R
<1>2. /\ a \in Seq(R) /\ Len(s) \in Nat /\ Len(a) = Len(s) + 1
      /\ \A k \in 1..Len(s) : a[k] = s[k]
      /\ a[Len(s) + 1] = x
  BY <1>1
<1>3. \A k \in 1..Len(a) : a[k] \in {a[m] : m \in 1..Len(a)}
  OBVIOUS
<1>4. a \in Seq({a[m] : m \in 1..Len(a)})
  <2>1. a \in [1..Len(a) -> R] /\ Len(a) \in Nat
    BY <1>2, LenProperties
  <2> HIDE DEF a
  <2>2. a \in [1..Len(a) -> {a[m] : m \in 1..Len(a)}]
    BY <2>1, <1>3
  <2>3. QED
    BY <2>1, <2>2, SeqDef
<1>5. QED
  BY <1>2, <1>4 DEF IsSeq

LEMMA SeqDomain == \A s : IsSeq(s) => DOMAIN s = 1..Len(s) /\ Len(s) \in Nat
  BY DEF IsSeq

LEMMA SeqEmpty == IsSeq(<<>>) /\ Len(<<>>) = 0
  BY DEF IsSeq

\* A server, finished or being read.
GoodServer(s) ==
    /\ {"port", "host", "locations"} \subseteq DOMAIN s
    /\ s.port \in 0..MaxPort
    /\ IsSeq(s.locations)
    /\ \A n \in 1..Len(s.locations) : IsLocation(s.locations[n])

GoodLocation(l) == {"path", "methods"} \subseteq DOMAIN l /\ IsLocation(l)

Distinct ==
    /\ \A m, n \in 1..Len(servers) : m < n => ~Repeated(servers[m], servers[n])
    /\ \A n \in 1..Len(servers) : validateLocation(servers[n])

Built == {"listen", "exited", "serving"}

ReadInv ==
    /\ GoodServer(server)
    /\ pc = "location" => GoodLocation(location)
    /\ IsSeq(servers) /\ \A n \in 1..Len(servers) : GoodServer(servers[n])
    /\ pc \in Built => Distinct
    /\ IsSeq(listening) /\ (pc \notin Built => listening = <<>>)
    /\ Len(listening) <= Len(servers)
    /\ \A n \in 1..Len(listening) : listening[n] = Address(servers[n])

LEMMA ReadInvInit == Init => ReadInv
<1> SUFFICES ASSUME Init PROVE ReadInv
  OBVIOUS
<1>1. pc = "read" /\ server = NewServer /\ servers = <<>> /\ listening = <<>>
  BY DEF Init, SplitInit, ReadInit
<1>2. GoodServer(NewServer)
  BY SeqEmpty DEF GoodServer, NewServer, MaxPort
<1>3. QED
  BY <1>1, <1>2, SeqEmpty DEF ReadInv, Built

\* Setting a field leaves the others.
LEMMA SetField ==
    ASSUME NEW r, NEW f, NEW v, NEW g \in DOMAIN r
    PROVE  /\ DOMAIN [r EXCEPT ![f] = v] = DOMAIN r
           /\ g # f => [r EXCEPT ![f] = v][g] = r[g]
           /\ g = f => [r EXCEPT ![f] = v][g] = v
  OBVIOUS

LEMMA SetServerField ==
    ASSUME GoodServer(server), NEW f, f \notin {"port", "locations"}, NEW v
    PROVE  GoodServer([server EXCEPT ![f] = v])
<1> DEFINE t == [server EXCEPT ![f] = v]
<1>1. DOMAIN t = DOMAIN server /\ {"port", "host", "locations"} \subseteq DOMAIN server
  BY DEF GoodServer
<1>2. t["port"] = server["port"] /\ t["locations"] = server["locations"]
  BY <1>1
<1> HIDE DEF t
<1>3. GoodServer(t)
  BY <1>1, <1>2 DEF GoodServer
<1>4. QED
  BY <1>3 DEF t

LEMMA SetServerPort ==
    ASSUME GoodServer(server), NEW n \in 0..MaxPort
    PROVE  GoodServer([server EXCEPT !.port = n])
<1> DEFINE t == [server EXCEPT !.port = n]
<1>1. DOMAIN t = DOMAIN server /\ {"port", "host", "locations"} \subseteq DOMAIN server
  BY DEF GoodServer
<1>2. t.port = n /\ t.locations = server.locations
  BY <1>1
<1> HIDE DEF t
<1>3. GoodServer(t)
  BY <1>1, <1>2 DEF GoodServer
<1>4. QED
  BY <1>3 DEF t

LEMMA AddLocation ==
    ASSUME GoodServer(server), GoodLocation(location)
    PROVE  GoodServer([server EXCEPT !.locations = Append(@, location)])
<1> DEFINE ls == Append(server.locations, location)
           t == [server EXCEPT !.locations = ls]
<1>1. DOMAIN t = DOMAIN server /\ {"port", "host", "locations"} \subseteq DOMAIN server
  BY DEF GoodServer
<1>2. t.port = server.port /\ t.locations = ls
  BY <1>1
<1>3. /\ IsSeq(server.locations)
      /\ \A n \in 1..Len(server.locations) : IsLocation(server.locations[n])
      /\ IsLocation(location)
  BY DEF GoodServer, GoodLocation
<1>4. /\ IsSeq(ls) /\ Len(server.locations) \in Nat /\ Len(ls) = Len(server.locations) + 1
      /\ \A n \in 1..Len(server.locations) : ls[n] = server.locations[n]
      /\ ls[Len(server.locations) + 1] = location
  BY <1>3, SeqAppend
<1> HIDE DEF ls, t
<1>5. ASSUME NEW n \in 1..Len(ls) PROVE IsLocation(ls[n])
  <2>1. n \in 1..Len(server.locations) \/ n = Len(server.locations) + 1
    BY <1>4
  <2>2. QED
    BY <1>3, <1>4, <2>1
<1>6. GoodServer(t)
  BY <1>1, <1>2, <1>4, <1>5 DEF GoodServer
<1>7. QED
  BY <1>6 DEF t, ls

\* A location whose path or methods are set.
LEMMA NewLocationIsGood ==
    ASSUME NEW path, IsLocationPath(path)
    PROVE  GoodLocation(LocationAt(path))
<1> DEFINE l == LocationAt(path)
<1>1. {"path", "methods"} \subseteq DOMAIN l /\ l.path = path /\ l.methods = <<>>
  BY DEF LocationAt, NewLocation
<1> HIDE DEF l
<1>2. DOMAIN l.methods = {}
  BY <1>1, SeqEmpty, SeqDomain
<1>3. IsLocation(l)
  BY <1>1, <1>2 DEF IsLocation
<1>4. QED
  BY <1>1, <1>3 DEF GoodLocation, l

LEMMA SetLocationField ==
    ASSUME GoodLocation(location), NEW f, f \notin {"path", "methods"}, NEW v
    PROVE  GoodLocation([location EXCEPT ![f] = v])
<1> DEFINE l == [location EXCEPT ![f] = v]
<1>1. DOMAIN l = DOMAIN location /\ {"path", "methods"} \subseteq DOMAIN location
  BY DEF GoodLocation
<1>2. l["path"] = location["path"] /\ l["methods"] = location["methods"]
  BY <1>1
<1> HIDE DEF l
<1>3. GoodLocation(l)
  BY <1>1, <1>2 DEF GoodLocation, IsLocation
<1>4. QED
  BY <1>3 DEF l

LEMMA SetLocationMethods ==
    ASSUME GoodLocation(location), NEW list, IsMethods(list)
    PROVE  GoodLocation([location EXCEPT !.methods = list])
<1> DEFINE l == [location EXCEPT !.methods = list]
<1>1. DOMAIN l = DOMAIN location /\ {"path", "methods"} \subseteq DOMAIN location
  BY DEF GoodLocation
<1>2. l.path = location.path /\ l.methods = list
  BY <1>1
<1> HIDE DEF l
<1>3. /\ \A n \in DOMAIN list : list[n] \in Methods
      /\ \A m, n \in DOMAIN list : m # n => list[m] # list[n]
  BY DEF IsMethods
<1>4. GoodLocation(l)
  BY <1>1, <1>2, <1>3 DEF GoodLocation, IsLocation
<1>5. QED
  BY <1>4 DEF l

\* What the reading of one server may change.
LEMMA ReadInvOne ==
    ASSUME ReadInv, pc \notin Built, pc' \notin Built,
           UNCHANGED <<servers, listening>>,
           GoodServer(server'), pc' = "location" => GoodLocation(location')
    PROVE  ReadInv'
  BY DEF ReadInv, Address

LEMMA ReadInvScan ==
    ASSUME ReadInv, SplitNext, UNCHANGED <<readVars, listening>>
    PROVE  ReadInv'
<1>1. /\ pc \in Scanning
      /\ pc' \in Scanning \cup {"nofile", "malformed", "servers"}
  BY DEF SplitNext, takeServersConfig, searchServer, searchStartBracket, searchEndBracket,
         PushServerConf, MissingBracket, SplitEnds, Scanning
<1>2. pc \notin Built /\ pc' \notin Built /\ pc' # "location"
  BY <1>1 DEF Scanning, Built
<1>3. UNCHANGED <<servers, server, listening>>
  BY DEF readVars
<1>4. QED
  BY <1>2, <1>3, ReadInvOne DEF ReadInv

LEMMA ReadInvPush ==
    ASSUME ReadInv, PushServer, UNCHANGED listening
    PROVE  ReadInv'
<1>1. pc = "server" /\ pc' = "servers" /\ servers' = Append(servers, server)
      /\ UNCHANGED <<server, location>>
  BY DEF PushServer
<1>2. /\ GoodServer(server)
      /\ IsSeq(servers) /\ \A n \in 1..Len(servers) : GoodServer(servers[n])
      /\ listening = <<>>
  BY <1>1 DEF ReadInv, Built
<1> DEFINE a == Append(servers, server)
<1>3. /\ IsSeq(a) /\ Len(servers) \in Nat /\ Len(a) = Len(servers) + 1
      /\ \A n \in 1..Len(servers) : a[n] = servers[n]
      /\ a[Len(servers) + 1] = server
  BY <1>2, SeqAppend
<1> HIDE DEF a
<1>4. ASSUME NEW n \in 1..Len(a) PROVE GoodServer(a[n])
  <2>1. n \in 1..Len(servers) \/ n = Len(servers) + 1
    BY <1>3
  <2>2. QED
    BY <1>2, <1>3, <2>1
<1>5. servers' = a
  BY <1>1 DEF a
<1>6. Len(listening) = 0 /\ \A n \in 1..0 : FALSE
  BY <1>2, SeqEmpty
<1>7. QED
  BY <1>1, <1>2, <1>3, <1>4, <1>5, <1>6, SeqEmpty DEF ReadInv, Built

LEMMA ReadInvRead ==
    ASSUME ReadInv, ReadNext, UNCHANGED socketVars
    PROVE  ReadInv'
<1>1. UNCHANGED listening
  BY DEF socketVars
<1>2. CASE GivesUp
  <2>1. UNCHANGED <<server, location, servers, listening>> /\ pc' \in {"refused", "undefined"}
    BY <1>1, <1>2 DEF GivesUp, readVars
  <2>2. pc \notin Built
    BY ReadsWhen DEF Reading, Built
  <2>3. pc' \notin Built /\ pc' # "location"
    BY <2>1 DEF Built
  <2>4. QED
    BY <2>1, <2>2, <2>3, ReadInvOne DEF ReadInv
<1>3. CASE SetsServer
  <2>1. GoodServer(server')
    BY <1>3, SetServerField DEF SetsServer, ReadInv
  <2>2. QED
    BY <1>1, <1>3, <2>1, ReadInvOne DEF SetsServer, Built
<1>4. CASE SetsPort
  <2>1. GoodServer(server')
    BY <1>4, SetServerPort DEF SetsPort, ReadInv
  <2>2. QED
    BY <1>1, <1>4, <2>1, ReadInvOne DEF SetsPort, Built
<1>5. CASE SetsLocation
  <2>1. GoodLocation(location')
    <3>1. PICK f, v : f \notin {"path", "methods"} /\ location' = [location EXCEPT ![f] = v]
      BY <1>5 DEF SetsLocation
    <3>2. GoodLocation(location)
      BY <1>5 DEF SetsLocation, ReadInv
    <3>3. GoodLocation([location EXCEPT ![f] = v])
      BY <3>1, <3>2, SetLocationField
    <3>4. QED
      BY <3>1, <3>3
  <2>2. GoodServer(server')
    BY <1>5 DEF SetsLocation, ReadInv
  <2>3. QED
    BY <1>1, <1>5, <2>1, <2>2, ReadInvOne DEF SetsLocation, Built
<1>6. CASE SetsMethods
  <2>1. GoodLocation(location')
    BY <1>6, SetLocationMethods DEF SetsMethods, ReadInv
  <2>2. GoodServer(server')
    BY <1>6 DEF SetsMethods, ReadInv
  <2>3. QED
    BY <1>1, <1>6, <2>1, <2>2, ReadInvOne DEF SetsMethods, Built
<1>7. CASE OpensLocation
  <2>1. GoodLocation(location')
    BY <1>7, NewLocationIsGood DEF OpensLocation
  <2>2. GoodServer(server')
    BY <1>7 DEF OpensLocation, ReadInv
  <2>3. QED
    BY <1>1, <1>7, <2>1, <2>2, ReadInvOne DEF OpensLocation, Built
<1>8. CASE CreateServer
  <2>1. GoodServer(NewServer)
    BY SeqEmpty DEF GoodServer, NewServer, MaxPort
  <2>2. pc = "servers" /\ pc' = "server" /\ server' = NewServer /\ UNCHANGED servers
    BY <1>8 DEF CreateServer
  <2>3. QED
    BY <1>1, <2>1, <2>2, ReadInvOne DEF Built
<1>9. CASE PushLocation
  <2>1. pc = "location" /\ pc' = "server" /\ UNCHANGED servers
    BY <1>9 DEF PushLocation
  <2>2. GoodServer(server')
    BY <1>9, <2>1, AddLocation DEF PushLocation, ReadInv
  <2>3. QED
    BY <1>1, <2>1, <2>2, ReadInvOne DEF Built
<1>10. CASE PushServer
  BY <1>1, <1>10, ReadInvPush
<1>11. CASE validateServers
  <2>1. CASE GivesUp
    BY <1>2, <2>1
  <2>2. CASE ~GivesUp
    <3>1. /\ pc = "servers" /\ pc' = "listen"
          /\ \A m, n \in DOMAIN servers : m < n => ~Repeated(servers[m], servers[n])
          /\ \A n \in DOMAIN servers : validateLocation(servers[n])
          /\ UNCHANGED <<server, servers, location>>
      BY <1>11, <2>2 DEF validateServers, Ends, GivesUp, readVars
    <3>2. IsSeq(servers)
      BY DEF ReadInv
    <3>3. DOMAIN servers = 1..Len(servers)
      BY <3>2, SeqDomain
    <3>4. Distinct'
      BY <3>1, <3>3 DEF Distinct
    <3>5. QED
      BY <1>1, <3>1, <3>4 DEF ReadInv, Built, Address
  <2>3. QED
    BY <2>1, <2>2
<1>12. QED
  BY <1>2, <1>3, <1>4, <1>5, <1>6, <1>7, <1>8, <1>9, <1>10, <1>11, ReadKinds

LEMMA ReadInvListen ==
    ASSUME ReadInv, Listen
    PROVE  ReadInv'
<1> DEFINE n == Len(listening)
           a == Address(servers[n + 1])
           l == Append(listening, a)
<1>1. /\ pc = "listen" /\ n < Len(servers)
      /\ \/ listening' = l /\ pc' = pc
         \/ listening' = listening /\ pc' = "exited"
      /\ UNCHANGED <<server, servers, location>>
  BY DEF Listen, readVars
<1>2. /\ IsSeq(servers) /\ IsSeq(listening)
      /\ \A m \in 1..n : listening[m] = Address(servers[m])
      /\ Distinct
  BY <1>1 DEF ReadInv, Built
<1>3. CASE listening' = listening /\ pc' = "exited"
  BY <1>1, <1>3 DEF ReadInv, Built, Distinct, Address
<1>4. CASE listening' = l /\ pc' = pc
  <2>1. /\ IsSeq(l) /\ n \in Nat /\ Len(l) = n + 1
        /\ \A m \in 1..n : l[m] = listening[m]
        /\ l[n + 1] = a
    BY <1>2, SeqAppend
  <2>2. Len(servers) \in Nat
    BY <1>2, SeqDomain
  <2>3. ASSUME NEW m \in 1..n + 1 PROVE l[m] = Address(servers[m])
    <3>1. m \in 1..n \/ m = n + 1
      BY <2>1
    <3>2. QED
      BY <1>2, <2>1, <3>1
  <2> HIDE DEF l
  <2>4. Len(l) <= Len(servers)
    BY <1>1, <2>1, <2>2
  <2>5. QED
    BY <1>1, <1>4, <2>1, <2>3, <2>4 DEF ReadInv, Built, Distinct, Address
<1>5. QED
  BY <1>1, <1>3, <1>4

LEMMA ReadInvNext == ReadInv /\ [Next]_vars => ReadInv'
<1> SUFFICES ASSUME ReadInv, [Next]_vars PROVE ReadInv'
  OBVIOUS
<1>1. CASE SplitNext /\ UNCHANGED <<readVars, socketVars>>
  BY <1>1, ReadInvScan DEF socketVars
<1>2. CASE ReadNext /\ UNCHANGED socketVars
  BY <1>2, ReadInvRead
<1>3. CASE Listen
  BY <1>3, ReadInvListen
<1>4. CASE startListen
  BY <1>4 DEF startListen, readVars, socketVars, ReadInv, Built, Distinct, Address
<1>5. CASE UNCHANGED vars
  BY <1>5 DEF vars, readVars, socketVars, ReadInv, Built, Distinct, Address
<1>6. QED
  BY <1>1, <1>2, <1>3, <1>4, <1>5 DEF Next

\* Servers the reading lets through have different addresses.
LEMMA Addresses ==
    ASSUME ReadInv, pc \in Built
    PROVE  \A m, n \in DOMAIN servers : m # n => Address(servers[m]) # Address(servers[n])
<1>1. DOMAIN servers = 1..Len(servers) /\ Len(servers) \in Nat
  BY SeqDomain DEF ReadInv
<1>2. SUFFICES ASSUME NEW m \in DOMAIN servers, NEW n \in DOMAIN servers, m # n
               PROVE  Address(servers[m]) # Address(servers[n])
  OBVIOUS
<1>3. m < n \/ n < m
  BY <1>1, <1>2
<1>4. ~Repeated(servers[m], servers[n]) \/ ~Repeated(servers[n], servers[m])
  BY <1>1, <1>3 DEF ReadInv, Distinct
<1>5. QED
  BY <1>4 DEF Repeated, Address

\* The configuration the program goes on with is as the rest of it takes it to
\* be, whatever the file says.
THEOREM ConfiguredHolds == Spec => []Configured
<1>1. ReadInv => Configured
  <2> SUFFICES ASSUME ReadInv, pc \in Built PROVE Configured!2
    BY DEF Configured, Built
  <2>1. \A m, n \in DOMAIN servers : m # n => Address(servers[m]) # Address(servers[n])
    BY Addresses
  <2>2. ASSUME NEW k \in DOMAIN servers
        PROVE  LET ls == servers[k].locations IN
                   /\ servers[k].port \in 0..MaxPort
                   /\ \A n \in DOMAIN ls : IsLocation(ls[n])
                   /\ \A m, n \in DOMAIN ls : m # n => ls[m].path # ls[n].path
    <3> DEFINE ls == servers[k].locations
    <3>1. k \in 1..Len(servers)
      BY SeqDomain DEF ReadInv
    <3>2. GoodServer(servers[k]) /\ validateLocation(servers[k])
      BY <3>1 DEF ReadInv, Distinct
    <3>3. /\ servers[k].port \in 0..MaxPort
          /\ DOMAIN ls = 1..Len(ls) /\ Len(ls) \in Nat
          /\ \A n \in 1..Len(ls) : IsLocation(ls[n])
      BY <3>2, SeqDomain DEF GoodServer
    <3>4. Len(ls) > 1 => \A m \in DOMAIN ls : \A n \in m + 1..Len(ls) :
                             ls[m].path # ls[n].path
      BY <3>2 DEF validateLocation
    <3> HIDE DEF ls
    <3>5. ASSUME NEW m \in 1..Len(ls), NEW n \in 1..Len(ls), m # n
          PROVE  ls[m].path # ls[n].path
      <4>1. Len(ls) > 1
        BY <3>3, <3>5
      <4>2. CASE m < n
        <5>1. n \in m + 1..Len(ls)
          BY <3>3, <4>2
        <5>2. QED
          BY <3>3, <3>4, <4>1, <5>1
      <4>3. CASE n < m
        <5>1. m \in n + 1..Len(ls)
          BY <3>3, <4>3
        <5>2. QED
          BY <3>3, <3>4, <4>1, <5>1
      <4>4. QED
        BY <3>5, <4>2, <4>3
    <3>6. QED
      BY <3>3, <3>5 DEF ls
  <2>3. QED
    BY <2>1, <2>2
<1>2. QED
  BY <1>1, ReadInvInit, ReadInvNext, PTL DEF Spec

\* A socket that cannot be bound: another process, another machine's address,
\* or a server that has all addresses beside one that has one.
LEMMA ListenFails ==
    ASSUME ReadInv, Listen, pc' = "exited"
    PROVE  ExitsOnlyForAddress'
<1> DEFINE k == Len(listening) + 1
           a == Address(servers[k])
<1>1. /\ pc = "listen" /\ Len(listening) < Len(servers) /\ ~Bindable(a)
      /\ UNCHANGED <<servers, taken>>
  BY DEF Listen, readVars
<1>2. /\ DOMAIN servers = 1..Len(servers) /\ Len(servers) \in Nat
      /\ DOMAIN listening = 1..Len(listening) /\ Len(listening) \in Nat
  BY SeqDomain DEF ReadInv
<1>3. k \in DOMAIN servers
  BY <1>1, <1>2
<1>4. \/ a[1] \notin LocalHosts
      \/ \E b \in taken : Conflict(a, b)
      \/ \E m \in DOMAIN listening : Conflict(a, listening[m])
  BY <1>1 DEF Bindable, ToSet
<1>5. ASSUME NEW m \in DOMAIN listening, Conflict(a, listening[m])
      PROVE  m \in DOMAIN servers /\ Conflict(a, Address(servers[m])) /\ a[1] # servers[m].host
  <2>1. m \in DOMAIN servers /\ m # k
    BY <1>1, <1>2
  <2>2. listening[m] = Address(servers[m])
    BY <1>2 DEF ReadInv
  <2>3. a # Address(servers[m])
    BY <1>1, <1>3, <2>1, Addresses DEF Built
  <2>4. a[2] = Address(servers[m])[2]
    BY <1>5, <2>2 DEF Conflict
  <2>5. a[1] # Address(servers[m])[1]
    BY <2>3, <2>4 DEF Address
  <2>6. QED
    BY <1>5, <2>1, <2>2, <2>5 DEF Address
<1> HIDE DEF k
<1>6. \E n \in DOMAIN servers :
          LET b == Address(servers[n]) IN
              \/ b[1] \notin LocalHosts
              \/ \E c \in taken : Conflict(b, c)
              \/ \E m \in DOMAIN servers :
                     Conflict(b, Address(servers[m])) /\ b[1] # servers[m].host
  BY <1>3, <1>4, <1>5
<1>7. QED
  BY <1>1, <1>6 DEF ExitsOnlyForAddress, Address, Conflict

LEMMA ExitsNext ==
    ASSUME ReadInv, ExitsOnlyForAddress, [Next]_vars
    PROVE  ExitsOnlyForAddress'
<1>1. CASE UNCHANGED vars
  BY <1>1 DEF vars, readVars, socketVars, ExitsOnlyForAddress, Address, Conflict
<1>2. CASE Listen
  <2>1. pc' = "exited" => ExitsOnlyForAddress'
    BY <1>2, ListenFails
  <2>2. QED
    BY <2>1 DEF ExitsOnlyForAddress
<1>3. CASE Next /\ ~Listen
  <2>1. pc' # "exited"
    <3>1. SplitNext => pc' # "exited"
      BY DEF SplitNext, takeServersConfig, searchServer, searchStartBracket,
             searchEndBracket, PushServerConf, MissingBracket, SplitEnds
    <3>2. ReadNext => pc' # "exited"
      BY ReadKinds DEF GivesUp, SetsServer, SetsPort, SetsLocation, SetsMethods,
                       OpensLocation, CreateServer, PushLocation, PushServer,
                       validateServers, Ends
    <3>3. startListen => pc' # "exited"
      BY DEF startListen
    <3>4. QED
      BY <1>3, <3>1, <3>2, <3>3 DEF Next
  <2>2. QED
    BY <2>1 DEF ExitsOnlyForAddress
<1>4. QED
  BY <1>1, <1>2, <1>3

\* A configuration that was read is served, unless an address is not to be had.
THEOREM ExitsOnlyForAddressHolds == Spec => []ExitsOnlyForAddress
<1>1. Init => ExitsOnlyForAddress
  BY DEF Init, SplitInit, ExitsOnlyForAddress
<1>2. ReadInv /\ ExitsOnlyForAddress /\ [Next]_vars => ExitsOnlyForAddress'
  BY ExitsNext
<1>3. QED
  BY <1>1, <1>2, ReadInvInit, ReadInvNext, PTL DEF Spec

-----------------------------------------------------------------------------
(* Numbers in order.                                                       *)

\* Every set of natural numbers has a least one.
LEMMA Least ==
    ASSUME NEW S \in SUBSET Nat, S # {}
    PROVE  \E x \in S : \A y \in S : x <= y
<1>1. PICK x \in S : \A y \in S : <<y, x>> \notin OpToRel(<, Nat)
  BY NatLessThanWellFounded, WFMin
<1>2. \A y \in S : <<y, x>> \in OpToRel(<, Nat) <=> y < x
  BY Zenon DEF OpToRel
<1>3. ASSUME NEW y \in S PROVE x <= y
  <2>1. ~(y < x)
    BY <1>1, <1>2, Zenon
  <2>2. x \in Nat /\ y \in Nat
    OBVIOUS
  <2>3. QED
    BY ONLY <2>1, <2>2, SMT
<1>4. QED
  BY <1>3

UpToIn(S, k) == {j \in S : j <= k}
Rank(S, k)   == Cardinality(UpToIn(S, k))

\* The rank of an element lies between one and the size of the set, and tells
\* it from all others.
LEMMA Ranks ==
    ASSUME NEW S \in SUBSET Nat, IsFiniteSet(S)
    PROVE  /\ \A k \in S : Rank(S, k) \in 1..Cardinality(S)
           /\ \A k, m \in S : Rank(S, k) = Rank(S, m) => k = m
<1>1. \A k : UpToIn(S, k) \in SUBSET S
  BY DEF UpToIn
<1>2. \A k : /\ IsFiniteSet(UpToIn(S, k)) /\ Rank(S, k) <= Cardinality(S)
             /\ Rank(S, k) \in Nat
  BY <1>1, FS_Subset, FS_CardinalityType DEF Rank
<1>3. ASSUME NEW k \in S PROVE Rank(S, k) \in 1..Cardinality(S)
  <2>1. k \in UpToIn(S, k)
    BY DEF UpToIn
  <2>2. Rank(S, k) # 0
    BY <1>2, <2>1, FS_EmptySet DEF Rank
  <2>3. Rank(S, k) \in Nat /\ Rank(S, k) <= Cardinality(S) /\ Cardinality(S) \in Nat
    BY <1>2, FS_CardinalityType
  <2>4. QED
    BY ONLY <2>2, <2>3, SMT
<1>4. ASSUME NEW k \in S, NEW m \in S, k < m PROVE Rank(S, k) # Rank(S, m)
  <2>1. \A j \in S : j <= k => j <= m
    <3>1. \A j \in S : j \in Nat
      OBVIOUS
    <3>2. k \in Nat /\ m \in Nat
      OBVIOUS
    <3>3. QED
      BY ONLY <1>4, <3>1, <3>2, SMT
  <2>4. m <= m /\ ~(m <= k)
    BY <1>4
  <2>5. UpToIn(S, k) \in SUBSET UpToIn(S, m) /\ m \in UpToIn(S, m) /\ m \notin UpToIn(S, k)
    BY <2>1, <2>4, Zenon DEF UpToIn
  <2>2. UpToIn(S, m) # UpToIn(S, k)
    BY <2>5, Zenon
  <2>3. QED
    BY <1>2, <2>5, <2>2, FS_Subset DEF Rank
<1>5. ASSUME NEW k \in S, NEW m \in S, Rank(S, k) = Rank(S, m) PROVE k = m
  <2>1. k \in Nat /\ m \in Nat /\ ~(k < m) /\ ~(m < k)
    BY <1>4, <1>5
  <2>2. QED
    BY <2>1
<1>6. QED
  BY <1>3, <1>5

\* InOrder lists the elements by their rank.
LEMMA InOrderHasRank ==
    ASSUME NEW S \in SUBSET Nat, IsFiniteSet(S), NEW n \in 1..Cardinality(S)
    PROVE  InOrder(S)[n] \in S /\ Rank(S, InOrder(S)[n]) = n
<1> DEFINE N == Cardinality(S)
           r == [k \in S |-> Rank(S, k)]
<1>1. N \in Nat /\ IsFiniteSet(1..N) /\ Cardinality(1..N) = N
  <2>1. N \in Nat
    BY FS_CardinalityType
  <2> HIDE DEF N
  <2>2. 1 \in Int /\ N \in Int
    BY <2>1
  <2>3. IsFiniteSet(1..N) /\ Cardinality(1..N) = IF 1 > N THEN 0 ELSE N - 1 + 1
    BY <2>2, FS_Interval
  <2>4. (IF 1 > N THEN 0 ELSE N - 1 + 1) = N
    BY <2>1
  <2>5. QED
    BY <2>1, <2>3, <2>4
<1>2. r \in Injection(S, 1..N)
  BY Ranks, Zenon DEF Injection, IsInjective
<1>3. r \in Surjection(S, 1..N)
  BY <1>1, <1>2, FS_Injection
<1>4. \E k \in S : r[k] = n
  BY <1>3 DEF Surjection
<1>5. \E k \in S : Cardinality({j \in S : j <= k}) = n
  BY <1>4 DEF Rank, UpToIn
<1>6. InOrder(S)[n] = CHOOSE k \in S : Cardinality({j \in S : j <= k}) = n
  BY DEF InOrder
<1>7. QED
  BY <1>5, <1>6 DEF Rank, UpToIn

\* A number above all others comes last.
LEMMA InOrderAppend ==
    ASSUME NEW S \in SUBSET Nat, IsFiniteSet(S), NEW b \in Nat, \A j \in S : j < b
    PROVE  /\ Cardinality(S) \in Nat /\ Cardinality(S \cup {b}) = Cardinality(S) + 1
           /\ \A n \in 1..Cardinality(S) : InOrder(S \cup {b})[n] = InOrder(S)[n]
           /\ InOrder(S \cup {b})[Cardinality(S) + 1] = b
<1> DEFINE T == S \cup {b}
           N == Cardinality(S)
<1>1. /\ T \in SUBSET Nat /\ IsFiniteSet(T) /\ N \in Nat
      /\ b \notin S /\ Cardinality(T) = N + 1
  <2>1. b \notin S
    OBVIOUS
  <2>2. QED
    BY <2>1, FS_AddElement, FS_CardinalityType
<1>2. ASSUME NEW k \in S PROVE UpToIn(T, k) = UpToIn(S, k)
  <2>1. ~(b <= k)
    OBVIOUS
  <2>2. QED
    BY <2>1, Zenon DEF UpToIn
<1>3. UpToIn(T, b) = T
  <2>1. \A j \in T : j <= b
    OBVIOUS
  <2>2. QED
    BY <2>1, Zenon DEF UpToIn
<1>4. Rank(T, b) = N + 1 /\ \A k \in S : Rank(T, k) = Rank(S, k)
  BY <1>1, <1>2, <1>3 DEF Rank
<1> HIDE DEF T, N
<1>5. /\ \A k, m \in S : Rank(S, k) = Rank(S, m) => k = m
      /\ \A k, m \in T : Rank(T, k) = Rank(T, m) => k = m
  BY <1>1, Ranks
<1>6. ASSUME NEW n \in 1..N PROVE InOrder(T)[n] = InOrder(S)[n]
  <2>1. n \in 1..Cardinality(T) /\ n # N + 1
    BY <1>1, <1>6
  <2>2. InOrder(T)[n] \in T /\ Rank(T, InOrder(T)[n]) = n
    BY <1>1, <2>1, InOrderHasRank
  <2>3. InOrder(S)[n] \in S /\ Rank(S, InOrder(S)[n]) = n
    BY <1>6, InOrderHasRank DEF N
  <2>4. InOrder(T)[n] \in S
    BY <1>4, <2>1, <2>2 DEF T
  <2>5. QED
    BY <1>4, <2>2, <2>3, <2>4, <1>5
<1>7. InOrder(T)[N + 1] = b
  <2>1. N + 1 \in 1..Cardinality(T)
    BY <1>1
  <2>2. InOrder(T)[N + 1] \in T /\ Rank(T, InOrder(T)[N + 1]) = N + 1
    BY <1>1, <2>1, InOrderHasRank
  <2>3. b \in T
    BY DEF T
  <2>4. QED
    BY <1>1, <1>4, <2>2, <2>3, <1>5
<1>8. QED
  BY <1>1, <1>6, <1>7 DEF T, N

-----------------------------------------------------------------------------
(* Depth along a text.                                                     *)

\* A token counts for itself.
LEMMA CountStep ==
    ASSUME NEW s, NEW k \in Nat \ {0}, NEW x
    PROVE  Count(s, k, x) = Count(s, k - 1, x) + IF s[k] = x THEN 1 ELSE 0
<1> DEFINE S == {j \in 1..k - 1 : s[j] = x}
<1>1. IsFiniteSet(S) /\ k \notin S
  <2>1. IsFiniteSet(1..k - 1)
    BY FS_Interval
  <2>2. QED
    BY <2>1, FS_Subset
<1>2. {j \in 1..k : s[j] = x} = IF s[k] = x THEN S \cup {k} ELSE S
  <2>1. 1..k = 1..k - 1 \cup {k}
    OBVIOUS
  <2>2. QED
    BY <2>1
<1>3. Cardinality(S) \in Nat /\ Cardinality(S \cup {k}) = Cardinality(S) + 1
  BY <1>1, FS_AddElement, FS_CardinalityType
<1> HIDE DEF S
<1>4. Count(s, k, x) = Cardinality(IF s[k] = x THEN S \cup {k} ELSE S)
  BY <1>2 DEF Count
<1>5. Count(s, k - 1, x) = Cardinality(S)
  BY DEF Count, S
<1>6. QED
  BY <1>3, <1>4, <1>5

\* Nothing is open before the first token, and no more is open than there are
\* tokens.
LEMMA DepthStep ==
    ASSUME NEW s
    PROVE  /\ Depth(s, 0) = 0
           /\ \A k \in Nat : Depth(s, k) \in Int /\ Depth(s, k) <= k
           /\ \A k \in Nat \ {0} : Depth(s, k) = Depth(s, k - 1) + Weight(s[k])
<1>1. \A x : Count(s, 0, x) = 0
  <2>1. \A x : {j \in 1..0 : s[j] = x} = {}
    OBVIOUS
  <2>2. QED
    BY <2>1, FS_EmptySet DEF Count
<1>2. ASSUME NEW k \in Nat PROVE Depth(s, k) \in Int /\ Depth(s, k) <= k
  <2>1. Count(s, k, LBrace) \in Nat /\ Count(s, k, RBrace) \in Nat
    BY CountType
  <2>2. Count(s, k, LBrace) <= k
    <3>1. IsFiniteSet(1..k) /\ Cardinality(1..k) = IF 1 > k THEN 0 ELSE k - 1 + 1
      BY FS_Interval
    <3>2. {j \in 1..k : s[j] = LBrace} \in SUBSET (1..k)
      OBVIOUS
    <3>3. Count(s, k, LBrace) <= Cardinality(1..k)
      BY <3>1, <3>2, FS_Subset DEF Count
    <3>4. (IF 1 > k THEN 0 ELSE k - 1 + 1) = k
      OBVIOUS
    <3>5. QED
      BY <3>1, <3>3, <3>4
  <2>3. QED
    BY <2>1, <2>2 DEF Depth
<1>3. ASSUME NEW k \in Nat \ {0} PROVE Depth(s, k) = Depth(s, k - 1) + Weight(s[k])
  <2>1. k - 1 \in Nat
    OBVIOUS
  <2>2. Count(s, k - 1, LBrace) \in Nat /\ Count(s, k - 1, RBrace) \in Nat
    BY <2>1, CountType
  <2>3. LBrace # RBrace
    BY DEF LBrace, RBrace
  <2>4. QED
    BY <2>2, <2>3, CountStep DEF Depth, Weight
<1>4. QED
  BY <1>1, <1>2, <1>3 DEF Depth

\* Where no brace is, the depth stays.
LEMMA DepthStays ==
    ASSUME NEW s, NEW a \in Nat, NEW b \in Nat,
           \A j \in a + 1..b : s[j] \notin {LBrace, RBrace}
    PROVE  \A j \in a..b : Depth(s, j) = Depth(s, a)
<1>1. ASSUME NEW x \in {LBrace, RBrace}, NEW j \in a..b PROVE Count(s, j, x) = Count(s, a, x)
  <2>1. {n \in 1..j : s[n] = x} = {n \in 1..a : s[n] = x}
    OBVIOUS
  <2>2. QED
    BY <2>1 DEF Count
<1>2. QED
  BY <1>1 DEF Depth

\* Blanks are skipped up to the first token that is none, or to the end.
LEMMA SkipBlanksFirst ==
    ASSUME text \in Seq(Tokens), NEW k \in 1..(Len(text) + 1)
    PROVE  /\ SkipBlanks(k) \in k..(Len(text) + 1)
           /\ \A j \in k..SkipBlanks(k) - 1 : text[j] = Blank
           /\ SkipBlanks(k) <= Len(text) => text[SkipBlanks(k)] # Blank
<1> DEFINE n == Len(text)
           Stops == {j \in k..n + 1 : j = n + 1 \/ text[j] # Blank}
<1>1. n \in Nat /\ k \in Nat /\ k <= n + 1
  OBVIOUS
<1> HIDE DEF n
<1>2. Stops \in SUBSET Nat /\ n + 1 \in Stops
  BY <1>1
<1>3. PICK v \in Stops : \A j \in Stops : v <= j
  BY <1>2, Least
<1>4. v \in k..n + 1 /\ \A j \in k..v - 1 : text[j] = Blank
  BY <1>1, <1>3
<1>5. {j \in k..n : \A m \in k..j : text[m] = Blank} = k..v - 1
  BY <1>1, <1>3, <1>4
<1>6. Cardinality(k..v - 1) = v - k
  <2>1. k \in Int /\ v - 1 \in Int
    BY <1>1, <1>4
  <2>2. Cardinality(k..v - 1) = IF k > v - 1 THEN 0 ELSE v - 1 - k + 1
    BY <2>1, FS_Interval
  <2>3. (IF k > v - 1 THEN 0 ELSE v - 1 - k + 1) = v - k
    BY <1>1, <1>4
  <2>4. QED
    BY <2>2, <2>3
<1>7. SkipBlanks(k) = v
  <2>1. SkipBlanks(k) = k + Cardinality({j \in k..n : \A m \in k..j : text[m] = Blank})
    BY DEF SkipBlanks, n
  <2>2. SkipBlanks(k) = k + (v - k)
    BY <2>1, <1>5, <1>6
  <2>3. v \in Nat
    BY <1>2
  <2>4. QED
    BY <1>1, <2>2, <2>3
<1>8. QED
  BY <1>1, <1>3, <1>4, <1>7 DEF n

-----------------------------------------------------------------------------
(* The grammar, up to a position.                                          *)

\* What may stand between two blocks.
Fill == {Blank, "server"}

ServersBefore(s, k) == {j \in Before(s, k) : s[j] = "server"}

\* Position p is the first, or behind a block.
Behind(s, p) == p = 1 \/ s[p - 1] = RBrace

\* The text before position p is closed and as the grammar has it.
Clean(s, p) ==
    /\ p \in 1..Len(s) + 1
    /\ Depth(s, p - 1) = 0 /\ \A k \in 1..p - 1 : Depth(s, k) >= 0
    /\ \A k \in Outside(s) : k < p => s[k] \in Fill
    /\ \A k \in Tops(s) : k < p => Cardinality(ServersBefore(s, k)) = 1

\* The blocks before position p.
TopsTo(s, p) == {k \in Tops(s) : k < p}
Pieces(s, p) ==
    LET tops == InOrder(TopsTo(s, p))
    IN  [n \in 1..Cardinality(TopsTo(s, p)) |-> SubSeq(s, tops[n], CloseOf(s, tops[n]))]

\* What is between two blocks is outside of both.
LEMMA RunIsOutside ==
    ASSUME NEW s \in Seq(Tokens), NEW p \in 1..Len(s), NEW q \in p..Len(s) + 1,
           Depth(s, p - 1) = 0, \A j \in p..q - 1 : s[j] \in Fill
    PROVE  /\ \A j \in p - 1..q - 1 : Depth(s, j) = 0
           /\ \A j \in p..q - 1 : j \in Outside(s)
<1>1. /\ p - 1 \in Nat /\ q - 1 \in Nat /\ Len(s) \in Nat /\ DOMAIN s = 1..Len(s)
  OBVIOUS
<1>2. \A j \in p..q - 1 : s[j] \notin {LBrace, RBrace}
  BY DEF Fill, Blank, LBrace, RBrace
<1>3. \A j \in (p - 1) + 1..q - 1 : s[j] \notin {LBrace, RBrace}
  BY <1>2
<1>4. \A j \in p - 1..q - 1 : Depth(s, j) = Depth(s, p - 1)
  BY <1>1, <1>3, DepthStays
<1>5. \A j \in p - 1..q - 1 : Depth(s, j) = 0
  BY <1>4
<1>6. ASSUME NEW j \in p..q - 1 PROVE j \in Outside(s)
  <2>1. j \in DOMAIN s /\ j \in p - 1..q - 1
    BY <1>1
  <2>2. Depth(s, j) = 0 /\ s[j] # RBrace
    BY <1>2, <1>5, <2>1
  <2>3. QED
    BY <2>1, <2>2 DEF Outside
<1>7. QED
  BY <1>5, <1>6

LEMMA RunIsBefore ==
    ASSUME NEW s \in Seq(Tokens), NEW p \in 1..Len(s), NEW q \in p..Len(s),
           Behind(s, p), Depth(s, p - 1) = 0, \A j \in p..q - 1 : s[j] \in Fill
    PROVE  Before(s, q) = p..q - 1
<1>1. p \in Nat /\ q \in Nat /\ q \in p..Len(s) + 1 /\ Len(s) \in Nat /\ DOMAIN s = 1..Len(s)
  OBVIOUS
<1>2. \A j \in p..q - 1 : j \in Outside(s)
  BY <1>1, RunIsOutside
<1>3. ASSUME NEW j \in p..q - 1 PROVE j \in Before(s, q)
  <2>1. j < q /\ \A m \in j..q - 1 : m \in p..q - 1
    BY <1>1
  <2>2. QED
    BY <1>2, <2>1 DEF Before
<1>4. ASSUME NEW j \in Before(s, q) PROVE j \in p..q - 1
  <2>1. j \in 1..Len(s) /\ j < q /\ \A m \in j..q - 1 : m \in Outside(s)
    BY <1>1 DEF Before, Outside
  <2>2. ASSUME j < p PROVE FALSE
    <3>1. s[p - 1] = RBrace /\ p - 1 \in j..q - 1
      BY <1>1, <2>1, <2>2 DEF Behind
    <3>2. p - 1 \in Outside(s)
      BY <2>1, <3>1
    <3>3. QED
      BY <3>1, <3>2 DEF Outside
  <2>3. QED
    BY <1>1, <2>1, <2>2
<1>5. QED
  BY <1>3, <1>4

\* Behind a block, words other than one "server", and then anything but the
\* brace that opens, are not of the grammar.
LEMMA Rejected ==
    ASSUME NEW s \in Seq(Tokens), NEW p \in 1..Len(s), NEW q \in p..Len(s) + 1,
           Behind(s, p), Depth(s, p - 1) = 0,
           \A j \in p..q - 1 : s[j] \in Fill,
           q <= Len(s) => s[q] \notin Fill,
           \/ q = Len(s) + 1
           \/ s[q] # LBrace
           \/ Cardinality({j \in p..q - 1 : s[j] = "server"}) # 1
    PROVE  ~IsConfig(s)
<1> SUFFICES ASSUME IsConfig(s) PROVE FALSE
  OBVIOUS
<1>1. p \in Nat /\ q \in Nat /\ Len(s) \in Nat /\ DOMAIN s = 1..Len(s)
  OBVIOUS
<1>2. CASE q = Len(s) + 1
  <2>1. Len(s) \in p..q - 1
    BY <1>1, <1>2
  <2>2. s[Len(s)] \in Fill
    BY <2>1
  <2>3. QED
    BY <2>2 DEF IsConfig, Fill, Blank, RBrace
<1>3. CASE q <= Len(s)
  <2>1. q \in p..Len(s) /\ q \in DOMAIN s /\ q \in Nat \ {0} /\ q - 1 \in p - 1..q - 1
    BY <1>1, <1>3
  <2>2. Depth(s, q - 1) = 0
    BY <2>1, RunIsOutside
  <2>3. Depth(s, q) = Weight(s[q])
    <3>1. Depth(s, q) = Depth(s, q - 1) + Weight(s[q])
      BY <2>1, DepthStep
    <3>2. Weight(s[q]) \in Int
      BY DEF Weight
    <3>3. QED
      BY <2>2, <3>1, <3>2
  <2>4. CASE s[q] = RBrace
    <3>1. Depth(s, q) = -1
      BY <2>3, <2>4 DEF Weight, LBrace, RBrace
    <3>2. QED
      BY <2>1, <3>1 DEF IsConfig
  <2>5. CASE s[q] = LBrace
    <3>1. q \in Tops(s)
      BY <2>1, <2>3, <2>5 DEF Tops, Weight
    <3>2. Cardinality({j \in Before(s, q) : s[j] = "server"}) = 1
      BY <3>1 DEF IsConfig
    <3>3. Before(s, q) = p..q - 1
      BY <2>1, RunIsBefore
    <3>4. q # Len(s) + 1
      BY <1>1, <1>3
    <3>5. QED
      BY <2>5, <3>2, <3>3, <3>4, Zenon
  <2>6. CASE s[q] \notin {LBrace, RBrace}
    <3>1. q \in Outside(s)
      BY <2>1, <2>3, <2>6 DEF Outside, Weight
    <3>2. QED
      BY <1>3, <3>1 DEF IsConfig, Fill
  <2>7. QED
    BY <2>4, <2>5, <2>6
<1>4. QED
  BY <1>1, <1>2, <1>3

\* Behind a block, one "server" and a brace that opens.
LEMMA OpensBlock ==
    ASSUME NEW s \in Seq(Tokens), NEW p \in 1..Len(s), NEW q \in p..Len(s),
           Behind(s, p), Clean(s, p),
           \A j \in p..q - 1 : s[j] \in Fill,
           Cardinality({j \in p..q - 1 : s[j] = "server"}) = 1, s[q] = LBrace
    PROVE  /\ Clean(s, q) /\ q \in Tops(s) /\ Cardinality(ServersBefore(s, q)) = 1
           /\ TopsTo(s, q) = TopsTo(s, p)
<1>1. /\ p \in Nat /\ q \in Nat \ {0} /\ q \in p..Len(s) + 1 /\ Len(s) \in Nat
      /\ DOMAIN s = 1..Len(s)
  OBVIOUS
<1>2. Depth(s, p - 1) = 0
  BY DEF Clean
<1>3. /\ \A j \in p - 1..q - 1 : Depth(s, j) = 0
      /\ \A j \in p..q - 1 : j \in Outside(s)
  BY <1>1, <1>2, RunIsOutside
<1>4. Before(s, q) = p..q - 1
  BY <1>2, RunIsBefore
<1>5. Cardinality(ServersBefore(s, q)) = 1
  BY <1>4 DEF ServersBefore
<1>6. q \in Tops(s)
  <2>1. Depth(s, q) = Depth(s, q - 1) + Weight(s[q])
    BY <1>1, DepthStep
  <2>2. Depth(s, q - 1) = 0 /\ Weight(s[q]) = 1
    BY <1>1, <1>3 DEF Weight
  <2>3. Depth(s, q) = 1 /\ q \in DOMAIN s
    BY <1>1, <2>1, <2>2
  <2>4. QED
    BY <2>3 DEF Tops
<1>7. ASSUME NEW k \in Tops(s), k < q PROVE k < p
  <2>1. k \in 1..Len(s) /\ Depth(s, k) = 1
    BY <1>1 DEF Tops
  <2>2. k \notin p - 1..q - 1
    BY <1>3, <2>1
  <2>3. QED
    BY <1>1, <1>7, <2>1, <2>2
<1>8. TopsTo(s, q) = TopsTo(s, p)
  <2>1. \A k \in Tops(s) : k \in Nat
    BY <1>1 DEF Tops
  <2>2. \A k \in Tops(s) : k < p => k < q
    BY <1>1, <2>1
  <2>3. QED
    BY <1>7, <2>2 DEF TopsTo
<1>9. Clean(s, q)
  <2>1. q \in 1..Len(s) + 1 /\ Depth(s, q - 1) = 0
    BY <1>1, <1>3
  <2>2. ASSUME NEW k \in 1..q - 1 PROVE Depth(s, k) >= 0
    <3>1. k \in 1..p - 1 \/ k \in p - 1..q - 1
      BY <1>1
    <3>2. QED
      BY <1>3, <3>1 DEF Clean
  <2>3. ASSUME NEW k \in Outside(s), k < q PROVE s[k] \in Fill
    <3>1. k \in 1..Len(s)
      BY <1>1 DEF Outside
    <3>2. k < p \/ k \in p..q - 1
      BY <1>1, <2>3, <3>1
    <3>3. QED
      BY <3>2 DEF Clean
  <2>4. \A k \in Tops(s) : k < q => Cardinality(ServersBefore(s, k)) = 1
    BY <1>7 DEF Clean
  <2>5. QED
    BY <2>1, <2>2, <2>3, <2>4 DEF Clean
<1>10. QED
  BY <1>5, <1>6, <1>8, <1>9

\* The brace that closes a block.
LEMMA ClosesBlock ==
    ASSUME NEW s \in Seq(Tokens), NEW a \in 1..Len(s), NEW b \in a + 1..Len(s),
           Clean(s, a), a \in Tops(s), Cardinality(ServersBefore(s, a)) = 1,
           s[b] = RBrace, Depth(s, b) = 0, \A k \in a..b - 1 : Depth(s, k) > 0
    PROVE  /\ Clean(s, b + 1) /\ CloseOf(s, a) = b
           /\ TopsTo(s, b + 1) = TopsTo(s, a) \cup {a}
<1>1. /\ a \in Nat /\ b \in Nat /\ a < b /\ b <= Len(s) /\ Len(s) \in Nat
      /\ DOMAIN s = 1..Len(s)
  OBVIOUS
<1>2. CloseOf(s, a) = b
  <2>1. /\ b \in a..Len(s) /\ Depth(s, b) = 0 /\ \A j \in a..b - 1 : Depth(s, j) > 0
    BY <1>1
  <2>2. ASSUME NEW m \in a..Len(s), Depth(s, m) = 0, \A j \in a..m - 1 : Depth(s, j) > 0
        PROVE  m = b
    <3>1. ~(m < b)
      <4>1. ASSUME m < b PROVE FALSE
        <5>1. m \in a..b - 1
          BY <1>1, <4>1
        <5>2. Depth(s, m) > 0
          BY <5>1
        <5>3. QED
          BY <2>2, <5>2
      <4>2. QED
        BY <4>1
    <3>2. ~(b < m)
      <4>1. ASSUME b < m PROVE FALSE
        <5>1. b \in a..m - 1
          BY <1>1, <4>1
        <5>2. QED
          BY <2>2, <5>1
      <4>2. QED
        BY <4>1
    <3>3. QED
      BY <1>1, <3>1, <3>2
  <2>3. QED
    BY <2>1, <2>2 DEF CloseOf
<1>3. ASSUME NEW k \in Tops(s), k < b + 1 PROVE k < a \/ k = a
  <2>1. k \in 1..Len(s) /\ s[k] = LBrace /\ Depth(s, k) = 1
    BY <1>1 DEF Tops
  <2>2. ASSUME k > a PROVE FALSE
    <3>1. k # b
      BY <2>1 DEF LBrace, RBrace
    <3>2. k - 1 \in a..b - 1 /\ k \in Nat \ {0} /\ k - 1 \in Nat
      BY <1>1, <1>3, <2>1, <2>2, <3>1
    <3>3. Depth(s, k) = Depth(s, k - 1) + Weight(s[k]) /\ Depth(s, k - 1) \in Int
      BY <3>2, DepthStep
    <3>4. Weight(s[k]) = 1
      BY <2>1 DEF Weight
    <3>5. Depth(s, k - 1) = 0
      BY <2>1, <3>3, <3>4
    <3>6. QED
      BY <3>2, <3>5
  <2>3. QED
    BY <1>1, <2>1, <2>2
<1>4. TopsTo(s, b + 1) = TopsTo(s, a) \cup {a}
  <2>1. \A k \in Tops(s) : k < b + 1 <=> (k < a \/ k = a)
    <3>1. \A k \in Tops(s) : k \in Nat
      BY <1>1 DEF Tops
    <3>2. QED
      BY <1>1, <1>3, <3>1
  <2>2. QED
    BY <2>1 DEF TopsTo
<1>5. Clean(s, b + 1)
  <2>1. b + 1 \in 1..Len(s) + 1 /\ (b + 1) - 1 = b
    BY <1>1
  <2>2. ASSUME NEW k \in 1..b PROVE Depth(s, k) >= 0
    <3>1. k \in 1..a - 1 \/ k \in a..b - 1 \/ k = b
      BY <1>1
    <3>2. k \in Nat /\ Depth(s, k) \in Int
      BY DepthStep
    <3>3. k \in a..b - 1 => Depth(s, k) > 0
      OBVIOUS
    <3>4. k \in 1..a - 1 => Depth(s, k) >= 0
      BY DEF Clean
    <3>5. QED
      BY <3>1, <3>2, <3>3, <3>4
  <2>3. ASSUME NEW k \in Outside(s), k < b + 1 PROVE s[k] \in Fill
    <3>1. k \in 1..Len(s) /\ Depth(s, k) = 0 /\ s[k] # RBrace
      BY <1>1 DEF Outside
    <3>2. k # b /\ k \notin a..b - 1
      BY <3>1
    <3>3. k < a
      BY <1>1, <2>3, <3>1, <3>2
    <3>4. QED
      BY <3>3 DEF Clean
  <2>4. ASSUME NEW k \in Tops(s), k < b + 1 PROVE Cardinality(ServersBefore(s, k)) = 1
    BY <1>3, <2>4 DEF Clean
  <2>5. QED
    BY <2>1, <2>2, <2>3, <2>4 DEF Clean
<1>6. QED
  BY <1>2, <1>4, <1>5

\* The pieces grow with the blocks.
LEMMA PiecesGrow ==
    ASSUME NEW s \in Seq(Tokens), NEW a \in Tops(s), NEW b \in Nat, b > a,
           CloseOf(s, a) = b, TopsTo(s, b + 1) = TopsTo(s, a) \cup {a}
    PROVE  Pieces(s, b + 1) = Append(Pieces(s, a), SubSeq(s, a, b))
<1> DEFINE S == TopsTo(s, a)
           N == Cardinality(S)
           P == Pieces(s, a)
           Piece(k) == SubSeq(s, k, CloseOf(s, k))
<1>1. /\ S \in SUBSET Nat /\ IsFiniteSet(S) /\ a \in Nat /\ \A j \in S : j < a
  <2>1. DOMAIN s = 1..Len(s) /\ Len(s) \in Nat
    OBVIOUS
  <2>2. S \in SUBSET (1..Len(s)) /\ a \in 1..Len(s)
    BY <2>1 DEF TopsTo, Tops
  <2>3. IsFiniteSet(1..Len(s))
    BY <2>1, FS_Interval
  <2>4. \A j \in S : j < a
    BY DEF TopsTo
  <2>5. QED
    BY <2>2, <2>3, <2>4, FS_Subset
<1>2. /\ N \in Nat /\ Cardinality(S \cup {a}) = N + 1
      /\ \A n \in 1..N : InOrder(S \cup {a})[n] = InOrder(S)[n]
      /\ InOrder(S \cup {a})[N + 1] = a
  BY <1>1, InOrderAppend
<1>3. P = [n \in 1..N |-> Piece(InOrder(S)[n])]
  BY DEF Pieces
<1>4. Pieces(s, b + 1) = [n \in 1..N + 1 |-> Piece(InOrder(S \cup {a})[n])]
  BY <1>2 DEF Pieces
<1>5. SubSeq(s, a, b) = Piece(a)
  OBVIOUS
<1> HIDE DEF S, N, P, Piece
<1>6. \A n \in 1..N + 1 : n \in 1..N \/ n = N + 1
  BY <1>2
<1>7. Pieces(s, b + 1) = [n \in 1..N + 1 |-> IF n \in 1..N THEN P[n] ELSE Piece(a)]
  BY <1>2, <1>3, <1>4, <1>6
<1>8. IsSeq(P) /\ Len(P) = N
  <2> DEFINE R == {P[n] : n \in 1..N}
  <2>1. P \in [1..N -> R]
    BY <1>3
  <2>2. P \in Seq(R) /\ Len(P) = N
    BY <1>2, <2>1
  <2>3. QED
    BY <2>2 DEF IsSeq
<1>9. Append(P, Piece(a)) = [n \in 1..N + 1 |-> IF n \in 1..N THEN P[n] ELSE Piece(a)]
  <2> DEFINE R == {P[n] : n \in 1..N} \cup {Piece(a)}
  <2>1. P \in Seq(R) /\ Piece(a) \in R /\ Len(P) = N
    BY <1>3, <1>8 DEF IsSeq
  <2> DEFINE A == Append(P, Piece(a))
  <2>2. /\ A \in Seq(R) /\ Len(A) = N + 1
        /\ \A n \in 1..N : A[n] = P[n]
        /\ A[N + 1] = Piece(a)
    BY <1>2, <2>1
  <2> HIDE DEF A
  <2>3. A \in [1..N + 1 -> R]
    BY <2>2, LenProperties
  <2>4. \A n \in 1..N + 1 : A[n] = IF n \in 1..N THEN P[n] ELSE Piece(a)
    BY <1>6, <2>2
  <2>5. A = [n \in 1..N + 1 |-> IF n \in 1..N THEN P[n] ELSE Piece(a)]
    BY <2>3, <2>4
  <2>6. QED
    BY <2>5 DEF A
<1>10. QED
  BY <1>5, <1>7, <1>9 DEF P

\* Reading goes on, or ends one way or another; the text was cut before.
LEMMA ReadGoesOn ==
    ReadNext \/ Listen \/ startListen =>
        /\ pc \in Reading \cup {"listen"}
        /\ pc' \in Reading \cup {"listen", "refused", "undefined", "exited", "serving"}
<1>1. GivesUp => pc' \in Reading \cup {"listen", "refused", "undefined", "exited", "serving"}
  BY DEF GivesUp
<1>2. SetsServer \/ SetsPort \/ SetsLocation \/ SetsMethods \/ OpensLocation => pc' \in Reading
  BY DEF SetsServer, SetsPort, SetsLocation, SetsMethods, OpensLocation, Reading
<1>3. CreateServer \/ PushLocation \/ PushServer \/ validateServers
         => pc' \in Reading \cup {"listen", "refused"}
  BY DEF CreateServer, PushLocation, PushServer, validateServers, Ends, Reading
<1>4. Listen \/ startListen => pc = "listen" /\ pc' \in {"listen", "exited", "serving"}
  BY DEF Listen, startListen
<1>5. QED
  BY <1>1, <1>2, <1>3, <1>4, ReadKinds, ReadsWhen

-----------------------------------------------------------------------------
(* The cutting is that of the grammar.                                     *)

\* Between two blocks, before and behind the word server.
BetweenBlocks ==
    /\ text # <<>> /\ Clean(text, start) /\ Behind(text, start)
    /\ serversConf = Pieces(text, start)

BehindServer ==
    \E p \in 1..Len(text) :
        /\ Clean(text, p) /\ Behind(text, p) /\ serversConf = Pieces(text, p)
        /\ start \in p + 1..Len(text) + 1 /\ text[start - 1] = "server"
        /\ \A j \in p..start - 2 : text[j] = Blank

\* The block from start is open, as deep as pair says.
OpenBlock ==
    /\ start \in 1..Len(text) /\ end \in start + 1..Len(text) + 1 /\ pair \in Nat
    /\ start \in Tops(text) /\ Cardinality(ServersBefore(text, start)) = 1
    /\ Clean(text, start) /\ serversConf = Pieces(text, start)
    /\ Depth(text, end - 1) = pair + 1
    /\ \A k \in start..end - 1 : Depth(text, k) > 0

AllCut == IsConfig(text) /\ serversConf = Blocks(text)

CutInv ==
    /\ pc = "read" => start = 1 /\ serversConf = <<>>
    /\ pc = "split" => BetweenBlocks
    /\ pc = "bracket" => BehindServer
    /\ pc = "braces" => OpenBlock
    /\ pc = "malformed" => ~IsConfig(text)
    /\ pc \notin Scanning \cup {"nofile", "malformed"} => AllCut

\* At the start nothing is cut.
LEMMA NothingCut ==
    ASSUME text \in Seq(Tokens), text # <<>>, start = 1, serversConf = <<>>
    PROVE  BetweenBlocks
<1>1. Len(text) \in Nat
  OBVIOUS
<1>2. Clean(text, 1)
  <2>1. DOMAIN text = 1..Len(text)
    OBVIOUS
  <2>2. \A k \in Outside(text) \cup Tops(text) : ~(k < 1)
    BY <2>1 DEF Outside, Tops
  <2>3. 1 \in 1..Len(text) + 1 /\ 1 - 1 = 0 /\ \A k \in 1..0 : FALSE
    BY <1>1
  <2>4. Depth(text, 0) = 0
    BY DepthStep
  <2>5. QED
    BY <2>2, <2>3, <2>4 DEF Clean
<1>3. Pieces(text, 1) = <<>>
  <2>1. TopsTo(text, 1) = {}
    <3>1. DOMAIN text = 1..Len(text)
      OBVIOUS
    <3>2. QED
      BY <3>1 DEF TopsTo, Tops
  <2>2. Cardinality(TopsTo(text, 1)) = 0
    BY <2>1, FS_EmptySet
  <2> DEFINE P == Pieces(text, 1)
  <2>3. DOMAIN P = 1..0 /\ P = [n \in 1..0 |-> P[n]]
    BY <2>2 DEF Pieces
  <2> HIDE DEF P
  <2>4. P \in [1..0 -> {}] /\ 0 \in Nat
    BY <2>3
  <2>5. P \in Seq({}) /\ Len(P) = 0
    BY <2>4
  <2>6. P = <<>>
    BY <2>5, EmptySeq
  <2>7. QED
    BY <2>6 DEF P
<1>4. QED
  BY <1>2, <1>3 DEF BetweenBlocks, Behind

LEMMA CutServer ==
    ASSUME text \in Seq(Tokens), BetweenBlocks, searchServer
    PROVE  \/ pc' = "bracket" /\ BehindServer'
           \/ pc' = "malformed" /\ ~IsConfig(text')
<1> DEFINE v == SkipBlanks(start)
<1>1. /\ start \in 1..Len(text) /\ Len(text) \in Nat
      /\ Behind(text, start) /\ Clean(text, start) /\ Depth(text, start - 1) = 0
      /\ UNCHANGED <<text, serversConf>> /\ serversConf = Pieces(text, start)
  BY DEF BetweenBlocks, searchServer, Clean
<1>2. /\ v \in start..(Len(text) + 1)
      /\ \A j \in start..v - 1 : text[j] = Blank
      /\ v <= Len(text) => text[v] # Blank
  BY <1>1, SkipBlanksFirst
<1>3. \/ At(v) = "server" /\ pc' = "bracket" /\ start' = v + 1
      \/ At(v) # "server" /\ pc' = "malformed"
  BY DEF searchServer
<1> HIDE DEF v
<1>4. CASE At(v) = "server" /\ pc' = "bracket" /\ start' = v + 1
  <2>1. v \in start..Len(text) /\ text[v] = "server"
    BY <1>1, <1>2, <1>4 DEF At
  <2>2. start' \in start + 1..Len(text) + 1 /\ start' - 1 = v /\ start' - 2 = v - 1
    BY <1>1, <1>4, <2>1
  <2>3. /\ start' \in start + 1..Len(text') + 1 /\ text'[start' - 1] = "server"
        /\ \A j \in start..start' - 2 : text'[j] = Blank
    BY <1>1, <1>2, <2>1, <2>2
  <2>4. /\ start \in 1..Len(text')
        /\ Clean(text', start) /\ Behind(text', start) /\ serversConf' = Pieces(text', start)
    BY <1>1
  <2>5. QED
    BY <1>4, <2>3, <2>4 DEF BehindServer
<1>5. CASE At(v) # "server" /\ pc' = "malformed"
  <2>1. \A j \in start..v - 1 : text[j] \in Fill
    BY <1>2 DEF Fill
  <2>2. v <= Len(text) => text[v] \notin Fill
    BY <1>2, <1>5 DEF Fill, At
  <2>3. {j \in start..v - 1 : text[j] = "server"} = {}
    BY <1>2 DEF Blank
  <2>4. Cardinality({j \in start..v - 1 : text[j] = "server"}) # 1
    <3>1. Cardinality({}) # 1
      BY FS_EmptySet
    <3>2. QED
      BY <2>3, <3>1, Zenon
  <2>5. ~IsConfig(text)
    BY <1>1, <1>2, <2>1, <2>2, <2>4, Rejected
  <2>6. QED
    BY <1>1, <1>5, <2>5
<1>6. QED
  BY <1>3, <1>4, <1>5

LEMMA CutBracket ==
    ASSUME text \in Seq(Tokens), BehindServer, searchStartBracket
    PROVE  \/ pc' = "braces" /\ OpenBlock'
           \/ pc' = "malformed" /\ ~IsConfig(text')
<1> DEFINE v == SkipBlanks(start)
<1>1. PICK p \in 1..Len(text) :
          /\ Clean(text, p) /\ Behind(text, p) /\ serversConf = Pieces(text, p)
          /\ start \in p + 1..Len(text) + 1 /\ text[start - 1] = "server"
          /\ \A j \in p..start - 2 : text[j] = Blank
  BY DEF BehindServer
<1>2. /\ Len(text) \in Nat /\ p \in Nat /\ start \in Nat /\ start \in 1..(Len(text) + 1)
      /\ Depth(text, p - 1) = 0 /\ UNCHANGED <<text, serversConf>>
  BY <1>1 DEF searchStartBracket, Clean
<1>3. /\ v \in start..(Len(text) + 1)
      /\ \A j \in start..v - 1 : text[j] = Blank
      /\ v <= Len(text) => text[v] # Blank
  BY <1>2, SkipBlanksFirst
<1>4. \/ At(v) = LBrace /\ pc' = "braces" /\ start' = v /\ end' = v + 1 /\ pair' = 0
      \/ At(v) # LBrace /\ pc' = "malformed"
  BY DEF searchStartBracket
<1> HIDE DEF v
<1>5. /\ v \in p..Len(text) + 1 /\ start - 1 \in p..v - 1
      /\ \A j \in p..v - 1 : text[j] = IF j = start - 1 THEN "server" ELSE Blank
  <2>1. v \in p..Len(text) + 1 /\ start - 1 \in p..v - 1
    BY <1>1, <1>2, <1>3
  <2>2. ASSUME NEW j \in p..v - 1
        PROVE  j \in p..start - 2 \/ j = start - 1 \/ j \in start..v - 1
    BY <1>2, <1>3
  <2>3. QED
    BY <1>1, <1>2, <1>3, <2>1, <2>2
<1>6. \A j \in p..v - 1 : text[j] \in Fill
  BY <1>5 DEF Fill
<1>7. CASE At(v) = LBrace /\ pc' = "braces" /\ start' = v /\ end' = v + 1 /\ pair' = 0
  <2>1. v \in p..Len(text) /\ text[v] = LBrace
    <3>1. LBrace # "end"
      BY DEF LBrace
    <3>2. v <= Len(text) /\ text[v] = LBrace
      BY <1>7, <3>1, Zenon DEF At
    <3>3. QED
      BY <1>2, <1>5, <3>2
  <2>2. {j \in p..v - 1 : text[j] = "server"} = {start - 1}
    BY <1>5 DEF Blank
  <2>3. Cardinality({j \in p..v - 1 : text[j] = "server"}) = 1
    BY <2>2, FS_Singleton
  <2>4. /\ Clean(text, v) /\ v \in Tops(text) /\ Cardinality(ServersBefore(text, v)) = 1
        /\ TopsTo(text, v) = TopsTo(text, p)
    BY <1>1, <1>6, <2>1, <2>3, OpensBlock
  <2>5. serversConf = Pieces(text, v)
    BY <1>1, <2>4 DEF Pieces
  <2>6. Depth(text, v) = 1
    BY <2>4 DEF Tops
  <2>7. v \in 1..Len(text) /\ v + 1 \in v + 1..Len(text) + 1 /\ (v + 1) - 1 = v
        /\ \A k \in v..v : k = v
    BY <1>2, <2>1
  <2>8. \A k \in v..(v + 1) - 1 : Depth(text, k) > 0
    BY <2>6, <2>7
  <2>9. Depth(text, (v + 1) - 1) = 0 + 1
    BY <2>6, <2>7
  <2>10. OpenBlock'
    BY <1>2, <1>7, <2>4, <2>5, <2>7, <2>8, <2>9, Zenon DEF OpenBlock
  <2>11. QED
    BY <1>7, <2>10
<1>8. CASE At(v) # LBrace /\ pc' = "malformed"
  <2>1. CASE v = Len(text) + 1 \/ text[v] # "server"
    <3>1. v <= Len(text) => text[v] \notin Fill /\ text[v] # LBrace
      BY <1>3, <1>8, <2>1, <1>2 DEF Fill, At
    <3>2. v = Len(text) + 1 \/ text[v] # LBrace
      BY <1>2, <1>5, <3>1
    <3>3. ~IsConfig(text)
      BY <1>1, <1>2, <1>5, <1>6, <3>1, <3>2, Rejected
    <3>4. QED
      BY <1>2, <1>8, <3>3
  <2>2. CASE v <= Len(text) /\ text[v] = "server"
    <3> DEFINE Stops == {j \in v..Len(text) + 1 : j = Len(text) + 1 \/ text[j] \notin Fill}
    <3>1. Stops \in SUBSET Nat /\ Len(text) + 1 \in Stops
      BY <1>2, <1>5, <2>2
    <3>2. PICK q \in Stops : \A j \in Stops : q <= j
      BY <3>1, Least
    <3>3. q \in v..Len(text) + 1 /\ \A j \in v..q - 1 : text[j] \in Fill
      BY <1>2, <1>5, <3>2
    <3>4. q <= Len(text) => text[q] \notin Fill
      BY <1>2, <3>2
    <3>5. q # v
      BY <1>2, <2>2, <3>4 DEF Fill
    <3>6. /\ q \in p..Len(text) + 1 /\ start - 1 \in p..q - 1 /\ v \in p..q - 1
          /\ start - 1 # v
      BY <1>2, <1>3, <1>5, <3>3, <3>5
    <3>7. \A j \in p..q - 1 : text[j] \in Fill
      <4>1. \A j \in p..q - 1 : j \in p..v - 1 \/ j \in v..q - 1
        BY <1>2, <1>5, <3>3
      <4>2. QED
        BY <1>6, <3>3, <4>1
    <3> DEFINE W == {j \in p..q - 1 : text[j] = "server"}
    <3>8. Cardinality(W) # 1
      <4>1. start - 1 \in W /\ v \in W
        BY <1>1, <2>2, <3>6
      <4>2. IsFiniteSet(W)
        <5>1. IsFiniteSet(p..q - 1)
          BY <1>2, <3>3, FS_Interval
        <5>2. QED
          BY <5>1, FS_Subset
      <4>3. ~\E x : W = {x}
        BY <3>6, <4>1
      <4>4. QED
        BY <4>2, <4>3, FS_Singleton
    <3>9. ~IsConfig(text)
      BY <1>1, <1>2, <3>4, <3>6, <3>7, <3>8, Rejected
    <3>10. QED
      BY <1>2, <1>8, <3>9
  <2>3. QED
    BY <1>2, <1>5, <2>1, <2>2
<1>9. QED
  BY <1>4, <1>7, <1>8

\* One more token behind the opening brace, none that closes the block.
LEMMA CutInside ==
    ASSUME text \in Seq(Tokens), OpenBlock, searchEndBracket
    PROVE  OpenBlock'
<1>1. /\ Len(text) \in Nat /\ start \in 1..Len(text) /\ end \in start + 1..Len(text)
      /\ pair \in Nat /\ end \in Nat \ {0} /\ start \in Nat
  BY DEF OpenBlock, searchEndBracket
<1>2. /\ UNCHANGED <<text, start, serversConf>> /\ end' = end + 1
      /\ pair' = pair + Weight(text[end]) /\ ~(text[end] = RBrace /\ pair = 0)
  BY <1>1 DEF searchEndBracket, Deeper, Weight, At, Closing
<1>3. Depth(text, end) = Depth(text, end - 1) + Weight(text[end])
  BY <1>1, DepthStep
<1>4. Depth(text, end) = pair' + 1 /\ pair' \in Nat
  <2>1. Depth(text, end - 1) = pair + 1
    BY DEF OpenBlock
  <2>2. Weight(text[end]) \in Int /\ Weight(text[end]) >= -1
        /\ (Weight(text[end]) = -1 => text[end] = RBrace)
    BY DEF Weight
  <2>3. pair' \in Nat
    BY <1>1, <1>2, <2>2
  <2>4. QED
    BY <1>1, <1>2, <1>3, <2>1, <2>2, <2>3
<1>5. \A k \in start..(end + 1) - 1 : Depth(text, k) > 0
  <2>1. \A k \in start..(end + 1) - 1 : k \in start..end - 1 \/ k = end
    BY <1>1
  <2>2. QED
    BY <1>4, <2>1 DEF OpenBlock
<1>6. (end + 1) - 1 = end /\ end + 1 \in start + 1..Len(text) + 1
  BY <1>1
<1>7. /\ start \in Tops(text) /\ Cardinality(ServersBefore(text, start)) = 1
      /\ Clean(text, start) /\ serversConf = Pieces(text, start)
  BY DEF OpenBlock
<1>8. Depth(text, (end + 1) - 1) = pair' + 1
  BY <1>4, <1>6
<1>9. QED
  BY <1>1, <1>2, <1>4, <1>5, <1>6, <1>7, <1>8, Zenon DEF OpenBlock

LEMMA CutPiece ==
    ASSUME text \in Seq(Tokens), OpenBlock, PushServerConf
    PROVE  BetweenBlocks'
<1>1. /\ Len(text) \in Nat /\ start \in 1..Len(text) /\ end \in start + 1..Len(text)
      /\ end \in Nat \ {0} /\ end > start /\ pair = 0 /\ text[end] = RBrace
      /\ start \in Tops(text) /\ Cardinality(ServersBefore(text, start)) = 1
      /\ Clean(text, start) /\ \A k \in start..end - 1 : Depth(text, k) > 0
      /\ Depth(text, end - 1) = 1
  BY DEF OpenBlock, PushServerConf, Closing, At
<1>2. /\ UNCHANGED text /\ start' = end + 1
      /\ serversConf' = Append(Pieces(text, start), SubSeq(text, start, end))
  BY DEF OpenBlock, PushServerConf, NextStart
<1>3. Depth(text, end) = 0
  <2>1. Depth(text, end) = Depth(text, end - 1) + Weight(text[end])
    BY <1>1, DepthStep
  <2>2. Weight(text[end]) = -1
    BY <1>1 DEF Weight, LBrace, RBrace
  <2>3. QED
    BY <1>1, <2>1, <2>2
<1>4. /\ Clean(text, end + 1) /\ CloseOf(text, start) = end
      /\ TopsTo(text, end + 1) = TopsTo(text, start) \cup {start}
  BY <1>1, <1>3, ClosesBlock
<1>5. Pieces(text, end + 1) = Append(Pieces(text, start), SubSeq(text, start, end))
  BY <1>1, <1>4, PiecesGrow
<1>6. Behind(text, end + 1)
  <2>1. (end + 1) - 1 = end
    BY <1>1
  <2>2. QED
    BY <1>1, <2>1 DEF Behind
<1>7. text # <<>>
  BY <1>1
<1>8. QED
  BY <1>2, <1>4, <1>5, <1>6, <1>7 DEF BetweenBlocks

\* The text ends inside a block.
LEMMA CutMissing ==
    ASSUME text \in Seq(Tokens), OpenBlock, MissingBracket
    PROVE  ~IsConfig(text)
<1>1. end - 1 = Len(text) /\ pair \in Nat /\ Depth(text, end - 1) = pair + 1
  <2>1. Len(text) \in Nat /\ end \in start + 1..Len(text) + 1 /\ start \in 1..Len(text)
        /\ end > Len(text)
    BY DEF OpenBlock, MissingBracket
  <2>2. end - 1 = Len(text)
    BY <2>1
  <2>3. QED
    BY <2>2 DEF OpenBlock
<1>2. Depth(text, Len(text)) # 0
  BY <1>1
<1>3. QED
  BY <1>2 DEF IsConfig

\* The text ends between two blocks.
LEMMA CutEnds ==
    ASSUME text \in Seq(Tokens), BetweenBlocks, start > Len(text)
    PROVE  AllCut
<1> DEFINE n == Len(text)
<1>1. n \in Nat /\ n # 0 /\ DOMAIN text = 1..n /\ start = n + 1 /\ start - 1 = n /\ start # 1
  BY DEF BetweenBlocks, Clean
<1>2. Clean(text, start) /\ text[n] = RBrace /\ Depth(text, n) = 0
  BY <1>1 DEF BetweenBlocks, Behind, Clean
<1>3. /\ \A k \in 1..n : Depth(text, k) >= 0
      /\ \A k \in Outside(text) : text[k] \in Fill
      /\ \A k \in Tops(text) : Cardinality(ServersBefore(text, k)) = 1
  <2>1. \A k \in Outside(text) \cup Tops(text) : k < start
    BY <1>1 DEF Outside, Tops
  <2>2. QED
    BY <1>1, <1>2, <2>1 DEF Clean
<1>4. TopsTo(text, start) = Tops(text)
  <2>1. \A k \in Tops(text) : k < start
    BY <1>1 DEF Tops
  <2>2. QED
    BY <2>1 DEF TopsTo
<1>5. Blocks(text) = Pieces(text, start)
  <2>1. DOMAIN InOrder(Tops(text)) = 1..Cardinality(Tops(text))
    BY DEF InOrder
  <2>2. QED
    BY <1>4, <2>1 DEF Blocks, Pieces
<1>6. IsConfig(text)
  BY <1>1, <1>2, <1>3 DEF IsConfig, BetweenBlocks, Fill, ServersBefore
<1>7. QED
  BY <1>5, <1>6 DEF AllCut, BetweenBlocks

LEMMA CutInvScan ==
    ASSUME SplitInv, CutInv, SplitNext
    PROVE  CutInv'
<1>1. text \in Seq(Tokens)
  BY DEF SplitInv
<1>2. CASE takeServersConfig
  <2>1. pc = "read" /\ UNCHANGED splitVars /\ start = 1 /\ serversConf = <<>>
    BY <1>2 DEF takeServersConfig, CutInv
  <2>2. CASE pc' = "split" /\ text # <<>>
    <3>1. BetweenBlocks
      BY <1>1, <2>1, <2>2, NothingCut
    <3>2. QED
      BY <2>1, <2>2, <3>1 DEF CutInv, BetweenBlocks, splitVars, Scanning
  <2>3. CASE pc' = "nofile" \/ (text = <<>> /\ pc' = "malformed")
    BY <2>1, <2>3 DEF CutInv, IsConfig, splitVars, Scanning
  <2>4. QED
    BY <1>2, <2>2, <2>3, Zenon DEF takeServersConfig
<1>3. CASE searchServer
  <2>1. BetweenBlocks
    BY <1>3 DEF searchServer, CutInv
  <2>2. QED
    BY <1>1, <1>3, <2>1, CutServer DEF CutInv, Scanning
<1>4. CASE searchStartBracket
  <2>1. BehindServer
    BY <1>4 DEF searchStartBracket, CutInv
  <2>2. QED
    BY <1>1, <1>4, <2>1, CutBracket DEF CutInv, Scanning
<1>5. CASE searchEndBracket
  <2>1. OpenBlock /\ pc' = "braces"
    BY <1>5 DEF searchEndBracket, CutInv
  <2>2. QED
    BY <1>1, <1>5, <2>1, CutInside DEF CutInv, Scanning
<1>6. CASE PushServerConf
  <2>1. OpenBlock /\ pc' = "split"
    BY <1>6 DEF PushServerConf, CutInv
  <2>2. QED
    BY <1>1, <1>6, <2>1, CutPiece DEF CutInv, Scanning
<1>7. CASE MissingBracket
  <2>1. OpenBlock /\ pc' = "malformed" /\ UNCHANGED text
    BY <1>7 DEF MissingBracket, splitVars, CutInv
  <2>2. ~IsConfig(text)
    BY <1>1, <1>7, <2>1, CutMissing
  <2>3. QED
    BY <2>1, <2>2 DEF CutInv, Scanning
<1>8. CASE SplitEnds
  <2>1. BetweenBlocks /\ pc' = "servers" /\ UNCHANGED <<text, serversConf>> /\ start > Len(text)
    BY <1>8 DEF SplitEnds, splitVars, CutInv
  <2>2. AllCut
    BY <1>1, <2>1, CutEnds
  <2>3. QED
    BY <2>1, <2>2 DEF CutInv, AllCut, Scanning
<1>9. QED
  BY <1>2, <1>3, <1>4, <1>5, <1>6, <1>7, <1>8 DEF SplitNext

LEMMA CutInvNext == SplitInv /\ CutInv /\ [Next]_vars => CutInv'
<1> SUFFICES ASSUME SplitInv, CutInv, [Next]_vars PROVE CutInv'
  OBVIOUS
<1>1. CASE SplitNext
  BY <1>1, CutInvScan
<1>2. CASE ReadNext \/ Listen \/ startListen
  <2>1. UNCHANGED <<text, serversConf>>
    BY <1>2, ReadLeavesPieces DEF splitVars
  <2>2. /\ pc \notin Scanning \cup {"nofile", "malformed"}
        /\ pc' \notin Scanning \cup {"nofile", "malformed"}
    BY <1>2, ReadGoesOn DEF Reading, Scanning
  <2>3. AllCut
    BY <2>2 DEF CutInv
  <2>4. AllCut'
    BY <2>1, <2>3 DEF AllCut
  <2>5. QED
    BY <2>2, <2>4 DEF CutInv, Scanning
<1>3. CASE UNCHANGED vars
  BY <1>3 DEF vars, splitVars, CutInv, BetweenBlocks, BehindServer, OpenBlock, AllCut
<1>4. QED
  BY <1>1, <1>2, <1>3 DEF Next

\* The scan of the braces accepts exactly the texts of the grammar, and cuts
\* each into its blocks, in order and none left out: of every text.
THEOREM CutsAreServersHolds == Spec => []CutsAreServers
<1>1. Init => CutInv
  BY DEF Init, SplitInit, CutInv, Scanning
<1>2. CutInv => CutsAreServers
  BY DEF CutInv, CutsAreServers, AllCut, Scanning
<1>3. QED
  BY <1>1, <1>2, CutInvNext, SplitInvInit, SplitInvNext, PTL DEF Spec

-----------------------------------------------------------------------------
(* The types.                                                              *)

\* Positions lie in the text.
InText ==
    /\ start \in 1..Len(text) + 1 /\ end \in 1..Len(text) + 1
    /\ pair \in 0..Len(text)

LEMMA InTextScan ==
    ASSUME SplitInv, CutInv, InText, SplitNext
    PROVE  InText'
<1>1. text \in Seq(Tokens) /\ Len(text) \in Nat /\ UNCHANGED text
  BY DEF SplitInv, SplitNext, takeServersConfig, searchServer, searchStartBracket,
         searchEndBracket, PushServerConf, MissingBracket, SplitEnds, splitVars
<1>2. CASE takeServersConfig \/ MissingBracket \/ SplitEnds
  BY <1>2 DEF takeServersConfig, MissingBracket, SplitEnds, splitVars, InText
<1>3. CASE searchServer
  <2>1. BetweenBlocks /\ UNCHANGED <<end, pair>>
    BY <1>3 DEF searchServer, CutInv
  <2>2. CASE pc' = "bracket"
    <3>1. BehindServer'
      BY <1>1, <1>3, <2>1, <2>2, CutServer
    <3>2. start' \in 1..Len(text) + 1
      BY <1>1, <3>1 DEF BehindServer
    <3>3. QED
      BY <1>1, <2>1, <3>2 DEF InText
  <2>3. CASE pc' = "malformed"
    BY <1>1, <1>3, <2>1, <2>3 DEF searchServer, InText
  <2>4. QED
    BY <1>3, <2>2, <2>3 DEF searchServer
<1>4. ASSUME OpenBlock' PROVE InText'
  <2>1. /\ start' \in 1..Len(text) /\ end' \in start' + 1..Len(text) + 1 /\ pair' \in Nat
        /\ Depth(text, end' - 1) = pair' + 1
    BY <1>1, <1>4 DEF OpenBlock
  <2>2. end' - 1 \in Nat
    <3>1. PICK a, b : a = start' /\ b = end'
      OBVIOUS
    <3>2. a \in 1..Len(text) /\ b \in a + 1..Len(text) + 1 /\ Len(text) \in Nat
      BY <1>1, <2>1, <3>1, Zenon
    <3>3. b - 1 \in Nat
      BY ONLY <3>2, SMT
    <3>4. QED
      BY <3>1, <3>3
  <2>3. Depth(text, end' - 1) <= end' - 1
    BY <2>2, DepthStep
  <2>4. pair' \in 0..Len(text) /\ start' \in 1..Len(text) + 1 /\ end' \in 1..Len(text) + 1
    BY <1>1, <2>1, <2>3
  <2>5. QED
    BY <1>1, <2>4 DEF InText
<1>5. CASE searchStartBracket
  <2>1. BehindServer
    BY <1>5 DEF searchStartBracket, CutInv
  <2>2. CASE pc' = "braces"
    BY <1>1, <1>4, <1>5, <2>1, <2>2, CutBracket
  <2>3. CASE pc' = "malformed"
    BY <1>1, <1>5, <2>3 DEF searchStartBracket, InText
  <2>4. QED
    BY <1>5, <2>2, <2>3 DEF searchStartBracket
<1>6. CASE searchEndBracket
  <2>1. OpenBlock
    BY <1>6 DEF searchEndBracket, CutInv
  <2>2. QED
    BY <1>1, <1>4, <1>6, <2>1, CutInside
<1>7. CASE PushServerConf
  <2>1. end \in 1..Len(text) /\ start' = end + 1 /\ UNCHANGED <<end, pair>>
    BY <1>1, <1>7 DEF PushServerConf, NextStart, InText
  <2>2. start' \in 1..Len(text) + 1
    BY <1>1, <2>1
  <2>3. QED
    BY <1>1, <2>1, <2>2 DEF InText
<1>8. QED
  BY <1>2, <1>3, <1>5, <1>6, <1>7 DEF SplitNext

\* A word has a token.
LEMMA WordsAreWords ==
    ASSUME NEW s \in Seq(Tokens)
    PROVE  /\ Len(splitDirectives(s)) \in Nat
           /\ \A w \in ToSet(splitDirectives(s)) : w # <<>>
<1> DEFINE S == WordStarts(s)
           N == Cardinality(S)
<1>1. Len(s) \in Nat /\ DOMAIN s = 1..Len(s) /\ S \in SUBSET (1..Len(s))
  BY DEF WordStarts
<1>2. S \in SUBSET Nat /\ IsFiniteSet(S) /\ N \in Nat
  <2>1. IsFiniteSet(1..Len(s))
    BY <1>1, FS_Interval
  <2>2. S \in SUBSET Nat /\ IsFiniteSet(S)
    BY <1>1, <2>1, FS_Subset
  <2>3. QED
    BY <2>2, FS_CardinalityType
<1>3. ASSUME NEW k \in S PROVE SubSeq(s, k, EndOf(s, k) - 1) # <<>>
  <2> DEFINE Blanks == {m \in k..Len(s) : s[m] = Blank}
  <2>1. k \in 1..Len(s) /\ s[k] # Blank /\ Blanks \in SUBSET Nat /\ Blanks # {}
    BY <1>1 DEF WordStarts
  <2>2. PICK m \in Blanks : \A j \in Blanks : m <= j
    BY <2>1, Least
  <2>3. m \in k..Len(s) /\ s[m] = Blank /\ \A j \in k..m - 1 : s[j] # Blank
    BY <1>1, <2>1, <2>2
  <2>4. EndOf(s, k) \in k..Len(s) /\ s[EndOf(s, k)] = Blank
    BY <2>3 DEF EndOf
  <2> DEFINE e == EndOf(s, k) - 1
  <2>5. e \in k..Len(s) /\ k \in 1..Len(s)
    <3>1. EndOf(s, k) # k
      BY <2>1, <2>4
    <3>2. QED
      BY <1>1, <2>1, <2>4, <3>1
  <2> HIDE DEF e
  <2>6. Len(SubSeq(s, k, e)) = e - k + 1 /\ e - k + 1 > 0
    BY <1>1, <2>5
  <2>7. SubSeq(s, k, e) # <<>>
    <3>1. Len(SubSeq(s, k, e)) # 0 /\ Len(<<>>) = 0
      BY <2>6
    <3>2. QED
      BY <3>1, Zenon
  <2>8. QED
    BY <2>7 DEF e
<1>4. splitDirectives(s) = [n \in 1..N |->
                               SubSeq(s, InOrder(S)[n], EndOf(s, InOrder(S)[n]) - 1)]
  BY DEF splitDirectives, InOrder
<1>5. \A n \in 1..N : InOrder(S)[n] \in S
  BY <1>2, InOrderHasRank
<1> DEFINE ws == splitDirectives(s)
<1> HIDE DEF S, N
<1>6. DOMAIN ws = 1..N /\ \A n \in 1..N : ws[n] # <<>>
  BY <1>3, <1>4, <1>5
<1>7. Len(ws) \in Nat
  <2> DEFINE R == {ws[n] : n \in 1..N}
  <2>1. ws = [n \in 1..N |-> ws[n]]
    BY <1>4, <1>6 DEF ws
  <2>2. ws \in [1..N -> R]
    BY <2>1
  <2>3. ws \in Seq(R)
    BY <1>2, <2>2
  <2>4. QED
    BY <2>3
<1> HIDE DEF ws
<1>8. \A w \in ToSet(ws) : w # <<>>
  BY <1>6 DEF ToSet
<1>9. QED
  BY <1>7, <1>8 DEF ws

WordInv ==
    /\ Len(words) \in Nat /\ \A w \in ToSet(words) : w # <<>>
    /\ i \in 1..Len(words) + 2
    /\ pc = "location" => i <= Len(words) + 1
    /\ Len(servers) <= Len(serversConf)
    /\ pc \in {"server", "location"} => Len(servers) < Len(serversConf)
    /\ pc \in Scanning => servers = <<>>

LEMMA ListEnds == ASSUME WordInv PROVE ListEnd \in 0..Len(words)
<1> DEFINE Semicolons == {k \in i + 1..Len(words) : checkSemiColon(words[k])}
<1>1. Len(words) \in Nat /\ i \in Nat
  BY DEF WordInv
<1>2. CASE Semicolons # {}
  <2>1. Semicolons \in SUBSET Nat
    BY <1>1
  <2>2. PICK m \in Semicolons : \A j \in Semicolons : m <= j
    BY <1>2, <2>1, Least
  <2>3. m \in i + 1..Len(words) /\ checkSemiColon(words[m])
        /\ \A j \in i + 1..m - 1 : ~checkSemiColon(words[j])
    BY <1>1, <2>2
  <2>4. ListEnd \in i + 1..Len(words)
    BY <2>3 DEF ListEnd
  <2>5. QED
    BY <1>1, <2>4
<1>3. CASE Semicolons = {}
  BY <1>1, <1>3 DEF ListEnd
<1>4. QED
  BY <1>2, <1>3

\* What a directive does to the index.
Moves ==
    /\ pc \in {"server", "location"}
    /\ UNCHANGED <<words, servers>> /\ i' \in 1..Len(words) + 1

LEMMA IndexMoves ==
    ASSUME WordInv, ReadNext
    PROVE  GivesUp \/ Moves \/ CreateServer \/ PushLocation \/ PushServer \/ validateServers
<1>0. Len(words) \in Nat /\ i \in Nat \ {0}
  BY DEF WordInv
<1>1. ASSUME pc \in {"server", "location"}, UNCHANGED <<words, servers>>, NEW n \in 1..3,
             i' = i + n, i + n <= Len(words) + 1
      PROVE  Moves
  BY <1>0, <1>1 DEF Moves
<1>2. CASE setPort \/ setServerName \/ setHost \/ setRoot \/ setIndex \/ setClientMaxBodySize
  <2>1. GivesUp \/ (pc \in {"server", "location"} /\ UNCHANGED <<words, servers>> /\ i' = i + 2 /\ i < Len(words))
    BY <1>2 DEF setPort, setServerName, setHost, setRoot, setIndex, setClientMaxBodySize,
                ServerValue, Names, ReadsPast, Ends, GivesUp
  <2>2. QED
    BY <1>0, <1>1, <2>1
<1>3. CASE \/ validateLocationRoot \/ setAutoIndex \/ setLocationIndex \/ setReturn
           \/ setAlias \/ setLocationClientMaxBodySize
  <2>1. GivesUp \/ (pc \in {"server", "location"} /\ UNCHANGED <<words, servers>> /\ i' = i + 2 /\ i < Len(words))
    BY <1>3 DEF validateLocationRoot, setAutoIndex, setLocationIndex, setReturn, setAlias,
                setLocationClientMaxBodySize, LocationValue, Names, ReadsPast, Ends, GivesUp
  <2>2. QED
    BY <1>0, <1>1, <2>1
<1>4. CASE setErrorPage
  <2>1. GivesUp \/ (pc \in {"server", "location"} /\ UNCHANGED <<words, servers>> /\ i' = i + 3 /\ i + 2 <= Len(words))
    BY <1>4 DEF setErrorPage, Names, ReadsPast, Ends, GivesUp
  <2>2. QED
    BY <1>0, <1>1, <2>1
<1>5. CASE SkipWord
  <2>1. pc \in {"server", "location"} /\ UNCHANGED <<words, servers>> /\ i' = i + 1 /\ i <= Len(words)
    BY <1>5 DEF SkipWord, NoDirective
  <2>2. QED
    BY <1>0, <1>1, <2>1
<1>6. CASE validateLocationPath
  <2>1. GivesUp \/ (pc \in {"server", "location"} /\ UNCHANGED <<words, servers>> /\ i' = i + 3 /\ i + 2 <= Len(words))
    BY <1>6 DEF validateLocationPath, Names, ReadsPast, Ends, GivesUp
  <2>2. QED
    BY <1>0, <1>1, <2>1
<1>7. CASE validateLocationMethods \/ validateLocationCgiPath \/ validateLocationCgiExt
  <2>1. GivesUp \/ (pc \in {"server", "location"} /\ UNCHANGED <<words, servers>> /\ i' = ListEnd + 1)
    BY <1>7 DEF validateLocationMethods, validateLocationCgiPath, validateLocationCgiExt,
                TakesList, Names, Ends, GivesUp
  <2>2. ListEnd + 1 \in 1..Len(words) + 1
    <3>1. ListEnd \in 0..Len(words)
      BY ListEnds
    <3>2. QED
      BY <1>0, <3>1
  <2>3. QED
    BY <2>1, <2>2 DEF Moves
<1>8. CASE WrongDirective
  BY <1>8 DEF WrongDirective, Ends, GivesUp
<1>9. QED
  BY <1>2, <1>3, <1>4, <1>5, <1>6, <1>7, <1>8 DEF ReadNext

LEMMA WordInvInit == Init => WordInv
<1> SUFFICES ASSUME Init PROVE WordInv
  OBVIOUS
<1>1. words = <<>> /\ i = 1 /\ servers = <<>> /\ serversConf = <<>> /\ pc = "read"
  BY DEF Init, SplitInit, ReadInit
<1>2. Len(<<>>) = 0 /\ ToSet(<<>>) = {}
  BY DEF ToSet
<1>3. QED
  BY <1>1, <1>2 DEF WordInv

LEMMA WordInvRead ==
    ASSUME SplitInv, ReadInv, WordInv, ReadNext
    PROVE  WordInv'
<1>1. /\ Len(words) \in Nat /\ i \in 1..Len(words) + 2 /\ pc \in Reading
      /\ UNCHANGED serversConf /\ pc' \notin Scanning
      /\ Len(servers) \in Nat /\ Len(serversConf) \in Nat
  BY ReadsWhen, ReadLeavesPieces, SeqDomain DEF WordInv, splitVars, SplitInv, ReadInv
<1>2. CASE GivesUp
  BY <1>1, <1>2 DEF GivesUp, readVars, WordInv
<1>3. CASE Moves
  BY <1>1, <1>3 DEF Moves, WordInv
<1>4. CASE CreateServer
  <2> DEFINE s == serversConf[Len(servers) + 1]
  <2>1. /\ words' = splitDirectives(s) /\ i' = 1 /\ pc' = "server" /\ UNCHANGED servers
        /\ Len(servers) < Len(serversConf)
    BY <1>4 DEF CreateServer
  <2>2. serversConf \in Seq(Seq(Tokens)) /\ Len(servers) + 1 \in 1..Len(serversConf)
    BY <1>1, <2>1 DEF SplitInv
  <2>3. s \in Seq(Tokens)
    BY <2>2
  <2> HIDE DEF s
  <2>4. Len(words') \in Nat /\ \A w \in ToSet(words') : w # <<>>
    BY <2>1, <2>3, WordsAreWords
  <2>5. i' \in 1..Len(words') + 2
    BY <2>1, <2>4
  <2>6. QED
    BY <1>1, <2>1, <2>4, <2>5 DEF WordInv
<1>5. CASE PushLocation
  BY <1>1, <1>5 DEF PushLocation, WordInv
<1>6. CASE PushServer
  BY <1>1, <1>6 DEF PushServer, WordInv
<1>7. CASE validateServers
  BY <1>1, <1>7 DEF validateServers, Ends, readVars, WordInv
<1>8. QED
  BY <1>2, <1>3, <1>4, <1>5, <1>6, <1>7, IndexMoves

LEMMA WordInvNext == SplitInv /\ ReadInv /\ WordInv /\ [Next]_vars => WordInv'
<1> SUFFICES ASSUME SplitInv, ReadInv, WordInv, [Next]_vars PROVE WordInv'
  OBVIOUS
<1>1. CASE SplitNext /\ UNCHANGED <<readVars, socketVars>>
  <2>1. UNCHANGED <<words, i, servers>> /\ pc \in Scanning
    BY <1>1 DEF readVars, SplitNext, takeServersConfig, searchServer, searchStartBracket,
                searchEndBracket, PushServerConf, MissingBracket, SplitEnds, Scanning
  <2>2. servers = <<>> /\ Len(<<>>) = 0
    BY <2>1 DEF WordInv
  <2>3. Len(serversConf') \in Nat
    BY <1>1, SplitInvScan DEF SplitInv
  <2>4. pc' \in Scanning \cup {"nofile", "malformed", "servers"}
    BY <1>1 DEF SplitNext, takeServersConfig, searchServer, searchStartBracket,
                searchEndBracket, PushServerConf, MissingBracket, SplitEnds, Scanning
  <2>5. Len(servers') <= Len(serversConf')
    BY <2>1, <2>2, <2>3
  <2>6. QED
    BY <2>1, <2>2, <2>4, <2>5 DEF WordInv, Scanning
<1>2. CASE ReadNext
  BY <1>2, WordInvRead
<1>3. CASE Listen \/ startListen
  BY <1>3 DEF Listen, startListen, readVars, splitVars, WordInv, Scanning
<1>4. CASE UNCHANGED vars
  BY <1>4 DEF vars, readVars, splitVars, WordInv
<1>5. QED
  BY <1>1, <1>2, <1>3, <1>4 DEF Next

LEMMA InTextNext == SplitInv /\ CutInv /\ InText /\ [Next]_vars => InText'
<1> SUFFICES ASSUME SplitInv, CutInv, InText, [Next]_vars PROVE InText'
  OBVIOUS
<1>1. CASE SplitNext
  BY <1>1, InTextScan
<1>2. CASE ReadNext \/ Listen \/ startListen
  BY <1>2, ReadLeavesPieces DEF splitVars, InText
<1>3. CASE UNCHANGED vars
  BY <1>3 DEF vars, splitVars, InText
<1>4. QED
  BY <1>1, <1>2, <1>3 DEF Next

\* The state of the program's start is one of those named.
PcOK == pc \in Scanning \cup Reading \cup {"listen"} \cup Decided

LEMMA PcNext == PcOK /\ [Next]_vars => PcOK'
<1>1. SplitNext => pc' \in Scanning \cup {"nofile", "malformed", "servers"}
  BY DEF SplitNext, takeServersConfig, searchServer, searchStartBracket,
         searchEndBracket, PushServerConf, MissingBracket, SplitEnds, Scanning
<1>2. QED
  BY <1>1, ReadGoesOn DEF Next, vars, PcOK, Reading, Decided, Failures

\* The types hold for every text: no index leaves what it points into, no word
\* is empty, no port is too large, and no server is made of nothing.
THEOREM StartupTypeCorrect == Spec => []TypeOK
<1>1. Init => PcOK /\ InText /\ CutInv
  <2> SUFFICES ASSUME Init PROVE PcOK /\ InText /\ CutInv
    OBVIOUS
  <2>1. /\ pc = "read" /\ text \in Seq(Tokens) /\ start = 1 /\ end = 1 /\ pair = 0
        /\ serversConf = <<>>
    BY DEF Init, SplitInit
  <2>2. InText
    BY <2>1 DEF InText
  <2>3. QED
    BY <2>1, <2>2 DEF PcOK, CutInv, Scanning
<1>2. SplitInv /\ ReadInv /\ WordInv /\ InText /\ PcOK => TypeOK
  BY DEF SplitInv, ReadInv, GoodServer, WordInv, InText, PcOK, TypeOK
<1>3. QED
  BY <1>1, <1>2, SplitInvInit, SplitInvNext, ReadInvInit, ReadInvNext, CutInvNext,
     WordInvInit, WordInvNext, InTextNext, PcNext, PTL DEF Spec
=============================================================================
