---------------------------- MODULE UploadProofs ----------------------------
(***************************************************************************)
(* What holds of an upload for every file, every way the network cuts the  *)
(* request into pieces, every limit and every depth of the stack.          *)
(***************************************************************************)
EXTENDS Upload, SequenceTheorems, FiniteSetTheorems, WellFoundedInduction, TLAPS

-----------------------------------------------------------------------------
(* The request.  Its headers end at the second token, and the end marker   *)
(* is its last token and no other.                                         *)

Parts  == [payload : Payloads, headers : PartHeaders, tail : Tails]
Inside == Token \ {"end", "endhead"}

\* What the client puts between the request's headers and the end marker.
Contained(s) ==
    <<"delim">> \o [i \in 1..s.headers |-> "header"] \o <<"blank">>
        \o s.payload \o <<"crlf">> \o s.tail

LEMMA PartTypes ==
    ASSUME NEW s \in Parts
    PROVE  /\ s.payload \in Seq(Lines \cup Bytes) /\ s.payload \in Seq(Inside)
           /\ s.tail \in Seq(Inside)
           /\ s.headers \in Nat \ {0}
           /\ [i \in 1..s.headers |-> "header"] \in Seq(Inside)
           /\ Len([i \in 1..s.headers |-> "header"]) = s.headers
<1>1. s.payload \in Seq(Lines \cup Bytes) /\ s.headers \in Nat \ {0} /\ s.tail \in Seq(Inside)
  BY UploadAssumption DEF Parts, Inside
<1>2. Lines \cup Bytes \subseteq Inside
  BY UploadAssumption DEF Inside, Token, Marks
<1>3. s.payload \in Seq(Inside)
  BY <1>1, <1>2, SeqMonotonic, Zenon
<1>4. "header" \in Inside
  BY DEF Inside, Token, Marks
<1> DEFINE h == [i \in 1..s.headers |-> "header"]
<1>5. h \in [1..s.headers -> Inside]
  BY <1>4
<1>6. h \in Seq(Inside)
  BY <1>1, <1>5, SeqDef
<1>7. DOMAIN h = 1..s.headers /\ DOMAIN h = 1..Len(h) /\ Len(h) \in Nat
  BY <1>6, LenProperties
<1>8. Len(h) = s.headers
  BY <1>1, <1>7
<1>9. QED
  BY <1>1, <1>3, <1>6, <1>8

\* r is s and then t.
Joins(r, s, t) ==
    /\ Len(r) = Len(s) + Len(t)
    /\ \A i \in 1..Len(s) : r[i] = s[i]
    /\ \A i \in 1..Len(t) : r[Len(s) + i] = t[i]

LEMMA Joined ==
    ASSUME NEW S, NEW s \in Seq(S), NEW t \in Seq(S)
    PROVE  s \o t \in Seq(S) /\ Joins(s \o t, s, t)
  BY ConcatProperties, LenProperties DEF Joins

LEMMA JoinedOne ==
    ASSUME NEW S, NEW s \in Seq(S), NEW e \in S
    PROVE  s \o <<e>> \in Seq(S) /\ Joins(s \o <<e>>, s, <<e>>)
<1>1. <<e>> \in Seq(S)
  OBVIOUS
<1>2. QED
  BY <1>1, Joined, Zenon

LEMMA ContainedShape ==
    ASSUME NEW s \in Parts
    PROVE  /\ Contained(s) \in Seq(Inside)
           /\ Len(Contained(s)) = 3 + s.headers + Len(s.payload) + Len(s.tail)
           /\ Contained(s)[1] = "delim"
           /\ \A i \in 1..s.headers : Contained(s)[1 + i] = "header"
           /\ Contained(s)[2 + s.headers] = "blank"
           /\ \A i \in 1..Len(s.payload) :
                  Contained(s)[2 + s.headers + i] = s.payload[i]
           /\ Contained(s)[3 + s.headers + Len(s.payload)] = "crlf"
           /\ Body(s) = Contained(s) \o <<"end">>
<1> DEFINE n  == s.headers
           m  == Len(s.payload)
           h  == [i \in 1..n |-> "header"]
           c1 == <<"delim">> \o h
           c2 == c1 \o <<"blank">>
           c3 == c2 \o s.payload
           c4 == c3 \o <<"crlf">>
           c5 == c4 \o s.tail
<1>1. /\ h \in Seq(Inside) /\ s.payload \in Seq(Inside) /\ s.tail \in Seq(Inside)
      /\ n \in Nat \ {0} /\ Len(h) = n /\ m \in Nat /\ Len(s.tail) \in Nat
  BY PartTypes, LenProperties
<1>2. "delim" \in Inside /\ "blank" \in Inside /\ "crlf" \in Inside
  BY DEF Inside, Token, Marks
<1>3. Body(s) = c5 \o <<"end">> /\ Contained(s) = c5
  BY DEF Body, Contained
<1>4. \A i \in 1..n : h[i] = "header"
  OBVIOUS
<1>5. <<"delim">> \in Seq(Inside)
  BY <1>2
<1>6. c1 \in Seq(Inside) /\ Joins(c1, <<"delim">>, h)
  BY <1>1, <1>5, Joined, Zenon
<1>7. c2 \in Seq(Inside) /\ Joins(c2, c1, <<"blank">>)
  BY <1>2, <1>6, JoinedOne, Zenon
<1>8. c3 \in Seq(Inside) /\ Joins(c3, c2, s.payload)
  BY <1>1, <1>7, Joined, Zenon
<1>9. c4 \in Seq(Inside) /\ Joins(c4, c3, <<"crlf">>)
  BY <1>2, <1>8, JoinedOne, Zenon
<1>10. c5 \in Seq(Inside) /\ Joins(c5, c4, s.tail)
  BY <1>1, <1>9, Joined, Zenon
<1> HIDE DEF c1, c2, c3, c4, c5, h, n, m
<1>11. Len(c1) = 1 + n /\ c1[1] = "delim" /\ \A i \in 1..n : c1[1 + i] = "header"
  <2>1. Len(<<"delim">>) = 1 /\ <<"delim">>[1] = "delim"
    OBVIOUS
  <2>2. Len(c1) = 1 + n /\ c1[1] = "delim"
    BY <1>1, <1>6, <2>1 DEF Joins
  <2>3. \A i \in 1..n : c1[1 + i] = h[i]
    BY <1>1, <1>6, <2>1 DEF Joins
  <2>4. QED
    BY <1>4, <2>2, <2>3
<1>12. /\ Len(c2) = 2 + n /\ c2[2 + n] = "blank"
       /\ \A i \in 1..(1 + n) : c2[i] = c1[i]
  BY <1>1, <1>7, <1>11 DEF Joins
<1>13. /\ Len(c3) = 2 + n + m /\ \A i \in 1..(2 + n) : c3[i] = c2[i]
       /\ \A i \in 1..m : c3[2 + n + i] = s.payload[i]
  BY <1>1, <1>8, <1>12 DEF Joins, m
<1>14. /\ Len(c4) = 3 + n + m /\ c4[3 + n + m] = "crlf"
       /\ \A i \in 1..(2 + n + m) : c4[i] = c3[i]
  BY <1>1, <1>9, <1>13 DEF Joins
<1>15. /\ Len(c5) = 3 + n + m + Len(s.tail)
       /\ \A i \in 1..(3 + n + m) : c5[i] = c4[i]
  BY <1>1, <1>10, <1>14 DEF Joins
<1>. n \in Nat /\ m \in Nat
  BY <1>1
<1>16. \A i \in 1..(2 + n + m) : c5[i] = c3[i]
  <2>1. \A i \in 1..(2 + n + m) : i \in 1..(3 + n + m)
    OBVIOUS
  <2>2. QED
    BY <1>14, <1>15, <2>1
<1>17. \A i \in 1..(1 + n) : c5[i] = c1[i]
  BY <1>12, <1>13, <1>16
<1>18. c5[1] = "delim" /\ \A i \in 1..n : c5[1 + i] = "header"
  BY <1>1, <1>11, <1>17
<1>19. c5[2 + n] = "blank"
  BY <1>12, <1>13, <1>16
<1>20. \A i \in 1..m : c5[2 + n + i] = s.payload[i]
  BY <1>13, <1>16
<1>21. c5[3 + n + m] = "crlf"
  <2>1. 3 + n + m \in 1..(3 + n + m)
    OBVIOUS
  <2>2. QED
    BY <1>14, <1>15, <2>1
<1>22. QED
  BY <1>3, <1>10, <1>15, <1>18, <1>19, <1>20, <1>21 DEF n, m

\* Where the request's tokens are.
LEMMA RequestShape ==
    ASSUME NEW s \in Parts
    PROVE  /\ Request(s) \in Seq(Token)
           /\ Len(Body(s)) = Len(Contained(s)) + 1
           /\ Len(Request(s)) = Len(Contained(s)) + 3
           /\ Request(s)[1] = "request" /\ Request(s)[2] = "endhead"
           /\ \A i \in 1..Len(Contained(s)) : Request(s)[2 + i] = Contained(s)[i]
           /\ Request(s)[3 + Len(Contained(s))] = "end"
<1> DEFINE c == Contained(s)
           b == c \o <<"end">>
           r == <<"request", "endhead">> \o b
<1>1. c \in Seq(Token) /\ Body(s) = b /\ Len(c) \in Nat
  <2>1. c \in Seq(Inside) /\ Inside \subseteq Token /\ Body(s) = b
    BY ContainedShape DEF Inside
  <2>2. QED
    BY <2>1, SeqMonotonic, LenProperties
<1>2. Request(s) = r
  BY <1>1 DEF Request
<1>3. "end" \in Token /\ <<"request", "endhead">> \in Seq(Token)
  BY DEF Token, Marks
<1> HIDE DEF c
<1>4. b \in Seq(Token) /\ Joins(b, c, <<"end">>)
  BY <1>1, <1>3, JoinedOne, Zenon
<1> HIDE DEF b
<1>5. r \in Seq(Token) /\ Joins(r, <<"request", "endhead">>, b)
  BY <1>3, <1>4, Joined, Zenon
<1> HIDE DEF r
<1>6. Len(<<"end">>) = 1 /\ <<"end">>[1] = "end"
  OBVIOUS
<1>7. /\ Len(<<"request", "endhead">>) = 2
      /\ <<"request", "endhead">>[1] = "request" /\ <<"request", "endhead">>[2] = "endhead"
  OBVIOUS
<1>8. /\ Len(b) = Len(c) + 1 /\ b[Len(c) + 1] = "end"
      /\ \A i \in 1..Len(c) : b[i] = c[i]
  BY <1>1, <1>4, <1>6 DEF Joins
<1>9. /\ Len(r) = Len(b) + 2 /\ r[1] = "request" /\ r[2] = "endhead"
      /\ \A i \in 1..Len(b) : r[2 + i] = b[i]
  BY <1>1, <1>5, <1>7, <1>8 DEF Joins
<1>10. r[3 + Len(c)] = "end"
  <2>1. Len(c) + 1 \in 1..Len(b) /\ 2 + (Len(c) + 1) = 3 + Len(c)
    BY <1>1, <1>8
  <2>2. QED
    BY <1>8, <1>9, <2>1, Zenon
<1>11. \A i \in 1..Len(c) : r[2 + i] = c[i]
  <2>1. \A i \in 1..Len(c) : i \in 1..Len(b)
    BY <1>1, <1>8
  <2>2. QED
    BY <1>8, <1>9, <2>1, Zenon
<1>12. Len(r) = Len(c) + 3
  BY <1>1, <1>8, <1>9
<1>13. QED
  BY <1>1, <1>2, <1>5, <1>8, <1>9, <1>10, <1>11, <1>12, Zenon DEF c

\* The markers are where they belong, and nowhere else.
LEMMA MarkersInPlace ==
    ASSUME NEW s \in Parts, NEW i \in 1..Len(Request(s))
    PROVE  /\ (Request(s)[i] = "endhead") <=> (i = 2)
           /\ (Request(s)[i] = "end") <=> (i = Len(Request(s)))
<1> DEFINE c == Contained(s)
           r == Request(s)
<1>1. /\ Len(r) = Len(c) + 3 /\ r[1] = "request" /\ r[2] = "endhead"
      /\ \A k \in 1..Len(c) : r[2 + k] = c[k]
      /\ r[3 + Len(c)] = "end"
  BY RequestShape
<1>2. c \in Seq(Inside)
  BY ContainedShape
<1>3. /\ Len(c) \in Nat /\ \A k \in 1..Len(c) : c[k] \notin {"end", "endhead"}
  BY <1>2, LenProperties, ElementOfSeq DEF Inside
<1> HIDE DEF c, r
<1>4. i \in 1..(Len(c) + 3)
  BY <1>1 DEF r
<1>5. CASE i = 1 \/ i = 2
  BY <1>1, <1>3, <1>5 DEF r
<1>6. CASE i = Len(c) + 3
  BY <1>1, <1>3, <1>6 DEF r
<1>7. CASE i # 1 /\ i # 2 /\ i # Len(c) + 3
  <2>1. i - 2 \in 1..Len(c) /\ 2 + (i - 2) = i
    BY <1>3, <1>4, <1>7
  <2>2. r[i] = c[i - 2] /\ c[i - 2] \notin {"end", "endhead"}
    BY <1>1, <1>3, <2>1
  <2>3. QED
    BY <1>1, <1>7, <2>2 DEF r
<1>8. QED
  BY <1>5, <1>6, <1>7

-----------------------------------------------------------------------------
(* What has come of it.                                                    *)

\* t is how the request of s begins.
Begins(t, s) ==
    /\ t \in Seq(Token) /\ Len(t) <= Len(Request(s))
    /\ \A i \in 1..Len(t) : t[i] = Request(s)[i]

\* What was received is a beginning of the request.
LEMMA TextBegins ==
    ASSUME NEW s \in Parts, NEW t \in Seq(Token), NEW a \in Seq(Token),
           NEW b \in Seq(Token), t \o a \o b = Request(s)
    PROVE  Begins(t, s)
<1> DEFINE ta == t \o a
           r  == ta \o b
<1>1. Len(t) \in Nat /\ Len(a) \in Nat /\ Len(b) \in Nat /\ r = Request(s)
  BY LenProperties
<1>2. ta \in Seq(Token) /\ Joins(ta, t, a)
  BY Joined, Zenon
<1> HIDE DEF ta
<1>3. r \in Seq(Token) /\ Joins(r, ta, b)
  BY <1>2, Joined, Zenon
<1> HIDE DEF r
<1>4. Len(r) = Len(t) + Len(a) + Len(b) /\ Len(ta) = Len(t) + Len(a)
  BY <1>1, <1>2, <1>3 DEF Joins
<1>5. \A i \in 1..Len(t) : i \in 1..Len(ta)
  BY <1>1, <1>4
<1>6. \A i \in 1..Len(t) : t[i] = r[i]
  BY <1>2, <1>3, <1>5, Zenon DEF Joins
<1>7. Len(t) <= Len(r)
  BY <1>1, <1>4
<1>8. QED
  BY <1>1, <1>6, <1>7, Zenon DEF Begins

\* checkBodysize measures what came after the headers once they are all there,
\* and handleUpload goes on with the whole request and nothing less.
LEMMA Measured ==
    ASSUME NEW s \in Parts, NEW t, Begins(t, s)
    PROVE  /\ Has(t, "endhead") => BodySize(t) = Len(t) - 2
           /\ Complete(t) <=> t = Request(s)
           /\ Complete(t) => BodySize(t) = Len(Body(s))
<1> DEFINE r == Request(s)
           n == Len(Contained(s))
<1>1. /\ r \in Seq(Token) /\ Len(r) = n + 3 /\ n \in Nat /\ Len(Body(s)) = n + 1
      /\ r[2] = "endhead" /\ r[n + 3] = "end"
  <2>1. n \in Nat
    BY ContainedShape, LenProperties
  <2>2. /\ r \in Seq(Token) /\ Len(r) = n + 3 /\ Len(Body(s)) = n + 1 /\ r[2] = "endhead"
        /\ r[3 + n] = "end"
    BY RequestShape
  <2> HIDE DEF r, n
  <2>3. 3 + n = n + 3
    BY <2>1
  <2>4. QED
    BY <2>1, <2>2, <2>3
<1>2. /\ t \in Seq(Token) /\ Len(t) \in Nat /\ DOMAIN t = 1..Len(t) /\ Len(t) <= Len(r)
      /\ \A i \in 1..Len(t) : t[i] = r[i]
  BY LenProperties DEF Begins
<1>3. \A i \in 1..Len(r) : /\ (r[i] = "endhead") <=> (i = 2)
                           /\ (r[i] = "end") <=> (i = Len(r))
  BY MarkersInPlace
<1> HIDE DEF r, n
<1>4. \A i \in 1..Len(t) : i \in 1..Len(r)
  BY <1>1, <1>2
<1>5. \A i \in DOMAIN t : /\ (t[i] = "endhead") <=> (i = 2)
                          /\ (t[i] = "end") <=> (i = Len(r))
  BY <1>2, <1>3, <1>4
<1>6. ASSUME Has(t, "endhead") PROVE BodySize(t) = Len(t) - 2
  <2>1. PICK i \in DOMAIN t : t[i] = "endhead"
    BY <1>6 DEF Has
  <2>2. i = 2
    BY <1>5, <2>1
  <2>3. 2 \in DOMAIN t /\ t[2] \in {"endhead"}
    BY <2>1, <2>2
  <2>4. \A j \in 1..(2 - 1) : j \in DOMAIN t /\ j # 2
    BY <1>2, <2>3
  <2>5. \A j \in 1..(2 - 1) : t[j] \notin {"endhead"}
    BY <1>5, <2>4
  <2>6. \A k \in DOMAIN t : t[k] \in {"endhead"} => k = 2
    BY <1>5
  <2>7. FirstOf(t, {"endhead"}) = 2
    BY <2>3, <2>5, <2>6, Zenon DEF FirstOf
  <2>8. QED
    BY <1>6, <2>7 DEF BodySize
<1>7. ASSUME Complete(t) PROVE t = r
  <2>1. PICK i \in DOMAIN t : t[i] = "end"
    BY <1>7 DEF Complete, Has
  <2>2. i = Len(r)
    BY <1>5, <2>1
  <2>3. Len(t) = Len(r)
    <3>1. Len(r) <= Len(t) /\ Len(r) \in Nat
      BY <1>2, <2>1, <2>2
    <3>2. Len(r) <= Len(t) /\ Len(t) <= Len(r) /\ Len(r) \in Nat /\ Len(t) \in Nat
      BY <1>1, <1>2, <3>1, Zenon
    <3>3. QED
      BY ONLY <3>2, SMT
  <2>4. \A k \in 1..Len(t) : t[k] = r[k]
    BY <1>2
  <2>5. QED
    BY <1>1, <1>2, <2>3, <2>4, SeqEqual, Zenon
<1>8. ASSUME t = r PROVE Complete(t)
  <2>1. 2 \in DOMAIN t /\ n + 3 \in DOMAIN t
    BY <1>1, <1>2, <1>8
  <2>2. QED
    BY <1>1, <1>8, <2>1 DEF Complete, Has
<1>9. Complete(t) => BodySize(t) = Len(Body(s))
  BY <1>1, <1>6, <1>7 DEF Complete
<1>10. QED
  BY <1>6, <1>7, <1>8, <1>9 DEF r

\* Behind the request line and the headers there is the body.
LEMMA RequestLength ==
    ASSUME NEW s \in Parts
    PROVE  /\ Len(Request(s)) = Len(Body(s)) + 2
           /\ Len(Body(s)) \in Nat /\ Len(Request(s)) \in Nat
<1>1. Len(Contained(s)) \in Nat
  BY ContainedShape, LenProperties
<1>2. QED
  BY <1>1, RequestShape

\* A whole request measures what its body has.
LEMMA WholeMeasured ==
    ASSUME NEW s \in Parts
    PROVE  BodySize(Request(s)) = Len(Body(s))
<1>1. /\ Request(s) \in Seq(Token) /\ Len(Request(s)) \in Nat
      /\ Len(Request(s)) <= Len(Request(s))
  BY RequestShape, RequestLength
<1>2. Begins(Request(s), s)
  BY <1>1 DEF Begins
<1>3. QED
  BY <1>2, Measured

-----------------------------------------------------------------------------
(* The stream.                                                             *)

\* Its three parts make up the request.
Stream ==
    /\ sent \in Parts
    /\ text \in Seq(Token) /\ inbox \in Seq(Token) /\ unsent \in Seq(Token)
    /\ text \o inbox \o unsent = Request(sent)

\* A sequence is cut in two at any place.
LEMMA Cut ==
    ASSUME NEW S, NEW s \in Seq(S), NEW k \in 0..Len(s)
    PROVE  /\ SubSeq(s, 1, k) \in Seq(S) /\ From(s, k + 1) \in Seq(S)
           /\ SubSeq(s, 1, k) \o From(s, k + 1) = s
<1>1. Len(s) \in Nat /\ DOMAIN s = 1..Len(s) /\ \A i \in 1..Len(s) : s[i] \in S
  BY LenProperties, ElementOfSeq
<1>2. k \in Int /\ \A i \in 1..k : s[i] \in S
  BY <1>1
<1>3. SubSeq(s, 1, k) \in Seq(S)
  BY <1>2, SubSeqProperties
<1>4. Len(s) \in Int /\ k + 1 \in Int /\ \A i \in (k + 1)..Len(s) : s[i] \in S
  BY <1>1
<1>5. SubSeq(s, k + 1, Len(s)) \in Seq(S)
  BY <1>4, SubSeqProperties
<1>6. 1 \in 1..(Len(s) + 1) /\ k \in (1 - 1)..Len(s) /\ Len(s) \in k..Len(s)
  BY <1>1
<1>7. SubSeq(s, 1, k) \o SubSeq(s, k + 1, Len(s)) = SubSeq(s, 1, Len(s))
  BY <1>6, ConcatAdjacentSubSeq
<1>8. SubSeq(s, 1, Len(s)) = s
  BY SubSeqFull
<1>9. QED
  BY <1>3, <1>5, <1>7, <1>8 DEF From

\* recv moves what it takes from the buffer to the text, in order.
LEMMA ReceivesStream ==
    ASSUME Stream, NEW k, Receives(k)
    PROVE  Stream'
<1> DEFINE a == SubSeq(inbox, 1, k)
           b == From(inbox, k + 1)
<1>1. /\ k \in 0..Len(inbox) /\ text' = text \o a /\ inbox' = b
      /\ sent' = sent /\ unsent' = unsent
  BY DEF Receives
<1>2. /\ sent \in Parts /\ text \in Seq(Token) /\ inbox \in Seq(Token)
      /\ unsent \in Seq(Token) /\ text \o inbox \o unsent = Request(sent)
  BY DEF Stream
<1>3. a \in Seq(Token) /\ b \in Seq(Token) /\ a \o b = inbox
  BY <1>1, <1>2, Cut, Zenon
<1> HIDE DEF a, b
<1>. \A x, y, z \in Seq(Token) : (x \o y) \o z = x \o (y \o z)
  BY ConcatAssociative
<1>4. text \o a \in Seq(Token) /\ (text \o a) \o b = text \o (a \o b)
  <2>1. text \o a \in Seq(Token)
    BY <1>2, <1>3, ConcatProperties
  <2>2. (text \o a) \o b = text \o (a \o b)
    BY <1>2, <1>3
  <2>3. QED
    BY <2>1, <2>2
<1>5. (text \o a) \o b \o unsent = Request(sent)
  BY <1>2, <1>3, <1>4, Zenon
<1>6. QED
  BY <1>1, <1>2, <1>3, <1>4, <1>5, Zenon DEF Stream

\* The client's next token goes to the end of the buffer.
LEMMA SendsStream ==
    ASSUME Stream, ClientSends
    PROVE  Stream'
<1> DEFINE e == unsent[1]
           u == From(unsent, 2)
<1>1. /\ unsent # <<>> /\ inbox' = Append(inbox, e) /\ unsent' = u
      /\ sent' = sent /\ text' = text
  BY DEF ClientSends
<1>2. /\ sent \in Parts /\ text \in Seq(Token) /\ inbox \in Seq(Token)
      /\ unsent \in Seq(Token) /\ text \o inbox \o unsent = Request(sent)
  BY DEF Stream
<1>3. Len(unsent) \in Nat \ {0} /\ 1 \in 1..Len(unsent) /\ 1 \in 0..Len(unsent)
  BY <1>1, <1>2, EmptySeq
<1>4. e \in Token
  BY <1>2, <1>3, ElementOfSeq
<1>5. u \in Seq(Token) /\ SubSeq(unsent, 1, 1) \o u = unsent
  <2>1. 1 + 1 = 2
    OBVIOUS
  <2>2. QED
    BY <1>2, <1>3, <2>1, Cut
<1>6. SubSeq(unsent, 1, 1) = <<e>>
  <2>1. \A i \in 1..1 : unsent[i] \in Token
    BY <1>2, <1>3, <1>4
  <2>2. /\ SubSeq(unsent, 1, 1) \in Seq(Token) /\ Len(SubSeq(unsent, 1, 1)) = 1
        /\ SubSeq(unsent, 1, 1)[1] = unsent[1]
    BY <2>1, SubSeqProperties
  <2>3. <<e>> \in Seq(Token) /\ Len(<<e>>) = 1 /\ <<e>>[1] = unsent[1]
    BY <1>4
  <2>4. \A i \in 1..1 : i = 1
    OBVIOUS
  <2>5. QED
    BY <2>2, <2>3, <2>4, SeqEqual
<1> HIDE DEF e, u
<1>7. inbox' = inbox \o <<e>> /\ <<e>> \in Seq(Token) /\ inbox' \in Seq(Token)
  BY <1>1, <1>2, <1>4, AppendIsConcat, AppendProperties
<1>8. unsent = <<e>> \o u
  BY <1>5, <1>6
<1>. \A x, y, z \in Seq(Token) : (x \o y) \o z = x \o (y \o z)
  BY ConcatAssociative
<1>9. text \o inbox \o (<<e>> \o u) = (text \o (inbox \o <<e>>)) \o u
  <2>1. text \o inbox \in Seq(Token)
    BY <1>2, ConcatProperties, Zenon
  <2>2. (text \o inbox) \o (<<e>> \o u) = ((text \o inbox) \o <<e>>) \o u
    BY <1>5, <1>7, <2>1
  <2>3. (text \o inbox) \o <<e>> = text \o (inbox \o <<e>>)
    BY <1>2, <1>7
  <2>4. QED
    BY <2>2, <2>3, Zenon
<1>10. text' \o inbox' \o unsent' = Request(sent)
  BY <1>1, <1>2, <1>7, <1>8, <1>9, Zenon
<1>11. QED
  BY <1>1, <1>2, <1>5, <1>7, <1>10, Zenon DEF Stream

-----------------------------------------------------------------------------
(* The newlines of a text.                                                 *)

\* A token adds its newline, if it has one.
LEMMA NewlineSteps ==
    ASSUME NEW t, NEW i \in Nat
    PROVE  /\ NewlinesUpTo(t, 0) = 0
           /\ NewlinesUpTo(t, i) \in Nat
           /\ t[i + 1] \notin Bytes => NewlinesUpTo(t, i + 1) = NewlinesUpTo(t, i) + 1
           /\ t[i + 1] \in Bytes => NewlinesUpTo(t, i + 1) = NewlinesUpTo(t, i)
<1> DEFINE upTo(k) == {j \in 1..k : t[j] \notin Bytes}
<1>1. upTo(0) = {}
  OBVIOUS
<1>2. IsFiniteSet(1..i) /\ upTo(i) \subseteq 1..i
  BY FS_Interval
<1>3. IsFiniteSet(upTo(i)) /\ Cardinality(upTo(i)) \in Nat
  BY <1>2, FS_Subset, FS_CardinalityType
<1>4. i + 1 \notin upTo(i)
  OBVIOUS
<1>5. t[i + 1] \notin Bytes => upTo(i + 1) = upTo(i) \cup {i + 1}
  OBVIOUS
<1>6. t[i + 1] \in Bytes => upTo(i + 1) = upTo(i)
  OBVIOUS
<1>7. \A k : NewlinesUpTo(t, k) = Cardinality(upTo(k))
  BY DEF NewlinesUpTo
<1> HIDE DEF upTo
<1>8. Cardinality(upTo(i) \cup {i + 1}) = Cardinality(upTo(i)) + 1
  BY <1>3, <1>4, FS_AddElement
<1>9. Cardinality(upTo(0)) = 0
  BY <1>1, FS_EmptySet
<1>10. QED
  BY <1>3, <1>5, <1>6, <1>7, <1>8, <1>9

\* There are no fewer further on.
LEMMA NewlinesGrow ==
    ASSUME NEW t, NEW i \in Nat, NEW j \in Nat, i <= j
    PROVE  NewlinesUpTo(t, i) <= NewlinesUpTo(t, j)
<1> DEFINE upTo(k) == {l \in 1..k : t[l] \notin Bytes}
<1>1. IsFiniteSet(1..j) /\ upTo(j) \subseteq 1..j
  BY FS_Interval
<1>2. IsFiniteSet(upTo(j))
  BY <1>1, FS_Subset
<1>3. upTo(i) \subseteq upTo(j)
  OBVIOUS
<1>4. Cardinality(upTo(i)) <= Cardinality(upTo(j))
  BY <1>2, <1>3, FS_Subset
<1>5. QED
  BY <1>4 DEF NewlinesUpTo

\* A set of natural numbers has a least one.
LEMMA Least ==
    ASSUME NEW S \in SUBSET Nat, S # {}
    PROVE  \E x \in S : \A y \in S : x <= y
<1>1. PICK x \in S : \A y \in S : <<y, x>> \notin OpToRel(<, Nat)
  BY NatLessThanWellFounded, WFMin
<1>2. \A y \in S : <<y, x>> \in OpToRel(<, Nat) <=> y < x
  BY Zenon DEF OpToRel
<1>3. \A y \in S : ~(y < x)
  BY <1>1, <1>2, Zenon
<1>4. ASSUME NEW y \in S PROVE x <= y
  <2>1. ~(y < x)
    BY <1>3, Zenon
  <2>2. x \in Nat /\ y \in Nat
    OBVIOUS
  <2>3. QED
    BY ONLY <2>1, <2>2, SMT
<1>5. QED
  BY <1>4, Zenon

\* A text with n newlines or more has an n-th.
LEMMA NthNewline ==
    ASSUME NEW m \in Nat, NEW t, NEW n \in Nat \ {0}, n <= NewlinesUpTo(t, m)
    PROVE  \E i \in 1..m : t[i] \notin Bytes /\ NewlinesUpTo(t, i) = n
<1> DEFINE S == {i \in Nat : n <= NewlinesUpTo(t, i)}
<1>1. S \in SUBSET Nat /\ m \in S
  OBVIOUS
<1>2. PICK i \in S : \A j \in S : i <= j
  BY <1>1, Least, Zenon
<1>3. i \in Nat /\ n <= NewlinesUpTo(t, i) /\ i <= m /\ NewlinesUpTo(t, i) \in Nat
  BY <1>1, <1>2, NewlineSteps
<1>4. NewlinesUpTo(t, 0) = 0
  BY NewlineSteps
<1>5. i # 0
  BY <1>3, <1>4
<1>6. i - 1 \in Nat /\ (i - 1) + 1 = i /\ i \in 1..m
  BY <1>3, <1>5
<1>7. i - 1 \notin S
  BY <1>2, <1>3
<1>8. NewlinesUpTo(t, i - 1) \in Nat /\ NewlinesUpTo(t, i - 1) < n
  BY <1>6, <1>7, NewlineSteps
<1>9. /\ t[i] \notin Bytes => NewlinesUpTo(t, i) = NewlinesUpTo(t, i - 1) + 1
      /\ t[i] \in Bytes => NewlinesUpTo(t, i) = NewlinesUpTo(t, i - 1)
  BY <1>6, NewlineSteps
<1>10. t[i] \notin Bytes /\ NewlinesUpTo(t, i) = n
  BY <1>3, <1>8, <1>9
<1>11. QED
  BY <1>6, <1>10

\* What is cut off ends where the n-th newline is.
LEMMA AfterNewlineAt ==
    ASSUME NEW T, NEW t \in Seq(T), NEW i \in 1..Len(t), t[i] \notin Bytes
    PROVE  AfterNewline(t, NewlinesUpTo(t, i)) = From(t, 1 + i)
<1> DEFINE n == NewlinesUpTo(t, i)
           P(k) == t[k] \notin Bytes /\ NewlinesUpTo(t, k) = n
<1>1. Len(t) \in Nat /\ DOMAIN t = 1..Len(t) /\ i \in Nat /\ i - 1 \in Nat
  BY LenProperties
<1>2. \A k \in Nat : NewlinesUpTo(t, k) \in Nat
  BY NewlineSteps
<1>3. \A k \in 1..Len(t) : t[k] \notin Bytes
          => NewlinesUpTo(t, k) = NewlinesUpTo(t, k - 1) + 1
  <2>1. TAKE k \in 1..Len(t)
  <2>2. k - 1 \in Nat /\ (k - 1) + 1 = k
    BY <1>1
  <2>3. QED
    BY <2>2, NewlineSteps
<1>4. ASSUME NEW k \in 1..Len(t), P(k) PROVE k = i
  <2>1. k \in Nat /\ k - 1 \in Nat
    BY <1>1
  <2>2. CASE k < i
    <3>1. k <= i - 1
      BY <1>1, <2>1, <2>2
    <3>2. NewlinesUpTo(t, k) <= NewlinesUpTo(t, i - 1)
      BY <1>1, <2>1, <3>1, NewlinesGrow
    <3>3. NewlinesUpTo(t, i) = NewlinesUpTo(t, i - 1) + 1
      BY <1>3
    <3>4. QED
      BY <1>1, <1>2, <1>4, <2>1, <3>2, <3>3
  <2>3. CASE i < k
    <3>1. i <= k - 1
      BY <1>1, <2>1, <2>3
    <3>2. NewlinesUpTo(t, i) <= NewlinesUpTo(t, k - 1)
      BY <1>1, <2>1, <3>1, NewlinesGrow
    <3>3. NewlinesUpTo(t, k) = NewlinesUpTo(t, k - 1) + 1
      BY <1>3, <1>4
    <3>4. QED
      BY <1>1, <1>2, <1>4, <2>1, <3>2, <3>3
  <2>4. QED
    BY <1>1, <2>1, <2>2, <2>3
<1>5. (CHOOSE k \in DOMAIN t : P(k)) = i
  <2>1. i \in DOMAIN t /\ P(i)
    BY <1>1
  <2>2. \A k \in DOMAIN t : P(k) => k = i
    BY <1>1, <1>4, Zenon
  <2> HIDE DEF P
  <2>3. QED
    BY <2>1, <2>2, Zenon
<1>6. ~(NewlinesUpTo(t, Len(t)) < n)
  <2>1. n <= NewlinesUpTo(t, Len(t))
    BY <1>1, NewlinesGrow
  <2>2. QED
    BY <1>1, <1>2, <2>1
<1>7. QED
  BY <1>5, <1>6 DEF AfterNewline

\* It is a text again.
LEMMA AfterNewlineTyped ==
    ASSUME NEW T, NEW t \in Seq(T), NEW n \in Nat \ {0}
    PROVE  AfterNewline(t, n) \in Seq(T)
<1>1. Len(t) \in Nat /\ NewlinesUpTo(t, Len(t)) \in Nat
  BY LenProperties, NewlineSteps
<1>2. CASE NewlinesUpTo(t, Len(t)) < n
  BY <1>2 DEF AfterNewline
<1>3. CASE n <= NewlinesUpTo(t, Len(t))
  <2>1. PICK i \in 1..Len(t) : t[i] \notin Bytes /\ NewlinesUpTo(t, i) = n
    BY <1>1, <1>3, NthNewline
  <2>2. AfterNewline(t, n) = From(t, 1 + i)
    BY <2>1, AfterNewlineAt
  <2>3. i \in 0..Len(t) /\ 1 + i = i + 1
    BY <1>1
  <2>4. QED
    BY <2>2, <2>3, Cut
<1>4. QED
  BY <1>1, <1>2, <1>3

-----------------------------------------------------------------------------
(* The file that is cut out of a whole request.                            *)

\* From the end of the first boundary to the last: the part, behind a newline
\* that stands where the boundary was.
LEMMA PartTextShape ==
    ASSUME NEW s \in Parts
    PROVE  /\ PartText(Request(s)) \in Seq(Token)
           /\ Len(PartText(Request(s))) = Len(Contained(s))
           /\ PartText(Request(s))[1] = "lf"
           /\ \A i \in 2..Len(Contained(s)) : PartText(Request(s))[i] = Contained(s)[i]
<1> DEFINE c == Contained(s)
           n == Len(c)
           r == Request(s)
           p == From(r, FirstOf(r, {"delim"}) + 1)
           M == {i \in DOMAIN p : p[i] \in {"delim", "end"}}
           q == SubSeq(p, 1, n - 1)
<1>1. n \in Nat /\ 4 <= n /\ c[1] = "delim"
  <2>1. /\ c \in Seq(Inside) /\ n = 3 + s.headers + Len(s.payload) + Len(s.tail)
        /\ c[1] = "delim"
    BY ContainedShape
  <2>2. s.headers \in Nat \ {0} /\ Len(s.payload) \in Nat /\ Len(s.tail) \in Nat
    BY PartTypes, LenProperties
  <2> HIDE DEF n, c
  <2>3. n \in Nat /\ 4 <= n
    BY <2>1, <2>2
  <2>4. QED
    BY <2>1, <2>3
<1>2. /\ r \in Seq(Token) /\ Len(r) = n + 3 /\ r[1] = "request" /\ r[2] = "endhead"
      /\ \A i \in 1..n : r[2 + i] = c[i]
      /\ r[3 + n] = "end"
  BY RequestShape
<1> HIDE DEF c, n, r
<1>3. DOMAIN r = 1..(n + 3)
  BY <1>2, LenProperties
<1>4. FirstOf(r, {"delim"}) = 3
  <2>1. 1 \in 1..n /\ 2 + 1 = 3 /\ 3 \in DOMAIN r
    BY <1>1, <1>3
  <2>2. r[3] \in {"delim"}
    BY <1>1, <1>2, <2>1
  <2>3. \A j \in 1..(3 - 1) : r[j] \notin {"delim"}
    BY <1>2
  <2>4. ASSUME NEW k \in DOMAIN r, r[k] \in {"delim"},
               \A j \in 1..(k - 1) : r[j] \notin {"delim"}
        PROVE  k = 3
    <3>1. k # 1 /\ k # 2
      BY <1>2, <2>4
    <3>2. ~(3 \in 1..(k - 1))
      BY <2>2, <2>4
    <3>3. QED
      BY <1>1, <1>3, <3>1, <3>2
  <2>5. QED
    BY <2>1, <2>2, <2>3, <2>4, Zenon DEF FirstOf
<1>5. p = SubSeq(r, 4, n + 3)
  BY <1>2, <1>4 DEF From
<1> HIDE DEF p
<1>6. p \in Seq(Token) /\ Len(p) = n /\ \A i \in 1..n : p[i] = r[3 + i]
  <2>1. 4 \in Int /\ n + 3 \in Int /\ \A i \in 4..(n + 3) : r[i] \in Token
    BY <1>1, <1>2, <1>3, ElementOfSeq
  <2>2. /\ SubSeq(r, 4, n + 3) \in Seq(Token)
        /\ Len(SubSeq(r, 4, n + 3)) = IF 4 <= n + 3 THEN (n + 3) - 4 + 1 ELSE 0
        /\ \A i \in 1..((n + 3) - 4 + 1) : SubSeq(r, 4, n + 3)[i] = r[4 + i - 1]
    BY <2>1, SubSeqProperties
  <2>3. (n + 3) - 4 + 1 = n /\ 4 <= n + 3 /\ \A i \in 1..n : 4 + i - 1 = 3 + i
    BY <1>1
  <2>4. QED
    BY <1>5, <2>2, <2>3
<1>7. DOMAIN p = 1..n
  BY <1>6, LenProperties
<1>8. M # {} /\ Max(M) = n
  <2>1. n \in 1..n
    BY <1>1
  <2>2. n \in M
    BY <1>2, <1>6, <1>7, <2>1
  <2>3. \A i \in M : i \in Nat /\ i <= n
    BY <1>7
  <2>4. \A x \in M : (\A y \in M : x >= y) <=> x = n
    BY <1>1, <2>2, <2>3
  <2> HIDE DEF M
  <2>5. QED
    BY <2>2, <2>4, Zenon DEF Max
<1>9. PartText(r) = <<"lf">> \o q
  <2>1. PartText(r) = <<"lf">> \o IF M = {} THEN p ELSE SubSeq(p, 1, Max(M) - 1)
    BY Zenon DEF PartText, p
  <2>2. QED
    BY <1>8, <2>1, Zenon
<1>10. q \in Seq(Token) /\ Len(q) = n - 1 /\ \A i \in 1..(n - 1) : q[i] = p[i]
  <2>1. 1 \in Int /\ n - 1 \in Int /\ \A i \in 1..(n - 1) : p[i] \in Token
    BY <1>1, <1>6, ElementOfSeq
  <2>2. /\ q \in Seq(Token) /\ Len(q) = IF 1 <= n - 1 THEN (n - 1) - 1 + 1 ELSE 0
        /\ \A i \in 1..((n - 1) - 1 + 1) : q[i] = p[1 + i - 1]
    BY <2>1, SubSeqProperties
  <2>3. (n - 1) - 1 + 1 = n - 1 /\ 1 <= n - 1 /\ \A i \in 1..(n - 1) : 1 + i - 1 = i
    BY <1>1
  <2>4. QED
    BY <2>2, <2>3
<1> HIDE DEF q
<1>11. <<"lf">> \in Seq(Token) /\ Len(<<"lf">>) = 1 /\ <<"lf">>[1] = "lf"
  BY DEF Token, Marks
<1> DEFINE w == <<"lf">> \o q
<1>12. w \in Seq(Token) /\ Joins(w, <<"lf">>, q)
  BY <1>10, <1>11, Joined, Zenon
<1> HIDE DEF w
<1>13. /\ Len(w) = n /\ w[1] = "lf"
       /\ \A i \in 1..(n - 1) : w[1 + i] = q[i]
  BY <1>1, <1>10, <1>11, <1>12 DEF Joins
<1>14. ASSUME NEW i \in 2..n PROVE w[i] = c[i]
  <2>1. /\ i - 1 \in 1..(n - 1) /\ 1 + (i - 1) = i /\ i \in 1..n /\ i - 1 \in 1..n
        /\ 3 + (i - 1) = 2 + i
    BY <1>1
  <2>2. w[i] = q[i - 1] /\ q[i - 1] = p[i - 1]
    BY <1>10, <1>13, <2>1
  <2>3. p[i - 1] = r[2 + i] /\ r[2 + i] = c[i]
    BY <1>2, <1>6, <2>1
  <2>4. QED
    BY <2>2, <2>3
<1>15. QED
  BY <1>9, <1>12, <1>13, <1>14, Zenon DEF c, n, r, w

\* A file can be cut out of every whole request.
LEMMA FileTyped ==
    ASSUME NEW s \in Parts
    PROVE  FileOf(Request(s)) \in Seq(Token)
<1>1. PartText(Request(s)) \in Seq(Token) /\ 4 \in Nat \ {0}
  BY PartTextShape
<1>2. QED
  BY <1>1, AfterNewlineTyped DEF FileOf

\* With two headers and nothing behind the part, the four lines that are cut
\* off are all that is before the file.
LEMMA FileWhole ==
    ASSUME NEW s \in Parts, s.headers = 2, s.tail = <<>>
    PROVE  FileOf(Request(s)) = s.payload \o <<"crlf">>
<1> DEFINE c == Contained(s)
           m == Len(s.payload)
           w == PartText(Request(s))
           g == s.payload \o <<"crlf">>
<1>1. s.payload \in Seq(Inside) /\ m \in Nat /\ Len(s.tail) = 0
  BY PartTypes, LenProperties, EmptySeq
<1>2. /\ Len(c) = 5 + m
      /\ \A i \in 1..2 : c[1 + i] = "header"
      /\ c[4] = "blank" /\ c[5 + m] = "crlf"
      /\ \A i \in 1..m : c[4 + i] = s.payload[i]
  <2>1. /\ Len(c) = 3 + 2 + m + Len(s.tail)
        /\ \A i \in 1..2 : c[1 + i] = "header"
        /\ c[2 + 2] = "blank" /\ c[3 + 2 + m] = "crlf"
        /\ \A i \in 1..m : c[2 + 2 + i] = s.payload[i]
    BY ContainedShape
  <2>2. 3 + 2 + m + 0 = 5 + m /\ 2 + 2 = 4 /\ 3 + 2 + m = 5 + m
    BY <1>1
  <2>3. QED
    BY <1>1, <2>1, <2>2
<1>3. /\ w \in Seq(Token) /\ Len(w) = Len(c) /\ w[1] = "lf"
      /\ \A i \in 2..Len(c) : w[i] = c[i]
  BY PartTextShape
<1>4. {"lf", "header", "blank", "crlf"} \cap Bytes = {}
  BY UploadAssumption DEF Marks
<1> HIDE DEF c, m, w
<1>5. w[2] = "header" /\ w[3] = "header" /\ w[4] = "blank"
  <2>1. 2 \in 2..Len(c) /\ 3 \in 2..Len(c) /\ 4 \in 2..Len(c)
    BY <1>1, <1>2
  <2>2. c[1 + 1] = "header" /\ c[1 + 2] = "header"
    BY <1>2
  <2>3. c[2] = "header" /\ c[3] = "header"
    BY <2>2
  <2>4. QED
    BY <1>2, <1>3, <2>1, <2>3, Zenon
<1>6. NewlinesUpTo(w, 4) = 4
  <2>1. /\ w[0 + 1] \notin Bytes /\ w[1 + 1] \notin Bytes
        /\ w[2 + 1] \notin Bytes /\ w[3 + 1] \notin Bytes
    BY <1>3, <1>4, <1>5
  <2>2. NewlinesUpTo(w, 0) = 0 /\ 0 \in Nat /\ 1 \in Nat /\ 2 \in Nat /\ 3 \in Nat
    BY NewlineSteps
  <2>3. NewlinesUpTo(w, 0 + 1) = 0 + 1
    BY <2>1, <2>2, NewlineSteps
  <2>4. NewlinesUpTo(w, 1 + 1) = 1 + 1
    BY <2>1, <2>2, <2>3, NewlineSteps
  <2>5. NewlinesUpTo(w, 2 + 1) = 2 + 1
    BY <2>1, <2>2, <2>4, NewlineSteps
  <2>6. NewlinesUpTo(w, 3 + 1) = 3 + 1
    BY <2>1, <2>2, <2>5, NewlineSteps
  <2>7. QED
    BY <2>6
<1>7. AfterNewline(w, 4) = SubSeq(w, 5, 5 + m)
  <2>1. 4 \in 1..Len(w) /\ w[4] \notin Bytes
    BY <1>1, <1>2, <1>3, <1>4, <1>5
  <2>2. AfterNewline(w, NewlinesUpTo(w, 4)) = From(w, 1 + 4)
    BY <1>3, <2>1, AfterNewlineAt
  <2>3. Len(w) = 5 + m /\ 1 + 4 = 5
    BY <1>2, <1>3
  <2>4. QED
    BY <1>6, <2>2, <2>3 DEF From
<1> DEFINE f == SubSeq(w, 5, 5 + m)
<1>8. f \in Seq(Token) /\ Len(f) = m + 1 /\ \A i \in 1..(m + 1) : f[i] = w[4 + i]
  <2>1. 5 \in Int /\ 5 + m \in Int /\ \A i \in 5..(5 + m) : w[i] \in Token
    BY <1>1, <1>2, <1>3, ElementOfSeq
  <2>2. /\ f \in Seq(Token) /\ Len(f) = IF 5 <= 5 + m THEN (5 + m) - 5 + 1 ELSE 0
        /\ \A i \in 1..((5 + m) - 5 + 1) : f[i] = w[5 + i - 1]
    BY <2>1, SubSeqProperties
  <2>3. (5 + m) - 5 + 1 = m + 1 /\ 5 <= 5 + m /\ \A i \in 1..(m + 1) : 5 + i - 1 = 4 + i
    BY <1>1
  <2>4. QED
    BY <2>2, <2>3
<1> HIDE DEF f
<1>9. g \in Seq(Token) /\ Joins(g, s.payload, <<"crlf">>)
  <2>1. Inside \subseteq Token /\ "crlf" \in Token
    BY DEF Inside, Token, Marks
  <2>2. s.payload \in Seq(Token)
    BY <1>1, <2>1, SeqMonotonic, Zenon
  <2>3. QED
    BY <2>1, <2>2, JoinedOne, Zenon
<1> HIDE DEF g
<1>10. Len(<<"crlf">>) = 1 /\ <<"crlf">>[1] = "crlf"
  OBVIOUS
<1>11. /\ Len(g) = m + 1 /\ g[m + 1] = "crlf"
       /\ \A i \in 1..m : g[i] = s.payload[i]
  BY <1>1, <1>9, <1>10 DEF Joins, m
<1>12. ASSUME NEW i \in 1..(m + 1) PROVE f[i] = g[i]
  <2>1. f[i] = c[4 + i]
    <3>1. 4 + i \in 2..Len(c)
      BY <1>1, <1>2
    <3>2. QED
      BY <1>3, <1>8, <3>1
  <2>2. CASE i = m + 1
    <3>1. 4 + (m + 1) = 5 + m
      BY <1>1
    <3>2. QED
      BY <1>2, <1>11, <2>1, <2>2, <3>1
  <2>3. CASE i # m + 1
    <3>1. i \in 1..m
      BY <1>1, <2>3
    <3>2. QED
      BY <1>2, <1>11, <2>1, <3>1
  <2>4. QED
    BY <2>2, <2>3
<1>13. f = g
  BY <1>8, <1>9, <1>11, <1>12, SeqEqual
<1>14. QED
  BY <1>7, <1>13 DEF FileOf, f, g, w

-----------------------------------------------------------------------------
(* The inductive invariant.                                                *)

\* An answer is the last thing that happens, and says why: the whole request
\* was there and its file was cut out, or what there was measured too much.
Decided ==
    /\ answer # "none" => pc = "done"
    /\ answer = "200" => /\ text = Request(sent) /\ ~TooLarge(text)
                         /\ disk = FileOf(text)
    /\ answer # "200" => disk = "old"
    /\ answer = "413" => TooLarge(text)

UploadInv ==
    /\ Stream
    /\ depth \in 0..MaxDepth
    /\ pc \in {"reading", "done", "dead"}
    /\ answer \in {"none", "200", "413"}
    /\ Decided

\* Nothing is stored before the request is whole.
LEMMA StoresWhole ==
    ASSUME Stream', Complete(text')
    PROVE  text' = Request(sent')
<1>1. /\ sent' \in Parts
      /\ text' \in Seq(Token) /\ inbox' \in Seq(Token) /\ unsent' \in Seq(Token)
      /\ text' \o inbox' \o unsent' = Request(sent')
  BY DEF Stream
<1>2. Begins(text', sent')
  BY <1>1, TextBegins, Zenon
<1>3. Complete(text') <=> text' = Request(sent')
  BY <1>1, <1>2, Measured
<1>4. QED
  BY <1>3

LEMMA UploadInit == Init => UploadInv
<1> SUFFICES ASSUME Init PROVE UploadInv
  OBVIOUS
<1>1. /\ sent \in Parts /\ unsent = Request(sent) /\ inbox = <<>> /\ text = <<>>
      /\ depth = 0 /\ pc = "reading" /\ answer = "none" /\ disk = "old"
  BY DEF Init, Parts
<1>2. Request(sent) \in Seq(Token)
  BY <1>1, RequestShape
<1>3. <<>> \in Seq(Token) /\ <<>> \o <<>> = <<>> /\ <<>> \o Request(sent) = Request(sent)
  BY <1>2, EmptySeq, ConcatEmptySeq
<1>4. Stream
  BY <1>1, <1>2, <1>3 DEF Stream
<1>5. 0 \in 0..MaxDepth
  BY UploadAssumption
<1>6. QED
  BY <1>1, <1>4, <1>5 DEF UploadInv, Decided

LEMMA UploadNext == UploadInv /\ [Next]_vars => UploadInv'
<1> SUFFICES ASSUME UploadInv, [Next]_vars PROVE UploadInv'
  OBVIOUS
<1> USE DEF UploadInv
<1>1. ASSUME NEW k, Receives(k) PROVE Stream' /\ sent' = sent
  BY <1>1, ReceivesStream DEF Receives
<1>2. CASE Refuse
  <2>1. PICK k : Receives(k)
    BY <1>2 DEF Refuse
  <2>2. pc = "reading" /\ answer = "none" /\ disk = "old"
    BY <1>2 DEF Refuse, Decided
  <2>3. /\ TooLarge(text') /\ answer' = "413" /\ pc' = "done"
        /\ depth' = depth /\ disk' = disk
    BY <1>2 DEF Refuse
  <2>4. Decided'
    BY <2>2, <2>3 DEF Decided
  <2>5. QED
    BY <1>1, <2>1, <2>3, <2>4
<1>3. CASE StoreFile
  <2>1. PICK k : Receives(k)
    BY <1>3 DEF StoreFile
  <2>2. /\ ~TooLarge(text') /\ Complete(text') /\ disk' = FileOf(text')
        /\ answer' = "200" /\ pc' = "done" /\ depth' = depth
    BY <1>3 DEF StoreFile
  <2>3. text' = Request(sent')
    BY <1>1, <2>1, <2>2, StoresWhole
  <2>4. Decided'
    BY <2>2, <2>3 DEF Decided
  <2>5. QED
    BY <1>1, <2>1, <2>2, <2>4
<1>4. CASE OpenFails
  <2>1. PICK k : Receives(k)
    BY <1>4 DEF OpenFails
  <2>2. /\ pc = "reading" /\ answer = "none" /\ disk = "old"
        /\ pc' = "dead" /\ depth' = depth /\ answer' = answer /\ disk' = disk
    BY <1>4 DEF OpenFails, Decided
  <2>3. Decided'
    BY <2>2 DEF Decided
  <2>4. QED
    BY <1>1, <2>1, <2>2, <2>3
<1>5. CASE Recurse
  <2>1. PICK k : Receives(k)
    BY <1>5 DEF Recurse
  <2>2. /\ pc = "reading" /\ answer = "none" /\ disk = "old"
        /\ answer' = answer /\ disk' = disk
    BY <1>5 DEF Recurse, Decided
  <2>3. \/ depth < MaxDepth /\ depth' = depth + 1 /\ pc' = pc
        \/ pc' = "dead" /\ depth' = depth
    BY <1>5 DEF Recurse
  <2>4. depth' \in 0..MaxDepth /\ pc' \in {"reading", "dead"}
    BY <2>2, <2>3, UploadAssumption
  <2>5. Decided'
    BY <2>2 DEF Decided
  <2>6. QED
    BY <1>1, <2>1, <2>2, <2>4, <2>5
<1>6. CASE ClientSends
  <2>1. Stream'
    BY <1>6, SendsStream
  <2>2. /\ sent' = sent /\ text' = text /\ depth' = depth /\ pc' = pc
        /\ answer' = answer /\ disk' = disk
    BY <1>6 DEF ClientSends
  <2>3. Decided'
    BY <2>2 DEF Decided
  <2>4. QED
    BY <2>1, <2>2, <2>3
<1>7. CASE UNCHANGED vars
  BY <1>7 DEF vars, clientVars, Stream, Decided
<1>8. QED
  BY <1>2, <1>3, <1>4, <1>5, <1>6, <1>7 DEF Next

\* So it always holds.
LEMMA UploadAlways == Spec => []UploadInv
  BY UploadInit, UploadNext, PTL DEF Spec

-----------------------------------------------------------------------------
(* The theorems.                                                           *)

\* Received, waiting and unsent are together what the client sends, in order
\* and once, through any number of recursions of checkRequest.
THEOREM UploadTypeCorrect == Spec => []TypeOK
<1>1. UploadInv => TypeOK
  <2> SUFFICES ASSUME UploadInv PROVE TypeOK
    OBVIOUS
  <2>1. FileOf(Request(sent)) \in Seq(Token)
    BY FileTyped DEF UploadInv, Stream
  <2>2. disk = "old" \/ disk \in Seq(Token)
    BY <2>1 DEF UploadInv, Decided
  <2>3. QED
    BY <2>2 DEF UploadInv, Stream, Parts, TypeOK
<1>2. QED
  BY UploadAlways, <1>1, PTL

\* However recv cuts the request into pieces, and whatever the file is,
\* handleMultipartRequest stores it to the last byte, and one line end more,
\* when its part has two headers.
THEOREM StoredWholeHolds == Spec => []StoredWhole
<1>1. UploadInv => StoredWhole
  <2> SUFFICES ASSUME UploadInv, answer = "200", sent.headers = 2, sent.tail = <<>>
               PROVE  disk = sent.payload \o <<"crlf">>
    BY DEF StoredWhole
  <2>1. sent \in Parts /\ disk = FileOf(Request(sent))
    BY DEF UploadInv, Stream, Decided
  <2>2. QED
    BY <2>1, FileWhole
<1>2. QED
  BY UploadAlways, <1>1, PTL

\* checkBodysize lets no body over the limit through, though it measures what
\* has come so far and handleUpload asks it again and again.
THEOREM LimitHoldsAlways == Spec => []LimitHolds
<1>1. UploadInv => LimitHolds
  <2> SUFFICES ASSUME UploadInv, Len(Body(sent)) > MaxBody PROVE answer # "200"
    BY DEF UploadInv, Decided, LimitHolds
  <2>1. SUFFICES ASSUME answer = "200" PROVE FALSE
    OBVIOUS
  <2>2. sent \in Parts /\ text = Request(sent) /\ ~(BodySize(text) > MaxBody)
    BY <2>1 DEF UploadInv, Stream, Decided, TooLarge
  <2>3. BodySize(text) = Len(Body(sent))
    BY <2>2, WholeMeasured
  <2>4. QED
    BY <2>2, <2>3
<1>2. QED
  BY UploadAlways, <1>1, PTL

\* A 413 of an upload is for its body, unless checkBodysize took the headers
\* for one.
THEOREM RefusedForBodyHolds == Spec => []RefusedForBody
<1>1. UploadInv => RefusedForBody
  <2> SUFFICES ASSUME UploadInv, answer = "413", Has(text, "endhead")
               PROVE  Len(Body(sent)) > MaxBody
    BY DEF RefusedForBody
  <2>1. sent \in Parts /\ BodySize(text) > MaxBody
    BY DEF UploadInv, Stream, Decided, TooLarge
  <2>2. Begins(text, sent)
    BY TextBegins DEF UploadInv, Stream
  <2>3. /\ BodySize(text) = Len(text) - 2 /\ Len(text) <= Len(Request(sent))
        /\ Len(text) \in Nat
    BY <2>1, <2>2, Measured, LenProperties DEF Begins
  <2>4. /\ Len(Request(sent)) = Len(Body(sent)) + 2
        /\ Len(Body(sent)) \in Nat /\ Len(Request(sent)) \in Nat
    BY <2>1, RequestLength
  <2>5. MaxBody \in Nat
    BY UploadAssumption
  <2>6. QED
    BY <2>1, <2>3, <2>4, <2>5
<1>2. QED
  BY UploadAlways, <1>1, PTL

\* A client that stops in the middle leaves the old file as it was:
\* handleMultipartRequest opens it only when the whole request is there.
THEOREM ReplacedOnlyWholeHolds == Spec => ReplacedOnlyWhole
<1>1. UploadInv /\ [Next]_vars => [disk' # disk => text' = Request(sent)]_vars
  <2> SUFFICES ASSUME UploadInv, [Next]_vars, disk' # disk
               PROVE  text' = Request(sent)
    BY DEF vars
  <2>1. StoreFile
    BY DEF Next, Refuse, OpenFails, Recurse, ClientSends, vars
  <2>2. PICK k : Receives(k)
    BY <2>1 DEF StoreFile
  <2>3. Stream' /\ Complete(text') /\ sent' = sent
    BY <2>1, <2>2, ReceivesStream DEF UploadInv, StoreFile, Receives
  <2>4. QED
    BY <2>3, StoresWhole
<1>2. QED
  BY UploadAlways, <1>1, PTL DEF Spec, ReplacedOnlyWhole
=============================================================================
