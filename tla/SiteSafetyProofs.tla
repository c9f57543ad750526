-------------------------- MODULE SiteSafetyProofs --------------------------
(***************************************************************************)
(* What holds of a site for every configuration, every set of requests and *)
(* every state of the disk: each request is answered, none ends the        *)
(* process but an upload with no place to go, and the disk changes one     *)
(* path at a time where the location allows it.                            *)
(***************************************************************************)
EXTENDS Site, SequenceTheorems, FiniteSetTheorems, WellFoundedInduction, TLAPS

-----------------------------------------------------------------------------
(* Routing.                                                                *)

\* Numbers below a bound have a greatest.
LEMMA Greatest ==
    ASSUME NEW S \in SUBSET Nat, S # {}, NEW m \in Nat, \A x \in S : x <= m
    PROVE  \E x \in S : \A y \in S : y <= x
<1> DEFINE D == {m - x : x \in S}
<1>1. D \in SUBSET Nat /\ D # {}
  <2>1. \A x \in S : x \in Nat /\ x <= m
    OBVIOUS
  <2>2. \A x \in S : m - x \in Nat
    BY <2>1
  <2>3. QED
    BY <2>2
<1>2. PICK d \in D : \A e \in D : <<e, d>> \notin OpToRel(<, Nat)
  BY <1>1, NatLessThanWellFounded, WFMin
<1>3. \A e \in D : <<e, d>> \in OpToRel(<, Nat) <=> e < d
  BY <1>1, Zenon DEF OpToRel
<1>4. \A e \in D : ~(e < d)
  BY <1>2, <1>3, Zenon
<1>5. PICK x \in S : d = m - x
  OBVIOUS
<1>6. ASSUME NEW y \in S PROVE y <= x
  <2>1. ~(m - y < m - x)
    BY <1>4, <1>5
  <2>2. x \in Nat /\ y \in Nat
    OBVIOUS
  <2>3. QED
    BY ONLY <2>1, <2>2, m \in Nat, SMT
<1>7. QED
  BY <1>6

\* getLocation returns a location that matches, if there is one: of those that
\* match one is the longest.
LEMMA LocationMatches ==
    ASSUME NEW url \in Seq(STRING), NEW server, Matching(url, server) # {},
           \A l \in server.locations : l.path \in Seq(STRING)
    PROVE  getLocation(url, server) \in Matching(url, server)
<1> DEFINE M == Matching(url, server)
           S == {Len(l.path) : l \in M}
<1>1. Len(url) \in Nat
  BY LenProperties
<1>2. \A l \in M : Len(l.path) \in Nat /\ Len(l.path) <= Len(url)
  BY LenProperties DEF Matching, IsPrefix
<1>3. S \in SUBSET Nat /\ S # {} /\ \A x \in S : x <= Len(url)
  BY <1>2
<1>4. PICK x \in S : \A y \in S : y <= x
  BY <1>1, <1>3, Greatest
<1>5. PICK b \in M : x = Len(b.path)
  BY <1>4
<1>6. \A l \in M : Len(l.path) <= Len(b.path)
  BY <1>4, <1>5
<1>7. QED
  BY <1>5, <1>6, Zenon DEF getLocation

\* A location that takes a POST is one of the server's, and its path leads to
\* the URL.
LEMMA PostsSomewhere ==
    ASSUME conf \in Confs, NEW r \in Requests, Known(r), "POST" \in Loc(r).methods
    PROVE  /\ Loc(r) \in ServerOf(r).locations
           /\ IsPrefix(Loc(r).path, r.url)
           /\ Loc(r).path \in Seq(STRING)
<1>1. /\ r.url \in Seq(STRING)
      /\ \A l \in ServerOf(r).locations : l.path \in Seq(STRING)
  BY SiteAssumption DEF PathsFit, Known, ServerOf
<1>2. Matching(r.url, ServerOf(r)) # {}
  BY DEF Loc, getLocation, NoLocation
<1>3. Loc(r) \in Matching(r.url, ServerOf(r))
  BY <1>1, <1>2, LocationMatches, Zenon DEF Loc
<1>4. QED
  BY <1>1, <1>3 DEF Matching

-----------------------------------------------------------------------------
(* Where an upload goes.                                                   *)

\* A path that ends in a name is no directory's with a slash behind it.
LEMMA NameEndsPath ==
    ASSUME NEW path \in Seq(STRING), NEW name \in STRING \ {"/"}
    PROVE  Trimmed(Under(path, name)) = Under(path, name)
<1> DEFINE S == STRING \cup {"/"}
           t == IF Last(path) = "/" THEN <<name>> ELSE <<"/", name>>
<1>1. t \in Seq(S) /\ Len(t) \in Nat \ {0} /\ t[Len(t)] = name
  <2>1. name \in S /\ "/" \in S
    OBVIOUS
  <2> HIDE DEF S
  <2>2. /\ <<name>> \in Seq(S) /\ Len(<<name>>) = 1 /\ <<name>>[1] = name
        /\ <<"/", name>> \in Seq(S) /\ Len(<<"/", name>>) = 2
        /\ <<"/", name>>[2] = name
    BY <2>1
  <2>3. QED
    BY <2>2
<1>. path \in Seq(S)
  BY SeqMonotonic
<1> HIDE DEF t, S
<1> DEFINE p == path \o t
<1>2. p = Under(path, name)
  BY DEF Under, t
<1>3. /\ p \in Seq(S) /\ Len(p) = Len(path) + Len(t) /\ Len(path) \in Nat
      /\ \A i \in 1..(Len(path) + Len(t)) :
             p[i] = IF i <= Len(path) THEN path[i] ELSE t[i - Len(path)]
  BY <1>1, ConcatProperties, LenProperties
<1> HIDE DEF p
<1>4. p[Len(p)] = name
  <2>1. Len(p) \in 1..(Len(path) + Len(t)) /\ ~(Len(p) <= Len(path))
        /\ Len(p) - Len(path) = Len(t)
    <3>1. /\ Len(t) \in Nat \ {0} /\ Len(path) \in Nat
          /\ Len(p) = Len(path) + Len(t)
      BY <1>1, <1>3
    <3>2. QED
      BY ONLY <3>1, SMT
  <2>2. QED
    BY <1>1, <1>3, <2>1
<1>5. Trimmed(p) = p
  BY <1>4 DEF Trimmed, Last
<1>6. QED
  BY <1>2, <1>5

\* The path of a file that is stored is one there may be, and names no
\* directory but itself.
LEMMA TargetPath ==
    ASSUME conf \in Confs, NEW r \in Requests, Known(r), "POST" \in Loc(r).methods,
           r.url = UploadUrl
    PROVE  /\ Target(r, Loc(r)) \in Paths
           /\ Trimmed(Target(r, Loc(r))) = Target(r, Loc(r))
<1> DEFINE l == Loc(r)
<1>1. l \in ServerOf(r).locations /\ IsPrefix(l.path, UploadUrl) /\ l.path \in Seq(STRING)
  BY PostsSomewhere
<1>2. Target(r, l) \in Paths
  BY <1>1, SiteAssumption DEF PathsFit, Target, Known, ServerOf
<1>3. r.name \in STRING \ {"/"}
  BY SiteAssumption DEF PathsFit
<1> HIDE DEF l
<1>4. Trimmed(Target(r, l)) = Target(r, l)
  BY <1>1, <1>3, NameEndsPath DEF Target
<1>5. QED
  BY <1>2, <1>4 DEF l

-----------------------------------------------------------------------------
(* The handlers.                                                           *)

\* An answer as TypeOK has it, that is none only for a script.
Proper(r, l, a) ==
    /\ a.status \in Statuses /\ a.file \in Contents \cup {NoFile}
    /\ a.status = "none" => /\ r.method \in {"GET", "POST"}
                            /\ Admitted(r, l) /\ IsScript(r, l)

\* What the disk holds is a content or nothing.
DiskTyped == files \in [Paths -> Contents \cup {NoFile}]

\* A handler that reads a file answers with its content, or with 404.
LEMMA AnswersTyped ==
    ASSUME DiskTyped
    PROVE  /\ \A p : Content(p) \in Contents \cup {NoFile}
           /\ \A p, r, l : Proper(r, l, Reads(p)) /\ Proper(r, l, Page(Content(p)))
           /\ \A s \in Statuses \ {"none"} : \A r, l : Proper(r, l, Answer(s))
           /\ \A n, r, l : Proper(r, l, Listing(n))
<1>1. ASSUME NEW p PROVE Content(p) \in Contents \cup {NoFile}
  BY DEF Content, Exists, DiskTyped
<1>2. ASSUME NEW s \in Statuses \ {"none"}, NEW r, NEW l PROVE Proper(r, l, Answer(s))
  BY DEF Proper, Answer
<1>3. ASSUME NEW n, NEW r, NEW l PROVE Proper(r, l, Listing(n))
  BY DEF Proper, Listing, Statuses
<1>4. ASSUME NEW p, NEW r, NEW l PROVE Proper(r, l, Page(Content(p)))
  BY <1>1 DEF Proper, Page, Statuses
<1>5. ASSUME NEW p, NEW r, NEW l PROVE Proper(r, l, Reads(p))
  <2>1. "404" \in Statuses \ {"none"}
    BY DEF Statuses
  <2>2. QED
    BY <1>2, <1>4, <2>1 DEF Reads
<1>6. QED
  BY <1>1, <1>2, <1>3, <1>4, <1>5

\* Five handlers alone change the disk or end the process; the others do no
\* more than answer.
LEMMA HandlerShape ==
    ASSUME DiskTyped, NEW r, NEW l, Dispatch(r, l)
    PROVE  \/ \E a : Only(r, a) /\ Proper(r, l, a)
           \/ Upload(r, l) \/ UploadFails(r, l) \/ UploadRecurses(r, l)
           \/ DeleteFile(r, l) \/ DeleteDir(r, l)
<1>1. \A s \in {"200", "301", "404", "405", "413", "500", "cgi"} : Proper(r, l, Answer(s))
  <2>1. \A s \in {"200", "301", "404", "405", "413", "500", "cgi"} : s \in Statuses \ {"none"}
    BY DEF Statuses
  <2>2. QED
    BY <2>1, AnswersTyped
<1>2. CASE NoPlace(r, l) \/ TooLarge(r, l) \/ NotAllowed(r, l)
  BY <1>1, <1>2 DEF NoPlace, TooLarge, NotAllowed
<1>3. ASSUME handleFormulario(r, l) PROVE \E a : Only(r, a) /\ Proper(r, l, a)
  BY <1>3, AnswersTyped DEF handleFormulario
<1>4. CASE autoIndex(r, l)
  <2>1. CASE IsDir(r.url)
    BY <1>4, <2>1, AnswersTyped DEF autoIndex
  <2>2. CASE ~IsDir(r.url)
    BY <1>3, <1>4, <2>2 DEF autoIndex
  <2>3. QED
    BY <2>1, <2>2
<1>5. CASE Redirect(r, l) \/ handleRoot(r, l) \/ handleFavicon(r, l) \/ showUpload(r, l)
  BY <1>1, <1>5, AnswersTyped DEF Redirect, handleRoot, handleFavicon, showUpload
<1>6. CASE getCGIvariables(r, l) \/ getCGIvariablesPost(r, l)
  <2>1. r.method \in {"GET", "POST"} /\ Admitted(r, l) /\ IsScript(r, l)
    BY <1>6 DEF getCGIvariables, getCGIvariablesPost, GetsPage, Gets, Posts
  <2>2. Proper(r, l, Answer("none")) /\ Proper(r, l, Answer("cgi"))
    BY <1>1, <2>1 DEF Proper, Answer, Statuses
  <2>3. Only(r, Answer("none")) \/ Only(r, Answer("cgi"))
    BY <1>6 DEF getCGIvariables, getCGIvariablesPost, handle_cgi_request
  <2>4. QED
    BY <2>2, <2>3
<1>7. CASE ServeFile(r, l)
  BY <1>3, <1>7 DEF ServeFile
<1>8. CASE OtherPost(r, l)
  BY <1>1, <1>8 DEF OtherPost
<1>9. CASE DeleteNothing(r, l) \/ DeleteRefused(r, l)
  BY <1>1, <1>9 DEF DeleteNothing, DeleteRefused
<1>10. QED
  BY <1>2, <1>4, <1>5, <1>6, <1>7, <1>8, <1>9 DEF Dispatch, handleDelete

-----------------------------------------------------------------------------
(* The types.                                                              *)

\* A handler's pass keeps the types: an upload puts a file where there is no
\* directory, and what is removed leaves no path of both kinds.
LEMMA HandlerTypes ==
    ASSUME TypeOK, NEW r \in Requests, Known(r), Dispatch(r, Loc(r))
    PROVE  TypeOK'
<1>. DEFINE l == Loc(r)
<1>1. CASE \E a : Only(r, a) /\ Proper(r, l, a)
  BY <1>1 DEF TypeOK, Only, Responds, disk, Proper
<1>2. CASE Upload(r, l)
  <2>. DEFINE t == Target(r, l)
  <2>1. /\ files' = [files EXCEPT ![t] = r.content] /\ dirs' = dirs /\ up' = up /\ conf' = conf
        /\ asked' = r /\ response' = Answer("200")
    BY <1>2 DEF Upload, Responds
  <2>2. conf \in Confs /\ "POST" \in l.methods /\ r.url = UploadUrl /\ ~IsDir(t)
    BY <1>2 DEF Upload, Posts, CanStore, TypeOK
  <2>3. t \in Paths /\ t \notin dirs
    BY <2>2, TargetPath DEF IsDir
  <2>4. r.content \in Contents
    BY SiteAssumption DEF PathsFit
  <2> HIDE DEF t
  <2>5. files' \in [Paths -> Contents \cup {NoFile}]
    BY <2>1, <2>4 DEF TypeOK
  <2>6. \A d \in dirs : files'[d] = NoFile
    BY <2>1, <2>3, SiteAssumption DEF PathsFit, TypeOK
  <2>7. QED
    BY <2>1, <2>5, <2>6 DEF TypeOK, Answer, Statuses
<1>3. CASE UploadFails(r, l) \/ UploadRecurses(r, l)
  <2>1. /\ asked' = r /\ response' = Answer("none") /\ up' = FALSE
        /\ conf' = conf /\ files' = files /\ dirs' = dirs
    BY <1>3 DEF UploadFails, UploadRecurses, Dies, disk
  <2>2. QED
    BY <2>1 DEF TypeOK, Answer, Statuses
<1>4. CASE DeleteFile(r, l) \/ DeleteDir(r, l)
  <2>1. /\ asked' = r /\ response' = Answer("200") /\ up' = up /\ conf' = conf
        /\ dirs' \subseteq dirs
        /\ files' = files \/ files' = [files EXCEPT ![r.url] = NoFile]
    BY <1>4 DEF DeleteFile, DeleteDir, Responds
  <2>2. /\ files' \in [Paths -> Contents \cup {NoFile}]
        /\ \A p \in Paths : files[p] = NoFile => files'[p] = NoFile
    BY <2>1 DEF TypeOK
  <2>3. dirs' \in SUBSET Dirs /\ \A d \in dirs' : files'[d] = NoFile
    BY <2>1, <2>2, SiteAssumption DEF PathsFit, TypeOK
  <2>4. QED
    BY <2>1, <2>2, <2>3 DEF TypeOK, Answer, Statuses
<1>5. QED
  BY <1>1, <1>2, <1>3, <1>4, HandlerShape DEF TypeOK, DiskTyped

-----------------------------------------------------------------------------
(* The invariant.                                                          *)

SiteInv == TypeOK /\ Answered /\ Outlives

LEMMA SiteInit == Init => SiteInv
<1> SUFFICES ASSUME Init PROVE SiteInv
  OBVIOUS
<1>1. PICK f \in [Paths \ Dirs -> Contents \cup {NoFile}] :
          files = [p \in Paths |-> IF p \in Dirs THEN NoFile ELSE f[p]]
  BY DEF Init
<1>2. files \in [Paths -> Contents \cup {NoFile}]
  BY <1>1
<1>3. \A d \in Dirs : files[d] = NoFile
  BY <1>1, SiteAssumption DEF PathsFit
<1>4. /\ conf \in Confs /\ dirs = Dirs /\ up = TRUE /\ asked = NoRequest
      /\ response = Answer("none")
  BY DEF Init
<1>5. TypeOK
  BY <1>2, <1>3, <1>4 DEF TypeOK, Answer, Statuses
<1>6. QED
  BY <1>4, <1>5 DEF SiteInv, Answered, Outlives

\* A request to a server there is.
LEMMA HandlerKeeps ==
    ASSUME SiteInv, up, NEW r \in Requests, Known(r), Dispatch(r, Loc(r))
    PROVE  SiteInv'
<1>1. TypeOK'
  BY HandlerTypes DEF SiteInv
<1>2. CASE \E a : Only(r, a) /\ Proper(r, Loc(r), a)
  <2>1. PICK a : Only(r, a) /\ Proper(r, Loc(r), a)
    BY <1>2
  <2>2. asked' = r /\ response' = a /\ conf' = conf /\ up' = up
    BY <2>1 DEF Only, Responds
  <2>3. Answered'
    BY <2>1, <2>2 DEF Answered, Proper, Loc, ServerOf
  <2>4. QED
    BY <1>1, <2>2, <2>3 DEF SiteInv, Outlives
<1>3. CASE Upload(r, Loc(r)) \/ DeleteFile(r, Loc(r)) \/ DeleteDir(r, Loc(r))
  <2>1. response' = Answer("200") /\ up' = up
    BY <1>3 DEF Upload, DeleteFile, DeleteDir, Responds
  <2>2. QED
    BY <1>1, <2>1 DEF SiteInv, Answered, Outlives, Answer
<1>4. CASE UploadFails(r, Loc(r)) \/ UploadRecurses(r, Loc(r))
  <2>1. /\ asked' = r /\ up' = FALSE /\ conf' = conf /\ files' = files /\ dirs' = dirs
        /\ r.method = "POST" /\ r.url = UploadUrl
        /\ ~r.form \/ ~IsDir(Loc(r).path) \/ IsDir(Target(r, Loc(r)))
    BY <1>4 DEF UploadFails, UploadRecurses, Dies, disk, Posts, CanStore
  <2>2. QED
    BY <1>1, <2>1 DEF SiteInv, Answered, Outlives, IsDir, Loc, ServerOf, Target
<1>5. QED
  BY <1>2, <1>3, <1>4, HandlerShape DEF SiteInv, TypeOK, DiskTyped

\* A request to a server there is not ends the process.
LEMMA NoServerKeeps ==
    ASSUME SiteInv, NEW r \in Requests, NoServer(r)
    PROVE  SiteInv'
<1>1. /\ asked' = r /\ response' = Answer("none") /\ up' = FALSE /\ conf' = conf
      /\ files' = files /\ dirs' = dirs /\ ~Known(r)
  BY DEF NoServer, Dies, disk
<1>2. TypeOK'
  BY <1>1 DEF SiteInv, TypeOK, Answer, Statuses
<1>3. QED
  BY <1>1, <1>2 DEF SiteInv, Answered, Outlives, Known

LEMMA SiteNext == SiteInv /\ [Next]_vars => SiteInv'
<1>1. ASSUME SiteInv, Next PROVE SiteInv'
  <2>1. PICK r \in Requests : checkRequest(r)
    BY <1>1 DEF Next
  <2>2. CASE NoServer(r)
    BY <1>1, <2>2, NoServerKeeps
  <2>3. CASE ~NoServer(r)
    <3>1. up /\ Known(r) /\ Dispatch(r, Loc(r))
      BY <2>1, <2>3 DEF checkRequest
    <3>2. QED
      BY <1>1, <3>1, HandlerKeeps
  <2>4. QED
    BY <2>2, <2>3
<1>2. ASSUME SiteInv, UNCHANGED vars PROVE SiteInv'
  <2>1. /\ conf' = conf /\ files' = files /\ dirs' = dirs /\ up' = up
        /\ asked' = asked /\ response' = response
    BY <1>2 DEF vars, disk
  <2>2. TypeOK'
    BY <1>2, <2>1 DEF SiteInv, TypeOK
  <2>3. Answered'
    BY <1>2, <2>1 DEF SiteInv, Answered, Loc, ServerOf
  <2>4. Outlives'
    BY <1>2, <2>1 DEF SiteInv, Outlives, Known, IsDir, Loc, ServerOf, Target
  <2>5. QED
    BY <2>2, <2>3, <2>4 DEF SiteInv
<1>3. QED
  BY <1>1, <1>2

\* So it always holds.
LEMMA SiteAlways == Spec => []SiteInv
  BY SiteInit, SiteNext, PTL DEF Spec

-----------------------------------------------------------------------------
(* The theorems.                                                           *)

\* The state stays of its types: no path is ever of a file and of a directory.
THEOREM SiteTypeCorrect == Spec => []TypeOK
<1>1. SiteInv => TypeOK
  BY DEF SiteInv
<1>2. QED
  BY <1>1, SiteAlways, PTL

\* checkRequest answers every request that it survives, but for a GET or POST of
\* a script, which may leave no answer.
THEOREM AnsweredHolds == Spec => []Answered
<1>1. SiteInv => Answered
  BY DEF SiteInv
<1>2. QED
  BY <1>1, SiteAlways, PTL

\* A request to a server there is ends the process only if it is an upload
\* that is no whole form, or has no place to go.
THEOREM OutlivesHolds == Spec => []Outlives
<1>1. SiteInv => Outlives
  BY DEF SiteInv
<1>2. QED
  BY <1>1, SiteAlways, PTL

\* What the disk of ChangesAreListed may lose or gain in a step.
Touched == {p \in Paths : files'[p] # files[p]} \cup (dirs \ dirs')

\* A handler changes the disk only where the location takes a POST and a body
\* of this size, and then at one path.
LEMMA HandlerTouches ==
    ASSUME SiteInv, NEW r \in Requests, Known(r), Dispatch(r, Loc(r)), disk' # disk
    PROVE  /\ "POST" \in Loc(r).methods /\ FitsBody(r, Loc(r)) /\ asked' = r
           /\ \E p : Touched = {p}
<1>. DEFINE l == Loc(r)
<1>1. conf \in Confs /\ DiskTyped
  BY DEF SiteInv, TypeOK, DiskTyped
<1>2. ~UploadFails(r, l) /\ ~UploadRecurses(r, l) /\ ~(\E a : Only(r, a))
  BY DEF UploadFails, UploadRecurses, Dies, Only
<1>3. Upload(r, l) \/ DeleteFile(r, l) \/ DeleteDir(r, l)
  BY <1>1, <1>2, HandlerShape
<1>4. "POST" \in l.methods /\ FitsBody(r, l) /\ asked' = r
  BY <1>3 DEF Upload, DeleteFile, DeleteDir, Posts, Deletes, Admitted, Responds
<1>5. CASE Upload(r, l)
  <2>. DEFINE t == Target(r, l)
  <2>1. files' = [files EXCEPT ![t] = r.content] /\ dirs' = dirs
    BY <1>5 DEF Upload
  <2>2. t \in Paths
    BY <1>1, <1>4, <1>5, TargetPath DEF Upload
  <2>. HIDE DEF t
  <2>3. files' # files
    BY <2>1 DEF disk
  <2>4. files'[t] # files[t] /\ \A p \in Paths \ {t} : files'[p] = files[p]
    BY <1>1, <2>1, <2>2, <2>3 DEF DiskTyped
  <2>5. Touched = {t}
    BY <2>1, <2>2, <2>4 DEF Touched
  <2>6. QED
    BY <1>4, <2>5
<1>6. CASE DeleteFile(r, l)
  <2>1. /\ files' = [files EXCEPT ![r.url] = NoFile] /\ dirs' = dirs
        /\ r.url \in Paths /\ files[r.url] # NoFile
    BY <1>6 DEF DeleteFile, Exists
  <2>2. files'[r.url] # files[r.url] /\ \A p \in Paths \ {r.url} : files'[p] = files[p]
    BY <1>1, <2>1 DEF DiskTyped
  <2>3. Touched = {r.url}
    BY <2>1, <2>2 DEF Touched
  <2>4. QED
    BY <1>4, <2>3
<1>7. CASE DeleteDir(r, l)
  <2>1. files' = files /\ dirs' = dirs \ {Trimmed(r.url)} /\ Trimmed(r.url) \in dirs
    BY <1>7 DEF DeleteDir, IsDir
  <2>2. Touched = {Trimmed(r.url)}
    BY <2>1 DEF Touched
  <2>3. QED
    BY <1>4, <2>2
<1>8. QED
  BY <1>3, <1>5, <1>6, <1>7

\* Whatever the requests, the disk changes one path at a time, and only where
\* the location lists POST and takes a body of this size.
THEOREM ChangesAreListedHolds == Spec => ChangesAreListed
<1> DEFINE Listed == /\ "POST" \in Loc(asked').methods /\ FitsBody(asked', Loc(asked'))
                     /\ Cardinality(Touched) = 1
<1>1. ASSUME SiteInv, Next, disk' # disk PROVE Listed
  <2>1. PICK r \in Requests : checkRequest(r)
    BY <1>1 DEF Next
  <2>2. ~NoServer(r)
    BY <1>1 DEF NoServer, Dies
  <2>3. Known(r) /\ Dispatch(r, Loc(r))
    BY <2>1, <2>2 DEF checkRequest
  <2>4. /\ "POST" \in Loc(r).methods /\ FitsBody(r, Loc(r)) /\ asked' = r
        /\ \E p : Touched = {p}
    BY <1>1, <2>3, HandlerTouches
  <2>5. Cardinality(Touched) = 1
    BY <2>4, FS_Singleton
  <2>6. QED
    BY <2>4, <2>5
<1>2. SiteInv /\ [Next]_vars => [disk' # disk => Listed]_vars
  BY <1>1 DEF vars
<1>3. QED
  BY <1>2, SiteAlways, PTL DEF Spec, ChangesAreListed, Touched
=============================================================================
