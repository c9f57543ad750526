----------------------------- MODULE SiteProofs -----------------------------
(***************************************************************************)
(* A site is a FileStore, for every set of configurations, requests and    *)
(* paths that StoreAssumption admits.                                      *)
(***************************************************************************)
EXTENDS SiteStore, SequenceTheorems, TLAPS

-----------------------------------------------------------------------------
(* Paths.                                                                  *)

\* /upload is made of two pieces.
LEMMA PiecesOfUpload == "/" \in Pieces /\ "upload" \in Pieces
  BY StoreAssumption

\* The name of an upload is one piece, not a slash.
LEMMA NamesArePieces == \A n \in Names : n \in Pieces /\ n # "/"
  BY StoreAssumption

\* Paths are equal when they are so piece by piece.
LEMMA SamePath ==
    ASSUME NEW s \in Seq(Pieces), NEW t \in Seq(Pieces), Len(s) = Len(t),
           \A i \in 1..Len(s) : s[i] = t[i]
    PROVE  s = t
  BY SeqEqual

\* The same for the paths of four pieces.
LEMMA FourPieces ==
    ASSUME NEW s \in Seq(Pieces), NEW t \in Seq(Pieces), Len(s) = 4, Len(t) = 4,
           s[1] = t[1], s[2] = t[2], s[3] = t[3], s[4] = t[4]
    PROVE  s = t
<1>1. \A i \in 1..4 : i = 1 \/ i = 2 \/ i = 3 \/ i = 4
  OBVIOUS
<1>2. \A i \in 1..4 : s[i] = t[i]
  BY <1>1
<1>3. QED
  BY <1>2, SamePath

\* The path of an upload has four pieces, the last is its name.
LEMMA UploadFileShape ==
    ASSUME NEW n \in Pieces
    PROVE  /\ UploadFile(n) \in Seq(Pieces) /\ Len(UploadFile(n)) = 4
           /\ UploadFile(n)[1] = "/" /\ UploadFile(n)[2] = "upload"
           /\ UploadFile(n)[3] = "/" /\ UploadFile(n)[4] = n
  BY PiecesOfUpload DEF UploadFile

\* The path of an upload has no slash at its end and is no fixed URL.
LEMMA UploadFileIsFile ==
    ASSUME NEW n \in Pieces, n # "/"
    PROVE  /\ Last(UploadFile(n)) = n
           /\ Trimmed(UploadFile(n)) = UploadFile(n)
           /\ UploadFile(n) \notin {Slash, Favicon, UploadUrl}
<1>1. Last(UploadFile(n)) = n
  BY UploadFileShape DEF Last
<1>2. Trimmed(UploadFile(n)) = UploadFile(n)
  BY <1>1 DEF Trimmed
<1>3. Len(Slash) = 1 /\ Len(Favicon) = 2 /\ Len(UploadUrl) = 2
  BY DEF Slash, Favicon, UploadUrl
<1>4. QED
  BY <1>1, <1>2, <1>3, UploadFileShape

\* Where handleUpload puts a name below /upload.
LEMMA UnderUpload ==
    ASSUME NEW n \in Pieces
    PROVE  Under(UploadUrl, n) = UploadFile(n)
<1> DEFINE tail == <<"/", n>>
<1>1. Last(UploadUrl) # "/"
  BY DEF Last, UploadUrl
<1>2. UploadUrl \in Seq(Pieces) /\ Len(UploadUrl) = 2 /\ tail \in Seq(Pieces) /\ Len(tail) = 2
  BY PiecesOfUpload DEF UploadUrl
<1>3. /\ UploadUrl[1] = "/" /\ UploadUrl[2] = "upload"
      /\ tail[1] = "/" /\ tail[2] = n
  BY DEF UploadUrl
<1> HIDE DEF tail
<1>4. /\ UploadUrl \o tail \in Seq(Pieces)
      /\ Len(UploadUrl \o tail) = 4
      /\ \A i \in 1..4 : (UploadUrl \o tail)[i]
                             = IF i <= 2 THEN UploadUrl[i] ELSE tail[i - 2]
  BY <1>2, ConcatProperties
<1>5. /\ (UploadUrl \o tail)[1] = "/" /\ (UploadUrl \o tail)[2] = "upload"
      /\ (UploadUrl \o tail)[3] = tail[1] /\ (UploadUrl \o tail)[4] = tail[2]
  BY <1>3, <1>4
<1>6. UploadUrl \o tail = UploadFile(n)
  <2> DEFINE s == UploadUrl \o tail   t == UploadFile(n)
  <2>1. /\ s \in Seq(Pieces) /\ Len(s) = 4
        /\ s[1] = "/" /\ s[2] = "upload" /\ s[3] = "/" /\ s[4] = n
    BY <1>3, <1>4, <1>5
  <2>2. /\ t \in Seq(Pieces) /\ Len(t) = 4
        /\ t[1] = "/" /\ t[2] = "upload" /\ t[3] = "/" /\ t[4] = n
    BY UploadFileShape
  <2> HIDE DEF s, t
  <2>3. s = t
    BY <2>1, <2>2, FourPieces
  <2>4. QED
    BY <2>3 DEF s, t
<1>7. QED
  BY <1>1, <1>6 DEF Under, tail

UploadSlash == <<"/", "upload", "/">>

\* The same with the slash already there.
LEMMA UnderUploadSlash ==
    ASSUME NEW n \in Pieces
    PROVE  Under(UploadSlash, n) = UploadFile(n)
<1> DEFINE tail == <<n>>   s == UploadSlash \o tail   t == UploadFile(n)
<1>1. /\ UploadSlash \in Seq(Pieces) /\ Len(UploadSlash) = 3
      /\ tail \in Seq(Pieces) /\ Len(tail) = 1 /\ tail[1] = n
  BY PiecesOfUpload DEF UploadSlash
<1>2. /\ UploadSlash[1] = "/" /\ UploadSlash[2] = "upload" /\ UploadSlash[3] = "/"
      /\ Last(UploadSlash) = "/"
  BY DEF UploadSlash, Last
<1>3. t \in Seq(Pieces) /\ Len(t) = 4 /\ t[1] = "/" /\ t[2] = "upload" /\ t[3] = "/" /\ t[4] = n
  BY UploadFileShape
<1>4. Under(UploadSlash, n) = s
  BY <1>2 DEF Under
<1> HIDE DEF tail, t
<1>5. /\ s \in Seq(Pieces) /\ Len(s) = 4
      /\ \A i \in 1..4 : s[i] = IF i <= 3 THEN UploadSlash[i] ELSE tail[i - 3]
  BY <1>1, ConcatProperties
<1> HIDE DEF s
<1>6. s[1] = "/" /\ s[2] = "upload" /\ s[3] = "/" /\ s[4] = n
  BY <1>1, <1>2, <1>5
<1>7. s = t
  BY <1>3, <1>5, <1>6, FourPieces
<1>8. QED
  BY <1>4, <1>7 DEF t

\* Uploads with different names have different paths.
LEMMA UploadFileInjective ==
    ASSUME NEW m \in Pieces, NEW n \in Pieces, UploadFile(m) = UploadFile(n)
    PROVE  m = n
  BY UploadFileShape

\* /upload has no slash to trim.
LEMMA TrimmedUpload == Trimmed(UploadUrl) = UploadUrl
  BY DEF Trimmed, UploadUrl, Last

\* A path that is trimmed to UploadUrl has at most a slash more.
LEMMA TrimmedToUpload ==
    ASSUME NEW p \in Seq(Pieces), Trimmed(p) = UploadUrl
    PROVE  p = UploadUrl \/ p = UploadSlash
<1>1. CASE Len(p) > 1 /\ Last(p) = "/"
  <2>1. SubSeq(p, 1, Len(p) - 1) = UploadUrl /\ Len(p) \in Nat
    BY <1>1 DEF Trimmed, Front
  <2>2. /\ Len(UploadUrl) = Len(p) - 1
        /\ \A i \in 1..(Len(p) - 1) : UploadUrl[i] = p[i]
    BY <1>1, <2>1
  <2>3. Len(p) = 3
    BY <2>1, <2>2 DEF UploadUrl
  <2>4. p[1] = "/" /\ p[2] = "upload" /\ p[3] = "/"
    BY <1>1, <2>2, <2>3 DEF UploadUrl, Last
  <2>5. UploadSlash \in Seq(Pieces) /\ Len(UploadSlash) = 3
    BY PiecesOfUpload DEF UploadSlash
  <2>6. \A i \in 1..3 : p[i] = UploadSlash[i]
    BY <2>4 DEF UploadSlash
  <2>7. QED
    BY <2>3, <2>5, <2>6, SamePath
<1>2. CASE ~(Len(p) > 1 /\ Last(p) = "/")
  BY <1>2 DEF Trimmed
<1>3. QED
  BY <1>1, <1>2

-----------------------------------------------------------------------------
(* Routing.                                                                *)

\* A prefix agrees piece by piece: what getLocation compares.
LEMMA PrefixIndexwise ==
    ASSUME NEW s \in Seq(Pieces), NEW t \in Seq(Pieces)
    PROVE  IsPrefix(s, t) <=> Len(s) <= Len(t) /\ \A i \in 1..Len(s) : s[i] = t[i]
<1>1. ASSUME Len(s) <= Len(t)
      PROVE  /\ SubSeq(s, 1, Len(s)) = s
             /\ SubSeq(t, 1, Len(s)) \in Seq(Pieces)
             /\ Len(SubSeq(t, 1, Len(s))) = Len(s)
             /\ \A i \in 1..Len(s) : SubSeq(t, 1, Len(s))[i] = t[i]
  BY <1>1
<1>2. QED
  BY <1>1, SamePath DEF IsPrefix

\* A location for the uploads, as StoreAssumption has it.
UploadPlace(l) ==
    /\ l.path = UploadUrl /\ {"GET", "POST"} \subseteq l.methods
    /\ l.index = "" /\ l.ext = {}

\* URLs the upload pages use.
OfStore(url) == url = UploadUrl \/ \E n \in Names : url = UploadFile(n)

\* The lengths of the URLs of the store.
LEMMA TwoOrFour ==
    ASSUME NEW k, k = 2 \/ k = 4
    PROVE  k \in Nat /\ 2 <= k /\ k <= 4
  OBVIOUS

\* Every URL of the store starts with /upload and is none of the fixed ones.
LEMMA UrlsOfStore ==
    ASSUME NEW url \in Seq(Pieces), OfStore(url)
    PROVE  /\ Len(url) \in Nat /\ 2 <= Len(url) /\ Len(url) <= 4 /\ IsPrefix(UploadUrl, url)
           /\ url \notin {Slash, Favicon}
<1>1. Len(UploadUrl) = 2 /\ UploadUrl[1] = "/" /\ UploadUrl[2] = "upload"
      /\ UploadUrl \in Seq(Pieces)
  BY PiecesOfUpload DEF UploadUrl
<1>2. (Len(url) = 2 \/ Len(url) = 4) /\ url[1] = "/" /\ url[2] = "upload"
  <2>1. CASE url = UploadUrl
    BY <1>1, <2>1
  <2>2. ASSUME NEW n \in Names, url = UploadFile(n)
        PROVE  Len(url) = 4 /\ url[1] = "/" /\ url[2] = "upload"
    BY <2>2, NamesArePieces, UploadFileShape
  <2>3. QED
    BY <2>1, <2>2 DEF OfStore
<1>3. url # Slash
  <2>1. Len(Slash) = 1
    BY DEF Slash
  <2>2. QED
    BY <1>2, <2>1
<1>6. Len(url) \in Nat /\ 2 <= Len(url) /\ Len(url) <= 4
  BY <1>2, TwoOrFour
<1>4. url # Favicon
  <2>1. Favicon[2] = "favicon.ico"
    BY DEF Favicon
  <2>2. QED
    BY <1>2, <2>1
<1>5. IsPrefix(UploadUrl, url)
  BY <1>1, <1>2, <1>6, PrefixIndexwise
<1>7. QED
  BY <1>3, <1>4, <1>5, <1>6

\* Arithmetic for the locations longer than /upload.
LEMMA UpToFour ==
    ASSUME NEW k \in Nat, k <= 4
    PROVE  /\ k # 4 => k <= 3
           /\ k # 3 /\ k # 4 => k <= 2
  OBVIOUS

\* getLocation finds the location /upload for every URL of the store.
LEMMA Routed ==
    ASSUME conf \in Confs, NEW r \in Requests, Known(r), OfStore(r.url)
    PROVE  UploadPlace(Loc(r))
<1> DEFINE server == ServerOf(r)   M == Matching(r.url, server)   l == Loc(r)
<1>1. /\ r.url \in Seq(Pieces)
      /\ \E m \in server.locations : m.path = UploadUrl
      /\ \A m \in server.locations :
             m.path \in Seq(Pieces) /\ (IsPrefix(UploadUrl, m.path) => UploadPlace(m))
  BY StoreAssumption DEF Known, ServerOf, UploadPlace
<1>2. Len(r.url) \in Nat /\ 2 <= Len(r.url) /\ Len(r.url) <= 4 /\ IsPrefix(UploadUrl, r.url)
  BY <1>1, UrlsOfStore
<1>3. PICK u \in M : u.path = UploadUrl
  BY <1>1, <1>2 DEF Matching
<1>4. ASSUME NEW m \in M PROVE Len(m.path) \in Nat /\ Len(m.path) <= 4
  <2>1. m \in server.locations /\ IsPrefix(m.path, r.url)
    BY DEF Matching
  <2>2. m.path \in Seq(Pieces)
    BY <1>1, <2>1
  <2>3. Len(m.path) <= Len(r.url)
    BY <1>1, <2>1, <2>2, PrefixIndexwise
  <2>4. QED
    BY <1>2, <2>2, <2>3
<1>5. Len(UploadUrl) = 2 /\ UploadUrl \in Seq(Pieces)
  BY PiecesOfUpload DEF UploadUrl
<1>6. \E b \in M : \A m \in M : Len(m.path) <= Len(b.path)
  <2> HIDE DEF M
  <2>1. CASE \E b \in M : Len(b.path) = 4
    <3>1. PICK b \in M : Len(b.path) = 4
      BY <2>1
    <3>2. ASSUME NEW m \in M PROVE Len(m.path) <= Len(b.path)
      BY <1>4, <3>1
    <3>3. QED
      BY <3>2
  <2>2. CASE (\E b \in M : Len(b.path) = 3) /\ ~(\E b \in M : Len(b.path) = 4)
    <3>1. PICK b \in M : Len(b.path) = 3
      BY <2>2
    <3>2. ASSUME NEW m \in M PROVE Len(m.path) <= Len(b.path)
      <4>1. Len(m.path) \in Nat /\ Len(m.path) <= 4 /\ Len(m.path) # 4
        BY <1>4, <2>2
      <4>2. QED
        BY <3>1, <4>1, UpToFour
    <3>3. QED
      BY <3>2
  <2>3. CASE ~(\E b \in M : Len(b.path) = 3) /\ ~(\E b \in M : Len(b.path) = 4)
    <3>1. ASSUME NEW m \in M PROVE Len(m.path) <= 2
      <4>1. Len(m.path) \in Nat /\ Len(m.path) <= 4 /\ Len(m.path) # 3 /\ Len(m.path) # 4
        BY <1>4, <2>3
      <4>2. QED
        BY <4>1, UpToFour
    <3>2. QED
      BY <1>3, <1>5, <3>1
  <2>4. QED
    BY <2>1, <2>2, <2>3
<1>7. l \in M /\ \A m \in M : Len(m.path) <= Len(l.path)
  BY <1>3, <1>6 DEF Loc, getLocation
<1>8. l \in server.locations /\ IsPrefix(l.path, r.url) /\ l.path \in Seq(Pieces)
  BY <1>1, <1>7 DEF Matching
<1>9. Len(l.path) >= 2 /\ Len(l.path) <= Len(r.url) /\ \A i \in 1..Len(l.path) : l.path[i] = r.url[i]
  BY <1>1, <1>3, <1>5, <1>7, <1>8, PrefixIndexwise
<1>10. \A i \in 1..2 : UploadUrl[i] = r.url[i]
  BY <1>1, <1>2, <1>5, PrefixIndexwise
<1>11. IsPrefix(UploadUrl, l.path)
  BY <1>5, <1>8, <1>9, <1>10, PrefixIndexwise
<1>12. QED
  BY <1>1, <1>8, <1>11

-----------------------------------------------------------------------------
(* What a request is to the store.                                         *)

\* A POST of a whole form to /upload is a put.
LEMMA PutOp ==
    ASSUME NEW r, IsPut(r)
    PROVE  OpOf(r) = "put" /\ NameOf(r) = r.name
  BY DEF OpOf, NameOf, IsPut, IsList

\* A GET of /upload is a list.
LEMMA ListOp ==
    ASSUME NEW r, IsList(r)
    PROVE  OpOf(r) = "list" /\ NameOf(r) = NoFile /\ ~IsPut(r)
<1>1. ~IsPut(r) /\ r.method # "DELETE"
  BY DEF IsPut, IsList
<1>2. ~IsFileOf(r)
  BY NamesArePieces, UploadFileIsFile DEF IsList, IsFileOf
<1>3. QED
  BY <1>1, <1>2 DEF OpOf, NameOf

\* A GET or DELETE of the path of an upload is a get or a remove.
LEMMA FileOp ==
    ASSUME NEW r, NEW n \in Names, r.url = UploadFile(n), r.method \in {"GET", "DELETE"}
    PROVE  /\ OpOf(r) = (IF r.method = "GET" THEN "get" ELSE "remove")
           /\ NameOf(r) = n /\ ~IsPut(r)
<1>1. r.url # UploadUrl /\ Last(r.url) = n
  BY NamesArePieces, UploadFileIsFile
<1>2. ~IsPut(r) /\ ~IsList(r) /\ IsFileOf(r)
  BY <1>1 DEF IsPut, IsList, IsFileOf
<1>3. QED
  BY <1>1, <1>2 DEF OpOf, NameOf

\* All other requests are not the store's.
LEMMA OtherOp ==
    ASSUME NEW r, ~IsPut(r), ~IsList(r), ~(IsFileOf(r) /\ r.method \in {"GET", "DELETE"})
    PROVE  OpOf(r) = "other"
  BY DEF OpOf

\* What the store says after a request that is its own.
LEMMA ReplySpoken ==
    ASSUME NEW r \in Requests, NEW a, asked' = r, response' = a, conf' = conf,
           Known(r), OpOf(r) # "other", a.status = "413" => IsPut(r)
    PROVE  StoreReply' = Store!Said(OpOf(r), NameOf(r), a.status, a.file, a.names)
<1>1. Spoken(asked)'
  BY DEF Spoken, Known
<1>2. QED
  BY <1>1 DEF StoreReply, Store!Said

\* After any other it says nothing.
LEMMA ReplyUnsaid ==
    ASSUME NEW r, NEW a, asked' = r, response' = a, conf' = conf,
           ~Known(r) \/ OpOf(r) = "other" \/ (a.status = "413" /\ ~IsPut(r))
    PROVE  StoreReply' = Unsaid
<1>1. ~Spoken(asked)'
  BY DEF Spoken, Known
<1>2. QED
  BY <1>1 DEF StoreReply

-----------------------------------------------------------------------------
(* The invariant, and the steps.                                           *)

\* There is no upload without the directory of the uploads, and that is no
\* file, not even when it was removed.
UploadsInPlace ==
    /\ conf \in Confs
    /\ files \in [Paths -> Contents \cup {NoFile}]
    /\ dirs \subseteq Dirs
    /\ up \in BOOLEAN
    /\ files[UploadUrl] = NoFile
    /\ UploadUrl \notin dirs => \A n \in Names : files[UploadFile(n)] = NoFile

\* Where the directory and the uploads are among the paths.
LEMMA UploadPaths ==
    /\ UploadUrl \in Dirs /\ UploadUrl \in Paths /\ Dirs \subseteq Paths
    /\ \A n \in Names : UploadFile(n) \in Paths /\ UploadFile(n) \notin Dirs
  BY StoreAssumption, SiteAssumption DEF PathsFit

\* The store changes only with the disk.
LEMMA QuietDisk ==
    ASSUME UNCHANGED disk
    PROVE  StoreFiles' = StoreFiles /\ StoreOpen' = StoreOpen
  BY DEF disk, StoreFiles, StoreOpen

\* A step that keeps the store and says nothing is a step of the store.
LEMMA OtherStep ==
    ASSUME up, up' \in BOOLEAN, StoreFiles' = StoreFiles, StoreOpen' = StoreOpen,
           StoreReply' = Unsaid
    PROVE  Store!Next
<1>1. Store!Other
  BY DEF Store!Other
<1>2. QED
  BY <1>1 DEF Store!Next

\* An answer to what the store does not speak of, with the disk as it was.
LEMMA QuietAnswer ==
    ASSUME up \in BOOLEAN, up, NEW r, NEW a, Only(r, a),
           ~Known(r) \/ OpOf(r) = "other" \/ (a.status = "413" /\ ~IsPut(r))
    PROVE  Store!Next
<1>1. asked' = r /\ response' = a /\ conf' = conf /\ up' = up /\ UNCHANGED disk
  BY DEF Only, Responds
<1>2. up' \in BOOLEAN
  BY <1>1
<1>3. StoreReply' = Unsaid
  BY <1>1, ReplyUnsaid
<1>4. QED
  BY <1>1, <1>2, <1>3, QuietDisk, OtherStep

\* In the location /upload the size of the body alone admits a GET, POST or DELETE.
LEMMA PlaceServes ==
    ASSUME NEW r, NEW l, UploadPlace(l)
    PROVE  /\ Located(r, l) /\ (Admitted(r, l) <=> FitsBody(r, l))
           /\ r.method = "GET" => (Gets(r, l) <=> FitsBody(r, l))
           /\ r.method = "POST" => (Posts(r, l) <=> FitsBody(r, l))
           /\ r.method = "DELETE" => (Deletes(r, l) <=> FitsBody(r, l))
<1>1. l # NoLocation
  <2>1. NoLocation.path = <<>> /\ UploadUrl # <<>>
    BY DEF NoLocation, UploadUrl
  <2>2. QED
    BY <2>1 DEF UploadPlace
<1>2. Located(r, l)
  BY <1>1 DEF Located
<1>3. QED
  BY <1>2 DEF Admitted, Gets, Posts, Deletes, UploadPlace

\* A POST of a whole form to /upload is stored, refused for its size, or ends the process.
LEMMA PutSteps ==
    ASSUME UploadsInPlace, up, NEW r \in Requests, Known(r), IsPut(r),
           NEW l, UploadPlace(l), Dispatch(r, l)
    PROVE  Store!Next
<1>1. /\ r.url = UploadUrl /\ r.method = "POST" /\ r.form
      /\ r.name \in Names /\ r.content \in Contents
  BY StoreAssumption DEF IsPut
<1>2. Target(r, l) = UploadFile(r.name)
  BY <1>1, NamesArePieces, UnderUpload DEF Target, UploadPlace
<1>3. Located(r, l) /\ (Posts(r, l) <=> FitsBody(r, l)) /\ (Admitted(r, l) <=> FitsBody(r, l))
  BY <1>1, PlaceServes
<1>4. ~Gets(r, l) /\ ~Deletes(r, l)
  BY <1>1 DEF Gets, Deletes
<1>5. TooLarge(r, l) \/ Upload(r, l) \/ UploadFails(r, l)
  BY <1>1, <1>3, <1>4
     DEF Dispatch, NoPlace, NotAllowed, autoIndex, Redirect, handleRoot, handleFavicon,
         showUpload, getCGIvariables, ServeFile, GetsPage, getCGIvariablesPost, OtherPost,
         UploadRecurses, handleDelete, DeleteFile, DeleteNothing, DeleteRefused, DeleteDir
<1>6. OpOf(r) = "put" /\ NameOf(r) = r.name
  BY PutOp
<1>7. CASE TooLarge(r, l)
  <2>1. Only(r, Answer("413"))
    BY <1>7 DEF TooLarge
  <2>2. StoreReply' = Store!Said("put", r.name, "413", NoFile, {})
    BY <2>1, <1>6, ReplySpoken DEF Only, Responds, Answer
  <2>3. Store!PutRefused(r.name)
    BY <2>1, <2>2, QuietDisk DEF Store!PutRefused, Only, Responds
  <2>4. QED
    BY <2>3, <1>1 DEF Store!Next
<1>8. CASE Upload(r, l)
  <2>1. /\ files' = [files EXCEPT ![UploadFile(r.name)] = r.content]
        /\ dirs' = dirs /\ Responds(r, Answer("200"))
    BY <1>2, <1>8 DEF Upload
  <2>2. UploadUrl \in dirs
    BY <1>8, TrimmedUpload DEF Upload, CanStore, IsDir, UploadPlace
  <2>3. StoreFiles' = [StoreFiles EXCEPT ![r.name] = r.content]
    <3>1. \A n \in Names : files'[UploadFile(n)]
                              = IF n = r.name THEN r.content ELSE files[UploadFile(n)]
      BY <1>1, <2>1, UploadPaths, NamesArePieces, UploadFileInjective DEF UploadsInPlace
    <3>2. QED
      BY <1>1, <3>1 DEF StoreFiles
  <2>4. StoreReply' = Store!Said("put", r.name, "200", NoFile, {})
    BY <2>1, <1>6, ReplySpoken DEF Responds, Answer
  <2>5. Store!Put(r.name, r.content)
    BY <2>1, <2>2, <2>3, <2>4 DEF Store!Put, StoreOpen, Responds
  <2>6. QED
    BY <2>5, <1>1 DEF Store!Next
<1>9. CASE UploadFails(r, l)
  <2>1. Dies(r)
    BY <1>9 DEF UploadFails
  <2>2. UploadUrl \notin dirs
    <3>1. ~IsDir(Target(r, l))
      BY <1>1, <1>2, UploadPaths, NamesArePieces, UploadFileIsFile DEF IsDir, UploadsInPlace
    <3>2. QED
      BY <1>9, <3>1, TrimmedUpload DEF UploadFails, CanStore, IsDir, UploadPlace
  <2>3. StoreReply' = Store!Said("put", r.name, "none", NoFile, {})
    BY <2>1, <1>6, ReplySpoken DEF Dies, Answer
  <2>4. Store!PutLost(r.name)
    BY <2>1, <2>2, <2>3, QuietDisk DEF Store!PutLost, StoreOpen, Dies
  <2>5. QED
    BY <2>4, <1>1 DEF Store!Next
<1>10. QED
  BY <1>5, <1>7, <1>8, <1>9

\* showUpload lists the names of the uploads there are.
LEMMA NamesListed ==
    ASSUME UploadsInPlace
    PROVE  NamesIn(UploadUrl) = Store!Present
<1>1. CASE UploadUrl \notin dirs
  BY <1>1, TrimmedUpload DEF NamesIn, IsDir, UploadsInPlace, Store!Present, StoreFiles
<1>2. CASE UploadUrl \in dirs
  <2>1. NamesIn(UploadUrl) = {Last(q) : q \in Entries(UploadUrl)}
    BY <1>2, TrimmedUpload DEF NamesIn, IsDir
  <2>2. ASSUME NEW q \in Entries(UploadUrl)
        PROVE  Last(q) \in Names /\ files[UploadFile(Last(q))] # NoFile
    <3>1. q \in Paths /\ q = Under(UploadUrl, Last(q)) /\ (q \in dirs \/ Exists(q))
      BY UploadPaths DEF Entries, UploadsInPlace
    <3>2. Last(q) \in Names
      BY <3>1, StoreAssumption
    <3>3. q = UploadFile(Last(q))
      BY <3>1, <3>2, NamesArePieces, UnderUpload
    <3>4. q \notin dirs
      BY <3>2, <3>3, UploadPaths DEF UploadsInPlace
    <3>5. QED
      BY <3>1, <3>2, <3>3, <3>4 DEF Exists
  <2>3. ASSUME NEW n \in Names, files[UploadFile(n)] # NoFile
        PROVE  \E q \in Entries(UploadUrl) : Last(q) = n
    <3>1. Last(UploadFile(n)) = n /\ Under(UploadUrl, n) = UploadFile(n)
      BY NamesArePieces, UploadFileIsFile, UnderUpload
    <3>2. Exists(UploadFile(n))
      BY <2>3, UploadPaths DEF Exists
    <3>3. UploadFile(n) \in Entries(UploadUrl)
      BY <3>1, <3>2, UploadPaths DEF Entries
    <3>4. QED
      BY <3>1, <3>3
  <2>4. Store!Present = {n \in Names : files[UploadFile(n)] # NoFile}
    BY DEF Store!Present, StoreFiles
  <2>5. QED
    BY <2>1, <2>2, <2>3, <2>4
<1>3. QED
  BY <1>1, <1>2

\* Every refusal for the size of the body but that of an upload.
LEMMA RefusedStep ==
    ASSUME up \in BOOLEAN, up, NEW r, ~IsPut(r), NEW l, TooLarge(r, l)
    PROVE  Store!Next
  BY QuietAnswer DEF TooLarge, Answer

\* A GET of /upload lists the store, unless it is refused for its size.
LEMMA ListSteps ==
    ASSUME UploadsInPlace, up, NEW r \in Requests, Known(r), IsList(r),
           NEW l, UploadPlace(l), Dispatch(r, l)
    PROVE  Store!Next
<1>1. r.url = UploadUrl /\ r.method = "GET"
  BY DEF IsList
<1>2. r.url \notin {Slash, Favicon, ServerOf(r).root}
  <2>1. r.url \notin {Slash, Favicon}
    BY <1>1, StoreAssumption, UrlsOfStore DEF OfStore
  <2>2. conf[r.host].root # UploadUrl
    BY StoreAssumption DEF Known, UploadsInPlace
  <2>3. QED
    BY <1>1, <2>1, <2>2 DEF ServerOf
<1>3. Located(r, l) /\ (Gets(r, l) <=> FitsBody(r, l)) /\ (Admitted(r, l) <=> FitsBody(r, l))
  BY <1>1, PlaceServes
<1>4. ~Posts(r, l) /\ ~Deletes(r, l)
  BY <1>1 DEF Posts, Deletes
<1>5. TooLarge(r, l) \/ autoIndex(r, l) \/ showUpload(r, l)
  BY <1>1, <1>2, <1>3, <1>4
     DEF Dispatch, NoPlace, NotAllowed, Redirect, handleRoot, handleFavicon,
         getCGIvariables, ServeFile, IsPlain, Upload, UploadFails, UploadRecurses,
         getCGIvariablesPost, OtherPost, handleDelete, DeleteFile, DeleteNothing, DeleteRefused, DeleteDir
<1>6. OpOf(r) = "list" /\ NameOf(r) = NoFile /\ ~IsPut(r)
  BY ListOp
<1>7. ASSUME Only(r, Listing(NamesIn(UploadUrl)))
      PROVE  Store!Next
  <2>1. StoreReply' = Store!Said("list", NoFile, "200", NoFile, Store!Present)
    BY <1>6, <1>7, NamesListed, ReplySpoken DEF Only, Responds, Listing
  <2>2. Store!List
    BY <1>7, <2>1, QuietDisk DEF Store!List, Only, Responds
  <2>3. QED
    BY <2>2 DEF Store!Next
<1>8. ASSUME handleFormulario(r, l), ~IsDir(UploadUrl)
      PROVE  Store!Next
  <2>1. UploadUrl \notin dirs
    BY <1>8, TrimmedUpload DEF IsDir
  <2>2. Only(r, Answer("404"))
    BY <1>1, <1>8, <2>1 DEF handleFormulario, FileFor, Reads, Readable, Exists,
                            UploadPlace, UploadsInPlace
  <2>3. Store!Present = {}
    BY <2>1 DEF UploadsInPlace, Store!Present, StoreFiles
  <2>4. StoreReply' = Store!Said("list", NoFile, "404", NoFile, Store!Present)
    BY <1>6, <2>2, <2>3, ReplySpoken DEF Only, Responds, Answer
  <2>5. Store!List
    BY <2>1, <2>2, <2>4, QuietDisk DEF Store!List, StoreOpen, Only, Responds
  <2>6. QED
    BY <2>5 DEF Store!Next
<1>9. up \in BOOLEAN
  BY DEF UploadsInPlace
<1>10. QED
  BY <1>1, <1>5, <1>6, <1>7, <1>8, <1>9, RefusedStep DEF autoIndex, showUpload

\* An upload is never a directory.
LEMMA FileIsNoDir ==
    ASSUME UploadsInPlace, NEW n \in Names
    PROVE  /\ ~IsDir(UploadFile(n))
           /\ Exists(UploadFile(n)) <=> n \in Store!Present
           /\ StoreFiles[n] = files[UploadFile(n)]
<1>1. ~IsDir(UploadFile(n))
  BY UploadPaths, NamesArePieces, UploadFileIsFile DEF IsDir, UploadsInPlace
<1>2. QED
  BY <1>1, UploadPaths DEF Exists, Store!Present, StoreFiles

\* A GET of an upload answers with what is stored, or 404.
LEMMA GetSteps ==
    ASSUME UploadsInPlace, up, NEW r \in Requests, Known(r),
           NEW n \in Names, r.url = UploadFile(n), r.method = "GET",
           NEW l, UploadPlace(l), Dispatch(r, l)
    PROVE  Store!Next
<1>1. r.url \notin {Slash, Favicon, UploadUrl, ServerOf(r).root}
  <2>1. r.url \notin {Slash, Favicon, UploadUrl}
    BY NamesArePieces, UploadFileIsFile
  <2>2. conf[r.host].root # UploadFile(n)
    <3>1. \A c \in Confs : \A a \in DOMAIN c :
              c[a].root \notin {UploadFile(m) : m \in Names}
      BY StoreAssumption
    <3>2. QED
      BY <3>1 DEF Known, UploadsInPlace
  <2>3. QED
    BY <2>1, <2>2 DEF ServerOf
<1>2. Located(r, l) /\ (Gets(r, l) <=> FitsBody(r, l)) /\ (Admitted(r, l) <=> FitsBody(r, l))
  BY PlaceServes
<1>3. ~Posts(r, l) /\ ~Deletes(r, l)
  BY DEF Posts, Deletes
<1>4. ~IsScript(r, l)
  BY DEF IsScript, UploadPlace
<1>5. TooLarge(r, l) \/ autoIndex(r, l) \/ ServeFile(r, l)
  BY <1>1, <1>2, <1>3, <1>4
     DEF Dispatch, NoPlace, NotAllowed, Redirect, handleRoot, handleFavicon, showUpload,
         getCGIvariables, Upload, UploadFails, UploadRecurses, getCGIvariablesPost, OtherPost,
         handleDelete, DeleteFile, DeleteNothing, DeleteRefused, DeleteDir
<1>6. OpOf(r) = "get" /\ NameOf(r) = n /\ ~IsPut(r)
  BY FileOp
<1>7. up \in BOOLEAN
  BY DEF UploadsInPlace
<1>8. CASE TooLarge(r, l)
  BY <1>6, <1>7, <1>8, RefusedStep
<1>9. CASE handleFormulario(r, l)
  <2>1. Only(r, Reads(UploadFile(n)))
    BY <1>9 DEF handleFormulario, FileFor, UploadPlace
  <2>2. Reads(UploadFile(n)) = IF n \in Store!Present THEN Page(StoreFiles[n]) ELSE Answer("404")
    BY FileIsNoDir DEF Reads, Readable, Content
  <2>3. n \notin Store!Present => StoreFiles[n] = NoFile
    BY DEF Store!Present
  <2>4. StoreReply' = Store!Said("get", n, IF n \in Store!Present THEN "200" ELSE "404",
                                 StoreFiles[n], {})
    <3>1. CASE n \in Store!Present
      <4>1. Only(r, Page(StoreFiles[n]))
        BY <2>1, <2>2, <3>1
      <4>2. QED
        BY <1>6, <3>1, <4>1, ReplySpoken DEF Only, Responds, Page
    <3>2. CASE n \notin Store!Present
      <4>1. Only(r, Answer("404"))
        BY <2>1, <2>2, <3>2
      <4>2. QED
        BY <1>6, <2>3, <3>2, <4>1, ReplySpoken DEF Only, Responds, Answer
    <3>3. QED
      BY <3>1, <3>2
  <2>5. Store!Get(n)
    BY <2>1, <2>4, QuietDisk DEF Store!Get, Only, Responds
  <2>6. QED
    BY <2>5 DEF Store!Next
<1>10. ~IsDir(r.url)
  BY FileIsNoDir
<1>11. QED
  BY <1>5, <1>8, <1>9, <1>10 DEF autoIndex, ServeFile

\* A DELETE of an upload removes it, or answers 404.
LEMMA RemoveSteps ==
    ASSUME UploadsInPlace, up, NEW r \in Requests, Known(r),
           NEW n \in Names, r.url = UploadFile(n), r.method = "DELETE",
           NEW l, UploadPlace(l), Dispatch(r, l)
    PROVE  Store!Next
<1>1. Located(r, l) /\ (Deletes(r, l) <=> FitsBody(r, l)) /\ (Admitted(r, l) <=> FitsBody(r, l))
  BY PlaceServes
<1>2. ~Gets(r, l) /\ ~Posts(r, l)
  BY DEF Gets, Posts
<1>3. ~IsDir(r.url) /\ (Exists(r.url) <=> n \in Store!Present) /\ StoreFiles[n] = files[r.url]
  BY FileIsNoDir
<1>4. TooLarge(r, l) \/ DeleteFile(r, l) \/ DeleteNothing(r, l)
  BY <1>1, <1>2, <1>3
     DEF Dispatch, NoPlace, NotAllowed, autoIndex, Redirect, handleRoot, handleFavicon,
         showUpload, getCGIvariables, ServeFile, GetsPage, Upload, UploadFails,
         UploadRecurses, getCGIvariablesPost, OtherPost, handleDelete, DeleteRefused, DeleteDir
<1>5. OpOf(r) = "remove" /\ NameOf(r) = n /\ ~IsPut(r)
  BY FileOp
<1>6. up \in BOOLEAN
  BY DEF UploadsInPlace
<1>7. CASE TooLarge(r, l)
  BY <1>5, <1>6, <1>7, RefusedStep
<1>8. CASE DeleteFile(r, l)
  <2>1. /\ n \in Store!Present
        /\ files' = [files EXCEPT ![UploadFile(n)] = NoFile]
        /\ dirs' = dirs /\ Responds(r, Answer("200"))
    BY <1>3, <1>8 DEF DeleteFile
  <2>2. StoreFiles' = [StoreFiles EXCEPT ![n] = NoFile]
    <3>1. \A m \in Names : files'[UploadFile(m)]
                              = IF m = n THEN NoFile ELSE files[UploadFile(m)]
      BY <2>1, UploadPaths, NamesArePieces, UploadFileInjective DEF UploadsInPlace
    <3>2. QED
      BY <3>1 DEF StoreFiles
  <2>3. StoreReply' = Store!Said("remove", n, "200", NoFile, {})
    BY <2>1, <1>5, ReplySpoken DEF Responds, Answer
  <2>4. Store!Remove(n)
    BY <2>1, <2>2, <2>3 DEF Store!Remove, StoreOpen, Responds
  <2>5. QED
    BY <2>4 DEF Store!Next
<1>9. CASE DeleteNothing(r, l)
  <2>1. n \notin Store!Present /\ Only(r, Answer("404"))
    BY <1>3, <1>9 DEF DeleteNothing, Readable
  <2>2. StoreFiles' = [StoreFiles EXCEPT ![n] = NoFile]
    <3>1. StoreFiles[n] = NoFile
      BY <2>1 DEF Store!Present
    <3>2. StoreFiles' = StoreFiles
      BY <2>1, QuietDisk DEF Only
    <3>3. QED
      BY <3>1, <3>2 DEF StoreFiles
  <2>3. StoreReply' = Store!Said("remove", n, "404", NoFile, {})
    BY <2>1, <1>5, ReplySpoken DEF Only, Responds, Answer
  <2>4. Store!Remove(n)
    BY <2>1, <2>2, <2>3, QuietDisk DEF Store!Remove, Only, Responds
  <2>5. QED
    BY <2>4 DEF Store!Next
<1>10. QED
  BY <1>4, <1>7, <1>8, <1>9

\* Five handlers alone change the disk or end the process.
LEMMA Shape ==
    ASSUME NEW r, NEW l, Dispatch(r, l)
    PROVE  \/ \E a : Only(r, a)
           \/ Upload(r, l) \/ UploadFails(r, l) \/ UploadRecurses(r, l)
           \/ DeleteFile(r, l) \/ DeleteDir(r, l)
<1>1. CASE NoPlace(r, l) \/ TooLarge(r, l) \/ NotAllowed(r, l)
  BY <1>1 DEF NoPlace, TooLarge, NotAllowed
<1>2. CASE autoIndex(r, l) \/ ServeFile(r, l)
  BY <1>2 DEF autoIndex, ServeFile, handleFormulario
<1>3. CASE Redirect(r, l) \/ handleRoot(r, l) \/ handleFavicon(r, l) \/ showUpload(r, l)
  BY <1>3 DEF Redirect, handleRoot, handleFavicon, showUpload
<1>4. CASE getCGIvariables(r, l) \/ getCGIvariablesPost(r, l) \/ OtherPost(r, l)
  BY <1>4 DEF getCGIvariables, getCGIvariablesPost, handle_cgi_request, OtherPost
<1>5. CASE DeleteNothing(r, l) \/ DeleteRefused(r, l)
  BY <1>5 DEF DeleteNothing, DeleteRefused
<1>6. QED
  BY <1>1, <1>2, <1>3, <1>4, <1>5 DEF Dispatch, handleDelete

\* Removing the directory itself takes that it is empty.
LEMMA EmptyDirectory ==
    ASSUME UploadsInPlace, NEW url \in Seq(Pieces), Trimmed(url) = UploadUrl,
           Entries(url) = {}
    PROVE  Store!Present = {}
<1>1. SUFFICES ASSUME NEW n \in Names, files[UploadFile(n)] # NoFile
               PROVE  FALSE
  BY DEF Store!Present, StoreFiles
<1>2. Under(url, n) = UploadFile(n) /\ Last(UploadFile(n)) = n
  BY TrimmedToUpload, NamesArePieces, UnderUpload, UnderUploadSlash, UploadFileIsFile
<1>3. UploadFile(n) \in {p \in Paths : Exists(p)}
  BY <1>1, UploadPaths DEF Exists
<1>4. UploadFile(n) \in Entries(url)
  BY <1>2, <1>3 DEF Entries
<1>5. QED
  BY <1>4

\* No other request puts, changes or removes an upload.
LEMMA OtherSteps ==
    ASSUME UploadsInPlace, up, NEW r \in Requests, OpOf(r) = "other",
           NEW l, Dispatch(r, l)
    PROVE  Store!Next
<1>1. ~IsPut(r) /\ (r.method = "DELETE" => \A n \in Names : r.url # UploadFile(n))
  BY PutOp, FileOp
<1>2. up \in BOOLEAN
  BY DEF UploadsInPlace
<1>3. ~Upload(r, l) /\ ~UploadFails(r, l)
  BY <1>1 DEF Upload, UploadFails, Posts, IsPut
<1>4. CASE \E a : Only(r, a)
  BY <1>2, <1>4, QuietAnswer
<1>5. CASE DeleteFile(r, l)
  <2>1. /\ r.method = "DELETE" /\ r.url \in Paths
        /\ files' = [files EXCEPT ![r.url] = NoFile]
        /\ dirs' = dirs /\ Responds(r, Answer("200"))
    BY <1>5 DEF DeleteFile, Deletes, Exists
  <2>2. StoreFiles' = StoreFiles
    <3>1. \A n \in Names : files'[UploadFile(n)] = files[UploadFile(n)]
      BY <1>1, <2>1, UploadPaths DEF UploadsInPlace
    <3>2. QED
      BY <3>1 DEF StoreFiles
  <2>3. StoreReply' = Unsaid
    BY <2>1, ReplyUnsaid DEF Responds
  <2>4. QED
    BY <1>2, <2>1, <2>2, <2>3, OtherStep DEF StoreOpen, Responds
<1>6. CASE DeleteDir(r, l)
  <2>1. /\ Entries(r.url) = {} /\ dirs' = dirs \ {Trimmed(r.url)}
        /\ files' = files /\ Responds(r, Answer("200"))
    BY <1>6 DEF DeleteDir
  <2>2. StoreFiles' = StoreFiles
    BY <2>1 DEF StoreFiles
  <2>3. StoreReply' = Unsaid
    BY <2>1, ReplyUnsaid DEF Responds
  <2>4. CASE Trimmed(r.url) # UploadUrl
    <3>1. StoreOpen' = StoreOpen
      BY <2>1, <2>4 DEF StoreOpen
    <3>2. QED
      BY <1>2, <2>1, <2>2, <2>3, <3>1, OtherStep DEF Responds
  <2>5. CASE Trimmed(r.url) = UploadUrl
    <3>1. Store!Present = {}
      BY <2>1, <2>5, StoreAssumption, EmptyDirectory
    <3>2. StoreOpen' = FALSE
      BY <2>1, <2>5 DEF StoreOpen
    <3>3. Store!RemoveAll
      BY <2>1, <2>2, <2>3, <3>1, <3>2 DEF Store!RemoveAll, Responds
    <3>4. QED
      BY <3>3 DEF Store!Next
  <2>6. QED
    BY <2>4, <2>5
<1>7. CASE UploadRecurses(r, l)
  <2>1. Dies(r)
    BY <1>7 DEF UploadRecurses
  <2>2. StoreReply' = Unsaid
    BY <2>1, ReplyUnsaid DEF Dies
  <2>3. QED
    BY <1>2, <2>1, <2>2, QuietDisk, OtherStep DEF Dies
<1>8. QED
  BY <1>3, <1>4, <1>5, <1>6, <1>7, Shape

\* Every step of the site is a step of the store.
LEMMA NextIsStore ==
    ASSUME UploadsInPlace, Next
    PROVE  Store!Next
<1>1. PICK r \in Requests : checkRequest(r)
  BY DEF Next
<1>2. up /\ up \in BOOLEAN /\ conf \in Confs
  BY <1>1 DEF checkRequest, UploadsInPlace
<1>3. CASE ~Known(r)
  <2>1. Dies(r)
    BY <1>1, <1>3 DEF checkRequest, NoServer
  <2>2. StoreReply' = Unsaid
    BY <1>3, <2>1, ReplyUnsaid DEF Dies
  <2>3. QED
    BY <1>2, <2>1, <2>2, QuietDisk, OtherStep DEF Dies
<1>4. CASE Known(r)
  <2>1. Dispatch(r, Loc(r))
    BY <1>1, <1>4 DEF checkRequest, NoServer
  <2>2. CASE IsPut(r)
    BY <1>2, <1>4, <2>1, <2>2, Routed, PutSteps DEF IsPut, OfStore
  <2>3. CASE IsList(r)
    BY <1>2, <1>4, <2>1, <2>3, Routed, ListSteps DEF IsList, OfStore
  <2>4. CASE IsFileOf(r) /\ r.method \in {"GET", "DELETE"}
    <3>1. PICK n \in Names : r.url = UploadFile(n)
      BY <2>4 DEF IsFileOf
    <3>2. UploadPlace(Loc(r))
      BY <1>2, <1>4, <3>1, Routed DEF OfStore
    <3>3. QED
      BY <1>2, <1>4, <2>1, <2>4, <3>1, <3>2, GetSteps, RemoveSteps
  <2>5. CASE ~IsPut(r) /\ ~IsList(r) /\ ~(IsFileOf(r) /\ r.method \in {"GET", "DELETE"})
    BY <1>2, <2>1, <2>5, OtherOp, OtherSteps
  <2>6. QED
    BY <2>2, <2>3, <2>4, <2>5
<1>5. QED
  BY <1>3, <1>4

\* The invariant holds when the server starts.
LEMMA InPlaceInit ==
    ASSUME Init
    PROVE  UploadsInPlace
<1>1. conf \in Confs /\ dirs = Dirs /\ up = TRUE
  BY DEF Init
<1>2. PICK f \in [Paths \ Dirs -> Contents \cup {NoFile}] :
          files = [p \in Paths |-> IF p \in Dirs THEN NoFile ELSE f[p]]
  BY DEF Init
<1>3. files \in [Paths -> Contents \cup {NoFile}] /\ files[UploadUrl] = NoFile
  BY <1>2, UploadPaths
<1>4. QED
  BY <1>1, <1>3, UploadPaths DEF UploadsInPlace

\* Every request keeps the invariant.
LEMMA InPlaceNext ==
    ASSUME UploadsInPlace, Next
    PROVE  UploadsInPlace'
<1>1. PICK r \in Requests : checkRequest(r)
  BY DEF Next
<1>2. CASE ~Known(r)
  <2>1. NoServer(r)
    BY <1>1, <1>2 DEF checkRequest
  <2>2. conf' = conf /\ files' = files /\ dirs' = dirs /\ up' = FALSE
    BY <2>1 DEF NoServer, Dies, disk
  <2>3. QED
    BY <2>2 DEF UploadsInPlace
<1>3. CASE Known(r)
  <2> DEFINE l == Loc(r)
  <2>1. Dispatch(r, l)
    BY <1>1, <1>3 DEF checkRequest, NoServer
  <2>2. CASE \E a : Only(r, a)
    BY <2>2 DEF Only, Responds, disk, UploadsInPlace
  <2>3. CASE UploadFails(r, l) \/ UploadRecurses(r, l)
    BY <2>3 DEF UploadFails, UploadRecurses, Dies, disk, UploadsInPlace
  <2>4. CASE Upload(r, l)
    <3>1. r.url = UploadUrl /\ r.method = "POST" /\ r.form
      BY <2>4 DEF Upload, Posts
    <3>2. r.name \in Names /\ r.content \in Contents
      BY <3>1, StoreAssumption
    <3>3. UploadPlace(l)
      BY <1>3, <3>1, Routed DEF OfStore, UploadsInPlace
    <3>4. Target(r, l) = UploadFile(r.name)
      BY <3>2, <3>3, NamesArePieces, UnderUpload DEF Target, UploadPlace
    <3>5. UploadUrl \in dirs
      BY <2>4, <3>3, TrimmedUpload DEF Upload, CanStore, IsDir, UploadPlace
    <3>6. /\ files' = [files EXCEPT ![UploadFile(r.name)] = r.content]
          /\ conf' = conf /\ dirs' = dirs /\ up' = up
      BY <2>4, <3>4 DEF Upload, Responds
    <3>7. UploadFile(r.name) # UploadUrl
      BY <3>2, NamesArePieces, UploadFileIsFile
    <3>8. files' \in [Paths -> Contents \cup {NoFile}] /\ files'[UploadUrl] = NoFile
      <4>1. /\ files \in [Paths -> Contents \cup {NoFile}] /\ files[UploadUrl] = NoFile
            /\ UploadUrl \in Paths /\ files' = [files EXCEPT ![UploadFile(r.name)] = r.content]
        BY <3>6, UploadPaths DEF UploadsInPlace
      <4>2. files' \in [Paths -> Contents \cup {NoFile}]
        BY <3>2, <4>1
      <4>3. QED
        BY <3>7, <4>1, <4>2
    <3>9. QED
      BY <3>5, <3>6, <3>8 DEF UploadsInPlace
  <2>5. CASE DeleteFile(r, l)
    <3>1. files' = [files EXCEPT ![r.url] = NoFile] /\ conf' = conf /\ dirs' = dirs /\ up' = up
      BY <2>5 DEF DeleteFile, Responds
    <3>2. /\ files' \in [Paths -> Contents \cup {NoFile}]
          /\ \A p \in Paths : files[p] = NoFile => files'[p] = NoFile
      BY <3>1 DEF UploadsInPlace
    <3>3. QED
      BY <3>1, <3>2, UploadPaths DEF UploadsInPlace
  <2>6. CASE DeleteDir(r, l)
    <3>1. /\ files' = files /\ conf' = conf /\ up' = up
          /\ Entries(r.url) = {} /\ dirs' = dirs \ {Trimmed(r.url)}
      BY <2>6 DEF DeleteDir, Responds
    <3>2. UploadUrl \notin dirs' => \A n \in Names : files[UploadFile(n)] = NoFile
      <4>1. CASE Trimmed(r.url) # UploadUrl
        BY <3>1, <4>1 DEF UploadsInPlace
      <4>2. CASE Trimmed(r.url) = UploadUrl
        <5>1. Store!Present = {}
          BY <3>1, <4>2, StoreAssumption, EmptyDirectory
        <5>2. QED
          BY <5>1 DEF Store!Present, StoreFiles
      <4>3. QED
        BY <4>1, <4>2
    <3>3. QED
      BY <3>1, <3>2 DEF UploadsInPlace
  <2>7. QED
    BY <2>1, <2>2, <2>3, <2>4, <2>5, <2>6, Shape
<1>4. QED
  BY <1>2, <1>3

\* The server starts as a store.
LEMMA StoreInit ==
    ASSUME Init
    PROVE  Store!Init
<1>1. UploadsInPlace
  BY InPlaceInit
<1>2. StoreFiles \in [Names -> Contents \cup {NoFile}]
  BY <1>1, UploadPaths DEF StoreFiles, UploadsInPlace
<1>3. StoreOpen = TRUE /\ up = TRUE
  BY UploadPaths DEF StoreOpen, Init
<1>4. StoreReply = Unsaid
  <2>1. asked.method = "none"
    BY DEF Init, NoRequest
  <2>2. OpOf(asked) = "other"
    BY <2>1, OtherOp DEF IsPut, IsList
  <2>3. QED
    BY <2>2 DEF StoreReply, Spoken
<1>5. QED
  BY <1>2, <1>3, <1>4 DEF Store!Init

-----------------------------------------------------------------------------
(* The theorem.                                                            *)

\* For every set of configurations that StoreAssumption admits, the upload
\* pages of a site are a FileStore: what handleUpload wrote is what
\* handleFormulario serves and showUpload lists, through every server, until
\* it is uploaded again or handleDelete removes it.
THEOREM SiteIsStore == Spec => ImplementsStore
<1>1. Init => UploadsInPlace
  BY InPlaceInit
<1>2. UploadsInPlace /\ [Next]_vars => UploadsInPlace'
  <2>1. ASSUME UploadsInPlace, UNCHANGED vars PROVE UploadsInPlace'
    BY <2>1 DEF vars, disk, UploadsInPlace
  <2>2. QED
    BY <2>1, InPlaceNext
<1>3. Init => Store!Init
  BY StoreInit
<1>4. UploadsInPlace /\ [Next]_vars => [Store!Next]_(Store!vars)
  <2>1. ASSUME UNCHANGED vars PROVE UNCHANGED Store!vars
    BY <2>1 DEF vars, disk, Store!vars, StoreFiles, StoreOpen, StoreReply, Spoken, Known
  <2>2. QED
    BY <2>1, NextIsStore
<1>5. QED
  BY <1>1, <1>2, <1>3, <1>4, PTL DEF Spec, ImplementsStore, Store!Spec
=============================================================================
