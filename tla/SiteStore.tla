------------------------------ MODULE SiteStore ------------------------------
(***************************************************************************)
(* A site whose servers each have a location /upload that takes GET and    *)
(* POST and serves no index, with nothing more particular below it, is a   *)
(* FileStore: the files in ./upload are the store, for all its servers.    *)
(***************************************************************************)
EXTENDS Site

CONSTANTS
    Names,     \* of uploads
    Pieces,    \* what URLs and paths are made of
    Unsaid

UploadFile(name) == <<"/", "upload", "/", name>>

ASSUME StoreAssumption ==
    /\ UploadUrl \in Dirs
    /\ {"/", "upload"} \subseteq Pieces /\ Names \subseteq Pieces \ {"/"}
    /\ \A n \in Names : UploadFile(n) \in Paths \ Dirs
    /\ \A p \in Paths :
           /\ p \in Seq(Pieces) /\ p # <<>>
           /\ p = Under(UploadUrl, Last(p)) => Last(p) \in Names
    /\ \A r \in Requests :
           /\ r.url \in Seq(Pieces) /\ r.url # <<>>
           /\ r.url = UploadUrl /\ r.method = "POST" /\ r.form
                  => r.name \in Names /\ r.content \in Contents
    /\ \A c \in Confs : \A a \in DOMAIN c :
           /\ c[a].root \notin {UploadUrl} \cup {UploadFile(n) : n \in Names}
           /\ \E l \in c[a].locations : l.path = UploadUrl
           /\ \A l \in c[a].locations :
                  /\ l.path \in Seq(Pieces)
                  /\ IsPrefix(UploadUrl, l.path) =>
                         /\ l.path = UploadUrl /\ {"GET", "POST"} \subseteq l.methods
                         /\ l.index = "" /\ l.ext = {}

-----------------------------------------------------------------------------
(* The store in the site.                                                  *)

\* What a request asks of the store, when a server is there to take it.
IsPut(r)    == r.method = "POST" /\ r.url = UploadUrl /\ r.form
IsList(r)   == r.method = "GET"  /\ r.url = UploadUrl
IsFileOf(r) == \E n \in Names : r.url = UploadFile(n)
OpOf(r) ==
    CASE IsPut(r) -> "put"
      [] IsList(r) -> "list"
      [] r.method = "GET" /\ IsFileOf(r) -> "get"
      [] r.method = "DELETE" /\ IsFileOf(r) -> "remove"
      [] OTHER -> "other"

\* A large body makes a refusal of any request; the store speaks only of puts.
Spoken(r) ==
    /\ r \in Requests /\ Known(r) /\ OpOf(r) # "other"
    /\ response.status = "413" => IsPut(r)

NameOf(r) ==
    CASE IsPut(r)  -> r.name
      [] IsList(r) -> NoFile
      [] OTHER     -> Last(r.url)

StoreFiles == [n \in Names |-> files[UploadFile(n)]]
StoreOpen  == UploadUrl \in dirs
StoreReply ==
    IF Spoken(asked)
    THEN [op |-> OpOf(asked), name |-> NameOf(asked), status |-> response.status,
          file |-> response.file, names |-> response.names]
    ELSE Unsaid

Store == INSTANCE FileStore WITH
    files <- StoreFiles, open <- StoreOpen, reply <- StoreReply

\* The site is the store: a file that was uploaded is served whole, by every
\* server, until it is uploaded again or deleted, the upload page lists what is
\* there, and no other request puts, changes or removes one.
ImplementsStore == Store!Spec
=============================================================================
