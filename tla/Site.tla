-------------------------------- MODULE Site --------------------------------
(***************************************************************************)
(* What checkRequest makes of one whole request after another: the server  *)
(* by its Host, the location by its longest prefix, the checks in their    *)
(* order, the handler, and what the handler does to the files below the    *)
(* working directory, which all servers share.                             *)
(*                                                                         *)
(* A URL or a path is a sequence of pieces: "/", "?", names, extensions.   *)
(* The URLs are plain: no "..", no two slashes together.  The body of a    *)
(* request is a form when it is a multipart form with a named file in it   *)
(* and its end marker behind.                                              *)
(***************************************************************************)
EXTENDS Integers, FiniteSets, SequencesExt

CONSTANTS
    Confs,         \* configurations: functions from addresses to servers
    Requests,      \* what clients may ask for
    Paths, Dirs,   \* the paths there may be, and those of directories
    Contents, NoFile

Slash     == <<"/">>
Favicon   == <<"/", "favicon.ico">>
UploadUrl == <<"/", "upload">>

\* The path of a name below a directory: the kernel takes // for /.
Under(path, name) ==
    path \o IF Last(path) = "/" THEN <<name>> ELSE <<"/", name>>

\* A directory may be named with a slash behind it, a file may not.
Trimmed(p) == IF Len(p) > 1 /\ Last(p) = "/" THEN Front(p) ELSE p

\* Location::setPath has seen that the location is a directory.
PathsFit ==
    /\ Dirs \subseteq Paths /\ Slash \in Dirs /\ NoFile \notin Contents
    /\ \A r \in Requests :
           /\ r.url \in Seq(STRING) /\ r.name \in STRING \ {"/"} /\ r.content \in Contents
           /\ r.form \in BOOLEAN
    /\ \A c \in Confs : \A a \in DOMAIN c : \A l \in c[a].locations :
           /\ l.path \in Seq(STRING) /\ Trimmed(l.path) \in Dirs
           /\ "POST" \in l.methods /\ IsPrefix(l.path, UploadUrl)
                  => \A r \in Requests : Under(l.path, r.name) \in Paths

ASSUME SiteAssumption == PathsFit

VARIABLES
    conf,      \* webServer, read once
    files,     \* what the files contain
    dirs,      \* the directories that exist
    up,        \* whether the process runs
    asked,     \* the last request
    response   \* what _requests got for it

disk == <<files, dirs>>
vars == <<conf, disk, up, asked, response>>

NoRequest  == [method |-> "none"]
NoLocation == [path |-> <<>>, methods |-> {}, index |-> "", autoindex |-> FALSE,
               ext |-> {}, limit |-> 0]

Answer(status)         == [status |-> status, file |-> NoFile, names |-> {}]
Page(content)          == [status |-> "200", file |-> content, names |-> {}]
Listing(names)         == [status |-> "200", file |-> NoFile, names |-> names]

Statuses == {"none", "200", "301", "404", "405", "413", "500", "cgi"}

\* Each path is of a file or of a directory, never of both.
TypeOK ==
    /\ conf \in Confs
    /\ files \in [Paths -> Contents \cup {NoFile}]
    /\ dirs \in SUBSET Dirs /\ \A d \in dirs : files[d] = NoFile
    /\ up \in BOOLEAN
    /\ asked \in Requests \cup {NoRequest}
    /\ response.status \in Statuses
    /\ response.file \in Contents \cup {NoFile}

Init ==
    /\ conf \in Confs
    /\ \E f \in [Paths \ Dirs -> Contents \cup {NoFile}] :
           files = [p \in Paths |-> IF p \in Dirs THEN NoFile ELSE f[p]]
    /\ dirs = Dirs
    /\ up = TRUE
    /\ asked = NoRequest /\ response = Answer("none")

-----------------------------------------------------------------------------
(* The file system.                                                        *)

Exists(p) == p \in Paths /\ files[p] # NoFile

IsDir(p)   == Trimmed(p) \in dirs

Entries(d) == {q \in dirs \cup {p \in Paths : Exists(p)} : q = Under(d, Last(q))}
NamesIn(d) == IF IsDir(d) THEN {Last(q) : q \in Entries(d)} ELSE {}

\* An ifstream opens a directory too, and reads nothing from it.
Readable(p) == Exists(p) \/ IsDir(p)
Content(p)  == IF Exists(p) THEN files[p] ELSE NoFile
Reads(p)    == IF Readable(p) THEN Page(Content(p)) ELSE Answer("404")

-----------------------------------------------------------------------------
(* Routing.                                                                *)

Matching(url, server) == {l \in server.locations : IsPrefix(l.path, url)}

\* Mutant: any location that matches will do.
FirstLocation(url, server) ==
    IF Matching(url, server) = {} THEN NoLocation
    ELSE CHOOSE l \in Matching(url, server) :
             \A m \in Matching(url, server) : Len(l.path) <= Len(m.path)

getLocation(url, server) ==
    IF Matching(url, server) = {} THEN NoLocation
    ELSE CHOOSE l \in Matching(url, server) :
             \A m \in Matching(url, server) : Len(m.path) <= Len(l.path)

Known(r)    == r.host \in DOMAIN conf
ServerOf(r) == conf[r.host]
Loc(r)      == getLocation(r.url, ServerOf(r))

\* extractCGIScript: an extension anywhere before the query makes a script.
HasQuery(url) == \E i \in DOMAIN url : url[i] = "?"
IsScript(r, l) ==
    \E i \in DOMAIN r.url : /\ r.url[i] \in l.ext
                            /\ \A j \in 1..i : r.url[j] # "?"

Located(r, l) == l # NoLocation \/ r.url = Slash
FitsBody(r, l) == r.body <= l.limit
Admitted(r, l) == Located(r, l) /\ FitsBody(r, l)

Gets(r, l) == /\ Admitted(r, l) /\ r.method = "GET"
              /\ "GET" \in l.methods \/ r.url \in {Slash, Favicon}

\* Mutant: every location takes a POST.
PostsAnywhere(r, l) == Admitted(r, l) /\ r.method = "POST"

Posts(r, l) == Admitted(r, l) /\ r.method = "POST" /\ "POST" \in l.methods

\* The code asks for POST here.
Deletes(r, l) == Admitted(r, l) /\ r.method = "DELETE" /\ "POST" \in l.methods

\* What is left of a GET once autoIndex has not taken it.
GetsPage(r, l) == Gets(r, l) /\ ~l.autoindex
IsRoot(r)      == r.url = Slash \/ r.url = ServerOf(r).root
IsPlain(r)     == ~IsRoot(r) /\ r.url \notin {Favicon, UploadUrl}

-----------------------------------------------------------------------------
(* The handlers.  Each is one pass of checkRequest with the request r and  *)
(* the location l it found.                                                *)

Responds(r, a) == asked' = r /\ response' = a /\ UNCHANGED <<conf, up>>
Only(r, a)     == Responds(r, a) /\ UNCHANGED disk
Dies(r)        == /\ asked' = r /\ response' = Answer("none") /\ up' = FALSE
                  /\ UNCHANGED <<conf, disk>>

NoServer(r) == ~Known(r) /\ Dies(r)

NoPlace(r, l)  == ~Located(r, l) /\ Only(r, Answer("404"))
TooLarge(r, l) == Located(r, l) /\ ~FitsBody(r, l) /\ Only(r, Answer("413"))
NotAllowed(r, l) == /\ Admitted(r, l) /\ ~(Gets(r, l) \/ Posts(r, l) \/ Deletes(r, l))
                    /\ Only(r, Answer("405"))

\* handleFormulario: a location with an index serves it for every URL below.
FileFor(r, l) == IF l.index = "" THEN r.url ELSE Under(l.path, l.index)
handleFormulario(r, l) == Only(r, Reads(FileFor(r, l)))

autoIndex(r, l) ==
    /\ Gets(r, l) /\ l.autoindex
    /\ IF IsDir(r.url) THEN Only(r, Listing(NamesIn(r.url))) ELSE handleFormulario(r, l)

Redirect(r, l) == GetsPage(r, l) /\ r.url = Slash /\ r.url # ServerOf(r).root
                      /\ Only(r, Answer("301"))

\* "." + root + index, with no slash put between them.
IndexOf(server) == IF server.index = "" THEN server.root
                                        ELSE Append(server.root, server.index)
handleRoot(r, l) == GetsPage(r, l) /\ r.url = ServerOf(r).root
                        /\ Only(r, Reads(IndexOf(ServerOf(r))))

handleFavicon(r, l) == GetsPage(r, l) /\ ~IsRoot(r) /\ r.url = Favicon
                           /\ Only(r, Page(Content(<<"/", "favicon", "/", "favicon.ico">>)))

showUpload(r, l) == GetsPage(r, l) /\ ~IsRoot(r) /\ r.url = UploadUrl
                        /\ Only(r, Listing(NamesIn(UploadUrl)))

\* The script is not part of this.  A call that gets no pipe or no child, or
\* cannot read the pipe, returns without an answer.
handle_cgi_request(r) == \E status \in {"cgi", "none"} : Only(r, Answer(status))

\* Without a query the script is not called.
getCGIvariables(r, l) ==
    /\ GetsPage(r, l) /\ IsPlain(r) /\ IsScript(r, l)
    /\ IF HasQuery(r.url) THEN handle_cgi_request(r) ELSE Only(r, Answer("none"))

ServeFile(r, l) == GetsPage(r, l) /\ IsPlain(r) /\ ~IsScript(r, l) /\ handleFormulario(r, l)

Target(r, l)   == Under(l.path, r.name)

\* Mutant: nobody looks what is there.
StoresOver(r, l) == IsDir(l.path)

\* Mutant: only a new file can be opened.
StoresNew(r, l) == IsDir(l.path) /\ ~IsDir(Target(r, l)) /\ ~Exists(Target(r, l))

CanStore(r, l) == IsDir(l.path) /\ ~IsDir(Target(r, l))

\* The upload goes below the location that matched.
Upload(r, l) ==
    /\ Posts(r, l) /\ r.url = UploadUrl /\ r.form /\ CanStore(r, l)
    /\ files' = [files EXCEPT ![Target(r, l)] = r.content]
    /\ Responds(r, Answer("200")) /\ UNCHANGED dirs

UploadFails(r, l) ==
    Posts(r, l) /\ r.url = UploadUrl /\ r.form /\ ~CanStore(r, l) /\ Dies(r)

\* With no boundary or no end marker in its text handleUpload has checkRequest
\* call it again with the same text, until the stack is full; a part without a
\* file name ends the process too.
UploadRecurses(r, l) == Posts(r, l) /\ r.url = UploadUrl /\ ~r.form /\ Dies(r)

getCGIvariablesPost(r, l) ==
    Posts(r, l) /\ r.url # UploadUrl /\ IsScript(r, l) /\ handle_cgi_request(r)

OtherPost(r, l) ==
    Posts(r, l) /\ r.url # UploadUrl /\ ~IsScript(r, l) /\ Only(r, Answer("200"))

DeleteFile(r, l) ==
    /\ Deletes(r, l) /\ Exists(r.url)
    /\ files' = [files EXCEPT ![r.url] = NoFile]
    /\ Responds(r, Answer("200")) /\ UNCHANGED dirs

DeleteNothing(r, l) == Deletes(r, l) /\ ~Readable(r.url) /\ Only(r, Answer("404"))

\* Mutant: the answer to a failed remove is forgotten.
DeleteSilent(r, l) ==
    /\ Deletes(r, l) /\ IsDir(r.url) /\ (Entries(r.url) # {} \/ r.url = Slash)
    /\ Only(r, Answer("none"))

DeleteRefused(r, l) ==
    /\ Deletes(r, l) /\ IsDir(r.url) /\ (Entries(r.url) # {} \/ r.url = Slash)
    /\ Only(r, Answer("500"))

\* remove takes an empty directory as well as a file.
DeleteDir(r, l) ==
    /\ Deletes(r, l) /\ IsDir(r.url) /\ Entries(r.url) = {} /\ r.url # Slash
    /\ dirs' = dirs \ {Trimmed(r.url)}
    /\ Responds(r, Answer("200")) /\ UNCHANGED files

handleDelete(r, l) ==
    DeleteFile(r, l) \/ DeleteNothing(r, l) \/ DeleteRefused(r, l) \/ DeleteDir(r, l)

Dispatch(r, l) ==
    \/ NoPlace(r, l) \/ TooLarge(r, l) \/ NotAllowed(r, l)
    \/ autoIndex(r, l) \/ Redirect(r, l) \/ handleRoot(r, l) \/ handleFavicon(r, l)
    \/ showUpload(r, l) \/ getCGIvariables(r, l) \/ ServeFile(r, l)
    \/ Upload(r, l) \/ UploadFails(r, l) \/ UploadRecurses(r, l)
    \/ getCGIvariablesPost(r, l) \/ OtherPost(r, l) \/ handleDelete(r, l)

checkRequest(r) == up /\ (NoServer(r) \/ (Known(r) /\ Dispatch(r, Loc(r))))

Next == \E r \in Requests : checkRequest(r)

Spec == Init /\ [][Next]_vars

-----------------------------------------------------------------------------
(* Safety.                                                                 *)

\* A request that does not end the process gets an answer, unless it is a GET or
\* a POST of a script that passed every check: a call without a query, a pipe, a
\* child or a readable pipe leaves none, and the connection is not closed.
Answered ==
    up /\ asked # NoRequest /\ response.status = "none"
        => /\ asked.method \in {"GET", "POST"}
           /\ Admitted(asked, Loc(asked)) /\ IsScript(asked, Loc(asked))

\* A request to a server there is ends the process only if it is an upload and
\* its form is not whole, or the directory it goes to was removed since the
\* start, or has the name of a directory in it.
Outlives ==
    ~up /\ Known(asked) => /\ asked.method = "POST" /\ asked.url = UploadUrl
                           /\ \/ ~asked.form
                              \/ ~IsDir(Loc(asked).path)
                              \/ IsDir(Target(asked, Loc(asked)))

\* What is on the disk changes only where the location lists POST and takes a
\* body of this size, and then at one path only.
ChangesAreListed ==
    [][disk' # disk =>
         /\ "POST" \in Loc(asked').methods /\ FitsBody(asked', Loc(asked'))
         /\ Cardinality({p \in Paths : files'[p] # files[p]} \cup (dirs \ dirs')) = 1]_vars

-----------------------------------------------------------------------------
(* What the configuration and the comments say of it.                      *)

\* default.conf:30, "allow_methods GET POST": a location that does not
\* list DELETE has nothing deleted.
DeletesAreListed ==
    [][asked'.method = "DELETE" /\ disk' # disk
           => "DELETE" \in Loc(asked').methods]_vars

\* http_tcpServer_linux.cpp:691 tests with a request to http://localhost:8085/,
\* default.conf:3 names the server localhost: a request by name is served.
NamesAreServed ==
    \A a \in DOMAIN conf : asked # NoRequest /\ asked.host = <<conf[a].server_name, a[2]>>
                               => up
=============================================================================
