---------------------------- MODULE ServerConfig ----------------------------
(***************************************************************************)
(* WebServer::createServers: each piece of the configuration is split into *)
(* words, and the words are read, one directive after another, into a      *)
(* Server and its Locations; then the servers are compared.                *)
(*                                                                         *)
(* A word is a sequence of tokens.  The first token of a path stands for   *)
(* its first character.  A name, a path or a list that was not given is    *)
(* <<>>, a number or a host 0.                                             *)
(***************************************************************************)
EXTENDS ConfigSplit

CONSTANTS
    NumberOf,       \* tokens of digits -> the number, if a size_t holds it
    HostOf,         \* tokens inet_pton takes, and localhost -> the address
    Directories,    \* paths of directories, as stat sees them
    Files,          \* paths of files that can be read
    CurDir,         \* what getcwd returns, as a token
    Interpreters    \* tokens that hold "/python" or "/bash"

MaxPort == 65535
Methods == {<<"GET">>, <<"POST">>, <<"DELETE">>}

VARIABLES
    words,      \* _directives of the server being read
    i,          \* the index into them
    server,     \* the Server being read
    location,   \* new_location of setLocation
    servers     \* _servers

readVars == <<words, i, server, location, servers>>

NewServer ==
    [port |-> 0, server_name |-> <<>>, host |-> 0, root |-> <<>>, index |-> <<>>,
     cmbz |-> 0, error_pages |-> [code \in {404} |-> <<"error_pages/404.html">>],
     locations |-> <<>>]

NewLocation ==
    [path |-> <<>>, root |-> <<>>, index |-> <<>>, return |-> <<>>, alias |-> <<>>,
     autoindex |-> <<>>, methods |-> <<>>, cgi_path |-> <<>>, cgi_ext |-> <<>>,
     cmbz |-> 0]

ReadInit ==
    /\ words = <<>> /\ i = 1
    /\ server = NewServer /\ location = NewLocation
    /\ servers = <<>>

-----------------------------------------------------------------------------
(* Words and paths.                                                        *)

\* Mutant: white space is skipped one character at a time.
AfterAnyBlank(s) ==
    {k \in DOMAIN s : (k = 1 \/ s[k - 1] = Blank) /\ \E m \in k..Len(s) : s[m] = Blank}

\* Where a run of tokens without a blank begins, if a blank comes behind it.
WordStarts(s) ==
    {k \in DOMAIN s : /\ s[k] # Blank /\ (k = 1 \/ s[k - 1] = Blank)
                      /\ \E m \in k..Len(s) : s[m] = Blank}
EndOf(s, k) ==
    CHOOSE m \in k..Len(s) : s[m] = Blank /\ \A j \in k..m - 1 : s[j] # Blank

\* A last word with no blank behind it is dropped, mostly the closing brace.
splitDirectives(s) ==
    LET starts == InOrder(WordStarts(s))
    IN  [n \in DOMAIN starts |->
            SubSeq(s, starts[n], EndOf(s, starts[n]) - 1)]

checkSemiColon(w) == Last(w) = ";"
cutSemiColon(w)   == Front(w)

IsNumber(w) == Len(w) = 1 /\ w[1] \in DOMAIN NumberOf
Number(w)   == NumberOf[w[1]]
IsPort(w)   == IsNumber(w) /\ Number(w) <= MaxPort
IsCode(w)   == IsNumber(w) /\ Number(w) \in 400..600
IsHost(w)   == Len(w) = 1 /\ w[1] \in DOMAIN HostOf
Host(w)     == HostOf[w[1]]
AnyWord(w)      == TRUE
Itself(w)   == w

IsDirectory(path) == path \in Directories

\* substr(1) of an empty path throws.
IsRoot(w)   == w # <<>> /\ (IsDirectory(Tail(w)) \/ IsDirectory(<<CurDir>> \o w))
Root(w)     == IF IsDirectory(Tail(w)) THEN w ELSE <<CurDir>> \o w
IsOnOff(w)  == w \in {<<"on">>, <<"off">>}

-----------------------------------------------------------------------------
(* How a directive is read.                                                *)

Names(scope, key) == pc = scope /\ i <= Len(words) /\ words[i] = <<key>>

\* The program ends with an error, or what it does is not defined.
Ends(how) == pc' = how /\ UNCHANGED <<splitVars, readVars>>

\* The word before position k is the last: _directives is read past its end.
ReadsPast(k) == k > Len(words) /\ Ends("undefined")

\* A field that was given, with a value that can be told from none, is not
\* given again.
Accepts(given, none, w, Valid(_)) ==
    given = none /\ checkSemiColon(w) /\ Valid(cutSemiColon(w))

\* A directive of the server, or of the location, with one value.
ServerValue(key, field, none, Valid(_), Value(_)) ==
    /\ Names("server", key)
    /\ \/ ReadsPast(i + 1)
       \/ /\ i < Len(words)
          /\ IF Accepts(server[field], none, words[i + 1], Valid)
             THEN /\ server' = [server EXCEPT ![field] = Value(cutSemiColon(words[i + 1]))]
                  /\ i' = i + 2
                  /\ UNCHANGED <<pc, words, location, servers, splitVars>>
             ELSE Ends("refused")

LocationValue(key, field, none, Valid(_), Value(_)) ==
    /\ Names("location", key)
    /\ \/ ReadsPast(i + 1)
       \/ /\ i < Len(words)
          /\ IF Accepts(location[field], none, words[i + 1], Valid)
             THEN /\ location' = [location EXCEPT ![field] = Value(cutSemiColon(words[i + 1]))]
                  /\ i' = i + 2
                  /\ UNCHANGED <<pc, words, server, servers, splitVars>>
             ELSE Ends("refused")

-----------------------------------------------------------------------------
(* The directives of a server.                                             *)

setPort       == ServerValue("listen", "port", 0, IsPort, Number)
setServerName == ServerValue("server_name", "server_name", <<>>, AnyWord, Itself)
setHost       == ServerValue("host", "host", 0, IsHost, Host)
setRoot       == ServerValue("root", "root", <<>>, IsRoot, Root)
setIndex      == ServerValue("index", "index", <<>>, AnyWord, Itself)
setClientMaxBodySize ==
    ServerValue("client_max_body_size", "cmbz", 0, IsNumber, Number)

\* The file of a code that has one already is not looked for.
IsErrorPage(code, file) ==
    /\ checkSemiColon(file) /\ IsCode(code)
    /\ Number(code) \notin DOMAIN server.error_pages => cutSemiColon(file) \in Files

WithPage(pages, code, file) ==
    [c \in DOMAIN pages \cup {code} |-> IF c = code THEN file ELSE pages[c]]

setErrorPage ==
    /\ Names("server", "error_page")
    /\ \/ ReadsPast(i + 2)
       \/ /\ i + 2 <= Len(words)
          /\ IF IsErrorPage(words[i + 1], words[i + 2])
             THEN /\ server' = [server EXCEPT !.error_pages =
                        WithPage(@, Number(words[i + 1]), cutSemiColon(words[i + 2]))]
                  /\ i' = i + 3
                  /\ UNCHANGED <<pc, words, location, servers, splitVars>>
             ELSE Ends("refused")

ServerKeys == {"listen", "server_name", "host", "root", "index",
               "client_max_body_size", "error_page", "location"}

NoDirective == i <= Len(words) /\ \A key \in ServerKeys : words[i] # <<key>>

\* Mutant: the index stays where it is.
StuckWord ==
    /\ pc = "server" /\ NoDirective
    /\ UNCHANGED <<pc, splitVars, readVars>>

\* A word that is no directive is passed over.
SkipWord ==
    /\ pc = "server" /\ NoDirective
    /\ i' = i + 1
    /\ UNCHANGED <<pc, words, server, location, servers, splitVars>>

-----------------------------------------------------------------------------
(* A location.                                                             *)

IsLocationPath(w) ==
    /\ w \notin {<<LBrace>>, <<RBrace>>}
    /\ IsDirectory(Tail(w)) \/ IsDirectory(<<CurDir>> \o w)

\* Mutant: what the location before was given is kept.
LocationAgain(path) == [location EXCEPT !.path = path]

LocationAt(path) == [NewLocation EXCEPT !.path = path]

validateLocationPath ==
    /\ Names("server", "location")
    /\ \/ ReadsPast(i + 1)
       \/ i < Len(words) /\ ~IsLocationPath(words[i + 1]) /\ Ends("refused")
       \/ i < Len(words) /\ IsLocationPath(words[i + 1]) /\ ReadsPast(i + 2)
       \/ /\ i + 2 <= Len(words) /\ IsLocationPath(words[i + 1])
          /\ IF words[i + 2] = <<LBrace>>
             THEN /\ location' = LocationAt(words[i + 1])
                  /\ i' = i + 3
                  /\ pc' = "location"
                  /\ UNCHANGED <<words, server, servers, splitVars>>
             ELSE Ends("refused")

\* Found below the server's root too, if that was given before.
IsLocationRoot(w) ==
    w # <<>> /\ (IsDirectory(Tail(w)) \/ IsDirectory(server.root \o w))

validateLocationRoot == LocationValue("root", "root", <<>>, IsLocationRoot, Itself)
setAutoIndex == LocationValue("autoindex", "autoindex", <<>>, IsOnOff, Itself)
setLocationIndex == LocationValue("index", "index", <<>>, AnyWord, Itself)
setReturn    == LocationValue("return", "return", <<>>, AnyWord, Itself)
setAlias     == LocationValue("alias", "alias", <<>>, AnyWord, Itself)
setLocationClientMaxBodySize ==
    LocationValue("client_max_body_size", "cmbz", 0, IsNumber, Number)

\* Mutant: the last word that ends in a semicolon ends the list.
LastListEnd ==
    IF \E k \in i + 1..Len(words) : checkSemiColon(words[k])
    THEN CHOOSE k \in i + 1..Len(words) :
             checkSemiColon(words[k])
               /\ \A j \in k + 1..Len(words) : ~checkSemiColon(words[j])
    ELSE Len(words)

\* A list goes to the first word that ends in a semicolon, or to the last.
ListEnd ==
    IF \E k \in i + 1..Len(words) : checkSemiColon(words[k])
    THEN CHOOSE k \in i + 1..Len(words) :
             checkSemiColon(words[k]) /\ \A j \in i + 1..k - 1 : ~checkSemiColon(words[j])
    ELSE Len(words)

List ==
    [n \in 1..ListEnd - i |->
        IF checkSemiColon(words[i + n]) THEN cutSemiColon(words[i + n]) ELSE words[i + n]]

TakesList(key, field, Valid(_)) ==
    /\ Names("location", key)
    /\ IF Valid(List)
       THEN /\ location' = [location EXCEPT ![field] = List]
            /\ i' = ListEnd + 1
            /\ UNCHANGED <<pc, words, server, servers, splitVars>>
       ELSE Ends("refused")

\* Mutant: a method may come twice.
AnyMethods(list) == Len(list) <= 3 /\ \A n \in DOMAIN list : list[n] \in Methods

\* No method twice, nor one that an allow_methods before it listed.
IsMethods(list) ==
    /\ Len(list) <= 3
    /\ \A n \in DOMAIN list :
           /\ list[n] \in Methods
           /\ \A m \in DOMAIN list : list[m] = list[n] => m = n
           /\ \A m \in DOMAIN location.methods : location.methods[m] # list[n]

\* Mutant: only the first is looked at.
FirstIsCgiPath(list) ==
    \A n \in DOMAIN list :
        \/ n > 1 \/ checkSemiColon(words[i + n])
        \/ \E k \in DOMAIN list[n] : list[n][k] \in Interpreters

\* The last is not looked at, when it ends in a semicolon.
IsCgiPath(list) ==
    \A n \in DOMAIN list :
        \/ checkSemiColon(words[i + n])
        \/ \E k \in DOMAIN list[n] : list[n][k] \in Interpreters

validateLocationMethods == TakesList("allow_methods", "methods", IsMethods)
validateLocationCgiPath == TakesList("cgi_path", "cgi_path", IsCgiPath)
validateLocationCgiExt  == TakesList("cgi_ext", "cgi_ext", AnyWord)

LocationKeys == {"root", "allow_methods", "autoindex", "index", "return", "alias",
                 "cgi_path", "cgi_ext", "client_max_body_size"}

WrongDirective ==
    /\ pc = "location" /\ i <= Len(words)
    /\ \A key \in LocationKeys \cup {RBrace} : words[i] # <<key>>
    /\ Ends("refused")

\* The closing brace, or the end of the words.
PushLocation ==
    /\ pc = "location" /\ (i <= Len(words) => words[i] = <<RBrace>>)
    /\ server' = [server EXCEPT !.locations = Append(@, location)]
    /\ i' = i + 1
    /\ pc' = "server"
    /\ UNCHANGED <<words, location, servers, splitVars>>

-----------------------------------------------------------------------------
(* All servers.                                                            *)

CreateServer ==
    /\ pc = "servers" /\ Len(servers) < Len(serversConf)
    /\ words' = splitDirectives(serversConf[Len(servers) + 1])
    /\ i' = 1
    /\ server' = NewServer
    /\ pc' = "server"
    /\ UNCHANGED <<location, servers, splitVars>>

PushServer ==
    /\ pc = "server" /\ i > Len(words)
    /\ servers' = Append(servers, server)
    /\ pc' = "servers"
    /\ UNCHANGED <<words, i, server, location, splitVars>>

\* Mutant: host and port are mixed up.
CrossRepeated(s, t) == s.host = t.port /\ s.port = t.host

Repeated(s, t) == s.host = t.host /\ s.port = t.port

\* The file of an index, from the working directory.
IndexPath(l) == <<".">> \o l.path \o <<"/">> \o l.index

\* The locations of a server are looked at only if it has more than one.
validateLocation(s) ==
    Len(s.locations) > 1 =>
        \A m \in DOMAIN s.locations :
            /\ s.locations[m].index # <<>> => IndexPath(s.locations[m]) \in Files
            /\ \A n \in m + 1..Len(s.locations) :
                   s.locations[m].path # s.locations[n].path

validateServers ==
    /\ pc = "servers" /\ Len(servers) = Len(serversConf)
    /\ IF /\ \A m, n \in DOMAIN servers : m < n => ~Repeated(servers[m], servers[n])
          /\ \A n \in DOMAIN servers : validateLocation(servers[n])
       THEN pc' = "listen" /\ UNCHANGED <<splitVars, readVars>>
       ELSE Ends("refused")

ReadNext ==
    \/ CreateServer
    \/ setPort \/ setServerName \/ setHost \/ setRoot \/ setIndex
    \/ setClientMaxBodySize \/ setErrorPage \/ SkipWord
    \/ validateLocationPath \/ validateLocationRoot \/ validateLocationMethods
    \/ setAutoIndex \/ setLocationIndex \/ setReturn \/ setAlias
    \/ validateLocationCgiPath \/ validateLocationCgiExt
    \/ setLocationClientMaxBodySize \/ WrongDirective \/ PushLocation
    \/ PushServer \/ validateServers
=============================================================================
