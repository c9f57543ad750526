---------------------------- MODULE ConfigMeaning ----------------------------
(***************************************************************************)
(* What the words of one server say, whatever they are: a directive is     *)
(* found by the place where its name stands, and no index goes through     *)
(* the words.  The reading of ServerConfig is compared with it.            *)
(***************************************************************************)
EXTENDS ServerConfig

ListKeys == {"allow_methods", "cgi_path", "cgi_ext"}

\* A list begun at or after position p goes on at k: no word behind its name
\* has ended it, not even a brace.
Listed(ws, p, k) ==
    \E c \in p..k - 1 :
        /\ \E key \in ListKeys : ws[c] = <<key>>
        /\ \A m \in c + 1..k - 1 : ~checkSemiColon(ws[m])

\* The location named at o goes on at k: no brace of its own has closed it.
Holds(ws, o, k) ==
    /\ o < k /\ ws[o] = <<"location">>
    /\ \A m \in o + 1..k - 1 : ws[m] = <<RBrace>> => Listed(ws, o + 3, m)

\* The words of the server itself, and those of the location named at o:
\* neither its path nor what is in a list.
OwnWords(ws) == {k \in DOMAIN ws : \A o \in DOMAIN ws : ~Holds(ws, o, k)}
WordsIn(ws, o) ==
    {k \in DOMAIN ws : k >= o + 3 /\ Holds(ws, o, k) /\ ~Listed(ws, o + 3, k)}

\* Where key is given among the words at S; the last time counts.
GivenAt(ws, S, key) == {k \in S : ws[k] = <<key>>}
ValueAt(ws, k) == cutSemiColon(ws[k + 1])
WordOf(ws, S, key) ==
    IF GivenAt(ws, S, key) = {} THEN <<>>
    ELSE ValueAt(ws, Max(GivenAt(ws, S, key)))
NumberFor(ws, S, key) ==
    IF GivenAt(ws, S, key) = {} THEN 0 ELSE Number(WordOf(ws, S, key))
HostFor(ws, S) ==
    IF GivenAt(ws, S, "host") = {} THEN 0 ELSE Host(WordOf(ws, S, "host"))
RootFor(ws, S) ==
    IF GivenAt(ws, S, "root") = {} THEN <<>> ELSE Root(WordOf(ws, S, "root"))

\* The words behind position k, up to one with a semicolon or the last.
ListAt(ws, k) ==
    LET ends == {m \in k + 1..Len(ws) : checkSemiColon(ws[m])}
        list == SubSeq(ws, k + 1, IF ends = {} THEN Len(ws) ELSE Min(ends))
    IN  [n \in DOMAIN list |->
            IF checkSemiColon(list[n]) THEN cutSemiColon(list[n]) ELSE list[n]]
ListOf(ws, S, key) ==
    IF GivenAt(ws, S, key) = {} THEN <<>> ELSE ListAt(ws, Max(GivenAt(ws, S, key)))

PagesFor(ws, S, code) ==
    {k \in GivenAt(ws, S, "error_page") : Number(ws[k + 1]) = code}
PagesOf(ws, S) ==
    [code \in {Number(ws[k + 1]) : k \in GivenAt(ws, S, "error_page")} \cup {404} |->
        IF PagesFor(ws, S, code) = {} THEN NewServer.error_pages[404]
        ELSE cutSemiColon(ws[Max(PagesFor(ws, S, code)) + 2])]

LocationSaid(ws, path, S) ==
    [path |-> path,
     root |-> WordOf(ws, S, "root"), index |-> WordOf(ws, S, "index"),
     return |-> WordOf(ws, S, "return"), alias |-> WordOf(ws, S, "alias"),
     autoindex |-> WordOf(ws, S, "autoindex"),
     methods |-> ListOf(ws, S, "allow_methods"),
     cgi_path |-> ListOf(ws, S, "cgi_path"), cgi_ext |-> ListOf(ws, S, "cgi_ext"),
     cmbz |-> NumberFor(ws, S, "client_max_body_size")]

LocationsSaid(ws, S) ==
    LET at == InOrder(GivenAt(ws, S, "location"))
    IN  [n \in DOMAIN at |-> LocationSaid(ws, ws[at[n] + 1], WordsIn(ws, at[n]))]

ServerSaid(ws, S) ==
    [port |-> NumberFor(ws, S, "listen"),
     server_name |-> WordOf(ws, S, "server_name"),
     host |-> HostFor(ws, S), root |-> RootFor(ws, S),
     index |-> WordOf(ws, S, "index"),
     cmbz |-> NumberFor(ws, S, "client_max_body_size"),
     error_pages |-> PagesOf(ws, S),
     locations |-> LocationsSaid(ws, S)]

Said(ws) == ServerSaid(ws, OwnWords(ws))

-----------------------------------------------------------------------------
(* Which words are right.                                                  *)

Earlier(S, k) == {j \in S : j < k}

\* The value behind place k, of a field that nothing before has given.
RightValue(ws, k, given, none, valid) ==
    given = none /\ k < Len(ws) /\ checkSemiColon(ws[k + 1]) /\ valid

RightPage(ws, k, pages) ==
    /\ k + 2 <= Len(ws) /\ checkSemiColon(ws[k + 2]) /\ IsCode(ws[k + 1])
    /\ Number(ws[k + 1]) \in DOMAIN pages \/ cutSemiColon(ws[k + 2]) \in Files

RightPlace(ws, k) ==
    /\ k + 2 <= Len(ws) /\ ws[k + 2] = <<LBrace>>
    /\ IsLocationPath(ws[k + 1])

RightOwn(ws, k) ==
    LET said == ServerSaid(ws, Earlier(OwnWords(ws), k))
        value == ValueAt(ws, k) IN
    /\ ws[k] = <<"listen">> => RightValue(ws, k, said.port, 0, IsPort(value))
    /\ ws[k] = <<"server_name">> => RightValue(ws, k, said.server_name, <<>>, TRUE)
    /\ ws[k] = <<"host">> => RightValue(ws, k, said.host, 0, IsHost(value))
    /\ ws[k] = <<"root">> => RightValue(ws, k, said.root, <<>>, IsRoot(value))
    /\ ws[k] = <<"index">> => RightValue(ws, k, said.index, <<>>, TRUE)
    /\ ws[k] = <<"client_max_body_size">> =>
           RightValue(ws, k, said.cmbz, 0, IsNumber(value))
    /\ ws[k] = <<"error_page">> => RightPage(ws, k, said.error_pages)
    /\ ws[k] = <<"location">> => RightPlace(ws, k)

\* No method that this or the last allow_methods has named already.
RightMethods(list, before) ==
    /\ Len(list) <= 3 /\ ToSet(list) \subseteq Methods
    /\ IsInjective(list) /\ ToSet(list) \cap ToSet(before) = {}

\* All but a last word with a semicolon name an interpreter.
RightCgiPath(ws, k) ==
    \A n \in DOMAIN ListAt(ws, k) :
        checkSemiColon(ws[k + n]) \/ ToSet(ListAt(ws, k)[n]) \cap Interpreters # {}

ValueKeys == LocationKeys \ ListKeys

IsValue(ws, o, k) == k - 1 \in WordsIn(ws, o) /\ \E key \in ValueKeys : ws[k - 1] = <<key>>

IsRootBelow(above, w) == w # <<>> /\ (IsDirectory(Tail(w)) \/ IsDirectory(above \o w))

RightIn(ws, o, k) ==
    LET said == LocationSaid(ws, ws[o + 1], Earlier(WordsIn(ws, o), k))
        above == RootFor(ws, Earlier(OwnWords(ws), o))
        value == ValueAt(ws, k) IN
    /\ ws[k] = <<"root">> => RightValue(ws, k, said.root, <<>>, IsRootBelow(above, value))
    /\ ws[k] = <<"autoindex">> => RightValue(ws, k, said.autoindex, <<>>, IsOnOff(value))
    /\ ws[k] = <<"index">> => RightValue(ws, k, said.index, <<>>, TRUE)
    /\ ws[k] = <<"return">> => RightValue(ws, k, said.return, <<>>, TRUE)
    /\ ws[k] = <<"alias">> => RightValue(ws, k, said.alias, <<>>, TRUE)
    /\ ws[k] = <<"client_max_body_size">> =>
           RightValue(ws, k, said.cmbz, 0, IsNumber(value))
    /\ ws[k] = <<"allow_methods">> => RightMethods(ListAt(ws, k), said.methods)
    /\ ws[k] = <<"cgi_path">> => RightCgiPath(ws, k)
    /\ \/ IsValue(ws, o, k)
       \/ \E key \in LocationKeys \cup {RBrace} : ws[k] = <<key>>

RightWords(ws) ==
    /\ \A k \in OwnWords(ws) : RightOwn(ws, k)
    /\ \A o \in GivenAt(ws, OwnWords(ws), "location") :
           \A k \in WordsIn(ws, o) : RightIn(ws, o, k)

\* The servers differ in their addresses; a server with several locations has
\* different ones, and the files of their indexes are there.
RightTogether(ss) ==
    /\ \A m, n \in DOMAIN ss :
           m # n => ss[m].host # ss[n].host \/ ss[m].port # ss[n].port
    /\ \A n \in DOMAIN ss : Len(ss[n].locations) > 1 =>
           LET ls == ss[n].locations IN
           /\ \A k \in DOMAIN ls : ls[k].index # <<>> => IndexPath(ls[k]) \in Files
           /\ \A j, k \in DOMAIN ls : j # k => ls[j].path # ls[k].path

RightPieces ==
    /\ \A n \in DOMAIN serversConf : RightWords(splitDirectives(serversConf[n]))
    /\ RightTogether([n \in DOMAIN serversConf |-> Said(splitDirectives(serversConf[n]))])

-----------------------------------------------------------------------------
(* Safety.                                                                 *)

Accepted == pc \in {"listen", "exited", "serving"}

\* Whatever the text of the configuration, when it is accepted its servers are
\* what the words of its pieces say: every directive that stands in a server,
\* or in one of its locations, sets its own field there, the last one wins,
\* and no field holds anything that is not said.
MeansItsWords ==
    Accepted =>
        servers = [n \in DOMAIN serversConf |-> Said(splitDirectives(serversConf[n]))]

\* Of what the scan has cut, exactly the right pieces are accepted: no directive
\* goes unchecked, wherever it stands and whatever stands around it, and nothing
\* is refused, nor read past its end, but for a directive that is wrong.
AcceptsWhatIsRight ==
    /\ pc \in {"refused", "undefined"} => ~RightPieces
    /\ Accepted => RightPieces
=============================================================================
