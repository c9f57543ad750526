------------------------------ MODULE MCWebserv ------------------------------
(***************************************************************************)
(* One server with a directory of uploads, one that is listed and one with *)
(* scripts, and a request of each kind.                                    *)
(***************************************************************************)
EXTENDS Webserv, TLC

Img    == <<"/", "img">>
Cgi    == <<"/", "cgi-bin">>
Upload == <<"/", "upload">>
File   == Upload \o <<"/", "a">>
Here   == <<"127.0.0.1", 80>>

Place(path, methods) ==
    [path |-> path, methods |-> methods, index |-> "", autoindex |-> FALSE,
     ext |-> {}, limit |-> 1]

MCLocations ==
    {Place(Upload, {"GET", "POST"}),
     Place(<<"/">>, {}),
     [Place(Img, {"GET"}) EXCEPT !.autoindex = TRUE],
     [Place(Cgi, {"GET"}) EXCEPT !.ext = {".py"}]}

MCConf == Here :> [root |-> Img, index |-> "", server_name |-> "localhost",
                   locations |-> MCLocations]

MCDirs  == {<<"/">>, Upload, Img, Cgi}
MCPaths == MCDirs \cup {File}

To(method, url) ==
    [method |-> method, host |-> Here, url |-> url, body |-> 0, form |-> TRUE,
     name |-> "a", content |-> "new"]

MCRequestOf ==
    [get     |-> To("GET", File),
     put     |-> To("POST", Upload),
     remove  |-> To("DELETE", File),
     list    |-> To("GET", Img),
     script  |-> To("GET", Cgi \o <<"/", "f", ".py", "?">>),
     unknown |-> [To("GET", File) EXCEPT !.host = <<"localhost", 80>>]]
MCRequests == DOMAIN MCRequestOf

MCOutcomes == [r \in MCRequests |-> Result]

Symmetry == Permutations(Clients)

\* SIGINT and the shutdown send no page and write no file: they are left to the
\* runs of MCEventLoop.
MCSpec == WebInit /\ [][Serving]_webVars
=============================================================================
