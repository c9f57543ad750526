------------------------------ MODULE MCStartup ------------------------------
(***************************************************************************)
(* Configurations as somebody writes them: servers of clauses, locations   *)
(* of clauses, printed with a blank between two words; the same with one   *)
(* token left out; a few words in any order; and every text of a few       *)
(* tokens.  What a written configuration means is said of its clauses,     *)
(* without words and indices.                                              *)
(***************************************************************************)
EXTENDS Startup

CONSTANT NotWritten

VARIABLE written    \* the servers that were written, or NotWritten

MCNumberOf == "0" :> 0 @@ "1" :> 1 @@ "80" :> 80 @@ "404" :> 404 @@ "405" :> 405
                  @@ "700" :> 700 @@ "70000" :> 70000
MCHostOf   == "localhost" :> 1 @@ "127.0.0.1" :> 1 @@ "0.0.0.0" :> 0 @@ "8.8.8.8" :> 2

SlashPath == <<"/">>
ImgPath   == <<"/", "img">>
MCDirectories == {<<"img">>, <<"cwd", "/">>, <<"cwd", "/", "img">>, <<"cwd", "x", "img">>,
                  <<"/", "img", "/", "img">>}
MCFiles == {<<"page">>} \cup {<<".">> \o p \o <<"/", "page">> : p \in {SlashPath, ImgPath}}

-----------------------------------------------------------------------------
(* What is written.                                                        *)

Clause(key, args)    == [key |-> key, args |-> args, body |-> <<>>]
Place(path, clauses) == [key |-> "location", args |-> <<path>>, body |-> clauses]

WithSemicolon(args) == Front(args) \o << Append(Last(args), ";") >>
WordsOf(c)  == << <<c.key>> >> \o WithSemicolon(c.args)
AllWords(cs) == FlattenSeq([n \in DOMAIN cs |-> WordsOf(cs[n])])
ClauseWords(c) ==
    IF c.key = "location"
    THEN << <<"location">>, c.args[1], <<"{">> >> \o AllWords(c.body) \o << <<"}">> >>
    ELSE WordsOf(c)

Spaced(ws) == FlattenSeq([n \in DOMAIN ws |-> Append(ws[n], " ")])
PrintServer(cs) ==
    <<"server", " ", "{", " ">>
      \o Spaced(FlattenSeq([n \in DOMAIN cs |-> ClauseWords(cs[n])])) \o <<"}">>

TextOf(tree) ==
    FlattenSeq([n \in DOMAIN tree |->
        PrintServer(tree[n]) \o IF n = Len(tree) THEN <<>> ELSE <<" ">>])

-----------------------------------------------------------------------------
(* What it means.                                                          *)

Given(cs, key) == {n \in DOMAIN cs : cs[n].key = key}
Value(cs, key, none, Read(_)) ==
    IF Given(cs, key) = {} THEN none ELSE Read(cs[Max(Given(cs, key))].args[1])

\* Given once, or with a value that stands for none before.
Right(cs, key, none, Valid(_), Read(_)) ==
    \A n \in Given(cs, key) :
        /\ Len(cs[n].args) = 1 /\ Valid(cs[n].args[1])
        /\ \A m \in Given(cs, key) : m < n => Read(cs[m].args[1]) = none

LocationOf(c) ==
    LET cs == c.body IN
    [path |-> c.args[1],
     root |-> Value(cs, "root", <<>>, Itself), index |-> Value(cs, "index", <<>>, Itself),
     return |-> Value(cs, "return", <<>>, Itself), alias |-> Value(cs, "alias", <<>>, Itself),
     autoindex |-> Value(cs, "autoindex", <<>>, Itself),
     methods |-> IF Given(cs, "allow_methods") = {} THEN <<>>
                 ELSE cs[Max(Given(cs, "allow_methods"))].args,
     cgi_path |-> IF Given(cs, "cgi_path") = {} THEN <<>>
                  ELSE cs[Max(Given(cs, "cgi_path"))].args,
     cgi_ext |-> IF Given(cs, "cgi_ext") = {} THEN <<>>
                 ELSE cs[Max(Given(cs, "cgi_ext"))].args,
     cmbz |-> Value(cs, "client_max_body_size", 0, Number)]

\* A second allow_methods may not name what the one before it names.
LastTwo(cs, n) ==
    LET before == {m \in Given(cs, "allow_methods") : m < n}
    IN  (IF before = {} THEN <<>> ELSE cs[Max(before)].args) \o cs[n].args

RightLocation(c, root) ==
    LET cs == c.body IN
    /\ \E d \in MCDirectories : d \in {Tail(c.args[1]), <<CurDir>> \o c.args[1]}
    /\ Right(cs, "root", <<>>, LAMBDA w : \E d \in MCDirectories : d \in {Tail(w), root \o w},
             Itself)
    /\ \A key \in {"index", "return", "alias"} : Right(cs, key, <<>>, AnyWord, Itself)
    /\ Right(cs, "autoindex", <<>>, IsOnOff, Itself)
    /\ Right(cs, "client_max_body_size", 0, IsNumber, Number)
    /\ \A n \in Given(cs, "allow_methods") :
           ToSet(cs[n].args) \subseteq Methods /\ IsInjective(LastTwo(cs, n))
    /\ \A n \in Given(cs, "cgi_path") :
           \A w \in ToSet(Front(cs[n].args)) : ToSet(w) \cap Interpreters # {}

ErrorPagesOf(cs) ==
    LET given == Given(cs, "error_page")
        codes == {Number(cs[n].args[1]) : n \in given}
        last(code) == Max({n \in given : Number(cs[n].args[1]) = code})
    IN  [code \in codes \cup {404} |->
            IF code \in codes THEN cs[last(code)].args[2]
                              ELSE NewServer.error_pages[404]]

ServerOf(cs) ==
    [port |-> Value(cs, "listen", 0, Number),
     server_name |-> Value(cs, "server_name", <<>>, Itself),
     host |-> Value(cs, "host", 0, Host),
     root |-> Value(cs, "root", <<>>, Root),
     index |-> Value(cs, "index", <<>>, Itself),
     cmbz |-> Value(cs, "client_max_body_size", 0, Number),
     error_pages |-> ErrorPagesOf(cs),
     locations |-> LET places == SelectSeq(cs, LAMBDA c : c.key = "location")
                   IN  [n \in DOMAIN places |-> LocationOf(places[n])]]

RightServer(cs) ==
    /\ Right(cs, "listen", 0, IsPort, Number)
    /\ Right(cs, "host", 0, IsHost, Host)
    /\ \A key \in {"server_name", "index"} : Right(cs, key, <<>>, AnyWord, Itself)
    /\ Right(cs, "root", <<>>, IsRoot, Root)
    /\ Right(cs, "client_max_body_size", 0, IsNumber, Number)
    /\ \A n \in Given(cs, "error_page") :
           LET code == cs[n].args[1] IN
               /\ IsCode(code)
               /\ \/ cs[n].args[2] \in Files \/ Number(code) = 404
                  \/ \E m \in Given(cs, "error_page") : m < n /\ cs[m].args[1] = code
    /\ \A n \in Given(cs, "location") :
           RightLocation(cs[n], Value(SubSeq(cs, 1, n - 1), "root", <<>>, Root))
    /\ Cardinality(Given(cs, "location")) > 1 =>
           \A n \in Given(cs, "location") :
               /\ LET l == LocationOf(cs[n])
                  IN  l.index # <<>> => IndexPath(l) \in Files
               /\ \A m \in Given(cs, "location") : m # n => cs[m].args # cs[n].args

RightTree(tree) ==
    /\ \A n \in DOMAIN tree : RightServer(tree[n])
    /\ \A m, n \in DOMAIN tree :
           m # n => Address(ServerOf(tree[m])) # Address(ServerOf(tree[n]))

\* A configuration written with a blank between two words is read as it is
\* written: every value of every clause reaches its own field of its own server
\* and location, it is refused only for a clause that is wrong, and no value is
\* looked for where there is none.
ReadAsWritten ==
    written # NotWritten =>
        /\ pc \notin {"malformed", "undefined"}
        /\ pc = "refused" => ~RightTree(written)
        /\ pc = "listen" /\ listening = <<>> =>
               RightTree(written) /\ servers = [n \in DOMAIN written |-> ServerOf(written[n])]

-----------------------------------------------------------------------------
(* The instance.                                                           *)

SetsOf(pairs) == {Clause(p[1], p[2]) : p \in pairs}
W(token) == <<token>>
NoPath   == <<"/", "no">>
OddPath  == <<"x", "img">>
Page     == <<"page">>

ServerClauses == SetsOf({
    <<"listen", <<W("80")>> >>, <<"listen", <<W("0")>> >>, <<"listen", <<W("70000")>> >>,
    <<"host", <<W("localhost")>> >>, <<"host", <<W("0.0.0.0")>> >>, <<"host", <<W("x")>> >>,
    <<"server_name", <<W("a")>> >>, <<"server_name", <<W("a"), W("b")>> >>,
    <<"root", <<ImgPath>> >>, <<"root", <<SlashPath>> >>, <<"root", <<NoPath>> >>,
    <<"index", <<Page>> >>, <<"client_max_body_size", <<W("1")>> >>,
    <<"error_page", <<W("405"), Page>> >>, <<"error_page", <<W("404"), NoPath>> >>,
    <<"error_page", <<W("405"), NoPath>> >>, <<"error_page", <<W("700"), Page>> >>})

LocationClauses == SetsOf({
    <<"root", <<ImgPath>> >>, <<"root", <<NoPath>> >>,
    <<"allow_methods", <<W("GET")>> >>, <<"allow_methods", <<W("POST"), W("DELETE")>> >>,
    <<"allow_methods", <<W("GET"), W("GET")>> >>,
    <<"autoindex", <<W("on")>> >>, <<"autoindex", <<W("x")>> >>,
    <<"index", <<Page>> >>, <<"index", <<NoPath>> >>,
    <<"return", <<Page>> >>, <<"alias", <<Page>> >>,
    <<"cgi_path", << <<"/usr/bin", "/python">>, Page>> >>, <<"cgi_path", <<Page, Page>> >>,
    <<"cgi_ext", <<W(".py"), W(".sh")>> >>, <<"client_max_body_size", <<W("1")>> >>})

UpTo(n, S) == UNION {[1..m -> S] : m \in 0..n}

Pairs    == UpTo(2, LocationClauses)
\* One server: of two clauses; of one location between other clauses; of two
\* or three locations.
Plain    == UpTo(2, ServerClauses)
Located  == {<<Place(p, b)>> : p \in {ImgPath, OddPath}, b \in Pairs}
              \cup {<<c, Place(SlashPath, b), Clause("index", <<Page>>)>> :
                     b \in UpTo(1, LocationClauses), c \in ServerClauses}
Compared == {c \in LocationClauses : c.key \in {"index", "allow_methods"}}
Crowded  == {<<Place(p, b), Place(q, c)>> :
                p \in {ImgPath, SlashPath, NoPath}, q \in {ImgPath, SlashPath},
                b \in UpTo(1, Compared), c \in UpTo(1, Compared)}
              \cup {<<Place(SlashPath, b)>> :
                     b \in [1..3 -> {c \in LocationClauses : c.key = "allow_methods"}]}

\* Several servers.
Addressed == {<<Clause("host", <<W(h)>>), Clause("listen", <<W(p)>>)>> :
                 h \in {"localhost", "127.0.0.1", "0.0.0.0", "8.8.8.8"}, p \in {"0", "80", "404"}}
Trees == {<<cs>> : cs \in Plain \cup Located \cup Crowded} \cup (UpTo(2, Addressed) \ {<<>>})
           \cup {<<<<c, Place(ImgPath, <<>>)>>, cs>> :
                  c \in ServerClauses, cs \in UpTo(1, ServerClauses)}

\* Texts that nobody means.
Whole == {<<<<c>>>> : c \in ServerClauses}
           \cup {<<<<Place(ImgPath, <<c, d>>)>>>> :
                  c \in {e \in LocationClauses : Len(e.args) > 1}, d \in LocationClauses}
Without(s, k) == SubSeq(s, 1, k - 1) \o SubSeq(s, k + 1, Len(s))
Garbled == UNION {{Without(TextOf(t), k) : k \in DOMAIN TextOf(t)} : t \in Whole}
Loose == {W("location"), W("{"), W("}"), ImgPath, W("cgi_ext"), <<".py", ";">>,
          W("listen"), <<"80", ";">>, W("allow_methods")}
Scrambled ==
    {<<"server", " ", "{", " ">>
       \o Spaced(<<W("location"), ImgPath, W("{")>> \o ws \o <<W("listen"), <<"80", ";">> >>)
       \o <<"}">> : ws \in [1..3 -> Loose]}
Short   == UNION {[1..n -> {" ", "server", "{", "}", "listen"}] : n \in 0..5}

MCTokens == STRING

LocalOnly == {0, 1}
MCTaken == {{<<1, 404>>}}

MCInit ==
    /\ \/ written \in Trees /\ text = TextOf(written)
       \/ written = NotWritten /\ text \in Short \cup Garbled \cup Scrambled
    /\ Init

MCSpec == /\ MCInit /\ [][Next /\ UNCHANGED written]_<<vars, written>>
          /\ WF_vars(Next /\ UNCHANGED written)
=============================================================================
