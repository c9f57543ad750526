------------------------------- MODULE MCSite -------------------------------
(***************************************************************************)
(* One server in five configurations: that of default.conf and four that a *)
(* user may write.  Requests try every method on every URL of interest.    *)
(***************************************************************************)
EXTENDS Site

Place(path, methods, limit) ==
    [path |-> path, methods |-> methods, index |-> "", autoindex |-> FALSE,
     ext |-> {}, limit |-> limit]

Server(root, index, locations) ==
    [root |-> root, index |-> index, locations |-> locations,
     server_name |-> "localhost"]

Magia == <<"/", "magia", "/">>
Img   == <<"/", "img">>
Cgi   == <<"/", "cgi-bin">>
GP    == {"GET", "POST"}

Uploads == Place(UploadUrl, GP, 2)
Images  == [Place(Img, GP, 1) EXCEPT !.index = "p.html"]
Scripts == [Place(Cgi, GP \cup {"DELETE"}, 0) EXCEPT !.index = "form.html", !.ext = {".py"}]

Default == Server(Magia, "index.html",
                  {Place(Slash, GP \cup {"DELETE"}, 0), Images, Scripts, Uploads})
Listed  == Server(Magia, "", {[Uploads EXCEPT !.autoindex = TRUE],
                              [Place(Slash, {"GET"}, 1) EXCEPT !.autoindex = TRUE]})
\* Uploads go to the working directory, and the root lacks its slash.
RootOnly == Server(<<"/", "magia">>, "index.html", {Place(Slash, GP, 2)})
\* Uploads may be read and deleted; only posts, and uploads with a slash behind.
ReadOnly == Server(Magia, "index.html", {Place(UploadUrl, {"GET", "DELETE"}, 2)})
NoGet    == Server(Magia, "index.html",
                   {Place(Append(UploadUrl, "/"), GP, 2), Place(Slash, {"POST"}, 1)})

One == <<"127.0.0.1", 80>>
Two == <<"127.0.0.1", 81>>

MCConfs        == {(One :> s) : s \in {Default, Listed, RootOnly, ReadOnly, NoGet}}
MCDefaultConfs == {(One :> Default)}

MCDirs  == {Slash, UploadUrl, Img, Cgi}
MCPaths == MCDirs \cup {Under(UploadUrl, "a"), Under(UploadUrl, "img"), Under(Slash, "a"),
                       Append(Magia, "index.html")}

MCUrls == (MCPaths \ {Under(UploadUrl, "img")}) \cup
    {Magia, Append(UploadUrl, "/"), Favicon, Under(Img, "x"),
     <<"/", "upload", "s">>, <<"/", "upload", "?", "x">>,
     <<"/", "cgi-bin", "/", "f", ".py">>, <<"/", "cgi-bin", "/", "f", ".py", "?", "x">>,
     <<"/", "cgi-bin", "/", "f", "?", ".py">>}

Methods == {"GET", "POST", "DELETE"}

Requesting(methods, hosts, urls, bodies, forms, names, contents) ==
    [method : methods, host : hosts, url : urls, body : bodies, form : forms,
     name : names, content : contents]

MCRequests ==
    Requesting(Methods, {One}, MCUrls, {0}, {FALSE}, {"a"}, {"c1"})
      \cup Requesting({"GET", "PUT"}, {One, <<"localhost", 80>>}, {UploadUrl}, {0}, {FALSE},
                      {"a"}, {"c1"})
      \cup Requesting({"POST"}, {One}, {UploadUrl, Img, Cgi}, {1, 3}, {TRUE}, {"a", "img"},
                      Contents)
      \cup Requesting({"POST"}, {One}, {UploadUrl}, {1, 3}, {FALSE}, {"a"}, Contents)
=============================================================================
