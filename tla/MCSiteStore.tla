----------------------------- MODULE MCSiteStore -----------------------------
(***************************************************************************)
(* The default server alone, and beside one that lists its directories.    *)
(***************************************************************************)
EXTENDS MCSite, SiteStore

MCStoreConfs == {(One :> Default), (One :> Default @@ Two :> Listed)}

MCStoreDirs  == {Slash, UploadUrl, Img, Cgi}
MCStorePaths == MCStoreDirs \cup {UploadFile(n) : n \in Names} \cup {Under(Slash, n) : n \in Names}

MCPieces == UNION {ToSet(p) : p \in MCStorePaths \cup MCUrls} \cup {".py"}

MCStoreRequests ==
    Requesting({"GET", "DELETE"}, {One, Two},
               {UploadUrl, Append(UploadUrl, "/"), Slash, Under(Slash, "a")}
                 \cup {UploadFile(n) : n \in Names},
               {0}, {FALSE}, {"a"}, {"c1"})
      \cup Requesting({"POST"}, {One, Two}, {UploadUrl}, {1, 3}, {TRUE}, Names, Contents)
      \cup Requesting({"POST"}, {One, Two}, {UploadUrl}, {1}, {FALSE}, {"a"}, {"c1"})
=============================================================================
