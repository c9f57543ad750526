----------------------------- MODULE FileStore -----------------------------
(***************************************************************************)
(* What the upload pages promise: a store of named files.  A file put is   *)
(* the file got until it is put again or removed, the list names what is   *)
(* there, and nothing else that is asked of the server changes the store.  *)
(* The directory goes when it is removed empty; nothing can be put then,   *)
(* and the server does not survive the attempt.                            *)
(***************************************************************************)
CONSTANTS
    Names, Contents,
    NoFile,        \* content of a file that is not there
    Unsaid         \* what the store does not say of the other requests

VARIABLES
    files,     \* Names -> content
    open,      \* whether the directory is there
    up,        \* whether the server runs
    reply      \* the last request and what was answered

vars == <<files, open, up, reply>>

Said(op, name, status, file, names) ==
    [op |-> op, name |-> name, status |-> status, file |-> file, names |-> names]

Present == {n \in Names : files[n] # NoFile}

Init ==
    /\ files \in [Names -> Contents \cup {NoFile}]
    /\ open = TRUE /\ up = TRUE
    /\ reply = Unsaid

Put(n, c) ==
    /\ up /\ open
    /\ files' = [files EXCEPT ![n] = c]
    /\ reply' = Said("put", n, "200", NoFile, {})
    /\ UNCHANGED <<open, up>>

\* The file is larger than the server takes.
PutRefused(n) ==
    /\ up
    /\ reply' = Said("put", n, "413", NoFile, {})
    /\ UNCHANGED <<files, open, up>>

PutLost(n) ==
    /\ up /\ ~open
    /\ up' = FALSE
    /\ reply' = Said("put", n, "none", NoFile, {})
    /\ UNCHANGED <<files, open>>

Get(n) ==
    /\ up
    /\ reply' = Said("get", n, IF n \in Present THEN "200" ELSE "404", files[n], {})
    /\ UNCHANGED <<files, open, up>>

Remove(n) ==
    /\ up
    /\ files' = [files EXCEPT ![n] = NoFile]
    /\ reply' = Said("remove", n, IF n \in Present THEN "200" ELSE "404", NoFile, {})
    /\ UNCHANGED <<open, up>>

List ==
    /\ up
    /\ \E status \in {"200"} \cup (IF open THEN {} ELSE {"404"}) :
           reply' = Said("list", NoFile, status, NoFile, Present)
    /\ UNCHANGED <<files, open, up>>

RemoveAll ==
    /\ up /\ Present = {}
    /\ open' = FALSE
    /\ reply' = Unsaid
    /\ UNCHANGED <<files, up>>

\* A request that is not of the store may end the server.
Other ==
    /\ up
    /\ up' \in BOOLEAN
    /\ reply' = Unsaid
    /\ UNCHANGED <<files, open>>

Next ==
    \/ \E n \in Names : \/ \E c \in Contents : Put(n, c)
                        \/ PutRefused(n) \/ PutLost(n) \/ Get(n) \/ Remove(n)
    \/ List \/ RemoveAll \/ Other

Spec == Init /\ [][Next]_vars
=============================================================================
