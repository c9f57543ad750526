------------------------------- MODULE Upload -------------------------------
(***************************************************************************)
(* POST /upload: the request arrives in pieces while checkRequest and      *)
(* handleUpload call each other, one pair of stack frames for each recv,   *)
(* until the end marker is there; handleMultipartRequest then cuts the     *)
(* file out of the text.                                                   *)
(*                                                                         *)
(* The text is a sequence of tokens.  Each is a piece of text that ends    *)
(* with its only newline, save those in Bytes, which have none.  "request" *)
(* is the request line and the headers up to the Content-Type, "endhead"   *)
(* that header and the empty line, "delim" the line --boundary, "header" a *)
(* header of a part, "blank" an empty line, "crlf" the line end before a   *)
(* boundary, and "end" the line --boundary--.                              *)
(***************************************************************************)
EXTENDS Integers, FiniteSets, SequencesExt

CONSTANTS
    Lines, Bytes,   \* what files are made of
    Payloads,       \* the files a client sends, sequences of these
    PartHeaders,    \* how many header lines its part may have
    Tails,          \* what may follow the first part
    MaxBody,        \* the location's client_max_body_size, in tokens
    MaxDepth        \* recursions the stack has room for

Marks == {"request", "endhead", "delim", "header", "blank", "crlf", "end", "lf"}
Token == Marks \cup Lines \cup Bytes

ASSUME UploadAssumption ==
    /\ Marks \cap (Lines \cup Bytes) = {} /\ Lines \cap Bytes = {}
    /\ Payloads \subseteq Seq(Lines \cup Bytes)
    /\ PartHeaders \subseteq Nat \ {0}
    /\ Tails \subseteq Seq(Token \ {"end", "endhead"})
    /\ MaxBody \in Nat /\ MaxDepth \in Nat

VARIABLES
    sent,      \* the file, its headers and what follows, chosen by the client
    unsent,    \* tokens the client has not sent
    inbox,     \* tokens sent and not received
    text,      \* requestContent
    depth,     \* activations of checkRequest below the present one
    pc,        \* "reading", "done", or "dead"
    answer,    \* status stored in _requests
    disk       \* the file of that name: its content, or "old"

clientVars == <<sent, unsent, inbox>>
vars == <<clientVars, text, depth, pc, answer, disk>>

Body(s) ==
    <<"delim">> \o [i \in 1..s.headers |-> "header"] \o <<"blank">>
        \o s.payload \o <<"crlf">> \o s.tail \o <<"end">>

Request(s) == <<"request", "endhead">> \o Body(s)

\* What is received is what was sent, in order, and nothing twice.
TypeOK ==
    /\ sent \in [payload : Payloads, headers : PartHeaders, tail : Tails]
    /\ text \o inbox \o unsent = Request(sent)
    /\ depth \in 0..MaxDepth
    /\ pc \in {"reading", "done", "dead"}
    /\ answer \in {"none", "200", "413"}
    /\ disk = "old" \/ disk \in Seq(Token)

Init ==
    /\ sent \in [payload : Payloads, headers : PartHeaders, tail : Tails]
    /\ unsent = Request(sent) /\ inbox = <<>> /\ text = <<>>
    /\ depth = 0 /\ pc = "reading" /\ answer = "none"
    /\ disk = "old"

-----------------------------------------------------------------------------
(* What the handlers compute from the text.                                *)

Has(t, mark)      == \E i \in DOMAIN t : t[i] = mark
From(t, i)        == SubSeq(t, i, Len(t))
FirstOf(t, marks) == CHOOSE i \in DOMAIN t :
                        t[i] \in marks /\ \A j \in 1..(i - 1) : t[j] \notin marks

\* Mutant: the first token of the body is not counted.
ShortBodySize(t) ==
    IF Has(t, "endhead") THEN Len(t) - FirstOf(t, {"endhead"}) - 1 ELSE Len(t)

\* Mutant: the headers count as body.
WholeTextSize(t) == Len(t)

\* checkBodysize.  Before the empty line has come, find returns npos and
\* npos + 4 is 3: the headers themselves are measured.
BodySize(t) == IF Has(t, "endhead") THEN Len(t) - FirstOf(t, {"endhead"}) ELSE Len(t)

TooLarge(t) == BodySize(t) > MaxBody

\* Mutant: a boundary is enough.
StartedIsComplete(t) == Has(t, "endhead") /\ Has(t, "delim")

\* handleUpload goes on when the headers and the end marker are there.
Complete(t) == Has(t, "endhead") /\ Has(t, "end")

NewlinesUpTo(t, i) == Cardinality({j \in 1..i : t[j] \notin Bytes})

\* Everything after the n-th newline, or all when there are fewer.
AfterNewline(t, n) ==
    IF NewlinesUpTo(t, Len(t)) < n THEN t
    ELSE From(t, 1 + CHOOSE i \in DOMAIN t :
                         t[i] \notin Bytes /\ NewlinesUpTo(t, i) = n)

\* From the newline that ends the first boundary to the last boundary of all,
\* if there is one.
PartText(t) ==
    LET part  == From(t, FirstOf(t, {"delim"}) + 1)
        marks == {i \in DOMAIN part : part[i] \in {"delim", "end"}}
    IN  <<"lf">> \o IF marks = {} THEN part ELSE SubSeq(part, 1, Max(marks) - 1)

\* Mutant: one line too few is cut off.
ThreeLinesCut(t) == AfterNewline(PartText(t), 3)

\* handleMultipartRequest cuts off that newline and three lines more.
FileOf(t) == AfterNewline(PartText(t), 4)

-----------------------------------------------------------------------------
(* One activation of checkRequest: recv, dispatch, handleUpload.           *)

\* Mutant: the caller's copy of the text is appended again.
ReceivesTwice(k) ==
    /\ k \in 0..Len(inbox) /\ (k = 0 => inbox = <<>> /\ text # <<>>)
    /\ text' = text \o text \o SubSeq(inbox, 1, k)
    /\ inbox' = From(inbox, k + 1)
    /\ UNCHANGED <<sent, unsent>>

\* recv takes what is there.  When nothing is, the text stays as it was; at
\* first there is something, or checkRequest does not get as far as this.
Receives(k) ==
    /\ k \in 0..Len(inbox) /\ (k = 0 => inbox = <<>> /\ text # <<>>)
    /\ text' = text \o SubSeq(inbox, 1, k)
    /\ inbox' = From(inbox, k + 1)
    /\ UNCHANGED <<sent, unsent>>

Refuse ==
    /\ pc = "reading"
    /\ \E k \in 0..Len(inbox) : Receives(k)
    /\ TooLarge(text')
    /\ answer' = "413" /\ pc' = "done"
    /\ UNCHANGED <<depth, disk>>

StoreFile ==
    /\ pc = "reading"
    /\ \E k \in 0..Len(inbox) : Receives(k)
    /\ ~TooLarge(text') /\ Complete(text')
    /\ disk' = FileOf(text')
    /\ answer' = "200" /\ pc' = "done"
    /\ UNCHANGED depth

\* The file cannot be opened: exitWithError.
OpenFails ==
    /\ pc = "reading"
    /\ \E k \in 0..Len(inbox) : Receives(k)
    /\ ~TooLarge(text') /\ Complete(text')
    /\ pc' = "dead"
    /\ UNCHANGED <<depth, answer, disk>>

\* No end marker yet: handleUpload calls checkRequest, which calls it again,
\* whether or not anything new has come, until the stack is full.
Recurse ==
    /\ pc = "reading"
    /\ \E k \in 0..Len(inbox) : Receives(k)
    /\ ~TooLarge(text') /\ ~Complete(text')
    /\ IF depth < MaxDepth THEN depth' = depth + 1 /\ UNCHANGED pc
                           ELSE pc' = "dead"       /\ UNCHANGED depth
    /\ UNCHANGED <<answer, disk>>

\* The client sends on, or stops at any point.
ClientSends ==
    /\ pc = "reading" /\ unsent # <<>>
    /\ inbox' = Append(inbox, unsent[1])
    /\ unsent' = From(unsent, 2)
    /\ UNCHANGED <<sent, text, depth, pc, answer, disk>>

Next == Refuse \/ StoreFile \/ OpenFails \/ Recurse \/ ClientSends

Spec == Init /\ [][Next]_vars

-----------------------------------------------------------------------------
(* Safety.                                                                 *)

\* However the request was cut into pieces, a part with the two headers a
\* browser sends is stored to the last byte, and one line end more.
StoredWhole ==
    answer = "200" /\ sent.headers = 2 /\ sent.tail = <<>>
        => disk = sent.payload \o <<"crlf">>

\* The file on disk is replaced only when the whole request has come: a
\* client that stops leaves the old one as it was.
ReplacedOnlyWhole == [][disk' # disk => text' = Request(sent)]_vars

\* A body over the limit is never stored, in however small pieces it comes.
LimitHolds == Len(Body(sent)) > MaxBody => answer # "200" /\ disk = "old"

\* A request is refused for its body, or else because its headers had not yet
\* come when they were measured as one.
RefusedForBody ==
    answer = "413" => Len(Body(sent)) > MaxBody \/ ~Has(text, "endhead")

-----------------------------------------------------------------------------
(* What the source says of itself.                                         *)

\* http_tcpServer_linux.cpp:1131, "Extraer los datos binarios de la imagen":
\* what a client sent as the only file is what is stored.
StoredIsSent ==
    answer = "200" /\ sent.tail = <<>> => disk = sent.payload
=============================================================================
