------------------------------- MODULE Webserv -------------------------------
(***************************************************************************)
(* The whole server: the loop of EventLoop with the handlers of Site.      *)
(* What checkRequest leaves in _requests, whether it ends the process and  *)
(* whether it leaks a descriptor is now decided by the request, the        *)
(* configuration, the files, and the descriptors that are left.            *)
(*                                                                         *)
(* A request comes as one segment.  asked and response are locals of       *)
(* checkRequest: nothing is left of them when its pass is over.            *)
(***************************************************************************)
EXTENDS EventLoop, FiniteSets

CONSTANTS
    RequestOf,                              \* what the requests of EventLoop ask
    conf,                                   \* webServer, read before the loop
    Paths, Dirs, Contents, NoFile           \* see Site

VARIABLES
    files, dirs, asked, response,           \* see Site
    reply,      \* _requests: descriptor -> the answer, as Site has them
    got,        \* what each peer was sent pieces of
    wants,      \* what each peer asked for
    before,     \* whose answers were out when a peer asked
    starved     \* whose request found no descriptor to open its file with

Asked    == {RequestOf[q] : q \in Requests}
Handlers == INSTANCE Site WITH up <- Running, Requests <- Asked, Confs <- {conf}

diskVars == <<files, dirs>>
passVars == <<asked, response>>
seenVars == <<got, wants, before, starved>>
webVars  == <<vars, diskVars, passVars, reply, seenVars>>

NoAnswer  == Handlers!Answer("none")
NoRequest == Handlers!NoRequest

\* A handler may do anything a handler can do; Serves says which does what.
\* Each of finitely many peers asks once.
ASSUME WebAssumption ==
    /\ Outcomes = [q \in Requests |-> Result]
    /\ MaxSegments = 1 /\ "none" \notin Requests /\ IsFiniteSet(Clients)
    /\ Handlers!PathsFit

WebTypeOK ==
    /\ TypeOK /\ Handlers!TypeOK
    /\ \A f \in Fds : reply[f] # NoAnswer => requests[f] # "none"
    /\ \A c \in Clients : wants[c] \in Requests \cup {"none"}
    /\ before \in [Clients -> SUBSET Clients] /\ starved \subseteq Clients

WebInit ==
    /\ Init /\ Handlers!Init
    /\ reply = [f \in Fds |-> NoAnswer]
    /\ got = [c \in Clients |-> {}]
    /\ wants = [c \in Clients |-> "none"]
    /\ before = [c \in Clients |-> {}]
    /\ starved = {}

-----------------------------------------------------------------------------
(* What a request costs in descriptors.                                    *)

Loc(r) == Handlers!Loc(r)

\* autoIndex opens the directory, and again to read it.
Lists(r, these) == /\ Handlers!Gets(r, Loc(r)) /\ Loc(r).autoindex
                   /\ Handlers!Trimmed(r.url) \in these
ListsDir(r) == Lists(r, dirs)

RunsScript(r) ==
    /\ Handlers!IsScript(r, Loc(r))
    /\ \/ Handlers!GetsPage(r, Loc(r)) /\ Handlers!IsPlain(r)
       \/ Handlers!Posts(r, Loc(r)) /\ r.url # Handlers!UploadUrl

\* A GET without a query does not come to handle_cgi_request.
CallsScript(r) == RunsScript(r) /\ (r.method = "GET" => Handlers!HasQuery(r.url))

Redirects(r) == Handlers!GetsPage(r, Loc(r)) /\ r.url = Handlers!Slash
                    /\ r.url # Handlers!ServerOf(r).root

Uploads(r) == Handlers!Posts(r, Loc(r)) /\ r.url = Handlers!UploadUrl

UsesFile(r) == \/ Uploads(r)
               \/ Handlers!Gets(r, Loc(r)) /\ ~Redirects(r) /\ ~RunsScript(r)

Starves(r) ==
    /\ Handlers!Known(r)
    /\ \/ FreeFds = {} /\ UsesFile(r)
       \/ ListsDir(r) /\ ~\E f, g \in FreeFds : f # g

\* Mutant: nothing is answered for a file that cannot be opened.
SilentStarvedAnswer(r) ==
    CASE ListsDir(r) /\ FreeFds # {} -> Handlers!Listing({})
      [] OTHER -> NoAnswer

\* A file that cannot be opened is not found, but for the icon, which is sent
\* empty; a directory that cannot be opened lists nothing; an upload exits.
StarvedAnswer(r) ==
    CASE ListsDir(r) /\ FreeFds # {} -> Handlers!Listing({})
      [] ~Loc(r).autoindex /\ r.url = Handlers!Favicon -> Handlers!Page(NoFile)
      [] ~Loc(r).autoindex /\ r.url = Handlers!UploadUrl -> Handlers!Listing({})
      [] OTHER -> Handlers!Answer("404")

StarvedRequest(r) ==
    IF Uploads(r) THEN Handlers!Dies(r) ELSE Handlers!Only(r, StarvedAnswer(r))

\* What a request has opened: a script its pipe, whether fork then works or not.
Openings(r) ==
    IF ~Handlers!Known(r) THEN {"none"}
    ELSE IF CallsScript(r) THEN {"pipe", "pipes"}
    ELSE IF ListsDir(r) THEN {"dir"}
    ELSE {"none"}

\* What becomes of an answer.
Act == IF ~Running' THEN "stop" ELSE IF response'.status = "none" THEN "mute" ELSE "answer"

\* A CGI call answers only with a pipe and a child, and may not even then.
Serves(r, o) ==
    /\ IF Starves(r) THEN StarvedRequest(r) ELSE Handlers!checkRequest(r)
    /\ o.opens \in Openings(r) /\ o.act = Act
    /\ response'.status = "cgi" => ~Unforked(o)

-----------------------------------------------------------------------------
(* The loop's steps, with what is read and written.                        *)

PassEnds == asked' = NoRequest /\ response' = NoAnswer

\* What _requests holds of these answers.
Stored(answers) == [f \in Fds |-> IF requests'[f] = "none" THEN NoAnswer ELSE answers[f]]

\* checkRequest with the text of one request.
HandleRequest(c) ==
    \E o \in Outcomes[inbox[c][1]] :
        /\ Handles(c, 1, o)
        /\ Serves(RequestOf[inbox[c][1]], o)
        /\ reply' = Stored([reply EXCEPT ![Sd] = response'])
        /\ starved' = IF Starves(RequestOf[inbox[c][1]]) THEN starved \cup {c} ELSE starved
        /\ UNCHANGED <<got, wants, before>>

\* checkRequest with no text: getServerUsing throws.
HandleSilence(c) ==
    /\ Handles(c, 0, [act |-> "stop", opens |-> "none"])
    /\ PassEnds
    /\ reply' = Stored(reply)
    /\ UNCHANGED <<diskVars, seenVars>>

SendReply(c) ==
    /\ SendPiece(c)
    /\ got' = [got EXCEPT ![c] = @ \cup {reply[Sd]}]
    /\ PassEnds /\ UNCHANGED <<diskVars, reply, wants, before, starved>>

Answered == {c \in Clients : heard[c] = {c} /\ recvd[c] = ResponseLen}

Ask(c, q) ==
    /\ Send(c, q)
    /\ wants' = [wants EXCEPT ![c] = q]
    /\ before' = [before EXCEPT ![c] = Answered]
    /\ PassEnds /\ UNCHANGED <<diskVars, reply, got, starved>>

LoopStepOnly ==
    \/ TopOfLoop \/ SelectReturns \/ SelectFails
    \/ SkipListener \/ AcceptFails \/ \E c \in Clients : Accept(c)
    \/ SkipRead \/ SkipWrite \/ FinishResponse
    \/ \E c \in Clients : SendFails(c) \/ SendKills(c)
    \/ ShutdownFree \/ \E c \in Clients : Shutdown503(c) \/ ShutdownKills(c)
    \/ Exit
    \/ \E c \in Clients : \/ \E k \in Listeners : Connect(c, k)
                          \/ Close(c) \/ Reset(c) \/ Drain(c)

OtherStep ==
    LoopStepOnly /\ reply' = Stored(reply) /\ PassEnds /\ UNCHANGED <<diskVars, seenVars>>

Interrupt == Sigint /\ PassEnds /\ UNCHANGED <<diskVars, reply, seenVars>>

Serving ==
    \/ \E c \in Clients :
           \/ inbox[c] # <<>> /\ HandleRequest(c)
           \/ inbox[c] = <<>> /\ HandleSilence(c)
           \/ SendReply(c)
           \/ \E q \in Requests : Ask(c, q)
    \/ OtherStep

WebNext == Serving \/ Interrupt

WebSpec == WebInit /\ [][WebNext]_webVars

-----------------------------------------------------------------------------
(* Safety.                                                                 *)

\* The peers that have asked for something, and for what.
Askers == {c \in Clients : wants[c] # "none"}
Wish(c) == RequestOf[wants[c]]

Stores(r) == Uploads(r) /\ r.form

Writes(r, url) ==
    /\ Handlers!Known(r)
    /\ \/ Stores(r) /\ Handlers!Target(r, Loc(r)) = url
       \/ Handlers!Deletes(r, Loc(r)) /\ r.url = url
WritersOf(url) == {c \in Askers : Writes(Wish(c), url)}
LeftBy(r)  == IF Stores(r) THEN r.content ELSE NoFile

\* A GET whose location answers it from the file that the URL names: no index,
\* directory or script in its place.
ReadsFile(r) ==
    /\ Handlers!Known(r) /\ Handlers!Gets(r, Loc(r))
    /\ \/ Loc(r).autoindex
       \/ Handlers!IsPlain(r) /\ ~Handlers!IsScript(r, Loc(r))
    /\ Handlers!FileFor(r, Loc(r)) = r.url
    /\ r.url \in Paths /\ Handlers!Trimmed(r.url) \notin Dirs

\* What a peer reads is what was last written, as far as the peers can tell
\* who wrote last: an upload or a deletion that was answered before the
\* request was sent is seen, unless a later one may have come between.  Only a
\* server out of descriptors says that there is no such file.
FreshAt(b, a) ==
    \E w \in WritersOf(Wish(b).url) :
        /\ b \notin before[w]
        /\ \A d \in before[b] \cap WritersOf(Wish(b).url) : w \notin before[d]
        /\ a = IF LeftBy(Wish(w)) = NoFile THEN Handlers!Answer("404")
                                           ELSE Handlers!Page(LeftBy(Wish(w)))
ReadsAreFresh ==
    \A b \in Askers \ starved : \A a \in got[b] :
        /\ ReadsFile(Wish(b))
        /\ before[b] \cap WritersOf(Wish(b).url) # {}
        => FreshAt(b, a)

\* Nobody whose request was read waits for nothing: while the connection is open
\* the answer is pending, also on a server out of descriptors and whatever the
\* other peers do, unless the request was for a script.
Heeded ==
    \A c \in Askers \cap Open :
        inbox[c] = <<>> => \/ \E f \in Fds : owner[f] = c /\ requests[f] = c
                           \/ Handlers!Known(Wish(c)) /\ RunsScript(Wish(c))

\* What ends the process other than SIGINT: a peer that goes away at the wrong
\* time, a Host no server has, an upload that is no whole form or has no place to
\* go, and no descriptor left.  The last needs as many connections, scripts and
\* listings as there are descriptors: each script and each listing, also of a
\* directory since removed, costs one, for good; a script that got no answer may
\* have cost two; nothing else costs any.
GoneAway   == {c \in Clients : peer[c] \notin {"none", "open"} /\ recvd[c] < ResponseLen}
Unanswered == {c \in Clients : peer[c] # "none" /\ c \notin Answered}
Callers    == {c \in Askers : Handlers!Known(Wish(c)) /\ CallsScript(Wish(c))}
Listers    == {c \in Askers : Handlers!Known(Wish(c)) /\ Lists(Wish(c), Dirs)}
DiesForAReason ==
    pc = "dead" =>
        \/ endserver
        \/ GoneAway # {}
        \/ \E c \in Askers :
               \/ ~Handlers!Known(Wish(c))
               \/ /\ Uploads(Wish(c))
                  /\ ~(Wish(c).form /\ Handlers!CanStore(Wish(c), Loc(Wish(c))))
        \/ Cardinality(Unanswered) + Cardinality(Callers \cup Listers)
               + Cardinality(Callers \cap Unanswered) >= NumFds
=============================================================================
