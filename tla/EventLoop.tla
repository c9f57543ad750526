------------------------------ MODULE EventLoop ------------------------------
(***************************************************************************)
(* The select() loop of TcpServer::startListen, with acceptConnection, the *)
(* reading half of checkRequest, sendResponse, the SIGINT handler and the  *)
(* shutdown sequence.  One process runs the loop; the kernel, the peers    *)
(* and the signal interleave with it between two system calls.             *)
(*                                                                         *)
(* Client sockets are the descriptors 1..NumFds, the listening sockets the *)
(* descriptors above them.  0 is what the code stores in a free slot of    *)
(* clientSockets.  What a handler does with a request is a parameter,      *)
(* Outcomes; an answer is identified by the client whose request it is for *)
(* and is sent in ResponseLen pieces.                                      *)
(***************************************************************************)
EXTENDS Integers, Sequences

CONSTANTS
    Clients,        \* the peers; each opens one connection
    NumListeners,   \* serverSockets.size()
    MAX_CLIENTS,    \* slots of clientSockets
    NumFds,         \* descriptors the process may still open
    Requests,       \* the kinds of requests a peer may send
    Outcomes,       \* what checkRequest may do with each kind
    MaxSegments,    \* bound on the segments a peer sends
    ResponseLen,    \* send() calls one answer needs
    Window          \* pieces a peer's socket buffer holds

Result == [act : {"answer", "mute", "stop"}, opens : {"none", "pipe", "pipes", "dir"}]

ASSUME ConstantsAssumption ==
    /\ Clients \cap {"free", "leaked", "none", "503"} = {}
    /\ NumListeners \in Nat \ {0} /\ MAX_CLIENTS \in Nat \ {0}
    /\ NumFds \in Nat \ {0} /\ MaxSegments \in Nat
    /\ ResponseLen \in Nat \ {0} /\ Window \in Nat \ {0}
    /\ "tail" \notin Requests
    /\ Outcomes \in [Requests -> SUBSET Result]

VARIABLES
    pc,             \* where the loop is: see Where
    li,             \* index into serverSockets
    si,             \* index into clientSockets
    clientSockets,  \* slot -> descriptor, 0 when free
    requests,       \* _requests: descriptor -> pending answer, "none" when empty
    readfds,        \* fd_set after select
    writefds,       \* fd_set after select
    totalSent,      \* sendResponse's counter
    endserver,      \* _endserver
    owner,          \* kernel: descriptor -> connection, "leaked" or "free"
    backlog,        \* kernel: listener -> connections not yet accepted
    peer,           \* state of each peer's side of its connection
    inbox,          \* segments the peer sent and the server has not read
    sends,          \* segments the peer has sent
    heard,          \* whose answers the peer was sent pieces of
    recvd,          \* pieces the server sent the peer
    drained         \* pieces the peer has read

loopVars   == <<pc, li, si, clientSockets, requests, readfds, writefds,
                totalSent, endserver>>
kernelVars == <<owner, backlog>>
peerVars   == <<peer, inbox, sends, heard, recvd, drained>>
vars       == <<loopVars, kernelVars, peerVars>>

Fds             == 1..NumFds
Slots           == 1..MAX_CLIENTS
Listeners       == 1..NumListeners
ServerSocket(k) == NumFds + k
ServerSockets   == {ServerSocket(k) : k \in Listeners}
Segments        == Requests \cup {"tail"}
Where           == {"top", "select", "accept", "read", "write", "shutdown",
                    "exiting", "exited", "dead"}
Closing         == pc \in {"shutdown", "exiting"}
Running         == pc \notin {"exited", "dead"}

TypeOK ==
    /\ pc \in Where
    /\ li \in Listeners /\ si \in Slots
    /\ clientSockets \in [Slots -> Fds \cup {0}]
    /\ requests \in [Fds -> Clients \cup {"none"}]
    /\ readfds \subseteq Fds \cup ServerSockets
    /\ writefds \subseteq Fds
    /\ totalSent \in 0..ResponseLen
    /\ endserver \in BOOLEAN
    /\ owner \in [Fds -> Clients \cup {"free", "leaked"}]
    /\ backlog \in [Listeners -> SUBSET Clients]
    /\ peer \in [Clients -> {"none", "open", "fin", "reset", "broken"}]
    /\ inbox \in [Clients -> Seq(Segments)]
    /\ sends \in [Clients -> 0..MaxSegments]
    /\ heard \in [Clients -> SUBSET (Clients \cup {"none", "503"})]
    /\ recvd \in [Clients -> Nat]
    /\ drained \in [Clients -> Nat]

Init ==
    /\ pc = "top" /\ li = 1 /\ si = 1
    /\ clientSockets = [i \in Slots |-> 0]
    /\ requests = [f \in Fds |-> "none"]
    /\ readfds = {} /\ writefds = {}
    /\ totalSent = 0
    /\ endserver = FALSE
    /\ owner = [f \in Fds |-> "free"]
    /\ backlog = [k \in Listeners |-> {}]
    /\ peer = [c \in Clients |-> "none"]
    /\ inbox = [c \in Clients |-> <<>>]
    /\ sends = [c \in Clients |-> 0]
    /\ heard = [c \in Clients |-> {}]
    /\ recvd = [c \in Clients |-> 0]
    /\ drained = [c \in Clients |-> 0]

-----------------------------------------------------------------------------
(* The kernel's side of the system calls.                                  *)

FreeFds  == {f \in Fds : owner[f] = "free"}
Lowest(S) == CHOOSE x \in S : \A y \in S : x <= y

\* A peer's socket is writable while its buffer has room, or when an error
\* is waiting to be reported.
HasRoom(c)  == recvd[c] - drained[c] < Window
Readable(c) == inbox[c] # <<>> \/ peer[c] # "open"
Writable(c) == HasRoom(c) \/ peer[c] \in {"reset", "broken"}

\* The process is gone: the kernel closes every descriptor it held.
ProcessEnds(how) ==
    /\ pc' = how
    /\ owner' = [f \in Fds |-> "free"]
    /\ clientSockets' = [i \in Slots |-> 0]
    /\ requests' = [f \in Fds |-> "none"]
    /\ backlog' = [k \in Listeners |-> {}]
    /\ totalSent' = 0
    /\ UNCHANGED <<li, si, readfds, writefds, endserver>>

-----------------------------------------------------------------------------
(* One round of the loop.                                                  *)

\* Mutant: the loop goes on while there are connections.
DrainingTopOfLoop ==
    /\ pc = "top"
    /\ IF endserver /\ \A i \in Slots : clientSockets[i] = 0
       THEN pc' = "shutdown" /\ si' = 1
       ELSE pc' = "select" /\ UNCHANGED si
    /\ UNCHANGED <<li, clientSockets, requests, readfds, writefds, totalSent,
                   endserver, kernelVars, peerVars>>

\* while (!_endserver)
TopOfLoop ==
    /\ pc = "top"
    /\ IF endserver THEN pc' = "shutdown" /\ si' = 1
                    ELSE pc' = "select"   /\ UNCHANGED si
    /\ UNCHANGED <<li, clientSockets, requests, readfds, writefds, totalSent,
                   endserver, kernelVars, peerVars>>

\* The fd_sets handed to select, rebuilt from nothing in every round.
Tracked   == {f \in Fds : \E i \in Slots : clientSockets[i] = f}

\* Mutants: a set not emptied before it is rebuilt; every connection polled
\* for writing; no write poll while there is more to read.
StalePollRead  == readfds \cup Tracked \cup ServerSockets
EveryPollWrite == Tracked
QuietPollWrite == {f \in Tracked : requests[f] # "none" /\ f \notin readfds}

PollRead  == Tracked \cup ServerSockets
PollWrite == {f \in Tracked : requests[f] # "none"}

\* select returns what is ready, or nothing after its timeout.
SelectReturns ==
    /\ pc = "select"
    /\ readfds' = {f \in PollRead :
                     \/ \E k \in Listeners : f = ServerSocket(k) /\ backlog[k] # {}
                     \/ \E c \in Clients : f \in Fds /\ owner[f] = c /\ Readable(c)}
    /\ writefds' = {f \in PollWrite :
                     \E c \in Clients : owner[f] = c /\ Writable(c)}
    /\ pc' = "accept" /\ li' = 1
    /\ UNCHANGED <<si, clientSockets, requests, totalSent, endserver,
                   kernelVars, peerVars>>

\* select fails otherwise than by a signal: log and continue.
SelectFails ==
    /\ pc = "select"
    /\ pc' = "top"
    /\ UNCHANGED <<li, si, clientSockets, requests, readfds, writefds,
                   totalSent, endserver, kernelVars, peerVars>>

\* handle_sigint.  A process waiting in select is woken with EINTR, which
\* leaves both sets as they were passed in and does not skip the round; a
\* signal that comes before select has started to wait only sets the flag.
Sigint ==
    /\ Running
    /\ endserver' = TRUE
    /\ \/ UNCHANGED <<pc, li, readfds, writefds>>
       \/ /\ pc = "select"
          /\ readfds' = PollRead /\ writefds' = PollWrite
          /\ pc' = "accept" /\ li' = 1
    /\ UNCHANGED <<si, clientSockets, requests, totalSent, kernelVars, peerVars>>

\* The end of the body of the loop over serverSockets.
NextListener ==
    IF li < NumListeners THEN li' = li + 1 /\ UNCHANGED <<pc, si>>
                         ELSE pc' = "read" /\ si' = 1 /\ UNCHANGED li

SkipListener ==
    /\ pc = "accept"
    /\ ServerSocket(li) \notin readfds
    /\ NextListener
    /\ UNCHANGED <<clientSockets, requests, readfds, writefds, totalSent,
                   endserver, kernelVars, peerVars>>

FreeSlots == {i \in Slots : clientSockets[i] = 0}

\* Mutants: a full table loses its first connection; the last slot is not
\* looked at.
OverwritingStore(f) ==
    [clientSockets EXCEPT ![IF FreeSlots = {} THEN 1 ELSE Lowest(FreeSlots)] = f]
ShortStore(f) ==
    IF FreeSlots \ {MAX_CLIENTS} = {} THEN clientSockets
    ELSE [clientSockets EXCEPT ![Lowest(FreeSlots)] = f]

\* The new descriptor goes to the first free slot; with none free it is
\* kept open and forgotten.
StoreInSlot(f) ==
    IF FreeSlots = {} THEN clientSockets
                      ELSE [clientSockets EXCEPT ![Lowest(FreeSlots)] = f]

\* acceptConnection.  The listening sockets are blocking: with the bit set
\* and nobody waiting, the process stays here.
Accept(c) ==
    /\ pc = "accept"
    /\ ServerSocket(li) \in readfds
    /\ c \in backlog[li]
    /\ FreeFds # {}
    /\ owner' = [owner EXCEPT ![Lowest(FreeFds)] = c]
    /\ backlog' = [backlog EXCEPT ![li] = @ \ {c}]
    /\ clientSockets' = StoreInSlot(Lowest(FreeFds))
    /\ NextListener
    /\ UNCHANGED <<requests, readfds, writefds, totalSent, endserver, peerVars>>

\* accept returns -1 for want of a descriptor: exitWithError.
AcceptFails ==
    /\ pc = "accept"
    /\ ServerSocket(li) \in readfds
    /\ FreeFds = {}
    /\ ProcessEnds("dead")
    /\ UNCHANGED peerVars

-----------------------------------------------------------------------------
(* The loop over the slots: first the read bit, then the write bit.        *)

Sd == clientSockets[si]

\* Mutants: one slot too many; one too few.
LongNextSlot ==
    IF si <= MAX_CLIENTS THEN si' = si + 1 /\ pc' = "read"
                         ELSE pc' = "top"  /\ UNCHANGED si
ShortNextSlot ==
    IF si + 1 < MAX_CLIENTS THEN si' = si + 1 /\ pc' = "read"
                            ELSE pc' = "top"  /\ UNCHANGED si

NextSlot ==
    IF si < MAX_CLIENTS THEN si' = si + 1 /\ pc' = "read"
                        ELSE pc' = "top"  /\ UNCHANGED si

\* The slot's bit is clear, or an answer is pending and nothing is read.
SkipRead ==
    /\ pc = "read"
    /\ ~(Sd \in readfds /\ requests[Sd] = "none")
    /\ pc' = "write"
    /\ UNCHANGED <<li, si, clientSockets, requests, readfds, writefds, totalSent,
                   endserver, kernelVars, peerVars>>

\* What checkRequest may do with the text it read.  Without a "Host: " line,
\* and so with no text at all (end of file, reset, EAGAIN), it throws.  Text
\* that begins in the middle of a body is refused with an error page, or
\* throws when no server has the name it gives.
ResultsOf(text) ==
    IF \A k \in DOMAIN text : text[k] = "tail"
    THEN {[act |-> "stop", opens |-> "none"]}
    ELSE IF text[1] = "tail" THEN [act : {"answer", "stop"}, opens : {"none"}]
    ELSE Outcomes[text[1]]

\* A pipe needs two descriptors: the two lowest.
TwoFree   == \E f, g \in FreeFds : f # g
LowestTwo == {Lowest(FreeFds), Lowest(FreeFds \ {Lowest(FreeFds)})}

\* Mutant: getFilesIndex does not close the directory it opens in its turn.
BothDirsLost(r) ==
    CASE r.opens \in {"dir", "pipes"} /\ TwoFree -> LowestTwo
      [] r.opens = "pipe" /\ TwoFree -> {Lowest(FreeFds)}
      [] r.opens = "dir" /\ ~TwoFree /\ FreeFds # {} -> FreeFds
      [] OTHER -> {}

\* What a handler leaves open.  handle_cgi_request never closes the end of its
\* pipe that it reads from ("pipe"), and neither end when fork fails ("pipes");
\* autoIndex never closes the directory.
Lost(r) ==
    CASE r.opens = "dir" /\ FreeFds # {} -> {Lowest(FreeFds)}
      [] r.opens = "pipe"  /\ TwoFree -> {Lowest(FreeFds)}
      [] r.opens = "pipes" /\ TwoFree -> LowestTwo
      [] OTHER -> {}

KeptOpen(r) == [f \in Fds |-> IF f \in Lost(r) THEN "leaked" ELSE owner[f]]

\* Without a pipe or a child the call returns and leaves no answer.
Unforked(r) == r.opens = "pipes" \/ (r.opens = "pipe" /\ ~TwoFree)
Store(r, c) == IF r.act = "answer" /\ ~Unforked(r) THEN c ELSE "none"

\* checkRequest on the slot's socket: recv takes the first n segments, at least
\* one if there is one; the handler stores an answer, or none.
Handles(c, n, r) ==
    /\ pc = "read"
    /\ Sd \in readfds /\ Sd # 0
    /\ requests[Sd] = "none"
    /\ owner[Sd] = c
    /\ n = 0 => inbox[c] = <<>>
    /\ inbox' = [inbox EXCEPT ![c] = SubSeq(@, n + 1, Len(@))]
    /\ IF r.act = "stop"
       THEN ProcessEnds("dead")
       ELSE /\ requests' = [requests EXCEPT ![Sd] = Store(r, c)]
            /\ owner' = KeptOpen(r)
            /\ pc' = "write"
            /\ UNCHANGED <<li, si, clientSockets, readfds, writefds, totalSent,
                           endserver, backlog>>
    /\ UNCHANGED <<peer, sends, heard, recvd, drained>>

CheckRequest(c) ==
    \E n \in 0..Len(inbox[c]) :
        \E r \in ResultsOf(SubSeq(inbox[c], 1, n)) : Handles(c, n, r)

SkipWrite ==
    /\ pc = "write"
    /\ Sd \notin writefds
    /\ NextSlot
    /\ UNCHANGED <<li, clientSockets, requests, readfds, writefds, totalSent,
                   endserver, kernelVars, peerVars>>

\* One successful send() of sendResponse.  While the buffer is full send
\* returns EAGAIN and the loop tries again: no step.
SendPiece(c) ==
    /\ pc = "write"
    /\ Sd \in writefds /\ owner[Sd] = c
    /\ totalSent < ResponseLen
    /\ peer[c] \in {"open", "fin"} /\ HasRoom(c)
    /\ totalSent' = totalSent + 1
    /\ heard' = [heard EXCEPT ![c] = @ \cup {requests[Sd]}]
    /\ recvd' = [recvd EXCEPT ![c] = @ + 1]
    /\ UNCHANGED <<pc, li, si, clientSockets, requests, readfds, writefds,
                   endserver, kernelVars, peer, inbox, sends, drained>>

\* send() on a connection the peer has reset: the first reports ECONNRESET,
\* sendResponse returns false and the answer stays pending.
SendFails(c) ==
    /\ pc = "write"
    /\ Sd \in writefds /\ owner[Sd] = c
    /\ totalSent < ResponseLen
    /\ peer[c] = "reset"
    /\ peer' = [peer EXCEPT ![c] = "broken"]
    /\ totalSent' = 0
    /\ NextSlot
    /\ UNCHANGED <<li, clientSockets, requests, readfds, writefds, endserver,
                   kernelVars, inbox, sends, heard, recvd, drained>>

\* The next one raises SIGPIPE, which nothing ignores.
SendKills(c) ==
    /\ pc = "write"
    /\ Sd \in writefds /\ owner[Sd] = c
    /\ totalSent < ResponseLen
    /\ peer[c] = "broken"
    /\ ProcessEnds("dead")
    /\ UNCHANGED peerVars

\* Mutant: the last piece is not waited for.
EarlyAllSent == totalSent + 1 >= ResponseLen

AllSent == totalSent = ResponseLen

\* Mutants: the answer is not erased; the slot is not freed.
KeptAnswer(f) == requests
KeptSlot      == clientSockets

\* sendResponse returned true: erase, close, free the slot.
Erased(f) == [requests EXCEPT ![f] = "none"]
Cleared   == [clientSockets EXCEPT ![si] = 0]
FinishResponse ==
    /\ pc = "write"
    /\ Sd \in writefds
    /\ AllSent
    /\ requests' = Erased(Sd)
    /\ owner' = [owner EXCEPT ![Sd] = "free"]
    /\ clientSockets' = Cleared
    /\ totalSent' = 0
    /\ NextSlot
    /\ UNCHANGED <<li, readfds, writefds, endserver, backlog, peerVars>>

-----------------------------------------------------------------------------
(* After the loop: every slot gets a 503 and is closed; then exit(0).      *)

NextShutdownSlot ==
    IF si < MAX_CLIENTS THEN si' = si + 1    /\ UNCHANGED pc
                        ELSE pc' = "exiting" /\ UNCHANGED si

ShutdownFree ==
    /\ pc = "shutdown"
    /\ Sd = 0
    /\ NextShutdownSlot
    /\ UNCHANGED <<li, clientSockets, requests, readfds, writefds, totalSent,
                   endserver, kernelVars, peerVars>>

\* One send(), whose result is ignored, and close.  It delivers the 503 when
\* the peer is there and its buffer has room.
Shutdown503(c) ==
    /\ pc = "shutdown"
    /\ Sd # 0 /\ owner[Sd] = c
    /\ peer[c] # "broken"
    /\ IF peer[c] # "reset" /\ HasRoom(c)
       THEN /\ heard' = [heard EXCEPT ![c] = @ \cup {"503"}]
            /\ recvd' = [recvd EXCEPT ![c] = @ + 1]
       ELSE UNCHANGED <<heard, recvd>>
    /\ owner' = [owner EXCEPT ![Sd] = "free"]
    /\ NextShutdownSlot
    /\ UNCHANGED <<li, clientSockets, requests, readfds, writefds, totalSent,
                   endserver, backlog, peer, inbox, sends, drained>>

ShutdownKills(c) ==
    /\ pc = "shutdown"
    /\ Sd # 0 /\ owner[Sd] = c
    /\ peer[c] = "broken"
    /\ ProcessEnds("dead")
    /\ UNCHANGED peerVars

\* The listening sockets are closed, and exit(0).
Exit ==
    /\ pc = "exiting"
    /\ ProcessEnds("exited")
    /\ UNCHANGED peerVars

-----------------------------------------------------------------------------
(* The peers.                                                              *)

Open      == {c \in Clients : \E f \in Fds : owner[f] = c}
Waiting   == UNION {backlog[k] : k \in Listeners}
Connected == Open \cup Waiting

Connect(c, k) ==
    /\ Running
    /\ peer[c] = "none"
    /\ peer' = [peer EXCEPT ![c] = "open"]
    /\ backlog' = [backlog EXCEPT ![k] = @ \cup {c}]
    /\ UNCHANGED <<loopVars, owner, inbox, sends, heard, recvd, drained>>

Send(c, s) ==
    /\ peer[c] = "open" /\ sends[c] < MaxSegments
    /\ c \in Connected
    /\ sends' = [sends EXCEPT ![c] = @ + 1]
    /\ inbox' = [inbox EXCEPT ![c] = Append(@, s)]
    /\ UNCHANGED <<loopVars, kernelVars, peer, heard, recvd, drained>>

\* The peer closes its side: no more segments come, and end of file does.
Close(c) ==
    /\ peer[c] = "open" /\ c \in Connected
    /\ peer' = [peer EXCEPT ![c] = "fin"]
    /\ UNCHANGED <<loopVars, kernelVars, inbox, sends, heard, recvd, drained>>

\* The peer's end answers with RST.  After a FIN the error is EPIPE at once.
Reset(c) ==
    /\ peer[c] \in {"open", "fin"} /\ c \in Connected
    /\ peer' = [peer EXCEPT ![c] = IF @ = "open" THEN "reset" ELSE "broken"]
    /\ UNCHANGED <<loopVars, kernelVars, inbox, sends, heard, recvd, drained>>

\* Reading on after the server has closed changes nothing the loop sees.
Drain(c) ==
    /\ drained[c] < recvd[c]
    /\ peer[c] \in {"open", "fin"} /\ c \in Connected
    /\ drained' = [drained EXCEPT ![c] = @ + 1]
    /\ UNCHANGED <<loopVars, kernelVars, peer, inbox, sends, heard, recvd>>

-----------------------------------------------------------------------------
LoopStep ==
    \/ TopOfLoop \/ SelectReturns
    \/ SkipListener \/ AcceptFails \/ \E c \in Clients : Accept(c)
    \/ SkipRead \/ \E c \in Clients : CheckRequest(c)
    \/ SkipWrite \/ FinishResponse
    \/ \E c \in Clients : SendPiece(c) \/ SendFails(c) \/ SendKills(c)
    \/ ShutdownFree \/ \E c \in Clients : Shutdown503(c) \/ ShutdownKills(c)
    \/ Exit

PeerStep ==
    \E c \in Clients :
        \/ \E k \in Listeners : Connect(c, k)
        \/ \E s \in Segments : Send(c, s)
        \/ Close(c) \/ Reset(c) \/ Drain(c)

Next == LoopStep \/ SelectFails \/ Sigint \/ PeerStep

Spec == Init /\ [][Next]_vars

\* The process is scheduled; select does not fail for ever; a peer that is
\* still there reads what it is sent or goes away.
Fairness ==
    /\ WF_vars(LoopStep)
    /\ SF_vars(SelectReturns)
    /\ \A c \in Clients : WF_vars(Drain(c))

FairSpec == Spec /\ Fairness

-----------------------------------------------------------------------------
(* Safety.                                                                 *)

\* Descriptors are reused and _requests is keyed by descriptor, yet a peer is
\* only ever sent pieces of the answer to its own request, never more than
\* one answer, or else the 503 and nothing before it.
AnswerIntegrity ==
    \A c \in Clients :
        \/ heard[c] \subseteq {c}  /\ recvd[c] <= ResponseLen
        \/ heard[c] = {"503"} /\ recvd[c] = 1

\* Until shutdown the slot table names open connections, each once: select is
\* never given a closed descriptor and no connection is scanned twice.
SlotTable ==
    ~Closing =>
        /\ \A i \in Slots : clientSockets[i] # 0 => owner[clientSockets[i]] \in Clients
        /\ \A i, j \in Slots : clientSockets[i] = clientSockets[j] /\ i # j
                                   => clientSockets[i] = 0

\* An answer in _requests belongs to the connection that has the descriptor,
\* and some slot will flush it: an erased connection leaves none behind.
PendingIsOwned ==
    ~Closing =>
        \A f \in Fds : requests[f] # "none" => f \in Tracked /\ requests[f] = owner[f]

\* accept never hands out a descriptor whose bit is still set from the last
\* select: the bits always speak of the connection that was polled.
NoStaleBits ==
    [][\A f \in Fds : owner[f] = "free" /\ owner'[f] \in Clients
                          => f \notin readfds \cup writefds]_vars

\* While the loop runs, a connection is closed only after its whole answer
\* has been handed to the kernel, over failed and repeated sends.
ClosedOnlyAnswered ==
    [][\A f \in Fds : owner[f] \in Clients /\ owner'[f] # owner[f] /\ pc = "write" /\ Running'
                          => recvd[owner[f]] = ResponseLen]_vars

\* A slot is given up only with its connection closed: no connection in the
\* table is forgotten while it is open.
SlotKeepsConnection ==
    [][\A i \in Slots : clientSockets[i] # 0 /\ clientSockets'[i] # clientSockets[i]
                            => owner'[clientSockets[i]] = "free"]_vars

\* An accepted connection is left without a slot only when all are taken.
ForgottenOnlyWhenFull ==
    [][\A f \in Fds : owner[f] = "free" /\ owner'[f] \in Clients /\ f \notin Tracked'
                          => FreeSlots = {}]_vars

-----------------------------------------------------------------------------
(* Liveness, under Fairness.                                               *)

TrackedClients == {c \in Clients : \E f \in Tracked : owner[f] = c}

\* Text from a connection in the table is read in the end, however the others
\* behave; unless the server is stopping or the connection is closed.
EventuallyRead ==
    \A c \in Clients :
        (c \in TrackedClients /\ inbox[c] # <<>>)
            ~> (inbox[c] = <<>> \/ c \notin Open \/ endserver)

\* A stored answer is sent in the end, slow readers before it in the scan
\* notwithstanding; unless the server is stopping.
EventuallyFlushed ==
    \A f \in Fds : (requests[f] # "none") ~> (requests[f] = "none" \/ endserver)

\* The process waits in a blocking accept for a connection nobody has made.
BlockedInAccept ==
    /\ pc = "accept" /\ ServerSocket(li) \in readfds
    /\ backlog[li] = {} /\ FreeFds # {}

\* After SIGINT the process ends, or else is found blocked in accept: that is
\* the only way the shutdown can hang.
StopsOrBlocks == endserver ~> (~Running \/ BlockedInAccept)

-----------------------------------------------------------------------------
(* The loop implements ConnService.                                        *)

\* Where an accepted connection stands, and how one that is over ended.
Seating(c) ==
    IF c \notin TrackedClients THEN "forgotten"
    ELSE IF \E f \in Fds : owner[f] = c /\ requests[f] # "none" THEN "pending"
    ELSE "served"
Ending(c) ==
    IF heard[c] = {c} /\ recvd[c] = ResponseLen THEN "answered"
    ELSE IF heard[c] = {"503"} THEN "refused"
    ELSE "cut"
Phase(c) ==
    IF c \in Waiting THEN "queued"
    ELSE IF c \in Open THEN Seating(c)
    ELSE IF peer[c] = "none" THEN "away"
    ELSE Ending(c)

Standing == IF Closing THEN "closing" ELSE IF Running THEN "serving" ELSE "down"

Service == INSTANCE ConnService
    WITH phase <- [c \in Clients |-> Phase(c)], server <- Standing

\* Every step of the loop is a step of ConnService or changes no connection's
\* standing.
ImplementsService == Service!Spec

-----------------------------------------------------------------------------
(* What the source says of itself.                                         *)

\* http_tcpServer_linux.cpp:103, "Caught signal ..., exiting...".
SigintExits == endserver ~> ~Running
=============================================================================
