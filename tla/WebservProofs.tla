---------------------------- MODULE WebservProofs ----------------------------
(***************************************************************************)
(* With the handlers put in, the server is still the loop of EventLoop:    *)
(* every theorem about the loop is one about the whole server.             *)
(***************************************************************************)
EXTENDS Webserv, EventLoopProofs, SequenceTheorems

\* A peer that asks sends whole requests, never the rest of one.
WholeRequests == inbox \in [Clients -> Seq(Requests)]

\* A handler's pass over one request is a pass of the loop's checkRequest.
LEMMA RequestIsPass ==
    ASSUME WholeRequests, NEW c \in Clients, inbox[c] # <<>>, HandleRequest(c)
    PROVE  CheckRequest(c)
<1> USE DEF WholeRequests
<1>1. inbox[c] \in Seq(Requests) /\ Len(inbox[c]) \in Nat /\ Len(inbox[c]) # 0
  BY EmptySeq, LenProperties
<1>2. inbox[c][1] \in Requests /\ inbox[c][1] # "tail"
  BY <1>1, ConstantsAssumption
<1>3. PICK o \in Outcomes[inbox[c][1]] : Handles(c, 1, o)
  BY DEF HandleRequest
<1>4. 1 \in DOMAIN SubSeq(inbox[c], 1, 1) /\ SubSeq(inbox[c], 1, 1)[1] = inbox[c][1]
  BY <1>1, SubSeqProperties
<1>5. o \in ResultsOf(SubSeq(inbox[c], 1, 1))
  BY <1>2, <1>3, <1>4 DEF ResultsOf
<1>6. 1 \in 0..Len(inbox[c])
  BY <1>1
<1>7. QED
  BY <1>3, <1>5, <1>6 DEF CheckRequest

\* So is one that finds nothing to read.
LEMMA SilenceIsPass ==
    ASSUME NEW c \in Clients, inbox[c] = <<>>, HandleSilence(c)
    PROVE  CheckRequest(c)
<1>1. SubSeq(inbox[c], 1, 0) = <<>> /\ 0 \in 0..Len(inbox[c])
  OBVIOUS
<1>2. [act |-> "stop", opens |-> "none"] \in ResultsOf(<<>>)
  BY DEF ResultsOf
<1>3. Handles(c, 0, [act |-> "stop", opens |-> "none"])
  BY DEF HandleSilence
<1>4. QED
  BY <1>1, <1>2, <1>3 DEF CheckRequest

\* Every step of the server is a step of the loop.
LEMMA WebStepIsLoopStep == WholeRequests /\ [WebNext]_webVars => [Next]_vars
<1> SUFFICES ASSUME WholeRequests, [WebNext]_webVars PROVE [Next]_vars
  OBVIOUS
<1>1. ASSUME NEW c \in Clients, inbox[c] # <<>>, HandleRequest(c) PROVE Next
  BY <1>1, RequestIsPass DEF Next, LoopStep
<1>2. ASSUME NEW c \in Clients, inbox[c] = <<>>, HandleSilence(c) PROVE Next
  BY <1>2, SilenceIsPass DEF Next, LoopStep
<1>3. ASSUME NEW c \in Clients, SendReply(c) PROVE Next
  BY <1>3 DEF SendReply, Next, LoopStep
<1>4. ASSUME NEW c \in Clients, NEW q \in Requests, Ask(c, q) PROVE Next
  BY <1>4 DEF Ask, Next, PeerStep, Segments
<1>5. CASE OtherStep
  BY <1>5 DEF OtherStep, LoopStepOnly, Next, LoopStep, PeerStep
<1>6. CASE Interrupt
  BY <1>6 DEF Interrupt, Next
<1>7. CASE UNCHANGED webVars
  BY <1>7 DEF webVars
<1>8. QED
  BY <1>1, <1>2, <1>3, <1>4, <1>5, <1>6, <1>7 DEF WebNext, Serving

\* What the peers have sent stays whole.
LEMMA RequestsStayWhole == WholeRequests /\ [WebNext]_webVars => WholeRequests'
<1> SUFFICES ASSUME WholeRequests, [WebNext]_webVars PROVE WholeRequests'
  OBVIOUS
<1> USE DEF WholeRequests
<1>1. ASSUME NEW c \in Clients, NEW n \in Nat, inbox[c] \in Seq(Requests), n <= Len(inbox[c]),
             inbox' = [inbox EXCEPT ![c] = SubSeq(@, n + 1, Len(@))]
      PROVE  WholeRequests'
  <2>1. SubSeq(inbox[c], n + 1, Len(inbox[c])) \in Seq(Requests)
    BY <1>1, SubSeqProperties
  <2>2. QED
    BY <1>1, <2>1
<1>2. ASSUME NEW c \in Clients, inbox[c] # <<>>, HandleRequest(c) PROVE WholeRequests'
  BY <1>1, <1>2, EmptySeq, LenProperties DEF HandleRequest, Handles
<1>3. ASSUME NEW c \in Clients, inbox[c] = <<>>, HandleSilence(c) PROVE WholeRequests'
  BY <1>1, <1>3 DEF HandleSilence, Handles
<1>4. ASSUME NEW c \in Clients, NEW q \in Requests, Ask(c, q) PROVE WholeRequests'
  BY <1>4 DEF Ask, Send
<1>5. ASSUME NEW c \in Clients, SendReply(c) PROVE WholeRequests'
  BY <1>5 DEF SendReply, SendPiece
<1>6. CASE OtherStep
  BY <1>6 DEF OtherStep, LoopStepOnly, TopOfLoop, SelectReturns, SelectFails, SkipListener,
              AcceptFails, Accept, SkipRead, SkipWrite, FinishResponse, SendFails, SendKills,
              ShutdownFree, Shutdown503, ShutdownKills, Exit, Connect, Close, Reset, Drain,
              peerVars
<1>7. CASE Interrupt
  BY <1>7 DEF Interrupt, Sigint, peerVars
<1>8. CASE UNCHANGED webVars
  BY <1>8 DEF webVars, vars, peerVars
<1>9. QED
  BY <1>2, <1>3, <1>4, <1>5, <1>6, <1>7, <1>8 DEF WebNext, Serving

\* The server with its handlers is an instance of the loop: what checkRequest
\* does to files, answers and descriptors is among the outcomes EventLoop
\* allows it.
THEOREM WebIsLoop == WebSpec => Spec
<1>1. WebInit => Init /\ WholeRequests
  BY EmptySeq DEF WebInit, Init, WholeRequests
<1>2. WebSpec => []WholeRequests
  BY <1>1, RequestsStayWhole, PTL DEF WebSpec
<1>3. QED
  BY <1>1, <1>2, WebStepIsLoopStep, PTL DEF WebSpec, Spec

\* With whatever handlers do, peers get their own answers and the loop remains
\* a service with MAX_CLIENTS seats.
THEOREM WebServes == WebSpec => []AnswerIntegrity /\ ImplementsService
  BY WebIsLoop, AnswerIntegrityHolds, LoopIsService, PTL

-----------------------------------------------------------------------------
(* What ends the process.                                                  *)

\* Slots the present scan still has to read from.
Unread(i) == pc = "accept" \/ (pc \in {"read", "write"} /\ si < i)
                           \/ (pc = "read" /\ si = i)

\* A connection that the scan will read from has text or was left by its peer,
\* unless a signal came: nothing but checkRequest takes the text away, and that
\* once in each round.
Ready ==
    ~endserver =>
        \A i \in Slots : \A c \in Clients :
            Unread(i) /\ clientSockets[i] \in readfds \cap Fds /\ owner[clientSockets[i]] = c
                => Readable(c)

\* The loop ends for a signal only.
ClosesForSignal == Closing => endserver

ReadyInv == SInv /\ Ready /\ ClosesForSignal

\* A step that reads nothing, opens no connection and does not go back.
LEMMA StaysReady ==
    ASSUME TypeOK, Ready, readfds' = readfds, endserver' = endserver,
           \A i \in Slots : clientSockets'[i] \in {0, clientSockets[i]},
           \A i \in Slots : Unread(i)' => Unread(i),
           \A f \in Fds : owner'[f] \in Clients => owner'[f] = owner[f],
           \A c \in Clients : Readable(c) => Readable(c)'
    PROVE  Ready'
<1> SUFFICES ASSUME ~endserver', NEW i \in Slots, NEW c \in Clients, Unread(i)',
                    clientSockets'[i] \in readfds' \cap Fds, owner'[clientSockets'[i]] = c
             PROVE  Readable(c)'
  BY DEF Ready
<1>1. clientSockets'[i] = clientSockets[i]
  BY ConstantsAssumption DEF Fds
<1>2. owner[clientSockets[i]] = c
  BY <1>1
<1>3. QED
  BY <1>1, <1>2 DEF Ready

\* A slot is one number and the next another.
LEMMA ScanGoesOn ==
    ASSUME TypeOK, NextSlot, pc = "write", NEW i \in Slots, Unread(i)'
    PROVE  Unread(i)
  BY ConstantsAssumption DEF NextSlot, Unread, TypeOK, Slots

LEMMA ReadyNext == ReadyInv /\ [Next]_vars => Ready' /\ ClosesForSignal'
<1> SUFFICES ASSUME ReadyInv, [Next]_vars PROVE Ready' /\ ClosesForSignal'
  OBVIOUS
<1>0. /\ IInv /\ TypeOK /\ SlotTable /\ OneDescriptor /\ Arrivals /\ ReadyBits
      /\ Ready /\ ClosesForSignal
  BY DEF ReadyInv, SInv, IInv, Consistent
<1>1. CASE \/ TopOfLoop \/ SelectFails \/ AcceptFails \/ Exit \/ ShutdownFree
           \/ \E c \in Clients : SendKills(c) \/ ShutdownKills(c) \/ Shutdown503(c)
  BY <1>0, <1>1
  DEF TopOfLoop, SelectFails, AcceptFails, Exit, ShutdownFree, SendKills, ShutdownKills,
      Shutdown503, ProcessEnds, NextShutdownSlot, ClosesForSignal, Closing, Ready, Unread
<1>2. CASE SelectReturns
  <2>1. ASSUME NEW f \in readfds' \cap Fds, NEW c \in Clients, owner[f] = c PROVE Readable(c)
    BY <1>2, <2>1, ConstantsAssumption DEF SelectReturns, Fds, Listeners, ServerSocket
  <2>2. QED
    BY <1>0, <1>2, <2>1
    DEF SelectReturns, ClosesForSignal, Closing, Ready, Readable, kernelVars, peerVars
<1>3. CASE Sigint
  BY <1>3 DEF Sigint, Ready, ClosesForSignal
<1>4. CASE SkipListener
  <2>1. pc = "accept" /\ UNCHANGED <<clientSockets, readfds, endserver, owner, inbox, peer>>
        /\ pc' \notin {"shutdown", "exiting"}
    BY <1>4 DEF SkipListener, NextListener, kernelVars, peerVars
  <2>2. QED
    BY <1>0, <2>1, StaysReady DEF Unread, Readable, ClosesForSignal, Closing
<1>5. ASSUME NEW c \in Clients, Accept(c) PROVE Ready' /\ ClosesForSignal'
  <2>. DEFINE n == Lowest(FreeFds)
  <2>1. /\ pc = "accept" /\ n \in Fds /\ owner[n] = "free"
        /\ owner' = [owner EXCEPT ![n] = c]
        /\ UNCHANGED <<readfds, endserver, inbox, peer>> /\ pc' \notin {"shutdown", "exiting"}
    BY <1>5, LowestFree DEF Accept, NextListener, peerVars
  <2>2. \A i \in Slots : clientSockets'[i] = clientSockets[i] \/ clientSockets'[i] = n
    BY <1>0, <1>5 DEF Accept, StoreInSlot, TypeOK
  <2>. HIDE DEF n
  <2>3. n \notin readfds
    BY <1>0, <2>1, ConstantsAssumption DEF ReadyBits, Tracked, SlotTable, Closing, Fds
  <2>4. ASSUME ~endserver, NEW i \in Slots, NEW d \in Clients,
               clientSockets'[i] \in readfds' \cap Fds, owner'[clientSockets'[i]] = d
        PROVE  Readable(d)'
    <3>1. clientSockets'[i] = clientSockets[i] /\ clientSockets[i] # n
      BY <2>1, <2>2, <2>3, <2>4
    <3>2. owner[clientSockets[i]] = d
      BY <1>0, <2>1, <2>4, <3>1 DEF TypeOK
    <3>3. Readable(d)
      BY <1>0, <2>1, <2>4, <3>1, <3>2 DEF Ready, Unread
    <3>4. QED
      BY <2>1, <3>3 DEF Readable
  <2>5. QED
    BY <2>1, <2>4 DEF Ready, ClosesForSignal, Closing
<1>6. CASE SkipRead
  BY <1>0, <1>6, StaysReady
  DEF SkipRead, Unread, Readable, ClosesForSignal, Closing, kernelVars, peerVars
<1>7. CASE SkipWrite
  <2>1. /\ pc = "write" /\ NextSlot /\ pc' \notin {"shutdown", "exiting"}
        /\ UNCHANGED <<clientSockets, readfds, endserver, owner, inbox, peer>>
    BY <1>7 DEF SkipWrite, NextSlot, kernelVars, peerVars
  <2>2. QED
    BY <1>0, <2>1, ScanGoesOn, StaysReady DEF Readable, ClosesForSignal, Closing
<1>8. ASSUME NEW c \in Clients, SendPiece(c) PROVE Ready' /\ ClosesForSignal'
  BY <1>0, <1>8, StaysReady
  DEF SendPiece, Unread, Readable, ClosesForSignal, Closing, kernelVars
<1>9. ASSUME NEW c \in Clients, SendFails(c) PROVE Ready' /\ ClosesForSignal'
  <2>1. /\ pc = "write" /\ NextSlot /\ pc' \notin {"shutdown", "exiting"}
        /\ UNCHANGED <<clientSockets, readfds, endserver, owner, inbox>>
        /\ peer' = [peer EXCEPT ![c] = "broken"]
    BY <1>9 DEF SendFails, NextSlot, kernelVars
  <2>2. \A d \in Clients : Readable(d) => Readable(d)'
    BY <1>0, <2>1 DEF Readable, TypeOK
  <2>3. QED
    BY <1>0, <2>1, <2>2, ScanGoesOn, StaysReady DEF ClosesForSignal, Closing
<1>10. CASE FinishResponse
  <2>1. /\ pc = "write" /\ NextSlot /\ pc' \notin {"shutdown", "exiting"}
        /\ UNCHANGED <<readfds, endserver, inbox, peer>>
        /\ owner' = [owner EXCEPT ![Sd] = "free"]
        /\ clientSockets' = [clientSockets EXCEPT ![si] = 0]
    BY <1>10 DEF FinishResponse, NextSlot, Cleared, peerVars
  <2>2. /\ \A i \in Slots : clientSockets'[i] \in {0, clientSockets[i]}
        /\ \A f \in Fds : owner'[f] \in Clients => owner'[f] = owner[f]
    BY <1>0, <2>1, ConstantsAssumption DEF TypeOK
  <2>3. QED
    BY <1>0, <2>1, <2>2, ScanGoesOn, StaysReady DEF Readable, ClosesForSignal, Closing
<1>11. ASSUME NEW c \in Clients, CheckRequest(c) PROVE Ready' /\ ClosesForSignal'
  <2>1. PICK n, r : Handles(c, n, r)
    BY <1>11 DEF CheckRequest
  <2>2. CASE r.act = "stop"
    BY <2>1, <2>2 DEF Handles, ProcessEnds, Ready, Unread, ClosesForSignal, Closing
  <2>3. CASE r.act # "stop"
    <3>1. /\ pc = "read" /\ pc' = "write" /\ owner[Sd] = c /\ Sd # 0
          /\ UNCHANGED <<si, clientSockets, readfds, endserver, peer>>
          /\ inbox' = [inbox EXCEPT ![c] = SubSeq(@, n + 1, Len(@))]
      BY <2>1, <2>3 DEF Handles
    <3>2. \A f \in Fds : owner'[f] \in Clients => owner'[f] = owner[f]
      BY <1>0, <2>1, <2>3, KeptIsLeaked, ConstantsAssumption DEF Handles
    <3>3. ASSUME ~endserver, NEW i \in Slots, NEW d \in Clients, Unread(i)',
                 clientSockets[i] \in readfds \cap Fds, owner'[clientSockets[i]] = d
          PROVE  Readable(d)'
      <4>1. owner[clientSockets[i]] = d /\ i # si /\ Unread(i)
        BY <1>0, <3>1, <3>2, <3>3, ConstantsAssumption DEF Unread, TypeOK, Slots
      <4>2. d # c
        <5>1. Sd \in Fds /\ clientSockets[i] \in Fds /\ si \in Slots
          BY <1>0, <3>1, <3>3 DEF TypeOK, Sd
        <5>2. d = c => clientSockets[i] = Sd
          BY <1>0, <3>1, <4>1, <5>1 DEF OneDescriptor
        <5>3. QED
          BY <1>0, <3>1, <4>1, <5>1, <5>2 DEF SlotTable, Closing, Sd
      <4>3. Readable(d)
        BY <1>0, <3>3, <4>1 DEF Ready
      <4>4. QED
        BY <1>0, <3>1, <4>2, <4>3 DEF Readable, TypeOK
    <3>4. QED
      BY <3>1, <3>3 DEF Ready, ClosesForSignal, Closing
  <2>4. QED
    BY <2>2, <2>3
<1>12. ASSUME NEW c \in Clients,
              \/ \E k \in Listeners : Connect(c, k)
              \/ \E q \in Segments : Send(c, q)
              \/ Close(c) \/ Reset(c) \/ Drain(c)
       PROVE  Ready' /\ ClosesForSignal'
  <2>1. UNCHANGED <<pc, si, clientSockets, readfds, endserver, owner>>
    BY <1>12 DEF Connect, Send, Close, Reset, Drain, loopVars, kernelVars
  <2>2. \A d \in Clients : Readable(d) => Readable(d)' \/ \A f \in Fds : owner[f] # d
    <3>1. CASE \E k \in Listeners : Connect(c, k)
      BY <1>0, <3>1 DEF Connect, Readable, TypeOK, Arrivals
    <3>2. CASE \E q \in Segments : Send(c, q)
      <4>1. PICK q \in Segments : Send(c, q)
        BY <3>2
      <4>2. Append(inbox[c], q) # <<>>
        <5>1. inbox[c] \in Seq(Segments)
          BY <1>0 DEF TypeOK
        <5>2. QED
          BY <5>1, AppendProperties
      <4>3. QED
        BY <1>0, <4>1, <4>2 DEF Send, Readable, TypeOK
    <3>3. CASE Close(c) \/ Reset(c)
      BY <1>0, <3>3 DEF Close, Reset, Readable, TypeOK
    <3>4. CASE Drain(c)
      BY <3>4 DEF Drain, Readable
    <3>5. QED
      BY <1>12, <3>1, <3>2, <3>3, <3>4
  <2>3. QED
    BY <1>0, <2>1, <2>2 DEF Ready, Unread, ClosesForSignal, Closing
<1>13. CASE UNCHANGED vars
  BY <1>0, <1>13
  DEF Ready, Unread, Readable, ClosesForSignal, Closing, vars, loopVars, kernelVars, peerVars
<1>14. QED
  BY <1>1, <1>2, <1>3, <1>4, <1>5, <1>6, <1>7, <1>8, <1>9, <1>10, <1>11, <1>12, <1>13
  DEF Next, LoopStep, PeerStep

LEMMA ReadyAlways == Spec => []ReadyInv
<1>1. Init => Ready /\ ClosesForSignal
  BY DEF Init, Ready, Unread, ClosesForSignal, Closing
<1>2. QED
  BY <1>1, ReadyNext, SInvAlways, PTL DEF Spec, ReadyInv

-----------------------------------------------------------------------------
(* What a request costs.                                                  *)

\* What one pass of a handler can do: remove a directory but make none, end
\* the process for an upload only, and leave no answer only for a script.
LEMMA HandlerEffects ==
    ASSUME NEW r, NEW l, Handlers!Dispatch(r, l), Running
    PROVE  /\ dirs' \subseteq dirs
           /\ Running' \/ Handlers!UploadFails(r, l) \/ Handlers!UploadRecurses(r, l)
           /\ Running' /\ response'.status = "none"
                  => Handlers!getCGIvariables(r, l) \/ Handlers!getCGIvariablesPost(r, l)
<1> DEFINE Fine == dirs' \subseteq dirs /\ Running' /\ response'.status # "none"
<1>1. ASSUME NEW a, Handlers!Only(r, a), a.status # "none" PROVE Fine
  BY <1>1 DEF Handlers!Only, Handlers!Responds, Handlers!disk
<1>2. /\ \A s : Handlers!Answer(s).status = s
      /\ \A x : Handlers!Page(x).status = "200" /\ Handlers!Listing(x).status = "200"
      /\ \A x : Handlers!Reads(x).status \in {"200", "404"}
  BY DEF Handlers!Answer, Handlers!Page, Handlers!Listing, Handlers!Reads
<1>3. ASSUME Handlers!handleFormulario(r, l) PROVE Fine
  BY <1>1, <1>2, <1>3 DEF Handlers!handleFormulario
<1>4. CASE Handlers!NoPlace(r, l) \/ Handlers!TooLarge(r, l) \/ Handlers!NotAllowed(r, l)
  BY <1>1, <1>2, <1>4 DEF Handlers!NoPlace, Handlers!TooLarge, Handlers!NotAllowed
<1>5. CASE Handlers!autoIndex(r, l) \/ Handlers!ServeFile(r, l)
  BY <1>1, <1>2, <1>3, <1>5 DEF Handlers!autoIndex, Handlers!ServeFile
<1>6. CASE \/ Handlers!Redirect(r, l) \/ Handlers!handleRoot(r, l)
           \/ Handlers!handleFavicon(r, l) \/ Handlers!showUpload(r, l)
  BY <1>1, <1>2, <1>6
  DEF Handlers!Redirect, Handlers!handleRoot, Handlers!handleFavicon, Handlers!showUpload
<1>7. CASE Handlers!getCGIvariables(r, l) \/ Handlers!getCGIvariablesPost(r, l)
  BY <1>7 DEF Handlers!getCGIvariables, Handlers!getCGIvariablesPost,
              Handlers!handle_cgi_request, Handlers!Only, Handlers!Responds, Handlers!disk
<1>8. CASE Handlers!OtherPost(r, l) \/ Handlers!DeleteNothing(r, l) \/ Handlers!DeleteRefused(r, l)
  BY <1>1, <1>2, <1>8 DEF Handlers!OtherPost, Handlers!DeleteNothing, Handlers!DeleteRefused
<1>9. CASE Handlers!Upload(r, l) \/ Handlers!DeleteFile(r, l) \/ Handlers!DeleteDir(r, l)
  BY <1>2, <1>9
  DEF Handlers!Upload, Handlers!DeleteFile, Handlers!DeleteDir, Handlers!Responds
<1>10. CASE Handlers!UploadFails(r, l) \/ Handlers!UploadRecurses(r, l)
  BY <1>10 DEF Handlers!UploadFails, Handlers!UploadRecurses, Handlers!Dies, Handlers!disk
<1>11. QED
  BY <1>4, <1>5, <1>6, <1>7, <1>8, <1>9, <1>10 DEF Handlers!Dispatch, Handlers!handleDelete

\* The requests that cost a descriptor for good.
Costs(r) == Handlers!Known(r) /\ (CallsScript(r) \/ Lists(r, Dirs))

\* No other opens a pipe or a directory, and a pipe only a script does.
LEMMA OpeningCosts ==
    ASSUME NEW r, NEW o, o.opens \in Openings(r), o.opens # "none", dirs \subseteq Dirs
    PROVE  /\ Costs(r)
           /\ o.opens # "dir" => Handlers!Known(r) /\ CallsScript(r)
  BY DEF Openings, Costs, ListsDir, Lists

\* A request that ends the process is one to no server, an upload that is no
\* whole form or has no place to go, or one that finds no descriptor.
LEMMA DeathOfRequest ==
    ASSUME NEW r, NEW o, Serves(r, o), Running, ~Running'
    PROVE  /\ UNCHANGED <<files, dirs>>
           /\ \/ ~Handlers!Known(r)
              \/ Uploads(r) /\ ~(r.form /\ Handlers!CanStore(r, Loc(r)))
              \/ FreeFds = {}
<1>1. CASE Starves(r)
  <2>1. Uploads(r) /\ Handlers!Dies(r)
    BY <1>1 DEF Serves, StarvedRequest, Handlers!Only, Handlers!Responds
  <2>2. ~ListsDir(r)
    BY <2>1 DEF Uploads, ListsDir, Lists, Handlers!Posts, Handlers!Gets
  <2>3. QED
    BY <1>1, <2>1, <2>2 DEF Starves, Handlers!Dies, Handlers!disk
<1>2. CASE ~Starves(r) /\ Handlers!NoServer(r)
  BY <1>2 DEF Handlers!NoServer, Handlers!Dies, Handlers!disk
<1>3. CASE ~Starves(r) /\ ~Handlers!NoServer(r)
  <2>1. Handlers!Dispatch(r, Loc(r))
    BY <1>3 DEF Serves, Handlers!checkRequest, Loc
  <2>2. Handlers!UploadFails(r, Loc(r)) \/ Handlers!UploadRecurses(r, Loc(r))
    BY <2>1, HandlerEffects
  <2>3. QED
    BY <2>2 DEF Handlers!UploadFails, Handlers!UploadRecurses, Uploads, Handlers!Dies,
                Handlers!disk
<1>4. QED
  BY <1>1, <1>2, <1>3

-----------------------------------------------------------------------------
(* The account of the descriptors.                                         *)

\* Each peer asks once, over a connection it has made, and what waits to be
\* read is what it asked.
OneRequest ==
    \A c \in Clients :
        /\ sends[c] = 0 => inbox[c] = <<>> /\ wants[c] = "none"
        /\ sends[c] # 0 => /\ wants[c] \in Requests /\ inbox[c] \in {<<>>, <<wants[c]>>}
                           /\ peer[c] # "none"

\* Nobody is answered, or has an answer waiting, whose request was not read.
AnsweredOnce ==
    \A c \in Clients : c \in heard[c] \/ (\E f \in Fds : requests[f] = c)
                           => wants[c] # "none" /\ inbox[c] = <<>>

Leaked == {f \in Fds : owner[f] = "leaked"}

\* The peers whose request costs a descriptor, those of them for whom it was
\* handled, and the callers of scripts that have nothing to wait for.
Costly   == Callers \cup Listers
Charged  == {c \in Costly : inbox[c] = <<>>}
Silenced == {c \in Callers : inbox[c] = <<>> /\ c \notin heard[c]
                                 /\ \A f \in Fds : requests[f] # c}

\* Each of those cost one descriptor at most, or two if it got no answer.
LeakCount == Cardinality(Leaked) <= Cardinality(Charged) + Cardinality(Silenced)

\* Once it is over there is no connection, so nothing happens any more.
Over == ~Running => Connected = {}

AccountInv ==
    /\ wants \in [Clients -> Requests \cup {"none"}]
    /\ OneRequest /\ AnsweredOnce /\ LeakCount /\ Over /\ dirs \subseteq Dirs

WebInv == ReadyInv /\ AccountInv

\* What a request costs is settled by the configuration.
LEMMA PeersThatCost ==
    /\ Costly  = {c \in Clients : wants[c] # "none" /\ Costs(RequestOf[wants[c]])}
    /\ Callers = {c \in Clients : /\ wants[c] # "none"
                                  /\ Handlers!Known(RequestOf[wants[c]])
                                  /\ CallsScript(RequestOf[wants[c]])}
  BY Zenon DEF Costly, Callers, Listers, Askers, Wish, Costs

LEMMA PeersInCosts ==
    /\ Callers \subseteq Costly /\ Costly \subseteq Askers /\ Askers \subseteq Clients
    /\ Callers' \subseteq Costly' /\ Costly' \subseteq Askers' /\ Askers' \subseteq Clients
  BY DEF Costly, Callers, Listers, Askers

LEMMA CostsAreFixed ==
    ASSUME NEW CONSTANT r
    PROVE  /\ Handlers!Known(r)' <=> Handlers!Known(r)
           /\ RunsScript(r)' <=> RunsScript(r)
           /\ CallsScript(r)' <=> CallsScript(r)
           /\ Lists(r, Dirs)' <=> Lists(r, Dirs)
  BY DEF CallsScript, RunsScript, Lists, Loc, Handlers!Known, Handlers!Loc,
         Handlers!ServerOf, Handlers!getLocation, Handlers!Matching, Handlers!IsScript,
         Handlers!GetsPage, Handlers!Gets, Handlers!Posts, Handlers!Admitted,
         Handlers!Located, Handlers!FitsBody, Handlers!IsPlain, Handlers!IsRoot

LEMMA CostlyKeep ==
    ASSUME NEW c \in Clients, wants'[c] = wants[c]
    PROVE  (c \in Costly' <=> c \in Costly) /\ (c \in Callers' <=> c \in Callers)
<1>1. PICK q : q = wants[c]
  OBVIOUS
<1>2. PICK r : r = RequestOf[q]
  OBVIOUS
<1>3. /\ c \in Callers <=> q # "none" /\ Handlers!Known(r) /\ CallsScript(r)
      /\ c \in Listers <=> q # "none" /\ Handlers!Known(r) /\ Lists(r, Dirs)
  BY <1>1, <1>2 DEF Callers, Listers, Askers, Wish
<1>4. /\ c \in Callers' <=> q # "none" /\ Handlers!Known(r)' /\ CallsScript(r)'
      /\ c \in Listers' <=> q # "none" /\ Handlers!Known(r)' /\ Lists(r, Dirs)'
  BY <1>1, <1>2 DEF Callers, Listers, Askers, Wish
<1>5. QED
  BY <1>3, <1>4, CostsAreFixed DEF Costly

\* The sets that are counted are finite.
LEMMA Countable ==
    /\ IsFiniteSet(Clients) /\ IsFiniteSet(Fds) /\ Cardinality(Fds) = NumFds
    /\ IsFiniteSet(Leaked) /\ IsFiniteSet(Costly) /\ IsFiniteSet(Charged)
    /\ IsFiniteSet(Silenced)
    /\ IsFiniteSet(Leaked') /\ IsFiniteSet(Charged') /\ IsFiniteSet(Silenced')
<1>1. IsFiniteSet(Clients) /\ NumFds \in Nat
  BY WebAssumption, ConstantsAssumption
<1>2. IsFiniteSet(Fds) /\ Cardinality(Fds) = NumFds
  BY <1>1, FS_Interval DEF Fds
<1>3. /\ Leaked \subseteq Fds /\ Leaked' \subseteq Fds /\ Costly \subseteq Clients
      /\ Charged \subseteq Clients /\ Charged' \subseteq Clients
      /\ Silenced \subseteq Clients /\ Silenced' \subseteq Clients
  BY PeersInCosts DEF Leaked, Charged, Silenced
<1>4. QED
  BY <1>1, <1>2, <1>3, FS_Subset

LEMMA CountsAreNumbers ==
    /\ Cardinality(Leaked) \in Nat /\ Cardinality(Leaked') \in Nat
    /\ Cardinality(Charged) \in Nat /\ Cardinality(Charged') \in Nat
    /\ Cardinality(Silenced) \in Nat /\ Cardinality(Silenced') \in Nat
  BY Countable, FS_CardinalityType

\* A step that loses no descriptor.
LEMMA NothingLost ==
    ASSUME LeakCount, Leaked' \subseteq Leaked, Charged \subseteq Charged',
           Silenced \subseteq Silenced'
    PROVE  LeakCount'
<1>1. /\ Cardinality(Leaked') <= Cardinality(Leaked)
      /\ Cardinality(Charged) <= Cardinality(Charged')
      /\ Cardinality(Silenced) <= Cardinality(Silenced')
  BY Countable, FS_Subset
<1>2. QED
  BY <1>1, CountsAreNumbers DEF LeakCount

\* What one call can lose: one descriptor, or two with no answer stored.
LEMMA LostIsFew ==
    ASSUME NEW o, Lost(o) # {}
    PROVE  /\ o.opens \in {"dir", "pipe", "pipes"}
           /\ \/ \E n \in FreeFds : Lost(o) = {n}
              \/ /\ o.opens = "pipes" /\ Unforked(o)
                 /\ \E n, m \in FreeFds : n # m /\ Lost(o) = {n, m}
<1>1. FreeFds # {} => Lowest(FreeFds) \in FreeFds
  BY LowestFree DEF FreeFds
<1>2. TwoFree => FreeFds # {}
  BY DEF TwoFree
<1>3. CASE o.opens = "pipes" /\ TwoFree
  <2>. DEFINE n == Lowest(FreeFds)   m == Lowest(FreeFds \ {n})
  <2>1. Lost(o) = {n, m} /\ n \in FreeFds
    BY <1>1, <1>2, <1>3 DEF Lost, LowestTwo
  <2>2. FreeFds \ {n} # {} /\ FreeFds \ {n} \in SUBSET Nat
    BY <1>3, ConstantsAssumption DEF TwoFree, FreeFds, Fds
  <2>3. m \in FreeFds \ {n}
    BY <2>2, LowestIsLeast
  <2>4. QED
    BY <1>3, <2>1, <2>3 DEF Unforked
<1>4. CASE ~(o.opens = "pipes" /\ TwoFree)
  BY <1>1, <1>2, <1>4 DEF Lost
<1>5. QED
  BY <1>3, <1>4

\* A handler loses a descriptor only to a peer it has not lost one to, and two
\* only to one that it leaves without an answer.
LEMMA HandlerAccounts ==
    ASSUME WebInv, NEW c \in Clients, inbox[c] # <<>>, HandleRequest(c)
    PROVE  AccountInv'
<1>0. /\ TypeOK /\ OneRequest /\ AnsweredOnce /\ LeakCount /\ dirs \subseteq Dirs
      /\ wants \in [Clients -> Requests \cup {"none"}]
  BY DEF WebInv, AccountInv, ReadyInv, SInv, IInv
<1> DEFINE q == inbox[c][1]
<1>1. sends[c] # 0 /\ wants[c] \in Requests /\ inbox[c] = <<wants[c]>> /\ q = wants[c]
  BY <1>0 DEF OneRequest
<1>2. PICK o \in Outcomes[q] : Handles(c, 1, o) /\ Serves(RequestOf[q], o)
  BY DEF HandleRequest
<1>3. pc = "read" /\ Running
  BY <1>2 DEF Handles, Running
<1>4. UNCHANGED <<wants, sends, heard, peer>>
  BY <1>2 DEF HandleRequest, Handles
<1>5. inbox' = [inbox EXCEPT ![c] = <<>>]
  <2>1. \A w : SubSeq(<<w>>, 1 + 1, Len(<<w>>)) = <<>>
    OBVIOUS
  <2>2. inbox' = [inbox EXCEPT ![c] = SubSeq(inbox[c], 1 + 1, Len(inbox[c]))]
    BY <1>2 DEF Handles
  <2>3. SubSeq(inbox[c], 1 + 1, Len(inbox[c])) = <<>>
    BY <1>1, <2>1, Zenon
  <2>4. QED
    BY <2>2, <2>3, Zenon
<1>6. OneRequest'
  BY <1>0, <1>1, <1>4, <1>5 DEF OneRequest, TypeOK
<1>7. \A f \in Fds : requests'[f] \in {"none", c, requests[f]}
  BY <1>0, <1>2 DEF Handles, ProcessEnds, Store, TypeOK
<1>8. wants[c] # "none" /\ \A d \in Clients : inbox[d] = <<>> => inbox'[d] = <<>> /\ d # c
  BY <1>0, <1>1, <1>5, WebAssumption DEF TypeOK
<1>9. AnsweredOnce'
  <2>1. inbox'[c] = <<>>
    BY <1>0, <1>5 DEF TypeOK
  <2>2. QED
    BY <1>0, <1>4, <1>7, <1>8, <2>1, ConstantsAssumption DEF AnsweredOnce
<1>10. \A d \in Clients : (d \in Costly' <=> d \in Costly) /\ (d \in Callers' <=> d \in Callers)
  BY <1>4, CostlyKeep
<1>11. Charged \subseteq Charged' /\ Silenced \subseteq Silenced'
  BY <1>4, <1>7, <1>8, <1>10, PeersInCosts, ConstantsAssumption DEF Charged, Silenced
<1>12. dirs' \subseteq dirs
  <2>1. CASE Starves(RequestOf[q]) \/ Handlers!NoServer(RequestOf[q])
    BY <1>2, <2>1 DEF Serves, StarvedRequest, Handlers!NoServer, Handlers!Dies, Handlers!Only,
                      Handlers!disk
  <2>2. CASE ~Starves(RequestOf[q]) /\ ~Handlers!NoServer(RequestOf[q])
    <3>1. Handlers!Dispatch(RequestOf[q], Loc(RequestOf[q]))
      BY <1>2, <2>2 DEF Serves, Handlers!checkRequest, Loc
    <3>2. QED
      BY <1>3, <3>1, HandlerEffects
  <2>3. QED
    BY <2>1, <2>2
<1>13. CASE o.act = "stop"
  <2>1. owner' = [f \in Fds |-> "free"] /\ backlog' = [k \in Listeners |-> {}] /\ pc' = "dead"
    BY <1>2, <1>13 DEF Handles, ProcessEnds
  <2>2. Leaked' = {} /\ Connected' = {}
    BY <2>1, ConstantsAssumption DEF Leaked, Connected, Open, Waiting
  <2>3. QED
    BY <1>0, <1>4, <1>6, <1>9, <1>11, <1>12, <2>2, NothingLost DEF AccountInv, Over
<1>14. CASE o.act # "stop"
  <2>1. owner' = KeptOpen(o) /\ requests' = [requests EXCEPT ![Sd] = Store(o, c)] /\ Running'
    BY <1>2, <1>14 DEF Handles, Running
  <2>2. Leaked' = Leaked \cup Lost(o) /\ Leaked \cap Lost(o) = {} /\ Lost(o) \subseteq FreeFds
    BY <1>0, <2>1, LostIsFree, ConstantsAssumption DEF KeptOpen, Leaked, FreeFds, TypeOK
  <2>3. LeakCount'
    <3>1. CASE Lost(o) = {}
      BY <1>0, <1>11, <2>2, <3>1, NothingLost
    <3>2. CASE Lost(o) # {}
      <4>1. o.opens # "none" /\ o.opens \in Openings(RequestOf[q])
        BY <1>2, <3>2, LostIsFew DEF Serves
      <4>2. c \in Costly /\ (o.opens # "dir" => c \in Callers)
        BY <1>0, <1>1, <1>8, <4>1, OpeningCosts, PeersThatCost
      <4>3. c \notin Charged /\ Charged \cup {c} \subseteq Charged'
        <5>1. inbox'[c] = <<>> /\ c \in Costly'
          BY <1>0, <1>5, <1>10, <4>2 DEF TypeOK
        <5>2. QED
          BY <1>11, <5>1 DEF Charged
      <4>4. Cardinality(Charged) + 1 <= Cardinality(Charged')
        <5>1. Cardinality(Charged \cup {c}) = Cardinality(Charged) + 1
          BY <4>3, Countable, FS_AddElement
        <5>2. Cardinality(Charged \cup {c}) <= Cardinality(Charged')
          BY <4>3, Countable, FS_Subset
        <5>3. QED
          BY <5>1, <5>2
      <4>5. Cardinality(Silenced) <= Cardinality(Silenced')
        BY <1>11, Countable, FS_Subset
      <4>6. CASE \E n \in FreeFds : Lost(o) = {n}
        <5>1. PICK n \in FreeFds : Lost(o) = {n}
          BY <4>6
        <5>2. Cardinality(Leaked') = Cardinality(Leaked) + 1
          BY <2>2, <5>1, Countable, FS_AddElement
        <5>3. QED
          BY <1>0, <4>4, <4>5, <5>2, CountsAreNumbers DEF LeakCount
      <4>7. CASE /\ o.opens = "pipes" /\ Unforked(o)
                 /\ \E n, m \in FreeFds : n # m /\ Lost(o) = {n, m}
        <5>1. PICK n, m \in FreeFds : n # m /\ Lost(o) = {n, m}
          BY <4>7
        <5>2. Cardinality(Leaked') = Cardinality(Leaked) + 2
          <6>1. Cardinality(Leaked \cup {n}) = Cardinality(Leaked) + 1
                /\ IsFiniteSet(Leaked \cup {n})
            BY <2>2, <5>1, Countable, FS_AddElement
          <6>2. Cardinality((Leaked \cup {n}) \cup {m}) = Cardinality(Leaked \cup {n}) + 1
            BY <2>2, <5>1, <6>1, FS_AddElement
          <6>3. Leaked' = (Leaked \cup {n}) \cup {m}
            BY <2>2, <5>1
          <6>4. QED
            BY <6>1, <6>2, <6>3, CountsAreNumbers
        <5>3. c \notin Silenced /\ Silenced \cup {c} \subseteq Silenced'
          <6>1. c \in Callers' /\ inbox'[c] = <<>> /\ inbox[c] # <<>>
            BY <1>0, <1>5, <1>10, <4>2, <4>7 DEF TypeOK
          <6>2. c \notin heard[c] /\ \A f \in Fds : requests[f] # c
            BY <1>0, <6>1 DEF AnsweredOnce
          <6>3. \A f \in Fds : requests'[f] # c
            BY <1>0, <2>1, <4>7, <6>2, ConstantsAssumption DEF Store, TypeOK
          <6>4. QED
            BY <1>4, <1>11, <6>1, <6>2, <6>3 DEF Silenced
        <5>4. Cardinality(Silenced) + 1 <= Cardinality(Silenced')
          <6>1. Cardinality(Silenced \cup {c}) = Cardinality(Silenced) + 1
            BY <5>3, Countable, FS_AddElement
          <6>2. Cardinality(Silenced \cup {c}) <= Cardinality(Silenced')
            BY <5>3, Countable, FS_Subset
          <6>3. QED
            BY <6>1, <6>2
        <5>5. QED
          BY <1>0, <4>4, <5>2, <5>4, CountsAreNumbers DEF LeakCount
      <4>8. QED
        BY <3>2, <4>6, <4>7, LostIsFew
    <3>3. QED
      BY <3>1, <3>2
  <2>4. QED
    BY <1>0, <1>4, <1>6, <1>9, <1>12, <2>1, <2>3 DEF AccountInv, Over
<1>15. QED
  BY <1>13, <1>14

\* No other step loses one.
LEMMA OthersAccount ==
    ASSUME WebInv,
           \/ \E c \in Clients : \/ inbox[c] = <<>> /\ HandleSilence(c)
                                 \/ SendReply(c)
                                 \/ \E q \in Requests : Ask(c, q)
           \/ OtherStep \/ Interrupt \/ UNCHANGED webVars
    PROVE  AccountInv'
<1>0. /\ TypeOK /\ OneRequest /\ AnsweredOnce /\ LeakCount /\ Over /\ dirs \subseteq Dirs
      /\ wants \in [Clients -> Requests \cup {"none"}]
      /\ PendingIsOwned /\ ReadyBits /\ Arrivals
  BY DEF WebInv, AccountInv, ReadyInv, SInv, IInv, Consistent
<1>1. ASSUME UNCHANGED <<wants, inbox, sends, dirs>>, Leaked' \subseteq Leaked, Over',
             \A d \in Clients : peer[d] # "none" => peer'[d] # "none",
             \A d \in Clients : d \in heard'[d] =>
                 d \in heard[d] \/ \E f \in Fds : requests[f] = d,
             \A f \in Fds : requests'[f] \in {"none", requests[f]}
      PROVE  AccountInv'
  <2>1. \A d \in Clients : (d \in Costly' <=> d \in Costly) /\ (d \in Callers' <=> d \in Callers)
    BY <1>1, CostlyKeep
  <2>2. Charged \subseteq Charged'
    BY <1>1, <2>1, PeersInCosts DEF Charged
  <2>3. Silenced \subseteq Silenced'
    BY <1>1, <2>1, PeersInCosts, ConstantsAssumption DEF Silenced
  <2>4. OneRequest'
    BY <1>0, <1>1 DEF OneRequest
  <2>5. AnsweredOnce'
    BY <1>0, <1>1, ConstantsAssumption DEF AnsweredOnce
  <2>6. QED
    BY <1>0, <1>1, <2>2, <2>3, <2>4, <2>5, NothingLost DEF AccountInv
<1>2. ASSUME ProcessEnds("dead") \/ ProcessEnds("exited")
      PROVE  Leaked' = {} /\ Over' /\ \A f \in Fds : requests'[f] = "none"
  BY <1>2, ConstantsAssumption DEF ProcessEnds, Leaked, Over, Connected, Open, Waiting
<1>3. ASSUME NEW c \in Clients, inbox[c] = <<>>, HandleSilence(c)
      PROVE  AccountInv'
  <2>1. /\ ProcessEnds("dead") /\ UNCHANGED <<wants, sends, dirs, heard, peer>>
        /\ inbox' = [inbox EXCEPT ![c] = SubSeq(<<>>, 1, 0)]
    BY <1>3 DEF HandleSilence, Handles, seenVars, diskVars
  <2>2. inbox' = inbox
    BY <1>0, <1>3, <2>1 DEF TypeOK
  <2>3. QED
    BY <1>1, <1>2, <2>1, <2>2
<1>4. ASSUME NEW c \in Clients, SendReply(c) PROVE AccountInv'
  <2>1. /\ pc = "write" /\ Sd \in writefds /\ owner[Sd] = c
        /\ UNCHANGED <<wants, inbox, sends, dirs, pc, owner, backlog, peer, requests>>
        /\ heard' = [heard EXCEPT ![c] = @ \cup {requests[Sd]}]
    BY <1>4 DEF SendReply, SendPiece, diskVars, kernelVars
  <2>2. Sd \in Fds
    BY <1>0, <2>1 DEF TypeOK
  <2>3. \A d \in Clients : d \in heard'[d] =>
            d \in heard[d] \/ \E f \in Fds : requests[f] = d
    BY <1>0, <2>1, <2>2 DEF TypeOK
  <2>4. Leaked' \subseteq Leaked /\ Over'
    BY <1>0, <2>1 DEF Leaked, Over, Running, Connected, Open, Waiting
  <2>5. QED
    BY <1>1, <2>1, <2>3, <2>4
<1>5. ASSUME NEW c \in Clients, NEW q \in Requests, Ask(c, q)
      PROVE  AccountInv'
  <2>1. /\ sends[c] = 0 /\ sends' = [sends EXCEPT ![c] = 1]
        /\ inbox' = [inbox EXCEPT ![c] = <<q>>] /\ wants' = [wants EXCEPT ![c] = q]
        /\ UNCHANGED <<pc, owner, backlog, dirs, peer, heard, requests>> /\ peer[c] # "none"
    <3>1. /\ sends[c] < MaxSegments /\ sends' = [sends EXCEPT ![c] = sends[c] + 1]
          /\ inbox' = [inbox EXCEPT ![c] = Append(inbox[c], q)]
          /\ wants' = [wants EXCEPT ![c] = q]
          /\ UNCHANGED <<pc, owner, backlog, dirs, peer, heard, requests>> /\ peer[c] # "none"
      BY <1>5 DEF Ask, Send, loopVars, kernelVars, diskVars
    <3>2. sends[c] = 0
      BY <1>0, <3>1, WebAssumption DEF TypeOK
    <3>3. inbox[c] = <<>> /\ Append(<<>>, q) = <<q>>
      BY <1>0, <3>2 DEF OneRequest
    <3>4. QED
      BY <3>1, <3>2, <3>3
  <2>2. OneRequest'
    BY <1>0, <2>1 DEF OneRequest, TypeOK
  <2>3. \A d \in Clients \ {c} : /\ wants'[d] = wants[d] /\ inbox'[d] = inbox[d]
                                 /\ d \in Costly' <=> d \in Costly
                                 /\ d \in Callers' <=> d \in Callers
    <3>1. \A d \in Clients \ {c} : wants'[d] = wants[d] /\ inbox'[d] = inbox[d]
      BY <1>0, <2>1 DEF TypeOK
    <3>2. QED
      BY <3>1, CostlyKeep
  <2>4. wants[c] = "none" /\ c \notin Costly
    BY <1>0, <2>1, PeersInCosts DEF OneRequest, Askers
  <2>5. Charged \subseteq Charged'
    BY <2>3, <2>4, PeersInCosts DEF Charged
  <2>6. Silenced \subseteq Silenced'
    BY <2>1, <2>3, <2>4, PeersInCosts DEF Silenced
  <2>7. LeakCount'
    BY <1>0, <2>1, <2>5, <2>6, NothingLost DEF Leaked
  <2>8. AnsweredOnce'
    BY <1>0, <2>1, <2>3, <2>4 DEF AnsweredOnce
  <2>9. Over'
    BY <1>0, <2>1 DEF Over, Running, Connected, Open, Waiting
  <2>10. QED
    BY <1>0, <2>1, <2>2, <2>7, <2>8, <2>9 DEF AccountInv
<1>6. CASE OtherStep
  <2>1. UNCHANGED <<wants, inbox, sends, dirs>>
    BY <1>6 DEF OtherStep, seenVars, diskVars, LoopStepOnly, TopOfLoop, SelectReturns,
                SelectFails, SkipListener, AcceptFails, Accept, SkipRead, SkipWrite,
                FinishResponse, SendFails, SendKills, ShutdownFree, Shutdown503,
                ShutdownKills, Exit, Connect, Close, Reset, Drain, peerVars
  <2>2. CASE AcceptFails \/ Exit \/ \E c \in Clients : SendKills(c) \/ ShutdownKills(c)
    <3>1. /\ ProcessEnds("dead") \/ ProcessEnds("exited")
          /\ UNCHANGED <<peer, heard>>
      BY <2>2 DEF AcceptFails, Exit, SendKills, ShutdownKills, peerVars
    <3>2. QED
      BY <1>1, <1>2, <2>1, <3>1
  <2>3. ASSUME NEW f \in Fds, NEW x \in Clients \cup {"free"}, owner' = [owner EXCEPT ![f] = x]
        PROVE  Leaked' \subseteq Leaked
    BY <1>0, <2>3, ConstantsAssumption DEF TypeOK, Leaked
  <2>4. ASSUME NEW c \in Clients, Accept(c) PROVE AccountInv'
    <3>1. Leaked' \subseteq Leaked /\ Over' /\ UNCHANGED <<requests, peer, heard>>
      BY <1>0, <2>3, <2>4, LowestFree DEF Accept, NextListener, Over, Running, peerVars
    <3>2. QED
      BY <1>1, <2>1, <3>1
  <2>5. CASE FinishResponse \/ \E c \in Clients : Shutdown503(c)
    <3>1. Sd \in Fds
      BY <1>0, <2>5 DEF FinishResponse, Shutdown503, TypeOK, Sd
    <3>2. Leaked' \subseteq Leaked
      BY <2>3, <2>5, <3>1 DEF FinishResponse, Shutdown503
    <3>3. Over' /\ peer' = peer
      BY <2>5 DEF FinishResponse, NextSlot, Shutdown503, NextShutdownSlot, Over, Running,
                  peerVars
    <3>4. \A f \in Fds : requests'[f] \in {"none", requests[f]}
      BY <1>0, <2>5 DEF FinishResponse, Erased, Shutdown503, TypeOK
    <3>5. \A d \in Clients : d \in heard'[d] => d \in heard[d]
      <4>1. heard' = heard \/ \E c \in Clients : heard' = [heard EXCEPT ![c] = @ \cup {"503"}]
        BY <2>5 DEF FinishResponse, Shutdown503, peerVars
      <4>2. QED
        <5>1. ASSUME NEW c \in Clients, heard' = [heard EXCEPT ![c] = @ \cup {"503"}],
                     NEW d \in Clients, d \in heard'[d]
              PROVE  d \in heard[d]
          BY <1>0, <5>1, ConstantsAssumption DEF TypeOK
        <5>2. QED
          BY <4>1, <5>1
    <3>6. QED
      BY <1>1, <2>1, <3>2, <3>3, <3>4, <3>5
  <2>6. CASE \/ TopOfLoop \/ SelectReturns \/ SelectFails \/ SkipListener \/ SkipRead
             \/ SkipWrite \/ ShutdownFree
             \/ \E c \in Clients : SendFails(c)
    <3>1. owner' = owner /\ Running' /\ UNCHANGED <<requests, heard>>
      BY <2>6 DEF TopOfLoop, SelectReturns, SelectFails, SkipListener, NextListener, SkipRead,
                  SkipWrite, NextSlot, ShutdownFree, NextShutdownSlot, SendFails, kernelVars,
                  peerVars, Running
    <3>2. \A d \in Clients : peer[d] # "none" => peer'[d] # "none"
      BY <1>0, <2>6 DEF TopOfLoop, SelectReturns, SelectFails, SkipListener, SkipRead,
                        SkipWrite, ShutdownFree, SendFails, peerVars, TypeOK
    <3>3. QED
      BY <1>0, <1>1, <2>1, <3>1, <3>2 DEF Leaked, Over
  <2>7. ASSUME NEW c \in Clients, \/ \E k \in Listeners : Connect(c, k)
                                  \/ Close(c) \/ Reset(c) \/ Drain(c)
        PROVE  AccountInv'
    <3>1. /\ owner' = owner /\ pc' = pc /\ (Running \/ c \in Connected)
          /\ UNCHANGED <<requests, heard>>
      BY <2>7 DEF Connect, Close, Reset, Drain, loopVars, kernelVars
    <3>2. Running'
      BY <1>0, <3>1 DEF Over, Running
    <3>3. \A d \in Clients : peer[d] # "none" => peer'[d] # "none"
      BY <1>0, <2>7 DEF Connect, Close, Reset, Drain, TypeOK
    <3>4. QED
      BY <1>1, <2>1, <3>1, <3>2, <3>3 DEF Leaked, Over
  <2>8. QED
    BY <1>6, <2>2, <2>4, <2>5, <2>6, <2>7 DEF OtherStep, LoopStepOnly
<1>7. CASE Interrupt
  <2>1. UNCHANGED <<wants, inbox, sends, dirs, owner, requests, heard, peer>> /\ Running'
    BY <1>7 DEF Interrupt, Sigint, seenVars, diskVars, kernelVars, peerVars, Running
  <2>2. QED
    BY <1>0, <1>1, <2>1 DEF Leaked, Over
<1>8. CASE UNCHANGED webVars
  BY <1>0, <1>1, <1>8 DEF webVars, vars, loopVars, kernelVars, peerVars, seenVars, diskVars,
     Leaked, Over, Running, Connected, Open, Waiting
<1>9. QED
  BY <1>0, <1>3, <1>4, <1>5, <1>6, <1>7, <1>8

-----------------------------------------------------------------------------
(* What ended the process.                                                 *)

LEMMA WebInvAlways == WebSpec => []WebInv
<1>1. WebInit => AccountInv
  <2> SUFFICES ASSUME WebInit PROVE AccountInv
    OBVIOUS
  <2>1. wants = [c \in Clients |-> "none"] /\ dirs = Dirs
    BY DEF WebInit, Handlers!Init
  <2>2. OneRequest
    BY <2>1 DEF WebInit, Init, OneRequest
  <2>3. Leaked = {} /\ AnsweredOnce
    BY <2>1, ConstantsAssumption DEF WebInit, Init, Leaked, AnsweredOnce
  <2>4. LeakCount
    BY <2>3, FS_EmptySet, CountsAreNumbers DEF LeakCount
  <2>5. Over
    BY DEF WebInit, Init, Over, Running
  <2>6. QED
    BY <2>1, <2>2, <2>3, <2>4, <2>5 DEF AccountInv
<1>2. WebInv /\ [WebNext]_webVars => AccountInv'
  <2> SUFFICES ASSUME WebInv, [WebNext]_webVars PROVE AccountInv'
    OBVIOUS
  <2>1. CASE \E c \in Clients : inbox[c] # <<>> /\ HandleRequest(c)
    BY <2>1, HandlerAccounts
  <2>2. CASE ~\E c \in Clients : inbox[c] # <<>> /\ HandleRequest(c)
    BY <2>2, OthersAccount DEF WebNext, Serving
  <2>3. QED
    BY <2>1, <2>2
<1>3. WebSpec => []ReadyInv
  BY WebIsLoop, ReadyAlways, PTL
<1>4. QED
  BY <1>1, <1>2, <1>3, PTL DEF WebSpec, WebInv

\* A connection was not sent a whole answer unless it is being closed.
LEMMA NotAllSent ==
    ASSUME WebInv, NEW c \in Clients, NEW f \in Fds, owner[f] = c,
           pc = "write" => totalSent < ResponseLen
    PROVE  recvd[c] < ResponseLen /\ peer[c] # "none" /\ c \notin Answered
<1>1. /\ TypeOK /\ AnswerIntegrity /\ Delivery /\ Arrivals /\ Unfinished
  BY DEF WebInv, ReadyInv, SInv, IInv, Consistent
<1>2. heard[c] \subseteq {c} /\ c # "503"
  BY <1>1, ConstantsAssumption DEF Delivery
<1>3. recvd[c] <= ResponseLen
  BY <1>1, <1>2 DEF AnswerIntegrity
<1>4. recvd[c] # ResponseLen
  BY <1>1, ConstantsAssumption DEF Unfinished, TypeOK
<1>5. recvd[c] \in Nat /\ ResponseLen \in Nat
  BY <1>1, ConstantsAssumption DEF TypeOK
<1>6. QED
  BY <1>1, <1>3, <1>4, <1>5 DEF Answered, Arrivals

\* As many connections, scripts and listings as there are descriptors.
UsedUp == Cardinality(Unanswered) + Cardinality(Callers \cup Listers)
              + Cardinality(Callers \cap Unanswered) >= NumFds

\* Without a free descriptor each is a connection that is not answered or was
\* lost to a peer.
LEMMA AllAccounted ==
    ASSUME WebInv, FreeFds = {}, pc # "write"
    PROVE  UsedUp
<1>1. TypeOK /\ OneDescriptor /\ LeakCount /\ OneRequest
  BY DEF WebInv, ReadyInv, SInv, IInv, Consistent, AccountInv
<1> DEFINE Held == Fds \ Leaked
<1>2. \A f \in Held : owner[f] \in Unanswered
  <2>1. \A f \in Held : owner[f] \in Clients
    BY <1>1 DEF FreeFds, Leaked, TypeOK
  <2>2. QED
    BY <2>1, NotAllSent DEF Unanswered
<1>3. Cardinality(Held) <= Cardinality(Unanswered)
  <2>. DEFINE g == [f \in Held |-> owner[f]]
  <2>1. g \in [Held -> Unanswered]
    BY <1>2
  <2>2. \A x, y \in Held : g[x] = g[y] => x = y
    BY <1>1, <1>2 DEF OneDescriptor, Unanswered
  <2>3. g \in Injection(Held, Unanswered)
    BY <2>1, <2>2 DEF Injection, IsInjective
  <2>4. IsFiniteSet(Unanswered)
    BY Countable, FS_Subset DEF Unanswered
  <2>5. QED
    BY <2>3, <2>4, FS_Injection
<1>4. NumFds = Cardinality(Held) + Cardinality(Leaked)
  <2>1. IsFiniteSet(Held) /\ IsFiniteSet(Leaked)
    BY Countable, FS_Subset
  <2>2. Held \cup Leaked = Fds /\ Held \cap Leaked = {}
    BY DEF Leaked
  <2>3. Cardinality(Held \cup Leaked)
            = Cardinality(Held) + Cardinality(Leaked) - Cardinality(Held \cap Leaked)
    BY <2>1, FS_Union
  <2>4. Cardinality(Held) \in Nat /\ Cardinality(Leaked) \in Nat
    BY <2>1, FS_CardinalityType
  <2>5. Cardinality(Held \cup Leaked) = NumFds /\ Cardinality(Held \cap Leaked) = 0
    BY <2>2, Countable, FS_EmptySet, Zenon
  <2> HIDE DEF Held
  <2>6. QED
    BY <2>3, <2>4, <2>5
<1>5. Cardinality(Charged) <= Cardinality(Costly)
  BY Countable, FS_Subset DEF Charged
<1>6. Cardinality(Silenced) <= Cardinality(Callers \cap Unanswered)
  <2>1. \A c \in Callers : peer[c] # "none"
    BY <1>1, PeersInCosts DEF Askers, OneRequest
  <2>2. Silenced \subseteq Callers \cap Unanswered
    BY <2>1, PeersInCosts DEF Silenced, Unanswered, Answered
  <2>3. IsFiniteSet(Callers \cap Unanswered)
    BY Countable, FS_Subset DEF Unanswered
  <2>4. QED
    BY <2>2, <2>3, FS_Subset
<1>7. /\ Cardinality(Unanswered) \in Nat /\ Cardinality(Costly) \in Nat
      /\ Cardinality(Held) \in Nat /\ Cardinality(Callers \cap Unanswered) \in Nat
  <2>1. /\ IsFiniteSet(Unanswered) /\ IsFiniteSet(Held)
        /\ IsFiniteSet(Callers \cap Unanswered)
    BY Countable, FS_Subset DEF Unanswered
  <2>2. QED
    BY <2>1, Countable, FS_CardinalityType
<1> HIDE DEF Held
<1>8. Cardinality(Unanswered) + Cardinality(Costly) + Cardinality(Callers \cap Unanswered)
          >= NumFds
  BY <1>1, <1>3, <1>4, <1>5, <1>6, <1>7, CountsAreNumbers, ConstantsAssumption DEF LeakCount
<1>9. QED
  BY <1>8 DEF UsedUp, Costly

\* A request that no handler survives while the disk is as it is.
Doomed(r) ==
    \/ ~Handlers!Known(r)
    \/ Uploads(r) /\ ~(r.form /\ Handlers!CanStore(r, Loc(r)))

LEMMA DoomIsFixed ==
    ASSUME NEW CONSTANT r, dirs' = dirs
    PROVE  Doomed(r)' <=> Doomed(r)
  BY DEF Doomed, Uploads, Loc, Handlers!Known, Handlers!Loc, Handlers!ServerOf,
         Handlers!getLocation, Handlers!Matching, Handlers!Posts, Handlers!Admitted,
         Handlers!Located, Handlers!FitsBody, Handlers!CanStore, Handlers!IsDir,
         Handlers!Target

\* What was counted before a step that leaves the peers alone is right after it.
LEMMA StillAccounted ==
    ASSUME UsedUp, UNCHANGED <<peer, heard, recvd, wants>>
    PROVE  UsedUp'
<1>1. Unanswered' = Unanswered
  BY DEF Unanswered, Answered
<1>2. Costly' = Costly /\ Callers' = Callers
  <2>1. \A d \in Clients : (d \in Costly' <=> d \in Costly) /\ (d \in Callers' <=> d \in Callers)
    BY CostlyKeep
  <2>2. QED
    BY <2>1, PeersInCosts
<1>3. QED
  BY <1>1, <1>2 DEF UsedUp, Costly

\* What DiesForAReason names.
Reason ==
    \/ endserver \/ GoneAway # {} \/ \E c \in Askers : Doomed(Wish(c))
    \/ UsedUp

\* The steps that end the process.
LEMMA DeathHasReason ==
    ASSUME WebInv, WebNext, pc' = "dead"
    PROVE  Reason'
<1>0. /\ TypeOK /\ Ready /\ ClosesForSignal /\ Over /\ OneRequest
      /\ wants \in [Clients -> Requests \cup {"none"}]
  BY DEF WebInv, ReadyInv, SInv, IInv, AccountInv
<1>1. ASSUME NEW c \in Clients, inbox[c] # <<>>, HandleRequest(c) PROVE Reason'
  <2>. DEFINE q == inbox[c][1]
  <2>1. sends[c] # 0 /\ wants[c] \in Requests /\ inbox[c] = <<wants[c]>> /\ q = wants[c]
    BY <1>0, <1>1 DEF OneRequest
  <2>2. PICK o \in Outcomes[q] : Handles(c, 1, o) /\ Serves(RequestOf[q], o)
    BY <1>1 DEF HandleRequest
  <2>3. /\ pc = "read" /\ Running /\ ~Running'
        /\ UNCHANGED <<peer, heard, recvd, wants>>
    BY <1>1, <2>2 DEF HandleRequest, Handles, Running
  <2>4. dirs' = dirs /\ (Doomed(RequestOf[q]) \/ FreeFds = {})
    BY <2>2, <2>3, DeathOfRequest DEF Doomed
  <2>5. CASE Doomed(RequestOf[q])
    <3>1. PICK r : r = RequestOf[q]
      OBVIOUS
    <3>2. Doomed(r)'
      BY <2>4, <2>5, <3>1, DoomIsFixed
    <3>3. c \in Askers' /\ Wish(c)' = r
      BY <2>1, <2>3, <3>1, WebAssumption DEF Askers, Wish
    <3>4. QED
      BY <3>2, <3>3 DEF Reason, Doomed
  <2>6. CASE FreeFds = {}
    BY <2>3, <2>6, AllAccounted, StillAccounted DEF Reason
  <2>7. QED
    BY <2>4, <2>5, <2>6
<1>2. ASSUME NEW c \in Clients, inbox[c] = <<>>, HandleSilence(c) PROVE Reason'
  <2>1. /\ pc = "read" /\ Sd \in readfds /\ Sd # 0 /\ owner[Sd] = c
        /\ UNCHANGED <<peer, recvd, endserver>>
    BY <1>2 DEF HandleSilence, Handles, ProcessEnds
  <2>2. si \in Slots /\ Sd \in Fds
    BY <1>0, <2>1 DEF TypeOK, Sd
  <2>3. endserver \/ Readable(c)
    BY <1>0, <2>1, <2>2 DEF Ready, Unread, Sd
  <2>4. recvd[c] < ResponseLen /\ peer[c] # "none"
    BY <2>1, <2>2, NotAllSent
  <2>5. QED
    BY <1>2, <2>1, <2>3, <2>4 DEF Reason, GoneAway, Readable
<1>3. ASSUME NEW c \in Clients, SendKills(c) PROVE Reason'
  <2>1. /\ pc = "write" /\ Sd \in writefds /\ owner[Sd] = c /\ totalSent < ResponseLen
        /\ peer[c] = "broken" /\ UNCHANGED <<peer, recvd>>
    BY <1>3 DEF SendKills, peerVars
  <2>2. Sd \in Fds
    BY <1>0, <2>1 DEF TypeOK
  <2>3. recvd[c] < ResponseLen
    BY <2>1, <2>2, NotAllSent
  <2>4. QED
    BY <2>1, <2>3 DEF Reason, GoneAway
<1>4. ASSUME NEW c \in Clients, ShutdownKills(c) PROVE Reason'
  BY <1>0, <1>4 DEF ShutdownKills, ProcessEnds, ClosesForSignal, Closing, Reason
<1>5. CASE AcceptFails /\ UNCHANGED seenVars
  BY <1>5, AllAccounted, StillAccounted DEF AcceptFails, peerVars, seenVars, Reason
<1>6. CASE \/ TopOfLoop \/ SelectReturns \/ SelectFails \/ SkipListener
           \/ SkipRead \/ SkipWrite \/ FinishResponse \/ ShutdownFree \/ Exit \/ Interrupt
           \/ \E c \in Clients : \/ Accept(c) \/ SendReply(c) \/ SendFails(c) \/ Shutdown503(c)
  BY <1>6 DEF TopOfLoop, SelectReturns, SelectFails, SkipListener, NextListener, Accept,
              SkipRead, SkipWrite, NextSlot, FinishResponse, ShutdownFree, NextShutdownSlot,
              Exit, ProcessEnds, Interrupt, Sigint, Running, SendReply, SendPiece, SendFails,
              Shutdown503
<1>7. ASSUME NEW c \in Clients, \/ \E k \in Listeners : Connect(c, k)
                                \/ \E q \in Requests : Ask(c, q)
                                \/ Close(c) \/ Reset(c) \/ Drain(c)
      PROVE  FALSE
  <2>1. pc' = pc /\ (Running \/ c \in Connected)
    BY <1>7 DEF Connect, Ask, Send, Close, Reset, Drain, loopVars
  <2>2. QED
    BY <1>0, <2>1 DEF Over, Running
<1>8. QED
  BY <1>1, <1>2, <1>3, <1>4, <1>5, <1>6, <1>7
  DEF WebNext, Serving, OtherStep, LoopStepOnly

\* For any configuration, disk, peers and descriptors: the process ends only
\* for SIGINT, a peer that went away, a Host no server has, an upload that is no
\* whole form or has no place to go, or when the connections, the scripts and
\* listings, and the scripts without an answer once more, are as many as the
\* descriptors.
THEOREM DiesForAReasonHolds == WebSpec => []DiesForAReason
<1>1. DiesForAReason <=> (pc = "dead" => Reason)
  BY DEF DiesForAReason, Reason, Doomed, UsedUp
<1>. DEFINE Died == pc = "dead" => Reason
<1>2. WebInit => Died
  BY DEF WebInit, Init
<1>3. WebInv /\ Died /\ [WebNext]_webVars => Died'
  <2> SUFFICES ASSUME WebInv, Died, [WebNext]_webVars, pc' = "dead" PROVE Reason'
    OBVIOUS
  <2>1. CASE WebNext
    BY <2>1, DeathHasReason
  <2>2. CASE UNCHANGED webVars
    <3>1. /\ UNCHANGED <<peer, heard, recvd, wants, endserver, dirs>> /\ Reason
      BY <2>2 DEF webVars, vars, loopVars, peerVars, seenVars, diskVars
    <3>2. ASSUME NEW c \in Askers, Doomed(Wish(c)) PROVE Reason'
      <4>1. PICK r : r = Wish(c)
        OBVIOUS
      <4>2. Doomed(r)' /\ c \in Askers' /\ Wish(c)' = r
        BY <3>1, <3>2, <4>1, DoomIsFixed DEF Askers, Wish
      <4>3. QED
        BY <4>2 DEF Reason, Doomed
    <3>3. QED
      BY <3>1, <3>2, StillAccounted DEF Reason, GoneAway
  <2>3. QED
    BY <2>1, <2>2
<1>4. WebSpec => []Died
  BY <1>2, <1>3, WebInvAlways, PTL DEF WebSpec
<1>5. QED
  BY <1>1, <1>4, PTL

-----------------------------------------------------------------------------
(* Nobody waits for nothing.                                               *)

\* A pass that neither ends the process nor stores an answer is of a script.
LEMMA SilenceIsOfScript ==
    ASSUME NEW r, NEW o, Serves(r, o), Running, NEW c, Store(o, c) = "none",
           c # "none", o.act # "stop"
    PROVE  Handlers!Known(r) /\ RunsScript(r)
<1>1. o.act = Act /\ o.opens \in Openings(r)
  BY DEF Serves
<1>2. CASE Unforked(o)
  <2>1. o.opens \in {"pipe", "pipes"}
    BY <1>2 DEF Unforked
  <2>2. QED
    BY <1>1, <2>1 DEF Openings, CallsScript
<1>3. CASE ~Unforked(o)
  <2>1. Running' /\ response'.status = "none"
    BY <1>1, <1>3 DEF Store, Act
  <2>2. ~Handlers!Dies(r)
    BY <2>1 DEF Handlers!Dies
  <2>3. StarvedAnswer(r).status # "none"
    <3>1. \A a \in {Handlers!Listing({}), Handlers!Page(NoFile), Handlers!Answer("404")} :
              a.status # "none"
      BY DEF Handlers!Answer, Handlers!Page, Handlers!Listing
    <3>2. StarvedAnswer(r) \in {Handlers!Listing({}), Handlers!Page(NoFile),
                               Handlers!Answer("404")}
      BY Zenon DEF StarvedAnswer
    <3>3. QED
      BY <3>1, <3>2
  <2>4. ~Starves(r)
    BY <2>1, <2>2, <2>3 DEF Serves, StarvedRequest, Handlers!Only, Handlers!Responds
  <2>5. Handlers!Known(r) /\ Handlers!Dispatch(r, Loc(r))
    BY <2>2, <2>4 DEF Serves, Handlers!checkRequest, Handlers!NoServer, Loc
  <2>6. Handlers!getCGIvariables(r, Loc(r)) \/ Handlers!getCGIvariablesPost(r, Loc(r))
    BY <2>1, <2>5, HandlerEffects
  <2>7. QED
    BY <2>5, <2>6 DEF RunsScript, Handlers!getCGIvariables, Handlers!getCGIvariablesPost
<1>4. QED
  BY <1>2, <1>3

\* What Heeded says of a peer whose request was read, and that it is not still
\* waiting to be accepted.
Attended(c) ==
    /\ c \notin Waiting
    /\ c \in Open => \/ \E f \in Fds : owner[f] = c /\ requests[f] = c
                     \/ Handlers!Known(Wish(c)) /\ RunsScript(Wish(c))

HeedInv == \A c \in Askers : inbox[c] = <<>> => Attended(c)

\* A peer is attended as long as its connection and its answer are there.
LEMMA StaysAttended ==
    ASSUME OneDescriptor, NEW c \in Clients, Attended(c), wants'[c] = wants[c],
           c \in Waiting' => c \in Waiting,
           \A f \in Fds : owner'[f] = c => owner[f] = c /\ requests'[f] = requests[f]
    PROVE  Attended(c)'
<1>1. c \notin Waiting'
  BY DEF Attended
<1>2. ASSUME NEW f \in Fds, owner'[f] = c
      PROVE  \/ owner'[f] = c /\ requests'[f] = c
             \/ (Handlers!Known(Wish(c)) /\ RunsScript(Wish(c)))'
  <2>1. owner[f] = c /\ requests'[f] = requests[f] /\ c \in Open
    BY <1>2 DEF Open
  <2>2. CASE \E g \in Fds : owner[g] = c /\ requests[g] = c
    BY <1>2, <2>1, <2>2 DEF OneDescriptor
  <2>3. CASE Handlers!Known(Wish(c)) /\ RunsScript(Wish(c))
    <3>1. PICK r : r = Wish(c)
      OBVIOUS
    <3>2. Wish(c)' = r
      BY <3>1 DEF Wish
    <3>3. Handlers!Known(r)' /\ RunsScript(r)'
      BY <2>3, <3>1, CostsAreFixed
    <3>4. Handlers!Known(Wish(c))' /\ RunsScript(Wish(c))'
      BY <3>2, <3>3 DEF RunsScript, Handlers!Known
    <3>5. QED
      BY <3>4
  <2>4. QED
    BY <2>1, <2>2, <2>3 DEF Attended
<1>3. QED
  BY <1>1, <1>2 DEF Attended, Open

\* The same of all peers, after a step that reads nothing.
LEMMA StaysHeeded ==
    ASSUME HeedInv, OneDescriptor, UNCHANGED <<wants, inbox>>,
           \A c \in Askers : inbox[c] = <<>> =>
               /\ c \in Waiting' => c \in Waiting
               /\ \A f \in Fds : owner'[f] = c => owner[f] = c /\ requests'[f] = requests[f]
    PROVE  HeedInv'
<1>1. Askers' = Askers /\ Askers \subseteq Clients
  BY DEF Askers
<1>2. QED
  BY <1>1, StaysAttended DEF HeedInv

LEMMA HeedNext == WebInv /\ HeedInv /\ [WebNext]_webVars => HeedInv'
<1> SUFFICES ASSUME WebInv, HeedInv, [WebNext]_webVars PROVE HeedInv'
  OBVIOUS
<1>0. /\ TypeOK /\ OneRequest /\ OneDescriptor /\ Arrivals
      /\ wants \in [Clients -> Requests \cup {"none"}]
  BY DEF WebInv, ReadyInv, SInv, IInv, Consistent, AccountInv
<1>1. ASSUME ProcessEnds("dead") \/ ProcessEnds("exited") PROVE HeedInv'
  BY <1>1, ConstantsAssumption DEF ProcessEnds, HeedInv, Attended, Open, Waiting, Askers
<1>2. ASSUME NEW c \in Clients, inbox[c] # <<>>, HandleRequest(c) PROVE HeedInv'
  <2>. DEFINE q == inbox[c][1]
  <2>1. sends[c] # 0 /\ wants[c] \in Requests /\ inbox[c] = <<wants[c]>> /\ q = wants[c]
    BY <1>0, <1>2 DEF OneRequest
  <2>2. PICK o \in Outcomes[q] : Handles(c, 1, o) /\ Serves(RequestOf[q], o)
    BY <1>2 DEF HandleRequest
  <2>3. CASE o.act = "stop"
    BY <1>1, <2>2, <2>3 DEF Handles
  <2>4. CASE o.act # "stop"
    <3>1. /\ Running /\ Sd # 0 /\ owner[Sd] = c /\ backlog' = backlog /\ wants' = wants
          /\ owner' = KeptOpen(o) /\ requests' = [requests EXCEPT ![Sd] = Store(o, c)]
      BY <1>2, <2>2, <2>4 DEF HandleRequest, Handles, Running
    <3>2. Sd \in Fds /\ c \notin Waiting /\ Askers' = Askers /\ Waiting' = Waiting
      BY <1>0, <3>1 DEF TypeOK, Sd, Arrivals, Waiting, Askers
    <3>3. \A f \in Fds : \A d \in Clients : owner'[f] = d <=> owner[f] = d
      BY <1>0, <3>1, KeptIsLeaked, ConstantsAssumption DEF TypeOK
    <3>4. ASSUME NEW d \in Askers \ {c}, inbox'[d] = <<>> PROVE Attended(d)'
      <4>1. d \in Clients /\ inbox[d] = <<>>
        BY <1>0, <2>2, <3>4 DEF Handles, TypeOK, Askers
      <4>2. \A f \in Fds : owner'[f] = d => owner[f] = d /\ requests'[f] = requests[f]
        BY <1>0, <3>1, <3>3, <3>4, <4>1 DEF TypeOK
      <4>3. QED
        BY <1>0, <3>1, <3>2, <3>4, <4>1, <4>2, StaysAttended DEF HeedInv
    <3>5. Attended(c)'
      <4>1. CASE Store(o, c) = c
        BY <1>0, <3>1, <3>2, <3>3, <4>1 DEF Attended, TypeOK
      <4>2. CASE Store(o, c) # c
        <5>1. PICK r : r = RequestOf[q]
          OBVIOUS
        <5>2. Handlers!Known(r) /\ RunsScript(r)
          BY <2>2, <2>4, <3>1, <4>2, <5>1, SilenceIsOfScript, ConstantsAssumption DEF Store
        <5>3. Handlers!Known(r)' /\ RunsScript(r)' /\ Wish(c)' = r
          BY <2>1, <3>1, <5>1, <5>2, CostsAreFixed DEF Wish
        <5>4. Handlers!Known(Wish(c))' /\ RunsScript(Wish(c))'
          BY <5>3 DEF RunsScript, Handlers!Known
        <5>5. QED
          BY <3>2, <5>4 DEF Attended
      <4>3. QED
        BY <4>1, <4>2
    <3>6. QED
      BY <3>2, <3>4, <3>5 DEF HeedInv
  <2>5. QED
    BY <2>3, <2>4
<1>3. ASSUME NEW c \in Clients, inbox[c] = <<>>, HandleSilence(c) PROVE HeedInv'
  BY <1>1, <1>3 DEF HandleSilence, Handles
<1>4. ASSUME NEW c \in Clients, SendReply(c) PROVE HeedInv'
  BY <1>0, <1>4, StaysHeeded DEF SendReply, SendPiece, kernelVars, Waiting
<1>5. ASSUME NEW c \in Clients, NEW q \in Requests, Ask(c, q) PROVE HeedInv'
  <2>1. /\ inbox' = [inbox EXCEPT ![c] = Append(@, q)] /\ wants' = [wants EXCEPT ![c] = q]
        /\ UNCHANGED <<owner, backlog, requests>>
    BY <1>5 DEF Ask, Send, kernelVars, loopVars
  <2>2. inbox[c] \in Seq(Segments) /\ inbox'[c] = Append(inbox[c], q)
    BY <1>0, <2>1 DEF TypeOK
  <2>3. inbox'[c] # <<>>
    BY <2>2, AppendProperties DEF Segments
  <2>4. ASSUME NEW d \in Askers', inbox'[d] = <<>> PROVE Attended(d)'
    <3>1. d \in Clients /\ d # c
      BY <2>3, <2>4 DEF Askers
    <3>2. d \in Askers /\ inbox[d] = <<>> /\ wants'[d] = wants[d]
      BY <1>0, <2>1, <2>4, <3>1 DEF Askers, TypeOK
    <3>3. Waiting' = Waiting /\ Attended(d)
      BY <2>1, <3>2 DEF Waiting, HeedInv
    <3>4. QED
      BY <1>0, <2>1, <3>1, <3>2, <3>3, StaysAttended
  <2>5. QED
    BY <2>4 DEF HeedInv
<1>6. CASE OtherStep
  <2>1. UNCHANGED <<wants, inbox>>
    BY <1>6 DEF OtherStep, seenVars, LoopStepOnly, TopOfLoop, SelectReturns,
                SelectFails, SkipListener, AcceptFails, Accept, SkipRead, SkipWrite,
                FinishResponse, SendFails, SendKills, ShutdownFree, Shutdown503,
                ShutdownKills, Exit, Connect, Close, Reset, Drain, peerVars
  <2>2. CASE AcceptFails \/ Exit \/ \E c \in Clients : SendKills(c) \/ ShutdownKills(c)
    BY <1>1, <2>2 DEF AcceptFails, Exit, SendKills, ShutdownKills
  <2>3. ASSUME NEW c \in Clients, Accept(c) PROVE HeedInv'
    <3>1. /\ c \in Waiting /\ li \in Listeners /\ requests' = requests
          /\ owner' = [owner EXCEPT ![Lowest(FreeFds)] = c]
          /\ backlog' = [backlog EXCEPT ![li] = @ \ {c}]
      BY <1>0, <2>3 DEF Accept, Waiting, TypeOK
    <3>2. Waiting' \subseteq Waiting
      BY <1>0, <3>1 DEF Waiting, TypeOK
    <3>3. \A d \in Clients : \A f \in Fds : owner'[f] = d /\ d # c => owner[f] = d
      BY <1>0, <3>1 DEF TypeOK
    <3>4. \A d \in Askers : inbox[d] = <<>> => d # c
      BY <3>1 DEF HeedInv, Attended
    <3>5. QED
      BY <1>0, <2>1, <3>1, <3>2, <3>3, <3>4, StaysHeeded DEF Askers
  <2>4. CASE FinishResponse \/ \E c \in Clients : Shutdown503(c)
    <3>1. /\ Sd \in Fds /\ owner' = [owner EXCEPT ![Sd] = "free"] /\ backlog' = backlog
          /\ requests' = requests \/ requests' = [requests EXCEPT ![Sd] = "none"]
      BY <1>0, <2>4 DEF FinishResponse, Erased, Shutdown503, TypeOK, Sd
    <3>2. ASSUME NEW d \in Clients, NEW f \in Fds, owner'[f] = d
          PROVE  owner[f] = d /\ requests'[f] = requests[f]
      BY <1>0, <3>1, <3>2, ConstantsAssumption DEF TypeOK
    <3>3. Waiting' = Waiting
      BY <3>1 DEF Waiting
    <3>4. QED
      BY <1>0, <2>1, <3>2, <3>3, StaysHeeded DEF Askers
  <2>5. CASE \/ TopOfLoop \/ SelectReturns \/ SelectFails \/ SkipListener \/ SkipRead
             \/ SkipWrite \/ ShutdownFree
             \/ \E c \in Clients : SendFails(c) \/ Close(c) \/ Reset(c) \/ Drain(c)
    <3>1. UNCHANGED <<owner, backlog, requests>>
      BY <2>5 DEF TopOfLoop, SelectReturns, SelectFails, SkipListener, SkipRead, SkipWrite,
                  ShutdownFree, SendFails, Close, Reset, Drain, kernelVars, loopVars
    <3>2. Waiting' = Waiting
      BY <3>1 DEF Waiting
    <3>3. QED
      BY <1>0, <2>1, <3>1, <3>2, StaysHeeded
  <2>6. ASSUME NEW c \in Clients, NEW k \in Listeners, Connect(c, k) PROVE HeedInv'
    <3>1. /\ peer[c] = "none" /\ UNCHANGED <<owner, requests>>
          /\ backlog' = [backlog EXCEPT ![k] = @ \cup {c}]
      BY <2>6 DEF Connect, loopVars
    <3>2. c \notin Askers
      BY <1>0, <3>1 DEF OneRequest, Askers
    <3>3. Waiting' \subseteq Waiting \cup {c}
      BY <1>0, <3>1 DEF Waiting, TypeOK
    <3>4. QED
      BY <1>0, <2>1, <3>1, <3>2, <3>3, StaysHeeded
  <2>7. QED
    BY <1>6, <2>2, <2>3, <2>4, <2>5, <2>6 DEF OtherStep, LoopStepOnly
<1>7. CASE Interrupt \/ UNCHANGED webVars
  <2>1. UNCHANGED <<wants, inbox, owner, backlog, requests>>
    BY <1>7 DEF Interrupt, Sigint, seenVars, kernelVars, peerVars, webVars, vars, loopVars
  <2>2. Waiting' = Waiting
    BY <2>1 DEF Waiting
  <2>3. QED
    BY <1>0, <2>1, <2>2, StaysHeeded
<1>8. QED
  BY <1>2, <1>3, <1>4, <1>5, <1>6, <1>7 DEF WebNext, Serving

\* For any configuration, disk, peers and descriptors: a connection whose
\* request was read has its answer waiting, however few descriptors there were
\* for the handler, unless the request was for a script.
THEOREM HeededHolds == WebSpec => []Heeded
<1>1. WebInit => HeedInv
  BY DEF WebInit, HeedInv, Askers
<1>2. HeedInv => Heeded
  BY DEF HeedInv, Heeded, Attended
<1>3. QED
  BY <1>1, <1>2, HeedNext, WebInvAlways, PTL DEF WebSpec

-----------------------------------------------------------------------------
(* The types of the whole server.                                        *)

\* What is proved of Site, of the handlers as this server has them: what Site
\* assumes is part of WebAssumption.
Safe == INSTANCE SiteSafetyProofs WITH up <- Running, Requests <- Asked, Confs <- {conf}

\* Both instances are of one text.
LEMMA SameSite ==
    ASSUME NEW r, NEW l
    PROVE  /\ Handlers!Known(r) <=> Safe!Known(r)
           /\ Loc(r) = Safe!Loc(r)
           /\ Handlers!Dispatch(r, l) <=> Safe!Dispatch(r, l)
<1>1. Handlers!Known(r) <=> Safe!Known(r)
  BY DEF Handlers!Known, Safe!Known
<1>2. Loc(r) = Safe!Loc(r)
  BY DEF Loc, Handlers!Loc, Safe!Loc, Handlers!getLocation, Safe!getLocation,
     Handlers!Matching, Safe!Matching, Handlers!IsPrefix, Safe!IsPrefix,
     Handlers!NoLocation, Safe!NoLocation, Handlers!ServerOf, Safe!ServerOf
<1>3. Handlers!Dispatch(r, l) <=> Safe!Dispatch(r, l)
  BY DEF
     Handlers!Dispatch, Safe!Dispatch, Handlers!handleDelete, Safe!handleDelete,
     Handlers!NoPlace, Safe!NoPlace, Handlers!TooLarge, Safe!TooLarge,
     Handlers!NotAllowed, Safe!NotAllowed, Handlers!autoIndex, Safe!autoIndex,
     Handlers!Redirect, Safe!Redirect, Handlers!handleRoot, Safe!handleRoot,
     Handlers!handleFavicon, Safe!handleFavicon, Handlers!showUpload,
     Safe!showUpload, Handlers!getCGIvariables, Safe!getCGIvariables,
     Handlers!ServeFile, Safe!ServeFile, Handlers!Upload, Safe!Upload,
     Handlers!UploadFails, Safe!UploadFails, Handlers!UploadRecurses, Safe!UploadRecurses,
     Handlers!handle_cgi_request, Safe!handle_cgi_request, Handlers!getCGIvariablesPost,
     Safe!getCGIvariablesPost, Handlers!OtherPost, Safe!OtherPost,
     Handlers!DeleteFile, Safe!DeleteFile, Handlers!DeleteNothing,
     Safe!DeleteNothing, Handlers!DeleteRefused, Safe!DeleteRefused,
     Handlers!DeleteDir, Safe!DeleteDir, Handlers!handleFormulario,
     Safe!handleFormulario, Handlers!FileFor, Safe!FileFor, Handlers!IndexOf,
     Safe!IndexOf, Handlers!CanStore, Safe!CanStore, Handlers!Target, Safe!Target,
     Handlers!Responds, Safe!Responds, Handlers!Only, Safe!Only, Handlers!Dies,
     Safe!Dies, Handlers!Gets, Safe!Gets, Handlers!Posts, Safe!Posts,
     Handlers!Deletes, Safe!Deletes, Handlers!GetsPage, Safe!GetsPage,
     Handlers!IsRoot, Safe!IsRoot, Handlers!IsPlain, Safe!IsPlain, Handlers!Located,
     Safe!Located, Handlers!FitsBody, Safe!FitsBody, Handlers!Admitted,
     Safe!Admitted, Handlers!HasQuery, Safe!HasQuery, Handlers!IsScript,
     Safe!IsScript, Handlers!ServerOf, Safe!ServerOf, Handlers!Exists, Safe!Exists,
     Handlers!IsDir, Safe!IsDir, Handlers!Entries, Safe!Entries, Handlers!NamesIn,
     Safe!NamesIn, Handlers!Readable, Safe!Readable, Handlers!Content, Safe!Content,
     Handlers!Reads, Safe!Reads, Handlers!Under, Safe!Under, Handlers!Trimmed,
     Safe!Trimmed, Handlers!Answer, Safe!Answer, Handlers!Page, Safe!Page,
     Handlers!Listing, Safe!Listing, Handlers!Slash, Safe!Slash, Handlers!Favicon,
     Safe!Favicon, Handlers!UploadUrl, Safe!UploadUrl, Handlers!NoLocation,
     Safe!NoLocation, Handlers!disk, Safe!disk, Handlers!Last, Safe!Last,
     Handlers!Front, Safe!Front
<1>4. QED
  BY <1>1, <1>2, <1>3

\* What SiteSafetyProofs takes for granted holds here.
LEMMA SafeAssumption == Safe!SiteAssumption
  BY WebAssumption
  DEF Safe!SiteAssumption, Handlers!PathsFit, Safe!PathsFit, Handlers!Slash, Safe!Slash,
      Handlers!Trimmed, Safe!Trimmed, Handlers!Under, Safe!Under, Handlers!Last,
      Safe!Last, Handlers!Front, Safe!Front, Handlers!IsPrefix, Safe!IsPrefix,
      Handlers!UploadUrl, Safe!UploadUrl

LEMMA SameTypes ==
    (Handlers!TypeOK <=> Safe!TypeOK) /\ (Handlers!TypeOK' <=> Safe!TypeOK')
  BY DEF Handlers!TypeOK, Safe!TypeOK, Handlers!NoRequest, Safe!NoRequest,
         Handlers!Statuses, Safe!Statuses

\* A request, whatever it is and whatever descriptors there are, leaves the
\* disk of its type.
LEMMA ServesTyped ==
    ASSUME Handlers!TypeOK, NEW r \in Asked, NEW o, Serves(r, o)
    PROVE  Handlers!TypeOK'
<1>1. ASSUME Handlers!Dies(r) PROVE Handlers!TypeOK'
  BY <1>1 DEF Handlers!Dies, Handlers!TypeOK, Handlers!disk, Handlers!Answer,
              Handlers!Statuses, Running
<1>2. ASSUME Handlers!Only(r, StarvedAnswer(r)) PROVE Handlers!TypeOK'
  <2>1. PICK a : a = StarvedAnswer(r)
    OBVIOUS
  <2>2. a \in {Handlers!Listing({}), Handlers!Page(NoFile), Handlers!Answer("404")}
    BY <2>1, Zenon DEF StarvedAnswer
  <2>3. a.status \in Handlers!Statuses /\ a.file = NoFile
    BY <2>2 DEF Handlers!Listing, Handlers!Page, Handlers!Answer, Handlers!Statuses
  <2>4. QED
    BY <1>2, <2>1, <2>3
    DEF Handlers!Only, Handlers!Responds, Handlers!disk, Handlers!TypeOK, Handlers!Statuses,
        Running
<1>3. CASE Starves(r)
  BY <1>1, <1>2, <1>3 DEF Serves, StarvedRequest
<1>4. CASE ~Starves(r) /\ Handlers!NoServer(r)
  BY <1>1, <1>4 DEF Handlers!NoServer
<1>5. CASE ~Starves(r) /\ ~Handlers!NoServer(r)
  <2>1. Handlers!Known(r) /\ Handlers!Dispatch(r, Loc(r))
    BY <1>5 DEF Serves, Handlers!checkRequest, Loc
  <2>2. Safe!Known(r) /\ Safe!Dispatch(r, Safe!Loc(r)) /\ Safe!TypeOK
    BY <2>1, SameSite, SameTypes
  <2>3. Safe!TypeOK'
    BY <2>2, SafeAssumption, Safe!HandlerTypes
  <2>4. QED
    BY <2>3, SameTypes
<1>6. QED
  BY <1>3, <1>4, <1>5

\* Between two requests nothing is left of the last one.
LEMMA PassTyped ==
    ASSUME Handlers!TypeOK, PassEnds, UNCHANGED diskVars
    PROVE  Handlers!TypeOK'
  BY DEF PassEnds, diskVars, Handlers!TypeOK, NoAnswer, NoRequest, Handlers!Answer,
         Handlers!NoRequest, Handlers!Statuses, Running

\* An answer is kept only of a request that is pending.
Replies ==
    /\ \A f \in Fds : reply[f] # NoAnswer => requests[f] # "none"
    /\ before \in [Clients -> SUBSET Clients] /\ starved \subseteq Clients

TypedInv == Handlers!TypeOK /\ Replies

LEMMA TypedInit == WebInit => TypedInv
<1> SUFFICES ASSUME WebInit PROVE TypedInv
  OBVIOUS
<1>1. Safe!Init
  BY DEF WebInit, Handlers!Init, Safe!Init, Handlers!NoRequest, Safe!NoRequest,
         Handlers!Answer, Safe!Answer
<1>2. Handlers!TypeOK
  BY <1>1, SafeAssumption, Safe!SiteInit, SameTypes DEF Safe!SiteInv
<1>3. Replies
  BY DEF WebInit, Replies
<1>4. QED
  BY <1>2, <1>3 DEF TypedInv

LEMMA TypedNext == WebInv /\ TypedInv /\ [WebNext]_webVars => TypedInv'
<1> SUFFICES ASSUME WebInv, TypedInv, [WebNext]_webVars PROVE TypedInv'
  OBVIOUS
<1>0. Handlers!TypeOK /\ Replies /\ TypeOK /\ OneRequest
  BY DEF TypedInv, WebInv, ReadyInv, SInv, IInv, AccountInv
<1>1. ASSUME NEW answers, reply' = Stored(answers),
             before' = before, starved' \subseteq Clients
      PROVE  Replies'
  BY <1>0, <1>1 DEF Replies, Stored, NoAnswer, Handlers!Answer
<1>2. ASSUME UNCHANGED <<reply, requests, starved>>, before' \in [Clients -> SUBSET Clients]
      PROVE  Replies'
  BY <1>0, <1>2 DEF Replies, NoAnswer, Handlers!Answer
<1>3. ASSUME NEW c \in Clients, inbox[c] # <<>>, HandleRequest(c) PROVE TypedInv'
  <2>. DEFINE q == inbox[c][1]
  <2>1. PICK o \in Outcomes[q] : Serves(RequestOf[q], o)
    BY <1>3 DEF HandleRequest
  <2>2. RequestOf[q] \in Asked
    BY <1>0, <1>3 DEF OneRequest, Asked
  <2>3. Handlers!TypeOK'
    BY <1>0, <2>1, <2>2, ServesTyped
  <2>4. before' = before /\ starved' \in {starved, starved \cup {c}}
        /\ \E answers : reply' = Stored(answers)
    BY <1>3 DEF HandleRequest
  <2>5. starved' \subseteq Clients
    BY <1>0, <2>4 DEF Replies
  <2>6. QED
    BY <1>1, <2>3, <2>4, <2>5 DEF TypedInv
<1>4. ASSUME NEW c \in Clients, HandleSilence(c) PROVE TypedInv'
  BY <1>0, <1>1, <1>4, PassTyped DEF HandleSilence, seenVars, Replies, TypedInv
<1>5. ASSUME NEW c \in Clients, SendReply(c) PROVE TypedInv'
  BY <1>0, <1>2, <1>5, PassTyped DEF SendReply, SendPiece, Replies, TypedInv
<1>6. ASSUME NEW c \in Clients, NEW q \in Requests, Ask(c, q) PROVE TypedInv'
  <2>1. before' = [before EXCEPT ![c] = Answered]
        /\ UNCHANGED <<reply, requests, starved, diskVars>> /\ PassEnds
    BY <1>6 DEF Ask, Send, loopVars
  <2>2. before' \in [Clients -> SUBSET Clients]
    BY <1>0, <2>1 DEF Replies, Answered
  <2>3. QED
    BY <1>0, <1>2, <2>1, <2>2, PassTyped DEF TypedInv
<1>7. CASE OtherStep
  BY <1>0, <1>1, <1>7, PassTyped DEF OtherStep, seenVars, Replies, TypedInv
<1>8. CASE Interrupt
  BY <1>0, <1>2, <1>8, PassTyped DEF Interrupt, Sigint, seenVars, Replies, TypedInv
<1>9. CASE UNCHANGED webVars
  <2>1. Replies'
    BY <1>0, <1>2, <1>9 DEF webVars, vars, loopVars, seenVars, Replies
  <2>2. Handlers!TypeOK'
    BY <1>0, <1>9 DEF webVars, vars, loopVars, passVars, diskVars, Handlers!TypeOK,
                      Handlers!NoRequest, Handlers!Statuses, Running
  <2>3. QED
    BY <2>1, <2>2 DEF TypedInv
<1>10. QED
  BY <1>3, <1>4, <1>5, <1>6, <1>7, <1>8, <1>9 DEF WebNext, Serving

\* The types hold of the loop, of the disk and of the answers together, for
\* every configuration: no path becomes a file and a directory, and _requests
\* has an answer only where one is pending.
THEOREM WebTypeCorrect == WebSpec => []WebTypeOK
<1>1. WebInv /\ TypedInv => WebTypeOK
  BY DEF WebInv, ReadyInv, SInv, IInv, AccountInv, TypedInv, Replies, WebTypeOK
<1>2. QED
  BY <1>1, TypedInit, TypedNext, WebInvAlways, PTL DEF WebSpec

-----------------------------------------------------------------------------
(* What a reader finds.                                                    *)

\* A path that is never one of a directory.
IsPlainFile(url) == url \in Paths /\ Handlers!Trimmed(url) \notin Dirs

\* What a GET shows of a file with these contents.
Shown(x) == IF x = NoFile THEN Handlers!Answer("404") ELSE Handlers!Page(x)

LEMMA PlainIsNoDir ==
    ASSUME NEW url, IsPlainFile(url), dirs \subseteq Dirs
    PROVE  ~Handlers!IsDir(url) /\ (Handlers!Exists(url) <=> files[url] # NoFile)
  BY DEF IsPlainFile, Handlers!IsDir, Handlers!Exists

\* A request with a descriptor to open its file with that survives is one of
\* the branches of checkRequest.
LEMMA ServedByBranch ==
    ASSUME NEW r, NEW o, Serves(r, o), ~Starves(r), Handlers!Known(r)
    PROVE  Handlers!Dispatch(r, Loc(r))
  BY DEF Serves, Handlers!checkRequest, Handlers!NoServer, Loc

\* A GET of a file shows the file, unless there is no descriptor for it.
LEMMA ReadShows ==
    ASSUME NEW r, NEW o, Serves(r, o), ~Starves(r), ReadsFile(r), dirs \subseteq Dirs
    PROVE  response' = Shown(files[r.url])
<1> DEFINE l == Loc(r)
<1>1. /\ Handlers!Known(r) /\ Handlers!Gets(r, l)
      /\ l.autoindex \/ (Handlers!IsPlain(r) /\ ~Handlers!IsScript(r, l))
      /\ Handlers!FileFor(r, l) = r.url /\ IsPlainFile(r.url)
  BY DEF ReadsFile, IsPlainFile
<1>2. Handlers!Dispatch(r, l)
  BY <1>1, ServedByBranch
<1>3. ~Handlers!IsDir(r.url)
  BY <1>1, PlainIsNoDir
<1> HIDE DEF l
<1>4. Handlers!handleFormulario(r, l)
  <2>1. Handlers!Admitted(r, l) /\ r.method = "GET"
    BY <1>1 DEF Handlers!Gets
  <2>2. ~Handlers!NoPlace(r, l) /\ ~Handlers!TooLarge(r, l) /\ ~Handlers!NotAllowed(r, l)
    BY <1>1, <2>1 DEF Handlers!NoPlace, Handlers!TooLarge, Handlers!NotAllowed,
                      Handlers!Admitted
  <2>3. /\ ~Handlers!Upload(r, l) /\ ~Handlers!UploadFails(r, l)
        /\ ~Handlers!UploadRecurses(r, l)
        /\ ~Handlers!getCGIvariablesPost(r, l) /\ ~Handlers!OtherPost(r, l)
        /\ ~Handlers!handleDelete(r, l)
    BY <2>1 DEF Handlers!Upload, Handlers!UploadFails, Handlers!UploadRecurses,
                Handlers!getCGIvariablesPost, Handlers!OtherPost, Handlers!handleDelete, Handlers!DeleteFile,
                Handlers!DeleteNothing, Handlers!DeleteRefused, Handlers!DeleteDir,
                Handlers!Posts, Handlers!Deletes
  <2>4. CASE l.autoindex
    <3>1. ~Handlers!GetsPage(r, l)
      BY <2>4 DEF Handlers!GetsPage
    <3>2. Handlers!autoIndex(r, l)
      BY <1>2, <2>2, <2>3, <3>1
      DEF Handlers!Dispatch, Handlers!Redirect, Handlers!handleRoot, Handlers!handleFavicon,
          Handlers!showUpload, Handlers!getCGIvariables, Handlers!ServeFile
    <3>3. QED
      BY <1>3, <3>2 DEF Handlers!autoIndex
  <2>5. CASE ~l.autoindex
    <3>1. Handlers!IsPlain(r) /\ ~Handlers!IsScript(r, l)
      BY <1>1, <2>5
    <3>2. ~Handlers!autoIndex(r, l)
      BY <2>5 DEF Handlers!autoIndex
    <3>3. /\ ~Handlers!Redirect(r, l) /\ ~Handlers!handleRoot(r, l)
          /\ ~Handlers!handleFavicon(r, l) /\ ~Handlers!showUpload(r, l)
          /\ ~Handlers!getCGIvariables(r, l)
      BY <3>1 DEF Handlers!Redirect, Handlers!handleRoot, Handlers!handleFavicon,
                  Handlers!showUpload, Handlers!getCGIvariables, Handlers!IsPlain,
                  Handlers!IsRoot
    <3>4. Handlers!ServeFile(r, l)
      BY <1>2, <2>2, <2>3, <3>2, <3>3 DEF Handlers!Dispatch
    <3>5. QED
      BY <3>4 DEF Handlers!ServeFile
  <2>6. QED
    BY <2>4, <2>5
<1>5. response' = Handlers!Reads(r.url)
  BY <1>1, <1>4 DEF Handlers!handleFormulario, Handlers!Only, Handlers!Responds
<1>6. Handlers!Reads(r.url) = Shown(files[r.url])
  BY <1>1, <1>3, PlainIsNoDir DEF Handlers!Reads, Handlers!Readable, Handlers!Content, Shown
<1>7. QED
  BY <1>5, <1>6

\* A write that leaves the process running has been done.
LEMMA WriteWrites ==
    ASSUME NEW r, NEW o, Serves(r, o), Running', NEW url, Writes(r, url),
           IsPlainFile(url), dirs \subseteq Dirs, Handlers!TypeOK
    PROVE  files'[url] = LeftBy(r)
<1> DEFINE l == Loc(r)
<1>1. /\ Handlers!Known(r)
      /\ \/ Stores(r) /\ Handlers!Target(r, l) = url
         \/ Handlers!Deletes(r, l) /\ r.url = url
  BY DEF Writes
<1>2. ~Starves(r)
  <2>1. ~UsesFile(r) \/ Uploads(r)
    BY <1>1 DEF UsesFile, Stores, Uploads, Handlers!Deletes, Handlers!Gets
  <2>2. ~ListsDir(r)
    BY <1>1 DEF ListsDir, Lists, Stores, Uploads, Handlers!Deletes, Handlers!Gets, Handlers!Posts
  <2>3. ASSUME Starves(r), Uploads(r) PROVE FALSE
    BY <2>3 DEF Serves, StarvedRequest, Handlers!Dies
  <2>4. QED
    BY <2>1, <2>2, <2>3 DEF Starves
<1>3. Handlers!Dispatch(r, l)
  BY <1>1, <1>2, ServedByBranch
<1>4. files \in [Paths -> Contents \cup {NoFile}] /\ url \in Paths
  BY DEF Handlers!TypeOK, IsPlainFile
<1>5. ~Handlers!IsDir(url) /\ (Handlers!Exists(url) <=> files[url] # NoFile)
  BY PlainIsNoDir
<1>6. Stores(r) <=> (Handlers!Posts(r, l) /\ r.url = Handlers!UploadUrl /\ r.form)
  BY DEF Stores, Uploads
<1> HIDE DEF l
<1>7. CASE Stores(r)
  <2>1. Handlers!Admitted(r, l) /\ r.method = "POST" /\ r.url = Handlers!UploadUrl
        /\ Handlers!Posts(r, l) /\ r.form
    BY <1>6, <1>7 DEF Handlers!Posts
  <2>2. ~Handlers!NoPlace(r, l) /\ ~Handlers!TooLarge(r, l) /\ ~Handlers!NotAllowed(r, l)
    BY <2>1 DEF Handlers!NoPlace, Handlers!TooLarge, Handlers!NotAllowed, Handlers!Admitted
  <2>3. ~Handlers!Gets(r, l) /\ ~Handlers!GetsPage(r, l) /\ ~Handlers!Deletes(r, l)
    BY <2>1 DEF Handlers!Gets, Handlers!GetsPage, Handlers!Deletes
  <2>4. ~Handlers!UploadFails(r, l) /\ ~Handlers!UploadRecurses(r, l)
    BY DEF Handlers!UploadFails, Handlers!UploadRecurses, Handlers!Dies
  <2>5. Handlers!Upload(r, l)
    BY <1>3, <2>1, <2>2, <2>3, <2>4
    DEF Handlers!Dispatch, Handlers!autoIndex, Handlers!Redirect, Handlers!handleRoot,
        Handlers!handleFavicon, Handlers!showUpload, Handlers!getCGIvariables,
        Handlers!ServeFile, Handlers!getCGIvariablesPost, Handlers!OtherPost,
        Handlers!handleDelete, Handlers!DeleteFile, Handlers!DeleteNothing,
        Handlers!DeleteRefused, Handlers!DeleteDir
  <2>6. Handlers!Target(r, l) = url
    BY <1>1, <2>3
  <2>7. QED
    BY <1>4, <1>7, <2>5, <2>6 DEF Handlers!Upload, LeftBy
<1>8. CASE ~Stores(r)
  <2>1. Handlers!Deletes(r, l) /\ r.url = url
    BY <1>1, <1>8
  <2>2. Handlers!Admitted(r, l) /\ r.method = "DELETE"
    BY <2>1 DEF Handlers!Deletes
  <2>3. ~Handlers!NoPlace(r, l) /\ ~Handlers!TooLarge(r, l) /\ ~Handlers!NotAllowed(r, l)
    BY <2>1, <2>2 DEF Handlers!NoPlace, Handlers!TooLarge, Handlers!NotAllowed,
                      Handlers!Admitted
  <2>4. ~Handlers!Gets(r, l) /\ ~Handlers!GetsPage(r, l) /\ ~Handlers!Posts(r, l)
    BY <2>2 DEF Handlers!Gets, Handlers!GetsPage, Handlers!Posts
  <2>5. Handlers!handleDelete(r, l)
    BY <1>3, <2>3, <2>4
    DEF Handlers!Dispatch, Handlers!autoIndex, Handlers!Redirect, Handlers!handleRoot,
        Handlers!handleFavicon, Handlers!showUpload, Handlers!getCGIvariables,
        Handlers!ServeFile, Handlers!getCGIvariablesPost, Handlers!OtherPost,
        Handlers!Upload, Handlers!UploadFails, Handlers!UploadRecurses
  <2>6. ~Handlers!DeleteRefused(r, l) /\ ~Handlers!DeleteDir(r, l)
    BY <1>5, <2>1 DEF Handlers!DeleteRefused, Handlers!DeleteDir
  <2>7. CASE Handlers!DeleteFile(r, l)
    BY <1>4, <1>8, <2>1, <2>7 DEF Handlers!DeleteFile, LeftBy
  <2>8. CASE Handlers!DeleteNothing(r, l)
    BY <1>5, <1>8, <2>1, <2>8
    DEF Handlers!DeleteNothing, Handlers!Readable, Handlers!Only, Handlers!disk, LeftBy
  <2>9. QED
    BY <2>5, <2>6, <2>7, <2>8 DEF Handlers!handleDelete
<1>9. QED
  BY <1>7, <1>8

\* Nothing else changes a file.
LEMMA OthersKeepFile ==
    ASSUME NEW r, NEW o, Serves(r, o), NEW url \in Paths, ~Writes(r, url), Handlers!TypeOK
    PROVE  files'[url] = files[url]
<1> DEFINE l == Loc(r)
<1>1. files \in [Paths -> Contents \cup {NoFile}]
  BY DEF Handlers!TypeOK
<1>2. CASE Starves(r)
  BY <1>2 DEF Serves, StarvedRequest, Handlers!Dies, Handlers!Only, Handlers!disk
<1>3. CASE ~Starves(r) /\ ~Handlers!Known(r)
  BY <1>3 DEF Serves, Handlers!checkRequest, Handlers!NoServer, Handlers!Dies, Handlers!disk
<1>4. CASE ~Starves(r) /\ Handlers!Known(r)
  <2>1. Handlers!Dispatch(r, l)
    BY <1>4, ServedByBranch
  <2>2. /\ ~(/\ Handlers!Posts(r, l) /\ r.url = Handlers!UploadUrl /\ r.form
             /\ Handlers!Target(r, l) = url)
        /\ ~(Handlers!Deletes(r, l) /\ r.url = url)
    BY <1>4 DEF Writes, Stores, Uploads
  <2> HIDE DEF l
  <2>3. CASE Handlers!Upload(r, l)
    BY <1>1, <2>2, <2>3 DEF Handlers!Upload
  <2>4. CASE Handlers!DeleteFile(r, l)
    BY <1>1, <2>2, <2>4 DEF Handlers!DeleteFile
  <2>5. CASE Handlers!DeleteDir(r, l)
    BY <2>5 DEF Handlers!DeleteDir
  <2>6. CASE Handlers!UploadFails(r, l) \/ Handlers!UploadRecurses(r, l)
    BY <2>6 DEF Handlers!UploadFails, Handlers!UploadRecurses, Handlers!Dies, Handlers!disk
  <2>7. ASSUME NEW a, Handlers!Only(r, a) PROVE files' = files
    BY <2>7 DEF Handlers!Only, Handlers!disk
  <2>8. CASE \/ Handlers!NoPlace(r, l) \/ Handlers!TooLarge(r, l) \/ Handlers!NotAllowed(r, l)
             \/ Handlers!DeleteNothing(r, l) \/ Handlers!DeleteRefused(r, l)
             \/ Handlers!OtherPost(r, l) \/ Handlers!getCGIvariablesPost(r, l)
             \/ Handlers!getCGIvariables(r, l)
    BY <2>7, <2>8
    DEF Handlers!NoPlace, Handlers!TooLarge, Handlers!NotAllowed, Handlers!DeleteNothing,
        Handlers!DeleteRefused, Handlers!OtherPost, Handlers!getCGIvariablesPost,
        Handlers!getCGIvariables, Handlers!handle_cgi_request
  <2>9. CASE \/ Handlers!autoIndex(r, l) \/ Handlers!Redirect(r, l) \/ Handlers!handleRoot(r, l)
             \/ Handlers!handleFavicon(r, l) \/ Handlers!showUpload(r, l)
             \/ Handlers!ServeFile(r, l)
    BY <2>7, <2>9
    DEF Handlers!autoIndex, Handlers!Redirect, Handlers!handleRoot, Handlers!handleFavicon,
        Handlers!showUpload, Handlers!ServeFile, Handlers!handleFormulario
  <2>10. QED
    BY <2>1, <2>3, <2>4, <2>5, <2>6, <2>8, <2>9 DEF Handlers!Dispatch, Handlers!handleDelete
<1>5. QED
  BY <1>2, <1>3, <1>4

-----------------------------------------------------------------------------
(* Who was served, and what they found.                                    *)

\* The peers whose request was handled.
Served == {c \in Askers : inbox[c] = <<>>}

\* Those of them that wrote to url.
WroteTo(url) == WritersOf(url) \cap Served

\* Each file is as one of those left it that may have been the last.
LastWrite ==
    Running =>
        \A url \in Paths : IsPlainFile(url) /\ WroteTo(url) # {} =>
            \E w \in WroteTo(url) : /\ files[url] = LeftBy(Wish(w))
                                    /\ \A d \in WroteTo(url) : w \notin before[d]

\* Nobody is answered before the request was handled.
AnsweredLater ==
    /\ \A c \in Clients : before[c] \subseteq Served
    /\ \A c \in Clients : c \in heard[c] \/ got[c] # {} => c \in Served
    /\ \A f \in Fds : requests[f] # "none" => requests[f] \in Served

\* What ReadsAreFresh says of one answer.
Fresh(b, a) ==
    b \in Askers \ starved /\ ReadsFile(Wish(b)) /\ before[b] \cap WritersOf(Wish(b).url) # {}
        => FreshAt(b, a)

\* The answers that a peer was sent, or that wait to be.
Answers(b) == got[b] \cup {reply[f] : f \in {g \in Fds : requests[g] = b}}
AllFresh   == \A b \in Clients : \A a \in Answers(b) : Fresh(b, a)

Tables == DOMAIN got = Clients /\ DOMAIN reply = Fds

FreshInv == Tables /\ LastWrite /\ AnsweredLater /\ AllFresh

\* What a step leaves as it was: what was asked, when, and who found no
\* descriptor.
Remembers ==
    /\ \A c \in Askers : wants'[c] = wants[c] /\ before'[c] = before[c]
    /\ starved \subseteq starved'

\* What a request does is settled by the configuration.
LEMMA WritesAreFixed ==
    ASSUME NEW CONSTANT r, NEW CONSTANT url
    PROVE  /\ Writes(r, url)' <=> Writes(r, url)
           /\ LeftBy(r)' = LeftBy(r)
  BY DEF Writes, LeftBy, Stores, Uploads, Loc, Handlers!Known, Handlers!Loc, Handlers!ServerOf,
         Handlers!getLocation, Handlers!Matching, Handlers!Posts, Handlers!Deletes,
         Handlers!Admitted, Handlers!Located, Handlers!FitsBody, Handlers!Target

LEMMA ReadsAreFixed ==
    ASSUME NEW CONSTANT r
    PROVE  ReadsFile(r)' <=> ReadsFile(r)
  BY DEF ReadsFile, Loc, Handlers!Known, Handlers!Loc, Handlers!ServerOf,
         Handlers!getLocation, Handlers!Matching, Handlers!Gets, Handlers!IsPlain,
         Handlers!IsRoot, Handlers!IsScript, Handlers!FileFor,
         Handlers!Admitted, Handlers!Located, Handlers!FitsBody

LEMMA AskersKeep ==
    ASSUME NEW CONSTANT c \in Clients, wants'[c] = wants[c], NEW CONSTANT url
    PROVE  /\ c \in Askers' <=> c \in Askers
           /\ Wish(c)' = Wish(c)
           /\ c \in WritersOf(url)' <=> c \in WritersOf(url)
           /\ LeftBy(Wish(c))' = LeftBy(Wish(c))
<1>1. c \in Askers' <=> c \in Askers
  BY DEF Askers
<1>2. PICK r : r = Wish(c)
  OBVIOUS
<1>3. Wish(c)' = r
  BY <1>2 DEF Wish
<1>4. (Writes(Wish(c), url)' <=> Writes(r, url)') /\ LeftBy(Wish(c))' = LeftBy(r)'
  BY <1>3 DEF Writes, LeftBy, Stores, Uploads
<1>5. QED
  BY <1>1, <1>2, <1>3, <1>4, WritesAreFixed DEF WritersOf

\* An answer that was fresh stays so.
LEMMA FreshKeeps ==
    ASSUME AnsweredLater, Remembers, NEW CONSTANT b \in Clients, b \in Askers,
           NEW CONSTANT a, Fresh(b, a)
    PROVE  Fresh(b, a)'
<1> SUFFICES ASSUME b \notin starved', ReadsFile(Wish(b))',
                    before'[b] \cap WritersOf(Wish(b).url)' # {}
             PROVE  FreshAt(b, a)'
  BY DEF Fresh
<1>1. PICK r : r = Wish(b)
  OBVIOUS
<1>2. PICK u : u = Wish(b).url
  OBVIOUS
<1>3. wants'[b] = wants[b] /\ before'[b] = before[b] /\ b \notin starved
  BY DEF Remembers
<1>4. Wish(b)' = r /\ Wish(b).url' = u
  BY <1>1, <1>2, <1>3 DEF Wish
<1>5. ReadsFile(Wish(b))
  <2>1. ReadsFile(r)'
    BY <1>4 DEF ReadsFile
  <2>2. QED
    BY <1>1, <2>1, ReadsAreFixed
<1>6. \A d \in Askers : d \in WritersOf(u)' <=> d \in WritersOf(u)
  BY AskersKeep DEF Remembers, Askers
<1>7. before[b] \subseteq Askers
  BY DEF AnsweredLater, Served
<1>8. before'[b] \cap WritersOf(u)' # {}
  BY <1>4 DEF WritersOf
<1>9. before[b] \cap WritersOf(u) # {}
  BY <1>3, <1>6, <1>7, <1>8
<1>10. FreshAt(b, a)
  BY <1>2, <1>3, <1>5, <1>9 DEF Fresh
<1>11. PICK w \in WritersOf(u) :
          /\ b \notin before[w]
          /\ \A d \in before[b] \cap WritersOf(u) : w \notin before[d]
          /\ a = Shown(LeftBy(Wish(w)))
  BY <1>2, <1>10 DEF FreshAt, Shown
<1>12. PICK x : x = LeftBy(Wish(w))
  OBVIOUS
<1>13. w \in Askers /\ w \in Clients /\ before'[w] = before[w] /\ wants'[w] = wants[w]
  BY <1>11 DEF WritersOf, Askers, Remembers
<1>14. w \in WritersOf(u)' /\ LeftBy(Wish(w))' = x
  BY <1>11, <1>12, <1>13, AskersKeep
<1>15. \A d \in before'[b] \cap WritersOf(u)' : w \notin before'[d]
  BY <1>3, <1>6, <1>7, <1>11 DEF Remembers
<1>16. a = Shown(x)'
  BY <1>11, <1>12 DEF Shown, Handlers!Answer, Handlers!Page
<1>17. \E v \in WritersOf(u)' :
          /\ b \notin before'[v]
          /\ \A d \in before'[b] \cap WritersOf(u)' : v \notin before'[d]
          /\ a = Shown(LeftBy(Wish(v)))'
  <2>1. a = Shown(LeftBy(Wish(w)))'
    BY <1>14, <1>16 DEF Shown
  <2>2. QED
    BY <1>11, <1>13, <1>14, <1>15, <2>1
<1>18. QED
  BY <1>4, <1>17 DEF FreshAt, Shown, WritersOf

\* A step that handles no request.
LEMMA QuietStaysFresh ==
    ASSUME TypeOK, FreshInv, Remembers, Served' = Served, files' = files, Running' => Running,
           Tables',
           \A c \in Clients : before'[c] \subseteq Served,
           \A c \in Clients : c \in heard'[c] \/ got'[c] # {} => c \in Served,
           \A c \in Clients : Answers(c)' \subseteq Answers(c),
           \A f \in Fds : requests'[f] \in {"none", requests[f]}
    PROVE  FreshInv'
<1>1. AnsweredLater /\ LastWrite /\ AllFresh
  BY DEF FreshInv
<1>2. Served \subseteq Askers /\ Served \subseteq Clients
  BY DEF Served, Askers
<1>3. AnsweredLater'
  BY <1>1 DEF AnsweredLater
<1>4. LastWrite'
  <2> SUFFICES ASSUME Running', NEW url \in Paths, IsPlainFile(url)', WroteTo(url)' # {}
               PROVE  \E w \in WroteTo(url)' :
                          /\ files'[url] = LeftBy(Wish(w))'
                          /\ \A d \in WroteTo(url)' : w \notin before'[d]
    BY DEF LastWrite, WroteTo, WritersOf
  <2>1. IsPlainFile(url)
    BY DEF IsPlainFile, Handlers!Trimmed
  <2>2. \A d \in Served : /\ before'[d] = before[d]
                          /\ d \in WritersOf(url)' <=> d \in WritersOf(url)
                          /\ LeftBy(Wish(d))' = LeftBy(Wish(d))
    BY <1>2, AskersKeep DEF Remembers
  <2>3. WroteTo(url)' = WroteTo(url)
    BY <2>2 DEF WroteTo
  <2>4. PICK w \in WroteTo(url) : /\ files[url] = LeftBy(Wish(w))
                                  /\ \A d \in WroteTo(url) : w \notin before[d]
    BY <1>1, <2>1, <2>3 DEF LastWrite
  <2>5. LeftBy(Wish(w))' = LeftBy(Wish(w))
    BY <2>2 DEF WroteTo
  <2>6. \A d \in WroteTo(url)' : w \notin before'[d]
    BY <2>2, <2>3, <2>4 DEF WroteTo
  <2>7. w \in WroteTo(url)' /\ files'[url] = LeftBy(Wish(w))'
    BY <2>3, <2>4, <2>5
  <2>8. QED
    BY <2>6, <2>7
<1>5. AllFresh'
  <2> SUFFICES ASSUME NEW b \in Clients, NEW a \in Answers(b)' PROVE Fresh(b, a)'
    BY DEF AllFresh
  <2>1. a \in Answers(b)
    OBVIOUS
  <2>2. b \in Served
    BY <1>1, <2>1, ConstantsAssumption DEF Answers, AnsweredLater
  <2>3. Fresh(b, a) /\ b \in Askers
    BY <1>1, <1>2, <2>1, <2>2 DEF AllFresh
  <2>4. QED
    BY <1>1, <2>3, FreshKeeps
<1>6. QED
  BY <1>3, <1>4, <1>5 DEF FreshInv

\* A handler's pass.
LEMMA HandlerKeepsFresh ==
    ASSUME WebInv, TypedInv, FreshInv, NEW c \in Clients, inbox[c] # <<>>, HandleRequest(c)
    PROVE  FreshInv'
<1>0. /\ TypeOK /\ OneRequest /\ dirs \subseteq Dirs /\ Handlers!TypeOK
      /\ Tables /\ LastWrite /\ AnsweredLater /\ AllFresh
      /\ before \in [Clients -> SUBSET Clients]
  BY DEF WebInv, AccountInv, ReadyInv, SInv, IInv, TypedInv, Replies, FreshInv
<1> DEFINE q == inbox[c][1]
<1>1. sends[c] # 0 /\ wants[c] \in Requests /\ inbox[c] = <<wants[c]>> /\ q = wants[c]
  BY <1>0 DEF OneRequest
<1>2. PICK r : r = RequestOf[q]
  OBVIOUS
<1>3. r = Wish(c) /\ c \in Askers
  BY <1>1, <1>2, WebAssumption DEF Wish, Askers
<1>4. PICK o : /\ Handles(c, 1, o) /\ Serves(r, o)
               /\ reply' = Stored([reply EXCEPT ![Sd] = response'])
               /\ starved' = IF Starves(r) THEN starved \cup {c} ELSE starved
               /\ UNCHANGED <<got, wants, before>>
  BY <1>2 DEF HandleRequest
<1>5. inbox' = [inbox EXCEPT ![c] = <<>>]
  <2>1. \A w : SubSeq(<<w>>, 1 + 1, Len(<<w>>)) = <<>>
    OBVIOUS
  <2>2. inbox' = [inbox EXCEPT ![c] = SubSeq(inbox[c], 1 + 1, Len(inbox[c]))]
    BY <1>4 DEF Handles
  <2>3. SubSeq(inbox[c], 1 + 1, Len(inbox[c])) = <<>>
    BY <1>1, <2>1, Zenon
  <2>4. QED
    BY <2>2, <2>3, Zenon
<1>6. Running /\ heard' = heard /\ \A f \in Fds : requests'[f] \in {"none", c, requests[f]}
                   /\ (requests'[f] = requests[f] \/ f = Sd \/ requests'[f] = "none")
  BY <1>0, <1>4 DEF Handles, ProcessEnds, Running, Store, TypeOK
<1> HIDE DEF q
<1>7. /\ Remembers
      /\ Served' = Served \cup {c} /\ c \notin Served
      /\ Served \subseteq Askers /\ Served \subseteq Clients
  <2>1. Askers' = Askers
    BY <1>4 DEF Askers
  <2>2. QED
    BY <1>0, <1>3, <1>4, <1>5, <2>1 DEF Remembers, Served, Askers, TypeOK
<1>8. \A d \in Clients : \A u : /\ d \in WritersOf(u)' <=> d \in WritersOf(u)
                                /\ LeftBy(Wish(d))' = LeftBy(Wish(d))
  BY <1>4, AskersKeep
<1>9. Tables'
  BY <1>0, <1>4 DEF Tables, Stored
<1>10. AnsweredLater'
  BY <1>0, <1>4, <1>6, <1>7 DEF AnsweredLater
<1>11. LastWrite'
  <2> SUFFICES ASSUME Running', NEW url \in Paths, IsPlainFile(url)', WroteTo(url)' # {}
               PROVE  \E w \in WroteTo(url)' :
                          /\ files'[url] = LeftBy(Wish(w))'
                          /\ \A d \in WroteTo(url)' : w \notin before'[d]
    BY DEF LastWrite, WroteTo, WritersOf
  <2>1. IsPlainFile(url)
    BY DEF IsPlainFile, Handlers!Trimmed
  <2>2. CASE Writes(r, url)
    <3>1. files'[url] = LeftBy(r)
      BY <1>0, <1>4, <2>1, <2>2, WriteWrites
    <3>2. c \in WritersOf(url)
      BY <1>3, <2>2 DEF WritersOf
    <3>3. c \in WroteTo(url)' /\ LeftBy(Wish(c))' = LeftBy(r)
      BY <1>3, <1>7, <1>8, <3>2 DEF WroteTo
    <3>4. \A d \in WroteTo(url)' : c \notin before'[d]
      BY <1>0, <1>4, <1>7 DEF WroteTo, AnsweredLater
    <3>5. QED
      BY <3>1, <3>3, <3>4
  <2>3. CASE ~Writes(r, url)
    <3>1. files'[url] = files[url]
      BY <1>0, <1>4, <2>3, OthersKeepFile
    <3>2. c \notin WritersOf(url)
      BY <1>3, <2>3 DEF WritersOf
    <3>3. WroteTo(url)' = WroteTo(url)
      BY <1>7, <1>8, <3>2 DEF WroteTo
    <3>4. PICK w \in WroteTo(url) : /\ files[url] = LeftBy(Wish(w))
                                    /\ \A d \in WroteTo(url) : w \notin before[d]
      BY <1>0, <1>6, <2>1, <3>3 DEF LastWrite
    <3>5. LeftBy(Wish(w))' = LeftBy(Wish(w))
      BY <1>7, <1>8 DEF WroteTo
    <3>6. QED
      BY <1>4, <3>1, <3>3, <3>4, <3>5
  <2>4. QED
    BY <2>2, <2>3
<1>12. AllFresh'
  <2> SUFFICES ASSUME NEW b \in Clients, NEW a \in Answers(b)' PROVE Fresh(b, a)'
    BY DEF AllFresh
  <2>1. CASE a \in Answers(b)
    <3>1. b \in Served
      BY <1>0, <2>1, ConstantsAssumption DEF Answers, AnsweredLater
    <3>2. QED
      BY <1>0, <1>7, <2>1, <3>1, FreshKeeps DEF AllFresh
  <2>2. CASE a \notin Answers(b)
    <3>1. PICK f \in Fds : requests'[f] = b /\ a = reply'[f]
      BY <1>4, <2>2 DEF Answers
    <3>2. b # "none" /\ a = [reply EXCEPT ![Sd] = response'][f]
      BY <1>4, <3>1, ConstantsAssumption DEF Stored
    <3>3. f = Sd /\ a = response'
      BY <1>0, <1>6, <2>2, <3>1, <3>2 DEF Answers, Tables
    <3>4. requests[Sd] = "none" /\ b = c
      BY <1>4, <1>6, <3>1, <3>2, <3>3 DEF Handles
    <3>5. CASE Starves(r)
      BY <1>4, <3>4, <3>5 DEF Fresh
    <3>6. CASE ~Starves(r)
      <4>1. Fresh(c, a)
        <5> SUFFICES ASSUME ReadsFile(r), before[c] \cap WritersOf(r.url) # {}
                     PROVE  FreshAt(c, a)
          BY <1>3 DEF Fresh
        <5> DEFINE u == r.url
        <5>1. a = Shown(files[u])
          BY <1>0, <1>4, <3>3, <3>6, ReadShows
        <5>2. IsPlainFile(u) /\ u \in Paths
          BY DEF ReadsFile, IsPlainFile
        <5>3. before[c] \cap WritersOf(u) \subseteq WroteTo(u)
          BY <1>0 DEF AnsweredLater, WroteTo
        <5>4. PICK w \in WroteTo(u) : /\ files[u] = LeftBy(Wish(w))
                                      /\ \A d \in WroteTo(u) : w \notin before[d]
          BY <1>0, <1>6, <5>2, <5>3 DEF LastWrite
        <5>5. w \in WritersOf(u) /\ w \in Clients /\ c \notin before[w]
          BY <1>0, <1>7, <5>4 DEF WroteTo, AnsweredLater
        <5>6. QED
          BY <1>3, <5>1, <5>3, <5>4, <5>5 DEF FreshAt, Shown
      <4>2. QED
        BY <1>0, <1>3, <1>7, <3>4, <4>1, FreshKeeps
    <3>7. QED
      BY <3>5, <3>6
  <2>3. QED
    BY <2>1, <2>2
<1>13. QED
  BY <1>9, <1>10, <1>11, <1>12 DEF FreshInv

\* No other step tells a peer anything that was not waiting for it.
LEMMA OthersKeepFresh ==
    ASSUME WebInv, TypedInv, FreshInv,
           \/ \E c \in Clients : \/ inbox[c] = <<>> /\ HandleSilence(c)
                                 \/ SendReply(c)
                                 \/ \E q \in Requests : Ask(c, q)
           \/ OtherStep \/ Interrupt \/ UNCHANGED webVars
    PROVE  FreshInv'
<1>0. /\ TypeOK /\ OneRequest /\ SlotTable /\ PendingIsOwned /\ ReadyBits
      /\ Tables /\ AnsweredLater /\ before \in [Clients -> SUBSET Clients]
      /\ wants \in [Clients -> Requests \cup {"none"}]
  BY DEF WebInv, AccountInv, ReadyInv, SInv, IInv, Consistent, TypedInv, Replies, FreshInv
<1>1. ASSUME got' = got, reply' = Stored(reply) \/ reply' = reply,
             \A f \in Fds : requests'[f] \in {"none", requests[f]}
      PROVE  Tables' /\ \A c \in Clients : Answers(c)' \subseteq Answers(c)
  <2>1. Tables'
    BY <1>0, <1>1 DEF Tables, Stored
  <2>2. ASSUME NEW c \in Clients, NEW f \in Fds, requests'[f] = c
        PROVE  requests[f] = c /\ reply'[f] = reply[f]
    BY <1>1, <2>2, ConstantsAssumption DEF Stored
  <2>3. QED
    BY <1>1, <2>1, <2>2 DEF Answers
<1>2. ASSUME UNCHANGED <<files, wants, before, starved, inbox, got>>, Running' => Running,
             reply' = Stored(reply) \/ reply' = reply,
             \A f \in Fds : requests'[f] \in {"none", requests[f]},
             \A c \in Clients : c \in heard'[c] => c \in heard[c]
      PROVE  FreshInv'
  <2>1. Remembers /\ Served' = Served
    BY <1>2 DEF Remembers, Served, Askers
  <2>2. \A c \in Clients : /\ before'[c] \subseteq Served
                           /\ c \in heard'[c] \/ got'[c] # {} => c \in Served
    BY <1>0, <1>2 DEF AnsweredLater
  <2>3. QED
    BY <1>0, <1>1, <1>2, <2>1, <2>2, QuietStaysFresh
<1>3. ASSUME ProcessEnds("dead") \/ ProcessEnds("exited")
      PROVE  (Running' => Running) /\ \A f \in Fds : requests'[f] = "none"
  BY <1>3 DEF ProcessEnds, Running
<1>4. ASSUME NEW c \in Clients, inbox[c] = <<>>, HandleSilence(c) PROVE FreshInv'
  <2>1. /\ ProcessEnds("dead") /\ UNCHANGED <<files, wants, before, starved, got, heard>>
        /\ reply' = Stored(reply) /\ inbox' = [inbox EXCEPT ![c] = SubSeq(<<>>, 1, 0)]
    BY <1>4 DEF HandleSilence, Handles, seenVars, diskVars
  <2>2. inbox' = inbox
    BY <1>0, <1>4, <2>1 DEF TypeOK
  <2>3. QED
    BY <1>2, <1>3, <2>1, <2>2
<1>5. ASSUME NEW c \in Clients, SendReply(c) PROVE FreshInv'
  <2>1. /\ pc = "write" /\ Sd \in writefds /\ owner[Sd] = c
        /\ UNCHANGED <<pc, requests, inbox, files, reply, wants, before, starved>>
        /\ heard' = [heard EXCEPT ![c] = @ \cup {requests[Sd]}]
        /\ got' = [got EXCEPT ![c] = @ \cup {reply[Sd]}]
    BY <1>5 DEF SendReply, SendPiece, diskVars, kernelVars
  <2>2. Sd \in Fds /\ si \in Slots
    BY <1>0, <2>1 DEF TypeOK
  <2>3. requests[Sd] = c
    BY <1>0, <2>1, <2>2 DEF ReadyBits, PendingIsOwned, Closing, TypeOK, Slots, Sd
  <2>4. c \in Served /\ reply[Sd] \in Answers(c)
    BY <1>0, <2>2, <2>3, ConstantsAssumption DEF AnsweredLater, Answers
  <2>5. Remembers /\ Served' = Served
    BY <2>1 DEF Remembers, Served, Askers
  <2>6. \A d \in Clients : /\ before'[d] \subseteq Served
                           /\ d \in heard'[d] \/ got'[d] # {} => d \in Served
    BY <1>0, <2>1, <2>4 DEF AnsweredLater, TypeOK, Tables
  <2>7. Tables' /\ \A d \in Clients : Answers(d)' \subseteq Answers(d)
    BY <1>0, <2>1, <2>4 DEF Tables, Answers
  <2>8. (Running' => Running) /\ \A f \in Fds : requests'[f] \in {"none", requests[f]}
    BY <2>1 DEF Running
  <2>9. QED
    BY <1>0, <2>1, <2>5, <2>6, <2>7, <2>8, QuietStaysFresh
<1>6. ASSUME NEW c \in Clients, NEW q \in Requests, Ask(c, q) PROVE FreshInv'
  <2>1. /\ sends[c] = 0 /\ wants[c] = "none" /\ inbox[c] = <<>>
        /\ inbox' = [inbox EXCEPT ![c] = Append(@, q)]
        /\ wants' = [wants EXCEPT ![c] = q]
        /\ before' = [before EXCEPT ![c] = Answered]
        /\ UNCHANGED <<pc, requests, heard, got, reply, files, starved>>
    <3>1. sends[c] < MaxSegments
      BY <1>6 DEF Ask, Send
    <3>2. sends[c] = 0
      BY <1>0, <3>1, WebAssumption DEF TypeOK
    <3>3. QED
      BY <1>0, <1>6, <3>2 DEF OneRequest, Ask, Send, loopVars, diskVars
  <2>2. inbox'[c] # <<>> /\ c \notin Askers
    <3>1. inbox'[c] = Append(<<>>, q)
      BY <1>0, <2>1 DEF TypeOK
    <3>2. QED
      BY <2>1, <3>1 DEF Askers
  <2>3. \A d \in Clients \ {c} : /\ wants'[d] = wants[d] /\ inbox'[d] = inbox[d]
                                 /\ before'[d] = before[d]
    BY <1>0, <2>1 DEF TypeOK
  <2>4. Remembers /\ Served' = Served
    BY <2>1, <2>2, <2>3 DEF Remembers, Served, Askers
  <2>5. \A d \in Clients : /\ before'[d] \subseteq Served
                           /\ d \in heard'[d] \/ got'[d] # {} => d \in Served
    <3>1. Answered \subseteq Served
      BY <1>0 DEF Answered, AnsweredLater
    <3>2. QED
      BY <1>0, <2>1, <2>3, <3>1 DEF AnsweredLater
  <2>6. Tables' /\ \A d \in Clients : Answers(d)' \subseteq Answers(d)
    BY <1>0, <2>1 DEF Tables, Answers
  <2>7. (Running' => Running) /\ \A f \in Fds : requests'[f] \in {"none", requests[f]}
    BY <2>1 DEF Running
  <2>8. QED
    BY <1>0, <2>1, <2>4, <2>5, <2>6, <2>7, QuietStaysFresh
<1>7. CASE OtherStep
  <2>1. UNCHANGED <<files, wants, before, starved, inbox, got>> /\ reply' = Stored(reply)
    BY <1>7 DEF OtherStep, seenVars, diskVars, LoopStepOnly, TopOfLoop, SelectReturns,
                SelectFails, SkipListener, AcceptFails, Accept, SkipRead, SkipWrite,
                FinishResponse, SendFails, SendKills, ShutdownFree, Shutdown503,
                ShutdownKills, Exit, Connect, Close, Reset, Drain, peerVars
  <2>2. CASE AcceptFails \/ Exit \/ \E c \in Clients : SendKills(c) \/ ShutdownKills(c)
    <3>1. heard' = heard /\ (ProcessEnds("dead") \/ ProcessEnds("exited"))
      BY <2>2 DEF AcceptFails, Exit, SendKills, ShutdownKills, peerVars
    <3>2. QED
      BY <1>2, <1>3, <2>1, <3>1
  <2>3. CASE FinishResponse
    <3>1. heard' = heard /\ requests' = [requests EXCEPT ![Sd] = "none"] /\ Running
      BY <2>3 DEF FinishResponse, Erased, peerVars, Running
    <3>2. \A f \in Fds : requests'[f] \in {"none", requests[f]}
      BY <1>0, <3>1 DEF TypeOK
    <3>3. QED
      BY <1>2, <2>1, <3>1, <3>2
  <2>4. ASSUME NEW c \in Clients, Shutdown503(c) PROVE FreshInv'
    <3>1. /\ requests' = requests /\ Running
          /\ heard' = heard \/ heard' = [heard EXCEPT ![c] = @ \cup {"503"}]
      BY <2>4 DEF Shutdown503, Running
    <3>2. \A d \in Clients : heard'[d] \subseteq heard[d] \cup {"503"}
      BY <1>0, <3>1 DEF TypeOK
    <3>3. \A d \in Clients : d # "503"
      BY ConstantsAssumption
    <3>4. QED
      BY <1>2, <2>1, <3>1, <3>2, <3>3
  <2>5. CASE \/ TopOfLoop \/ SelectReturns \/ SelectFails \/ SkipListener \/ SkipRead
             \/ SkipWrite \/ ShutdownFree
             \/ \E c \in Clients : Accept(c) \/ SendFails(c)
    <3>1. UNCHANGED <<heard, requests>> /\ Running
      BY <2>5 DEF TopOfLoop, SelectReturns, SelectFails, SkipListener, Accept, SkipRead,
                  SkipWrite, ShutdownFree, SendFails, peerVars, Running
    <3>2. QED
      BY <1>2, <2>1, <3>1
  <2>6. ASSUME NEW c \in Clients, \/ \E k \in Listeners : Connect(c, k)
                                  \/ Close(c) \/ Reset(c) \/ Drain(c)
        PROVE  FreshInv'
    <3>1. UNCHANGED <<heard, requests, pc>>
      BY <2>6 DEF Connect, Close, Reset, Drain, loopVars
    <3>2. QED
      BY <1>2, <2>1, <3>1 DEF Running
  <2>7. QED
    BY <1>7, <2>2, <2>3, <2>4, <2>5, <2>6 DEF OtherStep, LoopStepOnly
<1>8. CASE Interrupt
  <2>1. UNCHANGED <<files, wants, before, starved, inbox, got, reply, requests, heard>> /\ Running
    BY <1>8 DEF Interrupt, Sigint, seenVars, diskVars, peerVars
  <2>2. QED
    BY <1>2, <2>1
<1>9. CASE UNCHANGED webVars
  BY <1>2, <1>9 DEF webVars, vars, loopVars, peerVars, seenVars, diskVars, Running
<1>10. QED
  BY <1>4, <1>5, <1>6, <1>7, <1>8, <1>9

\* For any site, peers and descriptors: with answers that wait, requests that
\* come while they do, and descriptors that are used again, what a peer reads
\* of a file is what was last written to it before it asked.
THEOREM ReadsAreFreshHolds == WebSpec => []ReadsAreFresh
<1>1. WebInit => FreshInv
  <2> SUFFICES ASSUME WebInit PROVE FreshInv
    OBVIOUS
  <2>1. Served = {} /\ Tables /\ \A c \in Clients : before[c] = {} /\ got[c] = {} /\ heard[c] = {}
    BY DEF WebInit, Init, Served, Askers, Tables
  <2>2. \A f \in Fds : requests[f] = "none"
    BY DEF WebInit, Init
  <2>3. \A c \in Clients : Answers(c) = {}
    BY <2>1, <2>2, ConstantsAssumption DEF Answers
  <2>4. QED
    BY <2>1, <2>2, <2>3 DEF FreshInv, LastWrite, WroteTo, AnsweredLater, AllFresh
<1>2. WebInv /\ TypedInv /\ FreshInv /\ [WebNext]_webVars => FreshInv'
  <2> SUFFICES ASSUME WebInv, TypedInv, FreshInv, [WebNext]_webVars PROVE FreshInv'
    OBVIOUS
  <2>1. CASE \E c \in Clients : inbox[c] # <<>> /\ HandleRequest(c)
    BY <2>1, HandlerKeepsFresh
  <2>2. CASE ~\E c \in Clients : inbox[c] # <<>> /\ HandleRequest(c)
    BY <2>2, OthersKeepFresh DEF WebNext, Serving
  <2>3. QED
    BY <2>1, <2>2
<1>3. FreshInv => ReadsAreFresh
  BY DEF FreshInv, AllFresh, Answers, Fresh, ReadsAreFresh, Askers
<1>4. QED
  BY <1>1, <1>2, <1>3, WebInvAlways, TypedInit, TypedNext, PTL DEF WebSpec
=============================================================================
