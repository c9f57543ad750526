--------------------------- MODULE EventLoopProofs ---------------------------
(***************************************************************************)
(* What holds of EventLoop for every number of peers, slots, descriptors   *)
(* and listeners: its type invariant, the safety invariants and action     *)
(* properties the runs check on small instances, from one inductive        *)
(* invariant; and that it implements ConnService.                          *)
(***************************************************************************)
EXTENDS EventLoop, FiniteSetTheorems, WellFoundedInduction, TLAPS

-----------------------------------------------------------------------------
(* The inductive invariant.                                                *)

\* A connection has one descriptor.
OneDescriptor ==
    \A f, g \in Fds : owner[f] \in Clients /\ owner[f] = owner[g] => f = g

\* A connection waits in one backlog, or is accepted, or is not yet made; it
\* is sent nothing before it is accepted.
Arrivals ==
    /\ \A k \in Listeners : \A c \in backlog[k] :
         /\ peer[c] # "none" /\ recvd[c] = 0
         /\ \A f \in Fds : owner[f] # c
         /\ \A m \in Listeners : c \in backlog[m] => m = k
    /\ \A c \in Clients :
         peer[c] = "none" => recvd[c] = 0 /\ \A f \in Fds : owner[f] # c

\* What sendResponse has written to descriptor f in its present call.
Written(f) == IF pc = "write" /\ Sd = f THEN totalSent ELSE 0

\* A peer that can still be written to has only what the present call wrote;
\* what an accepted connection was sent comes from its own answer.
Delivery ==
    /\ \A c \in Clients : recvd[c] = 0 => heard[c] = {}
    /\ \A f \in Fds : owner[f] \in Clients =>
         /\ heard[owner[f]] \subseteq {owner[f]}
         /\ peer[owner[f]] \in {"open", "fin"} => recvd[owner[f]] = Written(f)
    /\ totalSent # 0 =>
         /\ pc = "write" /\ Sd \in writefds /\ owner[Sd] \in Clients
         /\ recvd[owner[Sd]] = totalSent

\* The bits select left speak of tracked connections until the slots are
\* scanned, and a write bit not yet looked at of a pending answer.
ReadyBits ==
    /\ pc = "accept" => writefds \cup (readfds \cap Fds) \subseteq Tracked
    /\ pc \in {"accept", "read", "write"} =>
         \A i \in Slots :
            (pc = "accept" \/ si <= i) /\ clientSockets[i] \in writefds
                => requests[clientSockets[i]] # "none"

Consistent ==
    /\ SlotTable /\ PendingIsOwned /\ AnswerIntegrity
    /\ OneDescriptor /\ Arrivals /\ Delivery

IInv == TypeOK /\ Consistent /\ ReadyBits
-----------------------------------------------------------------------------
(* The least element of a set of naturals exists, and Lowest is it.        *)

\* The kernel and the loop take the lowest number that is free.
LEMMA LowestIsLeast ==
    ASSUME NEW S \in SUBSET Nat, S # {}
    PROVE  Lowest(S) \in S /\ \A y \in S : Lowest(S) <= y
<1>1. PICK x \in S : \A y \in S : <<y, x>> \notin OpToRel(<, Nat)
  BY NatLessThanWellFounded, WFMin
<1>2. \A y \in S : <<y, x>> \in OpToRel(<, Nat) <=> y < x
  BY Zenon DEF OpToRel
<1>3. \A y \in S : ~(y < x)
  BY <1>1, <1>2, Zenon
<1>4. ASSUME NEW y \in S PROVE x <= y
  <2>1. ~(y < x)
    BY <1>3, Zenon
  <2>2. x \in Nat /\ y \in Nat
    OBVIOUS
  <2>3. QED
    BY ONLY <2>1, <2>2, SMT
<1>5. \E z \in S : \A y \in S : z <= y
  BY <1>4, Zenon
<1>6. QED
  BY <1>5, Zenon DEF Lowest

\* The descriptor accept returns is one of the process's and was free; the
\* slot chosen for it is a free slot.
LEMMA LowestFree ==
    /\ FreeFds # {}   => Lowest(FreeFds) \in Fds /\ owner[Lowest(FreeFds)] = "free"
    /\ FreeSlots # {} => Lowest(FreeSlots) \in Slots /\ clientSockets[Lowest(FreeSlots)] = 0
<1>1. FreeFds \in SUBSET Nat /\ FreeSlots \in SUBSET Nat
  BY ConstantsAssumption DEF FreeFds, FreeSlots, Fds, Slots
<1>2. ASSUME FreeFds # {}
      PROVE  Lowest(FreeFds) \in Fds /\ owner[Lowest(FreeFds)] = "free"
  <2>1. Lowest(FreeFds) \in FreeFds
    BY <1>1, <1>2, LowestIsLeast, Zenon
  <2>2. QED
    BY <2>1, Zenon DEF FreeFds
<1>3. ASSUME FreeSlots # {}
      PROVE  Lowest(FreeSlots) \in Slots /\ clientSockets[Lowest(FreeSlots)] = 0
  <2>1. Lowest(FreeSlots) \in FreeSlots
    BY <1>1, <1>3, LowestIsLeast, Zenon
  <2>2. QED
    BY <2>1, Zenon DEF FreeSlots
<1>4. QED
  BY <1>2, <1>3

\* Whatever a handler leaves open was free.
LEMMA LostIsFree == ASSUME NEW r PROVE Lost(r) \subseteq FreeFds
<1>1. FreeFds # {} => Lowest(FreeFds) \in FreeFds
  BY LowestFree DEF FreeFds
<1>2. ASSUME TwoFree PROVE Lowest(FreeFds \ {Lowest(FreeFds)}) \in FreeFds
  <2>1. FreeFds \ {Lowest(FreeFds)} # {}
    BY <1>2 DEF TwoFree
  <2>2. FreeFds \ {Lowest(FreeFds)} \in SUBSET Nat
    BY ConstantsAssumption DEF FreeFds, Fds
  <2>3. QED
    BY <2>1, <2>2, LowestIsLeast
<1>3. TwoFree => FreeFds # {}
  BY DEF TwoFree
<1>4. QED
  BY <1>1, <1>2, <1>3 DEF Lost, LowestTwo

\* Nothing else changes hands.
LEMMA KeptIsLeaked ==
    ASSUME TypeOK, NEW r
    PROVE  /\ KeptOpen(r) \in [Fds -> Clients \cup {"free", "leaked"}]
           /\ \A f \in Fds : KeptOpen(r)[f] # owner[f]
                                 => owner[f] = "free" /\ KeptOpen(r)[f] = "leaked"
  BY LostIsFree DEF KeptOpen, FreeFds, TypeOK

\* A handler ends the process, or leaves the connections where they are.
LEMMA HandlerKeepsOpen ==
    ASSUME TypeOK, NEW c \in Clients, CheckRequest(c)
    PROVE  \/ owner' = [f \in Fds |-> "free"] /\ pc' = "dead"
           \/ /\ pc' = "write"
              /\ \A f \in Fds : owner'[f] # owner[f]
                                    => owner[f] = "free" /\ owner'[f] = "leaked"
<1>1. PICK n, r : Handles(c, n, r)
  BY DEF CheckRequest
<1>2. CASE r.act = "stop"
  BY <1>1, <1>2 DEF Handles, ProcessEnds
<1>3. CASE r.act # "stop"
  BY <1>1, <1>3, KeptIsLeaked DEF Handles
<1>4. QED
  BY <1>2, <1>3

-----------------------------------------------------------------------------
(* Types.                                                                  *)

\* The start has the types.
LEMMA TypeInit == Init => TypeOK
<1>1. SUFFICES ASSUME Init PROVE TypeOK
  OBVIOUS
<1>2. inbox \in [Clients -> Seq(Segments)]
  <2>1. <<>> \in Seq(Segments)
    OBVIOUS
  <2>2. QED
    BY <1>1, <2>1, Zenon DEF Init
<1>3. /\ clientSockets \in [Slots -> Fds \cup {0}]
      /\ requests \in [Fds -> Clients \cup {"none"}]
      /\ owner \in [Fds -> Clients \cup {"free", "leaked"}]
      /\ backlog \in [Listeners -> SUBSET Clients]
  BY <1>1 DEF Init
<1>4. /\ peer \in [Clients -> {"none", "open", "fin", "reset", "broken"}]
      /\ sends \in [Clients -> 0..MaxSegments]
      /\ heard \in [Clients -> SUBSET (Clients \cup {"none", "503"})]
      /\ recvd \in [Clients -> Nat] /\ drained \in [Clients -> Nat]
  BY <1>1, ConstantsAssumption DEF Init
<1>5. /\ pc \in Where /\ li \in Listeners /\ si \in Slots
      /\ totalSent \in 0..ResponseLen
  BY <1>1, ConstantsAssumption DEF Init, Where, Listeners, Slots
<1>6. endserver \in BOOLEAN
  BY <1>1, Zenon DEF Init
<1>7. readfds \subseteq Fds \cup ServerSockets /\ writefds \subseteq Fds
  BY <1>1 DEF Init
<1>8. QED
  BY <1>2, <1>3, <1>4, <1>5, <1>6, <1>7, Zenon DEF TypeOK

\* The end of the process keeps the types.
LEMMA TypeEnds ==
    ASSUME TypeOK, NEW how \in {"exited", "dead"},
           ProcessEnds(how), UNCHANGED peerVars
    PROVE  TypeOK'
  BY ConstantsAssumption
  DEF TypeOK, ProcessEnds, peerVars, Where, Listeners, Slots, Fds,
      ServerSockets, Segments

\* Each kind of step keeps the types.
LEMMA TypeLoop ==
    ASSUME TypeOK, LoopStep
    PROVE  TypeOK'
<1> USE ConstantsAssumption DEF TypeOK
<1>1. CASE TopOfLoop
  BY <1>1 DEF TopOfLoop, kernelVars, peerVars, Where, Slots
<1>2. CASE SelectReturns
  <2>1. PollRead \subseteq Fds \cup ServerSockets /\ PollWrite \subseteq Fds
    BY DEF PollRead, PollWrite, Tracked
  <2>2. QED
    BY <1>2, <2>1 DEF SelectReturns, kernelVars, peerVars, Where, Listeners
<1>3. ASSUME NextListener
      PROVE  pc' \in {pc, "read"} /\ li' \in Listeners /\ si' \in Slots
  BY <1>3 DEF NextListener, Listeners, Slots
<1>4. CASE SkipListener
  BY <1>3, <1>4 DEF SkipListener, kernelVars, peerVars, Where
<1>5. CASE AcceptFails
  BY <1>5, TypeEnds DEF AcceptFails
<1>6. ASSUME NEW c \in Clients, Accept(c) PROVE TypeOK'
  <2>1. owner' \in [Fds -> Clients \cup {"free", "leaked"}]
    BY <1>6 DEF Accept
  <2>2. backlog' \in [Listeners -> SUBSET Clients]
    BY <1>6 DEF Accept
  <2>3. clientSockets' \in [Slots -> Fds \cup {0}]
    BY <1>6, LowestFree DEF Accept, StoreInSlot
  <2>4. QED
    BY <1>3, <1>6, <2>1, <2>2, <2>3 DEF Accept, peerVars, Where
<1>7. CASE SkipRead
  BY <1>7 DEF SkipRead, kernelVars, peerVars, Where
<1>8. ASSUME NEW c \in Clients, CheckRequest(c) PROVE TypeOK'
  <2>1. PICK n \in 0..Len(inbox[c]) :
          /\ inbox' = [inbox EXCEPT ![c] = SubSeq(inbox[c], n + 1, Len(inbox[c]))]
          /\ \E r \in ResultsOf(SubSeq(inbox[c], 1, n)) :
               IF r.act = "stop"
               THEN ProcessEnds("dead")
               ELSE /\ requests' = [requests EXCEPT ![Sd] = Store(r, c)]
                    /\ owner' = KeptOpen(r)
                    /\ pc' = "write"
                    /\ UNCHANGED <<li, si, clientSockets, readfds, writefds,
                                   totalSent, endserver, backlog>>
    BY <1>8 DEF CheckRequest, Handles
  <2>2. inbox' \in [Clients -> Seq(Segments)]
    <3>1. inbox[c] \in Seq(Segments)
      OBVIOUS
    <3>2. SubSeq(inbox[c], n + 1, Len(inbox[c])) \in Seq(Segments)
      BY <3>1
    <3>3. QED
      BY <2>1, <3>2
  <2>3. PICK r : IF r.act = "stop"
               THEN ProcessEnds("dead")
               ELSE /\ requests' = [requests EXCEPT ![Sd] = Store(r, c)]
                    /\ owner' = KeptOpen(r)
                    /\ pc' = "write"
                    /\ UNCHANGED <<li, si, clientSockets, readfds, writefds,
                                   totalSent, endserver, backlog>>
    BY <2>1
  <2>4. UNCHANGED <<peer, sends, heard, recvd, drained>>
    BY <1>8 DEF CheckRequest, Handles
  <2>5. CASE r.act = "stop"
    BY <2>2, <2>3, <2>4, <2>5 DEF ProcessEnds, Where
  <2>6. CASE r.act # "stop"
    <3>1. Store(r, c) \in Clients \cup {"none"}
      BY DEF Store
    <3>2. requests' \in [Fds -> Clients \cup {"none"}]
      BY <2>3, <2>6, <3>1
    <3>3. owner' \in [Fds -> Clients \cup {"free", "leaked"}]
      BY <2>3, <2>6, KeptIsLeaked
    <3>4. QED
      BY <2>2, <2>3, <2>4, <2>6, <3>2, <3>3 DEF Where
  <2>7. QED
    BY <2>5, <2>6
<1>9. ASSUME NextSlot PROVE pc' \in Where /\ si' \in Slots
  BY <1>9 DEF NextSlot, Slots, Where
<1>10. CASE SkipWrite
  BY <1>9, <1>10 DEF SkipWrite, kernelVars, peerVars
<1>11. CASE FinishResponse
  BY <1>9, <1>11 DEF FinishResponse, Erased, Cleared, peerVars
<1>12. ASSUME NEW c \in Clients, SendPiece(c) PROVE TypeOK'
  <2>1. requests[Sd] \in Clients \cup {"none"}
    BY <1>12 DEF SendPiece
  <2>2. totalSent' \in 0..ResponseLen /\ recvd' \in [Clients -> Nat]
    BY <1>12 DEF SendPiece
  <2>3. heard' \in [Clients -> SUBSET (Clients \cup {"none", "503"})]
    BY <1>12, <2>1 DEF SendPiece
  <2>4. QED
    BY <1>12, <2>2, <2>3 DEF SendPiece, kernelVars
<1>13. ASSUME NEW c \in Clients, SendFails(c) PROVE TypeOK'
  BY <1>9, <1>13 DEF SendFails, kernelVars
<1>14. ASSUME NEW c \in Clients, SendKills(c) PROVE TypeOK'
  BY <1>14, TypeEnds DEF SendKills
<1>15. ASSUME NextShutdownSlot PROVE pc' \in {pc, "exiting"} /\ si' \in Slots
  BY <1>15 DEF NextShutdownSlot, Slots
<1>16. CASE ShutdownFree
  BY <1>15, <1>16 DEF ShutdownFree, kernelVars, peerVars, Where
<1>17. ASSUME NEW c \in Clients, Shutdown503(c) PROVE TypeOK'
  <2>1. owner' \in [Fds -> Clients \cup {"free", "leaked"}]
    <3>1. owner' = [owner EXCEPT ![Sd] = "free"]
      BY <1>17, Zenon DEF Shutdown503
    <3>2. QED
      BY <3>1
  <2>2. \/ /\ heard' = [heard EXCEPT ![c] = @ \cup {"503"}]
           /\ recvd' = [recvd EXCEPT ![c] = @ + 1]
        \/ UNCHANGED heard /\ UNCHANGED recvd
    BY <1>17, Zenon DEF Shutdown503
  <2>3. CASE UNCHANGED heard /\ UNCHANGED recvd
    BY <2>3, <1>15, <1>17, <2>1 DEF Shutdown503, Where
  <2>4. CASE /\ heard' = [heard EXCEPT ![c] = @ \cup {"503"}]
             /\ recvd' = [recvd EXCEPT ![c] = @ + 1]
    <3>1. heard' \in [Clients -> SUBSET (Clients \cup {"none", "503"})]
      BY <2>4
    <3>2. recvd' \in [Clients -> Nat]
      BY <2>4
    <3>3. QED
      BY <1>15, <1>17, <2>1, <3>1, <3>2 DEF Shutdown503, Where
  <2>5. QED
    BY <2>2, <2>3, <2>4
<1>18. ASSUME NEW c \in Clients, ShutdownKills(c) PROVE TypeOK'
  BY <1>18, TypeEnds DEF ShutdownKills
<1>19. CASE Exit
  BY <1>19, TypeEnds DEF Exit
<1>20. QED
  BY <1>1, <1>2, <1>4, <1>5, <1>6, <1>7, <1>8, <1>10, <1>11, <1>12, <1>13,
     <1>14, <1>16, <1>17, <1>18, <1>19 DEF LoopStep

\* The steps of peers keep the types.
LEMMA TypePeer ==
    ASSUME TypeOK, PeerStep
    PROVE  TypeOK'
<1> USE DEF TypeOK
<1>1. ASSUME NEW c \in Clients, NEW k \in Listeners, Connect(c, k)
      PROVE  TypeOK'
  BY <1>1 DEF Connect, loopVars
<1>2. ASSUME NEW c \in Clients, NEW s \in Segments, Send(c, s)
      PROVE  TypeOK'
  <2>1. inbox' \in [Clients -> Seq(Segments)]
    <3>1. inbox[c] \in Seq(Segments)
      OBVIOUS
    <3>2. Append(inbox[c], s) \in Seq(Segments)
      BY <3>1
    <3>3. QED
      BY <1>2, <3>2 DEF Send
  <2>2. sends' \in [Clients -> 0..MaxSegments]
    BY <1>2, ConstantsAssumption DEF Send
  <2>3. QED
    BY <1>2, <2>1, <2>2 DEF Send, loopVars, kernelVars
<1>3. ASSUME NEW c \in Clients, Close(c) PROVE TypeOK'
  BY <1>3 DEF Close, loopVars, kernelVars
<1>4. ASSUME NEW c \in Clients, Reset(c) PROVE TypeOK'
  BY <1>4 DEF Reset, loopVars, kernelVars
<1>5. ASSUME NEW c \in Clients, Drain(c) PROVE TypeOK'
  BY <1>5 DEF Drain, loopVars, kernelVars
<1>6. QED
  BY <1>1, <1>2, <1>3, <1>4, <1>5 DEF PeerStep

\* Every step keeps the types.
LEMMA TypeNext == TypeOK /\ [Next]_vars => TypeOK'
<1> SUFFICES ASSUME TypeOK, [Next]_vars PROVE TypeOK'
  OBVIOUS
<1>1. CASE LoopStep
  BY <1>1, TypeLoop
<1>2. CASE SelectFails
  BY <1>2 DEF SelectFails, TypeOK, kernelVars, peerVars, Where
<1>3. CASE Sigint
  <2>1. endserver' \in BOOLEAN
    BY <1>3, Zenon DEF Sigint
  <2>2. PollRead \subseteq Fds \cup ServerSockets /\ PollWrite \subseteq Fds
    BY DEF PollRead, PollWrite, Tracked
  <2>3. CASE UNCHANGED <<pc, li, readfds, writefds>>
    BY <1>3, <2>1, <2>3 DEF Sigint, TypeOK, kernelVars, peerVars
  <2>4. CASE readfds' = PollRead /\ writefds' = PollWrite /\ pc' = "accept" /\ li' = 1
    BY <1>3, <2>1, <2>2, <2>4, ConstantsAssumption
    DEF Sigint, TypeOK, kernelVars, peerVars, Where, Listeners
  <2>5. QED
    BY <1>3, <2>3, <2>4 DEF Sigint
<1>4. CASE PeerStep
  BY <1>4, TypePeer
<1>5. CASE UNCHANGED vars
  BY <1>5 DEF vars, loopVars, kernelVars, peerVars, TypeOK
<1>6. QED
  BY <1>1, <1>2, <1>3, <1>4, <1>5 DEF Next

\* Every variable keeps its type: in particular the indices never leave their
\* tables and every descriptor stored in a slot is one the process may have.
THEOREM TypeCorrect == Spec => []TypeOK
<1>1. TypeOK /\ [Next]_vars => TypeOK'
  BY TypeNext
<1>2. QED
  BY TypeInit, <1>1, PTL DEF Spec

-----------------------------------------------------------------------------
(* The inductive invariant, action by action.                              *)

\* The invariant holds at the start.
LEMMA InvInit == Init => Consistent /\ ReadyBits
<1> SUFFICES ASSUME Init PROVE Consistent /\ ReadyBits
  OBVIOUS
<1> USE ConstantsAssumption DEF Init
<1>1. SlotTable /\ PendingIsOwned /\ AnswerIntegrity
  BY DEF SlotTable, PendingIsOwned, AnswerIntegrity
<1>2. OneDescriptor
  BY DEF OneDescriptor
<1>3. Arrivals
  BY DEF Arrivals, Fds
<1>4. Delivery
  BY DEF Delivery, Written
<1>5. ReadyBits
  BY DEF ReadyBits
<1>6. QED
  BY <1>1, <1>2, <1>3, <1>4, <1>5 DEF Consistent

\* A step that neither opens nor closes nor sends disturbs nothing but the
\* bits, if no send is under way or the scan stays where it is.
LEMMA Quiet ==
    ASSUME IInv, ~Closing \/ Closing', TypeOK',
           UNCHANGED <<clientSockets, requests, totalSent, owner, backlog, peer,
                       heard, recvd>>,
           totalSent = 0 \/ UNCHANGED <<pc, si, writefds>>
    PROVE  Consistent'
<1> USE DEF IInv, Consistent
<1>1. SlotTable' /\ PendingIsOwned'
  BY DEF SlotTable, PendingIsOwned, Tracked, Closing
<1>2. AnswerIntegrity' /\ OneDescriptor'
  BY DEF AnswerIntegrity, OneDescriptor
<1>3. Arrivals'
  BY DEF Arrivals
<1>4. Delivery'
  BY DEF Delivery, Written, Sd
<1>5. QED
  BY <1>1, <1>2, <1>3, <1>4

\* Outside the scan and while no write bit is looked at, nothing is half sent.
LEMMA NothingHalfSent ==
    ASSUME IInv, pc # "write" \/ Sd \notin writefds
    PROVE  totalSent = 0
  BY DEF IInv, Consistent, Delivery

\* No listener has the number of a connection.
LEMMA ListenersAreNotFds == ServerSockets \cap Fds = {}
  BY ConstantsAssumption DEF ServerSockets, ServerSocket, Listeners, Fds

\* The steps that only advance the loop keep the invariant.
LEMMA ScheduleSteps ==
    ASSUME IInv, TypeOK',
           TopOfLoop \/ SelectReturns \/ SelectFails \/ SkipListener \/ SkipRead
             \/ SkipWrite \/ ShutdownFree
    PROVE  Consistent' /\ ReadyBits'
<1> USE ConstantsAssumption DEF IInv
<1>1. CASE TopOfLoop
  <2>1. ReadyBits'
    BY <1>1 DEF TopOfLoop, ReadyBits
  <2>2. QED
    BY <1>1, <2>1, Quiet, NothingHalfSent
    DEF TopOfLoop, Closing, kernelVars, peerVars
<1>2. CASE SelectFails
  <2>1. ReadyBits'
    BY <1>2 DEF SelectFails, ReadyBits
  <2>2. QED
    BY <1>2, <2>1, Quiet, NothingHalfSent
    DEF SelectFails, Closing, kernelVars, peerVars
<1>3. CASE SelectReturns
  <2>1. ReadyBits'
    <3>1. writefds' \subseteq PollWrite /\ readfds' \subseteq PollRead /\ pc' = "accept"
      BY <1>3 DEF SelectReturns
    <3>2. UNCHANGED <<clientSockets, requests>>
      BY <1>3 DEF SelectReturns
    <3>3. PollWrite \subseteq Tracked /\ PollRead \cap Fds \subseteq Tracked
      BY ListenersAreNotFds DEF PollWrite, PollRead
    <3>4. Tracked' = Tracked
      BY <3>2 DEF Tracked
    <3>5. \A f \in writefds' : requests'[f] # "none"
      BY <3>1, <3>2 DEF PollWrite
    <3>6. QED
      BY <3>1, <3>3, <3>4, <3>5 DEF ReadyBits
  <2>2. QED
    BY <1>3, <2>1, Quiet, NothingHalfSent
    DEF SelectReturns, Closing, kernelVars, peerVars
<1>4. CASE SkipListener
  <2>1. ReadyBits'
    BY <1>4 DEF SkipListener, NextListener, ReadyBits, Tracked
  <2>2. QED
    BY <1>4, <2>1, Quiet, NothingHalfSent
    DEF SkipListener, Closing, kernelVars, peerVars
<1>5. CASE SkipRead
  <2>1. ReadyBits'
    BY <1>5 DEF SkipRead, ReadyBits
  <2>2. QED
    BY <1>5, <2>1, Quiet, NothingHalfSent
    DEF SkipRead, Closing, kernelVars, peerVars
<1>6. CASE SkipWrite
  <2>1. ReadyBits'
    BY <1>6 DEF SkipWrite, NextSlot, ReadyBits, TypeOK, Slots
  <2>2. QED
    BY <1>6, <2>1, Quiet, NothingHalfSent
    DEF SkipWrite, Closing, kernelVars, peerVars
<1>7. CASE ShutdownFree
  <2>1. ReadyBits'
    BY <1>7 DEF ShutdownFree, NextShutdownSlot, ReadyBits
  <2>2. QED
    BY <1>7, <2>1, Quiet, NothingHalfSent
    DEF ShutdownFree, NextShutdownSlot, Closing, kernelVars, peerVars
<1>8. QED
  BY <1>1, <1>2, <1>3, <1>4, <1>5, <1>6, <1>7

\* SIGINT keeps the invariant, also when it leaves all bits set.
LEMMA SignalSteps ==
    ASSUME IInv, TypeOK', Sigint
    PROVE  Consistent' /\ ReadyBits'
<1> USE DEF IInv
<1>1. UNCHANGED <<si, clientSockets, requests, totalSent, owner, backlog, peer, heard, recvd>>
  BY DEF Sigint, kernelVars, peerVars
<1>2. CASE UNCHANGED <<pc, li, readfds, writefds>>
  <2>1. ReadyBits'
    BY <1>1, <1>2 DEF ReadyBits, Tracked
  <2>2. QED
    BY <1>1, <1>2, <2>1, Quiet DEF Closing
<1>3. CASE pc = "select" /\ readfds' = PollRead /\ writefds' = PollWrite /\ pc' = "accept"
  <2>1. ReadyBits'
    <3>1. PollWrite \subseteq Tracked /\ PollRead \cap Fds \subseteq Tracked
      BY ListenersAreNotFds DEF PollWrite, PollRead
    <3>2. Tracked' = Tracked
      BY <1>1 DEF Tracked
    <3>3. \A f \in writefds' : requests'[f] # "none"
      BY <1>1, <1>3 DEF PollWrite
    <3>4. QED
      BY <1>3, <3>1, <3>2, <3>3 DEF ReadyBits
  <2>2. QED
    BY <1>1, <1>3, <2>1, Quiet, NothingHalfSent DEF Closing
<1>4. QED
  BY <1>2, <1>3 DEF Sigint

\* Steps of peers keep the invariant.
LEMMA PeerSteps ==
    ASSUME IInv, TypeOK', PeerStep
    PROVE  Consistent' /\ ReadyBits'
<1> USE DEF IInv
<1>1. UNCHANGED <<pc, si, clientSockets, requests, readfds, writefds, totalSent, owner, heard, recvd>>
  BY DEF PeerStep, Connect, Send, Close, Reset, Drain, loopVars, kernelVars
<1>2. ReadyBits'
  BY <1>1 DEF ReadyBits, Tracked
<1>3. SlotTable' /\ PendingIsOwned' /\ AnswerIntegrity' /\ OneDescriptor'
  BY <1>1 DEF Consistent, SlotTable, PendingIsOwned, AnswerIntegrity,
              OneDescriptor, Tracked, Closing
<1>4. ASSUME NEW c \in Clients, NEW k \in Listeners, Connect(c, k)
      PROVE  Arrivals' /\ Delivery'
  <2>1. /\ peer[c] = "none" /\ peer' = [peer EXCEPT ![c] = "open"]
        /\ backlog' = [backlog EXCEPT ![k] = @ \cup {c}]
    BY <1>4 DEF Connect
  <2>2. recvd[c] = 0 /\ \A f \in Fds : owner[f] # c
    BY <2>1 DEF Consistent, Arrivals
  <2>3. \A m \in Listeners : c \notin backlog[m]
    BY <2>1 DEF Consistent, Arrivals
  <2>4. Arrivals'
    BY <1>1, <2>1, <2>2, <2>3 DEF Consistent, Arrivals, TypeOK
  <2>5. Delivery'
    BY <1>1, <2>1, <2>2 DEF Consistent, Delivery, Written, Sd, TypeOK
  <2>6. QED
    BY <2>4, <2>5
<1>5. ASSUME NEW c \in Clients, Close(c) \/ Reset(c)
      PROVE  Arrivals' /\ Delivery'
  <2>1. /\ peer[c] \in {"open", "fin"} /\ UNCHANGED backlog
        /\ \E to \in {"fin", "reset", "broken"} : peer' = [peer EXCEPT ![c] = to]
    BY <1>5 DEF Close, Reset, kernelVars
  <2>2. Arrivals'
    BY <1>1, <2>1 DEF Consistent, Arrivals, TypeOK
  <2>3. Delivery'
    BY <1>1, <2>1 DEF Consistent, Delivery, Written, Sd, TypeOK
  <2>4. QED
    BY <2>2, <2>3
<1>6. ASSUME NEW c \in Clients, Drain(c) \/ \E s \in Segments : Send(c, s)
      PROVE  Arrivals' /\ Delivery'
  <2>1. UNCHANGED <<peer, backlog>>
    BY <1>6 DEF Drain, Send, kernelVars
  <2>2. QED
    BY <1>1, <2>1 DEF Consistent, Arrivals, Delivery, Written, Sd
<1>7. QED
  BY <1>2, <1>3, <1>4, <1>5, <1>6 DEF Consistent, PeerStep

\* A process that has ended holds no descriptor.
LEMMA EndSteps ==
    ASSUME IInv, NEW how \in {"exited", "dead"}, ProcessEnds(how),
           UNCHANGED <<peer, heard, recvd>>
    PROVE  Consistent' /\ ReadyBits'
<1> USE ConstantsAssumption DEF IInv, Consistent, ProcessEnds
<1>1. SlotTable' /\ PendingIsOwned' /\ AnswerIntegrity' /\ OneDescriptor'
  BY DEF SlotTable, PendingIsOwned, AnswerIntegrity, OneDescriptor
<1>2. Arrivals'
  BY DEF Arrivals
<1>3. Delivery'
  BY DEF Delivery
<1>4. ReadyBits'
  BY DEF ReadyBits
<1>5. QED
  BY <1>1, <1>2, <1>3, <1>4

\* A new connection gets a descriptor and slot nobody else has.
LEMMA AcceptSteps ==
    ASSUME IInv, TypeOK', NEW c \in Clients, Accept(c)
    PROVE  Consistent' /\ ReadyBits'
<1> USE DEF IInv, Consistent
<1> DEFINE fd == Lowest(FreeFds)
<1>1. /\ fd \in Fds /\ owner[fd] = "free"
      /\ FreeSlots # {} => Lowest(FreeSlots) \in Slots /\ clientSockets[Lowest(FreeSlots)] = 0
  BY LowestFree DEF Accept
<1>2. /\ owner' = [owner EXCEPT ![fd] = c]
      /\ backlog' = [backlog EXCEPT ![li] = @ \ {c}]
      /\ pc = "accept" /\ c \in backlog[li] /\ pc' \in {"accept", "read"}
      /\ UNCHANGED <<requests, readfds, writefds, totalSent, peer, heard, recvd>>
  BY DEF Accept, NextListener, peerVars
<1>3. \/ UNCHANGED clientSockets
      \/ \E s \in Slots : clientSockets[s] = 0 /\ clientSockets' = [clientSockets EXCEPT ![s] = fd]
  BY <1>1 DEF Accept, StoreInSlot
<1> HIDE DEF fd
<1>4. fd \notin Tracked /\ requests[fd] = "none" /\ fd # 0
  BY <1>1, <1>2, ConstantsAssumption
  DEF SlotTable, PendingIsOwned, Closing, Tracked, Fds
<1>5. Tracked \subseteq Tracked'
  BY <1>3, <1>4 DEF Tracked, TypeOK, Fds
<1>6. SlotTable'
  <2>1. \A i \in Slots : /\ clientSockets[i] # 0 => owner[clientSockets[i]] \in Clients
                         /\ clientSockets[i] # fd
    BY <1>1, <1>2, <1>4 DEF SlotTable, Closing, Tracked
  <2>2. \A i, j \in Slots : clientSockets[i] = clientSockets[j] /\ i # j
                              => clientSockets[i] = 0
    BY <1>2 DEF SlotTable, Closing
  <2>3. \A f \in Fds : owner[f] \in Clients => owner'[f] \in Clients
    BY <1>1, <1>2, ConstantsAssumption DEF TypeOK
  <2>4. owner'[fd] \in Clients
    BY <1>1, <1>2 DEF TypeOK
  <2>5. CASE UNCHANGED clientSockets
    BY <2>1, <2>2, <2>3, <2>5 DEF SlotTable, TypeOK
  <2>6. ASSUME NEW s \in Slots, clientSockets[s] = 0,
               clientSockets' = [clientSockets EXCEPT ![s] = fd]
        PROVE  SlotTable'
    <3>1. clientSockets'[s] = fd /\ \A i \in Slots \ {s} : clientSockets'[i] = clientSockets[i]
      BY <2>6 DEF TypeOK
    <3>2. \A i \in Slots : clientSockets'[i] # 0 => owner'[clientSockets'[i]] \in Clients
      BY <2>1, <2>3, <2>4, <3>1 DEF TypeOK
    <3>3. \A i, j \in Slots : clientSockets'[i] = clientSockets'[j] /\ i # j
                                => clientSockets'[i] = 0
      BY <2>1, <2>2, <3>1
    <3>4. QED
      BY <3>2, <3>3 DEF SlotTable
  <2>7. QED
    BY <1>3, <2>5, <2>6
<1>7. PendingIsOwned'
  BY <1>2, <1>4, <1>5, ConstantsAssumption DEF PendingIsOwned, Closing, TypeOK
<1>8. AnswerIntegrity'
  BY <1>2 DEF AnswerIntegrity
<1>9. \A f \in Fds : owner[f] # c
  BY <1>2 DEF Arrivals, TypeOK
<1>10. OneDescriptor'
  BY <1>1, <1>2, <1>9 DEF OneDescriptor, TypeOK
<1>11. Arrivals'
  <2>1. \A m \in Listeners : c \notin backlog'[m]
    BY <1>2 DEF Arrivals, TypeOK
  <2>2. \A m \in Listeners : backlog'[m] \subseteq backlog[m]
    BY <1>2 DEF TypeOK
  <2>3. peer[c] # "none"
    BY <1>2 DEF Arrivals, TypeOK
  <2>4. \A d \in Clients : d # c => \A f \in Fds : owner'[f] = d => owner[f] = d
    BY <1>1, <1>2 DEF TypeOK
  <2>5. \A k \in Listeners : backlog'[k] \subseteq Clients
    BY DEF TypeOK
  <2>6. QED
    BY <1>2, <2>1, <2>2, <2>3, <2>4, <2>5 DEF Arrivals
<1>12. Delivery'
  <2>1. totalSent = 0
    BY <1>2, NothingHalfSent
  <2>2. recvd[c] = 0 /\ heard[c] = {}
    BY <1>2 DEF Arrivals, Delivery, TypeOK
  <2>3. QED
    BY <1>1, <1>2, <2>1, <2>2 DEF Delivery, Written, TypeOK
<1>13. ReadyBits'
  <2>1. writefds \cup (readfds \cap Fds) \subseteq Tracked
    BY <1>2 DEF ReadyBits
  <2>2. \A f \in writefds : requests[f] # "none"
    BY <1>2, <2>1 DEF ReadyBits, Tracked
  <2>3. QED
    BY <1>2, <1>5, <2>1, <2>2 DEF ReadyBits
<1>14. QED
  BY <1>6, <1>7, <1>8, <1>10, <1>11, <1>12, <1>13

\* The answer to a request is put at its own descriptor, with or without a pipe.
LEMMA CheckRequestSteps ==
    ASSUME IInv, TypeOK', NEW c \in Clients, CheckRequest(c)
    PROVE  Consistent' /\ ReadyBits'
<1> USE DEF IInv, Consistent
<1>1. PICK r : IF r.act = "stop"
               THEN ProcessEnds("dead")
               ELSE /\ requests' = [requests EXCEPT ![Sd] = Store(r, c)]
                    /\ owner' = KeptOpen(r)
                    /\ pc' = "write"
                    /\ UNCHANGED <<li, si, clientSockets, readfds, writefds,
                                   totalSent, endserver, backlog>>
  BY DEF CheckRequest, Handles
<1>2. /\ pc = "read" /\ requests[Sd] = "none" /\ owner[Sd] = c /\ Sd # 0
      /\ UNCHANGED <<peer, heard, recvd>>
  BY DEF CheckRequest, Handles
<1>3. CASE r.act = "stop"
  BY <1>1, <1>2, <1>3, EndSteps
<1>4. CASE r.act # "stop"
  <2>1. /\ requests' = [requests EXCEPT ![Sd] = Store(r, c)] /\ pc' = "write"
        /\ UNCHANGED <<si, clientSockets, readfds, writefds, totalSent, backlog>>
    BY <1>1, <1>4
  <2>2. \A f \in Fds : owner'[f] # owner[f] => owner[f] = "free" /\ owner'[f] = "leaked"
    BY <1>1, <1>4, KeptIsLeaked
  <2>3. \A f \in Fds : owner'[f] \in Clients \/ owner[f] \in Clients => owner'[f] = owner[f]
    BY <2>2, ConstantsAssumption
  <2>4. Sd \in Fds /\ Store(r, c) \in {c, "none"}
    BY <1>2 DEF Sd, Store, TypeOK
  <2>5. Tracked' = Tracked /\ Sd \in Tracked
    BY <2>1, <2>4 DEF Tracked, Sd, TypeOK
  <2>6. SlotTable'
    BY <2>1, <2>3, <1>2 DEF SlotTable, Closing, TypeOK
  <2>7. PendingIsOwned'
    BY <1>2, <2>1, <2>3, <2>4, <2>5, ConstantsAssumption
    DEF PendingIsOwned, Closing, TypeOK
  <2>8. AnswerIntegrity'
    BY <1>2 DEF AnswerIntegrity
  <2>9. OneDescriptor'
    BY <2>3 DEF OneDescriptor
  <2>10. Arrivals'
    <3>1. \A d \in Clients : \A f \in Fds : owner[f] # d => owner'[f] # d
      BY <2>3
    <3>2. \A k \in Listeners : backlog[k] \subseteq Clients
      BY DEF TypeOK
    <3>3. QED
      BY <1>2, <2>1, <3>1, <3>2 DEF Arrivals
  <2>11. Delivery'
    <3>1. totalSent = 0
      BY <1>2, NothingHalfSent
    <3>2. QED
      BY <1>2, <2>1, <2>3, <3>1 DEF Delivery, Written, Sd
  <2>12. ReadyBits'
    <3>1. \A i \in Slots : si <= i /\ clientSockets[i] \in writefds
                              => requests[clientSockets[i]] # "none"
      BY <1>2 DEF ReadyBits
    <3>2. \A i \in Slots : si <= i /\ clientSockets[i] \in writefds
                              => clientSockets[i] # Sd
      BY <1>2, <3>1
    <3>3. \A i \in Slots : si <= i /\ clientSockets[i] \in writefds
                              => requests'[clientSockets[i]] # "none"
      BY <2>1, <3>1, <3>2 DEF TypeOK
    <3>4. QED
      BY <2>1, <3>3 DEF ReadyBits
  <2>13. QED
    BY <2>6, <2>7, <2>8, <2>9, <2>10, <2>11, <2>12
<1>5. QED
  BY <1>3, <1>4

\* A piece is sent to the connection whose answer it is.
LEMMA SendPieceSteps ==
    ASSUME IInv, TypeOK', NEW c \in Clients, SendPiece(c)
    PROVE  Consistent' /\ ReadyBits'
<1> USE ConstantsAssumption DEF IInv, Consistent
<1>1. /\ pc = "write" /\ Sd \in writefds /\ owner[Sd] = c
      /\ totalSent < ResponseLen /\ peer[c] \in {"open", "fin"}
      /\ totalSent' = totalSent + 1
      /\ heard' = [heard EXCEPT ![c] = @ \cup {requests[Sd]}]
      /\ recvd' = [recvd EXCEPT ![c] = @ + 1]
      /\ UNCHANGED <<pc, li, si, clientSockets, requests, readfds, writefds,
                     owner, backlog, peer>>
  BY DEF SendPiece, kernelVars
<1>2. Sd \in Fds /\ recvd[c] = totalSent
  BY <1>1 DEF Delivery, Written, TypeOK
<1>3. requests[Sd] = c
  <2>1. requests[Sd] # "none"
    BY <1>1 DEF ReadyBits, Sd, TypeOK, Slots
  <2>2. QED
    BY <1>1, <1>2, <2>1 DEF PendingIsOwned, Closing
<1>4. heard'[c] = heard[c] \cup {c} /\ heard[c] \subseteq {c}
  BY <1>1, <1>2, <1>3 DEF Delivery, TypeOK
<1>5. recvd'[c] = totalSent + 1 /\ totalSent \in Nat
  BY <1>1, <1>2 DEF TypeOK
<1>6. \A d \in Clients \ {c} : heard'[d] = heard[d] /\ recvd'[d] = recvd[d]
  BY <1>1 DEF TypeOK
<1>7. SlotTable' /\ PendingIsOwned' /\ OneDescriptor' /\ ReadyBits'
  BY <1>1 DEF SlotTable, PendingIsOwned, OneDescriptor, ReadyBits, Closing, Tracked
<1>8. AnswerIntegrity'
  BY <1>1, <1>4, <1>5, <1>6 DEF AnswerIntegrity
<1>9. \A k \in Listeners : c \notin backlog[k]
  BY <1>1, <1>2 DEF Arrivals
<1>10. Arrivals'
  <2>1. \A k \in Listeners : backlog[k] \subseteq Clients
    BY DEF TypeOK
  <2>2. peer[c] # "none"
    BY <1>1
  <2>3. QED
    BY <1>1, <1>6, <1>9, <2>1, <2>2 DEF Arrivals
<1>11. Delivery'
  <2>1. \A d \in Clients : recvd'[d] = 0 => heard'[d] = {}
    BY <1>5, <1>6 DEF Delivery
  <2>2. \A f \in Fds \ {Sd} : owner[f] # c
    BY <1>1, <1>2 DEF OneDescriptor
  <2>3. ASSUME NEW f \in Fds, owner'[f] \in Clients
        PROVE  /\ heard'[owner'[f]] \subseteq {owner'[f]}
               /\ peer'[owner'[f]] \in {"open", "fin"} => recvd'[owner'[f]] = Written(f)'
    <3>1. CASE f = Sd
      BY <1>1, <1>4, <1>5, <3>1 DEF Written, Sd
    <3>2. CASE f # Sd
      BY <1>1, <1>6, <2>2, <2>3, <3>2 DEF Delivery, Written, Sd
    <3>3. QED
      BY <3>1, <3>2
  <2>4. recvd'[owner'[Sd']] = totalSent' /\ Sd' \in writefds' /\ owner'[Sd'] \in Clients
    BY <1>1, <1>5 DEF Sd
  <2>5. QED
    BY <1>1, <2>1, <2>3, <2>4 DEF Delivery
<1>12. QED
  BY <1>7, <1>8, <1>10, <1>11

\* A send to a peer that is gone keeps the answer and starts it over.
LEMMA SendFailsSteps ==
    ASSUME IInv, TypeOK', NEW c \in Clients, SendFails(c)
    PROVE  Consistent' /\ ReadyBits'
<1> USE DEF IInv, Consistent
<1>1. /\ pc = "write" /\ Sd \in writefds /\ owner[Sd] = c
      /\ peer' = [peer EXCEPT ![c] = "broken"] /\ totalSent' = 0 /\ peer[c] = "reset"
      /\ pc' \in {"read", "top"}
      /\ UNCHANGED <<li, clientSockets, requests, readfds, writefds, owner,
                     backlog, heard, recvd>>
  BY DEF SendFails, NextSlot, kernelVars
<1>2. Sd \in Fds
  BY <1>1 DEF TypeOK
<1>3. SlotTable' /\ PendingIsOwned' /\ OneDescriptor' /\ AnswerIntegrity'
  BY <1>1 DEF SlotTable, PendingIsOwned, OneDescriptor, AnswerIntegrity,
              Closing, Tracked
<1>4. ReadyBits'
  BY <1>1 DEF SendFails, NextSlot, ReadyBits, TypeOK, Slots
<1>5. Arrivals'
  BY <1>1 DEF Arrivals, TypeOK
<1>6. Delivery'
  <2>1. ASSUME NEW f \in Fds, owner[f] \in Clients, peer'[owner[f]] \in {"open", "fin"}
        PROVE  recvd[owner[f]] = 0
    BY <1>1, <2>1 DEF Delivery, Written, TypeOK
  <2>2. QED
    BY <1>1, <2>1 DEF Delivery, Written
<1>7. QED
  BY <1>3, <1>4, <1>5, <1>6

\* After the last piece, answer, descriptor and slot go together.
LEMMA FinishSteps ==
    ASSUME IInv, TypeOK', FinishResponse
    PROVE  Consistent' /\ ReadyBits'
<1> USE ConstantsAssumption DEF IInv, Consistent
<1>1. /\ pc = "write" /\ Sd \in writefds /\ totalSent' = 0 /\ pc' \in {"read", "top"}
      /\ requests' = [requests EXCEPT ![Sd] = "none"]
      /\ owner' = [owner EXCEPT ![Sd] = "free"]
      /\ clientSockets' = [clientSockets EXCEPT ![si] = 0]
      /\ UNCHANGED <<readfds, writefds, backlog, peer, heard, recvd>>
  BY DEF FinishResponse, NextSlot, Erased, Cleared, peerVars
<1>2. Sd \in Fds /\ si \in Slots /\ Sd # 0 /\ clientSockets[si] = Sd
  BY <1>1 DEF TypeOK, Fds, Sd
<1>3. \A f \in Fds : owner'[f] \in Clients => f # Sd /\ owner'[f] = owner[f]
  BY <1>1, <1>2 DEF TypeOK
<1>4. \A f \in Fds \ {Sd} : owner'[f] = owner[f] /\ requests'[f] = requests[f]
  BY <1>1, <1>2 DEF TypeOK
<1>5. \A i \in Slots \ {si} : clientSockets'[i] = clientSockets[i] /\ clientSockets[i] # Sd
  BY <1>1, <1>2 DEF SlotTable, Closing, TypeOK
<1>6. clientSockets'[si] = 0 /\ requests'[Sd] = "none"
  BY <1>1, <1>2 DEF TypeOK
<1>7. SlotTable'
  <2>1. \A i \in Slots : clientSockets'[i] # 0 => owner'[clientSockets'[i]] \in Clients
    BY <1>1, <1>4, <1>5, <1>6 DEF SlotTable, Closing, TypeOK
  <2>2. \A i, j \in Slots : clientSockets'[i] = clientSockets'[j] /\ i # j
                              => clientSockets'[i] = 0
    BY <1>1, <1>5, <1>6 DEF SlotTable, Closing
  <2>3. QED
    BY <2>1, <2>2 DEF SlotTable
<1>8. PendingIsOwned'
  <2>1. \A f \in Tracked : f # Sd => f \in Tracked'
    BY <1>2, <1>5 DEF Tracked
  <2>2. QED
    BY <1>1, <1>4, <1>6, <2>1 DEF PendingIsOwned, Closing
<1>9. AnswerIntegrity' /\ OneDescriptor'
  BY <1>1, <1>3 DEF AnswerIntegrity, OneDescriptor
<1>10. Arrivals'
  <2>1. \A d \in Clients : \A f \in Fds : owner[f] # d => owner'[f] # d
    BY <1>3
  <2>2. \A k \in Listeners : backlog[k] \subseteq Clients
    BY DEF TypeOK
  <2>3. QED
    BY <1>1, <2>1, <2>2 DEF Arrivals
<1>11. Delivery'
  BY <1>1, <1>3 DEF Delivery, Written
<1>12. ReadyBits'
  <2>1. \A i \in Slots : si < i => i # si
    BY <1>2 DEF Slots
  <2>2. \A i \in Slots : si < i /\ clientSockets[i] \in writefds
                            => requests[clientSockets[i]] # "none"
    BY <1>1, <1>2 DEF ReadyBits, Slots
  <2>3. \A i \in Slots : si < i /\ clientSockets'[i] \in writefds
                            => requests'[clientSockets'[i]] # "none"
    BY <1>4, <1>5, <2>1, <2>2 DEF TypeOK
  <2>4. pc' = "read" => si' = si + 1
    BY <1>1 DEF FinishResponse, NextSlot
  <2>5. QED
    BY <1>1, <1>2, <2>3, <2>4 DEF ReadyBits, Slots
<1>13. QED
  BY <1>7, <1>8, <1>9, <1>10, <1>11, <1>12

\* The 503 of a shutdown goes to the open slots only.
LEMMA Shutdown503Steps ==
    ASSUME IInv, TypeOK', NEW c \in Clients, Shutdown503(c)
    PROVE  Consistent' /\ ReadyBits'
<1> USE ConstantsAssumption DEF IInv, Consistent
<1>1. /\ pc = "shutdown" /\ pc' \in {"shutdown", "exiting"} /\ Sd # 0
      /\ owner[Sd] = c /\ peer[c] # "broken"
      /\ owner' = [owner EXCEPT ![Sd] = "free"]
      /\ UNCHANGED <<requests, clientSockets, totalSent, backlog, peer>>
  BY DEF Shutdown503, NextShutdownSlot
<1>2. \/ /\ peer[c] # "reset"
         /\ heard' = [heard EXCEPT ![c] = @ \cup {"503"}]
         /\ recvd' = [recvd EXCEPT ![c] = @ + 1]
      \/ UNCHANGED heard /\ UNCHANGED recvd
  BY Zenon DEF Shutdown503
<1>3. Sd \in Fds /\ totalSent = 0
  BY <1>1, NothingHalfSent DEF Sd, TypeOK
<1>4. peer[c] # "none" /\ \A k \in Listeners : c \notin backlog[k]
  BY <1>1, <1>3 DEF Arrivals
<1>5. peer[c] # "reset" => recvd[c] = 0 /\ heard[c] = {}
  BY <1>1, <1>3, <1>4 DEF Delivery, Written, TypeOK
<1>6. \A f \in Fds : owner'[f] \in Clients => owner'[f] = owner[f] /\ owner[f] # c
  BY <1>1, <1>3 DEF OneDescriptor, TypeOK
<1>7. ASSUME NEW d \in Clients \ {c} PROVE heard'[d] = heard[d] /\ recvd'[d] = recvd[d]
  <2>1. heard \in [Clients -> SUBSET (Clients \cup {"none", "503"})] /\ recvd \in [Clients -> Nat]
    BY DEF TypeOK
  <2>2. QED
    BY ONLY <1>2, <2>1, d \in Clients \ {c}, c \in Clients
<1>8. \/ heard'[c] = heard[c] /\ recvd'[c] = recvd[c]
      \/ heard'[c] = {"503"} /\ recvd'[c] = 1
  <2>1. CASE UNCHANGED heard /\ UNCHANGED recvd
    BY <2>1
  <2>2. CASE /\ peer[c] # "reset"
             /\ heard' = [heard EXCEPT ![c] = @ \cup {"503"}]
             /\ recvd' = [recvd EXCEPT ![c] = @ + 1]
    BY <1>5, <2>2 DEF TypeOK
  <2>3. QED
    BY <1>2, <2>1, <2>2
<1>9. SlotTable' /\ PendingIsOwned' /\ ReadyBits'
  BY <1>1 DEF SlotTable, PendingIsOwned, ReadyBits, Closing
<1>10. AnswerIntegrity'
  BY <1>7, <1>8 DEF AnswerIntegrity
<1>11. OneDescriptor'
  BY <1>6 DEF OneDescriptor
<1>12. Arrivals'
  <2>1. \A d \in Clients : \A f \in Fds : owner[f] # d => owner'[f] # d
    BY <1>6
  <2>2. \A k \in Listeners : backlog[k] \subseteq Clients
    BY DEF TypeOK
  <2>3. QED
    BY <1>1, <1>4, <1>7, <2>1, <2>2 DEF Arrivals
<1>13. Delivery'
  BY <1>1, <1>3, <1>6, <1>7, <1>8 DEF Delivery, Written
<1>14. QED
  BY <1>9, <1>10, <1>11, <1>12, <1>13

\* Every step keeps the invariant.
LEMMA InvNext == IInv /\ [Next]_vars => IInv'
<1> SUFFICES ASSUME IInv, [Next]_vars PROVE IInv'
  OBVIOUS
<1>1. TypeOK'
  BY TypeNext DEF IInv
<1>2. CASE LoopStep
  <2>1. CASE TopOfLoop \/ SelectReturns \/ SkipListener \/ SkipRead \/ SkipWrite \/ ShutdownFree
    BY <1>1, <2>1, ScheduleSteps DEF IInv
  <2>2. CASE AcceptFails \/ Exit
    BY <1>1, <2>2, EndSteps DEF IInv, AcceptFails, Exit, peerVars
  <2>3. ASSUME NEW c \in Clients, SendKills(c) \/ ShutdownKills(c) PROVE IInv'
    BY <1>1, <2>3, EndSteps DEF IInv, SendKills, ShutdownKills, peerVars
  <2>4. ASSUME NEW c \in Clients, Accept(c) PROVE IInv'
    BY <1>1, <2>4, AcceptSteps DEF IInv
  <2>5. ASSUME NEW c \in Clients, CheckRequest(c) PROVE IInv'
    BY <1>1, <2>5, CheckRequestSteps DEF IInv
  <2>6. ASSUME NEW c \in Clients, SendPiece(c) PROVE IInv'
    BY <1>1, <2>6, SendPieceSteps DEF IInv
  <2>7. ASSUME NEW c \in Clients, SendFails(c) PROVE IInv'
    BY <1>1, <2>7, SendFailsSteps DEF IInv
  <2>8. CASE FinishResponse
    BY <1>1, <2>8, FinishSteps DEF IInv
  <2>9. ASSUME NEW c \in Clients, Shutdown503(c) PROVE IInv'
    BY <1>1, <2>9, Shutdown503Steps DEF IInv
  <2>10. QED
    BY <1>2, <2>1, <2>2, <2>3, <2>4, <2>5, <2>6, <2>7, <2>8, <2>9 DEF LoopStep
<1>3. CASE SelectFails
  BY <1>1, <1>3, ScheduleSteps DEF IInv
<1>4. CASE Sigint
  BY <1>1, <1>4, SignalSteps DEF IInv
<1>5. CASE PeerStep
  BY <1>1, <1>5, PeerSteps DEF IInv
<1>6. CASE UNCHANGED vars
  <2>1. Consistent'
    BY <1>1, <1>6, Quiet DEF vars, loopVars, kernelVars, peerVars, Closing
  <2>2. ReadyBits'
    BY <1>6 DEF IInv, vars, loopVars, ReadyBits, Tracked
  <2>3. QED
    BY <1>1, <2>1, <2>2 DEF IInv
<1>7. QED
  BY <1>2, <1>3, <1>4, <1>5, <1>6 DEF Next

\* So it always holds.
LEMMA InvAlways == Spec => []IInv
<1>1. Init => IInv
  BY TypeInit, InvInit DEF IInv
<1>2. IInv /\ [Next]_vars => IInv'
  BY InvNext
<1>3. QED
  BY <1>1, <1>2, PTL DEF Spec

-----------------------------------------------------------------------------
(* What follows from it.                                                   *)

\* The slot table names open connections, each once, for any number of slots,
\* descriptors and peers (the loop over client_socket, acceptConnection and
\* the erase-close-free sequence after sendResponse).
THEOREM SlotTableHolds == Spec => []SlotTable
<1>1. IInv => SlotTable
  BY DEF IInv, Consistent
<1>2. QED
  BY InvAlways, <1>1, PTL

\* A pending answer in _requests is keyed by a descriptor some slot holds and
\* belongs to the connection the descriptor now names, although descriptors
\* are reused.
THEOREM PendingIsOwnedHolds == Spec => []PendingIsOwned
<1>1. IInv => PendingIsOwned
  BY DEF IInv, Consistent
<1>2. QED
  BY InvAlways, <1>1, PTL

\* No peer is ever sent a piece of another's answer, more than one answer, or
\* a 503 after part of an answer.
THEOREM AnswerIntegrityHolds == Spec => []AnswerIntegrity
<1>1. IInv => AnswerIntegrity
  BY DEF IInv, Consistent
<1>2. QED
  BY InvAlways, <1>1, PTL

\* The steps that change owner, clientSockets, or neither.
LEMMA OwnerChanges ==
    ASSUME IInv, [Next]_vars, owner' # owner
    PROVE  \/ \E c \in Clients : Accept(c) \/ CheckRequest(c) \/ Shutdown503(c)
           \/ FinishResponse
           \/ owner' = [f \in Fds |-> "free"] /\ ~Running'
  BY DEF Next, LoopStep, TopOfLoop, SelectReturns, SkipListener, AcceptFails,
         SkipRead, SkipWrite, SendPiece, SendFails, SendKills, ShutdownFree,
         ShutdownKills, Exit, ProcessEnds, SelectFails, Sigint, PeerStep, Connect,
         Send, Close, Reset, Drain, vars, loopVars, kernelVars, peerVars, Running

\* accept never returns a descriptor whose bit is left from the last select.
THEOREM NoStaleBitsHolds == Spec => NoStaleBits
<1> DEFINE Fresh == \A f \in Fds : owner[f] = "free" /\ owner'[f] \in Clients
                                   => f \notin readfds \cup writefds
<1>1. IInv /\ [Next]_vars => [Fresh]_vars
  <2> SUFFICES ASSUME IInv, [Next]_vars, NEW f \in Fds,
                      owner[f] = "free", owner'[f] \in Clients
               PROVE  f \notin readfds \cup writefds
    OBVIOUS
  <2> USE ConstantsAssumption
  <2>1. owner' # owner
    OBVIOUS
  <2>2. ASSUME NEW c \in Clients, Accept(c) PROVE f \notin readfds \cup writefds
    <3>1. writefds \cup (readfds \cap Fds) \subseteq Tracked /\ pc = "accept"
      BY <2>2 DEF IInv, ReadyBits, Accept
    <3>2. \A g \in Tracked : owner[g] \in Clients
      <4>1. \A i \in Slots : clientSockets[i] # 0 => owner[clientSockets[i]] \in Clients
        BY <3>1 DEF IInv, Consistent, SlotTable, Closing
      <4>2. 0 \notin Fds
        BY DEF Fds
      <4>3. QED
        BY <4>1, <4>2 DEF Tracked
    <3>3. "free" \notin Clients
      BY ONLY ConstantsAssumption
    <3>4. f \notin Tracked
      BY <3>2, <3>3
    <3>5. QED
      BY <3>1, <3>4
  <2>3. ASSUME NEW c \in Clients, CheckRequest(c) \/ Shutdown503(c)
        PROVE  f \notin readfds \cup writefds
    <3>1. owner'[f] \in {owner[f], "free", "leaked"}
      BY <2>3, HandlerKeepsOpen DEF Shutdown503, IInv, TypeOK
    <3>2. QED
      BY <3>1
  <2>4. CASE FinishResponse
    BY <2>4 DEF FinishResponse, IInv, TypeOK
  <2>5. QED
    BY <2>1, <2>2, <2>3, <2>4, OwnerChanges
<1>2. QED
  BY InvAlways, <1>1, PTL DEF Spec, NoStaleBits

\* While the loop runs, a connection is closed only when send has taken the
\* whole of its answer, whatever sends failed before.
THEOREM ClosedOnlyAnsweredHolds == Spec => ClosedOnlyAnswered
<1> DEFINE Whole == \A f \in Fds :
                owner[f] \in Clients /\ owner'[f] # owner[f] /\ pc = "write" /\ Running'
                    => recvd[owner[f]] = ResponseLen
<1>1. IInv /\ [Next]_vars => [Whole]_vars
  <2> SUFFICES ASSUME IInv, [Next]_vars, NEW f \in Fds, owner[f] \in Clients,
                      owner'[f] # owner[f], pc = "write", Running'
               PROVE  recvd[owner[f]] = ResponseLen
    OBVIOUS
  <2>1. FinishResponse
    <3>1. ASSUME NEW c \in Clients, CheckRequest(c) PROVE FALSE
      BY <3>1, ConstantsAssumption DEF CheckRequest, Handles
    <3>2. QED
      BY <3>1, OwnerChanges DEF Accept, Shutdown503
  <2>2. f = Sd /\ totalSent = ResponseLen
    BY <2>1 DEF FinishResponse, AllSent, IInv, TypeOK
  <2>3. totalSent # 0
    BY <2>2, ConstantsAssumption
  <2>4. QED
    BY <2>2, <2>3 DEF IInv, Consistent, Delivery
<1>2. QED
  BY InvAlways, <1>1, PTL DEF Spec, ClosedOnlyAnswered

\* A slot is emptied or overwritten only together with the closing of its
\* connection.
THEOREM SlotKeepsConnectionHolds == Spec => SlotKeepsConnection
<1> DEFINE Kept == \A i \in Slots :
                clientSockets[i] # 0 /\ clientSockets'[i] # clientSockets[i]
                    => owner'[clientSockets[i]] = "free"
<1>1. IInv /\ [Next]_vars => [Kept]_vars
  <2> SUFFICES ASSUME IInv, [Next]_vars, NEW i \in Slots, clientSockets[i] # 0,
                      clientSockets'[i] # clientSockets[i]
               PROVE  owner'[clientSockets[i]] = "free"
    OBVIOUS
  <2>1. clientSockets[i] \in Fds
    BY DEF IInv, TypeOK
  <2>2. \/ FinishResponse
        \/ owner' = [f \in Fds |-> "free"]
        \/ \E c \in Clients : Accept(c)
    BY DEF Next, LoopStep, TopOfLoop, SelectReturns, SkipListener, AcceptFails,
           SkipRead, CheckRequest, Handles, SkipWrite, SendPiece, SendFails, SendKills,
           ShutdownFree, Shutdown503, ShutdownKills, Exit, ProcessEnds,
           SelectFails, Sigint, PeerStep, Connect, Send, Close, Reset, Drain,
           vars, loopVars
  <2>3. CASE FinishResponse
    <3>1. i = si
      BY <2>3 DEF FinishResponse, Cleared, IInv, TypeOK
    <3>2. QED
      BY <2>1, <2>3, <3>1 DEF FinishResponse, Sd, IInv, TypeOK
  <2>4. CASE owner' = [f \in Fds |-> "free"]
    BY <2>1, <2>4
  <2>5. ASSUME NEW c \in Clients, Accept(c) PROVE FALSE
    BY <2>5, LowestFree DEF Accept, StoreInSlot, IInv, TypeOK
  <2>6. QED
    BY <2>2, <2>3, <2>4, <2>5
<1>2. QED
  BY InvAlways, <1>1, PTL DEF Spec, SlotKeepsConnection

\* acceptConnection leaves a connection without a slot only when every slot
\* is taken.
THEOREM ForgottenOnlyWhenFullHolds == Spec => ForgottenOnlyWhenFull
<1> DEFINE Seated == \A f \in Fds :
                owner[f] = "free" /\ owner'[f] \in Clients /\ f \notin Tracked'
                    => FreeSlots = {}
<1>1. IInv /\ [Next]_vars => [Seated]_vars
  <2> SUFFICES ASSUME IInv, [Next]_vars, NEW f \in Fds, owner[f] = "free",
                      owner'[f] \in Clients, FreeSlots # {}
               PROVE  f \in Tracked'
    OBVIOUS
  <2>1. PICK c \in Clients : Accept(c)
    <3>1. owner'[f] \notin {owner[f], "free", "leaked"}
      BY ConstantsAssumption
    <3>2. ASSUME NEW c \in Clients, CheckRequest(c) PROVE FALSE
      BY <3>1, <3>2, HandlerKeepsOpen DEF IInv
    <3>3. ASSUME NEW c \in Clients, Shutdown503(c) PROVE FALSE
      BY <3>1, <3>3 DEF Shutdown503, IInv, TypeOK
    <3>4. ~FinishResponse
      BY <3>1 DEF FinishResponse, IInv, TypeOK
    <3>5. QED
      BY <3>1, <3>2, <3>3, <3>4, OwnerChanges
  <2>2. f = Lowest(FreeFds)
    BY <2>1, ConstantsAssumption DEF Accept, IInv, TypeOK
  <2>3. Lowest(FreeSlots) \in Slots
    BY LowestFree
  <2>4. clientSockets'[Lowest(FreeSlots)] = f
    BY <2>1, <2>2, <2>3 DEF Accept, StoreInSlot, IInv, TypeOK
  <2>5. QED
    BY <2>3, <2>4 DEF Tracked
<1>2. QED
  BY InvAlways, <1>1, PTL DEF Spec, ForgottenOnlyWhenFull

-----------------------------------------------------------------------------
(* The loop is a ConnService: what the mapping needs besides IInv.         *)

\* A connection that was sent a whole answer is closed before the loop does
\* anything else.
Unfinished ==
    \A f \in Fds : owner[f] \in Clients /\ recvd[owner[f]] = ResponseLen
        => pc = "write" /\ Sd = f /\ totalSent = ResponseLen

\* Pieces are pieces of something.
Audible == \A c \in Clients : recvd[c] # 0 => heard[c] # {}

SInv == IInv /\ Unfinished /\ Audible

\* The end of the process closes everything.
LEMMA EndKeeps ==
    ASSUME ProcessEnds("exited") \/ ProcessEnds("dead"), Audible, UNCHANGED <<heard, recvd>>
    PROVE  Unfinished' /\ Audible'
  BY ConstantsAssumption DEF ProcessEnds, Unfinished, Audible

\* A step that sends nothing, opens no connection and does not end a write.
LEMMA SilentKeeps ==
    ASSUME TypeOK, Unfinished, Audible, UNCHANGED <<heard, recvd>>,
           \A f \in Fds : owner'[f] \in Clients => owner'[f] = owner[f],
           pc = "write" => UNCHANGED <<pc, si, clientSockets, totalSent>>
    PROVE  Unfinished' /\ Audible'
  BY DEF Unfinished, Audible, Sd

\* The steps that do.
LEMMA FinishedNext == SInv /\ [Next]_vars => Unfinished' /\ Audible'
<1> SUFFICES ASSUME SInv, [Next]_vars PROVE Unfinished' /\ Audible'
  OBVIOUS
<1> USE ConstantsAssumption DEF SInv, IInv
<1>1. CASE \/ TopOfLoop \/ SelectReturns \/ SkipListener \/ SkipRead \/ ShutdownFree
           \/ SelectFails \/ Sigint \/ PeerStep \/ UNCHANGED vars
  BY <1>1, SilentKeeps
  DEF TopOfLoop, SelectReturns, SkipListener, SkipRead, ShutdownFree, SelectFails,
      Sigint, PeerStep, Connect, Send, Close, Reset, Drain,
      vars, loopVars, kernelVars, peerVars
<1>2. CASE AcceptFails \/ Exit
  BY <1>2, EndKeeps DEF AcceptFails, Exit, peerVars
<1>3. ASSUME NEW c \in Clients, SendKills(c) \/ ShutdownKills(c)
      PROVE  Unfinished' /\ Audible'
  BY <1>3, EndKeeps DEF SendKills, ShutdownKills, peerVars
<1>4. ASSUME NEW c \in Clients, CheckRequest(c) PROVE Unfinished' /\ Audible'
  <2>1. PICK n, r : Handles(c, n, r)
    BY <1>4 DEF CheckRequest
  <2>2. CASE r.act = "stop"
    BY <2>1, <2>2, EndKeeps DEF Handles
  <2>3. CASE r.act # "stop"
    <3>1. \A f \in Fds : owner'[f] \in Clients => owner'[f] = owner[f]
      BY <2>1, <2>3, KeptIsLeaked, ConstantsAssumption DEF Handles
    <3>2. QED
      BY <2>1, <2>3, <3>1, SilentKeeps DEF Handles
  <2>4. QED
    BY <2>2, <2>3
<1>5. ASSUME NEW c \in Clients, Accept(c) PROVE Unfinished' /\ Audible'
  <2>1. recvd[c] = 0 /\ recvd' = recvd /\ heard' = heard /\ pc = "accept"
    BY <1>5 DEF Accept, Consistent, Arrivals, TypeOK, peerVars
  <2>2. \A f \in Fds : owner'[f] \in Clients => owner'[f] = owner[f] \/ owner'[f] = c
    BY <1>5 DEF Accept, TypeOK
  <2>3. QED
    BY <2>1, <2>2 DEF Unfinished, Audible
<1>6. CASE SkipWrite
  <2>1. totalSent = 0
    BY <1>6 DEF SkipWrite, Consistent, Delivery
  <2>2. \A f \in Fds : owner[f] \in Clients => recvd[owner[f]] # ResponseLen
    BY <1>6, <2>1 DEF Unfinished
  <2>3. QED
    BY <1>6, <2>2 DEF SkipWrite, Unfinished, Audible, kernelVars, peerVars
<1>7. ASSUME NEW c \in Clients, SendFails(c) PROVE Unfinished' /\ Audible'
  <2>1. totalSent < ResponseLen /\ UNCHANGED <<owner, heard, recvd>>
    BY <1>7 DEF SendFails, kernelVars
  <2>2. \A f \in Fds : owner[f] \in Clients => recvd[owner[f]] # ResponseLen
    BY <2>1 DEF Unfinished, TypeOK
  <2>3. QED
    BY <2>1, <2>2 DEF Unfinished, Audible
<1>8. CASE FinishResponse
  <2>1. Sd \in Fds /\ owner' = [owner EXCEPT ![Sd] = "free"] /\ UNCHANGED <<heard, recvd>>
    BY <1>8 DEF FinishResponse, TypeOK, peerVars
  <2>2. \A f \in Fds : owner'[f] \in Clients => f # Sd /\ owner'[f] = owner[f]
    BY <2>1 DEF TypeOK
  <2>3. QED
    BY <2>1, <2>2 DEF Unfinished, Audible
<1>9. ASSUME NEW c \in Clients, SendPiece(c) PROVE Unfinished' /\ Audible'
  <2>1. /\ pc = "write" /\ owner[Sd] = c /\ Sd \in Fds /\ totalSent < ResponseLen
        /\ totalSent' = totalSent + 1
        /\ heard' = [heard EXCEPT ![c] = @ \cup {requests[Sd]}]
        /\ recvd' = [recvd EXCEPT ![c] = @ + 1]
        /\ UNCHANGED <<pc, owner, si, clientSockets>>
    BY <1>9 DEF SendPiece, kernelVars, TypeOK
  <2>2. \A f \in Fds \ {Sd} : owner[f] # c
    BY <2>1 DEF Consistent, OneDescriptor
  <2>3. recvd[c] = totalSent
    BY <1>9, <2>1 DEF SendPiece, Consistent, Delivery, Written
  <2>4. recvd'[c] = totalSent + 1 /\ \A d \in Clients \ {c} : recvd'[d] = recvd[d]
    BY <2>1, <2>3 DEF TypeOK
  <2>5. \A d \in Clients \ {c} : heard'[d] = heard[d]
    BY <2>1 DEF TypeOK
  <2>6. heard'[c] # {}
    BY <2>1 DEF TypeOK
  <2>7. Audible'
    BY <2>4, <2>5, <2>6 DEF Audible
  <2>8. \A f \in Fds \ {Sd} : owner[f] \in Clients => recvd'[owner[f]] # ResponseLen
    BY <2>1, <2>2, <2>4 DEF Unfinished, TypeOK
  <2>9. recvd'[c] = ResponseLen => totalSent' = ResponseLen
    BY <2>1, <2>4
  <2>10. Unfinished'
    BY <2>1, <2>8, <2>9 DEF Unfinished, Sd
  <2>11. QED
    BY <2>7, <2>10
<1>10. ASSUME NEW c \in Clients, Shutdown503(c) PROVE Unfinished' /\ Audible'
  <2>1. /\ pc = "shutdown" /\ owner[Sd] = c /\ Sd \in Fds
        /\ owner' = [owner EXCEPT ![Sd] = "free"]
    BY <1>10 DEF Shutdown503, Sd, TypeOK
  <2>2. \/ /\ heard' = [heard EXCEPT ![c] = @ \cup {"503"}]
           /\ recvd' = [recvd EXCEPT ![c] = @ + 1]
        \/ UNCHANGED heard /\ UNCHANGED recvd
    BY <1>10, Zenon DEF Shutdown503
  <2>3. \A f \in Fds : owner'[f] \in Clients => owner'[f] = owner[f] /\ owner[f] # c
    BY <2>1 DEF Consistent, OneDescriptor, TypeOK
  <2>4. \A d \in Clients \ {c} : heard'[d] = heard[d] /\ recvd'[d] = recvd[d]
    <3>1. heard \in [Clients -> SUBSET (Clients \cup {"none", "503"})] /\ recvd \in [Clients -> Nat]
      BY DEF TypeOK
    <3>2. QED
      BY ONLY <2>2, <3>1, c \in Clients
  <2>5. recvd'[c] # 0 => heard'[c] # {}
    <3>1. heard \in [Clients -> SUBSET (Clients \cup {"none", "503"})] /\ recvd \in [Clients -> Nat]
      BY DEF TypeOK
    <3>2. CASE UNCHANGED heard /\ UNCHANGED recvd
      BY <3>2 DEF Audible
    <3>3. CASE heard' = [heard EXCEPT ![c] = @ \cup {"503"}]
      BY <3>1, <3>3
    <3>4. QED
      BY <2>2, <3>2, <3>3
  <2>6. QED
    BY <2>1, <2>3, <2>4, <2>5 DEF Unfinished, Audible
<1>11. QED
  BY <1>1, <1>2, <1>3, <1>4, <1>5, <1>6, <1>7, <1>8, <1>9, <1>10 DEF Next, LoopStep

LEMMA SInvAlways == Spec => []SInv
<1>1. Init => Unfinished /\ Audible
  BY ConstantsAssumption DEF Init, Unfinished, Audible
<1>2. SInv /\ [Next]_vars => Unfinished' /\ Audible'
  BY FinishedNext
<1>3. Spec => [](Unfinished /\ Audible)
  BY <1>1, <1>2, InvAlways, PTL DEF Spec, SInv
<1>4. QED
  BY <1>3, InvAlways, PTL DEF SInv

-----------------------------------------------------------------------------
(* Seats are slots.                                                        *)

\* Outside the shutdown a connection that has a slot is not waiting.
LEMMA SeatedAreTracked ==
    ASSUME SInv
    PROVE  Service!Seated = TrackedClients
<1>1. \A c \in Clients : c \in TrackedClients => c \in Open /\ c \notin Waiting
  BY DEF SInv, IInv, Consistent, Arrivals, TrackedClients, Tracked, Open, Waiting
<1>2. \A c \in Clients : Phase(c) \in {"served", "pending"} <=> c \in TrackedClients
  BY <1>1 DEF Phase, Seating, Ending
<1>3. QED
  BY <1>2 DEF Service!Seated, TrackedClients

\* There is a free seat when there is a free slot.
LEMMA SeatsAreSlots ==
    ASSUME SInv, ~Closing
    PROVE  Cardinality(Service!Seated) < MAX_CLIENTS <=> FreeSlots # {}
<1> USE ConstantsAssumption DEF SInv, IInv, Consistent
<1> DEFINE Used == Slots \ FreeSlots
           g == [i \in Used |-> owner[clientSockets[i]]]
<1>1. \A i \in Used : clientSockets[i] \in Fds /\ owner[clientSockets[i]] \in Clients
  BY DEF FreeSlots, SlotTable, TypeOK
<1>2. g \in [Used -> TrackedClients]
  BY <1>1 DEF TrackedClients, Tracked
<1>3. \A i, j \in Used : g[i] = g[j] => i = j
  <2>1. \A i, j \in Used : clientSockets[i] = clientSockets[j] => i = j
    BY DEF FreeSlots, SlotTable
  <2>2. QED
    BY <1>1, <2>1 DEF OneDescriptor
<1>4. \A c \in TrackedClients : \E i \in Used : g[i] = c
  <2>1. \A f \in Tracked : \E i \in Used : clientSockets[i] = f
    BY DEF Tracked, FreeSlots, Fds
  <2>2. QED
    BY <2>1 DEF TrackedClients
<1>5. ExistsBijection(Used, TrackedClients)
  <2> HIDE DEF Used, g
  <2>1. g \in Injection(Used, TrackedClients)
    BY <1>2, <1>3, Zenon DEF Injection, IsInjective
  <2>2. g \in Surjection(Used, TrackedClients)
    BY <1>2, <1>4, Zenon DEF Surjection
  <2>3. QED
    BY <2>1, <2>2, Zenon DEF ExistsBijection, Bijection
<1>6. IsFiniteSet(Slots) /\ Cardinality(Slots) = MAX_CLIENTS
  <2>1. 1 \in Int /\ MAX_CLIENTS \in Int
    OBVIOUS
  <2>2. IsFiniteSet(1..MAX_CLIENTS) /\ Cardinality(1..MAX_CLIENTS) = MAX_CLIENTS
    BY <2>1, FS_Interval
  <2>3. QED
    BY <2>2 DEF Slots
<1>7. /\ IsFiniteSet(Used) /\ Cardinality(Used) <= MAX_CLIENTS
      /\ Cardinality(Used) = MAX_CLIENTS => Used = Slots
  BY <1>6, FS_Subset
<1>8. Cardinality(TrackedClients) = Cardinality(Used)
  BY <1>5, <1>7, FS_Bijection
<1>9. FreeSlots = {} <=> Used = Slots
  BY DEF FreeSlots
<1>10. Cardinality(Used) \in Nat
  BY <1>7, FS_CardinalityType
<1> HIDE DEF Used
<1>11. QED
  BY <1>6, <1>7, <1>8, <1>9, <1>10, SeatedAreTracked

-----------------------------------------------------------------------------
(* Which steps change a connection's phase.                                *)

Ahead == <<[c \in Clients |-> Phase(c)], Standing>>

\* A phase depends on the connection's own place only.
LEMMA SamePlace ==
    ASSUME NEW d \in Clients,
           \A k \in Listeners : d \in backlog'[k] <=> d \in backlog[k],
           \A f \in Fds : /\ owner'[f] = d <=> owner[f] = d
                          /\ owner[f] = d => /\ requests'[f] = requests[f]
                                             /\ f \in Tracked' <=> f \in Tracked,
           d \notin Connected =>
               peer'[d] = peer[d] /\ heard'[d] = heard[d] /\ recvd'[d] = recvd[d]
    PROVE  Phase(d)' = Phase(d)
<1>1. d \in Waiting' <=> d \in Waiting
  BY DEF Waiting
<1>2. d \in Open' <=> d \in Open
  BY DEF Open
<1>3. d \in TrackedClients' <=> d \in TrackedClients
  BY DEF TrackedClients, Tracked
<1>4. (\E f \in Fds : owner'[f] = d /\ requests'[f] # "none")
         <=> (\E f \in Fds : owner[f] = d /\ requests[f] # "none")
  OBVIOUS
<1>5. Seating(d)' = Seating(d)
  BY <1>3, <1>4 DEF Seating
<1>6. d \notin Connected => Ending(d)' = Ending(d)
  BY DEF Ending
<1>7. QED
  BY <1>1, <1>2, <1>5, <1>6 DEF Phase, Connected

\* A step that moves no connection and leaves the server's standing.
LEMMA QuietStep ==
    ASSUME UNCHANGED <<backlog, owner, requests, clientSockets, Standing>>,
           \A d \in Clients : d \notin Connected =>
               peer'[d] = peer[d] /\ heard'[d] = heard[d] /\ recvd'[d] = recvd[d]
    PROVE  UNCHANGED Ahead
<1>1. Tracked' = Tracked
  BY DEF Tracked
<1>2. \A d \in Clients : Phase(d)' = Phase(d)
  BY <1>1, SamePlace
<1>3. QED
  BY <1>2 DEF Ahead

\* One connection moves.
LEMMA OneMoves ==
    ASSUME NEW c \in Clients, NEW to, Phase(c)' = to,
           \A d \in Clients \ {c} : Phase(d)' = Phase(d)
    PROVE  [d \in Clients |-> Phase(d)]' = [[d \in Clients |-> Phase(d)] EXCEPT ![c] = to]
  OBVIOUS

-----------------------------------------------------------------------------
(* The steps of the loop as steps of the service.                          *)

\* A connection with the descriptor of a slot in use is seated.
LEMMA SlotIsSeat ==
    ASSUME SInv, NEW c \in Clients, Sd # 0, owner[Sd] = c
    PROVE  /\ Sd \in Fds /\ Sd \in Tracked
           /\ \A f \in Fds : owner[f] = c => f = Sd
           /\ c \in Open /\ c \in TrackedClients /\ c \notin Waiting /\ peer[c] # "none"
           /\ Phase(c) = IF requests[Sd] # "none" THEN "pending" ELSE "served"
<1> USE DEF SInv, IInv, Consistent
<1>1. Sd \in Fds /\ Sd \in Tracked
  BY DEF Sd, Tracked, TypeOK
<1>2. \A f \in Fds : owner[f] = c => f = Sd
  BY <1>1 DEF OneDescriptor
<1>3. c \in Open /\ c \in TrackedClients /\ c \notin Waiting /\ peer[c] # "none"
  BY <1>1 DEF Open, TrackedClients, Waiting, Arrivals
<1>4. QED
  BY <1>1, <1>2, <1>3 DEF Phase, Seating

\* The end of the process cuts whoever is still connected.
LEMMA EndIsGoDown ==
    ASSUME SInv, Running, ProcessEnds("exited") \/ ProcessEnds("dead"),
           UNCHANGED <<peer, heard, recvd>>,
           pc = "write" => totalSent # ResponseLen
    PROVE  Service!GoDown
<1> USE ConstantsAssumption DEF SInv, IInv, Consistent
<1>1. Standing # "down" /\ Standing' = "down"
  BY DEF Standing, Closing, Running, ProcessEnds
<1>2. ASSUME NEW c \in Clients
      PROVE  Phase(c)' = IF Phase(c) \in {"queued", "served", "pending", "forgotten"}
                         THEN "cut" ELSE Phase(c)
  <2>1. c \notin Waiting' /\ c \notin Open'
    BY DEF ProcessEnds, Waiting, Open
  <2>2. Phase(c)' = IF peer[c] = "none" THEN "away" ELSE Ending(c)
    BY <2>1 DEF Phase, Ending
  <2>3. CASE c \in Waiting
    <3>1. peer[c] # "none" /\ recvd[c] = 0 /\ heard[c] = {}
      BY <2>3 DEF Waiting, Arrivals, Delivery
    <3>2. Ending(c) = "cut" /\ Phase(c) = "queued"
      BY <2>3, <3>1 DEF Ending, Phase
    <3>3. QED
      BY <2>2, <3>1, <3>2
  <2>4. CASE c \in Open /\ c \notin Waiting
    <3>1. PICK f \in Fds : owner[f] = c
      BY <2>4 DEF Open
    <3>2. peer[c] # "none" /\ recvd[c] # ResponseLen
      BY <3>1 DEF Arrivals, Unfinished
    <3>3. heard[c] # {"503"}
      BY <3>1 DEF Delivery
    <3>4. Ending(c) = "cut" /\ Phase(c) \in {"served", "pending", "forgotten"}
      BY <2>4, <3>2, <3>3 DEF Ending, Phase, Seating
    <3>5. QED
      BY <2>2, <3>2, <3>4
  <2>5. CASE c \notin Open /\ c \notin Waiting
    BY <2>2, <2>5 DEF Phase, Ending
  <2>6. QED
    BY <2>3, <2>4, <2>5
<1>3. QED
  BY <1>1, <1>2 DEF Service!GoDown

\* A connection is accepted: it is seated when a slot is free.
LEMMA AcceptIsSeat ==
    ASSUME SInv, NEW c \in Clients, Accept(c)
    PROVE  Service!Seat(c)
<1> USE ConstantsAssumption DEF SInv, IInv, Consistent
<1> DEFINE fd == Lowest(FreeFds)
<1>1. fd \in Fds /\ owner[fd] = "free"
  BY LowestFree DEF Accept
<1>2. /\ pc = "accept" /\ pc' \in {"accept", "read"} /\ li \in Listeners
      /\ c \in backlog[li] /\ UNCHANGED <<requests, peer, heard, recvd>>
      /\ owner' = [owner EXCEPT ![fd] = c]
      /\ backlog' = [backlog EXCEPT ![li] = @ \ {c}]
      /\ clientSockets' = StoreInSlot(fd)
  BY DEF Accept, NextListener, peerVars, TypeOK
<1> HIDE DEF fd
<1>3. Standing = "serving" /\ Standing' = "serving" /\ ~Closing
  BY <1>2 DEF Standing, Closing, Running
<1>4. \A f \in Fds : owner'[f] = IF f = fd THEN c ELSE owner[f]
  BY <1>1, <1>2 DEF TypeOK
<1>5. \A d \in Clients : \A k \in Listeners :
          d \in backlog'[k] <=> d \in backlog[k] /\ ~(d = c /\ k = li)
  BY <1>2 DEF TypeOK
<1>6. c \in Waiting /\ c \notin Waiting' /\ peer[c] # "none"
  BY <1>2, <1>5 DEF Waiting, Arrivals
<1>7. fd \notin Tracked /\ requests[fd] = "none" /\ fd # 0
  <2>1. \A i \in Slots : clientSockets[i] # 0 => owner[clientSockets[i]] \in Clients
    BY <1>3 DEF SlotTable
  <2>2. fd # 0 /\ owner[fd] \notin Clients
    BY <1>1 DEF Fds
  <2>3. fd \notin Tracked
    BY <2>1, <2>2 DEF Tracked
  <2>4. QED
    BY <1>1, <1>3, <2>2, <2>3 DEF PendingIsOwned
<1>8. fd \in Tracked' <=> FreeSlots # {}
  <2>1. CASE FreeSlots = {}
    BY <1>2, <1>7, <2>1 DEF StoreInSlot, Tracked
  <2>2. CASE FreeSlots # {}
    <3>1. Lowest(FreeSlots) \in Slots
      BY <2>2, LowestFree
    <3>2. clientSockets'[Lowest(FreeSlots)] = fd
      BY <1>2, <2>2, <3>1 DEF StoreInSlot, TypeOK
    <3>3. QED
      BY <1>1, <2>2, <3>1, <3>2 DEF Tracked
  <2>3. QED
    BY <2>1, <2>2
<1>9. \A f \in Fds \ {fd} : f \in Tracked' <=> f \in Tracked
  <2>1. \/ clientSockets' = clientSockets
        \/ \E i \in Slots : clientSockets[i] = 0 /\ clientSockets' = [clientSockets EXCEPT ![i] = fd]
    BY <1>2, LowestFree DEF StoreInSlot
  <2>2. 0 \notin Fds
    BY DEF Fds
  <2>3. QED
    BY <2>1, <2>2 DEF Tracked, TypeOK
<1>10. Phase(c) = "queued"
  BY <1>6 DEF Phase
<1>11. c \in Open' /\ (c \in TrackedClients' <=> FreeSlots # {})
  <2>1. \A f \in Fds : owner[f] # c
    BY <1>2 DEF Arrivals
  <2>2. c \in Open'
    BY <1>1, <1>4 DEF Open
  <2>3. \A f \in Fds : owner'[f] = c <=> f = fd
    BY <1>4, <2>1
  <2>4. c \in TrackedClients' <=> fd \in Tracked'
    BY <1>1, <2>3 DEF TrackedClients, Tracked
  <2>5. QED
    BY <1>8, <2>2, <2>4
<1>12. Phase(c)' = IF FreeSlots # {} THEN "served" ELSE "forgotten"
  <2>1. ~\E f \in Fds : owner'[f] = c /\ requests'[f] # "none"
    BY <1>2, <1>4, <1>7 DEF Arrivals
  <2>2. QED
    BY <1>6, <1>11, <2>1 DEF Phase, Seating
<1>13. ASSUME NEW d \in Clients \ {c} PROVE Phase(d)' = Phase(d)
  <2>1. \A f \in Fds : owner'[f] = d <=> owner[f] = d
    BY <1>1, <1>4
  <2>2. \A f \in Fds : owner[f] = d => f # fd
    BY <1>1
  <2>3. QED
    BY <1>2, <1>5, <1>9, <2>1, <2>2, SamePlace
<1>14. Cardinality(Service!Seated) < MAX_CLIENTS <=> FreeSlots # {}
  BY <1>3, SeatsAreSlots
<1>15. [d \in Clients |-> Phase(d)]'
          = [[d \in Clients |-> Phase(d)]
               EXCEPT ![c] = IF Cardinality(Service!Seated) < MAX_CLIENTS
                             THEN "served" ELSE "forgotten"]
  BY <1>12, <1>13, <1>14, OneMoves
<1>16. Service!Cardinality(Service!Seated) = Cardinality(Service!Seated)
  BY Zenon DEF Service!Cardinality, Cardinality
<1>17. QED
  BY <1>3, <1>10, <1>15, <1>16 DEF Service!Seat, Service!Moves

\* A request is read: it is answered, left without an answer, or ends the
\* process; a descriptor it leaks is no connection's.
LEMMA CheckRequestIsAsk ==
    ASSUME SInv, NEW c \in Clients, CheckRequest(c)
    PROVE  Service!Ask(c) \/ Service!GoDown \/ UNCHANGED Ahead
<1> USE ConstantsAssumption DEF SInv, IInv, Consistent
<1>1. PICK n, r : Handles(c, n, r)
  BY DEF CheckRequest
<1>2. pc = "read" /\ Sd # 0 /\ owner[Sd] = c /\ requests[Sd] = "none"
  BY <1>1 DEF Handles
<1>3. CASE r.act = "stop"
  BY <1>1, <1>2, <1>3, EndIsGoDown DEF Handles, Running
<1>4. CASE r.act # "stop"
  <2>1. /\ requests' = [requests EXCEPT ![Sd] = Store(r, c)] /\ pc' = "write"
        /\ owner' = KeptOpen(r)
        /\ UNCHANGED <<clientSockets, backlog, peer, heard, recvd>>
    BY <1>1, <1>4 DEF Handles
  <2>2. \A f \in Fds : \A d \in Clients : owner'[f] = d <=> owner[f] = d
    BY <2>1, KeptIsLeaked
  <2>3. Sd \in Fds /\ (\A f \in Fds : owner[f] = c => f = Sd) /\ Phase(c) = "served"
    BY <1>2, SlotIsSeat
  <2>4. Standing = "serving" /\ Standing' = "serving" /\ Tracked' = Tracked
    BY <1>2, <2>1 DEF Standing, Closing, Running, Tracked
  <2>5. \A d \in Clients \ {c} : Phase(d)' = Phase(d)
    <3>1. \A f \in Fds : f # Sd => requests'[f] = requests[f]
      BY <2>1 DEF TypeOK
    <3>2. QED
      BY <1>2, <2>1, <2>2, <2>4, <3>1, SamePlace
  <2>6. CASE Store(r, c) = "none"
    <3>1. requests' = requests
      BY <1>2, <2>1, <2>3, <2>6 DEF TypeOK
    <3>2. Phase(c)' = Phase(c)
      BY <2>1, <2>2, <2>4, <3>1, SamePlace
    <3>3. QED
      BY <2>4, <2>5, <3>2 DEF Ahead
  <2>7. CASE Store(r, c) = c
    <3>1. requests'[Sd] = c /\ owner'[Sd] = c
      BY <1>2, <2>1, <2>2, <2>3, <2>7 DEF TypeOK
    <3>2. c \in Open' /\ c \notin Waiting' /\ c \in TrackedClients'
      <4>1. c \in Open /\ c \notin Waiting /\ c \in TrackedClients
        BY <1>2, SlotIsSeat
      <4>2. QED
        BY <2>1, <2>2, <2>4, <4>1 DEF Open, Waiting, TrackedClients, Tracked
    <3>3. Phase(c)' = "pending"
      BY <2>3, <3>1, <3>2 DEF Phase, Seating
    <3>4. QED
      BY <2>3, <2>4, <2>5, <3>3, OneMoves DEF Service!Ask, Service!Moves
  <2>8. QED
    BY <2>6, <2>7 DEF Store
<1>5. QED
  BY <1>3, <1>4

\* The whole answer was sent: the connection leaves its seat answered.
LEMMA FinishIsAnswer ==
    ASSUME SInv, FinishResponse
    PROVE  \E c \in Clients : Service!Answer(c)
<1> USE ConstantsAssumption DEF SInv, IInv, Consistent
<1>1. /\ pc = "write" /\ pc' \in {"read", "top"} /\ totalSent = ResponseLen
      /\ requests' = [requests EXCEPT ![Sd] = "none"]
      /\ owner' = [owner EXCEPT ![Sd] = "free"]
      /\ clientSockets' = [clientSockets EXCEPT ![si] = 0]
      /\ UNCHANGED <<backlog, peer, heard, recvd>>
  BY DEF FinishResponse, NextSlot, Erased, Cleared, AllSent, peerVars
<1>2. PICK c \in Clients :
          owner[Sd] = c /\ Sd \in writefds /\ recvd[c] = ResponseLen /\ ResponseLen # 0
  BY <1>1 DEF Delivery
<1>3. Sd \in Fds /\ Sd # 0 /\ si \in Slots
  BY <1>2 DEF TypeOK, Fds
<1>4. requests[Sd] # "none"
  BY <1>1, <1>2, <1>3 DEF ReadyBits, Sd, Slots
<1>5. /\ \A f \in Fds : owner[f] = c => f = Sd
      /\ c \notin Waiting /\ peer[c] # "none" /\ Phase(c) = "pending"
  BY <1>2, <1>3, <1>4, SlotIsSeat
<1>6. heard[c] = {c}
  BY <1>2, <1>3 DEF Delivery, Audible
<1>7. \A f \in Fds : owner'[f] = IF f = Sd THEN "free" ELSE owner[f]
  BY <1>1, <1>3 DEF TypeOK
<1>8. Phase(c)' = "answered"
  <2>1. c \notin Waiting' /\ c \notin Open'
    BY <1>1, <1>2, <1>5, <1>7 DEF Waiting, Open
  <2>2. heard'[c] = {c} /\ recvd'[c] = ResponseLen /\ peer'[c] # "none"
    BY <1>1, <1>2, <1>5, <1>6
  <2>3. QED
    BY <2>1, <2>2, <1>1 DEF Phase, Ending
<1>9. ASSUME NEW d \in Clients, d # c PROVE Phase(d)' = Phase(d)
  <2>1. \A f \in Fds : owner'[f] = d <=> owner[f] = d
    BY <1>2, <1>7, <1>9
  <2>2. \A f \in Fds : owner[f] = d => f # Sd
    BY <1>2, <1>9
  <2>3. \A f \in Fds \ {Sd} : requests'[f] = requests[f] /\ (f \in Tracked' <=> f \in Tracked)
    BY <1>1, <1>3 DEF Tracked, Sd, Fds, TypeOK
  <2>4. QED
    BY <1>1, <2>1, <2>2, <2>3, SamePlace
<1>10. Standing = "serving" /\ Standing' = "serving"
  BY <1>1 DEF Standing, Closing, Running
<1>11. Service!Answer(c)
  BY <1>2, <1>5, <1>8, <1>9, <1>10, OneMoves DEF Service!Answer, Service!Moves
<1>12. QED
  BY <1>2, <1>11

\* The shutdown closes a connection, with a 503 or without.
LEMMA ShutdownIsRefuse ==
    ASSUME SInv, NEW c \in Clients, Shutdown503(c)
    PROVE  Service!Refuse(c)
<1> USE ConstantsAssumption DEF SInv, IInv, Consistent
<1>1. /\ pc = "shutdown" /\ pc' \in {"shutdown", "exiting"} /\ Sd # 0 /\ owner[Sd] = c
      /\ owner' = [owner EXCEPT ![Sd] = "free"]
      /\ UNCHANGED <<requests, clientSockets, backlog, peer>>
  BY DEF Shutdown503, NextShutdownSlot
<1>2. \/ /\ peer[c] \notin {"reset", "broken"}
         /\ heard' = [heard EXCEPT ![c] = @ \cup {"503"}]
         /\ recvd' = [recvd EXCEPT ![c] = @ + 1]
      \/ UNCHANGED heard /\ UNCHANGED recvd
  BY Zenon DEF Shutdown503
<1>3. /\ Sd \in Fds /\ \A f \in Fds : owner[f] = c => f = Sd
      /\ c \in TrackedClients /\ c \notin Waiting /\ peer[c] # "none"
  BY <1>1, SlotIsSeat
<1>4. \A f \in Fds : owner'[f] = IF f = Sd THEN "free" ELSE owner[f]
  BY <1>1, <1>3 DEF TypeOK
<1>5. c \notin Waiting' /\ c \notin Open' /\ peer'[c] # "none"
  BY <1>1, <1>3, <1>4 DEF Waiting, Open
<1>6. heard[c] \subseteq {c} /\ recvd[c] # ResponseLen
  BY <1>1, <1>3 DEF Delivery, Unfinished
<1>7. /\ heard \in [Clients -> SUBSET (Clients \cup {"none", "503"})]
      /\ recvd \in [Clients -> Nat]
  BY DEF TypeOK
<1>8. Phase(c)' \in {"refused", "cut"}
  <2>1. heard'[c] # {c} \/ recvd'[c] # ResponseLen
    <3>1. CASE heard' = [heard EXCEPT ![c] = @ \cup {"503"}]
      BY <1>7, <3>1
    <3>2. CASE UNCHANGED heard /\ UNCHANGED recvd
      BY <1>6, <3>2
    <3>3. QED
      BY <1>2, <3>1, <3>2
  <2>2. QED
    BY <1>5, <2>1 DEF Phase, Ending
<1>9. ASSUME NEW d \in Clients \ {c} PROVE Phase(d)' = Phase(d)
  <2>1. \A f \in Fds : owner'[f] = d <=> owner[f] = d
    BY <1>1, <1>3, <1>4
  <2>2. heard'[d] = heard[d] /\ recvd'[d] = recvd[d]
    BY ONLY <1>2, <1>7, c \in Clients, d \in Clients \ {c}
  <2>3. Tracked' = Tracked
    BY <1>1 DEF Tracked
  <2>4. QED
    BY <1>1, <2>1, <2>2, <2>3, SamePlace
<1>10. Standing = "closing" /\ Standing' = "closing"
  BY <1>1 DEF Standing, Closing
<1>11. c \in Service!Seated
  BY <1>3, SeatedAreTracked
<1>12. PICK to \in {"refused", "cut"} : Phase(c)' = to
  BY <1>8
<1>13. [d \in Clients |-> Phase(d)]' = [[d \in Clients |-> Phase(d)] EXCEPT ![c] = to]
  BY <1>9, <1>12, OneMoves
<1>14. QED
  BY <1>10, <1>11, <1>12, <1>13 DEF Service!Refuse

\* A peer connects.
LEMMA ConnectIsArrive ==
    ASSUME SInv, NEW c \in Clients, NEW k \in Listeners, Connect(c, k)
    PROVE  Service!Arrive(c)
<1> USE ConstantsAssumption DEF SInv, IInv, Consistent
<1>1. /\ Running /\ peer[c] = "none" /\ peer' = [peer EXCEPT ![c] = "open"]
      /\ backlog' = [backlog EXCEPT ![k] = @ \cup {c}]
      /\ UNCHANGED <<pc, clientSockets, requests, owner, heard, recvd>>
  BY DEF Connect, loopVars
<1>2. c \notin Waiting /\ c \notin Open
  BY <1>1 DEF Waiting, Open, Arrivals
<1>3. Phase(c) = "away"
  BY <1>1, <1>2 DEF Phase
<1>4. c \in backlog'[k] /\ k \in Listeners
  BY <1>1 DEF TypeOK
<1>5. Phase(c)' = "queued"
  BY <1>4 DEF Phase, Waiting
<1>6. ASSUME NEW d \in Clients \ {c} PROVE Phase(d)' = Phase(d)
  <2>1. \A m \in Listeners : d \in backlog'[m] <=> d \in backlog[m]
    BY <1>1 DEF TypeOK
  <2>2. peer'[d] = peer[d] /\ Tracked' = Tracked
    BY <1>1 DEF TypeOK, Tracked
  <2>3. QED
    BY <1>1, <2>1, <2>2, SamePlace
<1>7. Standing # "down" /\ Standing' = Standing
  BY <1>1 DEF Standing, Closing, Running
<1>8. QED
  BY <1>3, <1>5, <1>6, <1>7, OneMoves DEF Service!Arrive, Service!Moves

\* Every step of the loop, the kernel and the peers is a step of the service.
LEMMA StepIsService ==
    ASSUME SInv, [Next]_vars
    PROVE  Service!Next \/ UNCHANGED Ahead
<1> USE DEF SInv, IInv
<1>1. CASE TopOfLoop
  <2>1. UNCHANGED <<clientSockets, requests, owner, backlog, peer, heard, recvd>>
    BY <1>1 DEF TopOfLoop, kernelVars, peerVars
  <2>2. Tracked' = Tracked
    BY <2>1 DEF Tracked
  <2>3. \A d \in Clients : Phase(d)' = Phase(d)
    BY <2>1, <2>2, SamePlace
  <2>4. Standing = "serving" /\ Standing' \in {"serving", "closing"}
    BY <1>1 DEF TopOfLoop, Standing, Closing, Running
  <2>5. QED
    BY <2>3, <2>4 DEF Ahead, Service!Next, Service!BeginClosing
<1>2. CASE \/ SelectReturns \/ SkipListener \/ SkipRead \/ SkipWrite \/ ShutdownFree
           \/ SelectFails \/ Sigint \/ UNCHANGED vars
  <2>1. UNCHANGED <<clientSockets, requests, owner, backlog, peer, heard, recvd>>
    BY <1>2 DEF SelectReturns, SkipListener, SkipRead, SkipWrite, ShutdownFree,
                SelectFails, Sigint, vars, loopVars, kernelVars, peerVars
  <2>2. Standing' = Standing
    BY <1>2 DEF SelectReturns, SkipListener, NextListener, SkipRead, SkipWrite, NextSlot,
                ShutdownFree, NextShutdownSlot, SelectFails, Sigint, Standing, Closing,
                Running, vars, loopVars
  <2>3. QED
    BY <2>1, <2>2, QuietStep
<1>3. CASE AcceptFails \/ Exit \/ \E c \in Clients : SendKills(c) \/ ShutdownKills(c)
  <2>1. /\ Running
        /\ ProcessEnds("exited") \/ ProcessEnds("dead")
        /\ UNCHANGED <<peer, heard, recvd>>
    BY <1>3 DEF AcceptFails, Exit, SendKills, ShutdownKills, Running, peerVars
  <2>2. pc = "write" => totalSent # ResponseLen
    BY <1>3, ConstantsAssumption DEF AcceptFails, Exit, SendKills, ShutdownKills, TypeOK
  <2>3. QED
    BY <2>1, <2>2, EndIsGoDown DEF Service!Next
<1>4. ASSUME NEW c \in Clients, Accept(c) PROVE Service!Next
  BY <1>4, AcceptIsSeat DEF Service!Next
<1>5. ASSUME NEW c \in Clients, CheckRequest(c) PROVE Service!Next \/ UNCHANGED Ahead
  BY <1>5, CheckRequestIsAsk DEF Service!Next
<1>6. ASSUME NEW c \in Clients, SendPiece(c) \/ SendFails(c) PROVE UNCHANGED Ahead
  <2>1. /\ Sd \in Fds /\ owner[Sd] = c
        /\ UNCHANGED <<clientSockets, requests, owner, backlog>>
    BY <1>6 DEF SendPiece, SendFails, kernelVars, TypeOK
  <2>2. c \in Connected
    BY <2>1 DEF Connected, Open
  <2>3. \A d \in Clients \ {c} :
            peer'[d] = peer[d] /\ heard'[d] = heard[d] /\ recvd'[d] = recvd[d]
    BY <1>6 DEF SendPiece, SendFails, TypeOK
  <2>4. Standing' = Standing
    BY <1>6 DEF SendPiece, SendFails, NextSlot, Standing, Closing, Running
  <2>5. QED
    BY <2>1, <2>2, <2>3, <2>4, QuietStep
<1>7. CASE FinishResponse
  BY <1>7, FinishIsAnswer DEF Service!Next
<1>8. ASSUME NEW c \in Clients, Shutdown503(c) PROVE Service!Next
  BY <1>8, ShutdownIsRefuse DEF Service!Next
<1>9. ASSUME NEW c \in Clients, NEW k \in Listeners, Connect(c, k) PROVE Service!Next
  BY <1>9, ConnectIsArrive DEF Service!Next
<1>10. ASSUME NEW c \in Clients,
              Close(c) \/ Reset(c) \/ Drain(c) \/ \E s \in Segments : Send(c, s)
       PROVE  UNCHANGED Ahead
  <2>1. /\ c \in Connected
        /\ UNCHANGED <<pc, clientSockets, requests, owner, backlog, heard, recvd>>
    BY <1>10 DEF Close, Reset, Drain, Send, loopVars, kernelVars
  <2>2. \A d \in Clients \ {c} : peer'[d] = peer[d]
    BY <1>10 DEF Close, Reset, Drain, Send, TypeOK
  <2>3. Standing' = Standing
    BY <2>1 DEF Standing, Closing, Running
  <2>4. QED
    BY <2>1, <2>2, <2>3, QuietStep
<1>11. QED
  BY <1>1, <1>2, <1>3, <1>4, <1>5, <1>6, <1>7, <1>8, <1>9, <1>10
  DEF Next, LoopStep, PeerStep

\* The loop is a service with MAX_CLIENTS seats: whatever is done with
\* descriptors, slots and bits, a connection is answered at most once and after
\* a request of its own, and leaves its seat answered or at the end only.
THEOREM LoopIsService == Spec => ImplementsService
<1>1. Init => Service!Init
  <2> SUFFICES ASSUME Init PROVE Service!Init
    OBVIOUS
  <2>1. \A c \in Clients : Phase(c) = "away"
    BY ConstantsAssumption DEF Init, Phase, Waiting, Open
  <2>2. Standing = "serving"
    BY DEF Init, Standing, Closing, Running
  <2>3. QED
    BY <2>1, <2>2 DEF Service!Init
<1>2. SInv /\ [Next]_vars => [Service!Next]_Ahead
  BY StepIsService
<1>3. QED
  BY <1>1, <1>2, SInvAlways, PTL DEF Spec, ImplementsService, Service!Spec, Ahead
=============================================================================
