------------------------------- MODULE Startup -------------------------------
(***************************************************************************)
(* The start of the program, up to the event loop: the configuration is    *)
(* cut and read, and the constructor of TcpServer opens a listening socket *)
(* for each server.  Every error ends the program, in one way or another.  *)
(***************************************************************************)
EXTENDS ConfigMeaning

CONSTANTS
    LocalHosts,     \* addresses of this machine; 0 is all of them
    TakenSets       \* addresses other processes may hold: sets of <<host, port>>

ASSUME StartupAssumption ==
    /\ 0 \in LocalHosts
    /\ \A token \in DOMAIN NumberOf :
           /\ NumberOf[token] \in Nat
           /\ token \notin ServerKeys \cup LocationKeys \cup {LBrace, RBrace}
    /\ \A taken \in TakenSets : \A a \in taken : a[2] # 0

VARIABLES
    taken,          \* addresses other processes hold
    listening       \* addresses of serverSockets

socketVars == <<taken, listening>>
vars == <<pc, splitVars, readVars, socketVars>>

Scanning  == {"read", "split", "bracket", "braces"}
Reading   == {"servers", "server", "location"}
Failures  == {"nofile", "malformed", "refused", "undefined", "exited"}
Decided   == Failures \cup {"serving"}

Init == SplitInit /\ ReadInit /\ taken \in TakenSets /\ listening = <<>>

-----------------------------------------------------------------------------
(* The constructor of TcpServer.                                           *)

Address(s) == <<s.host, s.port>>

\* Two sockets may not listen on one port, if they have the same host or one
\* has them all.  Port 0 stands for one that is free.
Conflict(a, b) == a[2] = b[2] /\ a[2] # 0 /\ (a[1] = b[1] \/ 0 \in {a[1], b[1]})

Bindable(a) ==
    /\ a[1] \in LocalHosts
    /\ \A b \in taken \cup ToSet(listening) : ~Conflict(a, b)

Listen ==
    /\ pc = "listen" /\ Len(listening) < Len(servers)
    /\ LET a == Address(servers[Len(listening) + 1])
       IN  IF Bindable(a) THEN listening' = Append(listening, a) /\ UNCHANGED pc
                          ELSE pc' = "exited" /\ UNCHANGED listening
    /\ UNCHANGED <<splitVars, readVars, taken>>

startListen ==
    /\ pc = "listen" /\ Len(listening) = Len(servers)
    /\ pc' = "serving"
    /\ UNCHANGED <<splitVars, readVars, socketVars>>

Next ==
    \/ SplitNext /\ UNCHANGED <<readVars, socketVars>>
    \/ ReadNext /\ UNCHANGED socketVars
    \/ Listen \/ startListen

Spec == Init /\ [][Next]_vars

\* Nothing in the start waits for anything.
FairSpec == Spec /\ WF_vars(Next)

-----------------------------------------------------------------------------
(* Safety.                                                                 *)

TypeOK ==
    /\ pc \in Scanning \cup Reading \cup {"listen"} \cup Decided
    /\ text \in Seq(Tokens)
    /\ start \in 1..Len(text) + 1 /\ end \in 1..Len(text) + 1
    /\ pair \in 0..Len(text)
    /\ Len(servers) <= Len(serversConf)
    /\ i \in 1..Len(words) + 2
    /\ \A w \in ToSet(words) : w # <<>>
    /\ server.port \in 0..MaxPort

\* What the rest of the program takes a configuration to be: servers that can
\* be told apart by their address, locations that are directories, and in a
\* server with several of them can be told apart by their path, methods that
\* checkRequest knows, each listed once.
IsLocation(l) ==
    /\ IsLocationPath(l.path)
    /\ \A n \in DOMAIN l.methods : l.methods[n] \in Methods
    /\ \A m, n \in DOMAIN l.methods : m # n => l.methods[m] # l.methods[n]
Configured ==
    pc \in {"listen", "exited", "serving"} =>
        /\ \A m, n \in DOMAIN servers : m # n => Address(servers[m]) # Address(servers[n])
        /\ \A k \in DOMAIN servers :
               LET ls == servers[k].locations IN
                   /\ servers[k].port \in 0..MaxPort
                   /\ \A n \in DOMAIN ls : IsLocation(ls[n])
                   /\ \A m, n \in DOMAIN ls : m # n => ls[m].path # ls[n].path

\* When a socket cannot be bound it is for something the configuration cannot
\* be seen to lack: another process, an address of another machine, or a
\* server that listens on all addresses beside one that does on its own.
ExitsOnlyForAddress ==
    pc = "exited" =>
        \E k \in DOMAIN servers :
            LET a == Address(servers[k]) IN
                \/ a[1] \notin LocalHosts
                \/ \E b \in taken : Conflict(a, b)
                \/ \E m \in DOMAIN servers :
                       Conflict(a, Address(servers[m])) /\ a[1] # servers[m].host

-----------------------------------------------------------------------------
(* Liveness.                                                               *)

\* Whatever the file contains, the program serves or gives up.
Decides == <>(pc \in Decided)
=============================================================================
