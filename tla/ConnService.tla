----------------------------- MODULE ConnService -----------------------------
(***************************************************************************)
(* What the event loop promises each connection, whatever descriptors,     *)
(* slots and bits it is kept in: a service with MAX_CLIENTS seats.  A      *)
(* connection is answered at most once, and only after a request of its    *)
(* own was read; it loses its seat only by being answered in full or when  *)
(* the service closes; one that found no seat is never served, not even    *)
(* when a seat becomes free, and is cut when the service is down.          *)
(***************************************************************************)
EXTENDS Integers, FiniteSets

CONSTANTS Clients, MAX_CLIENTS

VARIABLES
    phase,   \* where each client's connection is
    server   \* "serving", then "closing" if it ends in order, then "down"

Phases == {"away", "queued", "served", "pending", "forgotten",
           "answered", "refused", "cut"}

TypeInv == phase \in [Clients -> Phases] /\ server \in {"serving", "closing", "down"}

Init == phase = [c \in Clients |-> "away"] /\ server = "serving"

Seated == {c \in Clients : phase[c] \in {"served", "pending"}}

Moves(c, from, to) == phase[c] = from /\ phase' = [phase EXCEPT ![c] = to]

Arrive(c) == server # "down" /\ Moves(c, "away", "queued") /\ UNCHANGED server

Seat(c) ==
    /\ server = "serving"
    /\ Moves(c, "queued",
             IF Cardinality(Seated) < MAX_CLIENTS THEN "served" ELSE "forgotten")
    /\ UNCHANGED server

Ask(c)    == server = "serving" /\ Moves(c, "served", "pending")   /\ UNCHANGED server
Answer(c) == server = "serving" /\ Moves(c, "pending", "answered") /\ UNCHANGED server

BeginClosing == server = "serving" /\ server' = "closing" /\ UNCHANGED phase

\* A peer that cannot take the 503 is cut.
Refuse(c) ==
    /\ server = "closing"
    /\ c \in Seated
    /\ \E to \in {"refused", "cut"} : phase' = [phase EXCEPT ![c] = to]
    /\ UNCHANGED server

GoDown ==
    /\ server # "down"
    /\ server' = "down"
    /\ phase' = [c \in Clients |->
                    IF phase[c] \in {"queued", "served", "pending", "forgotten"}
                    THEN "cut" ELSE phase[c]]

Next ==
    \/ \E c \in Clients : Arrive(c) \/ Seat(c) \/ Ask(c) \/ Answer(c) \/ Refuse(c)
    \/ BeginClosing \/ GoDown

Spec == Init /\ [][Next]_<<phase, server>>
=============================================================================
