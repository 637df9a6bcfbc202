-------------------------------- MODULE Gate --------------------------------
(***************************************************************************)
(* What the admission of connections promises: at most Limit clients are   *)
(* inside, and a client is turned away only while the gate is full.  A     *)
(* client that is being turned away counts until it has gone, so with one  *)
(* place left two clients that come together may both be refused.          *)
(***************************************************************************)
EXTENDS Integers, FiniteSets

CONSTANTS Clients, Limit

VARIABLES
    inside,   \* clients that were let in and have not left
    refusing  \* clients that are being turned away

Full == Cardinality(inside \cup refusing) >= Limit

Init == inside = {} /\ refusing = {}

Enter(c) ==
    /\ ~Full /\ c \notin inside \cup refusing
    /\ inside' = inside \cup {c}
    /\ UNCHANGED refusing

Refuse(c) ==
    /\ Full /\ c \notin inside \cup refusing
    /\ refusing' = refusing \cup {c}
    /\ UNCHANGED inside

TurnAway(c) ==
    /\ c \in refusing
    /\ refusing' = refusing \ {c}
    /\ UNCHANGED inside

Leave(c) ==
    /\ c \in inside
    /\ inside' = inside \ {c}
    /\ UNCHANGED refusing

Next == \E c \in Clients : Enter(c) \/ Refuse(c) \/ TurnAway(c) \/ Leave(c)

Spec == Init /\ [][Next]_<<inside, refusing>>
=============================================================================
