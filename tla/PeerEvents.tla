----------------------------- MODULE PeerEvents -----------------------------
(***************************************************************************)
(* What the game asks of ENet: the events of enet_host_service().  At every *)
(* end of a connection (a peer of the server, the client's peer) they are   *)
(* CONNECT, any number of RECEIVE, DISCONNECT, and CONNECT again; an attempt *)
(* to connect is reported once per host; the packets received are those the *)
(* other host gave to the same connection, in order, each once.             *)
(***************************************************************************)
EXTENDS Naturals, Sequences

CONSTANTS
    Ends,          \* the peers of the two hosts
    Host(_),       \* the host an end belongs to
    Attempts,      \* connections attempted
    NoAttempt

VARIABLES
    open,     \* per end, the attempt whose CONNECT was the last one, until DISCONNECT
    taken,    \* per end, the packets received since that CONNECT
    past,     \* per host, the attempts reported so far
    given     \* per host and attempt, the number of packets given to the connection

eventVars == <<open, taken, past, given>>
Hosts == {Host(e) : e \in Ends}

EventInit ==
    /\ open = [e \in Ends |-> NoAttempt] /\ taken = [e \in Ends |-> <<>>]
    /\ past = [h \in Hosts |-> {}] /\ given = [h \in Hosts |-> [a \in Attempts |-> 0]]

Give(h, a) ==
    /\ given' = [given EXCEPT ![h][a] = @ + 1]
    /\ UNCHANGED <<open, taken, past>>

Reported(e, a) ==
    /\ open[e] = NoAttempt
    /\ open' = [open EXCEPT ![e] = a]
    /\ taken' = [taken EXCEPT ![e] = <<>>]
    /\ past' = [past EXCEPT ![Host(e)] = @ \union {a}]
    /\ UNCHANGED given

Connected(e, a) == a \notin past[Host(e)] /\ Reported(e, a)

Received(e) ==
    LET a == open[e]
        n == Len(taken[e]) + 1
    IN  /\ a # NoAttempt
        /\ \E h \in Hosts \ {Host(e)} : n <= given[h][a]
        /\ taken' = [taken EXCEPT ![e] = Append(@, <<a, n>>)]
        /\ UNCHANGED <<open, past, given>>

Disconnected(e) ==
    /\ open[e] # NoAttempt
    /\ open' = [open EXCEPT ![e] = NoAttempt]
    /\ taken' = [taken EXCEPT ![e] = <<>>]
    /\ UNCHANGED <<past, given>>

EventNext ==
    \/ \E h \in Hosts, a \in Attempts : Give(h, a)
    \/ \E e \in Ends : Received(e) \/ Disconnected(e) \/ \E a \in Attempts : Connected(e, a)

(* Where connections can be mistaken for one another: the packet is some packet, *)
(* the attempt may have been reported before.                                *)
Strayed(e) ==
    LET n == Len(taken[e]) + 1
    IN  /\ open[e] # NoAttempt
        /\ Len(taken'[e]) = n
        /\ taken' = [taken EXCEPT ![e] = Append(@, taken'[e][n])]
        /\ UNCHANGED <<open, past, given>>

MixedNext ==
    \/ \E h \in Hosts, a \in Attempts : Give(h, a)
    \/ \E e \in Ends : Strayed(e) \/ Disconnected(e) \/ \E a \in Attempts : Reported(e, a)

EventSpec == EventInit /\ [][EventNext]_eventVars
=============================================================================
