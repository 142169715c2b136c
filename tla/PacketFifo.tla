----------------------------- MODULE PacketFifo -----------------------------
(***************************************************************************)
(* What the game asks of a stream connection: two first-in-first-out queues  *)
(* of whole packets, one each way.  A packet handed in is handed out as it   *)
(* was, once and in its turn; when a side closes, what has not been handed   *)
(* out may be lost, the latest packets first.                               *)
(***************************************************************************)
EXTENDS Naturals, Sequences, SequencesExt

CONSTANTS Dirs, Packets

VARIABLES
    queue,   \* per direction, the packets accepted and not yet handed out
    out      \* per direction, the packets the last step handed out

fifoVars == <<queue, out>>

Nothing == [d \in Dirs |-> <<>>]

FifoInit == queue = Nothing /\ out = Nothing

Send(d) ==
    /\ \E p \in Packets : queue' = [queue EXCEPT ![d] = Append(@, p)]
    /\ out' = Nothing

(* Every packet of out leaves the head of its queue; with a close, the rest  *)
(* of every queue may lose its end.                                         *)
HandOut ==
    \A d \in Dirs :
        /\ IsPrefix(out'[d], queue[d])
        /\ queue'[d] = SubSeq(queue[d], Len(out'[d]) + 1, Len(queue[d]))

HandOutAndClose ==
    \A d \in Dirs : IsPrefix(out'[d] \o queue'[d], queue[d])

FifoNext == (\E d \in Dirs : Send(d)) \/ HandOut \/ HandOutAndClose

FifoSpec == FifoInit /\ [][FifoNext]_fifoVars
=============================================================================
