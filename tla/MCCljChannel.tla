---------------------------- MODULE MCCljChannel ----------------------------
(* CljChannel for TLC.  A behaviour is about one of two channels: a rendezvous *)
(* channel (Capacity 0), or a buffered one of capacity BufferSize.             *)
EXTENDS CljChannel

CONSTANTS BufferSize

VARIABLES which, b_queue, b_closed, b_taken, b_notEmpty, b_notFull, b_pc,
          b_token, b_got, b_accepted, b_holder, b_sent, b_received, b_withdrawn

bufferedVars == <<b_queue, b_closed, b_taken, b_notEmpty, b_notFull, b_pc,
                  b_token, b_got, b_accepted, b_holder, b_sent, b_received,
                  b_withdrawn>>

B == INSTANCE CljChannel WITH
    Capacity <- BufferSize, Pollers <- {}, queue <- b_queue, closed <- b_closed,
    taken <- b_taken, notEmpty <- b_notEmpty, notFull <- b_notFull, pc <- b_pc,
    token <- b_token, got <- b_got, accepted <- b_accepted, holder <- b_holder,
    sent <- b_sent, received <- b_received,
    withdrawn <- b_withdrawn

MCInit == Init /\ B!Init /\ which \in {"rendezvous", "buffered"}
MCNext ==
    \/ which = "rendezvous" /\ Next /\ UNCHANGED <<which, bufferedVars>>
    \/ which = "buffered" /\ B!Next /\ UNCHANGED <<which, vars>>
MCSpec ==
    /\ MCInit /\ [][MCNext]_<<which, vars, bufferedVars>>
    /\ \A t \in Takers : WF_bufferedVars(which = "buffered" /\ B!Take(t))
    /\ \A p \in Putters : WF_bufferedVars(which = "buffered" /\ B!Put(p))

\* A buffered channel implements AbstractChannel, whose state is a bounded queue,
\* and no value is lost, repeated or answered for untruthfully.
BufferedIsChannel == B!ImplementsChannel /\ []B!ChannelHonest

\* In a buffered channel no take! or put! sleeps on a channel that could serve
\* it unless a notification for one of its kind is on its way; every take! on a
\* closed channel resolves, and no put! stays parked beside a free slot.
BufferedProgress == []B!WakesInFlight /\ B!WaitersProgress
=============================================================================
