-------------------------- MODULE TransportContract --------------------------
(***************************************************************************)
(* What the transport keeps of its promise (spec 4.5): every message is    *)
(* delivered only to a destination it was handed over for, and at most    *)
(* once there.  Order is not kept: a broadcast, a unicast and a direct     *)
(* batch travel by different queues and threads (the FIFO of spec 8.8 is   *)
(* checked separately, and does not hold).  sent[<<s, d>>] is everything   *)
(* s has handed over for d, in order; recv[d] is what d has received.      *)
(***************************************************************************)
EXTENDS Naturals, Sequences
LOCAL INSTANCE SequencesExt

CONSTANTS Senders, Endpoints

VARIABLES sent, recv
cvars == <<sent, recv>>

Pairs == Senders \X Endpoints

\* What d receives in this step.
Arrived(d) == SubSeq(recv'[d], Len(recv[d]) + 1, Len(recv'[d]))

\* Destinations receive, each message once, only what was handed over for
\* them and not received yet; `handed` is the sent function of the step.
Receives(handed) ==
    \A d \in Endpoints :
        LET fresh == UNION {ToSet(handed[<<s, d>>]) : s \in Senders}
                         \ ToSet(recv[d])
        IN  /\ IsPrefix(recv[d], recv'[d])
            /\ IsInjective(Arrived(d))
            /\ ToSet(Arrived(d)) \subseteq fresh

Init ==
    /\ sent = [p \in Pairs |-> <<>>]
    /\ recv = [d \in Endpoints |-> <<>>]

\* A sender hands messages over for some destinations; with a synchronous
\* write they may arrive in the same step.
Send(s) ==
    /\ \A p \in Pairs :
          IF p[1] = s THEN IsPrefix(sent[p], sent'[p]) ELSE sent'[p] = sent[p]
    /\ Receives(sent')

\* Messages already handed over arrive.
Deliver ==
    /\ UNCHANGED sent
    /\ Receives(sent)

Next == (\E s \in Senders : Send(s)) \/ Deliver

Spec == Init /\ [][Next]_cvars
=============================================================================
