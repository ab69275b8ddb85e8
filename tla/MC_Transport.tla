---------------------------- MODULE MC_Transport ----------------------------
EXTENDS Transport, TLC

CONSTANTS c1, c2, s1, s2

\* Call records of a handler thread's script.
U(d) == [op |-> "unicast", dest |-> d, n |-> 1]
B == [op |-> "broadcast", dest |-> NoEndpoint, n |-> 1]
HB == [op |-> "heartbeat", dest |-> NoEndpoint, n |-> 1]
Batch(d, n) == [op |-> "batch", dest |-> d, n |-> n]

MC_Replicas == {1, 2}
MC_Clients == {c1, c2}
MC_OneClient == {{c1}}
MC_ClientComesAndGoes == {{c1}, {}}
MC_TwoSenders == {s1, s2}
MC_OneSender == {s1}

\* s1 unicasts twice to a proxy and once to replica 2; s2 broadcasts, sends a
\* heartbeat, then writes a batch of one to replica 2 directly: replica 2 is
\* reached through single_bq_, batch_queue_ and a direct write, from two
\* threads.
MC_Crossing == (s1 :> <<U(c1), U(c1), U(2)>>) @@ (s2 :> <<B, HB, Batch(2, 1)>>)
\* A broadcast followed by a unicast to one of the replicas.
MC_BroadcastThenUnicast == s1 :> <<B, U(2)>>
\* A reply to a proxy.
MC_Reply == s1 :> <<U(c1)>>
MC_UnicastToReplica == s1 :> <<U(2)>>
MC_BroadcastOnly == s1 :> <<B>>
\* Two unicasts to a proxy and one to a replica, from different threads.
MC_HeadOfLine == (s1 :> <<U(c1), U(c1)>>) @@ (s2 :> <<U(2)>>)
=============================================================================
