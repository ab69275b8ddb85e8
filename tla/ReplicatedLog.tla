---------------------------- MODULE ReplicatedLog ----------------------------
(***************************************************************************)
(* What the replication engine promises its clients (spec 1, 8.1-8.3): one *)
(* log of digests indexed by sequence number, shared by all replicas.      *)
(* Each replica applies a prefix of it, in order.  A seq is decided by the *)
(* first replica that applies it, a digest is decided at one seq at most,  *)
(* and the proxy is only ever told that a digest was executed at the seq   *)
(* the log holds it at (or is told seq 0: rejected).                       *)
(***************************************************************************)
EXTENDS Naturals, Sequences
LOCAL INSTANCE Functions

CONSTANTS Replica, Seqs, Hashes, NoHash

VARIABLES
    log,      \* seq -> decided digest, or NoHash
    applied,  \* replica -> the digests it has applied, in seq order
    answers   \* [hash, seq] records the proxy has received
lvars == <<log, applied, answers>>

Init ==
    /\ log = [s \in Seqs |-> NoHash]
    /\ applied = [r \in Replica |-> <<>>]
    /\ answers = {}

\* Replica r applies digest h at its next seq: the digest already decided
\* there, or, if none is, a digest decided nowhere else, which it thereby
\* decides.
Apply(r, h) ==
    LET s == Len(applied[r]) + 1 IN
    /\ applied' = [applied EXCEPT ![r] = Append(@, h)]
    /\ s \in Seqs
    /\ \/ log[s] = h /\ UNCHANGED log
       \/ log[s] = NoHash /\ h \notin Range(log) /\ log' = [log EXCEPT ![s] = h]
    /\ UNCHANGED answers

\* The proxy learns that h was executed at s (applied by some replica), or
\* that it was rejected (s = 0).
Answer(h, s) ==
    /\ answers' = answers \cup {[hash |-> h, seq |-> s]}
    /\ UNCHANGED <<log, applied>>
    /\ s = 0 \/ (\E r \in Replica : s <= Len(applied[r]) /\ applied[r][s] = h)

Next ==
    \/ \E r \in Replica, h \in Hashes : Apply(r, h)
    \/ \E h \in Hashes, s \in {0} \cup Seqs : Answer(h, s)

Spec == Init /\ [][Next]_lvars
=============================================================================
