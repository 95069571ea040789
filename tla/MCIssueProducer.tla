-------------------------- MODULE MCIssueProducer ---------------------------
(* Small instances of IssueProducer for TLC. *)
EXTENDS IssueProducer, TLC

CONSTANTS k1, w1, w2, o1, o2

Invocation(w, from, until, o) ==
    [key |-> k1, wallet |-> w, issued_at |-> from, expires_at |-> until,
     output |-> o]

\* One presentation, its retry to another output, and a second presentation
\* with the same session and nonce.
ScopeInvocations == { Invocation(w1, 0, 1, o1), Invocation(w1, 0, 1, o2),
                      Invocation(w2, 0, 2, o2) }

\* Each of the three is invoked once.
ScopeInit == Init /\ \A p, q \in Procs : p # q => inv[p] # inv[q]
ScopeSpec == ScopeInit /\ [][Next]_vars

MCPolicies == { [version |-> 1, not_after |-> 2], [version |-> 2, not_after |-> 3] }

ProcSymmetry == Permutations(Procs)
=============================================================================
