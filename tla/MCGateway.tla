----------------------------- MODULE MCGateway ------------------------------
(* Small instances of Gateway for TLC. *)
EXTENDS Gateway, TLC

CONSTANTS k1, k2, n1

Request(k, ttl, n, profiled, fate) ==
    [key |-> k, claim_ttl |-> ttl, nullifier |-> n, profiled |-> profiled,
     fate |-> fate]

\* Two packets that compete for one replay slot.
ReplayPackets ==
    { Request(k1, 1, NoNullifier, TRUE, "handled"),
      Request(k1, 1, NoNullifier, FALSE, "handled") }

\* Every fate, and packets that spend the same nullifier in different slots.
GatePackets ==
    { Request(k1, 1, n1, TRUE, "handled"),
      Request(k2, 1, n1, FALSE, "handled"),
      Request(k1, 1, NoNullifier, TRUE, "unhandled"),
      Request(k2, 1, n1, TRUE, "denied"),
      Request(k2, 1, BadNullifier, FALSE, "handled"),
      Request(k1, 1, NoNullifier, FALSE, "refused"),
      Request(k1, 1, NoNullifier, TRUE, "untrusted"),
      Request(k1, 0, NoNullifier, TRUE, "unverified"),
      Request(k1, 0, NoNullifier, FALSE, "malformed"),
      Request(k1, 0, NoNullifier, FALSE, "silent") }

\* The same without the second way to be denied at the nullifier.
EndPackets == {p \in GatePackets : p.nullifier # BadNullifier}

\* Three requests in one slot, at most one of them without an output profile.
ReplayInit ==
    /\ Init
    /\ Cardinality({c \in Conns : ~pkt[c].profiled}) <= 1

ReplaySpec == ReplayInit /\ [][Next]_vars

ConnSymmetry == Permutations(Conns)
=============================================================================
