--------------------------- MODULE GatewayReplay ----------------------------
(* Gateway: the replay boundary, and what the ledger may forget. *)
EXTENDS GatewayTypes

\* The part of the state's type that SlotInv rests on.
SlotType ==
    /\ now \in Times
    /\ phase \in [Conns -> Phases]
    /\ pkt \in [Conns -> Packets]
    /\ issued \in [Conns -> Times]
    /\ ts \in [Conns -> failclosed_unix_seconds]
    /\ replay_reservations \subseteq [key : Slots, expires_at : Deadlines]
    /\ reserved_by \subseteq Conns
    /\ reserved_at_now \in [Conns -> Times]

\* A step of a task that touches neither the clock nor the table of
\* reservations keeps SlotInv, as long as the task does not go back to a
\* phase ahead of its reservation.
LEMMA SlotQuiet ==
    ASSUME SlotType, SlotInv, NEW c \in Conns, NEW p \in Phases,
           phase' = [phase EXCEPT ![c] = p],
           p \in BeforeReserve => phase[c] \in BeforeReserve,
           UNCHANGED <<now, pkt, issued, ts, replay_reservations, reserved_by,
                       reserved_at_now>>
    PROVE  SlotInv'
BY DEF SlotType, SlotInv, OneReservationPerWindow, expires_at

\* SlotInv when a connection that has no slot yet signs its context.
LEMMA SlotVerify ==
    ASSUME SlotType, SlotInv, NEW c \in Conns, VerifyAndSign(c)
    PROVE  SlotInv'
BY DEF SlotType, SlotInv, OneReservationPerWindow, expires_at, VerifyAndSign,
       Goto, BeforeReserve, history, ledger, process, Phases

LEMMA SlotGates ==
    ASSUME SlotType, SlotInv, NEW c \in Conns, RouteGates(c)
    PROVE  SlotInv'
<1>1. PICK t \in ReadClock :
          /\ ts' = [ts EXCEPT ![c] = t]
          /\ phase' = [phase EXCEPT ![c] =
                IF \/ is_clock_read_failure(t) \/ t > expires_at(c)
                   \/ pkt[c].fate = "refused" THEN "reject" ELSE "prune"]
  BY DEF RouteGates, Goto
<1>2. t = now \/ is_clock_read_failure(t)
  BY ReadClockType DEF SlotType
<1>3. now <= now
  BY Numbers DEF SlotType
<1>4. phase[c] \in BeforeReserve /\ c \notin reserved_by
  BY DEF RouteGates, BeforeReserve, SlotInv
<1> QED
  BY <1>1, <1>2, <1>3, <1>4
  DEF SlotType, SlotInv, OneReservationPerWindow, expires_at, RouteGates,
      history, ledger, process, Phases, BeforeReserve

\* A prune at a timestamp that is not ahead of the clock, or at the failure
\* sentinel, drops only rows whose window has ended.
LEMMA PruneKeepsLive ==
    ASSUME now \in Times, NEW t \in failclosed_unix_seconds,
           t <= now \/ is_clock_read_failure(t),
           NEW rows, rows \subseteq [key : Slots, expires_at : Deadlines],
           NEW r \in rows, now <= r.expires_at
    PROVE  r \in prune_expired_replay_reservations(rows, t)
<1>1. r.expires_at \in Nat /\ now \in Nat /\ t \in Nat
  BY Numbers
<1> QED
  BY <1>1 DEF prune_expired_replay_reservations

LEMMA SlotPrune ==
    ASSUME SlotType, SlotInv, NEW t \in failclosed_unix_seconds,
           t <= now \/ is_clock_read_failure(t),
           \/ replay_reservations' =
                  prune_expired_replay_reservations(replay_reservations, t)
           \/ UNCHANGED replay_reservations,
           UNCHANGED <<now, pkt, issued, ts, reserved_by, reserved_at_now>>,
           \A c \in Conns : phase'[c] \in BeforeReserve =>
                             phase[c] \in BeforeReserve
    PROVE  SlotInv'
<1>1. ASSUME NEW c \in reserved_by, now <= expires_at(c)
      PROVE  [key |-> pkt[c].key, expires_at |-> expires_at(c)]
                 \in replay_reservations'
  <2>1. [key |-> pkt[c].key, expires_at |-> expires_at(c)]
            \in replay_reservations
    BY <1>1 DEF SlotInv
  <2> QED
    BY <1>1, <2>1, PruneKeepsLive DEF SlotType
<1> QED
  BY <1>1 DEF SlotType, SlotInv, OneReservationPerWindow, expires_at

\* The insert succeeds only when every earlier holder's window has ended.
LEMMA FreshReservation ==
    ASSUME SlotType, SlotInv, NEW c \in Conns,
           ~Taken(replay_reservations, pkt[c].key),
           NEW d \in reserved_by, pkt[d].key = pkt[c].key
    PROVE  now > expires_at(d)
<1>1. expires_at(d) \in Nat /\ now \in Nat
  BY ExpiryType, Numbers DEF SlotType
<1>2. [key |-> pkt[d].key, expires_at |-> expires_at(d)]
          \notin replay_reservations
  BY DEF Taken
<1> QED
  BY <1>1, <1>2 DEF SlotInv

LEMMA SlotReserve ==
    ASSUME SlotType, SlotInv, NEW c \in Conns, ReserveReplay(c)
    PROVE  SlotInv'
<1>1. phase[c] \in BeforeReserve /\ c \notin reserved_by
  BY DEF ReserveReplay, BeforeReserve, SlotInv
<1>2. UNCHANGED <<now, pkt, issued, ts>>
  BY DEF ReserveReplay
<1>3. CASE /\ ~Taken(replay_reservations, pkt[c].key)
           /\ replay_reservations' =
                 Reserve(replay_reservations, pkt[c].key, expires_at(c))
           /\ reserved_by' = reserved_by \cup {c}
           /\ reserved_at_now' = [reserved_at_now EXCEPT ![c] = now]
           /\ phase' = [phase EXCEPT ![c] = "nullify"]
  <2>1. \A d \in reserved_by : pkt[d].key = pkt[c].key => now > expires_at(d)
    BY <1>3, FreshReservation
  <2>2. \A d \in Conns : expires_at(d)' = expires_at(d)
    BY <1>2 DEF expires_at
  <2>3. \A d \in Conns : phase'[d] \in BeforeReserve => d \notin reserved_by'
    BY <1>3 DEF SlotInv, SlotType, BeforeReserve
  <2>4. \A d \in reserved_by' : reserved_at_now'[d] <= now'
    BY <1>2, <1>3, Numbers DEF SlotInv, SlotType
  <2>5. \A d \in reserved_by' : now' <= expires_at(d)' =>
            [key |-> pkt'[d].key, expires_at |-> expires_at(d)']
                \in replay_reservations'
    BY <1>2, <1>3, <2>2 DEF SlotInv, SlotType, Reserve
  <2>6. OneReservationPerWindow'
    BY <1>1, <1>2, <1>3, <2>1, <2>2
    DEF SlotInv, SlotType, OneReservationPerWindow
  <2> QED
    BY <1>2, <2>3, <2>4, <2>5, <2>6 DEF SlotInv
<1>4. CASE /\ phase' = [phase EXCEPT ![c] = "reject"]
           /\ UNCHANGED <<replay_reservations, reserved_by, reserved_at_now>>
  BY <1>2, <1>4, SlotQuiet DEF Phases, BeforeReserve
<1> QED
  BY <1>3, <1>4 DEF ReserveReplay, Goto
-----------------------------------------------------------------------------
(* The replay boundary. *)

LEMMA SlotInit == Init => SlotInv
BY MaxTimeAssumption DEF Init, SlotInv, OneReservationPerWindow

\* A step of a task keeps SlotInv.
LEMMA SlotTask ==
    ASSUME TypeOK, SlotInv, NEW c \in Conns, Task(c)
    PROVE  SlotInv'
<1>1. SlotType
  BY DEF TypeOK, SlotType
<1>2. CASE VerifyAndSign(c)   BY <1>1, <1>2, SlotVerify
<1>3. CASE RouteGates(c)      BY <1>1, <1>3, SlotGates
<1>4. CASE ReserveReplay(c)   BY <1>1, <1>4, SlotReserve
<1>5. CASE PruneOnReserve(c)
  <2>1. ts[c] \in failclosed_unix_seconds
        /\ (ts[c] <= now \/ is_clock_read_failure(ts[c]))
    BY DEF TypeOK, SlotInv
  <2>2. \A d \in Conns : phase'[d] \in BeforeReserve => phase[d] \in BeforeReserve
    BY <1>5 DEF PruneOnReserve, Goto, BeforeReserve, TypeOK
  <2> QED
    BY <1>1, <1>5, <2>1, <2>2, SlotPrune DEF PruneOnReserve, history
<1>6. ASSUME UNCHANGED <<issued, ts, replay_reservations, reserved_by,
                         reserved_at_now>>,
             NEW p \in Phases \ BeforeReserve,
             phase' = [phase EXCEPT ![c] = p]
      PROVE  SlotInv'
  BY <1>1, <1>6, TaskShape, SlotQuiet DEF SlotType
<1>7. CASE VerifyAndSign(c) \/ RouteGates(c) \/ ReserveReplay(c)
           \/ PruneOnReserve(c)
  BY <1>2, <1>3, <1>4, <1>5, <1>7
<1> USE DEF Goto, Close, history, ledger, BeforeReserve, Phases
<1>8. CASE ReadNothing(c)       BY <1>6, <1>8 DEF ReadNothing
<1>9. CASE ReadMalformed(c)     BY <1>6, <1>9 DEF ReadMalformed
<1>10. CASE RejectUnverified(c) BY <1>6, <1>10 DEF RejectUnverified
<1>11. CASE RouteUntrusted(c)   BY <1>6, <1>11 DEF RouteUntrusted
<1>12. CASE RecordNullifier(c)  BY <1>6, <1>12 DEF RecordNullifier
<1>13. CASE PermissionGate(c)   BY <1>6, <1>13 DEF PermissionGate
<1>14. CASE StartHandler(c)     BY <1>6, <1>14 DEF StartHandler
<1>15. CASE FinishHandler(c)    BY <1>6, <1>15 DEF FinishHandler
<1>16. CASE RecordExecution(c)  BY <1>6, <1>16 DEF RecordExecution
<1>17. CASE RecordReject(c)     BY <1>6, <1>17 DEF RecordReject
<1>18. CASE RecordDenial(c)     BY <1>6, <1>18 DEF RecordDenial
<1> QED
  BY <1>7, <1>8, <1>9, <1>10, <1>11, <1>12, <1>13, <1>14, <1>15, <1>16,
     <1>17, <1>18 DEF Task

LEMMA SlotStep == TypeOK /\ SlotInv /\ [Next]_vars => SlotInv'
<1> SUFFICES ASSUME TypeOK, SlotInv, [Next]_vars PROVE SlotInv'
  OBVIOUS
<1>0. SlotType
  BY DEF TypeOK, SlotType
<1>1. CASE UNCHANGED vars
  BY <1>1 DEF vars, history, ledger, SlotInv, OneReservationPerWindow, expires_at
<1>2. CASE Tick
  <2>1. now' = now + 1 /\ now \in Nat
    BY <1>2, Numbers DEF Tick, TypeOK
  <2>2. \A c \in Conns : expires_at(c) \in Nat /\ reserved_at_now[c] \in Nat
                        /\ ts[c] \in Nat
    BY ExpiryType, Numbers DEF TypeOK
  <2>3. UNCHANGED <<phase, pkt, issued, ts, replay_reservations, reserved_by,
                    reserved_at_now>>
    BY <1>2 DEF Tick, history, ledger
  <2>4. \A c \in Conns : expires_at(c)' = expires_at(c)
    BY <2>3 DEF expires_at
  <2> QED
    BY <2>1, <2>2, <2>3, <2>4
    DEF SlotInv, OneReservationPerWindow, TypeOK, is_clock_read_failure
<1>3. ASSUME NEW c \in Conns, Accept(c) \/ TurnAway(c) PROVE SlotInv'
  BY <1>0, <1>3, SlotQuiet
  DEF Accept, TurnAway, history, ledger, BeforeReserve, Phases
<1>4. ASSUME NEW c \in Conns, Task(c) PROVE SlotInv'
  BY <1>4, SlotTask
<1>5. CASE Crash
  BY <1>5 DEF Crash, TypeOK, SlotInv, OneReservationPerWindow, expires_at,
              BeforeReserve, history, ledger
<1>6. CASE Restart
  <2>1. PICK t \in ReadClock :
            \/ replay_reservations' =
                   prune_expired_replay_reservations(replay_reservations, t)
            \/ UNCHANGED replay_reservations
    BY <1>6 DEF Restart
  <2>2. now \in Times /\ now <= now
    BY Numbers DEF TypeOK
  <2>3. t \in failclosed_unix_seconds /\ (t <= now \/ is_clock_read_failure(t))
    BY <2>2, ReadClockType
  <2> QED
    BY <1>0, <1>6, <2>1, <2>3, SlotPrune DEF Restart, history
<1> QED
  BY <1>1, <1>2, <1>3, <1>4, <1>5, <1>6 DEF Next

LEMMA SlotInvariance == Spec => []SlotInv
BY SlotInit, SlotStep, TypeCorrect, PTL DEF Spec

(***************************************************************************)
(* Two requests that took the same replay slot took it in disjoint         *)
(* validity windows, for any number of connections, packets, crashes and   *)
(* clock failures.                                                         *)
(***************************************************************************)
THEOREM ReplayBoundary == Spec => []OneReservationPerWindow
BY SlotInvariance, PTL DEF SlotInv
-----------------------------------------------------------------------------
(* What the ledger forgets. *)

ForgetsExpired ==
    /\ scoped_nullifier_uses \subseteq scoped_nullifier_uses'
    /\ receipts \subseteq receipts'
    /\ \A r \in replay_reservations :
          r \notin replay_reservations' => r.expires_at < now

\* A prune by a timestamp that is not ahead of the clock forgets only
\* reservations whose window has ended.
LEMMA PruneForgets ==
    ASSUME TypeOK, NEW t \in failclosed_unix_seconds,
           t <= now \/ is_clock_read_failure(t),
           \/ replay_reservations' =
                  prune_expired_replay_reservations(replay_reservations, t)
           \/ UNCHANGED replay_reservations,
           UNCHANGED <<scoped_nullifier_uses, receipts>>
    PROVE  ForgetsExpired
<1>1. ASSUME NEW r \in replay_reservations, ~(r.expires_at < now)
      PROVE  r \in replay_reservations'
  <2>1. r.expires_at \in Nat /\ now \in Nat
    BY Numbers DEF TypeOK
  <2> QED
    BY <1>1, <2>1, PruneKeepsLive DEF TypeOK
<1> QED
  BY <1>1 DEF ForgetsExpired

LEMMA ForgetsTask ==
    ASSUME TypeOK, SlotInv, NEW c \in Conns, Task(c)
    PROVE  ForgetsExpired
<1>1. CASE PruneOnReserve(c)
  <2>1. ts[c] \in failclosed_unix_seconds
        /\ (ts[c] <= now \/ is_clock_read_failure(ts[c]))
    BY DEF TypeOK, SlotInv
  <2> QED
    BY <1>1, <2>1, PruneForgets DEF PruneOnReserve
<1>2. CASE ReserveReplay(c)
  BY <1>2 DEF ReserveReplay, Reserve, ForgetsExpired
<1>3. CASE RecordNullifier(c)
  BY <1>3 DEF RecordNullifier, ForgetsExpired
<1>4. CASE /\ receipts \subseteq receipts'
           /\ UNCHANGED <<replay_reservations, scoped_nullifier_uses>>
  BY <1>4 DEF ForgetsExpired
<1> USE DEF ledger, history
<1>5. CASE ReadNothing(c)       BY <1>4, <1>5 DEF ReadNothing
<1>6. CASE ReadMalformed(c)
  BY <1>4, <1>6, ReceiptsGrow DEF ReadMalformed, PreDecodeReceiptId
<1>7. CASE VerifyAndSign(c)     BY <1>4, <1>7 DEF VerifyAndSign
<1>8. CASE RejectUnverified(c)
  BY <1>4, <1>8 DEF RejectUnverified, RecordBestEffort,
                    record_receipt_with_emitted_event
<1>9. CASE RouteGates(c)        BY <1>4, <1>9 DEF RouteGates
<1>10. CASE RouteUntrusted(c)   BY <1>4, <1>10 DEF RouteUntrusted
<1>11. CASE PermissionGate(c)
  BY <1>4, <1>11, ReceiptsGrow DEF PermissionGate
<1>12. CASE StartHandler(c)     BY <1>4, <1>12 DEF StartHandler
<1>13. CASE FinishHandler(c)    BY <1>4, <1>13 DEF FinishHandler
<1>14. CASE RecordExecution(c)
  BY <1>4, <1>14 DEF RecordExecution, record_receipt_with_emitted_event
<1>15. CASE RecordReject(c)     BY <1>4, <1>15, ReceiptsGrow DEF RecordReject
<1>16. CASE RecordDenial(c)     BY <1>4, <1>16, ReceiptsGrow DEF RecordDenial
<1> QED
  BY <1>1, <1>2, <1>3, <1>5, <1>6, <1>7, <1>8, <1>9, <1>10, <1>11, <1>12,
     <1>13, <1>14, <1>15, <1>16 DEF Task

(***************************************************************************)
(* No step, a failed clock read at restart included, takes back a receipt  *)
(* or a nullifier, or a reservation whose window is open.                  *)
(***************************************************************************)
THEOREM LedgerForgetsOnlyExpired == Spec => LedgerOnlyForgetsExpired
<1>1. TypeOK /\ SlotInv /\ [Next]_vars => [ForgetsExpired]_vars
  <2> SUFFICES ASSUME TypeOK, SlotInv, Next PROVE ForgetsExpired
    OBVIOUS
  <2> USE DEF ledger, history
  <2>1. ASSUME NEW c \in Conns, Task(c) PROVE ForgetsExpired
    BY <2>1, ForgetsTask
  <2>2. CASE Restart
    <3>1. PICK t \in ReadClock :
              \/ replay_reservations' =
                     prune_expired_replay_reservations(replay_reservations, t)
              \/ UNCHANGED replay_reservations
      BY <2>2 DEF Restart
    <3>2. now \in Times /\ now <= now
      BY Numbers DEF TypeOK
    <3>3. t \in failclosed_unix_seconds
          /\ (t <= now \/ is_clock_read_failure(t))
      BY <3>2, ReadClockType
    <3> QED
      BY <2>2, <3>1, <3>3, PruneForgets DEF Restart
  <2>3. CASE UNCHANGED ledger
    BY <2>3 DEF ForgetsExpired
  <2>4. CASE Tick \/ Crash
    BY <2>3, <2>4 DEF Tick, Crash
  <2>5. ASSUME NEW c \in Conns, Accept(c) \/ TurnAway(c) PROVE ForgetsExpired
    BY <2>3, <2>5 DEF Accept, TurnAway
  <2> QED
    BY <2>1, <2>2, <2>4, <2>5 DEF Next
<1>2. Spec => [][ForgetsExpired]_vars
  BY <1>1, TypeCorrect, SlotInvariance, PTL DEF Spec
<1> QED
  BY <1>2 DEF LedgerOnlyForgetsExpired, ForgetsExpired
=============================================================================
