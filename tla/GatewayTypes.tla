---------------------------- MODULE GatewayTypes ----------------------------
(* Gateway: type correctness. *)
EXTENDS GatewayPermits

LEMMA PruneType ==
    ASSUME NEW rows, NEW t
    PROVE  prune_expired_replay_reservations(rows, t) \subseteq rows
BY DEF prune_expired_replay_reservations

LEMMA TypeInit == Init => TypeOK
BY MaxTimeAssumption, InFlightAssumption, FaultAssumption
DEF Init, TypeOK, Times, failclosed_unix_seconds, Phases, NoResponse, Statuses

\* The receipts and the responses stay what they are.
ReceiptType == \A r \in receipts : r.decision \in {"accepted", "rejected"}
ResponseType ==
    /\ DOMAIN response = Conns
    /\ \A c \in Conns : response[c].status \in Statuses

LEMMA RecordType ==
    ASSUME ReceiptType, NEW id, NEW d \in {"accepted", "rejected"},
           RecordBestEffort(id, d)
    PROVE  ReceiptType'
BY DEF ReceiptType, RecordBestEffort, record_receipt_with_emitted_event

LEMMA AnswerKeepsType ==
    ASSUME ResponseType, NEW c \in Conns, NEW status \in Statuses, NEW id,
           Answer(c, status, id)
    PROVE  ResponseType'
BY DEF ResponseType, Answer

\* A step of a task keeps every variable but the semaphore in its type.
LEMMA TypeTask ==
    ASSUME TypeOK, permits' \in 0..MaxInFlight, NEW c \in Conns, Task(c)
    PROVE  TypeOK'
<1>0. phase' \in [Conns -> Phases] /\ UNCHANGED <<now, up, crashes, pkt>>
  BY TaskShape DEF TypeOK, Live, Phases
<1>1. /\ pkt[c] \in Packets /\ pkt[c].profiled \in BOOLEAN
      /\ ReceiptType /\ ResponseType
  BY PacketAssumption DEF TypeOK, ReceiptType, ResponseType
<1>status. /\ RejectStatus(c) \in Statuses
      /\ Decision(c) \in {"accepted", "rejected"}
      /\ RouteStatus(c) \in Statuses
  BY <1>1 DEF TypeOK, RejectStatus, RouteStatus, ExecutionStatus, Decision,
              Statuses
<1>2. ASSUME issued' \in [Conns -> Times],
             ts' \in [Conns -> failclosed_unix_seconds],
             replay_reservations' \subseteq [key : Slots, expires_at : Deadlines],
             scoped_nullifier_uses' \subseteq {p.nullifier : p \in Packets},
             outcome' \in [Conns -> {"none", "accepted", "rejected"}],
             started' \subseteq Conns, sequence' \in Nat,
             reserved_by' \subseteq Conns, reserved_at_now' \in [Conns -> Times],
             spent_by' \subseteq Conns, ran' \subseteq Conns,
             ReceiptType', ResponseType'
      PROVE  TypeOK'
  BY <1>0, <1>2 DEF TypeOK, ReceiptType, ResponseType
<1>3. ASSUME UNCHANGED <<issued, ts, replay_reservations, scoped_nullifier_uses,
                         routed, history>>,
             sequence' \in Nat, ReceiptType', ResponseType'
      PROVE  TypeOK'
  BY <1>0, <1>3 DEF TypeOK, ReceiptType, ResponseType, routed, history
<1>seq. UNCHANGED process => sequence' \in Nat
  BY DEF TypeOK, process
<1>4. ASSUME UNCHANGED <<receipts, response>>
      PROVE  ReceiptType' /\ ResponseType'
  BY <1>1, <1>4 DEF ReceiptType, ResponseType
<1> USE DEF history, ledger, routed, process
<1>5. CASE ReadNothing(c)       BY <1>3, <1>seq, <1>4, <1>5 DEF ReadNothing
<1>6. CASE ReadMalformed(c)
  <2>1. ReceiptType' /\ ResponseType'
    BY <1>1, <1>6, RecordType, AnswerKeepsType
    DEF ReadMalformed, PreDecodeReceiptId, Statuses
  <2>2. sequence' \in Nat
    BY <1>6 DEF ReadMalformed, TypeOK
  <2> QED
    BY <1>3, <1>6, <2>1, <2>2 DEF ReadMalformed
<1>7. CASE VerifyAndSign(c)
  <2>1. issued' \in [Conns -> Times]
    BY <1>7, ReadClockType DEF VerifyAndSign, TypeOK
  <2>2. UNCHANGED <<process, ts, ledger, routed, response, history>>
    BY <1>7 DEF VerifyAndSign
  <2> QED
    BY <1>2, <1>4, <1>seq, <2>1, <2>2 DEF TypeOK
<1>8. CASE RejectUnverified(c)
  <2>1. ReceiptType' /\ ResponseType'
    BY <1>1, <1>status, <1>8, RecordType, AnswerKeepsType DEF RejectUnverified
  <2> QED
    BY <1>3, <1>seq, <1>8, <2>1 DEF RejectUnverified
<1>9. CASE RouteGates(c)
  <2>1. ts' \in [Conns -> failclosed_unix_seconds]
    BY <1>9, ReadClockType DEF RouteGates, TypeOK
  <2>2. UNCHANGED <<process, issued, ledger, routed, response, history>>
    BY <1>9 DEF RouteGates
  <2> QED
    BY <1>2, <1>4, <1>seq, <2>1, <2>2 DEF TypeOK
<1>10. CASE RouteUntrusted(c)
  <2>1. ReceiptType' /\ ResponseType'
    BY <1>1, <1>status, <1>10, AnswerKeepsType DEF RouteUntrusted, ReceiptType
  <2> QED
    BY <1>3, <1>seq, <1>10, <2>1 DEF RouteUntrusted
<1>11. CASE PruneOnReserve(c)
  <2>1. replay_reservations' \subseteq [key : Slots, expires_at : Deadlines]
    BY <1>11, PruneType DEF PruneOnReserve, TypeOK
  <2>2. UNCHANGED <<process, issued, ts, scoped_nullifier_uses, receipts, routed,
                    response, history>>
    BY <1>11 DEF PruneOnReserve
  <2> QED
    BY <1>2, <1>4, <1>seq, <2>1, <2>2 DEF TypeOK
<1>12. CASE ReserveReplay(c)
  <2>1. pkt[c].key \in Slots /\ expires_at(c) \in Deadlines
    BY <1>1, ExpiryType DEF Slots, TypeOK
  <2>2. replay_reservations' \subseteq [key : Slots, expires_at : Deadlines]
    BY <1>12, <2>1 DEF ReserveReplay, Reserve, TypeOK
  <2>3. reserved_by' \subseteq Conns /\ reserved_at_now' \in [Conns -> Times]
    BY <1>12 DEF ReserveReplay, TypeOK
  <2>4. UNCHANGED <<process, issued, ts, scoped_nullifier_uses, receipts, routed,
                    response, spent_by, ran>>
    BY <1>12 DEF ReserveReplay
  <2> QED
    BY <1>2, <1>4, <1>seq, <2>2, <2>3, <2>4 DEF TypeOK
<1>13. CASE RecordNullifier(c)
  <2>1. /\ scoped_nullifier_uses' \subseteq {p.nullifier : p \in Packets}
        /\ spent_by' \subseteq Conns
    BY <1>1, <1>13 DEF RecordNullifier, TypeOK
  <2>2. UNCHANGED <<process, issued, ts, replay_reservations, receipts, routed,
                    response, reserved_by, reserved_at_now, ran>>
    BY <1>13 DEF RecordNullifier
  <2> QED
    BY <1>2, <1>4, <1>seq, <2>1, <2>2 DEF TypeOK
<1>14. CASE PermissionGate(c)
  <2>1. ReceiptType' /\ ResponseType'
    BY <1>1, <1>14, RecordType DEF PermissionGate, ResponseType
  <2> QED
    BY <1>3, <1>seq, <1>14, <2>1 DEF PermissionGate
<1>15. CASE StartHandler(c) \/ FinishHandler(c)
  <2>1. outcome' \in [Conns -> {"none", "accepted", "rejected"}]
    BY <1>15 DEF StartHandler, FinishHandler, TypeOK
  <2>2. ran' \subseteq Conns /\ started' \subseteq Conns
    BY <1>15 DEF StartHandler, FinishHandler, TypeOK
  <2>3. UNCHANGED <<process, issued, ts, ledger, response, reserved_by,
                    reserved_at_now, spent_by>>
    BY <1>15 DEF StartHandler, FinishHandler
  <2> QED
    BY <1>2, <1>4, <1>seq, <2>1, <2>2, <2>3 DEF TypeOK
<1>16. CASE RecordExecution(c)
  <2>1. ReceiptType'
    BY <1>1, <1>status, <1>16
    DEF RecordExecution, record_receipt_with_emitted_event, ReceiptType
  <2>2. UNCHANGED response \/ \E id : Answer(c, RouteStatus(c), id)
    BY <1>16 DEF RecordExecution
  <2>3. ResponseType'
    BY <1>1, <1>status, <2>2, AnswerKeepsType DEF ResponseType
  <2> QED
    BY <1>3, <1>seq, <1>16, <2>1, <2>3 DEF RecordExecution
<1>17. CASE RecordReject(c)
  <2>1. ReceiptType' /\ ResponseType'
    BY <1>1, <1>status, <1>17, RecordType, AnswerKeepsType DEF RecordReject
  <2> QED
    BY <1>3, <1>seq, <1>17, <2>1 DEF RecordReject
<1>18. CASE RecordDenial(c)
  <2>1. ReceiptType' /\ ResponseType'
    BY <1>1, <1>status, <1>18, RecordType, AnswerKeepsType DEF RecordDenial
  <2> QED
    BY <1>3, <1>seq, <1>18, <2>1 DEF RecordDenial
<1> QED
  BY <1>5, <1>6, <1>7, <1>8, <1>9, <1>10, <1>11, <1>12, <1>13, <1>14, <1>15,
     <1>16, <1>17, <1>18 DEF Task

LEMMA TypeStep == TypeOK /\ PermitInv /\ [Next]_vars => TypeOK'
<1> SUFFICES ASSUME TypeOK, PermitInv, [Next]_vars PROVE TypeOK'
  OBVIOUS
<1>0. permits' \in 0..MaxInFlight
  BY PermitStep DEF PermitInv
<1> USE DEF history, ledger, routed, process
<1>1. CASE UNCHANGED vars    BY <1>1 DEF vars, TypeOK
<1>2. CASE Tick              BY <1>2, MaxTimeAssumption DEF Tick, TypeOK, Times
<1>3. ASSUME NEW c \in Conns, Accept(c) \/ TurnAway(c) PROVE TypeOK'
  BY <1>0, <1>3 DEF Accept, TurnAway, TypeOK, Phases
<1>4. ASSUME NEW c \in Conns, Task(c) PROVE TypeOK'
  BY <1>0, <1>4, TypeTask
<1>5. CASE Crash
  <2>1. crashes' \in 0..MaxCrashes
    BY <1>5, FaultAssumption DEF Crash, TypeOK
  <2>2. phase' \in [Conns -> Phases]
    BY <1>5 DEF Crash, TypeOK, Phases
  <2> QED
    BY <1>0, <1>5, <2>1, <2>2 DEF Crash, TypeOK
<1>6. CASE Restart
  BY <1>0, <1>6, PruneType DEF Restart, TypeOK
<1> QED
  BY <1>1, <1>2, <1>3, <1>4, <1>5, <1>6 DEF Next

(***************************************************************************)
(* Type correctness of the gateway, for every configuration.               *)
(***************************************************************************)
THEOREM TypeCorrect == Spec => []TypeOK
BY TypeInit, TypeStep, PermitInit, PermitStep, PTL DEF Spec
=============================================================================
