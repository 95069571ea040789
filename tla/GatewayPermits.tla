--------------------------- MODULE GatewayPermits ---------------------------
(* Gateway: the semaphore, for every set of connections, packets and times,   *)
(* and the facts about clocks, receipts and tasks that all proofs share.      *)
EXTENDS Gateway, FiniteSetTheorems, TLAPS

\* Clock readings and expiry times are numbers.
LEMMA Numbers ==
    /\ Times \subseteq Nat
    /\ failclosed_unix_seconds \subseteq Nat
    /\ Deadlines \subseteq Nat
    /\ \A p \in Packets : p.claim_ttl \in Nat
BY MaxTimeAssumption, PacketAssumption
   DEF Times, failclosed_unix_seconds, CLOCK_READ_FAILURE_SENTINEL, Deadlines

\* An expiry time is a deadline.
LEMMA ExpiryType ==
    ASSUME NEW c \in Conns, pkt \in [Conns -> Packets],
           issued \in [Conns -> Times]
    PROVE  expires_at(c) \in Deadlines /\ expires_at(c) \in Nat
<1>1. issued[c] \in Times /\ pkt[c] \in Packets
  OBVIOUS
<1>2. expires_at(c) \in Deadlines
  BY <1>1 DEF expires_at, Deadlines
<1> QED
  BY <1>2, Numbers

\* A clock reading is the current second or the failure sentinel.
LEMMA ReadClockType ==
    ASSUME now \in Times, NEW t \in ReadClock
    PROVE  /\ t \in failclosed_unix_seconds
           /\ t = now \/ is_clock_read_failure(t)
           /\ ~is_clock_read_failure(t) => t \in Times
BY FaultAssumption DEF ReadClock, failclosed_unix_seconds,
   is_clock_read_failure

\* Recording a receipt never takes one back.
LEMMA ReceiptsGrow ==
    ASSUME NEW id, NEW d, RecordBestEffort(id, d)
    PROVE  receipts \subseteq receipts'
BY DEF RecordBestEffort, record_receipt_with_emitted_event
-----------------------------------------------------------------------------
(* The semaphore and the types. *)

Live == Phases \ (Over \cup {"idle"})

\* A step of a task moves it to another live phase, or closes it and gives
\* its permit back.
LEMMA TaskShape ==
    ASSUME phase \in [Conns -> Phases], NEW c \in Conns, Task(c)
    PROVE  /\ c \in InFlight
           /\ UNCHANGED <<now, up, crashes, pkt>>
           /\ \/ /\ \E p \in Live : phase' = [phase EXCEPT ![c] = p]
                 /\ permits' = permits
              \/ /\ phase' = [phase EXCEPT ![c] = "closed"]
                 /\ permits' = permits + 1
<1> USE DEF Goto, Close, process, InFlight, Over, Live, Phases
<1>1. CASE ReadNothing(c)       BY <1>1 DEF ReadNothing
<1>2. CASE ReadMalformed(c)     BY <1>2 DEF ReadMalformed
<1>3. CASE VerifyAndSign(c)     BY <1>3 DEF VerifyAndSign
<1>4. CASE RejectUnverified(c)  BY <1>4 DEF RejectUnverified
<1>5. CASE RouteGates(c)        BY <1>5 DEF RouteGates
<1>6. CASE RouteUntrusted(c)    BY <1>6 DEF RouteUntrusted
<1>7. CASE PruneOnReserve(c)    BY <1>7 DEF PruneOnReserve
<1>8. CASE ReserveReplay(c)     BY <1>8 DEF ReserveReplay
<1>9. CASE RecordNullifier(c)   BY <1>9 DEF RecordNullifier
<1>10. CASE PermissionGate(c)   BY <1>10 DEF PermissionGate
<1>11. CASE StartHandler(c)     BY <1>11 DEF StartHandler
<1>12. CASE FinishHandler(c)    BY <1>12 DEF FinishHandler
<1>13. CASE RecordExecution(c)  BY <1>13 DEF RecordExecution
<1>14. CASE RecordReject(c)     BY <1>14 DEF RecordReject
<1>15. CASE RecordDenial(c)     BY <1>15 DEF RecordDenial
<1> QED
  BY <1>1, <1>2, <1>3, <1>4, <1>5, <1>6, <1>7, <1>8, <1>9, <1>10, <1>11,
     <1>12, <1>13, <1>14, <1>15 DEF Task

\* The permits held and the permits free always make the cap.
PermitInv ==
    /\ phase \in [Conns -> Phases]
    /\ up \in BOOLEAN
    /\ permits \in 0..MaxInFlight
    /\ PermitsAccounted

LEMMA InFlightFinite == IsFiniteSet(InFlight) /\ Cardinality(InFlight) \in Nat
BY InFlightAssumption, FS_Subset, FS_CardinalityType DEF InFlight

LEMMA PermitInit == Init => PermitInv
<1> SUFFICES ASSUME Init PROVE PermitInv
  OBVIOUS
<1>1. InFlight = {}
  BY DEF Init, InFlight
<1> QED
  BY <1>1, FS_EmptySet, InFlightAssumption
  DEF Init, PermitInv, PermitsAccounted, Phases

LEMMA PermitStep == PermitInv /\ [Next]_vars => PermitInv'
<1> SUFFICES ASSUME PermitInv, [Next]_vars PROVE PermitInv'
  OBVIOUS
<1>0. MaxInFlight \in Nat /\ IsFiniteSet(InFlight)
      /\ Cardinality(InFlight) \in Nat
  BY InFlightAssumption, InFlightFinite
<1>1. CASE UNCHANGED <<up, permits, phase>>
  BY <1>1 DEF PermitInv, PermitsAccounted, InFlight
<1>2. ASSUME NEW c \in Conns, Accept(c) PROVE PermitInv'
  <2>1. c \notin InFlight /\ InFlight' = InFlight \cup {c}
    BY <1>2 DEF Accept, InFlight, Over, PermitInv
  <2>2. Cardinality(InFlight') = Cardinality(InFlight) + 1
    BY <1>0, <2>1, FS_AddElement
  <2> QED
    BY <1>0, <1>2, <2>2
    DEF Accept, PermitInv, PermitsAccounted, process, Phases
<1>3. ASSUME NEW c \in Conns, TurnAway(c) PROVE PermitInv'
  <2>1. InFlight' = InFlight
    BY <1>3 DEF TurnAway, InFlight, Over, PermitInv
  <2> QED
    BY <1>3, <2>1 DEF TurnAway, PermitInv, PermitsAccounted, process, Phases
<1>4. ASSUME NEW c \in Conns, Task(c) PROVE PermitInv'
  <2>1. c \in InFlight /\ up' = up
    BY <1>4, TaskShape DEF PermitInv
  <2>2. CASE (\E p \in Live : phase' = [phase EXCEPT ![c] = p])
             /\ permits' = permits
    <3>1. InFlight' = InFlight
      BY <2>1, <2>2 DEF InFlight, Live, PermitInv
    <3> QED
      BY <2>1, <2>2, <3>1 DEF PermitInv, PermitsAccounted, Live
  <2>3. CASE phase' = [phase EXCEPT ![c] = "closed"] /\ permits' = permits + 1
    <3>1. InFlight' = InFlight \ {c}
      BY <2>3 DEF InFlight, Over, PermitInv
    <3>2. /\ Cardinality(InFlight') = Cardinality(InFlight) - 1
          /\ IsFiniteSet(InFlight')
      BY <1>0, <2>1, <3>1, FS_RemoveElement
    <3>3. Cardinality(InFlight') \in Nat
      BY <3>2, FS_CardinalityType
    <3> QED
      BY <1>0, <2>1, <2>3, <3>2, <3>3
      DEF PermitInv, PermitsAccounted, Phases
  <2> QED
    BY <1>4, <2>2, <2>3, TaskShape DEF PermitInv
<1>5. CASE Crash
  <2>1. InFlight' = {}
    BY <1>5 DEF Crash, InFlight, Over, PermitInv
  <2> QED
    BY <1>5, <2>1 DEF Crash, PermitInv, PermitsAccounted, Phases
<1>6. CASE Restart
  <2>1. InFlight' = {}
    BY <1>6 DEF Restart, InFlight, PermitInv, PermitsAccounted
  <2> QED
    BY <1>0, <1>6, <2>1, FS_EmptySet DEF Restart, PermitInv, PermitsAccounted
<1> QED
  BY <1>1, <1>2, <1>3, <1>4, <1>5, <1>6 DEF Next, Tick, process, vars

(***************************************************************************)
(* Whatever path a connection takes, the permits in use and the free ones  *)
(* add up to max_in_flight_connections, through crashes and restarts.      *)
(***************************************************************************)
THEOREM SemaphoreIsExact == Spec => []PermitsAccounted
<1>1. PermitInv => PermitsAccounted
  BY DEF PermitInv
<1> QED
  BY <1>1, PermitInit, PermitStep, PTL DEF Spec
=============================================================================
