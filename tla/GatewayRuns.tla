---------------------------- MODULE GatewayRuns -----------------------------
(* Gateway: what a request has passed when its handler runs. *)
EXTENDS GatewayReplay

\* The part of the state's type that RunInv rests on.
RunType ==
    /\ phase \in [Conns -> Phases]
    /\ pkt \in [Conns -> Packets]
    /\ issued \in [Conns -> Times]
    /\ ts \in [Conns -> failclosed_unix_seconds]
    /\ spent_by \subseteq Conns
    /\ ran \subseteq Conns

LEMMA RunInit == Init => RunInv
BY DEF Init, RunInv, PassedGates, SpentApart, HandlerOnlyAfterGates,
       BeforeReserve, AfterReserve, Admitted

\* What HandlerOnlyAfterGates says of one connection.
RanAfterGates(c) ==
    /\ c \in reserved_by
    /\ pkt[c].nullifier # NoNullifier => c \in spent_by
    /\ pkt[c].fate = "handled"
    /\ ts[c] <= expires_at(c)

\* A step that only concerns one connection keeps RunInv as long as that
\* connection has passed what its new phase asks for.
LEMMA RunFrame ==
    ASSUME RunType, RunInv, NEW c \in Conns, UNCHANGED pkt,
           \A d \in Conns : d # c =>
               phase'[d] = phase[d] /\ ts'[d] = ts[d] /\ issued'[d] = issued[d],
           reserved_by \subseteq reserved_by', spent_by \subseteq spent_by',
           ran \subseteq ran', ran' \subseteq ran \cup {c},
           PassedGates(c)', SpentApart', c \in ran' => RanAfterGates(c)'
    PROVE  RunInv'
<1>1. \A d \in Conns : d # c => expires_at(d)' = expires_at(d)
  BY DEF expires_at
<1>2. ASSUME NEW d \in Conns, d # c PROVE PassedGates(d)'
  <2>1. PassedGates(d) /\ (d \in ran' <=> d \in ran)
    BY <1>2 DEF RunInv
  <2> QED
    BY <1>1, <1>2, <2>1 DEF PassedGates
<1>3. ASSUME NEW d \in ran', d # c PROVE RanAfterGates(d)'
  <2>1. d \in ran /\ d \in Conns
    BY <1>3 DEF RunType
  <2> QED
    BY <1>1, <1>3, <2>1 DEF RunInv, HandlerOnlyAfterGates, RanAfterGates
<1>4. HandlerOnlyAfterGates'
  BY <1>3 DEF HandlerOnlyAfterGates, RanAfterGates
<1> QED
  BY <1>2, <1>4 DEF RunInv

\* A step of a task that changes only its phase.
LEMMA RunQuiet ==
    ASSUME RunType, RunInv, NEW c \in Conns, NEW p \in Phases,
           phase' = [phase EXCEPT ![c] = p],
           UNCHANGED <<pkt, issued, ts, reserved_by, scoped_nullifier_uses,
                       spent_by, ran>>,
           PassedGates(c)'
    PROVE  RunInv'
<1>1. \A d \in Conns : d # c => phase'[d] = phase[d]
  BY DEF RunType
<1>2. SpentApart'
  BY DEF SpentApart, RunInv
<1>3. c \in ran' => RanAfterGates(c)'
  BY DEF RunInv, HandlerOnlyAfterGates, RanAfterGates, expires_at
<1> QED
  BY <1>1, <1>2, <1>3, RunFrame

LEMMA RunVerify ==
    ASSUME RunType, SlotInv, RunInv, NEW c \in Conns, VerifyAndSign(c)
    PROVE  RunInv'
<1>1. c \notin ran
  BY DEF VerifyAndSign, RunInv, PassedGates, BeforeReserve
<1>2. UNCHANGED <<pkt, ts, scoped_nullifier_uses, reserved_by, spent_by, ran>>
  BY DEF VerifyAndSign, history, ledger
<1>3. \A d \in Conns : d # c => phase'[d] = phase[d] /\ issued'[d] = issued[d]
  BY DEF VerifyAndSign, Goto, RunType
<1>4. \/ phase'[c] = "route" /\ pkt[c].fate # "unverified"
      \/ phase'[c] = "unverified"
  BY DEF VerifyAndSign, Goto, RunType
<1>5. pkt[c].fate \notin {"silent", "malformed"}
  BY DEF VerifyAndSign
<1>6. PassedGates(c)'
  BY <1>1, <1>2, <1>4, <1>5 DEF PassedGates, BeforeReserve, AfterReserve, Admitted
<1>7. SpentApart'
  BY <1>2 DEF SpentApart, RunInv
<1> QED
  BY <1>1, <1>2, <1>3, <1>6, <1>7, RunFrame

LEMMA RunGates ==
    ASSUME now \in Times, RunType, SlotInv, RunInv, NEW c \in Conns,
           RouteGates(c)
    PROVE  RunInv'
<1>1. c \notin ran /\ pkt[c].fate \notin {"silent", "malformed", "unverified"}
  BY DEF RouteGates, RunInv, PassedGates, BeforeReserve
<1>2. UNCHANGED <<pkt, issued, scoped_nullifier_uses, reserved_by, spent_by, ran>>
  BY DEF RouteGates, history, ledger
<1>3. PICK t \in ReadClock :
          /\ ts' = [ts EXCEPT ![c] = t]
          /\ phase' = [phase EXCEPT ![c] =
                IF \/ is_clock_read_failure(t) \/ t > expires_at(c)
                   \/ pkt[c].fate = "refused" THEN "reject" ELSE "prune"]
  BY DEF RouteGates, Goto
<1>4. t \in Nat /\ expires_at(c) \in Nat /\ expires_at(c)' = expires_at(c)
  <2>1. t \in Nat
    BY ReadClockType, Numbers
  <2>2. expires_at(c) \in Nat
    BY ExpiryType DEF RunType
  <2> QED
    BY <1>2, <2>1, <2>2 DEF expires_at
<1>5. ts'[c] = t /\ \A d \in Conns : d # c => ts'[d] = ts[d]
  BY <1>3 DEF RunType
<1>6. \A d \in Conns : d # c => phase'[d] = phase[d]
  BY <1>3 DEF RunType
<1>7. \/ phase'[c] = "reject"
      \/ phase'[c] = "prune" /\ ~(t > expires_at(c)) /\ pkt[c].fate # "refused"
  BY <1>3 DEF RunType
<1>8. pkt[c].fate \in Fates /\ pkt[c].fate # "untrusted"
  BY PacketAssumption DEF RunType, RouteGates
<1>9. phase'[c] = "prune" => ts'[c] <= expires_at(c)'
  BY <1>4, <1>5, <1>7
<1>10. PassedGates(c)'
  BY <1>1, <1>2, <1>7, <1>8, <1>9
  DEF PassedGates, BeforeReserve, AfterReserve, Admitted, Fates
<1>11. SpentApart'
  BY <1>2 DEF SpentApart, RunInv
<1> QED
  BY <1>1, <1>2, <1>5, <1>6, <1>10, <1>11, RunFrame

LEMMA RunReserve ==
    ASSUME RunType, SlotInv, RunInv, NEW c \in Conns, ReserveReplay(c)
    PROVE  RunInv'
<1>1. /\ c \notin ran
      /\ ts[c] <= expires_at(c)
      /\ pkt[c].fate \in {"denied", "unhandled", "handled"}
  BY DEF ReserveReplay, RunInv, PassedGates, BeforeReserve
<1>2. /\ UNCHANGED <<pkt, issued, ts, scoped_nullifier_uses, spent_by, ran>>
      /\ reserved_by \subseteq reserved_by'
  BY DEF ReserveReplay
<1>3. \A d \in Conns : d # c => phase'[d] = phase[d]
  BY DEF ReserveReplay, Goto, RunType
<1>4. phase'[c] = "reject" \/ (phase'[c] = "nullify" /\ c \in reserved_by')
  BY DEF ReserveReplay, Goto, RunType
<1>5. expires_at(c)' = expires_at(c)
  BY <1>2 DEF expires_at
<1>6. PassedGates(c)'
  BY <1>1, <1>2, <1>4, <1>5 DEF PassedGates, BeforeReserve, AfterReserve, Admitted
<1>7. SpentApart'
  BY <1>2 DEF SpentApart, RunInv
<1> QED
  BY <1>1, <1>2, <1>3, <1>6, <1>7, RunFrame

LEMMA RunNullifier ==
    ASSUME RunType, RunInv, NEW c \in Conns, RecordNullifier(c)
    PROVE  RunInv'
<1>1. /\ c \notin ran /\ c \in reserved_by
      /\ ts[c] <= expires_at(c)
      /\ pkt[c].fate \in {"denied", "unhandled", "handled"}
  BY DEF RecordNullifier, RunInv, PassedGates, BeforeReserve, AfterReserve, Admitted
<1>2. /\ UNCHANGED <<pkt, issued, ts, reserved_by, ran>>
      /\ spent_by \subseteq spent_by'
  BY DEF RecordNullifier
<1>3. \A d \in Conns : d # c => phase'[d] = phase[d]
  BY DEF RecordNullifier, Goto, RunType
<1>4. \/ phase'[c] = "deny"
      \/ /\ phase'[c] = "admit"
         /\ pkt[c].nullifier = NoNullifier \/ c \in spent_by'
  BY DEF RecordNullifier, Goto, RunType
<1>5. expires_at(c)' = expires_at(c)
  BY <1>2 DEF expires_at
<1>6. PassedGates(c)'
  BY <1>1, <1>2, <1>4, <1>5 DEF PassedGates, BeforeReserve, AfterReserve, Admitted
<1>7. \/ UNCHANGED <<scoped_nullifier_uses, spent_by>>
      \/ /\ pkt[c].nullifier \notin scoped_nullifier_uses
         /\ scoped_nullifier_uses' = scoped_nullifier_uses \cup {pkt[c].nullifier}
         /\ spent_by' = spent_by \cup {c}
  BY DEF RecordNullifier
<1>8. SpentApart'
  BY <1>2, <1>7 DEF SpentApart, RunInv
<1> QED
  BY <1>1, <1>2, <1>3, <1>6, <1>8, RunFrame

LEMMA RunHandler ==
    ASSUME RunType, RunInv, NEW c \in Conns, StartHandler(c)
    PROVE  RunInv'
<1>1. /\ c \notin ran /\ c \in reserved_by
      /\ ts[c] <= expires_at(c)
      /\ pkt[c].fate \in {"unhandled", "handled"}
      /\ pkt[c].nullifier = NoNullifier \/ c \in spent_by
  BY DEF StartHandler, RunInv, PassedGates, BeforeReserve, AfterReserve, Admitted
<1>2. UNCHANGED <<pkt, issued, ts, scoped_nullifier_uses, reserved_by, spent_by>>
  BY DEF StartHandler, ledger
<1>3. \A d \in Conns : d # c => phase'[d] = phase[d]
  BY DEF StartHandler, Goto, RunType
<1>4. \/ phase'[c] = "record" /\ ran' = ran
      \/ phase'[c] = "running" /\ ran' = ran \cup {c} /\ pkt[c].fate # "unhandled"
  BY DEF StartHandler, Goto, RunType
<1>5. expires_at(c)' = expires_at(c)
  BY <1>2 DEF expires_at
<1>6. PassedGates(c)'
  BY <1>1, <1>2, <1>4, <1>5 DEF PassedGates, BeforeReserve, AfterReserve, Admitted
<1>7. SpentApart'
  BY <1>2 DEF SpentApart, RunInv
<1>8. c \in ran' => RanAfterGates(c)'
  BY <1>1, <1>2, <1>4, <1>5 DEF RanAfterGates
<1>9. ran \subseteq ran' /\ ran' \subseteq ran \cup {c}
  BY <1>4
<1> QED
  BY <1>2, <1>3, <1>6, <1>7, <1>8, <1>9, RunFrame

LEMMA RunTask ==
    ASSUME TypeOK, SlotInv, RunInv, NEW c \in Conns, Task(c)
    PROVE  RunInv'
<1>1. RunType /\ now \in Times
  BY DEF TypeOK, RunType
<1>2. ASSUME NEW p \in Phases, phase' = [phase EXCEPT ![c] = p],
             UNCHANGED <<issued, ts, reserved_by, scoped_nullifier_uses,
                         spent_by, ran>>,
             \/ p \in {"closed", "reject"} /\ (p = "reject" => c \notin ran)
             \/ p = "insert" /\ phase[c] = "prune"
             \/ p \in {"start", "deny"} /\ phase[c] = "admit"
                /\ (p = "start" => pkt[c].fate # "denied")
             \/ p = "record" /\ phase[c] = "running"
      PROVE  RunInv'
  <2>1. UNCHANGED pkt /\ expires_at(c)' = expires_at(c)
    BY <1>1, <1>2, TaskShape DEF RunType, expires_at
  <2>2. phase'[c] = p /\ PassedGates(c)
    BY <1>1, <1>2 DEF RunType, RunInv
  <2>3. PassedGates(c)'
    BY <1>2, <2>1, <2>2 DEF PassedGates, BeforeReserve, AfterReserve, Admitted
  <2> QED
    BY <1>1, <1>2, <2>1, <2>3, RunQuiet
<1>3. CASE VerifyAndSign(c)     BY <1>1, <1>3, RunVerify
<1>4. CASE RouteGates(c)        BY <1>1, <1>4, RunGates
<1>5. CASE ReserveReplay(c)     BY <1>1, <1>5, RunReserve
<1>6. CASE RecordNullifier(c)   BY <1>1, <1>6, RunNullifier
<1>7. CASE StartHandler(c)      BY <1>1, <1>7, RunHandler
<1> USE DEF Goto, Close, history, ledger, Phases
<1>8. CASE ReadNothing(c)       BY <1>2, <1>8 DEF ReadNothing
<1>9. CASE ReadMalformed(c)     BY <1>2, <1>9 DEF ReadMalformed
<1>10. CASE RejectUnverified(c) BY <1>2, <1>10 DEF RejectUnverified
<1>11. CASE RouteUntrusted(c)   BY <1>2, <1>11 DEF RouteUntrusted
<1>12. CASE PruneOnReserve(c)   BY <1>2, <1>12 DEF PruneOnReserve
<1>13. CASE PermissionGate(c)   BY <1>2, <1>13 DEF PermissionGate
<1>14. CASE FinishHandler(c)    BY <1>2, <1>14 DEF FinishHandler
<1>15. CASE RecordExecution(c)  BY <1>2, <1>15 DEF RecordExecution
<1>16. CASE RecordReject(c)     BY <1>2, <1>16 DEF RecordReject
<1>17. CASE RecordDenial(c)     BY <1>2, <1>17 DEF RecordDenial
<1> QED
  BY <1>3, <1>4, <1>5, <1>6, <1>7, <1>8, <1>9, <1>10, <1>11, <1>12, <1>13,
     <1>14, <1>15, <1>16, <1>17 DEF Task

LEMMA RunStep == TypeOK /\ SlotInv /\ RunInv /\ [Next]_vars => RunInv'
<1> SUFFICES ASSUME TypeOK, SlotInv, RunInv, [Next]_vars PROVE RunInv'
  OBVIOUS
<1>0. RunType
  BY DEF TypeOK, RunType
<1> USE DEF history, ledger
<1>1. CASE UNCHANGED <<phase, pkt, issued, ts, reserved_by,
                       scoped_nullifier_uses, spent_by, ran>>
  BY <1>1 DEF RunInv, PassedGates, SpentApart, HandlerOnlyAfterGates, expires_at
<1>2. ASSUME NEW c \in Conns, Accept(c) \/ TurnAway(c) PROVE RunInv'
  <2>1. c \notin ran
    BY <1>2 DEF Accept, TurnAway, RunInv, PassedGates, BeforeReserve
  <2>2. PICK p \in {"reading", "turned_away"} : phase' = [phase EXCEPT ![c] = p]
    BY <1>2 DEF Accept, TurnAway
  <2>3. UNCHANGED <<pkt, issued, ts, reserved_by, scoped_nullifier_uses,
                    spent_by, ran>>
    BY <1>2 DEF Accept, TurnAway
  <2>4. phase'[c] = p
    BY <1>0, <2>2 DEF RunType
  <2>5. PassedGates(c)'
    BY <2>1, <2>3, <2>4 DEF PassedGates, BeforeReserve, AfterReserve, Admitted
  <2> QED
    BY <1>0, <2>2, <2>3, <2>5, RunQuiet DEF Phases
<1>3. ASSUME NEW c \in Conns, Task(c) PROVE RunInv'
  BY <1>3, RunTask
<1>4. CASE Crash
  <2>1. \A c \in Conns : phase'[c] = phase[c] \/ phase'[c] = "killed"
    BY <1>4 DEF Crash
  <2>2. UNCHANGED <<pkt, issued, ts, reserved_by, scoped_nullifier_uses,
                    spent_by, ran>>
    BY <1>4 DEF Crash
  <2>3. ASSUME NEW c \in Conns PROVE PassedGates(c)'
    BY <2>1, <2>2 DEF RunInv, PassedGates, BeforeReserve, AfterReserve, Admitted,
                      expires_at
  <2> QED
    BY <2>2, <2>3 DEF RunInv, SpentApart, HandlerOnlyAfterGates, expires_at
<1>5. CASE Restart      BY <1>1, <1>5 DEF Restart
<1>6. CASE Tick         BY <1>1, <1>6 DEF Tick
<1>7. CASE UNCHANGED vars   BY <1>1, <1>7 DEF vars
<1> QED
  BY <1>2, <1>3, <1>4, <1>5, <1>6, <1>7 DEF Next

LEMMA RunInvariance == Spec => []RunInv
BY RunInit, RunStep, TypeCorrect, SlotInvariance, PTL DEF Spec

(***************************************************************************)
(* A handler is invoked only for a request that took its replay slot,      *)
(* recorded its nullifier, passed every gate, and was routed in time.      *)
(***************************************************************************)
THEOREM GatesHold == Spec => []HandlerOnlyAfterGates
BY RunInvariance, PTL DEF RunInv

(***************************************************************************)
(* A scoped nullifier admits at most one handler run, whatever happens.    *)
(***************************************************************************)
THEOREM NullifierBoundary == Spec => []NullifierRunsOnce
<1>1. RunInv => NullifierRunsOnce
  BY DEF RunInv, SpentApart, HandlerOnlyAfterGates, NullifierRunsOnce
<1> QED
  BY <1>1, RunInvariance, PTL
=============================================================================
