--------------------------- MODULE GatewayProofs ----------------------------
(* Gateway: what the client is told, and the refinement of ReplayGuard. *)
EXTENDS GatewayRuns

(* What the client is told. *)

LEMMA AnswerInit == Init => AnswerInv
BY DEF Init, AnswerInv, ResponseTruth, ProfiledResponseIsBacked,
       RejectionNamesItsStage, PassedEveryGate, NoResponse, Unspent,
       BeforeReserve, Over

\* The part of the state's type that AnswerInv rests on.
AnswerType ==
    /\ phase \in [Conns -> Phases]
    /\ pkt \in [Conns -> Packets]
    /\ DOMAIN response = Conns
    /\ outcome \in [Conns -> {"none", "accepted", "rejected"}]

\* What AnswerInv says of one connection: what its task may still tell the
\* client, and what the client was told.
Telling(c) ==
    /\ phase[c] \notin Over => response[c].status = "none"
    /\ phase[c] \notin {"record"} \cup Over => outcome[c] = "none"
    /\ phase[c] = "record" /\ outcome[c] = "accepted" => c \in ran
    /\ phase[c] \in {"running", "record"} =>
          (c \in started <=> pkt[c].profiled)
    /\ phase[c] \notin {"running", "record"} \cup Over => c \notin started
    /\ phase[c] \in Unspent => c \notin spent_by
    /\ phase[c] \in {"reject", "deny"} => ~PassedEveryGate(c)

Told(c) ==
    /\ response[c].status \in {"executed", "accepted"} =>
          c \in ran /\ outcome[c] = "accepted"
    /\ response[c].status = "verifier_rejected" => c \notin ran
    /\ response[c].status \in {"executed", "execution_rejected"} =>
          [id |-> response[c].receipt, decision |-> Decision(c)] \in receipts
    /\ response[c].status = "execution_rejected" => PassedEveryGate(c)
    /\ response[c].status = "verifier_rejected" => ~PassedEveryGate(c)

AnswerOk(c) == Telling(c) /\ Told(c)

LEMMA AnswerPointwise == AnswerInv <=> \A c \in Conns : AnswerOk(c)
BY DEF AnswerInv, ResponseTruth, ProfiledResponseIsBacked,
       RejectionNamesItsStage, AnswerOk, Telling, Told

LEMMA AnswerPointwiseNext ==
    ASSUME \A c \in Conns : AnswerOk(c)'
    PROVE  AnswerInv'
BY DEF AnswerInv, ResponseTruth, ProfiledResponseIsBacked,
       RejectionNamesItsStage, AnswerOk, Telling, Told

\* A step that only concerns one connection keeps AnswerInv as long as what
\* that connection is told is true.
LEMMA AnswerFrame ==
    ASSUME AnswerInv, NEW c \in Conns, receipts \subseteq receipts',
           UNCHANGED pkt,
           \A d \in Conns : d # c =>
               /\ phase'[d] = phase[d]
               /\ response'[d] = response[d]
               /\ outcome'[d] = outcome[d]
               /\ d \in started' <=> d \in started
               /\ d \in ran' <=> d \in ran
               /\ d \in reserved_by' <=> d \in reserved_by
               /\ d \in spent_by' <=> d \in spent_by,
           AnswerOk(c)'
    PROVE  AnswerInv'
<1>1. ASSUME NEW d \in Conns, d # c PROVE AnswerOk(d)'
  <2>1. AnswerOk(d)
    BY AnswerPointwise
  <2>2. /\ PassedEveryGate(d)' <=> PassedEveryGate(d)
        /\ Decision(d)' = Decision(d)
    BY <1>1 DEF PassedEveryGate, Decision
  <2>3. Telling(d)'
    BY <1>1, <2>1, <2>2 DEF AnswerOk, Telling
  <2>4. Told(d)'
    BY <1>1, <2>1, <2>2 DEF AnswerOk, Told
  <2> QED
    BY <2>3, <2>4 DEF AnswerOk
<1>2. \A d \in Conns : AnswerOk(d)'
  BY <1>1
<1> QED
  BY <1>2, AnswerPointwiseNext

\* A step before the start that answers nobody.
LEMMA AnswerQuiet ==
    ASSUME AnswerType, AnswerInv, NEW c \in Conns,
           NEW p \in Phases \ {"running", "record"},
           phase[c] \notin {"running", "record"} \cup Over,
           phase' = [phase EXCEPT ![c] = p], receipts \subseteq receipts',
           UNCHANGED <<pkt, outcome, started, response, ran>>,
           \A d \in Conns : d # c => (d \in reserved_by' <=> d \in reserved_by)
                                  /\ (d \in spent_by' <=> d \in spent_by),
           p \in Unspent => c \notin spent_by',
           p \in {"reject", "deny"} => ~PassedEveryGate(c)'
    PROVE  AnswerInv'
<1>1. phase'[c] = p /\ \A d \in Conns : d # c => phase'[d] = phase[d]
  BY DEF AnswerType
<1>2. Telling(c)
  BY AnswerPointwise DEF AnswerOk
<1>3. Telling(c)'
  BY <1>1, <1>2 DEF Telling
<1>4. Told(c)'
  BY <1>2 DEF Telling, Told
<1> QED
  BY <1>1, <1>3, <1>4, AnswerFrame DEF AnswerOk

\* A task that ends with a rejection before the start.
LEMMA AnswerReject ==
    ASSUME AnswerType, AnswerInv, NEW c \in Conns, c \notin ran, NEW id,
           phase[c] \notin {"running", "record"} \cup Over,
           phase' = [phase EXCEPT ![c] = "closed"],
           receipts \subseteq receipts',
           NEW status \in {"rejected", "verifier_rejected"},
           status = "verifier_rejected" => ~PassedEveryGate(c),
           Answer(c, status, id),
           UNCHANGED <<pkt, outcome, started, ran, reserved_by, spent_by>>
    PROVE  AnswerInv'
<1>1. phase'[c] = "closed" /\ \A d \in Conns : d # c => phase'[d] = phase[d]
  BY DEF AnswerType
<1>2. Telling(c)
  BY AnswerPointwise DEF AnswerOk
<1>3. \/ response' = response
      \/ response' = [response EXCEPT ![c] = [status |-> status, receipt |-> id]]
  BY DEF Answer
<1>4. \A d \in Conns : d # c => response'[d] = response[d]
  BY <1>3 DEF AnswerType
<1>5. response'[c].status \in {"none", status}
  BY <1>2, <1>3 DEF AnswerType, Telling
<1>6. PassedEveryGate(c)' <=> PassedEveryGate(c)
  BY DEF PassedEveryGate
<1>7. Telling(c)'
  BY <1>1 DEF Telling, Over, Unspent, BeforeReserve
<1>8. Told(c)'
  BY <1>5, <1>6 DEF Told
<1> QED
  BY <1>1, <1>4, <1>7, <1>8, AnswerFrame DEF AnswerOk

\* Before the start, a routed request is told of a verifier rejection.
LEMMA EarlyStatus ==
    ASSUME NEW c \in Conns, c \notin started, outcome[c] = "none"
    PROVE  RouteStatus(c) \in {"rejected", "verifier_rejected"}
BY DEF RouteStatus, ExecutionStatus, Decision

LEMMA AnswerStart ==
    ASSUME AnswerType, RunInv, AnswerInv, NEW c \in Conns, StartHandler(c)
    PROVE  AnswerInv'
<1>1. Telling(c) /\ phase[c] = "start"
  BY AnswerPointwise DEF AnswerOk, StartHandler
<1>2. response[c].status = "none" /\ outcome[c] = "none" /\ c \notin started
  BY <1>1 DEF Telling, Over
<1>3. UNCHANGED <<pkt, outcome, response, receipts, reserved_by, spent_by>>
  BY DEF StartHandler, ledger
<1>4. phase'[c] \in {"record", "running"}
  BY DEF StartHandler, Goto, AnswerType
<1>5. c \in started' <=> pkt[c].profiled
  BY <1>2 DEF StartHandler
<1>6. \A d \in Conns : d # c =>
          /\ phase'[d] = phase[d]
          /\ d \in started' <=> d \in started
          /\ d \in ran' <=> d \in ran
  BY DEF StartHandler, Goto, AnswerType
<1>7. Telling(c)'
  BY <1>2, <1>3, <1>4, <1>5 DEF Telling, Unspent, BeforeReserve
<1>8. Told(c)'
  BY <1>2, <1>3 DEF Told
<1> QED
  BY <1>3, <1>6, <1>7, <1>8, AnswerFrame DEF AnswerOk

LEMMA AnswerFinish ==
    ASSUME AnswerType, RunInv, AnswerInv, NEW c \in Conns, FinishHandler(c)
    PROVE  AnswerInv'
<1>1. Telling(c) /\ phase[c] = "running" /\ c \in ran
  BY AnswerPointwise DEF AnswerOk, FinishHandler, RunInv, PassedGates
<1>2. response[c].status = "none" /\ (c \in started <=> pkt[c].profiled)
  BY <1>1 DEF Telling, Over
<1>3. UNCHANGED <<pkt, started, response, receipts, ran, reserved_by, spent_by>>
  BY DEF FinishHandler, ledger, history
<1>4. phase'[c] = "record"
  BY DEF FinishHandler, Goto, AnswerType
<1>5. \A d \in Conns : d # c =>
          phase'[d] = phase[d] /\ outcome'[d] = outcome[d]
  BY DEF FinishHandler, Goto, AnswerType
<1>6. Telling(c)'
  BY <1>1, <1>2, <1>3, <1>4 DEF Telling, Unspent, BeforeReserve
<1>7. Told(c)'
  BY <1>2, <1>3 DEF Told
<1> QED
  BY <1>3, <1>5, <1>6, <1>7, AnswerFrame DEF AnswerOk

LEMMA AnswerRecord ==
    ASSUME AnswerType, RunInv, AnswerInv, NEW c \in Conns, RecordExecution(c)
    PROVE  AnswerInv'
<1> DEFINE id == ReceiptId("execute", c)
           status == RouteStatus(c)
<1>1. Telling(c) /\ phase[c] = "record"
  BY AnswerPointwise DEF AnswerOk, RecordExecution
<1>2. /\ response[c].status = "none"
      /\ outcome[c] = "accepted" => c \in ran
      /\ c \in started <=> pkt[c].profiled
  BY <1>1 DEF Telling, Over
<1>3. PassedEveryGate(c)
  BY <1>1 DEF RunInv, PassedGates, AfterReserve, Admitted, PassedEveryGate
<1>4. /\ status # "verifier_rejected"
      /\ status \in {"executed", "accepted"} => outcome[c] = "accepted"
      /\ status \in {"executed", "execution_rejected"} => pkt[c].profiled
  BY <1>2 DEF RouteStatus, ExecutionStatus, Decision, AnswerType
<1>5. receipts \subseteq receipts'
  BY DEF RecordExecution, record_receipt_with_emitted_event
<1>6. \/ response' = response
      \/ /\ response' = [response EXCEPT ![c] =
                [status |-> status, receipt |-> id]]
         /\ pkt[c].profiled =>
              [id |-> id, decision |-> Decision(c)] \in receipts'
  BY DEF RecordExecution, Answer, record_receipt_with_emitted_event
<1> HIDE DEF id, status
<1>7. /\ phase'[c] = "closed"
      /\ \A d \in Conns : d # c => phase'[d] = phase[d]
  BY DEF RecordExecution, Close, AnswerType
<1>8. UNCHANGED <<pkt, outcome, started, ran, reserved_by, spent_by>>
  BY DEF RecordExecution, routed, history
<1>9. \A d \in Conns : d # c => response'[d] = response[d]
  BY <1>6 DEF AnswerType
<1>10. \/ response'[c] = response[c]
       \/ /\ response'[c].status = status
          /\ response'[c].receipt = id
          /\ pkt[c].profiled =>
               [id |-> id, decision |-> Decision(c)] \in receipts'
  BY <1>6 DEF AnswerType
<1>11. Telling(c)'
  BY <1>7 DEF Telling, Over, Unspent, BeforeReserve
<1>12. /\ PassedEveryGate(c)'
       /\ Decision(c)' = Decision(c)
  BY <1>3, <1>8 DEF PassedEveryGate, Decision
<1>13. Told(c)'
  BY <1>2, <1>4, <1>8, <1>10, <1>12 DEF Told
<1> QED
  BY <1>5, <1>7, <1>8, <1>9, <1>11, <1>13, AnswerFrame DEF AnswerOk

\* A routed request that is turned down before the start.
LEMMA AnswerTurnedDown ==
    ASSUME AnswerType, RunInv, AnswerInv, NEW c \in Conns, NEW id,
           NEW status, status = RouteStatus(c),
           phase[c] \in {"route", "reject", "deny"}, ~PassedEveryGate(c),
           phase' = [phase EXCEPT ![c] = "closed"],
           receipts \subseteq receipts', Answer(c, status, id),
           UNCHANGED <<pkt, outcome, started, ran, reserved_by, spent_by>>
    PROVE  AnswerInv'
<1>1. c \notin ran
  BY DEF RunInv, PassedGates, BeforeReserve
<1>2. phase[c] \notin {"running", "record"} \cup Over
  BY DEF Over
<1>3. c \notin started /\ outcome[c] = "none"
  BY <1>2, AnswerPointwise DEF AnswerOk, Telling
<1>4. status \in {"rejected", "verifier_rejected"}
  BY <1>3, EarlyStatus
<1> QED
  BY <1>1, <1>2, <1>4, AnswerReject

LEMMA AnswerNullifier ==
    ASSUME AnswerType, AnswerInv, NEW c \in Conns, RecordNullifier(c)
    PROVE  AnswerInv'
<1>1. Telling(c) /\ phase[c] = "nullify"
  BY AnswerPointwise DEF AnswerOk, RecordNullifier
<1>2. c \notin spent_by
  BY <1>1 DEF Telling, Unspent
<1>3. UNCHANGED <<pkt, outcome, started, response, receipts, ran, reserved_by>>
  BY DEF RecordNullifier, routed
<1>4. PICK p \in {"admit", "deny"} :
          /\ phase' = [phase EXCEPT ![c] = p]
          /\ p = "deny" => pkt[c].nullifier # NoNullifier /\ UNCHANGED spent_by
  BY DEF RecordNullifier, Goto
<1>5. \A d \in Conns : d # c => (d \in spent_by' <=> d \in spent_by)
  BY DEF RecordNullifier
<1>6. p = "deny" => ~PassedEveryGate(c)'
  BY <1>2, <1>3, <1>4 DEF PassedEveryGate
<1>7. p \in Phases \ {"running", "record"} /\ p \notin Unspent
      /\ phase[c] \notin {"running", "record"} \cup Over
  BY <1>1 DEF Phases, Over, Unspent, BeforeReserve
<1> QED
  BY <1>3, <1>4, <1>5, <1>6, <1>7, AnswerQuiet

LEMMA AnswerReserve ==
    ASSUME AnswerType, SlotInv, AnswerInv, NEW c \in Conns, ReserveReplay(c)
    PROVE  AnswerInv'
<1>1. Telling(c) /\ phase[c] = "insert"
  BY AnswerPointwise DEF AnswerOk, ReserveReplay
<1>2. c \notin spent_by /\ c \notin reserved_by
  BY <1>1 DEF Telling, Unspent, SlotInv, BeforeReserve
<1>3. UNCHANGED <<pkt, outcome, started, response, receipts, ran, spent_by>>
  BY DEF ReserveReplay, routed
<1>4. PICK p \in {"nullify", "reject"} :
          /\ phase' = [phase EXCEPT ![c] = p]
          /\ p = "reject" => UNCHANGED reserved_by
  BY DEF ReserveReplay, Goto
<1>5. \A d \in Conns : d # c => (d \in reserved_by' <=> d \in reserved_by)
  BY DEF ReserveReplay
<1>6. p = "reject" => ~PassedEveryGate(c)'
  BY <1>2, <1>4 DEF PassedEveryGate
<1>7. p \in Phases \ {"running", "record"} /\ c \notin spent_by'
      /\ phase[c] \notin {"running", "record"} \cup Over
  BY <1>1, <1>2, <1>3 DEF Phases, Over
<1> QED
  BY <1>3, <1>4, <1>5, <1>6, <1>7, AnswerQuiet

LEMMA AnswerTask ==
    ASSUME TypeOK, SlotInv, RunInv, AnswerInv, NEW c \in Conns, Task(c)
    PROVE  AnswerInv'
<1>0. AnswerType /\ RejectStatus(c) \in {"rejected", "verifier_rejected"}
  BY DEF TypeOK, AnswerType, RejectStatus
<1>1. UNCHANGED pkt
  BY TaskShape DEF TypeOK
<1>2. phase[c] \in BeforeReserve => c \notin spent_by /\ ~PassedEveryGate(c)
  BY AnswerPointwise DEF AnswerOk, Telling, Unspent, SlotInv, PassedEveryGate
<1>3. phase[c] \in {"reject", "deny"} => ~PassedEveryGate(c)
  BY AnswerPointwise DEF AnswerOk, Telling
\* A step before the start that only moves the task on.
<1>4. ASSUME NEW p \in Phases \ {"running", "record"},
             phase[c] \in BeforeReserve \cup {"admit"},
             phase' = [phase EXCEPT ![c] = p], receipts \subseteq receipts',
             UNCHANGED <<routed, response, reserved_by, spent_by, ran>>,
             p \in Unspent \cup {"reject"} => phase[c] \in BeforeReserve,
             p = "deny" => pkt[c].fate = "denied"
      PROVE  AnswerInv'
  <2>1. /\ UNCHANGED <<outcome, started>>
        /\ PassedEveryGate(c)' <=> PassedEveryGate(c)
    BY <1>1, <1>4 DEF routed, PassedEveryGate
  <2>2. p \in Unspent => c \notin spent_by'
    BY <1>2, <1>4
  <2>3. p \in {"reject", "deny"} => ~PassedEveryGate(c)'
    BY <1>2, <1>4, <2>1 DEF PassedEveryGate
  <2>4. phase[c] \notin {"running", "record"} \cup Over
    BY <1>4 DEF BeforeReserve, Over
  <2> QED
    BY <1>0, <1>1, <1>4, <2>1, <2>2, <2>3, <2>4, AnswerQuiet
<1>5. CASE ReserveReplay(c)     BY <1>0, <1>5, AnswerReserve
<1>6. CASE RecordNullifier(c)   BY <1>0, <1>6, AnswerNullifier
<1>7. CASE StartHandler(c)      BY <1>0, <1>7, AnswerStart
<1>8. CASE FinishHandler(c)     BY <1>0, <1>8, AnswerFinish
<1>9. CASE RecordExecution(c)   BY <1>0, <1>9, AnswerRecord
<1> USE DEF Goto, Close, history, ledger, Phases
<1>10. CASE ReadNothing(c)
  BY <1>4, <1>10 DEF ReadNothing, Unspent, BeforeReserve
<1>11. CASE VerifyAndSign(c)
  BY <1>4, <1>11 DEF VerifyAndSign, Unspent, BeforeReserve
<1>12. CASE RouteGates(c)
  BY <1>4, <1>12 DEF RouteGates, Unspent, BeforeReserve
<1>13. CASE PruneOnReserve(c)
  BY <1>4, <1>13 DEF PruneOnReserve, Unspent, BeforeReserve
<1>14. CASE PermissionGate(c)
  <2>1. receipts \subseteq receipts'
    BY <1>14, ReceiptsGrow DEF PermissionGate
  <2> QED
    BY <1>4, <1>14, <2>1 DEF PermissionGate, Unspent, BeforeReserve
<1> USE DEF routed
<1>15. CASE ReadMalformed(c)
  <2>1. PICK t \in ReadClock :
            LET id == [kind |-> "reject", at |-> t,
                       packet |-> [sequence |-> sequence]]
            IN  RecordBestEffort(id, "rejected") /\ Answer(c, "rejected", id)
    BY <1>15 DEF ReadMalformed, PreDecodeReceiptId
  <2>2. c \notin ran /\ receipts \subseteq receipts'
    BY <1>15, <2>1, ReceiptsGrow
    DEF ReadMalformed, RunInv, PassedGates, BeforeReserve
  <2> QED
    BY <1>0, <1>15, <2>1, <2>2, AnswerReject DEF ReadMalformed, Over
<1>16. CASE RejectUnverified(c)
  <2>1. PICK t \in ReadClock :
            LET id == [kind |-> "reject", at |-> t, packet |-> pkt[c]]
            IN  RecordBestEffort(id, "rejected")
                /\ Answer(c, RejectStatus(c), id)
    BY <1>16 DEF RejectUnverified
  <2>2. c \notin ran /\ receipts \subseteq receipts'
    BY <1>16, <2>1, ReceiptsGrow
    DEF RejectUnverified, RunInv, PassedGates, BeforeReserve
  <2>3. ~PassedEveryGate(c)
    BY <1>2, <1>16 DEF RejectUnverified, BeforeReserve
  <2> QED
    BY <1>0, <1>16, <2>1, <2>2, <2>3, AnswerReject DEF RejectUnverified, Over
<1>17. CASE RouteUntrusted(c)
  <2>1. ~PassedEveryGate(c) /\ receipts \subseteq receipts'
    BY <1>2, <1>17 DEF RouteUntrusted, BeforeReserve
  <2>2. /\ phase[c] \in {"route", "reject", "deny"}
        /\ phase' = [phase EXCEPT ![c] = "closed"]
        /\ UNCHANGED <<pkt, outcome, started, ran, reserved_by, spent_by>>
    BY <1>17 DEF RouteUntrusted
  <2>3. PICK id : Answer(c, RouteStatus(c), id)
    BY <1>17 DEF RouteUntrusted
  <2> QED
    BY <1>0, <2>1, <2>2, <2>3, AnswerTurnedDown
<1>18. CASE RecordReject(c)
  <2>1. ~PassedEveryGate(c) /\ receipts \subseteq receipts'
    BY <1>3, <1>18, ReceiptsGrow DEF RecordReject
  <2>2. /\ phase[c] \in {"route", "reject", "deny"}
        /\ phase' = [phase EXCEPT ![c] = "closed"]
        /\ UNCHANGED <<pkt, outcome, started, ran, reserved_by, spent_by>>
    BY <1>18 DEF RecordReject
  <2>3. PICK id : Answer(c, RouteStatus(c), id)
    BY <1>18 DEF RecordReject
  <2> QED
    BY <1>0, <2>1, <2>2, <2>3, AnswerTurnedDown
<1>19. CASE RecordDenial(c)
  <2>1. ~PassedEveryGate(c) /\ receipts \subseteq receipts'
    BY <1>3, <1>19, ReceiptsGrow DEF RecordDenial
  <2>2. /\ phase[c] \in {"route", "reject", "deny"}
        /\ phase' = [phase EXCEPT ![c] = "closed"]
        /\ UNCHANGED <<pkt, outcome, started, ran, reserved_by, spent_by>>
    BY <1>19 DEF RecordDenial
  <2>3. PICK id : Answer(c, RouteStatus(c), id)
    BY <1>19 DEF RecordDenial
  <2> QED
    BY <1>0, <2>1, <2>2, <2>3, AnswerTurnedDown
<1> QED
  BY <1>5, <1>6, <1>7, <1>8, <1>9, <1>10, <1>11, <1>12, <1>13, <1>14, <1>15,
     <1>16, <1>17, <1>18, <1>19 DEF Task

LEMMA AnswerStep ==
    TypeOK /\ SlotInv /\ RunInv /\ AnswerInv /\ [Next]_vars => AnswerInv'
<1> SUFFICES ASSUME TypeOK, SlotInv, RunInv, AnswerInv, [Next]_vars
             PROVE  AnswerInv'
  OBVIOUS
<1>0. AnswerType /\ \A c \in Conns : AnswerOk(c)
  BY AnswerPointwise DEF TypeOK, AnswerType
<1> USE DEF history, ledger, routed
<1>1. ASSUME UNCHANGED <<pkt, outcome, started, response, receipts, ran,
                         reserved_by, spent_by>>,
             \A c \in Conns : \/ phase'[c] = phase[c]
                              \/ phase[c] \notin Over /\ phase'[c] = "killed"
      PROVE  AnswerInv'
  <2>1. ASSUME NEW c \in Conns PROVE AnswerOk(c)'
    <3>1. /\ PassedEveryGate(c)' <=> PassedEveryGate(c)
          /\ Decision(c)' = Decision(c)
      BY <1>1 DEF PassedEveryGate, Decision
    <3>2. Told(c)'
      BY <1>0, <1>1, <3>1 DEF AnswerOk, Told
    <3>3. CASE phase'[c] = phase[c]
      BY <1>0, <1>1, <3>1, <3>2, <3>3 DEF AnswerOk, Telling
    <3>4. CASE phase'[c] = "killed"
      BY <3>2, <3>4 DEF AnswerOk, Telling, Over, Unspent, BeforeReserve
    <3> QED
      BY <1>1, <3>3, <3>4
  <2> QED
    BY <2>1, AnswerPointwiseNext
<1>2. ASSUME NEW c \in Conns, Accept(c) \/ TurnAway(c) PROVE AnswerInv'
  <2>1. c \notin spent_by
    BY <1>0, <1>2
    DEF Accept, TurnAway, AnswerOk, Telling, Unspent, BeforeReserve
  <2>2. PICK p \in {"reading", "turned_away"} : phase' = [phase EXCEPT ![c] = p]
    BY <1>2 DEF Accept, TurnAway
  <2>3. phase[c] \notin {"running", "record"} \cup Over
        /\ p \in Phases \ {"running", "record"}
    BY <1>2 DEF Accept, TurnAway, Over, Phases
  <2> QED
    BY <1>0, <1>2, <2>1, <2>2, <2>3, AnswerQuiet DEF Accept, TurnAway
<1>3. ASSUME NEW c \in Conns, Task(c) PROVE AnswerInv'
  BY <1>3, AnswerTask
<1>4. CASE Crash            BY <1>1, <1>4 DEF Crash, InFlight
<1>5. CASE Restart          BY <1>1, <1>5 DEF Restart
<1>6. CASE Tick             BY <1>1, <1>6 DEF Tick
<1>7. CASE UNCHANGED vars   BY <1>1, <1>7 DEF vars
<1> QED
  BY <1>2, <1>3, <1>4, <1>5, <1>6, <1>7 DEF Next

LEMMA AnswerInvariance == Spec => []AnswerInv
BY AnswerInit, AnswerStep, TypeCorrect, SlotInvariance, RunInvariance, PTL
DEF Spec

(***************************************************************************)
(* An acceptance a client reads means its own handler ran and accepted; a  *)
(* verifier rejection means its handler never started.                     *)
(***************************************************************************)
THEOREM AnswersAreTrue == Spec => []ResponseTruth
BY AnswerInvariance, PTL DEF AnswerInv

(***************************************************************************)
(* A signed execution response names a receipt that is in the ledger with  *)
(* the same decision, even when statements fail.                           *)
(***************************************************************************)
THEOREM ProfiledAnswersAreBacked == Spec => []ProfiledResponseIsBacked
BY AnswerInvariance, PTL DEF AnswerInv

(***************************************************************************)
(* A signed rejection names its stage: execution_rejected is told only     *)
(* past every gate, verifier_rejected only before, whatever the flag of    *)
(* the task went through.                                                  *)
(***************************************************************************)
THEOREM RejectionsNameTheirStage == Spec => []RejectionNamesItsStage
BY AnswerInvariance, PTL DEF AnswerInv
-----------------------------------------------------------------------------
(* The refinement. *)

\* A step that changes neither the clock nor the holders is a stutter.
LEMMA GuardStutter ==
    ASSUME UNCHANGED <<now, pkt, reserved_by, reserved_at_now, ran>>,
           reserved_by \subseteq Conns,
           \A c \in reserved_by : issued'[c] = issued[c]
    PROVE  UNCHANGED Guard!vars
<1>1. \A c \in reserved_by : expires_at(c)' = expires_at(c)
  BY DEF expires_at
<1>2. Grants' = Grants
  BY <1>1 DEF Grants
<1> QED
  BY <1>2 DEF Guard!vars

LEMMA GuardReserve ==
    ASSUME TypeOK, SlotInv, NEW c \in Conns, ReserveReplay(c),
           c \in reserved_by'
    PROVE  Guard!Grant(c)
<1> DEFINE g == [holder |-> c, slot |-> pkt[c].key, at |-> now,
                 until |-> expires_at(c)]
<1>1. c \notin reserved_by
  BY DEF ReserveReplay, SlotInv, BeforeReserve
<1>2. /\ ~Taken(replay_reservations, pkt[c].key)
      /\ reserved_by' = reserved_by \cup {c}
      /\ reserved_at_now' = [reserved_at_now EXCEPT ![c] = now]
      /\ UNCHANGED <<now, pkt, issued, ran>>
  BY <1>1 DEF ReserveReplay
<1>3. c \notin Guard!Granted
  BY <1>1 DEF Guard!Granted, Grants
<1>4. Guard!Free(pkt[c].key)
  <2>1. SlotType
    BY DEF TypeOK, SlotType
  <2>2. \A d \in reserved_by : pkt[d].key = pkt[c].key => expires_at(d) < now
    <3> SUFFICES ASSUME NEW d \in reserved_by, pkt[d].key = pkt[c].key
                 PROVE  expires_at(d) < now
      OBVIOUS
    <3>1. now > expires_at(d)
      BY <1>2, <2>1, FreshReservation
    <3>2. now \in Nat /\ expires_at(d) \in Nat
      BY Numbers, ExpiryType DEF TypeOK
    <3> QED
      BY <3>1, <3>2
  <2> QED
    BY <2>2 DEF Guard!Free, Grants
<1>5. pkt[c].key \in Slots /\ expires_at(c) \in Deadlines
  BY ExpiryType DEF TypeOK, Slots
<1>6. Grants' = Grants \cup {g}
  <2>1. \A d \in Conns : expires_at(d)' = expires_at(d)
    BY <1>2 DEF expires_at
  <2>2. reserved_at_now'[c] = now
        /\ \A d \in reserved_by : reserved_at_now'[d] = reserved_at_now[d]
    BY <1>1, <1>2 DEF TypeOK
  <2> DEFINE G(d) == [holder |-> d, slot |-> pkt[d].key,
                      at |-> reserved_at_now[d], until |-> expires_at(d)]
  <2>3. \A d \in reserved_by : G(d)' = G(d)
    BY <1>2, <2>1, <2>2 DEF TypeOK
  <2>4. G(c)' = g
    BY <1>2, <2>1, <2>2
  <2>5. Grants = {G(d) : d \in reserved_by}
        /\ Grants' = {G(d)' : d \in reserved_by'}
    BY DEF Grants
  <2> HIDE DEF G, g
  <2> QED
    BY <1>2, <2>3, <2>4, <2>5
<1> QED
  BY <1>2, <1>3, <1>4, <1>5, <1>6 DEF Guard!Grant

LEMMA GuardTask ==
    ASSUME TypeOK, SlotInv, RunInv, NEW c \in Conns, Task(c)
    PROVE  Guard!Grant(c) \/ Guard!Run(c) \/ UNCHANGED Guard!vars
<1>0. UNCHANGED <<now, pkt>> /\ reserved_by \subseteq Conns
  BY TaskShape DEF TypeOK
<1>1. CASE ReserveReplay(c)
  <2>1. CASE c \in reserved_by'
    BY <1>1, <2>1, GuardReserve
  <2>2. CASE c \notin reserved_by'
    BY <1>0, <1>1, <2>2, GuardStutter DEF ReserveReplay
  <2> QED
    BY <2>1, <2>2
<1>2. CASE StartHandler(c)
  <2>1. c \in reserved_by \ ran
    BY <1>2 DEF StartHandler, RunInv, PassedGates, AfterReserve, Admitted
  <2>2. c \in Guard!Granted
    <3> DEFINE g == [holder |-> c, slot |-> pkt[c].key,
                     at |-> reserved_at_now[c], until |-> expires_at(c)]
    <3>1. g \in Grants
      BY <2>1 DEF Grants
    <3>2. g.holder = c
      OBVIOUS
    <3> HIDE DEF g
    <3> QED
      BY <3>1, <3>2 DEF Guard!Granted
  <2>3. Grants' = Grants
    BY <1>0, <1>2 DEF StartHandler, Grants, expires_at
  <2>4. CASE ran' = ran \cup {c}
    BY <1>0, <2>1, <2>2, <2>3, <2>4 DEF Guard!Run
  <2>5. CASE ran' = ran
    BY <1>0, <2>3, <2>5 DEF Guard!vars
  <2> QED
    BY <1>2, <2>4, <2>5 DEF StartHandler
<1>3. CASE VerifyAndSign(c)
  <2>1. c \notin reserved_by
    BY <1>3 DEF VerifyAndSign, SlotInv, BeforeReserve
  <2>2. \A d \in reserved_by : issued'[d] = issued[d]
    BY <1>3, <2>1 DEF VerifyAndSign, TypeOK
  <2> QED
    BY <1>0, <1>3, <2>2, GuardStutter DEF VerifyAndSign, history
<1>4. CASE UNCHANGED <<issued, reserved_by, reserved_at_now, ran>>
  BY <1>0, <1>4, GuardStutter
<1> USE DEF history
<1>5. CASE ReadNothing(c)       BY <1>4, <1>5 DEF ReadNothing
<1>6. CASE ReadMalformed(c)     BY <1>4, <1>6 DEF ReadMalformed
<1>7. CASE RejectUnverified(c)  BY <1>4, <1>7 DEF RejectUnverified
<1>8. CASE RouteGates(c)        BY <1>4, <1>8 DEF RouteGates
<1>9. CASE RouteUntrusted(c)    BY <1>4, <1>9 DEF RouteUntrusted
<1>10. CASE PruneOnReserve(c)   BY <1>4, <1>10 DEF PruneOnReserve
<1>11. CASE RecordNullifier(c)  BY <1>4, <1>11 DEF RecordNullifier
<1>12. CASE PermissionGate(c)   BY <1>4, <1>12 DEF PermissionGate
<1>13. CASE FinishHandler(c)    BY <1>4, <1>13 DEF FinishHandler
<1>14. CASE RecordExecution(c)  BY <1>4, <1>14 DEF RecordExecution
<1>15. CASE RecordReject(c)     BY <1>4, <1>15 DEF RecordReject
<1>16. CASE RecordDenial(c)     BY <1>4, <1>16 DEF RecordDenial
<1> QED
  BY <1>1, <1>2, <1>3, <1>5, <1>6, <1>7, <1>8, <1>9, <1>10, <1>11, <1>12,
     <1>13, <1>14, <1>15, <1>16 DEF Task

LEMMA GuardStep ==
    TypeOK /\ SlotInv /\ RunInv /\ [Next]_vars => [Guard!Next]_(Guard!vars)
<1> SUFFICES ASSUME TypeOK, SlotInv, RunInv, [Next]_vars
             PROVE  Guard!Next \/ UNCHANGED Guard!vars
  OBVIOUS
<1>0. reserved_by \subseteq Conns
  BY DEF TypeOK
<1> USE DEF history
<1>1. ASSUME NEW c \in Conns, Task(c)
      PROVE  Guard!Next \/ UNCHANGED Guard!vars
  BY <1>1, GuardTask DEF Guard!Next
<1>2. CASE Tick
  <2>1. Grants' = Grants
    BY <1>2 DEF Tick, Grants, expires_at
  <2> QED
    BY <1>2, <2>1 DEF Tick, Guard!Next, Guard!Pass
<1>3. CASE UNCHANGED <<now, pkt, issued, history>>
  BY <1>0, <1>3, GuardStutter
<1>4. ASSUME NEW c \in Conns, Accept(c) \/ TurnAway(c)
      PROVE  Guard!Next \/ UNCHANGED Guard!vars
  BY <1>3, <1>4 DEF Accept, TurnAway
<1>5. CASE Crash \/ Restart    BY <1>3, <1>5 DEF Crash, Restart
<1>6. CASE UNCHANGED vars       BY <1>3, <1>6 DEF vars
<1> QED
  BY <1>1, <1>2, <1>4, <1>5, <1>6 DEF Next

(***************************************************************************)
(* The gateway's ledger implements the replay guard: every behaviour of    *)
(* the tables, timestamps, prunes and restarts grants a slot only when it  *)
(* is free and runs only its holder, once.                                 *)
(***************************************************************************)
THEOREM GatewayImplementsGuard == Spec => ImplementsReplayGuard
<1>1. Init => Guard!Init
  BY DEF Init, Guard!Init, Grants
<1> QED
  BY <1>1, GuardStep, TypeCorrect, SlotInvariance, RunInvariance, PTL
  DEF Spec, ImplementsReplayGuard, Guard!Spec
=============================================================================
