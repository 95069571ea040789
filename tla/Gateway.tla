------------------------------ MODULE Gateway -------------------------------
(***************************************************************************)
(* The TCP gateway of server/src/ingress.rs and server/src/gateway.rs: one *)
(* task per accepted connection, all tasks sharing the SQLite ledger, the  *)
(* wall clock and the in-flight semaphore.  A step of a connection is the  *)
(* code between two awaits on shared state; everything it computes from    *)
(* its own packet is folded into that step.  The process may crash at any  *)
(* point and restart on the same database.                                 *)
(***************************************************************************)
EXTENDS Ledger, FiniteSets

CONSTANTS
    Conns,         \* connections; each carries at most one request
    Packets,       \* the requests clients may send
    NoNullifier,   \* the nullifier field of a packet without scoped use
    BadNullifier,  \* scoped use is required, its evidence is unusable
    MaxInFlight,   \* max_in_flight_connections
    DbFaults,      \* may a SQLite statement fail?
    ClockFaults,   \* may a clock read fail?
    LostWrites,    \* may the write of a response fail or time out?
    MaxCrashes     \* bound on process crashes

(***************************************************************************)
(* What becomes of a request once its own bytes are looked at:             *)
(*   silent      the client closes without sending a byte                  *)
(*   malformed   the frame is unreadable, oversized or late                *)
(*   unverified  envelope, tunnel, decryption, manifest, caller or         *)
(*               evidence verification fails at ingress                    *)
(*   untrusted   the router does not trust the context's signer: rejected  *)
(*               without a receipt                                         *)
(*   refused     another gate ahead of the replay reservation rejects it   *)
(*   denied      the receiver-local permission policy denies it            *)
(*   unhandled   payload too large for the handler, or no handler bound    *)
(*   handled     a handler is invoked                                      *)
(***************************************************************************)
Fates == {"silent", "malformed", "unverified", "untrusted", "refused",
          "denied", "unhandled", "handled"}

\* The envelope check rejects a claim_ttl of zero.
ASSUME PacketAssumption ==
    \A p \in Packets :
        /\ DOMAIN p = {"key", "claim_ttl", "nullifier", "profiled", "fate"}
        /\ p.claim_ttl \in Nat
        /\ p.claim_ttl = 0 => p.fate \in {"silent", "malformed", "unverified"}
        /\ p.profiled \in BOOLEAN
        /\ p.fate \in Fates

ASSUME InFlightAssumption == IsFiniteSet(Conns) /\ MaxInFlight \in Nat

ASSUME FaultAssumption ==
    /\ DbFaults \in BOOLEAN
    /\ ClockFaults \in BOOLEAN
    /\ LostWrites \in BOOLEAN
    /\ MaxCrashes \in Nat

VARIABLES
    now,              \* wall clock, in seconds
    up,               \* is the gateway process running?
    crashes,          \* crashes so far
    sequence,         \* PRE_DECODE_REJECT_SEQUENCE of the running process
    permits,          \* free permits of the in-flight semaphore
    phase,            \* where each connection's task is
    pkt,              \* the request the client of each connection sends
    issued,           \* issued_at of the verified context
    ts,               \* the one timestamp route_verified reads and reuses
    replay_reservations,
    scoped_nullifier_uses,
    receipts,
    outcome,          \* what the handler returned
    started,          \* tasks whose ROUTED_EXECUTION_STARTED is set
    response,         \* what was written back to the client
    reserved_by,      \* history: connections whose INSERT took the slot
    reserved_at_now,  \* history: the clock when it did
    spent_by,         \* history: connections that recorded their nullifier
    ran               \* history: connections whose handler was invoked

ledger == <<replay_reservations, scoped_nullifier_uses, receipts>>
history == <<reserved_by, reserved_at_now, spent_by, ran>>
process == <<up, crashes, sequence>>
routed == <<outcome, started>>
vars == <<now, process, permits, phase, pkt, issued, ts, ledger, routed,
          response, history>>

Phases == {"idle", "reading", "unverified", "route", "prune", "insert",
           "nullify", "admit", "start", "running", "record", "reject", "deny",
           "closed", "turned_away", "killed"}
Over == {"closed", "turned_away", "killed"}
InFlight == {c \in Conns : phase[c] \notin Over \cup {"idle"}}

NoReceipt == [kind |-> "none"]
NoResponse == [status |-> "none", receipt |-> NoReceipt]

expires_at(c) == issued[c] + pkt[c].claim_ttl

\* A reading of the clock: the second it shows, or the failure sentinel.
ReadClock == {now} \cup IF ClockFaults THEN {CLOCK_READ_FAILURE_SENTINEL}
                                       ELSE {}

\* receipt-{kind}-{timestamp}-{opcode}-{context_id}-{packet hash}; the context
\* id repeats issued_at and the packet hash.
ReceiptId_UNTIMED(kind, c) == [kind |-> kind, packet |-> pkt[c]]

ReceiptId(kind, c) == [kind |-> kind, at |-> ts[c], issued |-> issued[c],
                       packet |-> pkt[c]]

\* Moving a task on, and ending it: the permit is owned by the task.
Goto(c, p) == /\ phase' = [phase EXCEPT ![c] = p]
              /\ UNCHANGED permits
Close(c) == /\ phase' = [phase EXCEPT ![c] = "closed"]
            /\ permits' = permits + 1
\* One frame is written back under a timeout; a client that is slow or gone
\* never sees it.
Answer(c, status, id) ==
    \/ response' = [response EXCEPT ![c] = [status |-> status, receipt |-> id]]
    \/ LostWrites /\ UNCHANGED response

\* record_signed_receipt: the receipt and its event in one transaction; a
\* failure is logged and the caller goes on.
RecordBestEffort(id, decision) ==
    \/ /\ ~HasReceipt(receipts, id)
       /\ receipts' = record_receipt_with_emitted_event(receipts, id, decision)
    \/ /\ HasReceipt(receipts, id) \/ DbFaults
       /\ UNCHANGED receipts

\* A rejection at ingress, in the frame the operation's response mode asks for.
RejectStatus(c) == IF pkt[c].profiled THEN "verifier_rejected" ELSE "rejected"

\* What route_verified decides; without an outcome of a handler, it rejects.
Decision(c) == IF outcome[c] = "accepted" THEN "accepted" ELSE "rejected"

\* The status of an execution response: the projection of the outcome if a
\* handler returned one, otherwise what ROUTED_EXECUTION_STARTED says.
ExecutionStatus_NOT_STARTED(c) ==
    IF outcome[c] = "accepted" THEN "executed" ELSE "verifier_rejected"

ExecutionStatus(c) ==
    CASE outcome[c] = "accepted" -> "executed"
      [] outcome[c] = "rejected" -> "execution_rejected"
      [] outcome[c] = "none" -> IF c \in started THEN "execution_rejected"
                                                ELSE "verifier_rejected"

\* Execution responses are for operations with an output profile.
RouteStatus(c) == IF pkt[c].profiled THEN ExecutionStatus(c) ELSE Decision(c)
-----------------------------------------------------------------------------
Init ==
    /\ now = 0
    /\ up = TRUE
    /\ crashes = 0
    /\ sequence = 1
    /\ permits = MaxInFlight
    /\ phase = [c \in Conns |-> "idle"]
    /\ pkt \in [Conns -> Packets]
    /\ issued = [c \in Conns |-> 0]
    /\ ts = [c \in Conns |-> 0]
    /\ replay_reservations = {}
    /\ scoped_nullifier_uses = {}
    /\ receipts = {}
    /\ outcome = [c \in Conns |-> "none"]
    /\ started = {}
    /\ response = [c \in Conns |-> NoResponse]
    /\ reserved_by = {}
    /\ reserved_at_now = [c \in Conns |-> 0]
    /\ spent_by = {}
    /\ ran = {}

Tick ==
    /\ now < MaxTime
    /\ now' = now + 1
    /\ UNCHANGED <<process, permits, phase, pkt, issued, ts, ledger, routed,
                   response, history>>
-----------------------------------------------------------------------------
(* Ingress. *)

\* try_acquire_owned: a connection either gets a permit or is dropped.
Accept(c) ==
    /\ up
    /\ phase[c] = "idle"
    /\ permits > 0
    /\ permits' = permits - 1
    /\ phase' = [phase EXCEPT ![c] = "reading"]
    /\ UNCHANGED <<now, process, pkt, issued, ts, ledger, routed, response,
                   history>>

TurnAway_RELEASING(c) ==
    /\ up
    /\ phase[c] = "idle"
    /\ permits = 0
    /\ permits' = permits + 1
    /\ phase' = [phase EXCEPT ![c] = "turned_away"]
    /\ UNCHANGED <<now, process, pkt, issued, ts, ledger, routed, response,
                   history>>

TurnAway(c) ==
    /\ up
    /\ phase[c] = "idle"
    /\ permits = 0
    /\ phase' = [phase EXCEPT ![c] = "turned_away"]
    /\ UNCHANGED <<now, process, permits, pkt, issued, ts, ledger, routed,
                   response, history>>

ReadNothing(c) ==
    /\ phase[c] = "reading"
    /\ pkt[c].fate = "silent"
    /\ Close(c)
    /\ UNCHANGED <<now, process, pkt, issued, ts, ledger, routed, response,
                   history>>

\* record_pre_decode_reject: there is no packet, so one is made up whose only
\* content is the next number of the process.
PreDecodeReceiptId(t) ==
    [kind |-> "reject", at |-> t, packet |-> [sequence |-> sequence]]

ReadMalformed(c) ==
    /\ phase[c] = "reading"
    /\ pkt[c].fate = "malformed"
    /\ Close(c)
    /\ sequence' = sequence + 1
    /\ \E t \in ReadClock :
          /\ RecordBestEffort(PreDecodeReceiptId(t), "rejected")
          /\ Answer(c, "rejected", PreDecodeReceiptId(t))
    /\ UNCHANGED <<now, up, crashes, pkt, issued, ts, replay_reservations,
                   scoped_nullifier_uses, routed, history>>

\* From the decoded packet to the signed context the code reads only the
\* packet, the configuration and, once, the clock; a failed clock read is an
\* expired claim.
VerifyAndSign(c) ==
    /\ phase[c] = "reading"
    /\ pkt[c].fate \notin {"silent", "malformed"}
    /\ \E t \in ReadClock :
          \/ /\ pkt[c].fate # "unverified"
             /\ ~is_clock_read_failure(t)
             /\ issued' = [issued EXCEPT ![c] = t]
             /\ Goto(c, "route")
          \/ /\ pkt[c].fate = "unverified" \/ is_clock_read_failure(t)
             /\ Goto(c, "unverified")
             /\ UNCHANGED issued
    /\ UNCHANGED <<now, process, pkt, ts, ledger, routed, response, history>>

\* record_reject reads the clock again; its receipt id has no context in it.
RejectUnverified(c) ==
    /\ phase[c] = "unverified"
    /\ Close(c)
    /\ \E t \in ReadClock :
          LET id == [kind |-> "reject", at |-> t, packet |-> pkt[c]]
          IN  /\ RecordBestEffort(id, "rejected")
              /\ Answer(c, RejectStatus(c), id)
    /\ UNCHANGED <<now, process, pkt, issued, ts, replay_reservations,
                   scoped_nullifier_uses, routed, history>>
-----------------------------------------------------------------------------
(* route_verified. *)

\* The gates ahead of the reservation: context signature and expiry, active
\* descriptor, dev binding, node registration, authority mode, proof metadata.
RouteGates_WITHOUT_EXPIRY(c) ==
    /\ phase[c] = "route"
    /\ pkt[c].fate # "untrusted"
    /\ \E t \in ReadClock :
          /\ ts' = [ts EXCEPT ![c] = t]
          /\ Goto(c, IF pkt[c].fate = "refused" THEN "reject" ELSE "prune")
    /\ UNCHANGED <<now, process, pkt, issued, ledger, routed, response,
                   history>>

RouteGates(c) ==
    /\ phase[c] = "route"
    /\ pkt[c].fate # "untrusted"
    /\ \E t \in ReadClock :
          /\ ts' = [ts EXCEPT ![c] = t]
          /\ Goto(c, IF \/ is_clock_read_failure(t)
                        \/ t > expires_at(c)
                        \/ pkt[c].fate = "refused"
                     THEN "reject" ELSE "prune")
    /\ UNCHANGED <<now, process, pkt, issued, ledger, routed, response,
                   history>>

\* should_emit_signed_context_reject: an untrusted signer leaves no receipt.
RouteUntrusted(c) ==
    /\ phase[c] = "route"
    /\ pkt[c].fate = "untrusted"
    /\ Close(c)
    /\ Answer(c, RouteStatus(c), NoReceipt)
    /\ UNCHANGED <<now, process, pkt, issued, ts, ledger, routed, history>>

\* reserve_replay, first statement: the prune, whose errors are ignored.
PruneOnReserve(c) ==
    /\ phase[c] = "prune"
    /\ Goto(c, "insert")
    /\ \/ replay_reservations' =
             prune_expired_replay_reservations(replay_reservations, ts[c])
       \/ DbFaults /\ UNCHANGED replay_reservations
    /\ UNCHANGED <<now, process, pkt, issued, ts, scoped_nullifier_uses,
                   receipts, routed, response, history>>

\* reserve_replay, second statement: INSERT OR IGNORE.
ReserveReplay_UNCHECKED(c) ==
    /\ phase[c] = "insert"
    /\ replay_reservations' = Reserve(replay_reservations, pkt[c].key, expires_at(c))
    /\ reserved_by' = reserved_by \cup {c}
    /\ reserved_at_now' = [reserved_at_now EXCEPT ![c] = now]
    /\ Goto(c, "nullify")
    /\ UNCHANGED <<now, process, pkt, issued, ts, scoped_nullifier_uses,
                   receipts, routed, response, spent_by, ran>>

ReserveReplay(c) ==
    /\ phase[c] = "insert"
    /\ \/ /\ ~Taken(replay_reservations, pkt[c].key)
          /\ replay_reservations' =
                Reserve(replay_reservations, pkt[c].key, expires_at(c))
          /\ reserved_by' = reserved_by \cup {c}
          /\ reserved_at_now' = [reserved_at_now EXCEPT ![c] = now]
          /\ Goto(c, "nullify")
       \/ /\ Taken(replay_reservations, pkt[c].key) \/ DbFaults
          /\ Goto(c, "reject")
          /\ UNCHANGED <<replay_reservations, reserved_by, reserved_at_now>>
    /\ UNCHANGED <<now, process, pkt, issued, ts, scoped_nullifier_uses,
                   receipts, routed, response, spent_by, ran>>

\* record_scoped_nullifier_use, for contexts that require a scoped use.
RecordNullifier_UNCHECKED(c) ==
    /\ phase[c] = "nullify"
    /\ scoped_nullifier_uses' = scoped_nullifier_uses \cup {pkt[c].nullifier}
    /\ spent_by' = spent_by \cup {c}
    /\ Goto(c, "admit")
    /\ UNCHANGED <<now, process, pkt, issued, ts, replay_reservations, receipts,
                   routed, response, reserved_by, reserved_at_now, ran>>

RecordNullifier(c) ==
    LET n == pkt[c].nullifier
    IN  /\ phase[c] = "nullify"
        /\ \/ /\ n = NoNullifier
              /\ Goto(c, "admit")
              /\ UNCHANGED <<scoped_nullifier_uses, spent_by>>
           \/ /\ n \notin {NoNullifier, BadNullifier} \cup scoped_nullifier_uses
              /\ scoped_nullifier_uses' = scoped_nullifier_uses \cup {n}
              /\ spent_by' = spent_by \cup {c}
              /\ Goto(c, "admit")
           \/ /\ n # NoNullifier
              /\ n \in {BadNullifier} \cup scoped_nullifier_uses \/ DbFaults
              /\ Goto(c, "deny")
              /\ UNCHANGED <<scoped_nullifier_uses, spent_by>>
        /\ UNCHANGED <<now, process, pkt, issued, ts, replay_reservations,
                       receipts, routed, response, reserved_by,
                       reserved_at_now, ran>>

\* The verify receipt, then the permission policy.
PermissionGate_STARTING(c) ==
    /\ phase[c] = "admit"
    /\ RecordBestEffort(ReceiptId("verify", c), "accepted")
    /\ started' = IF pkt[c].profiled THEN started \cup {c} ELSE started
    /\ Goto(c, IF pkt[c].fate = "denied" THEN "deny" ELSE "start")
    /\ UNCHANGED <<now, process, pkt, issued, ts, replay_reservations,
                   scoped_nullifier_uses, outcome, response, history>>

PermissionGate(c) ==
    /\ phase[c] = "admit"
    /\ RecordBestEffort(ReceiptId("verify", c), "accepted")
    /\ Goto(c, IF pkt[c].fate = "denied" THEN "deny" ELSE "start")
    /\ UNCHANGED <<now, process, pkt, issued, ts, replay_reservations,
                   scoped_nullifier_uses, routed, response, history>>

\* Only route_verified_for_execution, which serves the operations with an
\* output profile, has ROUTED_EXECUTION_STARTED in scope: it is set before the
\* size and binding checks.  HandlerStarted follows if they pass.
StartHandler_ACCEPTING(c) ==
    /\ phase[c] = "start"
    /\ outcome' = [outcome EXCEPT ![c] = "accepted"]
    /\ Goto(c, "record")
    /\ UNCHANGED <<now, process, pkt, issued, ts, ledger, started, response,
                   history>>

StartHandler(c) ==
    /\ phase[c] = "start"
    /\ started' = IF pkt[c].profiled THEN started \cup {c} ELSE started
    /\ \/ /\ pkt[c].fate = "unhandled"
          /\ Goto(c, "record")
          /\ UNCHANGED ran
       \/ /\ pkt[c].fate # "unhandled"
          /\ ran' = ran \cup {c}
          /\ Goto(c, "running")
    /\ UNCHANGED <<now, process, pkt, issued, ts, ledger, outcome, response,
                   reserved_by, reserved_at_now, spent_by>>

\* The handler returns, or handler_timeout drops it; the outcome is
\* normalised to accepted or rejected.
FinishHandler_WITHOUT_TIMEOUT(c) ==
    /\ phase[c] = "running"
    /\ pkt[c].profiled
    /\ outcome' = [outcome EXCEPT ![c] = "accepted"]
    /\ Goto(c, "record")
    /\ UNCHANGED <<now, process, pkt, issued, ts, ledger, started, response,
                   history>>

FinishHandler(c) ==
    /\ phase[c] = "running"
    /\ \E d \in {"accepted", "rejected"} :
          outcome' = [outcome EXCEPT ![c] = d]
    /\ Goto(c, "record")
    /\ UNCHANGED <<now, process, pkt, issued, ts, ledger, started, response,
                   history>>

\* The execution receipt, of a handler's outcome or of a rejection after the
\* start.  With an output profile it is required: if it is not persisted
\* nothing is written to the client.  Otherwise it is best effort and the
\* response names it either way.
RecordExecution_BEST_EFFORT(c) ==
    LET id == ReceiptId("execute", c)
    IN  /\ phase[c] = "record"
        /\ Close(c)
        /\ RecordBestEffort(id, Decision(c))
        /\ Answer(c, RouteStatus(c), id)
        /\ UNCHANGED <<now, process, pkt, issued, ts, replay_reservations,
                       scoped_nullifier_uses, routed, history>>

RecordExecution(c) ==
    LET id == ReceiptId("execute", c)
    IN  /\ phase[c] = "record"
        /\ Close(c)
        /\ \/ /\ ~HasReceipt(receipts, id)
              /\ receipts' = record_receipt_with_emitted_event(
                                 receipts, id, Decision(c))
              /\ Answer(c, RouteStatus(c), id)
           \/ /\ HasReceipt(receipts, id) \/ DbFaults
              /\ UNCHANGED receipts
              /\ IF pkt[c].profiled
                 THEN UNCHANGED response
                 ELSE Answer(c, RouteStatus(c), id)
        /\ UNCHANGED <<now, process, pkt, issued, ts, replay_reservations,
                       scoped_nullifier_uses, routed, history>>

\* A rejection by a gate ahead of the reservation, or by the reservation.
RecordReject_LEAKING(c) ==
    LET id == ReceiptId("reject", c)
    IN  /\ phase[c] = "reject"
        /\ Goto(c, "closed")
        /\ RecordBestEffort(id, "rejected")
        /\ Answer(c, RouteStatus(c), id)
        /\ UNCHANGED <<now, process, pkt, issued, ts, replay_reservations,
                       scoped_nullifier_uses, routed, history>>

RecordReject(c) ==
    LET id == ReceiptId("reject", c)
    IN  /\ phase[c] = "reject"
        /\ Close(c)
        /\ RecordBestEffort(id, "rejected")
        /\ Answer(c, RouteStatus(c), id)
        /\ UNCHANGED <<now, process, pkt, issued, ts, replay_reservations,
                       scoped_nullifier_uses, routed, history>>

\* A nullifier or permission denial: an execute receipt with a rejection.
RecordDenial(c) ==
    LET id == ReceiptId("execute", c)
    IN  /\ phase[c] = "deny"
        /\ Close(c)
        /\ RecordBestEffort(id, "rejected")
        /\ Answer(c, RouteStatus(c), id)
        /\ UNCHANGED <<now, process, pkt, issued, ts, replay_reservations,
                       scoped_nullifier_uses, routed, history>>
-----------------------------------------------------------------------------
(* The process dies, and later starts again on the same database. *)
Crash ==
    /\ up
    /\ crashes < MaxCrashes
    /\ up' = FALSE
    /\ crashes' = crashes + 1
    /\ phase' = [c \in Conns |-> IF c \in InFlight THEN "killed" ELSE phase[c]]
    /\ UNCHANGED <<now, sequence, permits, pkt, issued, ts, ledger, routed,
                   response, history>>

\* run_gateway_with_config: init_schema prunes by wall clock; the
\* semaphore and the statics of the process are new.
Restart ==
    /\ ~up
    /\ up' = TRUE
    /\ sequence' = 1
    /\ permits' = MaxInFlight
    /\ \E t \in ReadClock :
          \/ replay_reservations' =
                prune_expired_replay_reservations(replay_reservations, t)
          \/ DbFaults /\ UNCHANGED replay_reservations
    /\ UNCHANGED <<now, crashes, phase, pkt, issued, ts, scoped_nullifier_uses,
                   receipts, routed, response, history>>
-----------------------------------------------------------------------------
\* Everything a connection's task does after it was accepted.
Task(c) ==
    \/ ReadNothing(c)
    \/ ReadMalformed(c)
    \/ VerifyAndSign(c)
    \/ RejectUnverified(c)
    \/ RouteGates(c)
    \/ RouteUntrusted(c)
    \/ PruneOnReserve(c)
    \/ ReserveReplay(c)
    \/ RecordNullifier(c)
    \/ PermissionGate(c)
    \/ StartHandler(c)
    \/ FinishHandler(c)
    \/ RecordExecution(c)
    \/ RecordReject(c)
    \/ RecordDenial(c)

Next ==
    \/ Tick
    \/ \E c \in Conns : Accept(c) \/ TurnAway(c) \/ Task(c)
    \/ Crash
    \/ Restart

Spec == Init /\ [][Next]_vars

\* Every await of a task is bounded (read, pool, handler and write timeouts)
\* and the runtime polls every ready task.  Clients, the clock, crashes and
\* restarts are not assumed to make progress.
FairSpec == Spec /\ \A c \in Conns : WF_vars(Task(c))
-----------------------------------------------------------------------------
Slots == {p.key : p \in Packets}
Deadlines == {t + p.claim_ttl : t \in Times, p \in Packets}
Statuses == {"none", "rejected", "verifier_rejected", "accepted", "executed",
             "execution_rejected"}

\* The state the gateway keeps has the shape the code gives it.
TypeOK ==
    /\ now \in Times
    /\ up \in BOOLEAN
    /\ crashes \in 0..MaxCrashes
    /\ sequence \in Nat
    /\ permits \in 0..MaxInFlight
    /\ phase \in [Conns -> Phases]
    /\ pkt \in [Conns -> Packets]
    /\ issued \in [Conns -> Times]
    /\ ts \in [Conns -> failclosed_unix_seconds]
    /\ replay_reservations \subseteq [key : Slots, expires_at : Deadlines]
    /\ scoped_nullifier_uses \subseteq {p.nullifier : p \in Packets}
    /\ \A r \in receipts : r.decision \in {"accepted", "rejected"}
    /\ outcome \in [Conns -> {"none", "accepted", "rejected"}]
    /\ started \subseteq Conns
    /\ DOMAIN response = Conns
    /\ \A c \in Conns : response[c].status \in Statuses
    /\ reserved_by \subseteq Conns
    /\ reserved_at_now \in [Conns -> Times]
    /\ spent_by \subseteq Conns
    /\ ran \subseteq Conns

(***************************************************************************)
(* The replay boundary: of two requests that took the same replay slot,    *)
(* one took it only after the other's signed validity window had ended,    *)
(* whatever the interleaving of prunes, inserts, stale timestamps, crashes *)
(* and restarts (ledger.rs reserve_replay, gateway.rs route_verified).     *)
(***************************************************************************)
OneReservationPerWindow ==
    \A c, d \in reserved_by :
        c # d /\ pkt[c].key = pkt[d].key =>
            \/ reserved_at_now[c] > expires_at(d)
            \/ reserved_at_now[d] > expires_at(c)

(***************************************************************************)
(* No handler is invoked for a request that did not take its replay slot,  *)
(* that a gate turned down, or whose scoped nullifier it did not record.   *)
(***************************************************************************)
HandlerOnlyAfterGates ==
    \A c \in ran :
        /\ c \in reserved_by
        /\ pkt[c].nullifier # NoNullifier => c \in spent_by
        /\ pkt[c].fate = "handled"
        /\ ts[c] <= expires_at(c)

(***************************************************************************)
(* A scoped nullifier admits one handler run for ever: not once per replay *)
(* window, not once per process lifetime (ledger.rs scoped_nullifier_uses, *)
(* which is never pruned).                                                 *)
(***************************************************************************)
NullifierRunsOnce ==
    \A c, d \in ran :
        c # d /\ pkt[c].nullifier = pkt[d].nullifier =>
            pkt[c].nullifier = NoNullifier

(***************************************************************************)
(* What a client reads is true: an acceptance means its own handler ran    *)
(* and accepted; a verifier rejection means its handler never started.     *)
(***************************************************************************)
ResponseTruth ==
    \A c \in Conns :
        /\ response[c].status \in {"executed", "accepted"} =>
              c \in ran /\ outcome[c] = "accepted"
        /\ response[c].status = "verifier_rejected" => c \notin ran

(***************************************************************************)
(* An execution response for an operation with an output profile names a   *)
(* receipt the ledger holds with the same decision, even when statements   *)
(* fail and receipt ids repeat (record_execution_receipt_required).        *)
(***************************************************************************)
ProfiledResponseIsBacked ==
    \A c \in Conns :
        response[c].status \in {"executed", "execution_rejected"} =>
            [id |-> response[c].receipt, decision |-> Decision(c)] \in receipts

(***************************************************************************)
(* A signed rejection names the stage that made it: execution_rejected is  *)
(* told only to a request that took its replay slot, recorded its          *)
(* nullifier and passed the permission gate, and verifier_rejected only to *)
(* one that did not, whether or not a handler was then found for it        *)
(* (ROUTED_EXECUTION_STARTED, set and read in different functions of       *)
(* gateway.rs).                                                            *)
(***************************************************************************)
PassedEveryGate(c) ==
    /\ c \in reserved_by
    /\ pkt[c].nullifier # NoNullifier => c \in spent_by
    /\ pkt[c].fate \in {"unhandled", "handled"}

RejectionNamesItsStage ==
    \A c \in Conns :
        /\ response[c].status = "execution_rejected" => PassedEveryGate(c)
        /\ response[c].status = "verifier_rejected" => ~PassedEveryGate(c)

(***************************************************************************)
(* An execute receipt that says accepted is in the ledger only if a        *)
(* handler was invoked for that very request and accepted it, through      *)
(* crashes and repeated packets (record_execution_receipt).                *)
(***************************************************************************)
AcceptedReceiptMeansRan ==
    \A r \in receipts :
        r.id.kind = "execute" /\ r.decision = "accepted" =>
            \E c \in ran : r.id = ReceiptId("execute", c)
                          /\ outcome[c] = "accepted"

(***************************************************************************)
(* As long as no statement fails, every request that took a replay slot    *)
(* and ran to its end left an execute receipt with its own decision.  The  *)
(* second, the context and the packet in a receipt id keep two such        *)
(* requests apart, unless both carry the very same signed context routed   *)
(* in the same second (gateway.rs context_receipt_suffix).                 *)
(***************************************************************************)
SameRoute(c, d) ==
    pkt[c] = pkt[d] /\ issued[c] = issued[d] /\ ts[c] = ts[d]

AuditComplete ==
    ~DbFaults =>
        \A c \in reserved_by : phase[c] = "closed" =>
            \/ [id |-> ReceiptId("execute", c), decision |-> Decision(c)]
                   \in receipts
            \/ \E d \in reserved_by \ {c} : SameRoute(c, d)

(***************************************************************************)
(* The semaphore accounts for every task that is in flight, on every path  *)
(* out of a connection, and no task outlives the process (ingress.rs       *)
(* run_gateway_with_config).                                               *)
(***************************************************************************)
PermitsAccounted ==
    IF up THEN permits + Cardinality(InFlight) = MaxInFlight
          ELSE InFlight = {}

(***************************************************************************)
(* Rows of the nullifier table and receipts are never taken back, and a    *)
(* reservation disappears only once its validity window has ended.         *)
(***************************************************************************)
LedgerOnlyForgetsExpired ==
    [][ /\ scoped_nullifier_uses \subseteq scoped_nullifier_uses'
        /\ receipts \subseteq receipts'
        /\ \A r \in replay_reservations :
              r \notin replay_reservations' => r.expires_at < now ]_vars

(***************************************************************************)
(* Every accepted connection ends: it is answered or closed, or the        *)
(* process died under it.                                                  *)
(***************************************************************************)
AcceptedConnectionsEnd ==
    \A c \in Conns : phase[c] = "reading" ~> phase[c] \in Over

(***************************************************************************)
(* The inductive invariants behind the properties above.                   *)
(*                                                                         *)
(* SlotInv: no task's timestamp is ahead of the clock, so no prune drops a *)
(* reservation whose window is still open: while the window of a request   *)
(* that took a slot is open, its row is in replay_reservations.            *)
(***************************************************************************)
BeforeReserve == {"idle", "reading", "unverified", "route", "prune", "insert"}
Admitted == {"start", "running", "record"}
AfterReserve == {"nullify", "admit", "deny"} \cup Admitted

SlotInv ==
    /\ \A c \in Conns : ts[c] <= now \/ is_clock_read_failure(ts[c])
    /\ \A c \in Conns : phase[c] \in BeforeReserve => c \notin reserved_by
    /\ \A c \in reserved_by : reserved_at_now[c] <= now
    /\ \A c \in reserved_by :
          now <= expires_at(c) =>
              [key |-> pkt[c].key, expires_at |-> expires_at(c)]
                  \in replay_reservations
    /\ OneReservationPerWindow

(***************************************************************************)
(* RunInv: what a task has passed by the time it is in a phase, and that   *)
(* the connections which recorded a nullifier recorded different ones.     *)
(***************************************************************************)
PassedGates(c) ==
    /\ phase[c] = "route" =>
          pkt[c].fate \notin {"silent", "malformed", "unverified"}
    /\ phase[c] \in {"prune", "insert"} \cup AfterReserve =>
          /\ ts[c] <= expires_at(c)
          /\ pkt[c].fate \in {"denied", "unhandled", "handled"}
    /\ phase[c] \in AfterReserve => c \in reserved_by
    /\ phase[c] \in {"admit"} \cup Admitted =>
          pkt[c].nullifier = NoNullifier \/ c \in spent_by
    /\ phase[c] \in Admitted => pkt[c].fate # "denied"
    /\ phase[c] = "running" => c \in ran
    /\ phase[c] \in BeforeReserve \cup {"reject", "nullify", "admit", "start",
                                       "deny"} => c \notin ran

SpentApart ==
    /\ \A c \in spent_by : pkt[c].nullifier \in scoped_nullifier_uses
    /\ \A c, d \in spent_by : c # d => pkt[c].nullifier # pkt[d].nullifier

RunInv ==
    /\ \A c \in Conns : PassedGates(c)
    /\ SpentApart
    /\ HandlerOnlyAfterGates

(***************************************************************************)
(* AnswerInv: a task answers as its last step, so what it tells the client *)
(* stays true; until then only a handler gives it an outcome, the flag is  *)
(* set exactly once the gates are behind it, and a task on its way to a    *)
(* rejection did not pass them.                                            *)
(***************************************************************************)
Unspent == BeforeReserve \cup {"reject", "nullify"}

AnswerInv ==
    /\ \A c \in Conns :
          /\ phase[c] \notin Over => response[c].status = "none"
          /\ phase[c] \notin {"record"} \cup Over => outcome[c] = "none"
          /\ phase[c] = "record" /\ outcome[c] = "accepted" => c \in ran
          /\ phase[c] \in {"running", "record"} =>
                (c \in started <=> pkt[c].profiled)
          /\ phase[c] \notin {"running", "record"} \cup Over => c \notin started
          /\ phase[c] \in Unspent => c \notin spent_by
          /\ phase[c] \in {"reject", "deny"} => ~PassedEveryGate(c)
    /\ ResponseTruth
    /\ ProfiledResponseIsBacked
    /\ RejectionNamesItsStage

(***************************************************************************)
(* The tables, the two statements of reserve_replay, the stale timestamps, *)
(* the clock failures and the restarts together implement ReplayGuard: a   *)
(* slot is granted anew only when every earlier grant of it has expired,   *)
(* and only its holder runs, once.                                         *)
(***************************************************************************)
Grants == {[holder |-> c, slot |-> pkt[c].key, at |-> reserved_at_now[c],
            until |-> expires_at(c)] : c \in reserved_by}

Guard == INSTANCE ReplayGuard
            WITH Holders <- Conns,
                 Slots <- Slots,
                 Deadlines <- Deadlines,
                 grants <- Grants

ImplementsReplayGuard == Guard!Spec

(***************************************************************************)
(* CHANGELOG.md: "duplicate signed contexts are rejected with stable       *)
(* `replay_detected` receipts/events before telemetry or handler execution *)
(* so a local replay cannot execute a handler twice."  route_verified      *)
(* checks expiry against a timestamp it read before the reservation, so a  *)
(* duplicate that stalls in between can reserve after another request's    *)
(* prune has dropped the first reservation, and runs its handler again.    *)
(***************************************************************************)
SignedContextRunsOnce ==
    \A c, d \in ran :
        c # d => ~(pkt[c] = pkt[d] /\ issued[c] = issued[d])

(***************************************************************************)
(* ingress.rs on the write of a decision response: "all ledger state was   *)
(* already persisted before this point".  The receipt a decision response  *)
(* names is written best effort, so a failed statement leaves it dangling. *)
(***************************************************************************)
DecisionResponseIsBacked ==
    \A c \in Conns :
        response[c].status \in {"accepted", "rejected"} =>
            HasReceipt(receipts, response[c].receipt)
=============================================================================
