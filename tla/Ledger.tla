------------------------------- MODULE Ledger -------------------------------
(***************************************************************************)
(* The SQLite tables of server/src/schema.rs and the statements that       *)
(* server/src/ledger.rs runs on them, as operators on sets of rows.  Each  *)
(* operator is one SQL statement or one transaction, so each is atomic.  A *)
(* function of ledger.rs that runs two statements is two steps of the      *)
(* modules that use this one.                                              *)
(***************************************************************************)
EXTENDS Naturals

CONSTANT MaxTime   \* the largest second the wall clock can read

ASSUME MaxTimeAssumption == MaxTime \in Nat

Times == 0..MaxTime

(***************************************************************************)
(* clock.rs: a failed clock read yields u64::MAX, later than every second. *)
(***************************************************************************)
CLOCK_READ_FAILURE_SENTINEL == MaxTime + 1

failclosed_unix_seconds == Times \cup {CLOCK_READ_FAILURE_SENTINEL}

is_clock_read_failure(now) == now = CLOCK_READ_FAILURE_SENTINEL

(***************************************************************************)
(* replay_reservations: rows [key, expires_at], UNIQUE on the key, which   *)
(* stands for (session_id, opcode, nonce, replay_scope).                   *)
(***************************************************************************)
prune_expired_replay_reservations_UNGUARDED(rows, now) ==
    {r \in rows : ~(r.expires_at < now)}

prune_expired_replay_reservations_AT_EXPIRY(rows, now) ==
    IF is_clock_read_failure(now)
    THEN rows
    ELSE {r \in rows : ~(r.expires_at <= now)}

prune_expired_replay_reservations(rows, now) ==
    IF is_clock_read_failure(now)
    THEN rows
    ELSE {r \in rows : ~(r.expires_at < now)}

(***************************************************************************)
(* devgraph_authority_replay_reservations: rows [key, binding, expires_at] *)
(* UNIQUE on the key, which stands for (session_id, operation, nonce).     *)
(* Its windows are half open, so a row goes at its expiry.                 *)
(***************************************************************************)
prune_expired_devgraph_authority_replay_reservations_UNGUARDED(rows, now) ==
    {r \in rows : ~(r.expires_at <= now)}

prune_expired_devgraph_authority_replay_reservations(rows, now) ==
    IF is_clock_read_failure(now)
    THEN rows
    ELSE {r \in rows : ~(r.expires_at <= now)}

\* INSERT OR IGNORE reports no affected row exactly when the key is taken.
Taken_NEVER(rows, key) == FALSE

Taken(rows, key) == \E r \in rows : r.key = key

Reserve(rows, key, expires_at) ==
    rows \cup {[key |-> key, expires_at |-> expires_at]}

(***************************************************************************)
(* receipts: receipt_id is the PRIMARY KEY, so the transaction that writes *)
(* a receipt with its ReceiptEmitted event fails on a repeated id.         *)
(***************************************************************************)
HasReceipt(rows, id) == \E r \in rows : r.id = id

record_receipt_with_emitted_event(rows, id, decision) ==
    rows \cup {[id |-> id, decision |-> decision]}
=============================================================================
