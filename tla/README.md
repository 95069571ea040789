# A TLA+ verification of secS-magik

secS-magik is a gateway that verifies signed requests, decides whether they may
run, runs a bounded handler and leaves signed receipts in a SQLite ledger; around
it are command-line producers of signed authority projections, a result store, a
permission policy, key registries and a client. This directory models the parts
of it that keep state, model-checks them with TLC on small instances and proves
the most important properties with TLAPS for every instance.

## 1. The system and its parts

| Part | State it keeps | Operations | What makes it hard |
|---|---|---|---|
| Ingress (`ingress.rs`) | in-flight semaphore, one task per connection | accept, turn away, bounded read, decode, verify and sign, answer | tasks interleave at every await; the client may be slow or gone |
| Router (`gateway.rs`) | bindings, policies, execution limits | `route_verified`: gates, replay reservation, nullifier, permission, handler, receipts | one timestamp used over several awaits; statements fail one by one |
| Ledger (`ledger.rs`, `schema.rs`) | SQLite tables `replay_reservations`, `scoped_nullifier_uses`, `receipts`, `events`, `audit_publication_status`, `devgraph_authority_replay_reservations` | reserve, prune, record, export, publish | shared by five pooled connections; survives crashes |
| Verifier (`verifier.rs`, `verification_context.rs`, `evidence.rs`) | none | verify envelope, caller, manifest operation and evidence; sign context | long decision lists whose order matters |
| Identity, caller and proof keys | registries read at start | look up a key at a time | validity windows with inclusive and exclusive ends |
| Dregg live source (`dregg_live_source.rs`) | JSON file cache shared by processes | fresh lookup, transport with retry, replace if newer | unlocked read-compare-write, one temporary name |
| Permission policy (`permissions/`) | a list of grants | evaluate | deny wins, applicability, choice of the reason |
| Node registration | in-memory set of request ids | verify, process once | forgotten at restart |
| Issue-create producer and wallet ceremony | replay database, one output file, a one-shot HTTP ceremony | prepare, reserve, sign, create-only publish | several processes, crashes between steps, two clock readings |
| Work authority and its administration | generation directories, replay database | plan, provision, issue | staged publication by rename |
| Frank result store | SQLite store, marker file, floor | open, attest, renew, resume | crash between commit and export |
| Public audit | bundle, publication status | export, verify, publish | publish before status |
| Grant contract, tools, client, panel, core encodings | little or none | prove, verify, seal, encode | boundaries of times and sizes |

`PROJECT.json` lists every part with its sources, what is modelled of it and
why a part is left out.

## 2. Modules

| Module | Models |
|---|---|
| `Ledger` | the tables of `schema.rs` and the statements of `ledger.rs` as operators on sets of rows; `clock.rs` |
| `Gateway` | ingress and router: one task per connection, crash and restart, over `Ledger` |
| `ReplayGuard` | abstract specification of the replay reservation; `Gateway` refines it |
| `GatewayPermits`, `GatewayTypes`, `GatewayReplay`, `GatewayRuns`, `GatewayProofs` | theorems about `Gateway`, each module extending the one before |
| `IssueProducer` | the issue-create producer: processes that reserve a replay scope and publish one file, over `Ledger` |
| `WalletCeremony`, `WalletCeremonyProofs` | the one-shot browser ceremony in front of the producer, and theorems about it |
| `PermissionPolicy` | evaluation of the permission policy, the `secs-permctl` processes that edit its file, the gateway's start |
| `MCGateway`, `MCIssueProducer`, `MCWalletCeremony`, `MCPermissionPolicy` | instances for TLC |

### Gateway

A step of the model is the code of one task between two awaits on shared state:
a SQL statement or transaction, a clock read whose value is kept, the handler, or
the response. What the code computes from the request alone is the *fate* of the
request, fixed when the client chooses it (`Fates` lists them); the clock is
always read where the code reads it. `phase[c]` is the point the task of
connection `c` has reached:

| phase | code |
|---|---|
| `reading` | `handle_gateway_connection_with_limits` up to the signed context |
| `unverified` | `record_reject` after a failed verification |
| `route` | `route_verified` up to the replay reservation; `ts[c]` is its timestamp |
| `prune`, `insert` | the two statements of `reserve_replay` |
| `nullify` | `record_scoped_nullifier_use` |
| `admit` | the verify receipt and the permission policy |
| `start`, `running`, `record` | size and binding checks, the handler under its timeout, the execution receipt and the response |
| `reject`, `deny` | the receipt of a rejection before or after the reservation, and its response |

`started` is the set of tasks whose task-local `ROUTED_EXECUTION_STARTED` is set:
`StartHandler` sets it, in a task that answers with an execution response, before
the size and binding checks, and `ExecutionStatus` reads it when `route_verified`
has returned without an outcome of a handler. `sequence` is
`PRE_DECODE_REJECT_SEQUENCE`, which numbers the receipts of requests that could
not be decoded and starts over with the process. `reserved_by`,
`reserved_at_now`, `spent_by` and `ran` are history variables.

### IssueProducer

Processes of `devgraph_issue_create_cli.rs` run side by side on one replay
database and one output directory. A step is a clock read, a SQL statement or a
file operation. `Prepare` reads the input and looks at the output
(`preflight_create_only_output`), each of which may fail, `LoadAuthority` the reading of the
receiver's files, `Check` the first validation, then `PruneOnReserve`, `Insert`
and `Compare` the statements of `reserve_devgraph_authority_replay`, `Reserved`
the second validation with its own clock read, and `WriteTemp`, `Link`, `Unlink`,
`SyncDirectory` the create-only publication. `Writeback` and `PowerLoss` are the
file system: what is not synced may or may not survive. Files replaced while
`load_authority` reads them end in a binding mismatch, which is the failing
disjunct of `LoadAuthority`; a killed process is one that takes no more steps.

### WalletCeremony

`pc` is the place in the loop of `run`; `mono` is tokio's clock, `wall` the
system clock, which may be set to anything at any time. One connection is served
at a time; what it sends is a request with the right token or not, well formed
or not, nothing, or garbage. The reading, the look at the deadline and `handle`
are one step, because there is no await between the last two and the first only
brings the bytes. The producer is one step, `Issue`; `IssueProducer` is its
detail. `csrf` counts the tokens made, so that a second one would show. `opened`,
`submitted` and `answer` are history variables.

### PermissionPolicy

`evaluate` and its helpers are operators translated one to one from
`permissions/src/lib.rs`; `Covers` and `InForce` are the declarative definition
they are compared with. `Grant` and `Revoke` load and edit the list (`ctl[p]`
keeps what was loaded and what will be saved), `SaveTruncates` and `SaveWrites`
are the two system calls of `std::fs::write`. `GatewayStarts` is a start or
restart of the gateway: with a configured path it loads a whole valid list or
panics (`Down`), without one it runs with no policy (`Unenforced`), and `Permits`
is the gate of `route_verified`, which is skipped then. A write over a longer
text that another process put there leaves the end of it; such a file, and a
part of a list, is taken not to parse (`Torn`). `whole` and `granted` are history
variables.

## 3. Runs

| Run | Instance | Checks |
|---|---|---|
| `replay` | 3 connections, 2 in flight, 2 packets for one slot (at most one request without output profile), clock 0..2 with failing reads, 1 crash | replay boundary, gates, audit trail, semaphore, retention, refinement of `ReplayGuard` |
| `gates` | 2 connections, 10 packets covering every fate and a shared nullifier, failing statements, lost responses, 1 crash | nullifier, responses, stage of a rejection, receipts |
| `ends` | 2 connections, 1 permit, 9 packets covering every fate, failing statements and clock reads, lost responses, 1 crash, fair tasks | every accepted connection ends |
| `stale` (violation) | 3 connections, no faults | CHANGELOG's "a local replay cannot execute a handler twice" |
| `decision` (violation) | failing statements | ingress's "all ledger state was already persisted before this point" |
| `scope` | 3 producers: a presentation, its retry to another output, a second presentation in the same replay scope; a policy change, failing clock | one binding per window, one fresh outcome, one projection per presentation |
| `output` | 2 producers, failing clock, statements and file operations, a power failure | success is durable, no partial file, no entry replaced |
| `windows` | any connections and wall clock settings, pre-open window 3, signed window 2, fair server and clock | both windows, token, listener, result; the ceremony ends |
| `late` (violation) | the same | the reference page's "exact/late expiry return 410" |
| `policy` | one operator with lists of up to 3 of 8 overlapping records, or two with 2 records that may stop in a save; gateway restarts with and without a policy | evaluation against its definition; reasons; edits are kept; no policy in the middle of a save |
| `blank` (violation) | two operators that may stop in a save | "never silently treat it as empty" |
| `reasons` (violation) | one operator, lists of 2 records | the comments of `DenyReason` |

**Bounds.** `MaxTime = 2` with a validity of one second is the least clock for
which a window opens, closes and is pruned. Three connections are the least for
the reservation of one to be pruned by another while a third is waiting, which
the counterexample of `stale` needs. `MaxCrashes = 1` puts one restart anywhere.
`CHECK_DEADLOCK FALSE` is set because connections are finite and all of them end;
the producers and the ceremony end too. In `scope` a third producer is needed to
prune the row between the INSERT of one and the SELECT of another. In `windows`
the clock passes both deadlines (`Horizon`), `MaxTime = 4` leaves wall clock
readings before, inside and after the signed interval and makes its addition
overflow. Three records are the least for a reason to be chosen among an allowing
record, a denying one and another; a race of two saves needs two processes, for
which one valid and one invalid record are enough, since a save does not look at
the content. So `policy` starts with one of the two kinds of operators.

**Fairness.** `FairSpec` assumes weak fairness of each task and nothing of the
clients, the clock, crashes or restarts: every await of a task is bounded (read,
write and handler timeouts; SQLite's busy timeout) and tokio polls every ready
task. For the ceremony `FairSpec` assumes weak fairness of the server's own steps
and of the monotonic clock, and nothing of the clients and of the wall clock.

**Findings.** `stale`: `route_verified` compares the expiry with a timestamp read
before the reservation; a duplicate that waits past the end of its window, while
another request prunes the first reservation, reserves and runs again. `decision`:
receipts of operations without an output profile are best effort, so a decision
response may name a receipt the ledger does not hold. `late`: a request that is
complete when the phase is over is dropped without a response. `blank`: a save
leaves a blank file between its truncation and its write, for good if it stops
there, and `load_records` takes it for an empty list. `reasons`: a denial is
reported as "No record matched" when only a Deny record that is not in force
matches, and by the reason of one grant where the comments say "The only matching
grant"; `DenialIsWitnessed` states what does hold.

## 4. Proofs

The Gateway modules prove, for every set of connections and packets, every clock
bound and every fault setting:

| Theorem | Statement | Argument |
|---|---|---|
| `TypeCorrect` | `[]TypeOK` | with the semaphore, because the bound of `permits` needs the count |
| `SemaphoreIsExact` | `[]PermitsAccounted` | each step moves at most one connection in or out of `InFlight` |
| `ReplayBoundary` | `[]OneReservationPerWindow` | from `SlotInv` |
| `GatesHold`, `NullifierBoundary` | `[]HandlerOnlyAfterGates`, `[]NullifierRunsOnce` | from `RunInv` |
| `AnswersAreTrue`, `ProfiledAnswersAreBacked`, `RejectionsNameTheirStage` | `[]ResponseTruth`, `[]ProfiledResponseIsBacked`, `[]RejectionNamesItsStage` | from `AnswerInv` |
| `LedgerForgetsOnlyExpired` | `LedgerOnlyForgetsExpired` | timestamps are never ahead of the clock |
| `GatewayImplementsGuard` | `Spec => ImplementsReplayGuard` | step simulation under `SlotInv` and `RunInv` |

`OneReservationPerWindow` is not inductive: nothing in it says that the row of an
open window is still in the table when the next INSERT comes. `SlotInv` adds
that, and the reason no prune removes it: no task's timestamp is ahead of the
clock. `RunInv` adds what a task has passed by the time it is in a phase.
`AnswerInv` adds where the flag `started` is set, that a task on its way to a
rejection has not passed every gate, and that a task answers in its last step; it
rests on `SlotInv` and `RunInv` for what the task holds by then. `SlotInv` and
`RunInv` are checked by TLC in `replay` and `gates`; of `AnswerInv` the three
properties are, and the rest of it serves their proof only.

The proofs assume `PacketAssumption` (the shape of a request; a zero time to live
never passes the envelope check), `InFlightAssumption`, `FaultAssumption` and
`MaxTimeAssumption`, which TLC evaluates in every run.

`WalletCeremonyProofs` proves, for every length of the windows and every range of
the wall clock:

| Theorem | Statement | Argument |
|---|---|---|
| `CeremonyHolds` | `[](TypeOK /\ CeremonyInv)` | one case per action |
| `PresentationWindow` | `[]PresentationInWindow` | the only step that takes a presentation is in both windows |
| `ListenerClosesFirst` | `[]ConsumedMeansClosed` | from `CeremonyInv` |
| `TokenConsumes` | `OnlyTokenConsumes` | one case per action: each that changes the ceremony or stops listening has the token, is late (the deadline of an opened ceremony is `signed_deadline`) or is the failing accept |
| `OneOpening` | `WindowNeverExtended` | the page opens, and a token is made, only in `AwaitingOpen` |

`PresentationInWindow` is not inductive, since it does not say that the deadlines
are those of the opening; `CeremonyInv` ties `opened`, `signed_deadline`,
`expires_at` and `csrf` together and says what holds at each `pc`. The proofs
assume `WindowAssumption` and `MaxTimeAssumption`.

Only model-checked: `AuditComplete`, `AcceptedReceiptMeansRan`, `ResultIsTrue`,
everything about `IssueProducer` and `PermissionPolicy`, and the liveness
properties (the provers do not do fairness).

## 5. Abstractions

- Hashes, signatures and encodings are injective names; a request is a record of
  what the properties tell apart.
- The wall clock of `Gateway` and `IssueProducer` does not go back. `clock.rs` says it is "not a
  trusted or monotonic time source", and the retention of the ledger has no
  defence against it.
- A SQL statement or transaction is atomic; any of them may fail when `DbFaults`.

## 6. Plan

1. Done: ledger, gateway and replay guard with proofs; permission policy;
   issue-create producer; wallet ceremony with proofs.
2. Work authority administration: generations staged and published by rename.
3. Frank result store: commit and export with a crash in between.
4. Public audit export and publication status.
5. Dregg live source cache: unlocked read-compare-write by several processes.
6. Subprocess forwarder, node registration, session store, production readiness.
7. Verification decisions: verifier, evidence, verification context, key windows,
   grant contract; client.
8. Proofs: one binding per window and create-only publication of
   `IssueProducer`; the result store's floor.
