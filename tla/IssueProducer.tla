---------------------------- MODULE IssueProducer ---------------------------
(***************************************************************************)
(* The devgraph.issue.create.v1 producer: devgraph_issue_create_cli.rs,    *)
(* devgraph_authority.rs and the authority replay table of ledger.rs.      *)
(* Each process is one invocation of the command; processes share the      *)
(* replay database, the receiver policy and the output directory.  The     *)
(* machine may lose power at any point; a process that is killed is one    *)
(* that takes no further step, which Spec always allows.                   *)
(***************************************************************************)
EXTENDS Ledger

CONSTANTS
    Procs,        \* invocations of the command
    Invocations,  \* what they are asked: presentation, its window, output
    Policies,     \* receiver policies the operator installs
    Absent,       \* no such directory entry
    DbFaults,     \* may a SQLite statement fail?
    IoFaults,     \* may a file operation fail?
    ClockFaults,  \* may a clock read fail?
    MaxPowerLoss  \* bound on power failures

\* validate_time_window refuses an empty window.
ASSUME InvocationAssumption ==
    \A i \in Invocations :
        /\ DOMAIN i = {"key", "wallet", "issued_at", "expires_at", "output"}
        /\ i.issued_at \in Nat /\ i.expires_at \in Nat
        /\ i.issued_at < i.expires_at

ASSUME PolicyAssumption ==
    \A q \in Policies : DOMAIN q = {"version", "not_after"} /\ q.not_after \in Nat

VARIABLES
    now,       \* wall clock, in seconds
    policy,    \* the receiver policy on disk
    rows,      \* devgraph_authority_replay_reservations
    files,     \* the output directory: which process published an entry
    disk,      \* what of it would survive a power failure
    synced,    \* processes whose projection bytes are on disk
    temps,     \* processes whose temporary entry exists
    losses,    \* power failures so far
    phase, inv, pol, ts, round, exact_retry, result,
    grants     \* history: every reservation or exact match, and when

memory == <<inv, pol, ts, round, exact_retry>>
directory == <<files, disk, synced, temps>>
vars == <<now, policy, rows, directory, losses, phase, memory, result, grants>>

Phases == {"prepare", "load", "check", "prune", "insert", "compare", "write",
           "link", "unlink", "sync", "done", "dead"}
Running == {p \in Procs : phase[p] \notin {"prepare", "done", "dead"}}
Outputs == {i.output : i \in Invocations}

\* Every field of the projection follows from the presentation and the policy.
Binding(p) == [wallet |-> inv[p].wallet, policy |-> pol[p].version]
Row(p) == [key |-> inv[p].key, binding |-> Binding(p),
           expires_at |-> inv[p].expires_at]

ReadClock == {now} \cup IF ClockFaults THEN {CLOCK_READ_FAILURE_SENTINEL}
                                       ELSE {}

\* The presentation's window and the policy's rules, at time t.
Valid(p, t) ==
    /\ ~is_clock_read_failure(t)
    /\ inv[p].issued_at <= t /\ t < inv[p].expires_at
    /\ t < pol[p].not_after

Goto(p, f) == phase' = [phase EXCEPT ![p] = f] /\ UNCHANGED result
Finish(p, r) == /\ phase' = [phase EXCEPT ![p] = "done"]
                /\ result' = [result EXCEPT ![p] = r]
-----------------------------------------------------------------------------
Init ==
    /\ now = 0
    /\ policy \in Policies
    /\ rows = {}
    /\ files = [o \in Outputs |-> Absent]
    /\ disk = [o \in Outputs |-> Absent]
    /\ synced = {}
    /\ temps = {}
    /\ losses = 0
    /\ phase = [p \in Procs |-> "prepare"]
    /\ inv \in [Procs -> Invocations]
    /\ pol = [p \in Procs |-> policy]
    /\ ts = [p \in Procs |-> 0]
    /\ round = [p \in Procs |-> 1]
    /\ exact_retry = [p \in Procs |-> FALSE]
    /\ result = [p \in Procs |-> "none"]
    /\ grants = {}

Tick ==
    /\ now < MaxTime
    /\ now' = now + 1
    /\ UNCHANGED <<policy, rows, directory, losses, phase, memory, result, grants>>

\* The operator installs another policy with its manifest.
InstallPolicy ==
    /\ policy' \in {q \in Policies : q.version > policy.version}
    /\ UNCHANGED <<now, rows, directory, losses, phase, memory, result, grants>>
-----------------------------------------------------------------------------
\* The output entry does not exist yet.
preflight_create_only_output(p) == files[inv[p].output] = Absent

\* The request and the idempotency key are read, then the output is looked at;
\* a file that cannot be read or is not private ends the process.
Prepare(p) ==
    /\ phase[p] = "prepare"
    /\ \/ /\ preflight_create_only_output(p)
          /\ Goto(p, "load")
       \/ /\ ~preflight_create_only_output(p) \/ IoFaults
          /\ Finish(p, "unsafe_output")
       \/ /\ IoFaults
          /\ Finish(p, "unsafe_input_file")
    /\ UNCHANGED <<now, policy, rows, directory, losses, memory, grants>>

\* load_authority: the files bound together by the manifest (a mixture of two
\* generations is refused), then init_schema, which prunes by wall clock and
\* ignores errors of the prune.
LoadAuthority(p) ==
    /\ phase[p] = "load"
    /\ \/ /\ pol' = [pol EXCEPT ![p] = policy]
          /\ Goto(p, "check")
          /\ \E t \in ReadClock :
                \/ rows' = prune_expired_devgraph_authority_replay_reservations(
                               rows, t)
                \/ DbFaults /\ UNCHANGED rows
       \/ /\ DbFaults \/ IoFaults
          /\ Finish(p, "not_loaded")
          /\ UNCHANGED <<pol, rows>>
    /\ UNCHANGED <<now, policy, directory, losses, inv, ts, round, exact_retry,
                   grants>>

\* issue_devgraph_issue_create_authority_v1 up to its replay reservation.
Check(p) ==
    /\ phase[p] = "check"
    /\ \E t \in ReadClock :
          /\ ts' = [ts EXCEPT ![p] = t]
          /\ IF Valid(p, t) THEN Goto(p, "prune") ELSE Finish(p, "denied")
    /\ UNCHANGED <<now, policy, rows, directory, losses, inv, pol, round,
                   exact_retry, grants>>

\* reserve_devgraph_authority_replay, first statement; here a failed prune is
\* a failed reservation.
PruneOnReserve(p) ==
    /\ phase[p] = "prune"
    /\ \/ /\ rows' = prune_expired_devgraph_authority_replay_reservations(
                         rows, ts[p])
          /\ Goto(p, "insert")
       \/ /\ DbFaults
          /\ Finish(p, "storage")
          /\ UNCHANGED rows
    /\ UNCHANGED <<now, policy, directory, losses, memory, grants>>

\* The first reservation decides whether this is a retry; the second one,
\* with a new reading of the clock, leads on to the output.
Reserved_ONCE(p, duplicate) ==
    /\ grants' = grants \cup {[proc |-> p, row |-> Row(p), at |-> now]}
    /\ exact_retry' = [exact_retry EXCEPT ![p] = duplicate]
    /\ Goto(p, "write")
    /\ UNCHANGED round

Reserved(p, duplicate) ==
    /\ grants' = grants \cup {[proc |-> p, row |-> Row(p), at |-> now]}
    /\ \/ /\ round[p] = 1
          /\ exact_retry' = [exact_retry EXCEPT ![p] = duplicate]
          /\ round' = [round EXCEPT ![p] = 2]
          /\ Goto(p, "check")
       \/ /\ round[p] = 2
          /\ Goto(p, "write")
          /\ UNCHANGED <<exact_retry, round>>

\* INSERT OR IGNORE.
Insert(p) ==
    /\ phase[p] = "insert"
    /\ \/ /\ ~Taken(rows, inv[p].key)
          /\ rows' = rows \cup {Row(p)}
          /\ Reserved(p, FALSE)
       \/ /\ Taken(rows, inv[p].key)
          /\ Goto(p, "compare")
          /\ UNCHANGED <<rows, grants, round, exact_retry>>
       \/ /\ DbFaults
          /\ Finish(p, "storage")
          /\ UNCHANGED <<rows, grants, round, exact_retry>>
    /\ UNCHANGED <<now, policy, directory, losses, inv, pol, ts>>

\* SELECT of the row that was in the way; fetch_one fails if it is gone.
Compare_BY_KEY(p) ==
    /\ phase[p] = "compare"
    /\ Taken(rows, inv[p].key)
    /\ Reserved(p, TRUE)
    /\ UNCHANGED <<now, policy, rows, directory, losses, inv, pol, ts>>

Compare(p) ==
    /\ phase[p] = "compare"
    /\ \/ /\ Row(p) \in rows
          /\ Reserved(p, TRUE)
       \/ /\ Taken(rows, inv[p].key) /\ Row(p) \notin rows
          /\ Finish(p, "denied")
          /\ UNCHANGED <<grants, round, exact_retry>>
       \/ /\ ~Taken(rows, inv[p].key) \/ DbFaults
          /\ Finish(p, "storage")
          /\ UNCHANGED <<grants, round, exact_retry>>
    /\ UNCHANGED <<now, policy, rows, directory, losses, inv, pol, ts>>
-----------------------------------------------------------------------------
(* write_private_atomic_create_new. *)

\* On an error the temporary entry is unlinked, and errors of that ignored.
Discard(p) == temps' \in {temps \ {p}} \cup IF IoFaults THEN {temps} ELSE {}

\* The temporary entry, its bytes and their sync.
WriteTemp_UNSYNCED(p) ==
    /\ phase[p] = "write"
    /\ temps' = temps \cup {p}
    /\ Goto(p, "link")
    /\ UNCHANGED <<now, policy, rows, files, disk, synced, losses, memory, grants>>

WriteTemp(p) ==
    /\ phase[p] = "write"
    /\ \/ /\ temps' = temps \cup {p}
          /\ synced' = synced \cup {p}
          /\ Goto(p, "link")
       \/ /\ IoFaults
          /\ temps' \in {temps, temps \cup {p}}
          /\ Finish(p, "output_failed")
          /\ UNCHANGED synced
    /\ UNCHANGED <<now, policy, rows, files, disk, losses, memory, grants>>

\* linkat never replaces an entry.
Link_REPLACING(p) ==
    /\ phase[p] = "link"
    /\ files' = [files EXCEPT ![inv[p].output] = p]
    /\ Goto(p, "unlink")
    /\ UNCHANGED <<now, policy, rows, disk, synced, temps, losses, memory, grants>>

Link(p) ==
    /\ phase[p] = "link"
    /\ \/ /\ files[inv[p].output] = Absent
          /\ files' = [files EXCEPT ![inv[p].output] = p]
          /\ Goto(p, "unlink")
          /\ UNCHANGED temps
       \/ /\ files[inv[p].output] # Absent
          /\ Finish(p, "unsafe_output")
          /\ Discard(p)
          /\ UNCHANGED files
       \/ /\ IoFaults
          /\ Finish(p, "output_failed")
          /\ Discard(p)
          /\ UNCHANGED files
    /\ UNCHANGED <<now, policy, rows, disk, synced, losses, memory, grants>>

\* A failed unlinkat is tried once more by the error path.
Unlink(p) ==
    /\ phase[p] = "unlink"
    /\ \/ /\ Goto(p, "sync")
          /\ temps' = temps \ {p}
       \/ /\ IoFaults
          /\ Finish(p, "output_failed")
          /\ Discard(p)
    /\ UNCHANGED <<now, policy, rows, files, disk, synced, losses, memory, grants>>

SyncDirectory_SKIPPED(p) ==
    /\ phase[p] = "sync"
    /\ Finish(p, "ok")
    /\ UNCHANGED <<now, policy, rows, directory, losses, memory, grants>>

SyncDirectory(p) ==
    /\ phase[p] = "sync"
    /\ \/ /\ disk' = files
          /\ Finish(p, "ok")
       \/ /\ IoFaults
          /\ Finish(p, "output_failed")
          /\ UNCHANGED disk
    /\ UNCHANGED <<now, policy, rows, files, synced, temps, losses, memory, grants>>
-----------------------------------------------------------------------------
\* The kernel writes the directory back whenever it likes, which matters only
\* while the power may still fail.
Writeback ==
    /\ disk # files
    /\ losses < MaxPowerLoss
    /\ disk' = files
    /\ UNCHANGED <<now, policy, rows, files, synced, temps, losses, phase,
                   memory, result, grants>>

\* Committed rows survive; a directory entry survives if it was written back.
PowerLoss ==
    /\ losses < MaxPowerLoss
    /\ losses' = losses + 1
    /\ files' = disk
    /\ temps' \in SUBSET temps
    /\ phase' = [p \in Procs |-> IF p \in Running THEN "dead" ELSE phase[p]]
    /\ UNCHANGED <<now, policy, rows, disk, synced, memory, result, grants>>

Step(p) ==
    \/ Prepare(p)
    \/ LoadAuthority(p)
    \/ Check(p)
    \/ PruneOnReserve(p)
    \/ Insert(p)
    \/ Compare(p)
    \/ WriteTemp(p)
    \/ Link(p)
    \/ Unlink(p)
    \/ SyncDirectory(p)

Next ==
    \/ Tick
    \/ InstallPolicy
    \/ \E p \in Procs : Step(p)
    \/ Writeback
    \/ PowerLoss

Spec == Init /\ [][Next]_vars
-----------------------------------------------------------------------------
Published == {files[o] : o \in Outputs} \ {Absent}

\* Types of the producer's state.
TypeOK ==
    /\ now \in Times
    /\ policy \in Policies
    /\ rows \subseteq [key : {i.key : i \in Invocations},
                       binding : [wallet : {i.wallet : i \in Invocations},
                                  policy : {q.version : q \in Policies}],
                       expires_at : {i.expires_at : i \in Invocations}]
    /\ \A r, s \in rows : r.key = s.key => r = s
    /\ files \in [Outputs -> Procs \cup {Absent}]
    /\ disk \in [Outputs -> Procs \cup {Absent}]
    /\ synced \subseteq Procs
    /\ temps \subseteq Procs
    /\ losses \in 0..MaxPowerLoss
    /\ phase \in [Procs -> Phases]
    /\ inv \in [Procs -> Invocations]
    /\ pol \in [Procs -> Policies]
    /\ ts \in [Procs -> failclosed_unix_seconds]
    /\ round \in [Procs -> 1..2]
    /\ exact_retry \in [Procs -> BOOLEAN]
    /\ result \in [Procs -> {"none", "ok", "unsafe_input_file", "not_loaded",
                             "denied", "storage", "unsafe_output",
                             "output_failed"}]

(***************************************************************************)
(* The replay scope belongs to one binding at a time: whoever reserved it  *)
(* or matched its row did so with the binding that holds it, and another   *)
(* binding gets it only after the window of the first has ended (ledger.rs *)
(* reserve_devgraph_authority_replay, three statements).                   *)
(***************************************************************************)
OneBindingPerScope ==
    \A g, h \in grants :
        g.row.key = h.row.key /\ g.row # h.row =>
            g.at >= h.row.expires_at \/ h.at >= g.row.expires_at

(***************************************************************************)
(* "exact_retry":false is reported at most once for a wallet presentation, *)
(* whatever other processes prune meanwhile and however long a process     *)
(* stalls: the second validation, with a new clock reading, discards the   *)
(* outcome of a first one that reserved after the window had ended.        *)
(***************************************************************************)
FreshOnce ==
    \A p, q \in Procs :
        /\ result[p] = "ok" /\ ~exact_retry[p]
        /\ result[q] = "ok" /\ ~exact_retry[q]
        /\ inv[p].wallet = inv[q].wallet
        => p = q

(***************************************************************************)
(* All projections published for a wallet presentation are the same one:   *)
(* a policy installed in between cannot yield a second projection.         *)
(***************************************************************************)
PublishedAgree ==
    \A p, q \in Published :
        inv[p].wallet = inv[q].wallet => Binding(p) = Binding(q)

(***************************************************************************)
(* A process that reported output_written left its own projection in its   *)
(* output, and no later power failure takes it away.                       *)
(***************************************************************************)
SuccessIsDurable ==
    \A p \in Procs : result[p] = "ok" =>
        files[inv[p].output] = p /\ disk[inv[p].output] = p

(***************************************************************************)
(* "never ... leaves a partial projection": an entry that can survive a    *)
(* power failure names bytes that are on disk, and a denied process leaves *)
(* no entry.                                                               *)
(***************************************************************************)
NoPartialProjection ==
    /\ \A o \in Outputs : disk[o] # Absent => disk[o] \in synced
    /\ \A p \in Procs :
          result[p] \in {"not_loaded", "denied", "storage", "unsafe_output"} =>
              p \notin Published

(***************************************************************************)
(* Create-only publication: as long as the machine stays up an entry is    *)
(* never replaced or removed by any process.                               *)
(***************************************************************************)
OutputNeverReplaced ==
    [][losses' = losses =>
          \A o \in Outputs : files[o] # Absent => files'[o] = files[o]]_vars
=============================================================================
