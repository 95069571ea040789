-------------------------- MODULE PermissionPolicy --------------------------
(***************************************************************************)
(* The receiver-local permission policy: its evaluation                    *)
(* (permissions/src/lib.rs), the secs-permctl processes that edit its file *)
(* (permctl.rs, bin/secs-permctl.rs) and the gateway that loads it when it *)
(* starts (ingress.rs).                                                    *)
(*                                                                         *)
(* A record's key stands for its caller, opcode and operation, which are   *)
(* only ever compared together.  A resource is a sequence of characters,   *)
(* and a prefix may end anywhere in it.                                    *)
(***************************************************************************)
EXTENDS Ledger, SequencesExt

CONSTANTS
    Ctls,         \* secs-permctl processes
    Keys,         \* callers with opcode and operation
    NoKey,        \* a key with an empty part
    Resources,    \* the resources requests name, <<>> for none
    Grantable,    \* the records operators put in the file, valid or not
    MaxRecords,   \* bound on the length of the file
    Crashes       \* the processes that may stop in the middle of a save

ASSUME PolicyAssumption ==
    /\ NoKey \notin Keys
    /\ MaxRecords \in Nat
    /\ Crashes \subseteq Ctls

VARIABLES
    file,      \* the policy file
    ctl,       \* the processes: where each is, the lists it loaded and will save
    policy,    \* whether the gateway runs, enforces a policy, and which
    whole,     \* history: the last list a process saved completely
    granted    \* history: the records granted and saved

vars == <<file, ctl, policy, whole, granted>>

NoList == [kind |-> "absent", records |-> <<>>]
Blank == [kind |-> "blank", records |-> <<>>]
Torn == [kind |-> "torn", records |-> <<>>]
List(rs) == [kind |-> "list", records |-> rs]

\* A gateway that does not run, and one that runs without a policy.
Down == [kind |-> "down", records |-> <<>>]
Unenforced == [kind |-> "unenforced", records |-> <<>>]

Idle == [pc |-> "idle", loaded |-> <<>>, records |-> <<>>]
Saving(loaded, rs) == [pc |-> "open", loaded |-> loaded, records |-> rs]
-----------------------------------------------------------------------------
(* permissions/src/lib.rs *)

matches(scope, resource) ==
    \/ scope.kind = "exact" /\ scope.value = resource
    \/ scope.kind = "prefix" /\ IsPrefix(scope.value, resource)

matches_request(r, key, resource) == r.key = key /\ matches(r.scope, resource)

is_applicable(r, now) ==
    /\ r.status = "Active"
    /\ r.authority_source = "ReceiverLocal"
    /\ now >= r.not_before
    /\ now < r.not_after

\* PermissionPolicy::new accepts a list of valid records only.
ValidPolicy(rs) ==
    \A i \in DOMAIN rs :
        /\ rs[i].key # NoKey
        /\ rs[i].scope.value # <<>>
        /\ rs[i].not_before < rs[i].not_after

\* Why one matching Allow record does not apply.
InapplicableReason(r, now) ==
    CASE r.status = "Revoked" -> "Revoked"
      [] r.status # "Revoked" /\ r.authority_source # "ReceiverLocal" ->
            "AuthoritySourceUnsupported"
      [] r.status # "Revoked" /\ r.authority_source = "ReceiverLocal"
            /\ now >= r.not_after -> "Expired"
      [] r.status # "Revoked" /\ r.authority_source = "ReceiverLocal"
            /\ now < r.not_before /\ now < r.not_after -> "NotYetValid"
      [] OTHER -> "NoMatchingGrant"

\* Revoked if any record is; otherwise the first specific reason.
most_informative_inapplicable_reason_FIRST(matching, now) ==
    LET allows == SelectSeq(matching, LAMBDA r : r.effect = "Allow")
    IN  IF allows = <<>> THEN "NoMatchingGrant"
        ELSE InapplicableReason(Head(allows), now)

most_informative_inapplicable_reason(matching, now) ==
    LET allows == SelectSeq(matching, LAMBDA r : r.effect = "Allow")
        specific == SelectSeq([i \in DOMAIN allows |->
                                  InapplicableReason(allows[i], now)],
                              LAMBDA why : why # "NoMatchingGrant")
    IN  IF Contains(specific, "Revoked") THEN "Revoked"
        ELSE IF specific = <<>> THEN "NoMatchingGrant" ELSE Head(specific)

evaluate_ALLOW_FIRST(rs, key, resource, now) ==
    LET matching == SelectSeq(rs, LAMBDA r : matches_request(r, key, resource))
        first == SelectInSeq(matching, LAMBDA r : is_applicable(r, now))
    IN  CASE matching = <<>> -> "NoMatchingGrant"
          [] matching # <<>> /\ first # 0 ->
                IF matching[first].effect = "Allow" THEN "Allow" ELSE "ExplicitDeny"
          [] OTHER -> most_informative_inapplicable_reason(matching, now)

evaluate(rs, key, resource, now) ==
    LET matching == SelectSeq(rs, LAMBDA r : matches_request(r, key, resource))
        Applies(effect) == \E i \in DOMAIN matching :
                               /\ matching[i].effect = effect
                               /\ is_applicable(matching[i], now)
    IN  IF matching = <<>> THEN "NoMatchingGrant"
        ELSE IF Applies("Deny") THEN "ExplicitDeny"
        ELSE IF Applies("Allow") THEN "Allow"
        ELSE most_informative_inapplicable_reason(matching, now)
-----------------------------------------------------------------------------
(* permctl.rs *)

\* load_records: an absent and a blank file are an empty list.
load_records ==
    CASE file.kind = "list" -> [ok |-> TRUE, records |-> file.records]
      [] file.kind \in {"absent", "blank"} -> [ok |-> TRUE, records |-> <<>>]
      [] file.kind = "torn" -> [ok |-> FALSE, records |-> <<>>]

\* Every record with the key and the value of the scope, of either effect.
revoke_REMOVING(rs, key, value) ==
    SelectSeq(rs, LAMBDA r : ~(r.key = key /\ r.scope.value = value))

revoke(rs, key, value) ==
    [i \in DOMAIN rs |->
        IF rs[i].key = key /\ rs[i].scope.value = value
        THEN [rs[i] EXCEPT !.status = "Revoked"] ELSE rs[i]]

Init ==
    /\ file = NoList
    /\ ctl = [p \in Ctls |-> Idle]
    /\ policy = Down
    /\ whole = <<>>
    /\ granted = {}

\* A grant: load, append.  The save follows.
Grant(p, r) ==
    /\ ctl[p].pc = "idle"
    /\ load_records.ok
    /\ Len(load_records.records) < MaxRecords
    /\ ctl' = [ctl EXCEPT ![p] = Saving(load_records.records,
                                        Append(load_records.records, r))]
    /\ UNCHANGED <<file, policy, whole, granted>>

\* A revocation that changes something; one that does not saves nothing.
Revoke(p, key, value) ==
    /\ ctl[p].pc = "idle"
    /\ load_records.ok
    /\ LET updated == revoke(load_records.records, key, value)
       IN  /\ updated # load_records.records
           /\ ctl' = [ctl EXCEPT ![p] = Saving(load_records.records, updated)]
    /\ UNCHANGED <<file, policy, whole, granted>>

\* save_records is std::fs::write: it truncates the file ...
SaveTruncates(p) ==
    /\ ctl[p].pc = "open"
    /\ file' = Blank
    /\ ctl' = [ctl EXCEPT ![p].pc = "write"]
    /\ UNCHANGED <<policy, whole, granted>>

\* ... and writes from its start.  What another process wrote in between may
\* be longer, and then its end remains.
SaveWrites(p) ==
    /\ ctl[p].pc = "write"
    /\ \/ file' = List(ctl[p].records)
       \/ file.kind # "blank" /\ file' = Torn
    /\ ctl' = [ctl EXCEPT ![p] = Idle]
    /\ whole' = ctl[p].records
    /\ granted' = granted \cup {[r EXCEPT !.status = "Active"] :
                                   r \in Range(ctl[p].records)}
    /\ UNCHANGED policy

\* A process stops, or its write fails; a write that had begun may have stored
\* a part.
Crash(p) ==
    /\ p \in Crashes
    /\ ctl[p].pc # "idle"
    /\ file' \in {file} \cup IF ctl[p].pc = "write" THEN {Torn} ELSE {}
    /\ ctl' = [ctl EXCEPT ![p] = Idle]
    /\ UNCHANGED <<policy, whole, granted>>

\* The gateway starts.  With a configured path from_json_file refuses anything
\* but a list of valid records, and then the gateway does not start; without
\* one, which only the local modes allow, it starts with no policy.
GatewayStarts_LENIENT(configured) ==
    /\ policy' = IF ~configured THEN Unenforced
                 ELSE IF load_records.ok THEN List(load_records.records) ELSE Down
    /\ UNCHANGED <<file, ctl, whole, granted>>

GatewayStarts_UNPARSED(configured) ==
    /\ policy' = IF configured THEN file ELSE Unenforced
    /\ UNCHANGED <<file, ctl, whole, granted>>

GatewayStarts(configured) ==
    /\ policy' = IF ~configured THEN Unenforced
                 ELSE IF file.kind = "list" /\ ValidPolicy(file.records)
                      THEN file ELSE Down
    /\ UNCHANGED <<file, ctl, whole, granted>>

\* The permission gate of route_verified, skipped when there is no policy.
Permits(key, resource, now) ==
    \/ policy.kind = "unenforced"
    \/ /\ policy.kind = "list"
       /\ evaluate(policy.records, key, resource, now) = "Allow"

Next ==
    \/ \E p \in Ctls :
          \/ \E r \in Grantable : Grant(p, r)
          \/ \E key \in Keys, v \in {r.scope.value : r \in Grantable} :
                Revoke(p, key, v)
          \/ SaveTruncates(p)
          \/ SaveWrites(p)
          \/ Crash(p)
    \/ \E configured \in BOOLEAN : GatewayStarts(configured)

Spec == Init /\ [][Next]_vars
-----------------------------------------------------------------------------
Records == {[r EXCEPT !.status = s] : r \in Grantable, s \in {"Active", "Revoked"}}

\* Types of the file, the processes and the gateway's policy.
TypeOK ==
    /\ file \in [kind : {"absent", "blank", "torn", "list"}, records : Seq(Records)]
    /\ ctl \in [Ctls -> [pc : {"idle", "open", "write"}, loaded : Seq(Records),
                         records : Seq(Records)]]
    /\ policy \in [kind : {"down", "unenforced", "list"}, records : Seq(Records)]
    /\ whole \in Seq(Records)
    /\ granted \subseteq Grantable

\* What a record is about, said without the code's helpers: it covers a
\* request, and it is in force at a time.
Covers(r, key, resource) ==
    /\ r.key = key
    /\ \/ r.scope.value = resource
       \/ /\ r.scope.kind = "prefix"
          /\ \E rest \in {SubSeq(resource, i, Len(resource)) :
                             i \in 1..(Len(resource) + 1)} :
                resource = r.scope.value \o rest

InForce(r, t) ==
    /\ r.status = "Active" /\ r.authority_source = "ReceiverLocal"
    /\ t \in r.not_before..(r.not_after - 1)

Decisions == Keys \X Resources \X failclosed_unix_seconds

(***************************************************************************)
(* "Fail-closed, deny-wins evaluation. Returns Ok(Allow) only when an      *)
(* applicable Allow record matches and no applicable Deny record matches": *)
(* a gateway with a policy lets through exactly the requests that some     *)
(* record in force, granted by an operator, allows and none denies,        *)
(* whatever the order of the records, also when the clock read failed.     *)
(* Only a gateway that was given no policy lets everything through.        *)
(***************************************************************************)
AllowsExactlyTheGranted ==
    policy.kind # "down" =>
        \A <<key, resource, t>> \in Decisions :
            LET covering == {r \in Range(policy.records) :
                                Covers(r, key, resource) /\ InForce(r, t)}
            IN  Permits(key, resource, t) <=>
                   \/ policy.kind = "unenforced"
                   \/ /\ \E r \in covering : r.effect = "Allow" /\ r \in granted
                      /\ \A r \in covering : r.effect # "Deny"

(***************************************************************************)
(* The reason of a denial is the reason of some grant of the list that     *)
(* covers the request: there is none; one is revoked, which no other hides;*)
(* or one is of another source, is over, or has not begun.  This is less   *)
(* than the comments of DenyReason say: see ReasonsAsDocumented.           *)
(***************************************************************************)
DenialIsWitnessed ==
    policy.kind = "list" =>
        \A <<key, resource, t>> \in Decisions :
            LET why == evaluate(policy.records, key, resource, t)
                grants == {r \in Range(policy.records) :
                              r.effect = "Allow" /\ Covers(r, key, resource)}
                Local(r) == r.authority_source = "ReceiverLocal"
            IN  why \notin {"Allow", "ExplicitDeny"} =>
                   /\ why = "NoMatchingGrant" <=> grants = {}
                   /\ why = "Revoked" <=> \E r \in grants : r.status = "Revoked"
                   /\ why = "AuthoritySourceUnsupported" =>
                         \E r \in grants : ~Local(r)
                   /\ why = "Expired" => \E r \in grants : Local(r) /\ t >= r.not_after
                   /\ why = "NotYetValid" =>
                         \E r \in grants : Local(r) /\ t < r.not_before

(***************************************************************************)
(* permissions/src/lib.rs on DenyReason: "No record matched the            *)
(* caller/opcode/operation/resource at all", "The only matching grant is   *)
(* revoked", and likewise for the other three.  A denial that is not in    *)
(* force matches and is reported as no match, and with several grants the  *)
(* reason is that of one of them.                                          *)
(***************************************************************************)
ReasonsAsDocumented ==
    policy.kind = "list" =>
        \A <<key, resource, t>> \in Decisions :
            LET why == evaluate(policy.records, key, resource, t)
                matching == {i \in DOMAIN policy.records :
                                matches_request(policy.records[i], key, resource)}
            IN  /\ why = "NoMatchingGrant" => matching = {}
                /\ why \in {"Revoked", "Expired", "NotYetValid",
                            "AuthoritySourceUnsupported"} =>
                      Cardinality({i \in matching :
                                      policy.records[i].effect = "Allow"}) = 1

(***************************************************************************)
(* What operators did is kept: a process that loaded the list saved last,  *)
(* whatever others load, save or abandon meanwhile, saves each record of   *)
(* it unchanged, in its place, or revoked; so no record leaves the file,   *)
(* none is altered and no revocation is undone (permctl.rs grant, revoke). *)
(***************************************************************************)
Kept(old, new) ==
    \A i \in DOMAIN old :
        /\ i \in DOMAIN new
        /\ new[i] \in {old[i], [old[i] EXCEPT !.status = "Revoked"]}

OperatorEditsAreKept ==
    [][\A p \in Ctls :
          ctl[p].pc = "write" /\ ctl[p].loaded = whole /\ whole' = ctl[p].records =>
             Kept(whole, whole')]_vars

(***************************************************************************)
(* However many processes save and stop in between, the gateway never runs *)
(* on a file in the middle of a save, which would be an empty policy or a  *)
(* part of one: it starts with all of the list saved last, valid in every  *)
(* record, or does not start (install_configured_permission_policy).       *)
(***************************************************************************)
GatewayPolicyIsWhole ==
    [][policy' # policy /\ policy'.kind = "list" =>
          /\ policy'.records = whole /\ whole # <<>>
          /\ \A r \in Range(whole) : /\ r.key \in Keys /\ r.scope.value # <<>>
                                     /\ r.not_before < r.not_after]_vars

(***************************************************************************)
(* permctl.rs: "a present-but-malformed file is an error (fail-closed:     *)
(* never silently treat it as empty)".  A process starts from an empty     *)
(* list only if nothing was ever saved.                                    *)
(***************************************************************************)
NeverTreatedAsEmpty ==
    [][\A p \in Ctls :
          ctl[p].pc = "idle" /\ ctl'[p].pc = "open" /\ whole # <<>> =>
             ctl'[p].loaded # <<>>]_vars
=============================================================================
