------------------------- MODULE MCPermissionPolicy -------------------------
(* Small instances of PermissionPolicy for TLC. *)
EXTENDS PermissionPolicy

CONSTANTS k1, k2, p1, p2, p3

VARIABLE operators   \* one with many records, or two who may stop, with few

Record(key, kind, value, effect, from, to) ==
    [key |-> key, scope |-> [kind |-> kind, value |-> value], effect |-> effect,
     not_before |-> from, not_after |-> to, status |-> "Active",
     authority_source |-> "ReceiverLocal"]

Foreign(r) == [r EXCEPT !.authority_source = "DreggBacked"]

\* Overlapping grants and denials of two resources, one inside the other,
\* with windows that start late, end early or never end, a grant for another
\* key, one of a source that is not evaluated, and an invalid record.
EvaluationRecords ==
    {Record(k1, "prefix", <<"a">>, "Allow", 0, MaxTime + 1),
     Record(k1, "prefix", <<"a">>, "Deny", 1, 2),
     Record(k1, "exact", <<"a", "b">>, "Allow", 1, 2),
     Record(k1, "exact", <<"a", "b">>, "Allow", 0, 1),
     Record(k1, "exact", <<"a", "b">>, "Deny", 0, 2),
     Record(k2, "exact", <<"a">>, "Allow", 0, MaxTime + 1),
     Foreign(Record(k1, "exact", <<"a">>, "Allow", 0, 2)),
     Record(k1, "exact", <<"a">>, "Allow", 2, 2)}

\* A valid grant and an invalid one.
RaceRecords ==
    {Record(k1, "prefix", <<"a">>, "Allow", 0, MaxTime + 1),
     Record(k1, "exact", <<"a">>, "Allow", 2, 2)}

MaxRaced == 2

MCInit == Init /\ operators \in {{p1}, {p2, p3}}

\* One operator has edited the file by the time the gateway starts; two, with
\* the records of the races, go on while it restarts.
MCNext ==
    /\ Next
    /\ \A p \in Ctls : ctl'[p] # ctl[p] =>
          /\ p \in operators
          /\ IF p = p1 THEN policy = Down
             ELSE /\ Len(ctl'[p].records) <= MaxRaced
                  /\ \A r \in Range(ctl'[p].records) :
                        [r EXCEPT !.status = "Active"] \in RaceRecords
    /\ UNCHANGED operators

MCSpec == MCInit /\ [][MCNext]_<<vars, operators>>

ResourcesOfRequests == {<<>>, <<"a">>, <<"a", "b">>, <<"b">>}
=============================================================================
