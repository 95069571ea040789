---------------------------- MODULE ReplayGuard -----------------------------
(***************************************************************************)
(* What the replay reservation promises, without tables, prunes, crashes   *)
(* or timestamps: a slot is granted to a request until a deadline, to one  *)
(* request at a time, and only a granted request runs, once.  Gateway      *)
(* implements it.                                                          *)
(***************************************************************************)
EXTENDS Naturals

CONSTANTS Holders, Slots, Deadlines

VARIABLES
    now,      \* the wall clock
    grants,   \* every grant ever made: [holder, slot, at, until]
    ran       \* holders whose handler was invoked

vars == <<now, grants, ran>>

Granted == {g.holder : g \in grants}

Init == now = 0 /\ grants = {} /\ ran = {}

Pass == /\ now' = now + 1
        /\ UNCHANGED <<grants, ran>>

\* No earlier grant of the slot is still within its deadline.
Free(s) == \A g \in grants : g.slot = s => g.until < now

Grant(h) ==
    /\ \E s \in Slots, u \in Deadlines :
          /\ grants' = grants \cup {[holder |-> h, slot |-> s,
                                     at |-> now, until |-> u]}
          /\ Free(s)
    /\ h \notin Granted
    /\ UNCHANGED <<now, ran>>

Run(h) ==
    /\ ran' = ran \cup {h}
    /\ h \in Granted \ ran
    /\ UNCHANGED <<now, grants>>

Next == Pass \/ \E h \in Holders : Grant(h) \/ Run(h)

Spec == Init /\ [][Next]_vars
=============================================================================
