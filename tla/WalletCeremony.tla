--------------------------- MODULE WalletCeremony ---------------------------
(***************************************************************************)
(* The one-shot Wallet ceremony of devgraph_issue_create_wallet_cli.rs: a  *)
(* loopback listener that serves one connection at a time, a page opened   *)
(* at most once, one POST with the page's token, and the producer.         *)
(*                                                                         *)
(* Deadlines are on the monotonic clock, mono, which starts at 0 when the  *)
(* listener is bound.  The validity of the signed interval is on the wall  *)
(* clock, which may be set to anything at any time.                        *)
(***************************************************************************)
EXTENDS Ledger

CONSTANTS
    PRE_OPEN_SECONDS,         \* how long the page may stay unopened
    SIGNED_WINDOW_SECONDS,    \* how long an opened page may be answered
    CONNECTION_READ_SECONDS,  \* how long one request may take
    ClockFaults,              \* may a wall clock read fail?
    AcceptFaults              \* may accept fail?

ASSUME WindowAssumption ==
    /\ PRE_OPEN_SECONDS \in Nat \ {0}
    /\ SIGNED_WINDOW_SECONDS \in Nat \ {0}
    /\ CONNECTION_READ_SECONDS \in Nat \ {0}
    /\ ClockFaults \in BOOLEAN /\ AcceptFaults \in BOOLEAN

VARIABLES
    mono, wall,
    pc,               \* where the loop of run is
    state,            \* CeremonyState
    expires_at,       \* of AwaitingWallet, on the wall clock
    signed_deadline,  \* on the monotonic clock; Never until the page opens
    csrf,             \* how many tokens have been generated
    listener,
    conn,             \* what the connection being served sends
    read_deadline,
    result,           \* what run returned
    opened,           \* history: both clocks when the page was opened
    submitted,        \* history: both clocks when a presentation was accepted
    answer            \* history: the answer to the last complete request

clocks == <<mono, wall>>
ceremony == <<state, expires_at, signed_deadline, csrf>>
history == <<opened, submitted, answer>>
vars == <<clocks, pc, ceremony, listener, conn, read_deadline, result, history>>

Horizon == PRE_OPEN_SECONDS + SIGNED_WINDOW_SECONDS + 1
Never == Horizon + 1
Unread == [mono |-> Never, wall |-> CLOCK_READ_FAILURE_SENTINEL]

(***************************************************************************)
(* What a client may send: a request with a token that is right or not, in *)
(* a form that satisfies valid_top_level_get or valid_wallet_post or not;  *)
(* nothing at all; or bytes that are no request.  A POST that breaks off   *)
(* counts as a request that is not valid (partial_exact_post_from_wire).   *)
(***************************************************************************)
Requests == [path : {"page", "presentation", "cancel", "other"},
             token : BOOLEAN, valid : BOOLEAN]
NoRequests == [path : {"none", "silent", "garbage"}, token : {FALSE},
               valid : {FALSE}]
NoConn == [path |-> "none", token |-> FALSE, valid |-> FALSE]

failures == {"pre_open_expired", "signed_window_expired", "clock_unavailable",
             "cancelled", "consumed", "bind_failed"}

Deadline == IF signed_deadline = Never THEN PRE_OPEN_SECONDS ELSE signed_deadline

ReadWall == {wall} \cup IF ClockFaults THEN {CLOCK_READ_FAILURE_SENTINEL} ELSE {}

phase_expiry_error_UNOPENED == "pre_open_expired"

phase_expiry_error ==
    IF signed_deadline = Never THEN "pre_open_expired" ELSE "signed_window_expired"

\* run returns, which drops the listener and the connection.
Return(r) ==
    /\ pc' = "exited"
    /\ result' = r
    /\ state' = "Finished"
    /\ listener' = "closed"
    /\ conn' = NoConn
    /\ UNCHANGED <<expires_at, signed_deadline, csrf, read_deadline>>

\* The answer is on its way and the loop goes on.
Respond(status) ==
    /\ pc' = "write"
    /\ answer' = status
    /\ UNCHANGED <<listener, read_deadline, result, conn>>
-----------------------------------------------------------------------------
Init ==
    /\ mono = 0
    /\ wall \in Times
    /\ pc = "accept"
    /\ state = "AwaitingOpen"
    /\ expires_at = 0
    /\ signed_deadline = Never
    /\ csrf = 0
    /\ listener = "open"
    /\ conn = NoConn
    /\ read_deadline = 0
    /\ result = "none"
    /\ opened = Unread
    /\ submitted = Unread
    /\ answer = "none"

Tick ==
    /\ mono < Horizon
    /\ mono' = mono + 1
    /\ wall' \in {wall} \cup ({wall + 1} \cap Times)
    /\ UNCHANGED <<pc, ceremony, listener, conn, read_deadline, result, history>>

SetWallClock ==
    /\ wall' \in Times \ {wall}
    /\ UNCHANGED <<mono, pc, ceremony, listener, conn, read_deadline, result,
                   history>>
-----------------------------------------------------------------------------
\* Only the page tells a client the token.
Accept(c) ==
    /\ pc = "accept"
    /\ listener = "open"
    /\ c.token => csrf > 0
    /\ conn' = c
    /\ read_deadline' = IF mono + CONNECTION_READ_SECONDS < Deadline
                        THEN mono + CONNECTION_READ_SECONDS ELSE Deadline
    /\ pc' = "read"
    /\ answer' = "none"
    /\ UNCHANGED <<clocks, ceremony, listener, result, opened, submitted>>

AcceptFails ==
    /\ pc = "accept"
    /\ AcceptFaults
    /\ pc' = "exited"
    /\ result' = "bind_failed"
    /\ listener' = "closed"
    /\ UNCHANGED <<clocks, ceremony, conn, read_deadline, history>>

AcceptTimeout ==
    /\ pc = "accept"
    /\ mono >= Deadline
    /\ Return(phase_expiry_error)
    /\ UNCHANGED <<clocks, history>>

\* read_http_request ends without a request.
ReadFails_WITHOUT_TIMEOUT ==
    /\ pc = "read"
    /\ conn.path = "garbage"
    /\ \/ mono >= Deadline /\ Return(phase_expiry_error) /\ UNCHANGED answer
       \/ mono < Deadline /\ Respond("none") /\ UNCHANGED ceremony
    /\ UNCHANGED <<clocks, opened, submitted>>

ReadFails ==
    /\ pc = "read"
    /\ conn.path = "garbage" \/ (conn.path = "silent" /\ mono >= read_deadline)
    /\ \/ mono >= Deadline /\ Return(phase_expiry_error) /\ UNCHANGED answer
       \/ mono < Deadline /\ Respond("none") /\ UNCHANGED ceremony
    /\ UNCHANGED <<clocks, opened, submitted>>

\* A request is complete, but the phase is over: run returns and answers
\* nothing.
TransitionTooLate ==
    /\ pc = "read"
    /\ conn \in Requests
    /\ mono >= Deadline
    /\ Return(phase_expiry_error)
    /\ answer' = "closed"
    /\ UNCHANGED <<clocks, opened, submitted>>

Transition == pc = "read" /\ conn \in Requests /\ mono < Deadline

\* handle, for a method and a path that mean nothing: 404 or 405.
HandleOther ==
    /\ Transition
    /\ conn.path = "other"
    /\ Respond("not_found")
    /\ UNCHANGED <<clocks, ceremony, opened, submitted>>

\* handle_get.
Open(t) ==
    /\ state' = "AwaitingWallet"
    /\ expires_at' = t + SIGNED_WINDOW_SECONDS
    /\ signed_deadline' = mono + SIGNED_WINDOW_SECONDS
    /\ csrf' = csrf + 1
    /\ opened' = [mono |-> mono, wall |-> t]
    /\ Respond("ok")

handle_get_REOPENING ==
    /\ Transition
    /\ conn.path = "page"
    /\ \E t \in ReadWall :
          /\ conn.valid
          /\ t + SIGNED_WINDOW_SECONDS <= CLOCK_READ_FAILURE_SENTINEL
          /\ Open(t)
    /\ UNCHANGED <<clocks, submitted>>

handle_get_UNCHECKED ==
    /\ Transition
    /\ conn.path = "page"
    /\ \E t \in ReadWall :
          \/ /\ state # "AwaitingOpen"
             /\ Respond("gone")
             /\ UNCHANGED <<ceremony, opened>>
          \/ /\ state = "AwaitingOpen"
             /\ Open(t)
    /\ UNCHANGED <<clocks, submitted>>

handle_get ==
    /\ Transition
    /\ conn.path = "page"
    /\ \E t \in ReadWall :
          \/ /\ state # "AwaitingOpen"
             /\ Respond("gone")
             /\ UNCHANGED <<ceremony, opened>>
          \/ /\ state = "AwaitingOpen" /\ ~conn.valid
             /\ Respond("bad_request")
             /\ UNCHANGED <<ceremony, opened>>
          \/ /\ state = "AwaitingOpen" /\ conn.valid
             /\ \/ is_clock_read_failure(t)
                \/ t + SIGNED_WINDOW_SECONDS > CLOCK_READ_FAILURE_SENTINEL
             /\ Return("clock_unavailable")
             /\ answer' = "gone"
             /\ UNCHANGED opened
          \/ /\ state = "AwaitingOpen" /\ conn.valid
             /\ ~is_clock_read_failure(t)
             /\ t + SIGNED_WINDOW_SECONDS <= CLOCK_READ_FAILURE_SENTINEL
             /\ Open(t)
    /\ UNCHANGED <<clocks, submitted>>

\* handle_post: without the token of the page nothing is consumed.
PostWithoutToken_CONSUMING ==
    /\ Transition
    /\ conn.path \in {"presentation", "cancel"}
    /\ ~(csrf > 0 /\ conn.token)
    /\ Return("consumed")
    /\ answer' = "not_found"
    /\ UNCHANGED <<clocks, opened, submitted>>

PostWithoutToken ==
    /\ Transition
    /\ conn.path \in {"presentation", "cancel"}
    /\ ~(csrf > 0 /\ conn.token)
    /\ Respond("not_found")
    /\ UNCHANGED <<clocks, ceremony, opened, submitted>>

\* handle_post with the token: it is consumed whatever else is wrong.  For a
\* presentation the listener is dropped before the producer runs.
Submit_LISTENING(t) ==
    /\ state' = "Consuming"
    /\ pc' = "issue"
    /\ submitted' = [mono |-> mono, wall |-> t]
    /\ UNCHANGED <<expires_at, signed_deadline, csrf, listener, conn,
                   read_deadline, result, answer>>

Submit(t) ==
    /\ state' = "Consuming"
    /\ pc' = "issue"
    /\ listener' = "closed"
    /\ submitted' = [mono |-> mono, wall |-> t]
    /\ UNCHANGED <<expires_at, signed_deadline, csrf, conn, read_deadline,
                   result, answer>>

handle_post_UNTIMED ==
    /\ pc = "read" /\ conn \in Requests
    /\ conn.path \in {"presentation", "cancel"}
    /\ csrf > 0 /\ conn.token
    /\ \E t \in ReadWall :
          /\ conn.valid /\ conn.path = "presentation"
          /\ t < expires_at
          /\ Submit(t)
    /\ UNCHANGED <<clocks, opened>>

handle_post ==
    /\ Transition
    /\ conn.path \in {"presentation", "cancel"}
    /\ csrf > 0 /\ conn.token
    /\ \E t \in ReadWall :
          \/ /\ state # "AwaitingWallet"
             /\ Respond("gone")
             /\ UNCHANGED <<ceremony, submitted>>
          \/ /\ state = "AwaitingWallet"
             /\ is_clock_read_failure(t) \/ t >= expires_at
             /\ Return("signed_window_expired")
             /\ answer' = "gone"
             /\ UNCHANGED submitted
          \/ /\ state = "AwaitingWallet"
             /\ ~is_clock_read_failure(t) /\ t < expires_at
             /\ \/ /\ ~conn.valid
                   /\ Return("consumed")
                   /\ answer' = "bad_request"
                   /\ UNCHANGED submitted
                \/ /\ conn.valid /\ conn.path = "cancel"
                   /\ Return("cancelled")
                   /\ answer' = "ok"
                   /\ UNCHANGED submitted
                \/ /\ conn.valid /\ conn.path = "presentation"
                   /\ Submit(t)
    /\ UNCHANGED <<clocks, opened>>

\* The response is written, or the client is gone, or the phase ends first.
WriteResponse ==
    /\ pc = "write"
    /\ \/ /\ pc' = "accept"
          /\ conn' = NoConn
          /\ UNCHANGED <<ceremony, listener, read_deadline, result>>
       \/ /\ mono >= Deadline
          /\ Return(phase_expiry_error)
    /\ UNCHANGED <<clocks, history>>

\* issue_prepared_exact_producer, then the answer to the wallet.
Issue ==
    /\ pc = "issue"
    /\ \E r \in {"output_written", "authority_rejected"} :
          Return(r) /\ answer' = r
    /\ UNCHANGED <<clocks, opened, submitted>>
-----------------------------------------------------------------------------
\* Everything the process does without a client's doing.
Serve ==
    \/ AcceptTimeout
    \/ ReadFails
    \/ TransitionTooLate
    \/ HandleOther
    \/ handle_get
    \/ PostWithoutToken
    \/ handle_post
    \/ WriteResponse
    \/ Issue

Next ==
    \/ Tick
    \/ SetWallClock
    \/ \E c \in Requests \cup NoRequests : c # NoConn /\ Accept(c)
    \/ AcceptFails
    \/ Serve

Spec == Init /\ [][Next]_vars

\* The monotonic clock advances and tokio polls a ready task; nothing is
\* assumed of the clients or of the wall clock.
FairSpec == Spec /\ WF_vars(Tick) /\ WF_vars(Serve)
-----------------------------------------------------------------------------
\* Types of the ceremony's state.
TypeOK ==
    /\ mono \in 0..Horizon
    /\ wall \in Times
    /\ pc \in {"accept", "read", "write", "issue", "exited"}
    /\ state \in {"AwaitingOpen", "AwaitingWallet", "Consuming", "Finished"}
    /\ expires_at \in 0..CLOCK_READ_FAILURE_SENTINEL
    /\ signed_deadline \in 0..Never
    /\ csrf \in 0..1
    /\ listener \in {"open", "closed"}
    /\ conn \in Requests \cup NoRequests
    /\ read_deadline \in 0..Horizon
    /\ result \in {"none", "output_written", "authority_rejected"} \cup failures
    /\ opened \in [mono : 0..Never, wall : failclosed_unix_seconds]
    /\ submitted \in [mono : 0..Never, wall : failclosed_unix_seconds]
    /\ answer \in {"none", "ok", "bad_request", "not_found", "gone", "closed",
                   "output_written", "authority_rejected"}

\* Running before the producer: the loop of run.
Looping == pc \in {"accept", "read", "write"}

(***************************************************************************)
(* The inductive invariant behind the properties below: how the phase, the *)
(* deadlines, the token and the result of run hang together.               *)
(***************************************************************************)
CeremonyInv ==
    /\ Looping => /\ state \in {"AwaitingOpen", "AwaitingWallet"}
                  /\ submitted = Unread
                  /\ result = "none"
                  /\ state = "AwaitingWallet" <=> opened # Unread
    /\ pc = "issue" => /\ state = "Consuming"
                       /\ listener = "closed"
                       /\ submitted # Unread
                       /\ result = "none"
    /\ pc = "exited" => listener = "closed"
    /\ opened = Unread <=> signed_deadline = Never
    /\ csrf = IF opened = Unread THEN 0 ELSE 1
    /\ opened # Unread =>
          /\ signed_deadline = opened.mono + SIGNED_WINDOW_SECONDS
          /\ expires_at = opened.wall + SIGNED_WINDOW_SECONDS

(***************************************************************************)
(* A presentation is taken only from the page this ceremony opened and     *)
(* only within both windows: less than SIGNED_WINDOW_SECONDS of monotonic  *)
(* time after the opening, and before the expiry the page announced on the *)
(* wall clock, however the wall clock is set in between (run and           *)
(* handle_post).                                                           *)
(***************************************************************************)
PresentationInWindow ==
    submitted # Unread =>
        /\ opened # Unread
        /\ submitted.mono < opened.mono + SIGNED_WINDOW_SECONDS
        /\ submitted.wall < opened.wall + SIGNED_WINDOW_SECONDS

(***************************************************************************)
(* "no receiver config or replay database is opened while the loopback     *)
(* listener can accept another connection": once the ceremony is consumed  *)
(* or over the listener is closed.                                         *)
(***************************************************************************)
ConsumedMeansClosed ==
    state \in {"Consuming", "Finished"} \/ pc = "issue" => listener = "closed"

(***************************************************************************)
(* run's result is the truth: the producer's result is returned only for a *)
(* submitted presentation, an expiry before the opening only if the page   *)
(* was never opened, and the other expiry, a cancellation or a consumption *)
(* only if it was.                                                         *)
(***************************************************************************)
ResultIsTrue ==
    /\ result \in {"output_written", "authority_rejected"} => submitted # Unread
    /\ result \in failures => submitted = Unread
    /\ result \in {"pre_open_expired", "clock_unavailable"} => opened = Unread
    /\ result \in {"signed_window_expired", "cancelled", "consumed"} =>
          opened # Unread

(***************************************************************************)
(* "A wrong CSRF returns 404 and does not consume": a step of an opened    *)
(* ceremony leaves it as it is and goes on listening, whatever other       *)
(* requests, garbage and broken connections come in between, unless it is  *)
(* a POST with the page's token, the deadline has come, or accept failed,  *)
(* on which run gives up.                                                  *)
(***************************************************************************)
OnlyTokenConsumes ==
    [][Looping /\ state = "AwaitingWallet" =>
          \/ Looping' /\ UNCHANGED <<ceremony, listener>>
          \/ pc = "read" /\ conn.token /\ conn.path \in {"presentation", "cancel"}
          \/ mono >= signed_deadline
          \/ pc = "accept" /\ result' = "bind_failed"]_vars

(***************************************************************************)
(* Reloading the page neither makes another token nor extends the window.  *)
(***************************************************************************)
WindowNeverExtended ==
    [][opened # Unread =>
          UNCHANGED <<opened, expires_at, signed_deadline, csrf>>]_vars

(***************************************************************************)
(* The ceremony ends, whatever the clients send or do not send and however *)
(* the wall clock is set.                                                  *)
(***************************************************************************)
CeremonyEnds == <>(pc = "exited")

(***************************************************************************)
(* docs/reference/devgraph-issue-create-v1-wallet-cli.md: "exact/late      *)
(* expiry return 410".  A request that is complete when the phase is over  *)
(* is dropped without an answer.                                           *)
(***************************************************************************)
LateCallIsAnswered == answer # "closed"
=============================================================================
