------------------------ MODULE WalletCeremonyProofs ------------------------
(* WalletCeremony: its windows, its token and its result, for every length *)
(* of the windows and every range of the wall clock.                       *)
EXTENDS WalletCeremony, TLAPS

\* Windows, clock readings and the instants derived from them are numbers.
LEMMA Numbers ==
    /\ PRE_OPEN_SECONDS \in Nat /\ PRE_OPEN_SECONDS > 0
    /\ SIGNED_WINDOW_SECONDS \in Nat /\ SIGNED_WINDOW_SECONDS > 0
    /\ CONNECTION_READ_SECONDS \in Nat
    /\ Horizon = PRE_OPEN_SECONDS + SIGNED_WINDOW_SECONDS + 1
    /\ Never = PRE_OPEN_SECONDS + SIGNED_WINDOW_SECONDS + 2
    /\ MaxTime \in Nat
    /\ CLOCK_READ_FAILURE_SENTINEL = MaxTime + 1
    /\ failclosed_unix_seconds = 0..(MaxTime + 1)
    /\ Times = 0..MaxTime
BY WindowAssumption, MaxTimeAssumption
   DEF Horizon, Never, CLOCK_READ_FAILURE_SENTINEL, failclosed_unix_seconds, Times

\* A reading of the wall clock is the wall clock or the failure sentinel.
LEMMA ReadWallType ==
    ASSUME wall \in Times, NEW t \in ReadWall
    PROVE  /\ t \in failclosed_unix_seconds
           /\ ~is_clock_read_failure(t) => t \in Times
BY Numbers, WindowAssumption DEF ReadWall, is_clock_read_failure
-----------------------------------------------------------------------------
LEMMA CeremonyInit == Init => TypeOK /\ CeremonyInv
<1> SUFFICES ASSUME Init PROVE TypeOK /\ CeremonyInv
  OBVIOUS
<1>1. TypeOK
  <2>1. NoConn \in NoRequests
    BY DEF NoConn, NoRequests
  <2>2. Unread \in [mono : 0..Never, wall : failclosed_unix_seconds]
    BY Numbers DEF Unread
  <2>3. csrf \in 0..1
    BY DEF Init
  <2>4. /\ mono \in 0..Horizon
        /\ signed_deadline \in 0..Never
        /\ expires_at \in 0..CLOCK_READ_FAILURE_SENTINEL
        /\ read_deadline \in 0..Horizon
    BY Numbers DEF Init
  <2> QED
    BY <2>1, <2>2, <2>3, <2>4 DEF Init, TypeOK
<1>2. CeremonyInv
  BY DEF Init, CeremonyInv, Looping
<1> QED
  BY <1>1, <1>2

\* What an opening of the page does: it can only be the first one, and its
\* window ends before the horizon.
LEMMA OpenShape ==
    ASSUME TypeOK, CeremonyInv, Transition, state = "AwaitingOpen",
           NEW t \in ReadWall, ~is_clock_read_failure(t), Open(t)
    PROVE  /\ opened = Unread /\ opened' # Unread
           /\ csrf' = 1
           /\ opened' \in [mono : 0..Never, wall : failclosed_unix_seconds]
           /\ signed_deadline' \in 0..Never /\ signed_deadline' # Never
           /\ signed_deadline' = opened'.mono + SIGNED_WINDOW_SECONDS
           /\ expires_at' = opened'.wall + SIGNED_WINDOW_SECONDS
           /\ t \in Times
<1>1. opened = Unread /\ signed_deadline = Never
  BY DEF CeremonyInv, Looping, Transition
<1>2. mono \in Nat /\ mono < PRE_OPEN_SECONDS
  BY <1>1, Numbers DEF Transition, Deadline, TypeOK
<1>3. t \in Times
  BY ReadWallType DEF TypeOK
<1>4. opened' = [mono |-> mono, wall |-> t]
  BY DEF Open
<1>5. opened' # Unread
  BY <1>2, <1>4, Numbers DEF Unread
<1>6. /\ signed_deadline' = opened'.mono + SIGNED_WINDOW_SECONDS
      /\ expires_at' = opened'.wall + SIGNED_WINDOW_SECONDS
  BY <1>4 DEF Open
<1>7. csrf' = 1
  BY <1>1 DEF Open, CeremonyInv
<1> QED
  BY <1>1, <1>2, <1>3, <1>4, <1>5, <1>6, <1>7, Numbers

LEMMA TypeStep == TypeOK /\ CeremonyInv /\ [Next]_vars => TypeOK'
<1> SUFFICES ASSUME TypeOK, CeremonyInv, [Next]_vars PROVE TypeOK'
  OBVIOUS
<1> USE Numbers DEF clocks, ceremony, history
<1>0. NoConn \in NoRequests
  BY DEF NoConn, NoRequests
<1>1. CASE UNCHANGED vars
  BY <1>1 DEF vars, TypeOK
<1>2. CASE Tick
  BY <1>2 DEF Tick, TypeOK
<1>3. CASE SetWallClock
  BY <1>3 DEF SetWallClock, TypeOK
<1>4. ASSUME NEW c \in Requests \cup NoRequests, Accept(c) PROVE TypeOK'
  <2>1. Deadline \in 0..Never /\ (Deadline = Never => FALSE)
    BY DEF Deadline, TypeOK
  <2>2. read_deadline' \in 0..Horizon
    BY <1>4, <2>1 DEF Accept, TypeOK
  <2> QED
    BY <1>4, <2>2 DEF Accept, TypeOK
<1>5. CASE AcceptFails
  BY <1>5 DEF AcceptFails, TypeOK, failures
<1>6. CASE AcceptTimeout
  BY <1>0, <1>6 DEF AcceptTimeout, Return, phase_expiry_error, TypeOK, failures
<1>7. CASE ReadFails
  BY <1>0, <1>7
  DEF ReadFails, Return, Respond, phase_expiry_error, TypeOK, failures
<1>8. CASE TransitionTooLate
  BY <1>0, <1>8
  DEF TransitionTooLate, Return, phase_expiry_error, TypeOK, failures
<1>9. CASE HandleOther
  BY <1>9 DEF HandleOther, Respond, TypeOK
<1>10. CASE handle_get
  <2>1. PICK t \in ReadWall :
          \/ Respond("gone") /\ UNCHANGED <<ceremony, opened>>
          \/ Respond("bad_request") /\ UNCHANGED <<ceremony, opened>>
          \/ Return("clock_unavailable") /\ answer' = "gone" /\ UNCHANGED opened
          \/ /\ Transition
             /\ state = "AwaitingOpen"
             /\ ~is_clock_read_failure(t)
             /\ t + SIGNED_WINDOW_SECONDS <= CLOCK_READ_FAILURE_SENTINEL
             /\ Open(t)
    BY <1>10 DEF handle_get
  <2>2. UNCHANGED <<clocks, submitted>>
    BY <1>10 DEF handle_get
  <2>3. CASE Open(t) /\ Transition /\ state = "AwaitingOpen"
             /\ ~is_clock_read_failure(t)
             /\ t + SIGNED_WINDOW_SECONDS <= CLOCK_READ_FAILURE_SENTINEL
    <3>1. /\ opened' \in [mono : 0..Never, wall : failclosed_unix_seconds]
          /\ signed_deadline' \in 0..Never
          /\ csrf' = 1
          /\ t \in Times
      BY <2>3, OpenShape
    <3> QED
      BY <2>2, <2>3, <3>1 DEF Open, Respond, TypeOK
  <2> QED
    BY <1>0, <2>1, <2>2, <2>3 DEF Return, Respond, TypeOK, failures
<1>11. CASE PostWithoutToken
  BY <1>11 DEF PostWithoutToken, Respond, TypeOK
<1>12. CASE handle_post
  <2>1. PICK t \in ReadWall :
          \/ Respond("gone") /\ UNCHANGED <<ceremony, submitted>>
          \/ /\ Return("signed_window_expired")
             /\ answer' = "gone" /\ UNCHANGED submitted
          \/ Return("consumed") /\ answer' = "bad_request" /\ UNCHANGED submitted
          \/ Return("cancelled") /\ answer' = "ok" /\ UNCHANGED submitted
          \/ Submit(t)
    BY <1>12 DEF handle_post
  <2>2. UNCHANGED <<clocks, opened>>
    BY <1>12 DEF handle_post
  <2>3. CASE Submit(t)
    <3>1. t \in failclosed_unix_seconds
      BY ReadWallType DEF TypeOK
    <3>2. submitted' \in [mono : 0..Never, wall : failclosed_unix_seconds]
      BY <2>3, <3>1 DEF Submit, TypeOK
    <3> QED
      BY <2>2, <2>3, <3>2 DEF Submit, TypeOK
  <2> QED
    BY <1>0, <2>1, <2>2, <2>3 DEF Return, Respond, TypeOK, failures
<1>13. CASE WriteResponse
  BY <1>0, <1>13 DEF WriteResponse, Return, phase_expiry_error, TypeOK, failures
<1>14. CASE Issue
  BY <1>0, <1>14 DEF Issue, Return, TypeOK
<1> QED
  BY <1>1, <1>2, <1>3, <1>4, <1>5, <1>6, <1>7, <1>8, <1>9, <1>10, <1>11,
     <1>12, <1>13, <1>14 DEF Next, Serve
-----------------------------------------------------------------------------
LEMMA CeremonyStep == TypeOK /\ CeremonyInv /\ [Next]_vars => CeremonyInv'
<1> SUFFICES ASSUME TypeOK, CeremonyInv, [Next]_vars PROVE CeremonyInv'
  OBVIOUS
<1> USE DEF ceremony, history
<1>1. CASE UNCHANGED vars
  BY <1>1 DEF vars, CeremonyInv, Looping
<1>2. CASE Tick
  BY <1>2 DEF Tick, CeremonyInv, Looping
<1>3. CASE SetWallClock
  BY <1>3 DEF SetWallClock, CeremonyInv, Looping
<1>4. ASSUME NEW c \in Requests \cup NoRequests, Accept(c) PROVE CeremonyInv'
  BY <1>4 DEF Accept, CeremonyInv, Looping
<1>5. CASE AcceptFails
  BY <1>5 DEF AcceptFails, CeremonyInv, Looping
<1>6. CASE AcceptTimeout
  BY <1>6 DEF AcceptTimeout, Return, CeremonyInv, Looping
<1>7. CASE ReadFails
  BY <1>7 DEF ReadFails, Return, Respond, CeremonyInv, Looping
<1>8. CASE TransitionTooLate
  BY <1>8 DEF TransitionTooLate, Return, CeremonyInv, Looping
<1>9. CASE HandleOther
  BY <1>9 DEF HandleOther, Transition, Respond, CeremonyInv, Looping
<1>10. CASE handle_get
  <2>1. PICK t \in ReadWall :
          \/ Respond("gone") /\ UNCHANGED <<ceremony, opened>>
          \/ Respond("bad_request") /\ UNCHANGED <<ceremony, opened>>
          \/ Return("clock_unavailable") /\ UNCHANGED opened
          \/ /\ state = "AwaitingOpen"
             /\ ~is_clock_read_failure(t)
             /\ Open(t)
    BY <1>10 DEF handle_get
  <2>2. Transition /\ UNCHANGED submitted
    BY <1>10 DEF handle_get
  <2>3. CASE state = "AwaitingOpen" /\ ~is_clock_read_failure(t) /\ Open(t)
    <3>1. /\ opened' # Unread /\ signed_deadline' # Never /\ csrf' = 1
          /\ signed_deadline' = opened'.mono + SIGNED_WINDOW_SECONDS
          /\ expires_at' = opened'.wall + SIGNED_WINDOW_SECONDS
      BY <2>2, <2>3, OpenShape
    <3> QED
      BY <2>2, <2>3, <3>1 DEF Transition, Open, Respond, CeremonyInv, Looping
  <2> QED
    BY <2>1, <2>2, <2>3 DEF Transition, Return, Respond, CeremonyInv, Looping
<1>11. CASE PostWithoutToken
  BY <1>11 DEF PostWithoutToken, Transition, Respond, CeremonyInv, Looping
<1>12. CASE handle_post
  <2>1. PICK t \in ReadWall :
          \/ Respond("gone") /\ UNCHANGED <<ceremony, submitted>>
          \/ Return("signed_window_expired") /\ UNCHANGED submitted
          \/ Return("consumed") /\ UNCHANGED submitted
          \/ Return("cancelled") /\ UNCHANGED submitted
          \/ Submit(t)
    BY <1>12 DEF handle_post
  <2>2. Transition /\ UNCHANGED opened
    BY <1>12 DEF handle_post
  <2>3. Submit(t) => submitted' # Unread
    BY Numbers DEF Submit, Unread, TypeOK
  <2> QED
    BY <2>1, <2>2, <2>3
    DEF Transition, Return, Respond, Submit, CeremonyInv, Looping
<1>13. CASE WriteResponse
  BY <1>13 DEF WriteResponse, Return, CeremonyInv, Looping
<1>14. CASE Issue
  BY <1>14 DEF Issue, Return, CeremonyInv, Looping
<1> QED
  BY <1>1, <1>2, <1>3, <1>4, <1>5, <1>6, <1>7, <1>8, <1>9, <1>10, <1>11,
     <1>12, <1>13, <1>14 DEF Next, Serve

\* The types and the inductive invariant hold for every length of the windows.
THEOREM CeremonyHolds == Spec => [](TypeOK /\ CeremonyInv)
<1>1. TypeOK /\ CeremonyInv /\ [Next]_vars => (TypeOK /\ CeremonyInv)'
  BY TypeStep, CeremonyStep
<1> QED
  BY CeremonyInit, <1>1, PTL DEF Spec
-----------------------------------------------------------------------------
\* A presentation is recorded in one place only, and there both windows are
\* still open.
LEMMA SubmittedInWindow ==
    ASSUME TypeOK, CeremonyInv, [Next]_vars
    PROVE  \/ UNCHANGED <<submitted, opened>>
           \/ submitted' = Unread
           \/ PresentationInWindow'
<1> USE DEF ceremony, history
<1>1. CASE UNCHANGED <<submitted, opened>>
  BY <1>1
<1>2. CASE handle_get
  BY <1>2 DEF handle_get, Transition, CeremonyInv, Looping
<1>3. CASE handle_post
  <2>1. PICK t \in ReadWall :
          \/ UNCHANGED submitted
          \/ /\ state = "AwaitingWallet"
             /\ t < expires_at
             /\ Submit(t)
    BY <1>3 DEF handle_post, Return, Respond
  <2>2. Transition /\ UNCHANGED opened
    BY <1>3 DEF handle_post
  <2>3. CASE state = "AwaitingWallet" /\ t < expires_at /\ Submit(t)
    <3>1. opened # Unread
      BY <2>2, <2>3 DEF Transition, CeremonyInv, Looping
    <3>2. mono < opened.mono + SIGNED_WINDOW_SECONDS
      BY <2>2, <3>1 DEF Transition, Deadline, CeremonyInv
    <3>3. t < opened.wall + SIGNED_WINDOW_SECONDS
      BY <2>3, <3>1 DEF CeremonyInv
    <3>4. submitted' = [mono |-> mono, wall |-> t]
      BY <2>3 DEF Submit
    <3> QED
      BY <2>2, <3>1, <3>2, <3>3, <3>4 DEF PresentationInWindow
  <2> QED
    BY <2>1, <2>2, <2>3
<1> QED
  BY <1>1, <1>2, <1>3
  DEF Next, Serve, vars, Tick, SetWallClock, Accept, AcceptFails, AcceptTimeout,
      ReadFails, TransitionTooLate, HandleOther, PostWithoutToken, WriteResponse,
      Issue

\* A presentation is taken only within both windows of the page this ceremony
\* opened, however the wall clock is set (run, handle_post).
THEOREM PresentationWindow == Spec => []PresentationInWindow
<1>1. Init => PresentationInWindow
  BY DEF Init, PresentationInWindow
<1>2. TypeOK /\ CeremonyInv /\ PresentationInWindow /\ [Next]_vars
        => PresentationInWindow'
  BY SubmittedInWindow DEF PresentationInWindow
<1> QED
  BY <1>1, <1>2, CeremonyHolds, PTL DEF Spec

\* Once the ceremony is consumed or over, and whenever the producer runs, the
\* listener is closed (the drop of the listener in run).
THEOREM ListenerClosesFirst == Spec => []ConsumedMeansClosed
<1>1. TypeOK /\ CeremonyInv => ConsumedMeansClosed
  BY DEF TypeOK, CeremonyInv, ConsumedMeansClosed, Looping
<1> QED
  BY <1>1, CeremonyHolds, PTL

\* Only a POST with the token of the page, the deadline and a failed accept end
\* an opened ceremony or change it (handle_post's comparison of the CSRF header
\* and the error paths of run).
THEOREM TokenConsumes == Spec => OnlyTokenConsumes
<1> DEFINE Ends == \/ Looping' /\ UNCHANGED <<ceremony, listener>>
                   \/ /\ pc = "read" /\ conn.token
                      /\ conn.path \in {"presentation", "cancel"}
                   \/ mono >= signed_deadline
                   \/ pc = "accept" /\ result' = "bind_failed"
<1>1. TypeOK /\ CeremonyInv /\ [Next]_vars
        => [Looping /\ state = "AwaitingWallet" => Ends]_vars
  <2> SUFFICES ASSUME TypeOK, CeremonyInv, Next, Looping,
                      state = "AwaitingWallet"
               PROVE  Ends
    OBVIOUS
  <2>1. Deadline = signed_deadline
    BY DEF CeremonyInv, Deadline
  <2>2. CASE Issue
    BY <2>2 DEF Issue, Looping
  <2>3. CASE handle_get
    BY <2>3 DEF handle_get, Respond, Looping
  <2>4. CASE handle_post
    BY <2>4 DEF handle_post, Transition
  <2>5. CASE AcceptTimeout \/ TransitionTooLate
    BY <2>1, <2>5 DEF AcceptTimeout, TransitionTooLate
  <2>6. CASE ReadFails \/ WriteResponse
    BY <2>1, <2>6 DEF ReadFails, WriteResponse, Respond, Looping
  <2>7. CASE HandleOther \/ PostWithoutToken
    BY <2>7 DEF HandleOther, PostWithoutToken, Respond, Looping
  <2>8. ASSUME NEW c \in Requests \cup NoRequests, Accept(c) PROVE Ends
    BY <2>8 DEF Accept, Looping
  <2>9. CASE AcceptFails \/ Tick \/ SetWallClock
    BY <2>9 DEF AcceptFails, Tick, SetWallClock, Looping
  <2> QED
    BY <2>2, <2>3, <2>4, <2>5, <2>6, <2>7, <2>8, <2>9 DEF Next, Serve
<1> QED
  BY <1>1, CeremonyHolds, PTL DEF Spec, OnlyTokenConsumes

\* Opening the page again extends nothing and makes no token (the state check
\* of handle_get).
THEOREM OneOpening == Spec => WindowNeverExtended
<1>1. TypeOK /\ CeremonyInv /\ [Next]_vars
        => [opened # Unread =>
               UNCHANGED <<opened, expires_at, signed_deadline, csrf>>]_vars
  <2> SUFFICES ASSUME TypeOK, CeremonyInv, Next, opened # Unread
               PROVE  UNCHANGED <<opened, expires_at, signed_deadline, csrf>>
    OBVIOUS
  <2> USE DEF ceremony, history
  <2>1. CASE handle_get
    <3>1. state # "AwaitingOpen"
      BY <2>1 DEF handle_get, Transition, CeremonyInv, Looping
    <3> QED
      BY <2>1, <3>1 DEF handle_get
  <2>2. CASE handle_post
    BY <2>2 DEF handle_post, Return, Submit
  <2> QED
    BY <2>1, <2>2
    DEF Next, Serve, Tick, SetWallClock, Accept, AcceptFails, AcceptTimeout,
        ReadFails, TransitionTooLate, HandleOther, PostWithoutToken,
        WriteResponse, Issue, Return
<1> QED
  BY <1>1, CeremonyHolds, PTL DEF Spec, WindowNeverExtended
=============================================================================
