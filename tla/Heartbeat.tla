------------------------------ MODULE Heartbeat ------------------------------
(***************************************************************************)
(* How a bridge keeps its device known to the control plane.  Two loops,   *)
(* the heartbeat and the event stream, use one device token; when it is    *)
(* rejected they share one recovery, which takes the token another process *)
(* of the device has saved or registers again with the user's key, and one *)
(* budget of time, after which the bridge stops.  The heartbeat also       *)
(* publishes the default route and keeps the health record.                *)
(***************************************************************************)
EXTENDS Integers, FiniteSets

CONSTANTS
    Handles,           \* sessions of the bridge that may become the default route
    None,
    HasUserKey,        \* the bridge was started with the user's key, not with a device token
    Timeout,           \* unrecoverableAuthTimeoutMs, in ticks of the clock
    FailureThreshold,  \* heartbeatFailureThreshold
    MaxTokens,         \* bound: device tokens minted
    MaxFaults          \* bound: network failures, routes asked for

VARIABLES
    own, file, valid, minted,    \* token in use, in the credentials file, accepted (0: none), the newest
    userKey,                     \* the user's key is accepted
    rotation,                    \* a token another process of the device has and will save
    recovering, waiters, fresh,  \* #authenticationRecovery, who awaits it, a recovery within the grace
    hb, ev,                      \* the loops: where they are and the token their request carries
    budget, reported, good,      \* age of the first failure; fatal was reported; age of the last recorded success
    health,                      \* [status, failures] as persisted
    pending, captured, published, \* default route: to be published, in flight, at the control plane
    stopped, fatal,              \* the bridge is stopping; onFatalError has been called
    faults

tokens == <<own, file, valid, minted, userKey, rotation>>
recovery == <<recovering, waiters, fresh>>
age == <<budget, reported, good>>
route == <<pending, captured, published>>
vars == <<tokens, recovery, hb, ev, age, health, route, stopped, fatal, faults>>

Loops == {"hb", "ev"}
Tokens == 0 .. MaxTokens
Ages == 0 .. Timeout
Statuses == {"starting", "healthy", "degraded", "unhealthy", "stopped"}

TypeOK ==
    /\ {own, file, valid, minted} \subseteq Tokens /\ rotation \in Tokens \cup {None}
    /\ recovering \in BOOLEAN /\ waiters \subseteq Loops /\ fresh \in BOOLEAN
    /\ hb.pc \in {"waiting", "beating", "recovering", "publishing"} /\ hb.token \in Tokens
    /\ ev.pc \in {"waiting", "connecting", "streaming", "recovering"} /\ ev.token \in Tokens
    /\ budget \in Ages \cup {None} /\ good \in Ages
    /\ health.status \in Statuses /\ health.failures \in 0 .. FailureThreshold
    /\ {pending, captured, published} \subseteq Handles \cup {None}

\* A loop that has no request under way.
At(pc) == [pc |-> pc, token |-> 0]

Init ==
    /\ own = 1 /\ file = 1 /\ valid = 1 /\ minted = 1 /\ userKey = HasUserKey /\ rotation = None
    /\ recovering = FALSE /\ waiters = {} /\ fresh = FALSE
    /\ hb = At("waiting") /\ ev = At("waiting")
    /\ budget = None /\ reported = FALSE /\ good = 0
    /\ health = [status |-> "starting", failures |-> 0]
    /\ pending \in Handles /\ captured = None /\ published = None
    /\ stopped = FALSE /\ fatal = FALSE /\ faults = 0

Fault == faults < MaxFaults /\ faults' = faults + 1

-----------------------------------------------------------------------------
(* The device's credentials, outside this bridge. *)

\* Another process of the device registers: the old token is no longer accepted.
Rotate ==
    /\ rotation = None /\ minted < MaxTokens
    /\ minted' = minted + 1 /\ valid' = minted + 1 /\ rotation' = minted + 1
    /\ UNCHANGED <<own, file, userKey, recovery, hb, ev, age, health, route, stopped, fatal, faults>>

\* saveSavedCredentials renames a whole file into place.
SaveRotated ==
    /\ rotation # None
    /\ file' = rotation /\ rotation' = None
    /\ UNCHANGED <<own, valid, minted, userKey, recovery, hb, ev, age, health, route, stopped, fatal, faults>>

\* The device is revoked, or the user's key.
Revoke ==
    /\ \/ valid' = 0 /\ valid # 0 /\ UNCHANGED userKey
       \/ userKey /\ userKey' = FALSE /\ UNCHANGED valid
    /\ UNCHANGED <<own, file, minted, rotation, recovery, hb, ev, age, health, route, stopped, fatal, faults>>

\* Time passes; ages above the timeout are all alike.
Older(a) == IF a = None THEN None ELSE IF a < Timeout THEN a + 1 ELSE a
Tick ==
    /\ fresh' = FALSE
    /\ budget' = Older(budget) /\ good' = Older(good)
    /\ UNCHANGED <<tokens, recovering, waiters, hb, ev, reported, health, route, stopped, fatal, faults>>

-----------------------------------------------------------------------------
(* AuthenticationFailureBudget. *)

\* As if a success left the time of the first failure as it is.
RecoveryKeepsBudget == good' = 0 /\ UNCHANGED <<budget, reported>>

RecordRecovery == budget' = None /\ reported' = FALSE /\ good' = 0

\* recordFailure; the first failure beyond the timeout stops the bridge, and only that one.
RecordFailure ==
    LET since == IF budget = None THEN 0 ELSE budget
        expired == ~reported /\ since >= Timeout
    IN /\ budget' = since
       /\ reported' = (reported \/ expired)
       /\ fatal' = (fatal \/ expired)
       /\ stopped' = (stopped \/ expired)
       /\ UNCHANGED good

-----------------------------------------------------------------------------
(* HeartbeatWatchdog. *)

HeartbeatSucceeded == health' \in {[status |-> s, failures |-> 0] : s \in {"healthy", "degraded"}}

\* Failures above the threshold are all alike.
HeartbeatFailed ==
    LET n == IF health.failures < FailureThreshold THEN health.failures + 1 ELSE FailureThreshold IN
    health' = [status |-> IF n >= FailureThreshold THEN "unhealthy" ELSE "degraded", failures |-> n]

-----------------------------------------------------------------------------
(* recoverAuthentication. *)

\* The result reaches loop l in its catch block; the heartbeat then waits for its next beat.
Back(l, recovered) ==
    /\ IF recovered THEN RecordRecovery /\ UNCHANGED <<stopped, fatal>> ELSE RecordFailure

\* 401: join the recovery in flight, repeat one within the grace, take the saved token, or register.
Recover(l) ==
    /\ (IF l = "hb" THEN hb.pc ELSE ev.pc) = "recovering" /\ l \notin waiters
    /\ \/ /\ recovering
          /\ waiters' = waiters \cup {l}
          /\ UNCHANGED <<own, recovering, fresh, hb, ev, age, health, stopped, fatal>>
       \/ /\ ~recovering /\ ~fresh /\ file = own /\ HasUserKey
          /\ recovering' = TRUE /\ waiters' = {l}
          /\ UNCHANGED <<own, fresh, hb, ev, age, health, stopped, fatal>>
       \/ /\ ~recovering /\ (fresh \/ file # own \/ ~HasUserKey)
          /\ own' = IF fresh THEN own ELSE file
          /\ fresh' = (fresh \/ file # own)
          /\ Back(l, fresh')
          /\ hb' = IF l = "hb" THEN At("waiting") ELSE hb
          /\ ev' = IF l = "ev" THEN At("waiting") ELSE ev
          /\ IF l = "hb" THEN HeartbeatFailed ELSE UNCHANGED health
          /\ UNCHANGED <<recovering, waiters>>
    /\ UNCHANGED <<file, valid, minted, userKey, rotation, route, faults>>

\* The registration is answered, for every loop that awaits it: a new token, used and then saved
\* (saving it may throw), or none, because it was refused or its answer was lost.
Registered ==
    /\ recovering
    /\ recovering' = FALSE /\ waiters' = {}
    /\ \/ /\ userKey /\ minted < MaxTokens
          /\ minted' = minted + 1 /\ valid' = minted + 1
          /\ \/ /\ own' = minted + 1 /\ file' = minted + 1 /\ fresh' = TRUE
                /\ RecordRecovery /\ UNCHANGED <<stopped, fatal>>
             \/ /\ own' \in {own, minted + 1} /\ UNCHANGED <<file, fresh>>
                /\ RecordFailure
       \/ /\ ~userKey
          /\ RecordFailure
          /\ UNCHANGED <<own, file, valid, minted, fresh>>
    /\ hb' = IF "hb" \in waiters THEN At("waiting") ELSE hb
    /\ ev' = IF "ev" \in waiters THEN At("waiting") ELSE ev
    /\ IF "hb" \in waiters THEN HeartbeatFailed ELSE UNCHANGED health
    /\ UNCHANGED <<userKey, rotation, route, faults>>

-----------------------------------------------------------------------------
(* runHeartbeat. *)

Beat ==
    /\ hb.pc = "waiting" /\ ~stopped
    /\ hb' = [pc |-> "beating", token |-> own]
    /\ UNCHANGED <<tokens, recovery, ev, age, health, route, stopped, fatal, faults>>

\* A timeout or a broken connection is tried once more, with the token of that moment.
BeatAgain ==
    /\ Fault
    /\ hb.pc = "beating"
    /\ hb' = [hb EXCEPT !.token = own]
    /\ UNCHANGED <<tokens, recovery, ev, age, health, route, stopped, fatal>>

\* After a beat, whatever became of it but for a 401, the pending route is published.
AfterBeat ==
    IF pending # None /\ ~stopped
    THEN hb' = At("publishing") /\ captured' = pending
    ELSE hb' = At("waiting") /\ UNCHANGED captured

Beaten ==
    /\ hb.pc = "beating" /\ hb.token = valid
    /\ RecordRecovery /\ HeartbeatSucceeded /\ AfterBeat
    /\ UNCHANGED <<tokens, recovery, ev, pending, published, stopped, fatal, faults>>

BeatLost ==
    /\ Fault
    /\ hb.pc = "beating"
    /\ HeartbeatFailed /\ AfterBeat
    /\ UNCHANGED <<tokens, recovery, ev, age, pending, published, stopped, fatal>>

BeatRejected ==
    /\ hb.pc = "beating" /\ hb.token # valid
    /\ hb' = At("recovering")
    /\ UNCHANGED <<tokens, recovery, ev, age, health, route, stopped, fatal, faults>>

\* setDefaultRoute is answered: the pending route is cleared, whichever it is by now.
RoutePublished ==
    /\ hb.pc = "publishing"
    /\ published' = captured /\ pending' = None /\ captured' = None
    /\ hb' = At("waiting")
    /\ UNCHANGED <<tokens, recovery, ev, age, health, stopped, fatal, faults>>

RouteNotPublished ==
    /\ Fault
    /\ hb.pc = "publishing"
    /\ captured' = None
    /\ hb' = At("waiting")
    /\ UNCHANGED <<tokens, recovery, ev, age, health, pending, published, stopped, fatal>>

-----------------------------------------------------------------------------
(* runEvents, as far as the connection goes. *)

Connect ==
    /\ ev.pc = "waiting" /\ ~stopped
    /\ ev' = [pc |-> "connecting", token |-> own]
    /\ UNCHANGED <<tokens, recovery, hb, age, health, route, stopped, fatal, faults>>

Connected ==
    /\ ev.pc = "connecting"
    /\ ev' = At(IF ev.token = valid THEN "streaming" ELSE "recovering")
    /\ UNCHANGED <<tokens, recovery, hb, age, health, route, stopped, fatal, faults>>

\* The stream ends, cleanly or not.
Disconnected ==
    /\ Fault
    /\ ev.pc \in {"connecting", "streaming"}
    /\ ev' = At("waiting")
    /\ UNCHANGED <<tokens, recovery, hb, age, health, route, stopped, fatal>>

\* A grant ended whose session is to be the default route again.
RouteAsked(h) ==
    /\ Fault
    /\ ev.pc = "streaming"
    /\ pending' = h
    /\ UNCHANGED <<tokens, recovery, hb, ev, age, health, captured, published, stopped, fatal>>

\* stop(): the signal is set, the record says so, and the loops end after what they await.
Stop ==
    /\ ~stopped \/ (fatal /\ health.status # "stopped")
    /\ stopped' = TRUE
    /\ health' = [health EXCEPT !.status = "stopped"]
    /\ UNCHANGED <<tokens, recovery, hb, ev, age, route, fatal, faults>>

Next ==
    \/ Rotate \/ SaveRotated \/ Revoke \/ Tick
    \/ \E l \in Loops : Recover(l)
    \/ Registered \/ Beat \/ BeatAgain \/ Beaten \/ BeatLost \/ BeatRejected
    \/ RoutePublished \/ RouteNotPublished \/ Connect \/ Connected \/ Disconnected
    \/ \E h \in Handles : RouteAsked(h)
    \/ Stop

Fairness ==
    /\ WF_vars(Tick) /\ WF_vars(SaveRotated) /\ WF_vars(Registered)
    /\ \A l \in Loops : WF_vars(Recover(l))
    /\ WF_vars(Beat) /\ WF_vars(Beaten) /\ WF_vars(BeatRejected)
    /\ WF_vars(Connect) /\ WF_vars(Connected) /\ WF_vars(RoutePublished)

Spec == Init /\ [][Next]_vars /\ Fairness

-----------------------------------------------------------------------------
(* Properties. *)

\* The bridge gives up only when nothing has succeeded for the whole timeout, although either
\* loop may have started the budget and either may have reset it.
FatalIsDeserved == [][~fatal /\ fatal' => good = Timeout]_vars

\* Credentials that stay dead end the bridge: neither loop's retries keep it alive.
Dead == valid = 0 /\ rotation = None /\ ~userKey
DeadCredentialsAreFatal == []<>(Dead => stopped)

=============================================================================
