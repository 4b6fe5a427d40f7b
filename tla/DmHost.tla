------------------------------- MODULE DmHost -------------------------------
(***************************************************************************)
(* The processes of the DM agent that share one state directory: the lock   *)
(* that admits one of them (lock.js), and the restart by which an agent     *)
(* that cannot reach Aicoo replaces itself (reachability.js), limited       *)
(* across the processes by what the state file remembers.                   *)
(*                                                                         *)
(* Synchronous code is one step, except that another process may run        *)
(* between any two of its file accesses: the lock is read, then written.    *)
(***************************************************************************)
EXTENDS Integers, Sequences, FiniteSets

CONSTANTS
    Pids,
    Nobody,
    RestartAfter,  \* time down before the process is replaced
    MinRestartGap, \* restarts are at least this far apart
    RateWindow,    \* and within such a window there are at most
    MaxRestarts,   \* this many
    MaxTime,       \* bound: the time
    MaxLaunches    \* bound: agents the owner starts

VARIABLES
    now,
    proc,       \* each process: where it is, what it read, what it remembers
    lockFile,   \* the pid in agent.lock
    restarts,   \* the restarts in the state file
    launches,
    history,    \* history: the times of all restarts, in order
    raced,      \* history: a lock was written over one that came after the check
    abandoned   \* history: a process released the lock and stayed up

vars == <<now, proc, lockFile, restarts, launches, history, raced, abandoned>>

Never == -1
Off == [at |-> "off"]
Starting == [at |-> "starting"]
Alive(p) == proc[p] # Off
IsUp(p) == proc[p].at = "up"

Init ==
    /\ now = 0
    /\ proc = [p \in Pids |-> Off]
    /\ lockFile = Nobody
    /\ restarts = {}
    /\ launches = 0
    /\ history = <<>>
    /\ raced = FALSE /\ abandoned = FALSE

Tick ==
    /\ now < MaxTime
    /\ now' = now + 1
    /\ UNCHANGED <<proc, lockFile, restarts, launches, history, raced, abandoned>>

-----------------------------------------------------------------------------
(* Starting.                                                                 *)

Launch(p) ==
    /\ proc[p] = Off /\ launches < MaxLaunches
    /\ launches' = launches + 1
    /\ proc' = [proc EXCEPT ![p] = Starting]
    /\ UNCHANGED <<now, lockFile, restarts, history, raced, abandoned>>

\* The lock names another process, and that one still runs.
TakenFrom(p) == lockFile \notin {Nobody, p} /\ Alive(lockFile)

\* Once Aicoo has told the agent who it is, it looks at the lock ...
ReadLock(p) ==
    /\ proc[p] = Starting
    /\ proc' = [proc EXCEPT ![p] = IF TakenFrom(p) THEN Off ELSE [at |-> "claiming", overtaken |-> FALSE]]
    /\ UNCHANGED <<now, lockFile, restarts, launches, history, raced, abandoned>>

\* recentRestarts: what earlier processes have used up of the limits.
Inherited == {t \in restarts : now - t < RateWindow}

Newest(times) == IF times = {} THEN Never ELSE CHOOSE t \in times : \A u \in times : u <= t

\* Whoever is still between looking and writing has not seen this lock.
Overtaken(r) == IF proc[r].at = "claiming" THEN [proc[r] EXCEPT !.overtaken = TRUE] ELSE proc[r]

\* ... and writes it, whoever may have written it since; then it reads the state file.
WriteLock(p) ==
    /\ proc[p].at = "claiming"
    /\ lockFile' = p
    /\ raced' = (raced \/ (proc[p].overtaken /\ lockFile # Nobody))
    /\ proc' = [r \in Pids |->
           IF r = p
           THEN [at |-> "up", locked |-> TRUE, downSince |-> Never, known |-> Inherited, last |-> Newest(Inherited)]
           ELSE Overtaken(r)]
    /\ UNCHANGED <<now, restarts, launches, history, abandoned>>

-----------------------------------------------------------------------------
(* Polling.                                                                  *)

PollOk(p) ==
    /\ IsUp(p) /\ proc[p].downSince # Never
    /\ proc' = [proc EXCEPT ![p].downSince = Never]
    /\ UNCHANGED <<now, lockFile, restarts, launches, history, raced, abandoned>>

\* When the run of failures began.
DownSince(p) == IF proc[p].downSince = Never THEN now ELSE proc[p].downSince

DownLong(p) == now - DownSince(p) >= RestartAfter

Recent(p) == {t \in proc[p].known : now - t < RateWindow}

\* Neither too soon after the last one nor too many lately.
MayRestart(p) ==
    /\ proc[p].last = Never \/ now - proc[p].last >= MinRestartGap
    /\ Cardinality(Recent(p)) < MaxRestarts

PollFails(p) ==
    /\ IsUp(p)
    /\ ~(DownLong(p) /\ MayRestart(p))
    /\ proc[p].downSince = Never
    /\ proc' = [proc EXCEPT ![p].downSince = now]
    /\ UNCHANGED <<now, lockFile, restarts, launches, history, raced, abandoned>>

\* Only our own lock is removed, and only once.
Released(p) == IF proc[p].locked /\ lockFile = p THEN Nobody ELSE lockFile

\* noteRestart: in memory, and in the state file before the process goes away.
Noted(p) ==
    /\ restarts' = Recent(p) \cup {now}
    /\ history' = Append(history, now)

\* The failure that is one too many: the process is replaced by a new one.
Respawn(p, q) ==
    /\ IsUp(p) /\ DownLong(p) /\ MayRestart(p)
    /\ proc[q] = Off
    /\ Noted(p)
    /\ lockFile' = Released(p)
    /\ proc' = [proc EXCEPT ![p] = Off, ![q] = Starting]
    /\ UNCHANGED <<now, launches, raced, abandoned>>

\* The new one cannot be started: this one stays, without its lock.
RespawnFails(p) ==
    /\ IsUp(p) /\ DownLong(p) /\ MayRestart(p)
    /\ Noted(p)
    /\ lockFile' = Released(p)
    /\ proc' = [proc EXCEPT ![p].locked = FALSE, ![p].downSince = now, ![p].last = now,
                            ![p].known = Recent(p) \cup {now}]
    /\ abandoned' = TRUE
    /\ UNCHANGED <<now, launches, raced>>

-----------------------------------------------------------------------------
(* Ending.                                                                   *)

\* Stopped, refused by Aicoo, or the model cannot be reached: the exit handler
\* releases the lock.
Exit(p) ==
    /\ IsUp(p)
    /\ lockFile' = Released(p)
    /\ proc' = [proc EXCEPT ![p] = Off]
    /\ UNCHANGED <<now, restarts, launches, history, raced, abandoned>>

\* Killed: the lock stays behind.
Die(p) ==
    /\ Alive(p)
    /\ proc' = [proc EXCEPT ![p] = Off]
    /\ UNCHANGED <<now, lockFile, restarts, launches, history, raced, abandoned>>

Next ==
    \/ Tick
    \/ \E p \in Pids : \/ Launch(p) \/ ReadLock(p) \/ WriteLock(p)
                       \/ PollOk(p) \/ PollFails(p) \/ RespawnFails(p)
                       \/ \E q \in Pids \ {p} : Respawn(p, q)
                       \/ Exit(p) \/ Die(p)

Spec == Init /\ [][Next]_vars

-----------------------------------------------------------------------------
(* Properties.                                                               *)

Times == 0 .. MaxTime

TypeOK ==
    /\ now \in Times
    /\ \A p \in Pids :
        \/ proc[p] \in {Off, Starting}
        \/ proc[p].at = "claiming" /\ proc[p].overtaken \in BOOLEAN
        \/ IsUp(p) /\ proc[p].downSince \in Times \cup {Never} /\ proc[p].known \subseteq Times
    /\ lockFile \in Pids \cup {Nobody}
    /\ restarts \subseteq Times
    /\ history \in Seq(Times)

\* One agent per state directory, through exits, kills, stale locks and restarts
\* (lock.js:5) - except when two that start together both find no lock, and when
\* one that could not start its replacement has given its lock away.
OneAgent == raced \/ abandoned \/ Cardinality({p \in Pids : IsUp(p)}) <= 1

\* However many processes follow one another, they restart no more often than the
\* limits of one allow (reachability.js:42: "a restart destroys the memory that was
\* supposed to prevent the next one").
RestartsAreLimited ==
    raced \/ abandoned \/
    \A i, j \in 1 .. Len(history) : i < j =>
        /\ history[j] - history[i] >= MinRestartGap
        /\ j - i >= MaxRestarts => history[j] - history[i] >= RateWindow
=============================================================================
