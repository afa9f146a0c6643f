---------------------------- MODULE Supervision ----------------------------
(***************************************************************************)
(* How the decoder process keeps itself working: the main thread connects, *)
(* bootstraps, loops and retries with growing delays; a watchdog thread    *)
(* ends the process when the main thread stands still; systemd ends it     *)
(* when the whole process does, and starts it again; the health endpoint   *)
(* says how it stands.                                                     *)
(*                                                                         *)
(* Time is counted in seconds; whoever is due acts before the next second. *)
(* A heartbeat is represented by its age.  A Kiwi that is `answering' does *)
(* so within the second; one that is not may refuse, be silent, or fail.   *)
(* Messages and jobs are those of module Camper, here without order.       *)
(***************************************************************************)
EXTENDS Integers

CONSTANTS StalledMainLoop,   \* kStalledMainLoopSeconds
          StalledControl,    \* kStalledControlSeconds
          WatchdogPeriod,    \* pause of systemd_watchdog
          WatchdogSec,       \* of the systemd unit
          RestartSec,        \* of the systemd unit
          MaxBackoff,        \* longest delay between attempts
          MaxMessages,       \* bound: messages before "monitor", by protocol
          MaxFaults          \* bound: faults and changes of the job

ASSUME SupervisionAssumption ==
    /\ StalledMainLoop \in Nat \ {0} /\ StalledControl \in Nat \ {0}
    /\ WatchdogPeriod \in Nat \ {0} /\ RestartSec \in Nat
    /\ WatchdogSec \in Nat /\ WatchdogPeriod < WatchdogSec
    /\ MaxBackoff \in Nat \ {0}
    /\ MaxMessages \in Nat /\ MaxFaults \in Nat

VARIABLES
    phase,        \* where the main thread is
    due,          \* it has something to do in this second
    loop_age,     \* age of main_loop_heartbeat
    control_age,  \* age of control_response_heartbeat
    kiwi_connected, sessions,
    job,          \* job_ of the camper: idle or good
    backoff,
    remaining,    \* seconds left to sleep, or until systemd starts it again
    messages,     \* received in this bootstrap
    wake,         \* seconds until the watchdog thread wakes
    notified,     \* seconds since systemd was notified
    frozen,       \* the whole process stands still
    \* the Kiwi:
    answering,
    offered,      \* the job it offers: idle, good, or bad if undecodable
    faults,
    \* history:
    answered,     \* seconds since an answer on the connection that lasts
    unserved      \* seconds since an answer or the start of an attempt

kiwi == <<answering, offered, faults>>
threads == <<wake, notified, frozen>>
vars == <<phase, due, loop_age, control_age, kiwi_connected, sessions, job, backoff,
          remaining, messages, threads, kiwi, answered, unserved>>

Never == -1     \* the age of a heartbeat not set
Jobs == {"idle", "good", "bad"}

Blocked == {"connecting", "bootstrap", "reading", "working"}
Camping == {"loop", "reading", "working"}
Phases == Blocked \cup {"loop", "sleeping", "down"}

TypeOK ==
    /\ phase \in Phases
    /\ due \in BOOLEAN
    /\ loop_age \in Nat
    /\ control_age \in Nat \cup {Never}
    /\ kiwi_connected \in {0, 1} /\ sessions \in {0, 1}
    /\ job \in Jobs \ {"bad"}
    /\ backoff \in 1..MaxBackoff
    /\ remaining \in Nat
    /\ messages \in 0..MaxMessages
    /\ wake \in 0..WatchdogPeriod
    /\ notified \in 0..WatchdogSec
    /\ frozen \in BOOLEAN
    /\ answering \in BOOLEAN
    /\ offered \in Jobs
    /\ faults \in 0..MaxFaults
    /\ answered \in Nat \cup {Never}
    /\ unserved \in Nat

Init ==
    /\ phase = "connecting" /\ due = FALSE
    /\ loop_age = 0 /\ control_age = Never
    /\ kiwi_connected = 0 /\ sessions = 0 /\ job = "idle"
    /\ backoff = 1 /\ remaining = 0 /\ messages = 0
    /\ wake = WatchdogPeriod /\ notified = 0 /\ frozen = FALSE
    /\ answering \in BOOLEAN /\ offered \in Jobs /\ faults = 0
    /\ answered = Never /\ unserved = 0

Up == phase # "down"
Runs(p) == phase = p /\ ~frozen

------------------------------------------------------------------------------
(* The main thread.                                                        *)

\* Mutant: keeps the heartbeat of the connection that failed.
KeepControlHeartbeat == control_age

ResetControlHeartbeat == Never

\* Mutant: doubles without a limit.
DoubleForever == backoff * 2

NextBackoff == IF backoff * 2 < MaxBackoff THEN backoff * 2 ELSE MaxBackoff

\* What main does when the camper throws: the delay has up to half a second
\* of jitter, which may reach into one more second.
Fail ==
    /\ phase' = "sleeping" /\ due' = FALSE
    /\ loop_age' = 0
    /\ control_age' = ResetControlHeartbeat
    /\ kiwi_connected' = 0 /\ sessions' = 0
    /\ job' = "idle"    \* of the next camper
    /\ remaining' \in {backoff, backoff + 1}
    /\ backoff' = NextBackoff
    /\ answered' = Never
    /\ UNCHANGED <<messages, unserved>>

\* Mutant: one sleep for the whole delay, progress only behind it.
SleepWithoutProgress == UNCHANGED loop_age

MarkProgress == loop_age' = 0

\* The delay is slept in slices of a second.
Sleep ==
    /\ Runs("sleeping") /\ due
    /\ due' = FALSE
    /\ remaining' = remaining - 1
    /\ MarkProgress
    /\ UNCHANGED <<phase, control_age, kiwi_connected, sessions, job, backoff,
                   messages, threads, kiwi, answered, unserved>>

\* A new camper; it connects and shakes hands, blocking.
Attempt ==
    /\ Runs("sleeping") /\ remaining = 0
    /\ phase' = "connecting"
    /\ loop_age' = 0
    /\ unserved' = 0
    /\ UNCHANGED <<due, control_age, kiwi_connected, sessions, job, backoff, remaining,
                   messages, threads, kiwi, answered>>

ConnectFails ==
    /\ Runs("connecting") /\ ~answering
    /\ Fail
    /\ UNCHANGED <<threads, kiwi>>

Connect ==
    /\ Runs("connecting") /\ answering
    /\ phase' = "bootstrap"
    /\ loop_age' = 0
    /\ kiwi_connected' = 1
    /\ messages' = 0
    /\ UNCHANGED <<due, control_age, sessions, job, backoff, remaining, threads, kiwi,
                   answered, unserved>>

\* receive_one, blocking, with a message that is not "monitor".
ReceiveOther ==
    /\ Runs("bootstrap") /\ messages < MaxMessages
    /\ messages' = messages + 1
    /\ loop_age' = 0
    /\ UNCHANGED <<phase, due, control_age, kiwi_connected, sessions, job, backoff,
                   remaining, threads, kiwi, answered, unserved>>

\* Mutant: only the answer to a poll is one.
NotAnAnswer == UNCHANGED control_age

mark_control_response == control_age' = 0

\* "monitor" ends the bootstrap and counts as an answer.
Monitor ==
    /\ Runs("bootstrap") /\ answering
    /\ phase' = "loop" /\ due' = TRUE
    /\ loop_age' = 0
    /\ mark_control_response
    /\ answered' = 0 /\ unserved' = 0
    /\ UNCHANGED <<kiwi_connected, sessions, job, backoff, remaining, messages,
                   threads, kiwi>>

control_response_stale(age) == age = Never \/ age > StalledControl

\* Passes of the loop in one second: polls, and leaves a Kiwi that does not
\* answer, whatever else it sends.
Loop ==
    /\ Runs("loop") /\ due
    /\ IF control_response_stale(control_age)
       THEN Fail
       ELSE /\ due' = FALSE
            /\ loop_age' = 0
            /\ UNCHANGED <<phase, control_age, kiwi_connected, sessions, job, backoff,
                           remaining, messages, answered, unserved>>
    /\ UNCHANGED <<threads, kiwi>>

\* The answer to a poll; apply_job of a job for which there is no back end
\* throws, as does a malformed one.
Respond ==
    /\ Runs("loop") /\ ~due /\ answering /\ control_age > 0
    /\ IF offered = "bad"
       THEN Fail
       ELSE /\ loop_age' = 0 /\ control_age' = 0
            /\ job' = offered
            /\ sessions' = IF offered = job THEN sessions
                           ELSE IF offered = "good" THEN 1 ELSE 0
            /\ answered' = 0 /\ unserved' = 0
            /\ UNCHANGED <<phase, due, kiwi_connected, backoff, remaining, messages>>
    /\ UNCHANGED <<threads, kiwi>>

\* camp_disconnect drops the back end and leaves the job.
LoseCamp ==
    /\ Runs("loop") /\ sessions = 1
    /\ sessions' = 0
    /\ loop_age' = 0
    /\ UNCHANGED <<phase, due, control_age, kiwi_connected, job, backoff, remaining,
                   messages, threads, kiwi, answered, unserved>>

\* A blocking read or a packet's decoding comes to its end.
Resume ==
    /\ Runs("reading") \/ Runs("working")
    /\ phase' = "loop" /\ due' = TRUE
    /\ loop_age' = 0
    /\ UNCHANGED <<control_age, kiwi_connected, sessions, job, backoff, remaining,
                   messages, threads, kiwi, answered, unserved>>

\* The connection is lost and the thread notices.
ConnectionLost ==
    /\ Runs("bootstrap") \/ Runs("loop") \/ Runs("reading")
    /\ ~answering
    /\ Fail
    /\ UNCHANGED <<threads, kiwi>>

------------------------------------------------------------------------------
(* Watchdog thread, health thread and systemd.                             *)

Exit ==
    /\ phase' = "down" /\ due' = FALSE
    /\ kiwi_connected' = 0 /\ sessions' = 0 /\ job' = "idle"
    /\ control_age' = Never /\ answered' = Never
    /\ remaining' = RestartSec
    /\ frozen' = FALSE
    /\ UNCHANGED <<loop_age, backoff, messages, wake, notified, unserved>>

systemd_watchdog ==
    /\ Up /\ ~frozen /\ wake = 0
    /\ IF loop_age <= StalledMainLoop
       THEN /\ notified' = 0 /\ wake' = WatchdogPeriod
            /\ UNCHANGED <<phase, due, loop_age, control_age, kiwi_connected, sessions,
                           job, backoff, remaining, messages, frozen, answered, unserved>>
       ELSE Exit
    /\ UNCHANGED kiwi

SystemdKills ==
    /\ Up /\ notified = WatchdogSec
    /\ Exit
    /\ UNCHANGED kiwi

\* Restart=on-failure: a new process, which remembers nothing.
Restart ==
    /\ phase = "down" /\ remaining = 0
    /\ phase' = "connecting"
    /\ loop_age' = 0
    /\ backoff' = 1 /\ messages' = 0
    /\ wake' = WatchdogPeriod /\ notified' = 0
    /\ unserved' = 0
    /\ UNCHANGED <<due, control_age, kiwi_connected, sessions, job, remaining, frozen,
                   kiwi, answered>>

\* What health_server reports as "ok".
Healthy ==
    /\ Up /\ ~frozen
    /\ loop_age <= StalledMainLoop
    /\ ~control_response_stale(control_age)
    /\ kiwi_connected # 0

------------------------------------------------------------------------------
(* Time and faults.                                                        *)

KiwiDue ==
    /\ answering
    /\ \/ phase \in {"connecting", "bootstrap"}
       \/ phase = "loop" /\ control_age > 0

Older(age) == IF age = Never THEN Never ELSE age + 1

Tick ==
    /\ IF phase = "down" THEN remaining > 0
       ELSE IF frozen THEN notified < WatchdogSec
       ELSE ~due /\ ~KiwiDue /\ wake > 0 /\ notified < WatchdogSec
            /\ (phase = "sleeping" => remaining > 0)
    /\ due' = (due \/ phase \in {"loop", "sleeping"})
    /\ remaining' = IF phase = "down" THEN remaining - 1 ELSE remaining
    /\ loop_age' = IF Up THEN loop_age + 1 ELSE loop_age
    /\ control_age' = Older(control_age)
    /\ wake' = IF Up /\ wake > 0 THEN wake - 1 ELSE wake
    /\ notified' = IF Up THEN notified + 1 ELSE notified
    /\ answered' = Older(answered)
    /\ unserved' = unserved + 1
    /\ UNCHANGED <<phase, kiwi_connected, sessions, job, backoff, messages, frozen, kiwi>>

Fault == faults < MaxFaults /\ faults' = faults + 1

mainVars == <<phase, due, loop_age, control_age, kiwi_connected, sessions, job, backoff,
              remaining, messages, answered, unserved>>

KiwiChanges ==
    /\ Fault
    /\ \/ answering' = ~answering /\ UNCHANGED offered
       \/ offered' \in Jobs \ {offered} /\ UNCHANGED answering
    /\ UNCHANGED <<mainVars, threads>>

\* A frame of which the rest does not come, or a packet that takes long.
Block ==
    /\ Fault
    /\ Runs("loop") /\ ~due
    /\ \/ phase' = "reading" /\ UNCHANGED loop_age
       \/ sessions = 1 /\ phase' = "working" /\ loop_age' = 0
    /\ UNCHANGED <<due, control_age, kiwi_connected, sessions, job, backoff, remaining,
                   messages, threads, answering, offered, answered, unserved>>

\* The process is stopped, or gets no processor.
Freeze ==
    /\ Fault
    /\ Up /\ ~frozen /\ frozen' = TRUE
    /\ UNCHANGED <<mainVars, wake, notified, answering, offered>>

\* The health thread fails and ends the process.
HealthServerFails ==
    /\ Fault
    /\ Up /\ ~frozen
    /\ Exit
    /\ UNCHANGED <<answering, offered>>

Main == Sleep \/ Attempt \/ ConnectFails \/ Connect \/ ReceiveOther \/ Monitor
        \/ Loop \/ Respond \/ LoseCamp \/ Resume \/ ConnectionLost

Next ==
    \/ Main
    \/ systemd_watchdog \/ SystemdKills \/ Restart
    \/ Tick
    \/ KiwiChanges \/ Block \/ Freeze \/ HealthServerFails

\* Time passes, threads that are due run, and an answering Kiwi answers.
\* Nothing makes a blocked read, connect or decode end by itself.
Spec ==
    /\ Init /\ [][Next]_vars
    /\ WF_vars(Tick)
    /\ WF_vars(Sleep \/ Attempt \/ Loop)
    /\ WF_vars(Connect \/ Monitor \/ Respond)
    /\ WF_vars(systemd_watchdog \/ SystemdKills \/ Restart)

------------------------------------------------------------------------------
(* Properties.                                                             *)

\* The endpoint says "ok" only while this connection has given an answer
\* lately, not one before it, and it counts a session only while a camper is
\* connected to decode it.
HealthTruthful ==
    /\ Healthy => answered \in 0..StalledControl
    /\ sessions = 1 => phase \in Camping /\ job = "good"

\* The watchdog ends the process only while the main thread is blocked in one
\* read, connect or packet: never while it loops, and never while it waits to
\* try again, which may take longer than the watchdog allows.
KilledOnlyWhileBlocked ==
    [][systemd_watchdog /\ ~Up' => phase \in Blocked]_vars

\* However the Kiwi, the network and the process fail, the next attempt
\* begins or an answer comes in bounded time.
AttemptsGoOn ==
    unserved <= (MaxMessages + 2) * (StalledMainLoop + WatchdogPeriod)
                + StalledControl + MaxBackoff + WatchdogSec + RestartSec

\* When faults end, with a Kiwi that answers and a job that can be decoded,
\* the decoder becomes healthy and stays so.
Recovers == <>[](answering /\ offered # "bad") => <>[]Healthy
==============================================================================
