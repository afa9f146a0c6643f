-------------------------- MODULE SupervisionProofs --------------------------
(***************************************************************************)
(* Proofs about Supervision, for every timeout, delay and number of        *)
(* faults: the health endpoint tells the truth, the watchdog ends only a   *)
(* process whose main thread is blocked, and the next attempt or an answer *)
(* comes within a time that is the sum of the timeouts.                    *)
(*                                                                         *)
(* The argument for that time: each phase has a budget (Served), what a    *)
(* blocked phase uses shows in the age of the heartbeat, and the watchdog  *)
(* keeps that age and its own time to wake below a constant (Watched).     *)
(***************************************************************************)
EXTENDS Supervision, TLAPS

\* The longest the main thread blocks before the watchdog ends the process.
Longest == StalledMainLoop + WatchdogPeriod

\* The longest from an answer to the end of the sleep behind a failure.
Budget == (MaxMessages + 2) * Longest + StalledControl + MaxBackoff

Watched ==
    /\ frozen => Up
    /\ ~frozen /\ Up => loop_age + wake <= Longest
    /\ ~frozen /\ phase \in {"loop", "sleeping"} =>
           loop_age <= (IF due THEN 1 ELSE 0)
    /\ ~frozen /\ phase = "sleeping" /\ due => remaining > 0

Truthful ==
    /\ answered = control_age
    /\ phase \in Camping => control_age # Never
    /\ sessions = 1 => phase \in Camping /\ job = "good"

Served ==
    /\ ~frozen =>
           /\ phase = "connecting" => unserved <= loop_age
           /\ phase = "bootstrap" => unserved <= (messages + 1) * Longest + loop_age
           /\ phase = "loop" =>
                  /\ unserved <= control_age
                  /\ control_age <= StalledControl + (IF due THEN Longest ELSE 0)
           /\ phase \in {"reading", "working"} =>
                  /\ unserved <= control_age
                  /\ control_age <= StalledControl + loop_age
           /\ phase = "sleeping" =>
                  unserved + remaining <= Budget + (IF due THEN 1 ELSE 0)
           /\ phase = "down" =>
                  unserved + remaining <= Budget + WatchdogSec + RestartSec
    /\ frozen => unserved <= Budget + notified

SupervisionInvariant == TypeOK /\ Watched /\ Truthful /\ Served

------------------------------------------------------------------------------
\* The timeouts as numbers.
LEMMA Timeouts ==
    /\ StalledMainLoop \in Nat \ {0} /\ StalledControl \in Nat \ {0}
    /\ WatchdogPeriod \in Nat \ {0} /\ RestartSec \in Nat /\ WatchdogSec \in Nat
    /\ MaxBackoff \in Nat \ {0} /\ MaxMessages \in Nat /\ MaxFaults \in Nat
    /\ Longest \in Nat /\ Longest >= 2 /\ Budget \in Nat
    /\ Longest + Longest <= (MaxMessages + 2) * Longest
    /\ \A m \in 0..MaxMessages :
          (m + 1) * Longest \in Nat
          /\ (m + 1) * Longest + Longest <= (MaxMessages + 2) * Longest
<1>1. /\ StalledMainLoop \in Nat \ {0} /\ StalledControl \in Nat \ {0}
      /\ WatchdogPeriod \in Nat \ {0} /\ RestartSec \in Nat /\ WatchdogSec \in Nat
      /\ MaxBackoff \in Nat \ {0} /\ MaxMessages \in Nat /\ MaxFaults \in Nat
  BY SupervisionAssumption
<1>2. Longest \in Nat /\ Longest >= 2
  BY <1>1 DEF Longest
<1>3. ASSUME NEW m \in 0..MaxMessages
      PROVE  /\ (m + 1) * Longest \in Nat
             /\ (m + 1) * Longest + Longest <= (MaxMessages + 2) * Longest
  <2>1. m \in Nat /\ MaxMessages - m \in Nat
    BY <1>1
  <2>2. (m + 1) * Longest \in Nat /\ (MaxMessages - m) * Longest \in Nat
    BY <1>2, <2>1
  <2>3. (MaxMessages + 2) * Longest
            = (m + 1) * Longest + Longest + (MaxMessages - m) * Longest
    BY <1>1, <1>2, <2>1
  <2> QED
    BY <1>2, <2>2, <2>3
<1>4. (MaxMessages + 2) * Longest \in Nat
  BY <1>1, <1>2
<1>5. Budget \in Nat
  BY <1>1, <1>4 DEF Budget
<1>6. Longest + Longest <= (MaxMessages + 2) * Longest
  <2>1. 0 \in 0..MaxMessages /\ (0 + 1) * Longest = Longest
    BY <1>1, <1>2
  <2> QED
    BY <1>3, <2>1
<1> QED
  BY <1>1, <1>2, <1>3, <1>5, <1>6

\* The variables as numbers.
LEMMA Counters ==
    ASSUME TypeOK
    PROVE  /\ loop_age \in Nat /\ remaining \in Nat /\ wake \in Nat
           /\ notified \in Nat /\ notified <= WatchdogSec
           /\ unserved \in Nat /\ messages \in 0..MaxMessages
           /\ backoff \in Nat \ {0} /\ backoff <= MaxBackoff
           /\ control_age \in Nat \cup {-1} /\ due \in BOOLEAN /\ frozen \in BOOLEAN
BY Timeouts DEF TypeOK, Never

\* A failure leaves enough of the budget for the longest sleep.
LEMMA BudgetLeft ==
    ASSUME SupervisionInvariant, ~frozen
    PROVE  /\ phase \in Blocked \cup {"loop"} =>
                 unserved + (MaxBackoff + 1) <= Budget
           /\ Up => unserved <= Budget
<1> USE DEF SupervisionInvariant
<1> DEFINE most == (MaxMessages + 2) * Longest
<1>1. /\ loop_age \in Nat /\ wake \in Nat /\ unserved \in Nat /\ remaining \in Nat
      /\ control_age \in Nat \cup {-1}
      /\ StalledControl \in Nat \ {0} /\ MaxBackoff \in Nat \ {0}
      /\ Longest \in Nat /\ Longest >= 2 /\ Budget \in Nat
      /\ Longest + Longest <= most /\ most \in Int
      /\ Budget = most + StalledControl + MaxBackoff
  BY Counters, Timeouts DEF Budget
<1>2. (messages + 1) * Longest \in Nat /\ (messages + 1) * Longest + Longest <= most
  BY Counters, Timeouts
<1> DEFINE used == (messages + 1) * Longest
<1>3. phase = "bootstrap" => unserved <= used + loop_age
  BY DEF Served
<1> HIDE DEF most, used
<1>4. Up => loop_age <= Longest
  BY <1>1 DEF Watched
<1>5. CASE phase = "connecting"
  BY <1>1, <1>4, <1>5 DEF Served, Up
<1>6. CASE phase = "bootstrap"
  BY <1>1, <1>2, <1>3, <1>4, <1>6 DEF Up, used
<1>7. CASE phase = "loop"
  BY <1>1, <1>4, <1>7 DEF Served, Up
<1>8. CASE phase \in {"reading", "working"}
  BY <1>1, <1>4, <1>8 DEF Served, Up
<1>9. CASE phase = "sleeping"
  BY <1>1, <1>9 DEF Served, Up, Watched, Blocked
<1>10. CASE phase = "down"
  BY <1>10 DEF Up, Blocked
<1> QED
  BY <1>5, <1>6, <1>7, <1>8, <1>9, <1>10 DEF TypeOK, Phases, Blocked

\* A failure of the camper, in whatever phase.
LEMMA FailKeeps ==
    ASSUME SupervisionInvariant, Fail, ~frozen, phase \in Blocked \cup {"loop"},
           UNCHANGED <<threads, kiwi>>
    PROVE  SupervisionInvariant'
<1> USE DEF SupervisionInvariant
<1>1. /\ phase' = "sleeping" /\ due' = FALSE /\ loop_age' = 0 /\ control_age' = -1
      /\ kiwi_connected' = 0 /\ sessions' = 0 /\ job' = "idle"
      /\ remaining' \in {backoff, backoff + 1}
      /\ backoff' = NextBackoff /\ answered' = -1
      /\ UNCHANGED <<messages, unserved, wake, notified, frozen, answering, offered,
                     faults>>
  BY DEF Fail, ResetControlHeartbeat, Never, threads, kiwi
<1>2. /\ backoff \in Nat \ {0} /\ backoff <= MaxBackoff /\ unserved \in Nat
      /\ wake \in Nat /\ Budget \in Nat /\ MaxBackoff \in Nat \ {0}
      /\ unserved + (MaxBackoff + 1) <= Budget
  BY Counters, Timeouts, BudgetLeft
<1>3. backoff' \in 1..MaxBackoff /\ remaining' \in Nat
  BY <1>1, <1>2 DEF NextBackoff
<1>4. TypeOK'
  <2>1. "sleeping" \in Phases /\ "idle" \in Jobs \ {"bad"} /\ -1 \in Nat \cup {Never}
    BY DEF Phases, Jobs, Never
  <2> QED
    BY <1>1, <1>3, <2>1 DEF TypeOK
<1>5. Watched'
  <2>1. wake <= Longest
    <3>1. wake <= WatchdogPeriod
      BY Timeouts DEF TypeOK
    <3> QED
      BY <1>2, <3>1, Timeouts DEF Longest
  <2> QED
    BY <1>1, <1>2, <2>1 DEF Watched
<1>6. Truthful'
  BY <1>1 DEF Truthful, Camping
<1>7. Served'
  <2>1. PICK delay \in {backoff, backoff + 1} : remaining' = delay
    BY <1>1
  <2>2. unserved + delay <= Budget /\ unserved + delay \in Nat
    BY <1>2
  <2>3. due' = FALSE /\ frozen' = FALSE /\ phase' = "sleeping"
    BY <1>1 DEF TypeOK
  <2> QED
    BY <1>1, <1>2, <2>1, <2>2, <2>3 DEF Served
<1> QED
  BY <1>4, <1>5, <1>6, <1>7

\* The process ends, in whatever phase.
LEMMA ExitKeeps ==
    ASSUME SupervisionInvariant, Exit, Up,
           UNCHANGED <<answering, offered>>, faults' \in 0..MaxFaults
    PROVE  SupervisionInvariant'
<1> USE DEF SupervisionInvariant
<1>1. /\ phase' = "down" /\ due' = FALSE /\ control_age' = -1 /\ answered' = -1
      /\ kiwi_connected' = 0 /\ sessions' = 0 /\ job' = "idle"
      /\ remaining' = RestartSec /\ frozen' = FALSE
      /\ UNCHANGED <<loop_age, backoff, messages, wake, notified, unserved>>
  BY DEF Exit, Never
<1>2. /\ unserved \in Nat /\ notified \in Nat /\ notified <= WatchdogSec
      /\ Budget \in Nat /\ WatchdogSec \in Nat /\ RestartSec \in Nat
  BY Counters, Timeouts
<1>3. unserved <= Budget + WatchdogSec
  <2>1. CASE frozen
    BY <1>2, <2>1 DEF Served
  <2>2. CASE ~frozen
    BY <1>2, <2>2, BudgetLeft
  <2> QED
    BY <2>1, <2>2
<1>4. TypeOK'
  BY <1>1, <1>2 DEF TypeOK, Phases, Never, Jobs
<1>5. Watched' /\ Truthful'
  BY <1>1 DEF Watched, Truthful, Camping, Up
<1>6. Served'
  BY <1>1, <1>2, <1>3 DEF Served
<1> QED
  BY <1>4, <1>5, <1>6

------------------------------------------------------------------------------
(* The main thread.                                                        *)

LEMMA SleepKeeps ==
    ASSUME SupervisionInvariant, Sleep
    PROVE  SupervisionInvariant'
<1> USE DEF SupervisionInvariant
<1>1. /\ phase = "sleeping" /\ frozen = FALSE /\ due = TRUE
      /\ due' = FALSE /\ remaining' = remaining - 1 /\ loop_age' = 0
      /\ UNCHANGED <<phase, control_age, kiwi_connected, sessions, job, backoff,
                     messages, wake, notified, frozen, answering, offered, faults,
                     answered, unserved>>
  BY DEF Sleep, Runs, MarkProgress, threads, kiwi, TypeOK
<1>2. /\ remaining \in Nat \ {0} /\ loop_age \in Nat /\ wake \in Nat
      /\ unserved \in Nat /\ Budget \in Nat /\ Longest \in Nat
      /\ loop_age + wake <= Longest /\ unserved + remaining <= Budget + 1
  BY <1>1, Counters, Timeouts DEF Watched, Served, Up
<1>3. TypeOK'
  <2>1. remaining' \in Nat
    BY <1>1, <1>2
  <2> QED
    BY <1>1, <2>1 DEF TypeOK
<1>4. Watched'
  BY <1>1, <1>2 DEF Watched, Up
<1>5. Truthful'
  BY <1>1 DEF Truthful
<1>6. Served'
  BY <1>1, <1>2 DEF Served
<1> QED
  BY <1>3, <1>4, <1>5, <1>6

LEMMA AttemptKeeps ==
    ASSUME SupervisionInvariant, Attempt
    PROVE  SupervisionInvariant'
<1> USE DEF SupervisionInvariant
<1>1. /\ phase = "sleeping" /\ frozen = FALSE /\ remaining = 0
      /\ phase' = "connecting" /\ loop_age' = 0 /\ unserved' = 0
      /\ UNCHANGED <<due, control_age, kiwi_connected, sessions, job, backoff,
                     remaining, messages, wake, notified, frozen, answering, offered,
                     faults, answered>>
  BY DEF Attempt, Runs, threads, kiwi, TypeOK
<1>2. /\ loop_age \in Nat /\ wake \in Nat /\ Longest \in Nat
      /\ loop_age + wake <= Longest
  BY <1>1, Counters, Timeouts DEF Watched, Up
<1>3. TypeOK'
  BY <1>1 DEF TypeOK, Phases, Blocked
<1>4. Watched'
  BY <1>1, <1>2 DEF Watched, Up
<1>5. Truthful'
  BY <1>1 DEF Truthful, Camping
<1>6. Served'
  BY <1>1 DEF Served
<1> QED
  BY <1>3, <1>4, <1>5, <1>6

LEMMA ConnectKeeps ==
    ASSUME SupervisionInvariant, Connect
    PROVE  SupervisionInvariant'
<1> USE DEF SupervisionInvariant
<1>1. /\ phase = "connecting" /\ frozen = FALSE
      /\ phase' = "bootstrap" /\ loop_age' = 0 /\ kiwi_connected' = 1 /\ messages' = 0
      /\ UNCHANGED <<due, control_age, sessions, job, backoff, remaining, wake,
                     notified, frozen, answering, offered, faults, answered, unserved>>
  BY DEF Connect, Runs, threads, kiwi, TypeOK
<1>2. /\ loop_age \in Nat /\ wake \in Nat /\ Longest \in Nat /\ unserved \in Nat
      /\ loop_age + wake <= Longest /\ unserved <= loop_age
  BY <1>1, Counters, Timeouts DEF Watched, Served, Up
<1>3. TypeOK'
  BY <1>1, Timeouts DEF TypeOK, Phases, Blocked
<1>4. Watched'
  BY <1>1, <1>2 DEF Watched, Up
<1>5. Truthful'
  BY <1>1 DEF Truthful, Camping
<1>6. Served'
  <2>1. (0 + 1) * Longest = Longest
    BY <1>2
  <2>2. unserved <= (0 + 1) * Longest + 0
    BY <1>2, <2>1
  <2> QED
    BY <1>1, <2>2 DEF Served
<1> QED
  BY <1>3, <1>4, <1>5, <1>6

LEMMA ReceiveOtherKeeps ==
    ASSUME SupervisionInvariant, ReceiveOther
    PROVE  SupervisionInvariant'
<1> USE DEF SupervisionInvariant
<1>1. /\ phase = "bootstrap" /\ frozen = FALSE /\ messages < MaxMessages
      /\ messages' = messages + 1 /\ loop_age' = 0
      /\ UNCHANGED <<phase, due, control_age, kiwi_connected, sessions, job, backoff,
                     remaining, wake, notified, frozen, answering, offered, faults,
                     answered, unserved>>
  BY DEF ReceiveOther, Runs, threads, kiwi, TypeOK
<1>2. /\ loop_age \in Nat /\ wake \in Nat /\ Longest \in Nat /\ unserved \in Nat
      /\ messages \in Nat /\ MaxMessages \in Nat
      /\ loop_age + wake <= Longest
      /\ unserved <= (messages + 1) * Longest + loop_age
  BY <1>1, Counters, Timeouts DEF Watched, Served, Up
<1>3. TypeOK'
  BY <1>1, <1>2 DEF TypeOK
<1>4. Watched'
  BY <1>1, <1>2 DEF Watched, Up
<1>5. Truthful'
  BY <1>1 DEF Truthful
<1>6. Served'
  <2>1. ((messages + 1) + 1) * Longest = (messages + 1) * Longest + Longest
    BY <1>2
  <2>2. (messages + 1) * Longest \in Nat
    BY <1>2
  <2>3. unserved <= ((messages + 1) + 1) * Longest + 0
    BY <1>2, <2>1, <2>2
  <2> QED
    BY <1>1, <2>3 DEF Served
<1> QED
  BY <1>3, <1>4, <1>5, <1>6

LEMMA MonitorKeeps ==
    ASSUME SupervisionInvariant, Monitor
    PROVE  SupervisionInvariant'
<1> USE DEF SupervisionInvariant
<1>1. /\ phase = "bootstrap" /\ frozen = FALSE
      /\ phase' = "loop" /\ due' = TRUE /\ loop_age' = 0 /\ control_age' = 0
      /\ answered' = 0 /\ unserved' = 0
      /\ UNCHANGED <<kiwi_connected, sessions, job, backoff, remaining, messages, wake,
                     notified, frozen, answering, offered, faults>>
  BY DEF Monitor, Runs, mark_control_response, threads, kiwi, TypeOK
<1>2. /\ loop_age \in Nat /\ wake \in Nat /\ Longest \in Nat
      /\ StalledControl \in Nat \ {0} /\ loop_age + wake <= Longest
  BY <1>1, Counters, Timeouts DEF Watched, Up
<1>3. TypeOK'
  BY <1>1 DEF TypeOK, Phases
<1>4. Watched'
  BY <1>1, <1>2 DEF Watched, Up
<1>5. Truthful'
  BY <1>1 DEF Truthful, Camping, Never
<1>6. Served'
  BY <1>1, <1>2 DEF Served
<1> QED
  BY <1>3, <1>4, <1>5, <1>6

\* What the ages are while the main thread loops.
LEMMA Looping ==
    ASSUME SupervisionInvariant, phase = "loop", frozen = FALSE
    PROVE  /\ loop_age \in Nat /\ wake \in Nat /\ Longest \in Nat /\ unserved \in Nat
           /\ control_age \in Nat /\ StalledControl \in Nat \ {0}
           /\ loop_age + wake <= Longest
           /\ unserved <= control_age
           /\ control_age <= StalledControl + (IF due THEN Longest ELSE 0)
<1> USE DEF SupervisionInvariant
<1>1. control_age \in Nat
  BY Counters DEF Truthful, Camping, Never
<1> QED
  BY <1>1, Counters, Timeouts DEF Watched, Served, Up

LEMMA LoopKeeps ==
    ASSUME SupervisionInvariant, Loop
    PROVE  SupervisionInvariant'
<1>1. phase = "loop" /\ frozen = FALSE /\ due = TRUE
  BY DEF Loop, Runs, SupervisionInvariant, TypeOK
<1>2. CASE control_response_stale(control_age)
  BY <1>1, <1>2, FailKeeps DEF Loop
<1>3. CASE ~control_response_stale(control_age)
  <2> USE DEF SupervisionInvariant
  <2>1. /\ due' = FALSE /\ loop_age' = 0
        /\ UNCHANGED <<phase, control_age, kiwi_connected, sessions, job, backoff,
                       remaining, messages, wake, notified, frozen, answering, offered,
                       faults, answered, unserved>>
    BY <1>3 DEF Loop, threads, kiwi
  <2>2. /\ loop_age \in Nat /\ wake \in Nat /\ Longest \in Nat /\ unserved \in Nat
        /\ control_age \in Nat /\ StalledControl \in Nat \ {0}
        /\ loop_age + wake <= Longest /\ unserved <= control_age
    BY <1>1, Looping
  <2>3. control_age <= StalledControl
    BY <1>3, <2>2 DEF control_response_stale
  <2>4. TypeOK'
    BY <2>1 DEF TypeOK
  <2>5. Watched'
    BY <1>1, <2>1, <2>2 DEF Watched, Up
  <2>6. Truthful'
    BY <2>1 DEF Truthful
  <2>7. Served'
    BY <1>1, <2>1, <2>2, <2>3 DEF Served
  <2> QED
    BY <2>4, <2>5, <2>6, <2>7
<1> QED
  BY <1>2, <1>3

LEMMA RespondKeeps ==
    ASSUME SupervisionInvariant, Respond
    PROVE  SupervisionInvariant'
<1>1. phase = "loop" /\ frozen = FALSE /\ due = FALSE
  BY DEF Respond, Runs, SupervisionInvariant, TypeOK
<1>2. CASE offered = "bad"
  BY <1>1, <1>2, FailKeeps DEF Respond
<1>3. CASE offered # "bad"
  <2> USE DEF SupervisionInvariant
  <2>1. /\ loop_age' = 0 /\ control_age' = 0 /\ job' = offered
        /\ sessions' = IF offered = job THEN sessions
                       ELSE IF offered = "good" THEN 1 ELSE 0
        /\ answered' = 0 /\ unserved' = 0
        /\ UNCHANGED <<phase, due, kiwi_connected, backoff, remaining, messages, wake,
                       notified, frozen, answering, offered, faults>>
    BY <1>3 DEF Respond, threads, kiwi
  <2>2. /\ loop_age \in Nat /\ wake \in Nat /\ Longest \in Nat
        /\ StalledControl \in Nat \ {0} /\ loop_age + wake <= Longest
    BY <1>1, Looping
  <2>3. TypeOK'
    BY <1>3, <2>1 DEF TypeOK
  <2>4. Watched'
    BY <1>1, <2>1, <2>2 DEF Watched, Up
  <2>5. Truthful'
    BY <1>1, <2>1 DEF Truthful, Camping, Never
  <2>6. Served'
    BY <1>1, <2>1, <2>2 DEF Served
  <2> QED
    BY <2>3, <2>4, <2>5, <2>6
<1> QED
  BY <1>2, <1>3

LEMMA LoseCampKeeps ==
    ASSUME SupervisionInvariant, LoseCamp
    PROVE  SupervisionInvariant'
<1> USE DEF SupervisionInvariant
<1>1. /\ phase = "loop" /\ frozen = FALSE
      /\ sessions' = 0 /\ loop_age' = 0
      /\ UNCHANGED <<phase, due, control_age, kiwi_connected, job, backoff, remaining,
                     messages, wake, notified, frozen, answering, offered, faults,
                     answered, unserved>>
  BY DEF LoseCamp, Runs, threads, kiwi, TypeOK
<1>2. /\ loop_age \in Nat /\ wake \in Nat /\ Longest \in Nat
      /\ loop_age + wake <= Longest
  BY <1>1, Looping
<1>3. TypeOK'
  BY <1>1 DEF TypeOK
<1>4. Watched'
  BY <1>1, <1>2 DEF Watched, Up
<1>5. Truthful'
  BY <1>1 DEF Truthful
<1>6. Served'
  BY <1>1 DEF Served
<1> QED
  BY <1>3, <1>4, <1>5, <1>6

LEMMA ResumeKeeps ==
    ASSUME SupervisionInvariant, Resume
    PROVE  SupervisionInvariant'
<1> USE DEF SupervisionInvariant
<1>1. /\ phase \in {"reading", "working"} /\ frozen = FALSE
      /\ phase' = "loop" /\ due' = TRUE /\ loop_age' = 0
      /\ UNCHANGED <<control_age, kiwi_connected, sessions, job, backoff, remaining,
                     messages, wake, notified, frozen, answering, offered, faults,
                     answered, unserved>>
  BY DEF Resume, Runs, threads, kiwi, TypeOK
<1>2. control_age \in Nat
  BY <1>1, Counters DEF Truthful, Camping, Never
<1>3. /\ loop_age \in Nat /\ wake \in Nat /\ Longest \in Nat /\ unserved \in Nat
      /\ StalledControl \in Nat \ {0} /\ loop_age + wake <= Longest
      /\ unserved <= control_age /\ control_age <= StalledControl + loop_age
  BY <1>1, Counters, Timeouts DEF Watched, Served, Up
<1>4. TypeOK'
  BY <1>1 DEF TypeOK, Phases
<1>5. Watched'
  BY <1>1, <1>3 DEF Watched, Up
<1>6. Truthful'
  BY <1>1 DEF Truthful, Camping
<1>7. Served'
  <2>1. control_age <= StalledControl + Longest
    BY <1>2, <1>3
  <2> QED
    BY <1>1, <1>2, <1>3, <2>1 DEF Served
<1> QED
  BY <1>4, <1>5, <1>6, <1>7

LEMMA MainKeeps ==
    ASSUME SupervisionInvariant, Main
    PROVE  SupervisionInvariant'
<1>1. CASE ConnectFails
  BY <1>1, FailKeeps DEF ConnectFails, Runs, Blocked
<1>2. CASE ConnectionLost
  BY <1>2, FailKeeps DEF ConnectionLost, Runs, Blocked
<1> QED
  BY <1>1, <1>2, SleepKeeps, AttemptKeeps, ConnectKeeps, ReceiveOtherKeeps,
     MonitorKeeps, LoopKeeps, RespondKeeps, LoseCampKeeps, ResumeKeeps DEF Main

------------------------------------------------------------------------------
(* Watchdog, health server, systemd, faults and time.                      *)

LEMMA WatchdogKeeps ==
    ASSUME SupervisionInvariant, systemd_watchdog
    PROVE  SupervisionInvariant'
<1>1. /\ Up /\ frozen = FALSE /\ wake = 0
      /\ UNCHANGED <<answering, offered, faults>>
  BY DEF systemd_watchdog, kiwi, SupervisionInvariant, TypeOK
<1>2. CASE loop_age <= StalledMainLoop
  <2> USE DEF SupervisionInvariant
  <2>1. /\ notified' = 0 /\ wake' = WatchdogPeriod
        /\ UNCHANGED <<phase, due, loop_age, control_age, kiwi_connected, sessions, job,
                       backoff, remaining, messages, frozen, answered, unserved>>
    BY <1>2 DEF systemd_watchdog
  <2>2. loop_age \in Nat /\ loop_age + WatchdogPeriod <= Longest
    BY <1>2, Counters, Timeouts DEF Longest
  <2>3. TypeOK'
    BY <1>1, <2>1, Timeouts DEF TypeOK
  <2>4. Watched'
    BY <1>1, <2>1, <2>2 DEF Watched, Up
  <2>5. Truthful'
    BY <2>1 DEF Truthful
  <2>6. Served'
    BY <1>1, <2>1 DEF Served
  <2> QED
    BY <2>3, <2>4, <2>5, <2>6
<1>3. CASE ~(loop_age <= StalledMainLoop)
  <2>1. faults' \in 0..MaxFaults
    BY <1>1 DEF SupervisionInvariant, TypeOK
  <2> QED
    BY <1>1, <1>3, <2>1, ExitKeeps DEF systemd_watchdog
<1> QED
  BY <1>2, <1>3

LEMMA KilledKeeps ==
    ASSUME SupervisionInvariant, SystemdKills \/ HealthServerFails
    PROVE  SupervisionInvariant'
<1>1. Exit /\ Up /\ UNCHANGED <<answering, offered>>
  BY DEF SystemdKills, HealthServerFails, kiwi
<1>2. faults' \in 0..MaxFaults
  BY Timeouts DEF SystemdKills, HealthServerFails, Fault, kiwi, SupervisionInvariant,
                  TypeOK
<1> QED
  BY <1>1, <1>2, ExitKeeps

LEMMA RestartKeeps ==
    ASSUME SupervisionInvariant, Restart
    PROVE  SupervisionInvariant'
<1> USE DEF SupervisionInvariant
<1>1. /\ phase = "down" /\ phase' = "connecting"
      /\ loop_age' = 0 /\ backoff' = 1 /\ messages' = 0
      /\ wake' = WatchdogPeriod /\ notified' = 0 /\ unserved' = 0
      /\ UNCHANGED <<due, control_age, kiwi_connected, sessions, job, remaining, frozen,
                     answering, offered, faults, answered>>
  BY DEF Restart, kiwi
<1>2. frozen = FALSE
  BY <1>1 DEF Watched, Up, TypeOK
<1>3. TypeOK'
  BY <1>1, Timeouts DEF TypeOK, Phases, Blocked
<1>4. Watched'
  <2>1. 0 + WatchdogPeriod <= Longest
    BY Timeouts DEF Longest
  <2> QED
    BY <1>1, <1>2, <2>1 DEF Watched, Up
<1>5. Truthful'
  BY <1>1 DEF Truthful, Camping
<1>6. Served'
  BY <1>1, <1>2 DEF Served
<1> QED
  BY <1>3, <1>4, <1>5, <1>6

\* Faults stay within their bound.
LEMMA FaultCounted ==
    ASSUME SupervisionInvariant, Fault
    PROVE  faults' \in 0..MaxFaults
BY Timeouts DEF Fault, SupervisionInvariant, TypeOK

LEMMA KiwiChangesKeeps ==
    ASSUME SupervisionInvariant, KiwiChanges
    PROVE  SupervisionInvariant'
<1>1. UNCHANGED <<phase, due, loop_age, control_age, kiwi_connected, sessions, job,
                  backoff, remaining, messages, wake, notified, frozen, answered,
                  unserved>>
  BY DEF KiwiChanges, mainVars, threads
<1>2. faults' \in 0..MaxFaults
  BY FaultCounted DEF KiwiChanges
<1>3. answering' \in BOOLEAN /\ offered' \in Jobs
  BY Zenon DEF KiwiChanges, SupervisionInvariant, TypeOK
<1> QED
  BY <1>1, <1>2, <1>3 DEF SupervisionInvariant, TypeOK, Watched, Truthful, Served, Up

LEMMA BlockKeeps ==
    ASSUME SupervisionInvariant, Block
    PROVE  SupervisionInvariant'
<1> USE DEF SupervisionInvariant
<1>1. /\ phase = "loop" /\ frozen = FALSE /\ due = FALSE
      /\ phase' \in {"reading", "working"} /\ loop_age' \in {loop_age, 0}
      /\ UNCHANGED <<due, control_age, kiwi_connected, sessions, job, backoff,
                     remaining, messages, wake, notified, frozen, answering, offered,
                     answered, unserved>>
  <2>1. Runs("loop") /\ ~due
    BY DEF Block
  <2> QED
    BY <2>1 DEF Block, Runs, threads, TypeOK
<1>0. faults' \in 0..MaxFaults
  BY FaultCounted DEF Block
<1>2. /\ loop_age \in Nat /\ wake \in Nat /\ Longest \in Nat /\ unserved \in Nat
      /\ control_age \in Nat /\ StalledControl \in Nat \ {0}
      /\ loop_age + wake <= Longest
      /\ unserved <= control_age /\ control_age <= StalledControl
  <2>1. SupervisionInvariant /\ phase = "loop" /\ frozen = FALSE /\ due = FALSE
    BY <1>1
  <2>2. control_age \in Nat /\ StalledControl \in Nat
        /\ control_age <= StalledControl + (IF due THEN Longest ELSE 0)
    BY <2>1, Looping
  <2>3. control_age <= StalledControl
    BY <2>1, <2>2
  <2> QED
    BY <2>1, <2>3, Looping
<1>3. TypeOK'
  BY <1>0, <1>1, <1>2 DEF TypeOK, Phases, Blocked
<1>4. Watched'
  <2>1. CASE loop_age' = loop_age
    BY <1>1, <1>2, <2>1 DEF Watched, Up
  <2>2. CASE loop_age' = 0
    BY <1>1, <1>2, <2>2 DEF Watched, Up
  <2> QED
    BY <1>1, <2>1, <2>2
<1>5. Truthful'
  BY <1>1 DEF Truthful, Camping
<1>6. Served'
  <2>1. CASE loop_age' = loop_age
    BY <1>1, <1>2, <2>1 DEF Served
  <2>2. CASE loop_age' = 0
    BY <1>1, <1>2, <2>2 DEF Served
  <2> QED
    BY <1>1, <2>1, <2>2
<1> QED
  BY <1>3, <1>4, <1>5, <1>6

LEMMA FreezeKeeps ==
    ASSUME SupervisionInvariant, Freeze
    PROVE  SupervisionInvariant'
<1> USE DEF SupervisionInvariant
<1>1. /\ Up /\ frozen = FALSE /\ frozen' = TRUE
      /\ faults' \in 0..MaxFaults
      /\ UNCHANGED <<phase, due, loop_age, control_age, kiwi_connected, sessions, job,
                     backoff, remaining, messages, wake, notified, answering, offered,
                     answered, unserved>>
  BY Timeouts DEF Freeze, Fault, mainVars, TypeOK
<1>2. unserved <= Budget + notified
  BY <1>1, BudgetLeft, Counters, Timeouts
<1>3. TypeOK'
  BY <1>1 DEF TypeOK
<1>4. Watched' /\ Truthful'
  BY <1>1 DEF Watched, Truthful, Up
<1>5. Served'
  BY <1>1, <1>2 DEF Served
<1> QED
  BY <1>3, <1>4, <1>5

\* A second passes only where nobody is due.
LEMMA TickKeeps ==
    ASSUME SupervisionInvariant, Tick
    PROVE  SupervisionInvariant'
<1> USE DEF SupervisionInvariant
<1>1. /\ due' = (due \/ phase \in {"loop", "sleeping"})
      /\ remaining' = IF phase = "down" THEN remaining - 1 ELSE remaining
      /\ loop_age' = IF Up THEN loop_age + 1 ELSE loop_age
      /\ control_age' = Older(control_age) /\ answered' = Older(answered)
      /\ wake' = IF Up /\ wake > 0 THEN wake - 1 ELSE wake
      /\ notified' = IF Up THEN notified + 1 ELSE notified
      /\ unserved' = unserved + 1
      /\ UNCHANGED <<phase, kiwi_connected, sessions, job, backoff, messages, frozen,
                     answering, offered, faults>>
  BY DEF Tick, kiwi
<1>2. /\ phase = "down" => remaining > 0
      /\ Up => notified < WatchdogSec
      /\ Up /\ ~frozen => /\ ~due /\ wake > 0
                          /\ phase = "sleeping" => remaining > 0
  BY DEF Tick, Up
<1>3. /\ loop_age \in Nat /\ remaining \in Nat /\ wake \in Nat /\ notified \in Nat
      /\ unserved \in Nat /\ control_age \in Nat \cup {-1} /\ due \in BOOLEAN
      /\ frozen \in BOOLEAN
      /\ Longest \in Nat /\ Budget \in Nat /\ WatchdogSec \in Nat /\ RestartSec \in Nat
      /\ StalledControl \in Nat /\ Longest >= 2
  BY Counters, Timeouts
<1>4. /\ control_age' \in Nat \cup {-1}
      /\ control_age # -1 => control_age' = control_age + 1
      /\ answered' = control_age'
  BY <1>1, <1>3 DEF Older, Never, Truthful
<1>5. phase \in Camping => control_age \in Nat /\ control_age' = control_age + 1
  BY <1>3, <1>4 DEF Truthful, Never
<1>6. due' \in BOOLEAN
  BY <1>1, Zenon
<1>7. TypeOK'
  <2>1. remaining' \in Nat
    BY <1>1, <1>2, <1>3
  <2>2. loop_age' \in Nat /\ unserved' \in Nat
    BY <1>1, <1>3
  <2>3. wake' \in 0..WatchdogPeriod
    BY <1>1, <1>3, Timeouts DEF TypeOK
  <2>4. notified' \in 0..WatchdogSec
    BY <1>1, <1>2, <1>3 DEF TypeOK
  <2>5. control_age' \in Nat \cup {Never} /\ answered' \in Nat \cup {Never}
    BY <1>4 DEF Never
  <2> QED
    BY <1>1, <1>6, <2>1, <2>2, <2>3, <2>4, <2>5 DEF TypeOK
<1>8. Truthful'
  BY <1>1, <1>4, <1>5 DEF Truthful, Never, Camping
<1>9. ASSUME Up, frozen = FALSE
      PROVE  /\ due = FALSE /\ wake > 0 /\ loop_age' = loop_age + 1 /\ wake' = wake - 1
             /\ loop_age + wake <= Longest
             /\ remaining' = remaining
             /\ phase = "sleeping" => remaining > 0
  BY <1>1, <1>2, <1>3, <1>9 DEF Watched, Up
<1>10. Watched'
  <2>1. CASE ~Up
    BY <1>1, <2>1 DEF Watched, Up
  <2>2. CASE Up /\ frozen = TRUE
    BY <1>1, <2>2 DEF Watched, Up
  <2>3. CASE Up /\ frozen = FALSE
    <3>0. /\ loop_age' = loop_age + 1 /\ wake' = wake - 1 /\ due = FALSE
          /\ loop_age \in Nat /\ wake \in Nat /\ Longest \in Nat
          /\ loop_age + wake <= Longest
      BY <1>3, <1>9, <2>3
    <3>1. loop_age' + wake' <= Longest
      <4>1. (loop_age + 1) + (wake - 1) <= Longest
        BY <3>0
      <4> QED
        BY <3>0, <4>1
    <3>2. ASSUME phase \in {"loop", "sleeping"} PROVE loop_age' <= 1 /\ due' = TRUE
      <4>1. loop_age <= 0
        BY <2>3, <3>0, <3>2 DEF Watched
      <4>2. loop_age + 1 <= 1 /\ loop_age' = loop_age + 1
        BY <3>0, <4>1
      <4>3. due' = TRUE
        BY <1>1, <3>2
      <4> QED
        BY <4>2, <4>3
    <3> QED
      BY <1>1, <1>9, <2>3, <3>1, <3>2 DEF Watched, Up
  <2> QED
    BY <1>3, <2>1, <2>2, <2>3
<1>11. Served'
  <2>1. CASE phase = "down"
    <3>1. /\ remaining' = remaining - 1 /\ remaining > 0 /\ frozen = FALSE
          /\ phase' = "down" /\ frozen' = FALSE
      BY <1>1, <1>2, <1>3, <2>1 DEF Watched, Up
    <3>2. unserved' + remaining' <= Budget + WatchdogSec + RestartSec
      BY <1>1, <1>3, <2>1, <3>1 DEF Served
    <3> QED
      BY <3>1, <3>2 DEF Served
  <2>2. CASE Up /\ frozen = TRUE
    <3>1. unserved' <= Budget + notified'
      BY <1>1, <1>3, <2>2 DEF Served
    <3> QED
      BY <1>1, <2>2, <3>1 DEF Served
  <2>3. CASE Up /\ frozen = FALSE
    <3>1. /\ due = FALSE /\ loop_age' = loop_age + 1 /\ unserved' = unserved + 1
          /\ remaining' = remaining /\ messages' = messages /\ phase' = phase
          /\ frozen' = FALSE
      BY <1>1, <1>9, <2>3
    <3>2. CASE phase = "connecting"
      <4>1. unserved' <= loop_age'
        BY <1>3, <2>3, <3>1, <3>2 DEF Served
      <4> QED
        BY <3>1, <3>2, <4>1 DEF Served
    <3>3. CASE phase = "bootstrap"
      <4>1. (messages + 1) * Longest \in Nat
        BY Counters, Timeouts
      <4>2. unserved <= (messages + 1) * Longest + loop_age
        BY <2>3, <3>3 DEF Served
      <4>3. unserved' <= (messages' + 1) * Longest + loop_age'
        BY <1>3, <3>1, <4>1, <4>2
      <4> QED
        BY <3>1, <3>3, <4>3 DEF Served
    <3>4. CASE phase = "loop"
      <4>1. due' = TRUE /\ control_age \in Nat /\ control_age' = control_age + 1
        BY <1>1, <1>5, <3>4 DEF Camping
      <4>2. unserved <= control_age /\ control_age <= StalledControl + 0
        BY <2>3, <3>1, <3>4 DEF Served
      <4>3. unserved' <= control_age' /\ control_age' <= StalledControl + Longest
        BY <1>3, <3>1, <4>1, <4>2
      <4> QED
        BY <3>1, <3>4, <4>1, <4>3 DEF Served
    <3>5. CASE phase \in {"reading", "working"}
      <4>1. control_age \in Nat /\ control_age' = control_age + 1
        BY <1>5, <3>5 DEF Camping
      <4>2. unserved <= control_age /\ control_age <= StalledControl + loop_age
        BY <2>3, <3>5 DEF Served
      <4>3. unserved' <= control_age' /\ control_age' <= StalledControl + loop_age'
        BY <1>3, <3>1, <4>1, <4>2
      <4> QED
        BY <3>1, <3>5, <4>3 DEF Served
    <3>6. CASE phase = "sleeping"
      <4>1. due' = TRUE /\ unserved + remaining <= Budget + 0
        BY <1>1, <2>3, <3>1, <3>6 DEF Served
      <4>2. unserved' + remaining' <= Budget + 1
        BY <1>3, <3>1, <4>1
      <4> QED
        BY <3>1, <3>6, <4>1, <4>2 DEF Served
    <3> QED
      BY <2>3, <3>2, <3>3, <3>4, <3>5, <3>6 DEF TypeOK, Phases, Blocked, Up
  <2> QED
    BY <1>3, <2>1, <2>2, <2>3 DEF Up
<1> QED
  BY <1>7, <1>8, <1>10, <1>11

------------------------------------------------------------------------------
(* The theorems.                                                           *)

LEMMA SupervisionInit == Init => SupervisionInvariant
<1> SUFFICES ASSUME Init PROVE SupervisionInvariant
  OBVIOUS
<1>1. /\ phase = "connecting" /\ due = FALSE /\ loop_age = 0 /\ control_age = -1
      /\ kiwi_connected = 0 /\ sessions = 0 /\ job = "idle"
      /\ backoff = 1 /\ remaining = 0 /\ messages = 0
      /\ wake = WatchdogPeriod /\ notified = 0 /\ frozen = FALSE
      /\ answering \in BOOLEAN /\ offered \in Jobs /\ faults = 0
      /\ answered = -1 /\ unserved = 0
  BY DEF Init, Never
<1>2. TypeOK
  <2>1. "connecting" \in Phases /\ "idle" \in Jobs \ {"bad"} /\ -1 \in Nat \cup {Never}
    BY DEF Phases, Blocked, Jobs, Never
  <2>2. /\ 1 \in 1..MaxBackoff /\ 0 \in 0..MaxMessages /\ 0 \in 0..MaxFaults
        /\ 0 \in 0..WatchdogSec /\ WatchdogPeriod \in 0..WatchdogPeriod
    BY Timeouts
  <2> QED
    BY <1>1, <2>1, <2>2 DEF TypeOK
<1>3. Watched
  <2>1. 0 + WatchdogPeriod <= Longest
    BY Timeouts DEF Longest
  <2> QED
    BY <1>1, <2>1 DEF Watched, Up
<1>4. Truthful
  BY <1>1 DEF Truthful, Camping
<1>5. Served
  BY <1>1 DEF Served
<1> QED
  BY <1>2, <1>3, <1>4, <1>5 DEF SupervisionInvariant

LEMMA SupervisionStep ==
    ASSUME SupervisionInvariant, [Next]_vars
    PROVE  SupervisionInvariant'
<1>1. CASE UNCHANGED vars
  BY <1>1 DEF SupervisionInvariant, TypeOK, Watched, Truthful, Served, Up, vars, threads,
              kiwi
<1>2. CASE Next
  BY <1>2, MainKeeps, WatchdogKeeps, KilledKeeps, RestartKeeps, TickKeeps,
     KiwiChangesKeeps, BlockKeeps, FreezeKeeps DEF Next
<1> QED
  BY <1>1, <1>2

\* The invariant, with the types, in every reachable state.
THEOREM SupervisionCorrect == Spec => []SupervisionInvariant
BY SupervisionInit, SupervisionStep, PTL DEF Spec

\* For every timeout, "ok" means a recent answer on this connection, and a
\* session is counted only while there is a camper.
THEOREM HealthTruthfulCorrect == Spec => []HealthTruthful
<1>1. SupervisionInvariant => HealthTruthful
  <2> SUFFICES ASSUME SupervisionInvariant PROVE HealthTruthful
    OBVIOUS
  <2>1. control_age \in Nat \cup {-1} /\ StalledControl \in Nat
    BY Counters, Timeouts DEF SupervisionInvariant
  <2> QED
    BY <2>1 DEF SupervisionInvariant, Truthful, HealthTruthful, Healthy,
                control_response_stale, Never
<1> QED
  BY <1>1, SupervisionCorrect, PTL

\* A process whose main thread loops or sleeps is never ended by the
\* watchdog, however its period and limit are chosen.
THEOREM KilledOnlyWhileBlockedCorrect == Spec => KilledOnlyWhileBlocked
<1>1. ASSUME SupervisionInvariant, systemd_watchdog, ~Up' PROVE phase \in Blocked
  <2>1. Up /\ ~frozen
    BY <1>1 DEF systemd_watchdog
  <2>2. ~(loop_age <= StalledMainLoop)
    BY <1>1, <2>1 DEF systemd_watchdog, Up
  <2>3. phase \notin {"loop", "sleeping"}
    <3> SUFFICES ASSUME phase \in {"loop", "sleeping"} PROVE FALSE
      OBVIOUS
    <3>1. loop_age \in Nat /\ StalledMainLoop \in Nat \ {0}
      BY <1>1, Counters, Timeouts DEF SupervisionInvariant
    <3>2. loop_age <= (IF due THEN 1 ELSE 0)
      BY <1>1, <2>1 DEF SupervisionInvariant, Watched
    <3> QED
      BY <2>2, <3>1, <3>2
  <2> QED
    BY <1>1, <2>1, <2>3 DEF SupervisionInvariant, TypeOK, Phases, Up
<1>2. SupervisionInvariant =>
         [systemd_watchdog /\ ~Up' => phase \in Blocked]_vars
  BY <1>1
<1> QED
  BY <1>2, SupervisionCorrect, PTL DEF KilledOnlyWhileBlocked

\* The next attempt or an answer comes within the sum of the timeouts, however
\* often and whenever Kiwi, network and process fail.
THEOREM AttemptsGoOnCorrect == Spec => []AttemptsGoOn
<1>1. SupervisionInvariant => AttemptsGoOn
  <2> SUFFICES ASSUME SupervisionInvariant PROVE AttemptsGoOn
    OBVIOUS
  <2>1. /\ unserved \in Nat /\ notified \in Nat /\ notified <= WatchdogSec
        /\ remaining \in Nat /\ Budget \in Nat /\ WatchdogSec \in Nat
        /\ RestartSec \in Nat /\ frozen \in BOOLEAN
    BY Counters, Timeouts DEF SupervisionInvariant
  <2>2. unserved <= Budget + WatchdogSec + RestartSec
    <3>1. CASE frozen = TRUE
      BY <2>1, <3>1 DEF SupervisionInvariant, Served
    <3>2. CASE frozen = FALSE /\ Up
      BY <2>1, <3>2, BudgetLeft
    <3>3. CASE frozen = FALSE /\ ~Up
      <4>1. unserved + remaining <= Budget + WatchdogSec + RestartSec
        BY <3>3 DEF SupervisionInvariant, Served, Up
      <4> QED
        BY <2>1, <4>1
    <3> QED
      BY <2>1, <3>1, <3>2, <3>3
  <2> QED
    BY <2>2 DEF AttemptsGoOn, Budget, Longest
<1> QED
  BY <1>1, SupervisionCorrect, PTL
==============================================================================
