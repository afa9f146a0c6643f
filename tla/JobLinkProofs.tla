--------------------------- MODULE JobLinkProofs ---------------------------
(***************************************************************************)
(* First about KiwiExtension alone, for any receivers, modes, frequencies, *)
(* recordings and number of monitor tasks: one receiver owns the job, its  *)
(* generation names it, and what the extension reports of a test is true.  *)
(*                                                                         *)
(* Then about the link, for any sessions, polls in flight, lost            *)
(* connections and faults: the extension behind it behaves as              *)
(* KiwiExtension says, the decoder only decodes frames of its job's        *)
(* receiver, breaks off over a conflict only because of the Reporter       *)
(* switch, and is told to be online only for the session it decodes.       *)
(*                                                                         *)
(* The argument is about what lies in the two queues.  Jobs lie in the     *)
(* order of their generations, behind the job the decoder holds (Ordered); *)
(* statuses are of that job or an earlier one (StatusesAreOld); and the    *)
(* frames from here to the next acknowledged camp are of the receiver the  *)
(* decoder knows it camps on, or of one it does not know yet (Camps).      *)
(*                                                                         *)
(* Last, where the decoder camps: as long as it was not led astray, every  *)
(* camp on a receiver that is asked for or granted is on its job's, and    *)
(* none is asked for while an earlier one is unanswered; so once nothing   *)
(* is under way, decoder and Kiwi agree (Steered).                         *)
(***************************************************************************)
EXTENDS JobLink, FiniteSetTheorems, SequenceTheorems, TLAPS

------------------------------------------------------------------------------
(* The extension by itself.                                                *)

USE DEF freedv_return_audio, Current, IdleGeneration, Starts

\* The jobs of a poll are jobs: nothing is lost between the channel's record
\* and the message.
LEMMA ResponseType == TypeOK => CurrentResponse \in Response
  <1> SUFFICES ASSUME TypeOK PROVE CurrentResponse \in Response
    OBVIOUS
  <1>1. CASE OwnerRuns
    <2>1. active_rx \in Rx
      BY <1>1 DEF OwnerRuns, TypeOK
    <2>2. TestReady \in BOOLEAN /\ ArmsTest \in BOOLEAN
      BY DEF TestReady, ArmsTest
    <2>3. OwnerJob.generation \in Nat /\ OwnerJob \in DecoderJob
      <3>1. (IF OwnerMoved THEN next_generation ELSE generation[active_rx])
              \in Nat
        BY <2>1 DEF TypeOK
      <3>2. /\ mode[active_rx] \in Modes \cup {Nil}
            /\ dial[active_rx] \in Freqs
            /\ test[active_rx] \in BOOLEAN
        BY <2>1 DEF TypeOK
      <3>3. (reporter_enabled /\ reporter_requested[active_rx]
               /\ ~test[active_rx]) \in BOOLEAN
        OBVIOUS
      <3>4. QED
        BY <2>1, <2>2, <3>1, <3>2, <3>3 DEF OwnerJob, DecoderJob
    <2>4. QED
      BY <1>1, <2>1, <2>2, <2>3 DEF CurrentResponse, Response
  <1>2. CASE ~OwnerRuns
    <2>1. next_generation - 1 \in Nat
      BY DEF TypeOK
    <2>2. IdleJob(next_generation - 1) \in DecoderJob
      BY <2>1 DEF IdleJob, DecoderJob
    <2>3. QED
      BY <1>2, <2>2 DEF CurrentResponse, Response
  <1>3. QED
    BY <1>1, <1>2

\* The steps a proof about Next has to consider: both kinds of session begin
\* alike, and what is refused or ignored changes nothing.
LEMMA NextCases ==
    ASSUME TypeOK, [Next]_vars
    PROVE  \/ \E i \in Rx, m \in Modes, asTest, report \in BOOLEAN :
                Begin(i, m, asTest, report)
           \/ \E i \in Rx : freedv_stop(i)
           \/ \E i \in Rx, g \in Nat : freedv_receive_cmds(i, g)
           \/ \E i \in Rx : freedv_poll(i)
           \/ \E m \in Monitors : freedv_monitor_poll(m)
           \/ \E m \in Monitors : FinishPoll(m)
           \/ \E i \in Rx : freedv_test_audio(i)
           \/ \E i \in Rx, f \in Freqs : Tune(i, f)
           \/ SwitchReporter
           \/ UNCHANGED vars
  <1>1. ASSUME NEW i \in Rx, NEW m \in Modes, NEW who \in Identities,
               Start(i, m, who)
        PROVE  \E report \in BOOLEAN : Begin(i, m, FALSE, report)
    BY <1>1 DEF Start
  <1>2. ASSUME NEW i \in Rx, NEW m \in Modes, StartTest(i, m)
        PROVE  Begin(i, m, TRUE, FALSE)
    BY <1>2 DEF StartTest
  <1>3. ASSUME NEW i \in Rx, NEW g \in 1..next_generation,
               freedv_receive_cmds(i, g)
        PROVE  \E n \in Nat : freedv_receive_cmds(i, n)
    <2>1. g \in Nat
      BY DEF TypeOK
    <2>2. QED
      BY <1>3, <2>1
  <1>4. QED
    BY <1>1, <1>2, <1>3 DEF Next, Refuse, IgnoreStatus

LEMMA InitType == Init => TypeOK
  BY DEF Init, TypeOK

LEMMA NextType == TypeOK /\ [Next]_vars => TypeOK'
  <1> SUFFICES ASSUME TypeOK, [Next]_vars PROVE TypeOK'
    OBVIOUS
  <1> USE DEF session, identity, testVars, environment, polls
  <1>1. ASSUME NEW i \in Rx, NEW m \in Modes, NEW asTest \in BOOLEAN,
               NEW report \in BOOLEAN, Begin(i, m, asTest, report)
        PROVE  TypeOK'
    BY <1>1 DEF TypeOK, Begin, ResetTest
  <1>2. ASSUME NEW i \in Rx, freedv_stop(i)
        PROVE  TypeOK'
    <2>1. CASE running[i]
      <3>1. running' \in [Rx -> BOOLEAN]
        BY <1>2, <2>1 DEF TypeOK, freedv_stop
      <3>2. next_generation' \in Nat \ {0}
        BY <1>2, <2>1 DEF TypeOK, freedv_stop
      <3>3. generation' \in [Rx -> Nat]
        BY <1>2, <2>1 DEF TypeOK, freedv_stop
      <3>4. active_rx' \in Rx \cup {Nil}
        BY <1>2 DEF TypeOK, freedv_stop
      <3>5. test_last_percent' \in [Rx -> Int]
        BY <1>2 DEF TypeOK, freedv_stop, ResetTest
      <3>6. QED
        BY <1>2, <3>1, <3>2, <3>3, <3>4, <3>5 DEF TypeOK, freedv_stop, ResetTest
    <2>2. CASE ~running[i]
      BY <1>2, <2>2 DEF TypeOK, freedv_stop, ResetTest
    <2>3. QED
      BY <2>1, <2>2
  <1>3. ASSUME NEW i \in Rx, NEW g \in Nat, freedv_receive_cmds(i, g)
        PROVE  TypeOK'
    BY <1>3 DEF TypeOK, freedv_receive_cmds
  <1>4. ASSUME NEW i \in Rx, freedv_poll(i)
        PROVE  TypeOK'
    BY <1>4 DEF TypeOK, freedv_poll
  <1>5. ASSUME NEW m \in Monitors, freedv_monitor_poll(m)
        PROVE  TypeOK'
    <2>1. CurrentResponse \in Response /\ CurrentResponse.job \in DecoderJob
      BY ResponseType DEF Response
    <2>2. reply' \in [Monitors -> Response \cup {Nil}]
          /\ advertised' \in SUBSET DecoderJob
      BY <1>5, <2>1 DEF TypeOK, freedv_monitor_poll
    <2>3. CASE OwnerMoved
      <3>1. active_rx \in Rx
        BY <2>3 DEF OwnerMoved, OwnerRuns, TypeOK
      <3>2. Retune(active_rx)
        BY <1>5, <2>3 DEF freedv_monitor_poll
      <3>3. frequency_hz' \in [Rx -> Freqs \cup {Nil}]
        BY <3>1, <3>2 DEF TypeOK, Retune
      <3>4. generation' \in [Rx -> Nat]
        BY <3>1, <3>2 DEF TypeOK, Retune
      <3>5. next_generation' \in Nat \ {0}
        BY <3>2 DEF TypeOK, Retune
      <3>6. decoder_online' \in [Rx -> BOOLEAN]
        BY <3>1, <3>2 DEF TypeOK, Retune
      <3>7. /\ test_job_seen' \in [Rx -> BOOLEAN]
            /\ test_sample' \in [Rx -> Nat \cup {Nil}]
            /\ test_last_percent' \in [Rx -> Int]
        <4>1. CASE test[active_rx]
          <5>1. test_last_percent' \in [Rx -> Int]
            BY <3>1, <3>2, <4>1 DEF TypeOK, Retune
          <5>2. test_sample' \in [Rx -> Nat \cup {Nil}]
            BY <3>1, <3>2, <4>1 DEF TypeOK, Retune
          <5>3. test_job_seen' \in [Rx -> BOOLEAN]
            BY <3>1, <3>2, <4>1 DEF TypeOK, Retune
          <5>4. QED
            BY <5>1, <5>2, <5>3
        <4>2. CASE ~test[active_rx]
          BY <3>2, <4>2 DEF TypeOK, Retune
        <4>3. QED
          BY <4>1, <4>2
      <3>8. QED
        BY <1>5, <2>2, <3>3, <3>4, <3>5, <3>6, <3>7
           DEF TypeOK, freedv_monitor_poll
    <2>4. CASE ~OwnerMoved
      BY <1>5, <2>2, <2>4 DEF TypeOK, freedv_monitor_poll
    <2>5. QED
      BY <2>3, <2>4
  <1>6. ASSUME NEW m \in Monitors, FinishPoll(m)
        PROVE  TypeOK'
    BY <1>6 DEF TypeOK, FinishPoll, StillTesting, Response
  <1>7. ASSUME NEW i \in Rx, freedv_test_audio(i)
        PROVE  TypeOK'
    <2>1. test_sample[i] \in Nat
      BY <1>7 DEF TypeOK, freedv_test_audio
    <2>2. AfterBlock(test_sample[i]) \in Nat
      BY <2>1 DEF AfterBlock
    <2>3. Percent(AfterBlock(test_sample[i])) \in Int
      BY <2>2, ExtensionAssumption DEF Percent
    <2>4. QED
      BY <1>7, <2>2, <2>3 DEF TypeOK, freedv_test_audio
  <1>8. ASSUME NEW i \in Rx, NEW f \in Freqs, Tune(i, f)
        PROVE  TypeOK'
    BY <1>8 DEF TypeOK, Tune
  <1>9. CASE SwitchReporter
    BY <1>9 DEF TypeOK, SwitchReporter
  <1>10. CASE UNCHANGED vars
    BY <1>10 DEF TypeOK, vars
  <1>11. QED
    BY <1>1, <1>2, <1>3, <1>4, <1>5, <1>6, <1>7, <1>8, <1>9, <1>10, NextCases

\* The records of the channels keep their types, whatever the browsers, the
\* decoder and the administrator do.
THEOREM TypeCorrect == Spec => []TypeOK
  <1>1. QED
    BY InitType, NextType, PTL DEF Spec

------------------------------------------------------------------------------
(* One session, and the gate with it.                                      *)

Ownership == SingleOwner /\ GateFollowsSession

LEMMA NextOwnership ==
    ASSUME TypeOK, Ownership, [Next]_vars
    PROVE  Ownership'
  <1> USE DEF Ownership, SingleOwner, GateFollowsSession
  <1>1. ASSUME NEW i \in Rx, NEW m \in Modes, NEW asTest \in BOOLEAN,
               NEW report \in BOOLEAN, Begin(i, m, asTest, report)
        PROVE  Ownership'
    <2>1. active_rx \in {Nil, i}
      BY <1>1 DEF Begin, Busy, TypeOK
    <2>2. QED
      BY <1>1, <2>1, NilAssumption DEF Begin, TypeOK
  <1>2. ASSUME NEW i \in Rx, freedv_stop(i)
        PROVE  Ownership'
    BY <1>2, NilAssumption DEF freedv_stop, TypeOK
  <1>3. ASSUME NEW i \in Rx, NEW g \in Nat, freedv_receive_cmds(i, g)
        PROVE  Ownership'
    BY <1>3 DEF freedv_receive_cmds, session, TypeOK
  <1>4. ASSUME NEW i \in Rx, freedv_poll(i)
        PROVE  Ownership'
    BY <1>4 DEF freedv_poll, session, TypeOK
  <1>5. CASE UNCHANGED <<running, active_rx, want_rtn_snd>>
    BY <1>5
  <1>6. QED
    BY <1>1, <1>2, <1>3, <1>4, <1>5, NextCases
       DEF freedv_monitor_poll, FinishPoll, freedv_test_audio, Tune,
           SwitchReporter, vars, session

\* One session at a time, however starts, stops and closes of the channels
\* interleave.
THEOREM SingleOwnerCorrect == Spec => []SingleOwner
  <1>1. Init => Ownership
    BY NilAssumption
       DEF Init, Ownership, SingleOwner, GateFollowsSession
  <1>2. QED
    BY <1>1, NextOwnership, TypeCorrect, PTL DEF Spec, Ownership

\* The gate is closed exactly while a session runs.
THEOREM GateCorrect == Spec => []GateFollowsSession
  <1>1. Init => Ownership
    BY NilAssumption
       DEF Init, Ownership, SingleOwner, GateFollowsSession
  <1>2. QED
    BY <1>1, NextOwnership, TypeCorrect, PTL DEF Spec, Ownership

------------------------------------------------------------------------------
(* Generations name jobs.  The last generation handed out is the running     *)
(* session's, or the one that names the idle job; every advertised job that  *)
(* carries it says what the extension would say now.                         *)

CurrentEssence ==
    IF OwnerRuns
    THEN <<generation[active_rx], TRUE, active_rx, mode[active_rx],
           frequency_hz[active_rx], test[active_rx]>>
    ELSE Essence(IdleJob(next_generation - 1))

OwnerIsLatest == OwnerRuns => generation[active_rx] = next_generation - 1

Generations ==
    /\ OwnerIsLatest
    /\ \A i \in Rx : generation[i] < next_generation
    /\ \A a \in advertised : a.generation < next_generation
    /\ \A a \in advertised :
          a.generation = next_generation - 1 => Essence(a) = CurrentEssence
    /\ GenerationNamesJob

\* What the owner's job says of the owner.
LEMMA OwnerJobEssence ==
    Essence(OwnerJob) =
        <<IF OwnerMoved THEN next_generation ELSE generation[active_rx],
          TRUE, active_rx, mode[active_rx], dial[active_rx], test[active_rx]>>
  BY DEF Essence, OwnerJob

LEMMA NextGenerations ==
    ASSUME TypeOK, Ownership, Generations, [Next]_vars
    PROVE  Generations'
  <1> USE DEF Generations, OwnerIsLatest, GenerationNamesJob
  <1> \A a \in advertised : a.generation \in Nat
    BY DEF TypeOK, DecoderJob
  <1>1. ASSUME NEW i \in Rx, NEW m \in Modes, NEW asTest \in BOOLEAN,
               NEW report \in BOOLEAN, Begin(i, m, asTest, report)
        PROVE  Generations'
    <2>1. /\ next_generation' = next_generation + 1
          /\ advertised' = advertised
          /\ generation' = [generation EXCEPT ![i] = next_generation]
          /\ active_rx' = i
      BY <1>1 DEF Begin, polls
    <2>2. \A a \in advertised' : a.generation < next_generation' - 1
      BY <2>1 DEF TypeOK
    <2>3. OwnerIsLatest' /\ \A j \in Rx : generation'[j] < next_generation'
      BY <2>1 DEF TypeOK
    <2>4. QED
      BY <2>1, <2>2, <2>3 DEF TypeOK
  <1>2. ASSUME NEW i \in Rx, freedv_stop(i)
        PROVE  Generations'
    <2>1. CASE running[i]
      <3>1. /\ next_generation' = next_generation + 1
            /\ advertised' = advertised
            /\ generation' = [generation EXCEPT ![i] = next_generation]
            /\ active_rx' = Nil
        BY <1>2, <2>1 DEF freedv_stop, polls, Ownership, SingleOwner
      <3>2. \A a \in advertised' : a.generation < next_generation' - 1
        BY <3>1 DEF TypeOK
      <3>3. ~OwnerRuns'
        BY <3>1 DEF OwnerRuns
      <3>4. QED
        BY <3>1, <3>2, <3>3 DEF TypeOK
    <2>2. CASE ~running[i]
      <3>1. /\ UNCHANGED <<next_generation, advertised, generation, running,
                           mode, frequency_hz, active_rx>>
            /\ test' = [test EXCEPT ![i] = FALSE]
        BY <1>2, <2>2
           DEF freedv_stop, polls, Ownership, SingleOwner
      <3>2. OwnerRuns' = OwnerRuns /\ CurrentEssence' = CurrentEssence
        BY <2>2, <3>1 DEF OwnerRuns, CurrentEssence, TypeOK
      <3>3. QED
        BY <3>1, <3>2
    <2>3. QED
      BY <2>1, <2>2
  <1>3. ASSUME NEW m \in Monitors, freedv_monitor_poll(m)
        PROVE  Generations'
    <2> DEFINE job == CurrentResponse.job
    <2>1. /\ advertised' = advertised \cup {job}
          /\ UNCHANGED <<running, mode, active_rx, test>>
      BY <1>3 DEF freedv_monitor_poll, session
    <2>2. CASE OwnerMoved
      <3>1. active_rx \in Rx /\ OwnerRuns /\ OwnerRuns'
        BY <2>1, <2>2 DEF OwnerMoved, OwnerRuns, TypeOK
      <3>2. /\ next_generation' = next_generation + 1
            /\ generation' = [generation EXCEPT ![active_rx] = next_generation]
            /\ frequency_hz' =
                  [frequency_hz EXCEPT ![active_rx] = dial[active_rx]]
        BY <1>3, <2>2 DEF freedv_monitor_poll, Retune
      <3>3. job.generation = next_generation
        BY <2>2, <3>1 DEF CurrentResponse, OwnerJob
      <3>4. Essence(job) = CurrentEssence'
        <4>1. Essence(job) =
                <<next_generation, TRUE, active_rx, mode[active_rx],
                  dial[active_rx], test[active_rx]>>
          BY <2>2, <3>1, OwnerJobEssence DEF CurrentResponse
        <4>2. /\ generation'[active_rx] = next_generation
              /\ frequency_hz'[active_rx] = dial[active_rx]
          BY <3>1, <3>2 DEF TypeOK
        <4>3. QED
          BY <2>1, <3>1, <4>1, <4>2 DEF CurrentEssence
      <3>5. next_generation \in Nat /\ next_generation' - 1 = next_generation
        BY <3>2 DEF TypeOK
      <3>6. /\ \A i \in Rx : generation'[i] < next_generation'
            /\ generation'[active_rx] = next_generation
        BY <3>1, <3>2, <3>5 DEF TypeOK
      <3>7. \A a \in advertised :
                a.generation < next_generation /\ a.generation < next_generation'
        BY <3>2, <3>5
      <3>8. QED
        BY <2>1, <3>1, <3>2, <3>3, <3>4, <3>5, <3>6, <3>7
    <2>3. CASE ~OwnerMoved
      <3>1. UNCHANGED <<next_generation, generation, frequency_hz>>
        BY <1>3, <2>3 DEF freedv_monitor_poll, identity
      <3>2. CurrentEssence' = CurrentEssence /\ OwnerRuns' = OwnerRuns
        BY <2>1, <3>1 DEF CurrentEssence, OwnerRuns
      <3>3. /\ job.generation = next_generation - 1
            /\ Essence(job) = CurrentEssence
        <4>1. CASE OwnerRuns
          <5>1. job = OwnerJob
            BY <4>1 DEF CurrentResponse
          <5>2. OwnerJob.generation = generation[active_rx]
            BY <2>3 DEF OwnerJob
          <5>3. dial[active_rx] = frequency_hz[active_rx]
            BY <2>3, <4>1 DEF OwnerMoved
          <5>4. QED
            BY <2>3, <4>1, <5>1, <5>2, <5>3, OwnerJobEssence
               DEF CurrentEssence
        <4>2. CASE ~OwnerRuns
          BY <4>2 DEF CurrentResponse, IdleJob, Essence, CurrentEssence
        <4>3. QED
          BY <4>1, <4>2
      <3>4. QED
        BY <2>1, <3>1, <3>2, <3>3 DEF TypeOK
    <2>4. QED
      BY <2>2, <2>3
  <1>4. CASE UNCHANGED <<next_generation, generation, frequency_hz, running,
                         mode, test, active_rx, advertised>>
    BY <1>4 DEF OwnerRuns, CurrentEssence
  <1>5. QED
    BY <1>1, <1>2, <1>3, <1>4, NextCases
       DEF freedv_receive_cmds, freedv_poll, FinishPoll, freedv_test_audio,
           Tune, SwitchReporter, vars, session, identity, polls, testVars

\* However sessions start, stop and move, a generation never names two jobs.
THEOREM GenerationNamesJobCorrect == Spec => []GenerationNamesJob
  <1>1. Init => Ownership /\ Generations
    BY NilAssumption
       DEF Init, Ownership, SingleOwner, GateFollowsSession, Generations,
           OwnerIsLatest, OwnerRuns, GenerationNamesJob
  <1>2. QED
    BY <1>1, NextOwnership, NextGenerations, TypeCorrect, PTL
       DEF Spec, Generations

------------------------------------------------------------------------------
(* The two-poll handshake.  A waiting test knows that it was offered; a      *)
(* ready response implies that knowledge, and the recording plays only       *)
(* behind a ready response.                                                  *)

Offered(g) == \E b \in advertised : b.generation = g /\ ~b.test_ready

SeenWasOffered ==
    \A i \in Rx :
        /\ test_sample[i] # Nil => test_job_seen[i]
        /\ test_job_seen[i] => running[i] /\ test[i] /\ Offered(generation[i])

ReadyWasSeen ==
    \A i \in Rx : \A a \in advertised :
        /\ running[i] /\ test[i]
        /\ a.generation = generation[i] /\ a.test_ready
        => test_job_seen[i]

RepliesAreAdvertised ==
    \A m \in Monitors :
        reply[m] # Nil =>
            /\ reply[m].job \in advertised
            /\ reply[m].arm => reply[m].job.test /\ reply[m].job.test_ready
            /\ reply[m].rx # Nil => reply[m].job.rx_channel = reply[m].rx

IdleNeverReady == \A a \in advertised : ~a.running => ~a.test_ready

Handshake ==
    /\ IdleNeverReady
    /\ SeenWasOffered
    /\ ReadyWasSeen
    /\ RepliesAreAdvertised
    /\ ReadyOnlyAfterOffer
    /\ PlaysBehindResponse

Invariant == TypeOK /\ Ownership /\ Generations /\ Handshake

\* Only the owner runs, so nobody runs while nobody owns the decoder.
LEMMA RunnerIsOwner ==
    ASSUME Invariant, NEW i \in Rx, running[i]
    PROVE  OwnerRuns /\ active_rx = i
  BY NilAssumption DEF Invariant, Ownership, SingleOwner, OwnerRuns

\* A response that still concerns the running test says it is a test.
LEMMA StillTestingJob ==
    ASSUME Invariant, NEW m \in Monitors, reply[m] # Nil,
           StillTesting(reply[m])
    PROVE  /\ reply[m].rx \in Rx
           /\ reply[m].job \in advertised
           /\ reply[m].job.test
           /\ reply[m].job.rx_channel = reply[m].rx
  <1> DEFINE r == reply[m]
  <1>1. r \in Response /\ r.rx \in Rx
    BY DEF Invariant, TypeOK, StillTesting, Response
  <1>2. r.job \in advertised /\ r.job.rx_channel = r.rx
    BY <1>1 DEF Invariant, Handshake, RepliesAreAdvertised, StillTesting
  <1>3. OwnerRuns /\ active_rx = r.rx
    BY <1>1, RunnerIsOwner DEF StillTesting
  <1>4. r.job.generation = next_generation - 1
    BY <1>3 DEF StillTesting, Invariant, Generations, OwnerIsLatest
  <1>5. Essence(r.job) = CurrentEssence
    BY <1>2, <1>4 DEF Invariant, Generations
  <1>6. r.job.test = test[r.rx]
    BY <1>3, <1>5 DEF Essence, CurrentEssence
  <1>7. QED
    BY <1>1, <1>2, <1>6 DEF StillTesting

LEMMA NextHandshake ==
    ASSUME Invariant, [Next]_vars
    PROVE  Handshake'
  <1> USE DEF Handshake, IdleNeverReady
  <1> TypeOK /\ Ownership /\ Generations /\ Handshake
    BY DEF Invariant
  <1> \A a \in advertised : a.generation < next_generation
    BY DEF Generations
  <1>1. ASSUME NEW i \in Rx, NEW m \in Modes, NEW asTest \in BOOLEAN,
               NEW report \in BOOLEAN, Begin(i, m, asTest, report)
        PROVE  Handshake'
    <2>1. /\ UNCHANGED <<advertised, reply>>
          /\ running' = [running EXCEPT ![i] = TRUE]
          /\ test' = [test EXCEPT ![i] = asTest]
          /\ generation' = [generation EXCEPT ![i] = next_generation]
          /\ test_job_seen' = [test_job_seen EXCEPT ![i] = FALSE]
          /\ test_sample' = [test_sample EXCEPT ![i] = Nil]
      BY <1>1 DEF Begin, polls, ResetTest
    <2>2. SeenWasOffered'
      BY <2>1 DEF SeenWasOffered, Offered, TypeOK
    <2>3. ReadyWasSeen'
      BY <2>1 DEF ReadyWasSeen, TypeOK, DecoderJob
    <2>4. PlaysBehindResponse'
      BY <2>1 DEF PlaysBehindResponse, TypeOK
    <2>5. QED
      BY <2>1, <2>2, <2>3, <2>4 DEF ReadyOnlyAfterOffer, RepliesAreAdvertised
  <1>2. ASSUME NEW i \in Rx, freedv_stop(i)
        PROVE  Handshake'
    <2>1. /\ UNCHANGED <<advertised, reply>>
          /\ running'[i] = FALSE
          /\ \A j \in Rx \ {i} :
                /\ running'[j] = running[j] /\ test'[j] = test[j]
                /\ generation'[j] = generation[j]
          /\ test_job_seen' = [test_job_seen EXCEPT ![i] = FALSE]
          /\ test_sample' = [test_sample EXCEPT ![i] = Nil]
      BY <1>2 DEF freedv_stop, polls, ResetTest, TypeOK
    <2>2. SeenWasOffered'
      BY <2>1 DEF SeenWasOffered, Offered, TypeOK
    <2>3. ReadyWasSeen'
      BY <2>1 DEF ReadyWasSeen, TypeOK
    <2>4. PlaysBehindResponse'
      BY <2>1 DEF PlaysBehindResponse, TypeOK
    <2>5. QED
      BY <2>1, <2>2, <2>3, <2>4 DEF ReadyOnlyAfterOffer, RepliesAreAdvertised
  <1>3. ASSUME NEW m \in Monitors, freedv_monitor_poll(m)
        PROVE  Handshake'
    <2> DEFINE job == CurrentResponse.job
    <2>1. /\ advertised' = advertised \cup {job}
          /\ reply' = [reply EXCEPT ![m] = CurrentResponse]
          /\ UNCHANGED <<running, active_rx, test>>
      BY <1>3 DEF freedv_monitor_poll, session
    <2>2. /\ CurrentResponse.arm => job.test /\ job.test_ready
          /\ CurrentResponse.rx # Nil => job.rx_channel = CurrentResponse.rx
      BY DEF CurrentResponse, OwnerJob, ArmsTest, TestReady
    <2>3. job.test /\ job.test_ready =>
             /\ OwnerRuns /\ ~OwnerMoved /\ active_rx \in Rx
             /\ job.generation = generation[active_rx]
             /\ test_job_seen[active_rx]
      BY DEF CurrentResponse, OwnerJob, IdleJob, ArmsTest, TestReady,
             OwnerRuns, SeenWasOffered, TypeOK
    <2>4. \A i \in Rx : test_job_seen'[i] \/ test_sample'[i] # Nil =>
             /\ test_job_seen[i]
             /\ test_sample'[i] = test_sample[i]
             /\ generation'[i] = generation[i]
      <3>1. CASE OwnerMoved
        <4>1. active_rx \in Rx /\ Retune(active_rx)
          BY <1>3, <3>1 DEF freedv_monitor_poll, OwnerMoved, OwnerRuns, TypeOK
        <4>2. CASE test[active_rx]
          BY <4>1, <4>2 DEF Retune, TypeOK, SeenWasOffered
        <4>3. CASE ~test[active_rx]
          BY <4>1, <4>3 DEF Retune, TypeOK, SeenWasOffered
        <4>4. QED
          BY <4>2, <4>3
      <3>2. CASE ~OwnerMoved
        BY <1>3, <3>2 DEF freedv_monitor_poll, identity, SeenWasOffered
      <3>3. QED
        BY <3>1, <3>2
    <2>5. SeenWasOffered'
      <3> SUFFICES ASSUME NEW i \in Rx
                   PROVE  /\ test_sample'[i] # Nil => test_job_seen'[i]
                          /\ test_job_seen'[i] =>
                                /\ running'[i] /\ test'[i]
                                /\ \E b \in advertised' :
                                      /\ b.generation = generation'[i]
                                      /\ ~b.test_ready
        BY DEF SeenWasOffered, Offered
      <3>1. test_sample'[i] # Nil => test_job_seen'[i]
        <4>1. CASE OwnerMoved /\ active_rx = i
          BY <1>3, <4>1 DEF freedv_monitor_poll, Retune, TypeOK, SeenWasOffered
        <4>2. CASE ~OwnerMoved
          BY <1>3, <4>2 DEF freedv_monitor_poll, SeenWasOffered
        <4>3. CASE OwnerMoved /\ active_rx # i
          <5>1. UNCHANGED <<test_sample[i], test_job_seen[i]>>
            BY <1>3, <4>3 DEF freedv_monitor_poll, Retune, TypeOK
          <5>2. QED
            BY <5>1 DEF SeenWasOffered
        <4>4. QED
          BY <4>1, <4>2, <4>3
      <3>2. QED
        BY <2>1, <2>4, <3>1 DEF SeenWasOffered, Offered
    <2>6. ReadyWasSeen'
      <3> SUFFICES ASSUME NEW i \in Rx, NEW a \in advertised',
                          running[i], test[i],
                          a.generation = generation'[i], a.test_ready
                   PROVE  test_job_seen'[i]
        BY <2>1 DEF ReadyWasSeen
      <3>1. OwnerRuns /\ active_rx = i
        BY RunnerIsOwner
      <3>2. CASE OwnerMoved
        <4>1. generation'[i] = next_generation
          BY <1>3, <3>1, <3>2 DEF freedv_monitor_poll, Retune, TypeOK
        <4>2. a \notin advertised
          BY <4>1 DEF TypeOK
        <4>3. a = job /\ job.test
          BY <2>1, <3>1, <4>2 DEF CurrentResponse, OwnerJob
        <4>4. QED
          BY <2>3, <3>2, <4>3
      <3>3. CASE ~OwnerMoved
        <4>1. generation' = generation /\ test_job_seen' = test_job_seen
          BY <1>3, <3>3 DEF freedv_monitor_poll, identity
        <4>2. CASE a \in advertised
          BY <4>1, <4>2 DEF ReadyWasSeen
        <4>3. CASE a = job
          <5>1. job.test
            BY <3>1 DEF CurrentResponse, OwnerJob
          <5>2. QED
            BY <2>3, <3>1, <4>1, <4>3, <5>1
        <4>4. QED
          BY <2>1, <4>2, <4>3
      <3>4. QED
        BY <3>2, <3>3
    <2>7. RepliesAreAdvertised'
      BY <2>1, <2>2 DEF RepliesAreAdvertised, TypeOK
    <2>8. ReadyOnlyAfterOffer'
      <3>1. job.test /\ job.test_ready => Offered(job.generation)
        BY <2>3 DEF SeenWasOffered
      <3>2. QED
        BY <2>1, <3>1 DEF ReadyOnlyAfterOffer, Offered
    <2>9. PlaysBehindResponse'
      BY <2>1, <2>4 DEF PlaysBehindResponse
    <2>10. IdleNeverReady'
      BY <2>1 DEF CurrentResponse, OwnerJob, IdleJob
    <2>11. QED
      BY <2>5, <2>6, <2>7, <2>8, <2>9, <2>10
  <1>4. ASSUME NEW m \in Monitors, FinishPoll(m)
        PROVE  Handshake'
    <2> DEFINE r == reply[m]
    <2>1. /\ reply[m] # Nil
          /\ reply' = [reply EXCEPT ![m] = Nil]
          /\ UNCHANGED <<advertised, running, test, generation>>
      BY <1>4 DEF FinishPoll, session, identity
    <2>2. CASE StillTesting(r)
      <3>1. /\ r.rx \in Rx /\ r.job \in advertised
            /\ r.job.test /\ r.job.rx_channel = r.rx
            /\ r.job.generation = generation[r.rx]
            /\ running[r.rx] /\ test[r.rx]
        BY <2>1, <2>2, StillTestingJob DEF StillTesting
      <3>2. Offered(generation[r.rx])
        BY <3>1 DEF ReadyOnlyAfterOffer, Offered
      <3>3. /\ test_job_seen' = [test_job_seen EXCEPT ![r.rx] = TRUE]
            /\ \A i \in Rx : test_sample'[i] # test_sample[i] =>
                  i = r.rx /\ r.arm
        BY <1>4, <2>2, <3>1 DEF FinishPoll, TypeOK
      <3>4. SeenWasOffered'
        BY <2>1, <3>1, <3>2, <3>3 DEF SeenWasOffered, Offered, TypeOK
      <3>5. ReadyWasSeen'
        BY <2>1, <3>3 DEF ReadyWasSeen, TypeOK
      <3>6. RepliesAreAdvertised'
        BY <2>1 DEF RepliesAreAdvertised, TypeOK
      <3>7. PlaysBehindResponse'
        BY <2>1, <3>1, <3>3 DEF PlaysBehindResponse, RepliesAreAdvertised
      <3>8. QED
        BY <2>1, <3>4, <3>5, <3>6, <3>7 DEF ReadyOnlyAfterOffer
    <2>3. CASE ~StillTesting(r)
      <3>1. UNCHANGED <<test_job_seen, test_sample>>
        BY <1>4, <2>3 DEF FinishPoll
      <3>2. RepliesAreAdvertised'
        BY <2>1 DEF RepliesAreAdvertised, TypeOK
      <3>3. QED
        BY <2>1, <3>1, <3>2
           DEF SeenWasOffered, Offered, ReadyWasSeen, ReadyOnlyAfterOffer,
               PlaysBehindResponse
    <2>4. QED
      BY <2>2, <2>3
  <1>5. ASSUME NEW i \in Rx, freedv_test_audio(i)
        PROVE  Handshake'
    <2>1. /\ UNCHANGED <<advertised, reply, running, test, generation,
                         test_job_seen>>
          /\ test_sample[i] # Nil
          /\ \A j \in Rx : j # i => test_sample'[j] = test_sample[j]
      BY <1>5 DEF freedv_test_audio, polls, session, identity, TypeOK
    <2>2. QED
      BY <2>1
         DEF SeenWasOffered, Offered, ReadyWasSeen, RepliesAreAdvertised,
             ReadyOnlyAfterOffer, PlaysBehindResponse
  <1>6. CASE UNCHANGED <<advertised, reply, running, test, generation,
                         test_job_seen, test_sample>>
    BY <1>6
       DEF SeenWasOffered, Offered, ReadyWasSeen, RepliesAreAdvertised,
           ReadyOnlyAfterOffer, PlaysBehindResponse
  <1>7. QED
    BY <1>1, <1>2, <1>3, <1>4, <1>5, <1>6, NextCases
       DEF freedv_receive_cmds, freedv_poll, Tune, SwitchReporter, vars,
           session, identity, polls, testVars

LEMMA InvariantCorrect == Spec => []Invariant
  <1>1. Init => Invariant
    <2>1. Init => Ownership /\ Generations
      BY NilAssumption
         DEF Init, Ownership, SingleOwner, GateFollowsSession, Generations,
             OwnerIsLatest, OwnerRuns, GenerationNamesJob
    <2>2. Init => Handshake
      BY DEF Init, Handshake, IdleNeverReady, SeenWasOffered, ReadyWasSeen,
             RepliesAreAdvertised, ReadyOnlyAfterOffer, PlaysBehindResponse
    <2>3. QED
      BY <2>1, <2>2, InitType DEF Invariant
  <1>2. Invariant /\ [Next]_vars => Invariant'
    BY NextType, NextOwnership, NextGenerations, NextHandshake DEF Invariant
  <1>3. QED
    BY <1>1, <1>2, PTL DEF Spec

\* A decoder that obeys test_ready has always had a poll to build its camper.
THEOREM ReadyOnlyAfterOfferCorrect == Spec => []ReadyOnlyAfterOffer
  <1>1. Invariant => ReadyOnlyAfterOffer
    BY DEF Invariant, Handshake
  <1>2. QED
    BY <1>1, InvariantCorrect, PTL

\* The recording never overtakes the response that announces it, whatever
\* happens while the response is sent.
THEOREM PlaysBehindResponseCorrect == Spec => []PlaysBehindResponse
  <1>1. Invariant => PlaysBehindResponse
    BY DEF Invariant, Handshake
  <1>2. QED
    BY <1>1, InvariantCorrect, PTL

\* The decoder never sees a ready test become unready within a generation.
THEOREM ReadyNeverWithdrawnCorrect == Spec => ReadyNeverWithdrawn
  <1>1. ASSUME Invariant, [Next]_vars PROVE [KeepsReady]_vars
    <2> SUFFICES ASSUME NEW m \in Monitors, reply[m] = Nil, reply'[m] # Nil,
                        NEW a \in advertised,
                        a.generation = reply'[m].job.generation, a.test_ready
                 PROVE  reply'[m].job.test_ready
      BY DEF KeepsReady
    <2> TypeOK /\ Ownership /\ Generations /\ Handshake
      BY <1>1 DEF Invariant
    <2> DEFINE job == CurrentResponse.job
    <2>1. freedv_monitor_poll(m)
      <3>1. ASSUME NEW n \in Monitors, n # m,
                   freedv_monitor_poll(n) \/ FinishPoll(n)
            PROVE  reply'[m] = reply[m]
        BY <3>1 DEF freedv_monitor_poll, FinishPoll, TypeOK
      <3>2. ~FinishPoll(m)
        BY DEF FinishPoll
      <3>3. reply' # reply
        OBVIOUS
      <3>4. QED
        BY <1>1, <3>1, <3>2, <3>3, NextCases
           DEF Begin, freedv_stop, freedv_receive_cmds, freedv_poll,
               freedv_test_audio, Tune, SwitchReporter, polls, vars
    <2>2. reply'[m].job = job
      BY <2>1 DEF freedv_monitor_poll, TypeOK
    <2>3. a.generation \in Nat /\ a.generation < next_generation
      BY DEF Generations, TypeOK, DecoderJob
    <2>4. CASE OwnerRuns
      <3>1. job = OwnerJob
        BY <2>4 DEF CurrentResponse
      <3>2. ~OwnerMoved /\ OwnerJob.generation = generation[active_rx]
        BY <2>2, <2>3, <3>1 DEF OwnerJob
      <3>3. OwnerJob.test_ready = TestReady
        BY DEF OwnerJob
      <3>4. CASE test[active_rx]
        <4>1. active_rx \in Rx
          BY <2>4 DEF OwnerRuns, TypeOK
        <4>2. test_job_seen[active_rx]
          BY <2>2, <2>4, <3>1, <3>2, <3>4, <4>1
             DEF Handshake, ReadyWasSeen, OwnerRuns
        <4>3. QED
          BY <2>2, <2>4, <3>1, <3>2, <3>3, <3>4, <4>2 DEF TestReady, ArmsTest
      <3>5. CASE ~test[active_rx]
        BY <2>2, <3>1, <3>3, <3>5 DEF TestReady
      <3>6. QED
        BY <3>4, <3>5
    <2>5. CASE ~OwnerRuns
      <3>1. a.generation = next_generation - 1
        BY <2>2, <2>5 DEF CurrentResponse, IdleJob
      <3>2. Essence(a) = Essence(IdleJob(next_generation - 1))
        BY <2>5, <3>1 DEF Generations, CurrentEssence
      <3>3. a.running = FALSE
        BY <3>2 DEF Essence, IdleJob
      <3>4. QED
        BY <3>3 DEF Handshake, IdleNeverReady
    <2>6. QED
      BY <2>4, <2>5
  <1>2. QED
    BY <1>1, InvariantCorrect, PTL DEF Spec, ReadyNeverWithdrawn

\* A recording is never started a second time within its generation.
THEOREM NoRewindCorrect == Spec => NoRewind
  <1>1. ASSUME Invariant, [Next]_vars PROVE [PlaysOn]_vars
    <2> SUFFICES ASSUME NEW i \in Rx, generation'[i] = generation[i],
                        test_sample[i] # Nil
                 PROVE  /\ test_sample'[i] # Nil
                        /\ test_sample'[i] >= test_sample[i]
      BY DEF PlaysOn
    <2> TypeOK /\ Ownership /\ Generations /\ Handshake
      BY <1>1 DEF Invariant
    <2>1. test_sample[i] \in Nat /\ running[i]
      BY DEF Handshake, SeenWasOffered, TypeOK
    <2>2. generation[i] < next_generation /\ generation[i] \in Nat
      BY DEF Generations, TypeOK
    <2>3. ASSUME test_sample'[i] = test_sample[i]
          PROVE  /\ test_sample'[i] # Nil
                 /\ test_sample'[i] >= test_sample[i]
      BY <2>1, <2>3
    <2>4. ASSUME NEW j \in Rx,
                 \/ \E m \in Modes, asTest, report \in BOOLEAN :
                       Begin(j, m, asTest, report)
                 \/ freedv_stop(j)
          PROVE  test_sample'[i] = test_sample[i]
      <3>1. j # i
        BY <2>1, <2>2, <2>4 DEF Begin, freedv_stop, TypeOK
      <3>2. QED
        BY <2>4, <3>1 DEF Begin, freedv_stop, ResetTest, TypeOK
    <2>5. ASSUME NEW m \in Monitors, freedv_monitor_poll(m)
          PROVE  test_sample'[i] = test_sample[i]
      <3>1. CASE OwnerMoved
        <4>1. active_rx # i
          BY <2>2, <2>5, <3>1 DEF freedv_monitor_poll, Retune, TypeOK
        <4>2. QED
          BY <2>5, <3>1, <4>1 DEF freedv_monitor_poll, Retune, TypeOK
      <3>2. CASE ~OwnerMoved
        BY <2>5, <3>2 DEF freedv_monitor_poll
      <3>3. QED
        BY <3>1, <3>2
    <2>6. ASSUME NEW m \in Monitors, FinishPoll(m)
          PROVE  test_sample'[i] = test_sample[i]
      BY <2>6 DEF FinishPoll, TypeOK
    <2>7. ASSUME NEW j \in Rx, freedv_test_audio(j)
          PROVE  /\ test_sample'[i] # Nil
                 /\ test_sample'[i] >= test_sample[i]
      <3>1. CASE i = j
        <4>1. test_sample'[i] = AfterBlock(test_sample[i])
          BY <2>7, <3>1 DEF freedv_test_audio, TypeOK
        <4>2. QED
          BY <2>1, <4>1, NilAssumption DEF AfterBlock
      <3>2. CASE i # j
        BY <2>1, <2>7, <3>2 DEF freedv_test_audio, TypeOK
      <3>3. QED
        BY <3>1, <3>2
    <2>8. QED
      BY <1>1, <2>3, <2>4, <2>5, <2>6, <2>7, NextCases
         DEF freedv_receive_cmds, freedv_poll, Tune, SwitchReporter, testVars,
             vars
  <1>2. QED
    BY <1>1, InvariantCorrect, PTL DEF Spec, NoRewind

------------------------------------------------------------------------------
(* Messages and queues.                                                    *)

\* What is sent is a message.
LEMMA MessageTypes ==
    /\ Poll \in Uplink
    /\ \A rx \in Rx \cup {Nil} : Camp(rx) \in Uplink
    /\ \A g \in Nat : Status(g) \in Uplink
    /\ Greeting \in Downlink /\ CampDisconnect \in Downlink
    /\ \A job \in DecoderJob : Job(job) \in Downlink
    /\ \A rx \in Rx : Sound(rx) \in Downlink
    /\ \A rx \in Rx, ok \in BOOLEAN : Camped(rx, ok) \in Downlink
<1>1. Poll \in Uplink
  BY DEF Poll, Uplink
<1>2. \A rx \in Rx \cup {Nil} : Camp(rx) \in Uplink
  BY DEF Camp, Uplink
<1>3. \A g \in Nat : Status(g) \in Uplink
  BY DEF Status, Uplink
<1>4. Greeting \in Downlink /\ CampDisconnect \in Downlink
  BY DEF Greeting, CampDisconnect, Downlink
<1>5. \A job \in DecoderJob : Job(job) \in Downlink
  BY DEF Job, Downlink
<1>6. \A rx \in Rx : Sound(rx) \in Downlink
  BY DEF Sound, Downlink
<1>7. \A rx \in Rx, ok \in BOOLEAN : Camped(rx, ok) \in Downlink
  BY DEF Camped, Downlink
<1> QED
  BY <1>1, <1>2, <1>3, <1>4, <1>5, <1>6, <1>7

\* The fields of a message follow from its type.
LEMMA DownlinkFields ==
    ASSUME NEW message \in Downlink
    PROVE  /\ message.type = "job" => message.job \in DecoderJob
           /\ message.type = "camped" => message.rx \in Rx /\ message.ok \in BOOLEAN
           /\ message.type = "SND" => message.rx \in Rx
BY DEF Downlink

LEMMA UplinkFields ==
    ASSUME NEW message \in Uplink
    PROVE  /\ message.type = "camp" => message.rx \in Rx \cup {Nil}
           /\ message.type = "status" => message.generation \in Nat
BY DEF Uplink

\* A queue without its first message.
LEMMA WithoutHead ==
    ASSUME NEW T, NEW s \in Seq(T), s # <<>>
    PROVE  /\ Tail(s) \in Seq(T) /\ Head(s) \in T /\ Head(s) = s[1]
           /\ Len(s) \in Nat \ {0}
           /\ DOMAIN s = 1..Len(s) /\ DOMAIN Tail(s) = 1..Len(s) - 1
           /\ \A n \in DOMAIN Tail(s) : n + 1 \in DOMAIN s /\ Tail(s)[n] = s[n + 1]
<1>1. Tail(s) \in Seq(T) /\ Head(s) \in T /\ Len(Tail(s)) = Len(s) - 1
      /\ \A i \in 1..Len(Tail(s)) : Tail(s)[i] = s[i + 1]
  BY HeadTailProperties
<1>2. Len(s) \in Nat \ {0} /\ DOMAIN s = 1..Len(s) /\ DOMAIN Tail(s) = 1..Len(Tail(s))
  BY <1>1, LenProperties, EmptySeq
<1>3. Head(s) = s[1]
  OBVIOUS
<1>4. \A n \in 1..Len(s) - 1 : n + 1 \in 1..Len(s)
  BY <1>2
<1> QED
  BY <1>1, <1>2, <1>3, <1>4

\* A queue with a message more.
LEMMA WithOneMore ==
    ASSUME NEW T, NEW s \in Seq(T), NEW e \in T
    PROVE  /\ Append(s, e) \in Seq(T) /\ Len(s) \in Nat
           /\ DOMAIN s = 1..Len(s) /\ DOMAIN Append(s, e) = 1..Len(s) + 1
           /\ Append(s, e)[Len(s) + 1] = e
           /\ \A n \in DOMAIN s : Append(s, e)[n] = s[n]
<1>1. Append(s, e) \in Seq(T) /\ Len(Append(s, e)) = Len(s) + 1
      /\ \A i \in 1..Len(s) : Append(s, e)[i] = s[i]
      /\ Append(s, e)[Len(s) + 1] = e
  BY AppendProperties
<1> QED
  BY <1>1, LenProperties

\* Everything in a queue and a few messages more.
LEMMA Joined ==
    ASSUME NEW T, NEW s \in Seq(T), NEW t \in Seq(T)
    PROVE  /\ s \o t \in Seq(T)
           /\ \A n \in DOMAIN (s \o t) :
                  \/ \E k \in DOMAIN s : (s \o t)[n] = s[k]
                  \/ \E k \in DOMAIN t : (s \o t)[n] = t[k]
<1>1. /\ s \o t \in Seq(T) /\ Len(s \o t) = Len(s) + Len(t)
      /\ \A i \in 1..Len(s) + Len(t) :
             (s \o t)[i] = IF i <= Len(s) THEN s[i] ELSE t[i - Len(s)]
  BY ConcatProperties
<1>2. /\ Len(s) \in Nat /\ Len(t) \in Nat
      /\ DOMAIN s = 1..Len(s) /\ DOMAIN t = 1..Len(t)
      /\ DOMAIN (s \o t) = 1..Len(s) + Len(t)
  BY <1>1, LenProperties
<1>3. ASSUME NEW n \in 1..Len(s) + Len(t)
      PROVE  \/ \E k \in DOMAIN s : (s \o t)[n] = s[k]
             \/ \E k \in DOMAIN t : (s \o t)[n] = t[k]
  <2>1. CASE n <= Len(s)
    BY <1>1, <1>2, <2>1
  <2>2. CASE ~(n <= Len(s))
    <3>1. n - Len(s) \in DOMAIN t
      BY <1>2, <2>2
    <3> QED
      BY <1>1, <2>2, <3>1
  <2> QED
    BY <2>1, <2>2
<1> QED
  BY <1>1, <1>2, <1>3

------------------------------------------------------------------------------
(* The decoder's handlers.                                                 *)

\* What the comparison of two jobs says of them.
LEMMA Classified ==
    ASSUME NEW a \in DecoderJob, NEW b \in DecoderJob
    PROVE  /\ classify_job(a, b) = "changed" => b.generation > a.generation
           /\ classify_job(a, b) = "conflict" =>
                  b.generation = a.generation /\ b # a
           /\ classify_job(a, b) \in {"stale", "unchanged"} =>
                  b.generation < a.generation \/ b = a
<1>1. a.generation \in Nat /\ b.generation \in Nat
  BY DEF DecoderJob
<1> QED
  BY <1>1 DEF classify_job

OfGeneration(messages, g) ==
    \A n \in DOMAIN messages :
        messages[n].type = "status" => messages[n].generation = g

\* The handler of a message answers it, with statuses of the job it leaves.
Replies ==
    \E messages \in Seq(Uplink) :
        Answer(messages) /\ OfGeneration(messages, job_'.generation)

\* The connection ends and a new camper is made.
Ends ==
    /\ FreshCamper(<<>>)
    /\ connected' = FALSE /\ camped_rx' = Nil

\* Two short lists joined.
LEMMA ShortLists ==
    /\ <<>> \o <<>> = <<>>
    /\ \A x : <<>> \o <<x>> = <<x>> /\ <<x>> \o <<>> = <<x>>
    /\ \A x, y : <<x>> \o <<y>> = <<x, y>>
<1>1. <<>> \o <<>> = <<>>
  BY ConcatEmptySeq, EmptySeq
<1>2. ASSUME NEW x PROVE <<>> \o <<x>> = <<x>> /\ <<x>> \o <<>> = <<x>>
  <2>1. <<x>> \in Seq({x})
    OBVIOUS
  <2> QED
    BY <2>1, ConcatEmptySeq
<1>3. ASSUME NEW x, NEW y PROVE <<x>> \o <<y>> = <<x, y>>
  <2> DEFINE T == {x, y}
             s == <<x>> \o <<y>>
             t == <<x, y>>
  <2>1. <<x>> \in Seq(T) /\ <<y>> \in Seq(T) /\ t \in Seq(T)
    OBVIOUS
  <2>2. /\ s \in Seq(T) /\ Len(s) = 2
        /\ \A i \in 1..2 : s[i] = IF i <= 1 THEN <<x>>[i] ELSE <<y>>[i - 1]
    BY <2>1, ConcatProperties
  <2>3. Len(t) = 2 /\ \A i \in 1..2 : s[i] = t[i]
    BY <2>2
  <2> HIDE DEF s, t, T
  <2>4. s = t
    BY <2>1, <2>2, <2>3, SeqEqual
  <2> QED
    BY <2>4 DEF s, t
<1> QED
  BY <1>1, <1>2, <1>3

\* The few lists of messages the handlers send.
LEMMA SmallReplies ==
    ASSUME NEW g \in Nat, NEW rx \in Rx \cup {Nil}
    PROVE  \A messages \in {<<>>, <<Poll>>, <<Camp(rx)>>, <<Camp(rx), Poll>>,
                            <<Status(g)>>, <<Status(g), Poll>>,
                            <<Camp(rx), Status(g)>>} :
               messages \in Seq(Uplink) /\ OfGeneration(messages, g)
<1> DEFINE p == Poll
           c == Camp(rx)
           s == Status(g)
<1>1. p \in Uplink /\ c \in Uplink /\ s \in Uplink
  BY MessageTypes
<1>2. /\ p.type # "status" /\ c.type # "status"
      /\ s.generation = g
  BY DEF Poll, Camp, Status
<1> HIDE DEF p, c, s
<1>3. /\ <<>> \in Seq(Uplink) /\ <<p>> \in Seq(Uplink) /\ <<c>> \in Seq(Uplink)
      /\ <<c, p>> \in Seq(Uplink) /\ <<s>> \in Seq(Uplink)
      /\ <<s, p>> \in Seq(Uplink) /\ <<c, s>> \in Seq(Uplink)
  BY <1>1
<1>4. /\ OfGeneration(<<>>, g) /\ OfGeneration(<<p>>, g) /\ OfGeneration(<<c>>, g)
      /\ OfGeneration(<<c, p>>, g) /\ OfGeneration(<<s>>, g)
      /\ OfGeneration(<<s, p>>, g) /\ OfGeneration(<<c, s>>, g)
  BY <1>2 DEF OfGeneration
<1> QED
  BY <1>3, <1>4 DEF p, c, s

\* A job that arrives is answered in one of four ways, or ends the connection.
LEMMA JobCases ==
    ASSUME CamperTypeOK, ReceiveJob
    PROVE  /\ Arrives("job") /\ down # <<>>
           /\ Head(down).job \in DecoderJob
           /\ \/ Conflict(Head(down).job) /\ Ends
              \/ /\ UNCHANGED <<connected, camped_rx>>
                 /\ \/ ArmTest(Head(down).job) \/ KeepJob(Head(down).job)
                    \/ StopJob(Head(down).job) \/ StartJob(Head(down).job)
<1>1. Arrives("job") /\ down # <<>>
  BY DEF ReceiveJob, apply_job, Arrives
<1>2. Head(down) \in Downlink
  BY <1>1, WithoutHead DEF CamperTypeOK
<1>3. Head(down).job \in DecoderJob
  BY <1>1, <1>2, DownlinkFields DEF Arrives
<1> DEFINE incoming == Head(down).job
<1>4. ASSUME ArmTest(incoming) \/ KeepJob(incoming) \/ StopJob(incoming)
                \/ StartJob(incoming)
      PROVE  ~Conflict(incoming)
  BY <1>4 DEF ArmTest, KeepJob, StopJob, StartJob, Conflict
<1> QED
  BY <1>1, <1>3, <1>4 DEF ReceiveJob, apply_job, Ends

\* The steps of the decoder that take a message.
LEMMA Handled ==
    ASSUME CamperTypeOK, ReceiveJob \/ ReceiveControl \/ ReceiveSound
    PROVE  /\ down # <<>>
           /\ UNCHANGED vars /\ UNCHANGED drops
           /\ \/ Ends
              \/ /\ Replies
                 /\ job_' \in DecoderJob /\ backend_' \in BOOLEAN
                 /\ control_ready_' \in BOOLEAN
                 /\ camped_channel_' \in Rx \cup {Nil}
                 /\ UNCHANGED <<connected, camped_rx>>
<1>0. job_ \in DecoderJob /\ job_.generation \in Nat
  BY DEF CamperTypeOK, DecoderJob
<1>1. CASE ReceiveJob
  <2> DEFINE incoming == Head(down).job
  <2>1. /\ Arrives("job") /\ down # <<>> /\ incoming \in DecoderJob
        /\ UNCHANGED vars /\ UNCHANGED drops
    BY <1>1, JobCases DEF ReceiveJob
  <2>2. incoming.generation \in Nat /\ incoming.rx_channel \in Rx \cup {Nil}
    BY <2>1 DEF DecoderJob
  <2>3. CASE ArmTest(incoming)
    <3>1. job_' = [job_ EXCEPT !.test_ready = TRUE] /\ Answer(<<>>)
          /\ UNCHANGED <<control_ready_, camped_channel_, backend_>>
      BY <2>3 DEF ArmTest
    <3>2. job_' \in DecoderJob /\ job_'.generation = job_.generation
      BY <1>0, <3>1 DEF DecoderJob
    <3>3. Replies
      BY <1>0, <3>1, <3>2, SmallReplies DEF Replies
    <3> QED
      BY <1>1, <2>1, <2>3, <3>1, <3>2, <3>3, JobCases
      DEF CamperTypeOK, Conflict, ArmTest, ReceiveJob
  <2>4. CASE KeepJob(incoming)
    <3>1. /\ job_' = job_ /\ (Answer(<<>>) \/ Answer(<<Poll>>))
          /\ UNCHANGED <<control_ready_, camped_channel_, backend_>>
          /\ ~Conflict(incoming)
      BY <2>4 DEF KeepJob, PollIfIdle, Conflict
    <3>2. Replies
      BY <1>0, <3>1, SmallReplies DEF Replies
    <3> QED
      BY <1>1, <2>1, <3>1, <3>2 DEF CamperTypeOK, ReceiveJob
  <2>5. CASE StopJob(incoming)
    <3>1. /\ job_' = incoming /\ camped_channel_' = Nil /\ backend_' = FALSE
          /\ UNCHANGED control_ready_
          /\ ~Conflict(incoming)
      BY <2>5 DEF StopJob, Conflict
    <3>2. Answer((IF camped_channel_ # Nil THEN <<Camp(Nil)>> ELSE <<>>)
                     \o (IF incoming.running THEN <<>> ELSE <<Poll>>))
      BY <2>5 DEF StopJob, PollIfIdle
    <3>3. Answer(<<>>) \/ Answer(<<Poll>>) \/ Answer(<<Camp(Nil)>>)
            \/ Answer(<<Camp(Nil), Poll>>)
      BY <3>2, ShortLists, Zenon
    <3>4. Replies
      BY <2>2, <3>1, <3>3, SmallReplies DEF Replies
    <3> QED
      BY <1>1, <2>1, <3>1, <3>4 DEF CamperTypeOK, ReceiveJob
  <2>6. CASE StartJob(incoming)
    <3>1. /\ job_' = incoming /\ backend_' = TRUE
          /\ UNCHANGED <<control_ready_, camped_channel_>>
          /\ ~Conflict(incoming)
      BY <2>6 DEF StartJob, Conflict
    <3>2. Answer((IF NeedsCamp(incoming) THEN <<Camp(incoming.rx_channel)>> ELSE <<>>)
                     \o <<Status(incoming.generation)>>)
      BY <2>6 DEF StartJob
    <3>3. \/ Answer(<<Status(incoming.generation)>>)
          \/ Answer(<<Camp(incoming.rx_channel), Status(incoming.generation)>>)
      BY <3>2, ShortLists, Zenon
    <3>4. Replies
      BY <2>2, <3>1, <3>3, SmallReplies DEF Replies
    <3> QED
      BY <1>1, <2>1, <3>1, <3>4 DEF CamperTypeOK, ReceiveJob
  <2> QED
    BY <1>1, <2>1, <2>3, <2>4, <2>5, <2>6, JobCases
<1>2. CASE ReceiveControl
  <2>1. CASE ReceiveMonitor
    BY <1>0, <1>2, <2>1, SmallReplies
       DEF ReceiveControl, ReceiveMonitor, Arrives, Replies, CamperTypeOK, link
  <2>2. CASE ReceiveCamped
    <3>1. Arrives("camped") /\ down # <<>> /\ Head(down).type = "camped"
      BY <2>2 DEF ReceiveCamped, Arrives
    <3>2. Head(down).rx \in Rx
      BY <3>1, WithoutHead, DownlinkFields DEF CamperTypeOK
    <3>3. /\ job_' = job_ /\ UNCHANGED <<control_ready_, backend_>>
          /\ camped_channel_' \in Rx \cup {Nil}
      BY <2>2, <3>2 DEF ReceiveCamped, CamperTypeOK
    <3>4. Answer(<<>>) \/ Answer(<<Status(job_.generation)>> \o
                              (IF WaitingTest THEN <<Poll>> ELSE <<>>))
      BY <2>2 DEF ReceiveCamped
    <3>5. Answer(<<>>) \/ Answer(<<Status(job_.generation)>>)
            \/ Answer(<<Status(job_.generation), Poll>>)
      BY <3>4, ShortLists, Zenon
    <3>6. Replies
      BY <1>0, <3>3, <3>5, SmallReplies DEF Replies
    <3> QED
      BY <1>2, <3>1, <3>3, <3>6 DEF ReceiveControl, CamperTypeOK, link
  <2>3. CASE ReceiveCampDisconnect
    BY <1>0, <1>2, <2>3, SmallReplies
       DEF ReceiveControl, ReceiveCampDisconnect, Arrives, Replies, CamperTypeOK, link
  <2> QED
    BY <1>2, <2>1, <2>2, <2>3 DEF ReceiveControl
<1>3. CASE ReceiveSound
  <2>1. /\ Arrives("SND") /\ job_' = job_
        /\ UNCHANGED <<control_ready_, camped_channel_, backend_, vars, link>>
        /\ Answer(<<>>) \/ Answer(<<Status(job_.generation)>>)
    BY <1>3 DEF ReceiveSound, process_audio
  <2>2. Replies
    BY <1>0, <2>1, SmallReplies DEF Replies
  <2> QED
    BY <2>1, <2>2 DEF Arrives, CamperTypeOK, link
<1> QED
  BY <1>1, <1>2, <1>3

------------------------------------------------------------------------------
(* The extension behind the link.                                          *)

\* Which generations, receivers and handshakes an advertised job can have.
Numbered ==
    /\ \A i \in Rx : running[i] => generation[i] # 0
    /\ \A a \in advertised :
           /\ a.generation = 0 => a = IdleJob(0)
           /\ a.running => a.rx_channel \in Rx /\ (a.test \/ a.test_ready)

\* The types of the link itself.
LinkTypeCore ==
    /\ CamperTypeOK
    /\ connected \in BOOLEAN
    /\ camped_rx \in Rx \cup {Nil}
    /\ drops \in 0..MaxDrops

\* What the extension does behind the link it could do without: every step of
\* the composition is one of KiwiExtension or leaves it alone.
LEMMA ExtensionStep ==
    ASSUME Invariant, Numbered, LinkTypeCore, [LinkNext]_allVars
    PROVE  [Next]_vars
<1>1. ASSUME HandleStatus PROVE [Next]_vars
  <2> DEFINE g == Head(up).generation
  <2>1. CASE camped_rx # Nil /\ Current(camped_rx, g)
    <3>1. camped_rx \in Rx /\ running[camped_rx] /\ g = generation[camped_rx]
      BY <2>1 DEF LinkTypeCore, Current
    <3>2. /\ generation[camped_rx] \in Nat /\ generation[camped_rx] # 0
          /\ next_generation \in Nat
          /\ generation[camped_rx] < next_generation
      BY <3>1 DEF Invariant, TypeOK, Generations, Numbered
    <3>3. g \in 1..next_generation
      BY <3>1, <3>2
    <3>4. freedv_receive_cmds(camped_rx, g)
      BY <1>1, <2>1 DEF HandleStatus
    <3> QED
      BY <3>1, <3>3, <3>4 DEF Next
  <2>2. CASE ~(camped_rx # Nil /\ Current(camped_rx, g))
    BY <1>1, <2>2 DEF HandleStatus
  <2> QED
    BY <2>1, <2>2
<1>2. ASSUME KiwiStep PROVE [Next]_vars
  BY <1>2 DEF KiwiStep, Next
<1>3. ASSUME NEW m \in Monitors, HandlePoll(m) \/ EndPoll(m) PROVE [Next]_vars
  BY <1>3 DEF HandlePoll, EndPoll, Next
<1>4. ASSUME ReceiveJob \/ ReceiveControl \/ ReceiveSound PROVE UNCHANGED vars
  BY <1>4, Handled DEF LinkTypeCore
<1>5. ASSUME Connect \/ Disconnect \/ TimedPoll \/ CampLost \/ SendSound
                \/ \E ok \in BOOLEAN : HandleCamp(ok)
      PROVE  UNCHANGED vars
  BY <1>5 DEF Connect, Disconnect, TimedPoll, CampLost, SendSound, HandleCamp
<1> QED
  BY <1>1, <1>2, <1>3, <1>4, <1>5 DEF LinkNext, allVars

\* A session has a number from the first, and what a poll is told is a job of
\* the owner or of nobody.
LEMMA NextNumbered ==
    ASSUME Invariant, Numbered, [Next]_vars
    PROVE  Numbered'
<1> TypeOK /\ Ownership
  BY DEF Invariant
<1>0. next_generation \in Nat /\ next_generation # 0
  BY DEF TypeOK
<1>1. ASSUME NEW i \in Rx, NEW m \in Modes, NEW asTest \in BOOLEAN,
             NEW report \in BOOLEAN, Begin(i, m, asTest, report)
      PROVE  Numbered'
  BY <1>0, <1>1 DEF Begin, Numbered, TypeOK, polls
<1>2. ASSUME NEW i \in Rx, freedv_stop(i)
      PROVE  Numbered'
  BY <1>0, <1>2 DEF freedv_stop, Numbered, TypeOK, polls
<1>3. ASSUME NEW m \in Monitors, freedv_monitor_poll(m)
      PROVE  Numbered'
  <2> DEFINE job == CurrentResponse.job
  <2>1. advertised' = advertised \cup {job} /\ running' = running
    BY <1>3 DEF freedv_monitor_poll, session
  <2>2. \A i \in Rx : running[i] => generation'[i] # 0
    <3>1. CASE OwnerMoved
      BY <1>0, <1>3, <3>1 DEF freedv_monitor_poll, Retune, Numbered, TypeOK
    <3>2. CASE ~OwnerMoved
      BY <1>3, <3>2 DEF freedv_monitor_poll, identity, Numbered
    <3> QED
      BY <3>1, <3>2
  <2>3. CASE OwnerRuns
    <3>1. active_rx \in Rx /\ running[active_rx] /\ job = OwnerJob
      BY <2>3 DEF OwnerRuns, TypeOK, CurrentResponse
    <3>2. OwnerJob.generation # 0
      BY <1>0, <3>1 DEF OwnerJob, Numbered
    <3>3. OwnerJob.rx_channel \in Rx /\ (OwnerJob.test \/ OwnerJob.test_ready)
      BY <3>1 DEF OwnerJob, TestReady
    <3> QED
      BY <2>1, <2>2, <3>1, <3>2, <3>3 DEF Numbered
  <2>4. CASE ~OwnerRuns
    <3>1. job = IdleJob(next_generation - 1)
      BY <2>4 DEF CurrentResponse, IdleGeneration
    <3>2. job.generation = next_generation - 1 /\ job.running = FALSE
      BY <3>1 DEF IdleJob
    <3>3. job.generation = 0 => job = IdleJob(0)
      BY <3>1, <3>2
    <3> QED
      BY <2>1, <2>2, <3>2, <3>3 DEF Numbered
  <2> QED
    BY <2>3, <2>4
<1>4. CASE UNCHANGED <<running, generation, advertised>>
  BY <1>4 DEF Numbered
<1> QED
  BY <1>1, <1>2, <1>3, <1>4, NextCases
     DEF freedv_receive_cmds, freedv_poll, FinishPoll, freedv_test_audio,
         Tune, SwitchReporter, vars, session, identity, polls, testVars

\* Of two jobs the second may follow the first.
Follows(a, b) ==
    /\ a.generation <= b.generation
    /\ a.generation = b.generation /\ a.test_ready => b.test_ready

\* A response follows every response before it.
LEMMA ResponseFollows ==
    ASSUME Invariant, NEW a \in advertised
    PROVE  Follows(a, CurrentResponse.job)
<1> DEFINE job == CurrentResponse.job
<1> TypeOK /\ Ownership /\ Generations /\ Handshake
  BY DEF Invariant
<1>1. /\ a.generation \in Nat /\ a.generation < next_generation
      /\ next_generation \in Nat
  BY DEF Generations, TypeOK, DecoderJob
<1>2. CASE OwnerRuns /\ OwnerMoved
  <2>1. job.generation = next_generation
    BY <1>2 DEF CurrentResponse, OwnerJob
  <2> QED
    BY <1>1, <2>1 DEF Follows
<1>3. CASE OwnerRuns /\ ~OwnerMoved
  <2>1. /\ active_rx \in Rx /\ running[active_rx] /\ job = OwnerJob
        /\ job.generation = generation[active_rx]
        /\ job.test_ready = TestReady
    BY <1>3 DEF OwnerRuns, TypeOK, CurrentResponse, OwnerJob
  <2>2. job.generation = next_generation - 1
    BY <1>3, <2>1 DEF Generations, OwnerIsLatest
  <2>3. ASSUME a.generation = job.generation, a.test_ready
        PROVE  job.test_ready
    <3>1. CASE test[active_rx]
      <4>1. test_job_seen[active_rx]
        BY <2>1, <2>3, <3>1 DEF Handshake, ReadyWasSeen
      <4> QED
        BY <1>3, <2>1, <3>1, <4>1 DEF TestReady, ArmsTest
    <3>2. CASE ~test[active_rx]
      BY <2>1, <3>2 DEF TestReady
    <3> QED
      BY <3>1, <3>2
  <2> QED
    BY <1>1, <2>2, <2>3 DEF Follows
<1>4. CASE ~OwnerRuns
  <2>1. job = IdleJob(next_generation - 1) /\ job.generation = next_generation - 1
    BY <1>4 DEF CurrentResponse, IdleGeneration, IdleJob
  <2>2. ASSUME a.generation = job.generation PROVE ~a.test_ready
    <3>1. Essence(a) = Essence(IdleJob(next_generation - 1))
      BY <1>4, <2>1, <2>2 DEF Generations, CurrentEssence
    <3>2. a.running = FALSE
      BY <3>1 DEF Essence, IdleJob
    <3> QED
      BY <3>2 DEF Handshake, IdleNeverReady
  <2> QED
    BY <1>1, <2>1, <2>2 DEF Follows
<1> QED
  BY <1>2, <1>3, <1>4

------------------------------------------------------------------------------
(* Types, and the state between connections.                               *)

\* Nothing is under way while there is no connection.
Closed ==
    ~connected =>
        ~control_ready_ /\ up = <<>> /\ down = <<>> /\ camped_rx = Nil

\* A camper that is made anew has the types of one.
LEMMA FreshType ==
    ASSUME NEW greetings \in {<<>>, <<Greeting>>}, FreshCamper(greetings)
    PROVE  CamperTypeOK'
<1>1. /\ greetings \in Seq(Downlink)
      /\ <<>> \in Seq(Uplink)
  <2>1. <<Greeting>> \in Seq(Downlink)
    <3> DEFINE g == Greeting
    <3>1. g \in Downlink
      BY MessageTypes
    <3> HIDE DEF g
    <3>2. <<g>> \in Seq(Downlink)
      BY <3>1
    <3> QED
      BY <3>2 DEF g
  <2> QED
    BY <2>1, EmptySeq
<1>2. IdleJob(0) \in DecoderJob
  BY DEF IdleJob, DecoderJob
<1>3. /\ control_ready_' = FALSE /\ job_' = IdleJob(0) /\ camped_channel_' = Nil
      /\ backend_' = FALSE /\ up' = <<>> /\ down' = greetings
  BY DEF FreshCamper
<1> QED
  BY <1>1, <1>2, <1>3 DEF CamperTypeOK

\* What the monitor task takes from its queue, and what it sends.
LEMMA Served1 ==
    ASSUME CamperTypeOK, NEW type, Commands(type)
    PROVE  /\ up # <<>> /\ Head(up) \in Uplink /\ Tail(up) \in Seq(Uplink)
           /\ Head(up).type = type
BY WithoutHead DEF CamperTypeOK, Commands

LEMMA NextLinkType ==
    ASSUME Invariant, LinkTypeCore, Closed, [LinkNext]_allVars
    PROVE  LinkTypeCore' /\ Closed'
<1> USE DEF LinkTypeCore
<1>0. up \in Seq(Uplink) /\ down \in Seq(Downlink)
  BY DEF CamperTypeOK
<1>1. CASE Connect
  <2>1. CamperTypeOK'
    BY <1>1, FreshType DEF Connect
  <2> QED
    BY <1>1, <2>1 DEF Connect, Closed
<1>2. CASE Disconnect
  <2>1. CamperTypeOK'
    BY <1>2, FreshType DEF Disconnect
  <2>2. drops' \in 0..MaxDrops
    BY <1>2, JobLinkAssumption DEF Disconnect
  <2> QED
    BY <1>2, <2>1, <2>2 DEF Disconnect, Closed, FreshCamper
<1>3. CASE TimedPoll
  <2>1. up' \in Seq(Uplink) /\ control_ready_
        /\ UNCHANGED <<control_ready_, job_, camped_channel_, backend_, down, connected,
                       camped_rx, drops>>
    BY <1>0, <1>3, MessageTypes, WithOneMore DEF TimedPoll, maybe_poll, link
  <2> QED
    BY <2>1 DEF CamperTypeOK, Closed
<1>4. CASE ReceiveJob \/ ReceiveControl \/ ReceiveSound
  <2>1. CASE Ends
    <3>1. CamperTypeOK'
      BY <2>1, FreshType DEF Ends
    <3> QED
      BY <1>4, <2>1, <3>1, Handled DEF Ends, FreshCamper, Closed
  <2>2. CASE ~Ends
    <3>1. /\ down # <<>> /\ Replies
          /\ job_' \in DecoderJob /\ backend_' \in BOOLEAN /\ control_ready_' \in BOOLEAN
          /\ camped_channel_' \in Rx \cup {Nil}
          /\ UNCHANGED <<connected, camped_rx, drops>>
      BY <1>4, <2>2, Handled
    <3>2. PICK messages \in Seq(Uplink) : down' = Tail(down) /\ up' = up \o messages
      BY <3>1 DEF Replies, Answer
    <3>3. up' \in Seq(Uplink) /\ down' \in Seq(Downlink)
      BY <1>0, <3>1, <3>2, Joined, WithoutHead
    <3>4. connected
      BY <3>1 DEF Closed
    <3> QED
      BY <3>1, <3>3, <3>4 DEF CamperTypeOK, Closed
  <2> QED
    BY <2>1, <2>2
<1>5. ASSUME NEW m \in Monitors, HandlePoll(m)
      PROVE  LinkTypeCore' /\ Closed'
  <2>1. /\ Commands("poll") /\ up' = Tail(up)
        /\ down' = Append(down, Job(CurrentResponse.job))
        /\ UNCHANGED <<control_ready_, job_, camped_channel_, backend_, connected,
                       camped_rx, drops>>
    BY <1>5 DEF HandlePoll, link
  <2>2. CurrentResponse.job \in DecoderJob
    BY ResponseType DEF Invariant, Response
  <2>3. up # <<>> /\ up' \in Seq(Uplink) /\ down' \in Seq(Downlink)
    BY <1>0, <2>1, <2>2, Served1, MessageTypes, WithOneMore
  <2> QED
    BY <2>1, <2>3 DEF CamperTypeOK, Closed
<1>6. ASSUME NEW ok \in BOOLEAN, HandleCamp(ok)
      PROVE  LinkTypeCore' /\ Closed'
  <2> DEFINE rx == Head(up).rx
  <2>1. /\ Commands("camp") /\ up' = Tail(up)
        /\ camped_rx' = IF ok THEN rx ELSE Nil
        /\ down' = IF rx = Nil THEN down ELSE Append(down, Camped(rx, ok))
        /\ UNCHANGED <<control_ready_, job_, camped_channel_, backend_, connected, drops>>
    BY <1>6 DEF HandleCamp
  <2>2. up # <<>> /\ up' \in Seq(Uplink) /\ rx \in Rx \cup {Nil}
    BY <2>1, Served1, UplinkFields
  <2>3. down' \in Seq(Downlink)
    <3>1. CASE rx = Nil
      BY <1>0, <2>1, <3>1
    <3>2. CASE rx # Nil
      <4>1. Camped(rx, ok) \in Downlink
        BY <2>2, <3>2, MessageTypes
      <4> QED
        BY <1>0, <2>1, <3>2, <4>1, WithOneMore
    <3> QED
      BY <3>1, <3>2
  <2> QED
    BY <2>1, <2>2, <2>3 DEF CamperTypeOK, Closed
<1>7. CASE HandleStatus
  <2>1. /\ Commands("status") /\ up' = Tail(up)
        /\ UNCHANGED <<control_ready_, job_, camped_channel_, backend_, down, connected,
                       camped_rx, drops>>
    BY <1>7 DEF HandleStatus, link
  <2>2. up # <<>> /\ up' \in Seq(Uplink)
    BY <2>1, Served1
  <2> QED
    BY <2>1, <2>2 DEF CamperTypeOK, Closed
<1>8. CASE CampLost \/ SendSound
  <2>1. /\ camped_rx # Nil
        /\ \E message \in {CampDisconnect, Sound(camped_rx)} :
               down' = Append(down, message)
        /\ camped_rx' \in {Nil, camped_rx}
        /\ UNCHANGED <<control_ready_, job_, camped_channel_, backend_, up, connected,
                       drops>>
    BY <1>8 DEF CampLost, SendSound, link
  <2>2. camped_rx \in Rx /\ connected
    BY <2>1 DEF Closed
  <2>3. down' \in Seq(Downlink)
    BY <1>0, <2>1, <2>2, MessageTypes, WithOneMore
  <2> QED
    BY <2>1, <2>2, <2>3 DEF CamperTypeOK, Closed
<1>9. ASSUME (\E m \in Monitors : EndPoll(m)) \/ KiwiStep \/ UNCHANGED allVars
      PROVE  LinkTypeCore' /\ Closed'
  BY <1>9 DEF EndPoll, KiwiStep, allVars, camper, link, CamperTypeOK, Closed
<1> QED
  BY <1>1, <1>2, <1>3, <1>4, <1>5, <1>6, <1>7, <1>8, <1>9 DEF LinkNext

------------------------------------------------------------------------------
(* What a step does to the two queues.                                     *)

IsJob(message) == message.type = "job"
IsCamp(message) == message.type = "camped" /\ message.ok

\* A new camper, before or behind a connection.
Renews ==
    /\ FreshCamper(<<>>) \/ FreshCamper(<<Greeting>>)
    /\ camped_rx' = Nil
    /\ UNCHANGED vars

\* The decoder handles a message and keeps the connection.
Takes ==
    /\ ReceiveJob \/ ReceiveControl \/ ReceiveSound
    /\ ~Ends
    /\ down # <<>> /\ down' = Tail(down)
    /\ Replies
    /\ UNCHANGED <<vars, camped_rx>>

\* The monitor task is done with a command, or the decoder polls.
UpMoves ==
    \/ up' = up
    \/ up # <<>> /\ up' = Tail(up)
    \/ up' = Append(up, Poll)

\* The Kiwi sends something that is not a job: a frame of the receiver the
\* connection camps on, or what changes that receiver.
Sends(message) ==
    /\ ~IsJob(message) /\ message \in Downlink
    /\ down' = Append(down, message)
    /\ UNCHANGED <<vars, job_, camped_channel_>>
    /\ message.type = "SND" => camped_rx # Nil /\ message.rx = camped_rx
    /\ camped_rx' # Nil =>
           camped_rx' = IF IsCamp(message) THEN message.rx ELSE camped_rx
    /\ UpMoves

\* Nothing arrives at the decoder.
Rests ==
    /\ UNCHANGED <<down, job_, camped_channel_, advertised>>
    /\ camped_rx' \in {camped_rx, Nil}
    /\ UpMoves

LEMMA LinkCases ==
    ASSUME LinkTypeCore, Closed, [LinkNext]_allVars
    PROVE  \/ Renews
           \/ Takes
           \/ \E m \in Monitors : HandlePoll(m)
           \/ \E message \in Downlink : Sends(message)
           \/ Rests
<1> USE DEF LinkTypeCore
<1>1. CASE Connect
  BY <1>1 DEF Connect, Closed, Renews
<1>2. CASE Disconnect
  BY <1>2 DEF Disconnect, Renews
<1>3. CASE TimedPoll
  BY <1>3 DEF TimedPoll, maybe_poll, vars, polls, link, Rests, UpMoves
<1>4. CASE ReceiveJob \/ ReceiveControl \/ ReceiveSound
  <2>1. CASE Ends
    BY <1>4, <2>1, Handled DEF Ends, Renews
  <2>2. CASE ~Ends
    <3>1. down # <<>> /\ Replies /\ UNCHANGED <<vars, camped_rx>>
      BY <1>4, <2>2, Handled
    <3>2. down' = Tail(down)
      BY <3>1 DEF Replies, Answer
    <3> QED
      BY <1>4, <2>2, <3>1, <3>2 DEF Takes
  <2> QED
    BY <2>1, <2>2
<1>5. ASSUME NEW ok \in BOOLEAN, HandleCamp(ok)
      PROVE  Rests \/ \E message \in Downlink : Sends(message)
  <2> DEFINE rx == Head(up).rx
             message == Camped(rx, ok)
  <2>1. /\ Commands("camp") /\ up' = Tail(up)
        /\ camped_rx' = IF ok THEN rx ELSE Nil
        /\ down' = IF rx = Nil THEN down ELSE Append(down, message)
        /\ UNCHANGED <<vars, job_, camped_channel_>>
    BY <1>5 DEF HandleCamp
  <2>2. up # <<>> /\ rx \in Rx \cup {Nil}
    BY <2>1, Served1, UplinkFields
  <2>3. CASE rx = Nil
    BY <2>1, <2>2, <2>3 DEF Rests, UpMoves, vars, polls
  <2>4. CASE rx # Nil
    <3>1. /\ message \in Downlink /\ message.type = "camped"
          /\ message.rx = rx /\ message.ok = ok
      BY <2>2, <2>4, MessageTypes DEF Camped
    <3>2. Sends(message)
      BY <2>1, <2>2, <2>4, <3>1 DEF Sends, IsJob, IsCamp, UpMoves
    <3> QED
      BY <3>1, <3>2
  <2> QED
    BY <2>3, <2>4
<1>6. CASE HandleStatus
  <2>1. Commands("status") /\ up' = Tail(up)
        /\ UNCHANGED <<down, job_, camped_channel_, camped_rx>>
    BY <1>6 DEF HandleStatus, link
  <2>2. up # <<>>
    BY <2>1, Served1
  <2>3. advertised' = advertised
    BY <1>6 DEF HandleStatus, freedv_receive_cmds, vars, polls
  <2> QED
    BY <2>1, <2>2, <2>3 DEF Rests, UpMoves
<1>7. CASE CampLost
  <2>1. CampDisconnect \in Downlink /\ CampDisconnect.type = "camp_disconnect"
    BY MessageTypes DEF CampDisconnect
  <2>2. Sends(CampDisconnect)
    BY <1>7, <2>1 DEF CampLost, Sends, IsJob, UpMoves
  <2> QED
    BY <2>1, <2>2
<1>8. CASE SendSound
  <2> DEFINE message == Sound(camped_rx)
  <2>1. camped_rx # Nil /\ camped_rx \in Rx
    BY <1>8 DEF SendSound
  <2>2. message \in Downlink /\ message.type = "SND" /\ message.rx = camped_rx
    BY <2>1, MessageTypes DEF Sound
  <2>3. Sends(message)
    BY <1>8, <2>1, <2>2 DEF SendSound, Sends, IsJob, IsCamp, UpMoves, link
  <2> QED
    BY <2>2, <2>3
<1>9. CASE KiwiStep
  <2>1. advertised' = advertised
    BY <1>9
       DEF KiwiStep, Start, StartTest, Begin, freedv_stop, freedv_poll,
           freedv_test_audio, Tune, SwitchReporter, polls
  <2> QED
    BY <1>9, <2>1 DEF KiwiStep, camper, link, Rests, UpMoves
<1>10. ASSUME (\E m \in Monitors : EndPoll(m)) \/ UNCHANGED allVars
       PROVE  Rests
  BY <1>10 DEF EndPoll, FinishPoll, allVars, vars, polls, camper, link, Rests, UpMoves
<1> QED
  BY <1>1, <1>2, <1>3, <1>4, <1>5, <1>6, <1>7, <1>8, <1>9, <1>10 DEF LinkNext

------------------------------------------------------------------------------
(* Jobs lie in order.                                                      *)

\* The decoder's job is one the extension sent, if only up to the Reporter
\* switch, or the first idle one.
Held ==
    \/ job_ = IdleJob(0)
    \/ \E a \in advertised :
           Essence(a) = Essence(job_) /\ a.test_ready = job_.test_ready

Ordered ==
    /\ Held
    /\ \A n \in DOMAIN down :
           IsJob(down[n]) =>
               down[n].job \in advertised /\ Follows(job_, down[n].job)
    /\ \A n, k \in DOMAIN down :
           n < k /\ IsJob(down[n]) /\ IsJob(down[k]) =>
               Follows(down[n].job, down[k].job)

\* What the decoder holds is followed by what it would be told now.
LEMMA HeldFollows ==
    ASSUME Invariant, Held, CamperTypeOK
    PROVE  Follows(job_, CurrentResponse.job)
<1> DEFINE job == CurrentResponse.job
<1>1. job \in DecoderJob /\ job.generation \in Nat
  BY ResponseType DEF Invariant, Response, DecoderJob
<1>2. CASE job_ = IdleJob(0)
  BY <1>1, <1>2 DEF IdleJob, Follows
<1>3. ASSUME NEW a \in advertised,
             Essence(a) = Essence(job_), a.test_ready = job_.test_ready
      PROVE  Follows(job_, job)
  <2>1. a.generation = job_.generation
    BY <1>3 DEF Essence
  <2> QED
    BY <1>3, <2>1, ResponseFollows DEF Follows
<1> QED
  BY <1>2, <1>3 DEF Held

\* The job behind a handled message: what followed both the job before and the
\* one that arrived follows it.
LEMMA TakenJob ==
    ASSUME CamperTypeOK, Ordered, Takes
    PROVE  /\ Held'
           /\ job_.generation <= job_'.generation
           /\ \A b \in DecoderJob :
                  /\ Follows(job_, b)
                  /\ IsJob(Head(down)) => Follows(Head(down).job, b)
                  => Follows(job_', b)
           /\ job_'.running =>
                  \/ job_' = job_
                  \/ /\ IsJob(Head(down)) /\ Head(down).job.running
                     /\ job_'.generation = Head(down).job.generation
<1> DEFINE incoming == Head(down).job
<1>0. /\ job_ \in DecoderJob /\ job_.generation \in Nat
      /\ advertised' = advertised
  BY DEF CamperTypeOK, DecoderJob, Takes, vars, polls
<1>1. ASSUME job_' = job_
      PROVE  /\ Held'
             /\ job_.generation <= job_'.generation
             /\ \A b \in DecoderJob : Follows(job_, b) => Follows(job_', b)
  BY <1>0, <1>1 DEF Ordered, Held
<1>2. CASE ReceiveJob
  <2>1. /\ IsJob(Head(down)) /\ incoming \in DecoderJob
        /\ incoming.generation \in Nat
        /\ \/ Conflict(incoming) /\ Ends
           \/ ArmTest(incoming) \/ KeepJob(incoming)
           \/ StopJob(incoming) \/ StartJob(incoming)
    BY <1>2, JobCases DEF Arrives, IsJob, DecoderJob
  <2>2. incoming \in advertised
    <3>1. down \in Seq(Downlink) /\ down # <<>>
      BY DEF CamperTypeOK, Takes
    <3>2. 1 \in DOMAIN down /\ down[1] = Head(down)
      BY <3>1, WithoutHead
    <3> QED
      BY <2>1, <3>2 DEF Ordered
  <2>3. CASE ArmTest(incoming)
    <3>1. job_' = [job_ EXCEPT !.test_ready = TRUE]
          /\ [incoming EXCEPT !.reporter = job_.reporter] = job_'
          /\ job_.running
      BY <2>3 DEF ArmTest, TestNowReady
    <3>2. /\ job_'.test_ready = TRUE /\ incoming.test_ready = TRUE
          /\ incoming.generation = job_.generation
          /\ job_'.generation = job_.generation
          /\ incoming.running = job_'.running
          /\ incoming.rx_channel = job_'.rx_channel
          /\ incoming.mode = job_'.mode
          /\ incoming.frequency_hz = job_'.frequency_hz
          /\ incoming.test = job_'.test
      <4> DEFINE left == [incoming EXCEPT !.reporter = job_.reporter]
                 right == [job_ EXCEPT !.test_ready = TRUE]
      <4>1. left = right
        BY <3>1
      <4>2. /\ left.generation = incoming.generation
            /\ left.running = incoming.running
            /\ left.rx_channel = incoming.rx_channel
            /\ left.mode = incoming.mode
            /\ left.frequency_hz = incoming.frequency_hz
            /\ left.test = incoming.test
            /\ left.test_ready = incoming.test_ready
        BY <2>1 DEF DecoderJob
      <4>3. right.test_ready = TRUE /\ right.generation = job_.generation
        BY <1>0 DEF DecoderJob
      <4>4. job_' = right
        BY <3>1
      <4> HIDE DEF left, right
      <4> QED
        BY <4>1, <4>2, <4>3, <4>4
    <3>3. Held'
      BY <1>0, <2>2, <3>2 DEF Held, Essence
    <3>4. \A b : Follows(incoming, b) => Follows(job_', b)
      BY <3>2 DEF Follows
    <3>5. job_.generation <= job_'.generation
      BY <1>0, <3>2
    <3>6. job_'.running =>
              /\ IsJob(Head(down)) /\ incoming.running
              /\ job_'.generation = incoming.generation
      BY <2>1, <3>2
    <3> QED
      BY <2>1, <3>3, <3>4, <3>5, <3>6
  <2>4. CASE KeepJob(incoming)
    BY <1>1, <2>4 DEF KeepJob
  <2>5. CASE StopJob(incoming) \/ StartJob(incoming)
    <3>1. job_' = incoming /\ incoming.generation > job_.generation
      BY <1>0, <2>1, <2>5, Classified DEF StopJob, StartJob
    <3>2. Held'
      BY <1>0, <2>2, <3>1 DEF Held
    <3> QED
      BY <1>0, <2>1, <3>1, <3>2
  <2> QED
    BY <2>1, <2>3, <2>4, <2>5 DEF Takes
<1>3. CASE ReceiveControl \/ ReceiveSound
  <2>1. job_' = job_
    BY <1>3 DEF ReceiveControl, ReceiveMonitor, ReceiveCamped, ReceiveCampDisconnect,
                ReceiveSound, process_audio
  <2> QED
    BY <1>1, <2>1
<1> QED
  BY <1>2, <1>3 DEF Takes

\* A queue that begins anew holds no job.
LEMMA FreshQueue ==
    ASSUME NEW greetings \in {<<>>, <<Greeting>>}
    PROVE  \A n \in DOMAIN greetings : greetings[n] = Greeting
BY EmptySeq

\* Jobs stay in order, and the decoder never goes back to an earlier one.
LEMMA NextOrdered ==
    ASSUME Invariant, Numbered, LinkTypeCore, Closed, Ordered, [LinkNext]_allVars
    PROVE  Ordered'
<1> USE DEF LinkTypeCore
<1>0. down \in Seq(Downlink) /\ job_ \in DecoderJob
  BY DEF CamperTypeOK
<1>1. CASE Renews
  <2>1. /\ job_' = IdleJob(0)
        /\ \E greetings \in {<<>>, <<Greeting>>} : down' = greetings
    BY <1>1 DEF Renews, FreshCamper
  <2>2. \A n \in DOMAIN down' : ~IsJob(down'[n])
    BY <2>1, FreshQueue DEF Greeting, IsJob
  <2> QED
    BY <2>1, <2>2 DEF Ordered, Held
<1>2. CASE Takes
  <2>1. /\ down # <<>> /\ down' = Tail(down) /\ advertised' = advertised
    BY <1>2 DEF Takes, vars, polls
  <2>2. /\ 1 \in DOMAIN down /\ Head(down) = down[1]
        /\ \A n \in DOMAIN down' :
               n \in Nat \ {0} /\ n + 1 \in DOMAIN down /\ down'[n] = down[n + 1]
    BY <1>0, <2>1, WithoutHead
  <2>3. ASSUME NEW n \in DOMAIN down', IsJob(down'[n])
        PROVE  down'[n].job \in advertised /\ Follows(job_', down'[n].job)
    <3>1. /\ n + 1 \in DOMAIN down /\ down'[n] = down[n + 1] /\ 1 < n + 1
      BY <2>2
    <3>2. down'[n].job \in advertised /\ Follows(job_, down'[n].job)
      BY <2>3, <3>1 DEF Ordered
    <3>3. IsJob(Head(down)) => Follows(Head(down).job, down'[n].job)
      BY <2>2, <2>3, <3>1 DEF Ordered
    <3>4. down'[n].job \in DecoderJob
      BY <3>2 DEF Invariant, TypeOK
    <3> QED
      BY <1>2, <3>2, <3>3, <3>4, TakenJob
  <2>4. ASSUME NEW n \in DOMAIN down', NEW k \in DOMAIN down', n < k,
               IsJob(down'[n]), IsJob(down'[k])
        PROVE  Follows(down'[n].job, down'[k].job)
    <3>1. n + 1 < k + 1
      BY <2>2, <2>4
    <3> QED
      BY <2>2, <2>4, <3>1 DEF Ordered
  <2>5. Held'
    BY <1>2, TakenJob
  <2> QED
    BY <2>1, <2>3, <2>4, <2>5 DEF Ordered
<1>3. ASSUME NEW m \in Monitors, HandlePoll(m)
      PROVE  Ordered'
  <2> DEFINE job == CurrentResponse.job
  <2>1. /\ down' = Append(down, Job(job)) /\ advertised' = advertised \cup {job}
        /\ job_' = job_
    BY <1>3 DEF HandlePoll, freedv_monitor_poll
  <2>2. Job(job) \in Downlink
    BY ResponseType, MessageTypes DEF Invariant, Response
  <2>3. Follows(job_, job) /\ \A a \in advertised : Follows(a, job)
    BY HeldFollows, ResponseFollows DEF Ordered
  <2>4. Job(job).job = job
    BY DEF Job
  <2> DEFINE message == Job(job)
  <2> HIDE DEF message, job
  <2>5. /\ Len(down) \in Nat
        /\ DOMAIN down = 1..Len(down) /\ DOMAIN down' = 1..Len(down) + 1
        /\ down'[Len(down) + 1] = message
        /\ \A n \in DOMAIN down : down'[n] = down[n]
    BY <1>0, <2>1, <2>2, WithOneMore DEF message
  <2>6. Held'
    BY <2>1 DEF Ordered, Held
  <2>7. ASSUME NEW n \in DOMAIN down', IsJob(down'[n])
        PROVE  down'[n].job \in advertised' /\ Follows(job_', down'[n].job)
    <3>1. CASE n \in DOMAIN down
      BY <2>1, <2>5, <2>7, <3>1 DEF Ordered
    <3>2. CASE n = Len(down) + 1
      BY <2>1, <2>3, <2>4, <2>5, <3>2 DEF message
    <3> QED
      BY <2>5, <3>1, <3>2
  <2>8. ASSUME NEW n \in DOMAIN down', NEW k \in DOMAIN down', n < k,
               IsJob(down'[n]), IsJob(down'[k])
        PROVE  Follows(down'[n].job, down'[k].job)
    <3>1. n \in DOMAIN down
      BY <2>5, <2>8
    <3>2. CASE k \in DOMAIN down
      BY <2>5, <2>8, <3>1, <3>2 DEF Ordered
    <3>3. CASE k = Len(down) + 1
      <4>1. down'[n].job \in advertised
        BY <2>5, <2>8, <3>1 DEF Ordered
      <4>2. down'[k].job = job
        BY <2>4, <2>5, <3>3 DEF message
      <4> QED
        BY <2>3, <4>1, <4>2
    <3> QED
      BY <2>5, <3>2, <3>3
  <2> QED
    BY <2>6, <2>7, <2>8 DEF Ordered
<1>4. ASSUME NEW message \in Downlink, Sends(message)
      PROVE  Ordered'
  <2>1. /\ down' = Append(down, message) /\ ~IsJob(message)
        /\ UNCHANGED <<job_, advertised>>
    BY <1>4 DEF Sends, vars, polls
  <2>2. /\ DOMAIN down = 1..Len(down) /\ DOMAIN down' = 1..Len(down) + 1
        /\ down'[Len(down) + 1] = message
        /\ \A n \in DOMAIN down : down'[n] = down[n]
        /\ Len(down) \in Nat
    BY <1>0, <2>1, WithOneMore
  <2>3. \A n \in DOMAIN down' : IsJob(down'[n]) => n \in DOMAIN down
    BY <2>1, <2>2
  <2> QED
    BY <2>1, <2>2, <2>3 DEF Ordered, Held
<1>5. CASE Rests
  BY <1>5 DEF Rests, Ordered, Held
<1> QED
  BY <1>1, <1>2, <1>3, <1>4, <1>5, LinkCases

------------------------------------------------------------------------------
(* Statuses, and what they make of a session.                              *)

\* No status is of a job the decoder has yet to get.
StatusesAreOld ==
    \A n \in DOMAIN up :
        up[n].type = "status" => up[n].generation <= job_.generation

LEMMA NextStatuses ==
    ASSUME Invariant, LinkTypeCore, Closed, Ordered, StatusesAreOld,
           [LinkNext]_allVars
    PROVE  StatusesAreOld'
<1> USE DEF LinkTypeCore
<1>0. up \in Seq(Uplink) /\ job_ \in DecoderJob /\ job_.generation \in Nat
  BY DEF CamperTypeOK, DecoderJob
<1>1. CASE Renews
  <2>1. up' = <<>>
    BY <1>1 DEF Renews, FreshCamper
  <2> QED
    BY <2>1, EmptySeq DEF StatusesAreOld
<1>2. CASE Takes
  <2>1. PICK messages \in Seq(Uplink) :
            up' = up \o messages /\ OfGeneration(messages, job_'.generation)
    BY <1>2 DEF Takes, Replies, Answer
  <2>2. job_.generation <= job_'.generation /\ job_'.generation \in Nat
    <3>1. job_' \in DecoderJob
      BY <1>2, Handled DEF Takes
    <3> QED
      BY <1>2, <3>1, TakenJob DEF DecoderJob
  <2>3. \A k \in DOMAIN up :
            up[k].type = "status" => up[k].generation <= job_'.generation
    <3> SUFFICES ASSUME NEW k \in DOMAIN up, up[k].type = "status"
                 PROVE  up[k].generation <= job_'.generation
      OBVIOUS
    <3>1. up[k] \in Uplink
      BY <1>0, LenProperties, ElementOfSeq
    <3>2. up[k].generation \in Nat /\ up[k].generation <= job_.generation
      BY <3>1, UplinkFields DEF StatusesAreOld
    <3> QED
      BY <1>0, <2>2, <3>2
  <2>4. \A k \in DOMAIN messages :
            messages[k].type = "status" => messages[k].generation <= job_'.generation
    BY <2>1, <2>2 DEF OfGeneration
  <2>5. ASSUME NEW n \in DOMAIN up', up'[n].type = "status"
        PROVE  up'[n].generation <= job_'.generation
    <3>1. \/ \E k \in DOMAIN up : up'[n] = up[k]
          \/ \E k \in DOMAIN messages : up'[n] = messages[k]
      BY <1>0, <2>1, Joined
    <3> QED
      BY <2>3, <2>4, <2>5, <3>1
  <2> QED
    BY <2>5 DEF StatusesAreOld
<1>3. ASSUME UpMoves, job_' = job_
      PROVE  StatusesAreOld'
  <2>1. CASE up' = up
    BY <1>3, <2>1 DEF StatusesAreOld
  <2>2. CASE up # <<>> /\ up' = Tail(up)
    BY <1>0, <1>3, <2>2, WithoutHead DEF StatusesAreOld
  <2>3. CASE up' = Append(up, Poll)
    <3>1. Poll \in Uplink /\ Poll.type # "status"
      BY MessageTypes DEF Poll
    <3>2. /\ DOMAIN up = 1..Len(up) /\ DOMAIN up' = 1..Len(up) + 1
          /\ up'[Len(up) + 1] = Poll /\ Len(up) \in Nat
          /\ \A n \in DOMAIN up : up'[n] = up[n]
      BY <1>0, <2>3, <3>1, WithOneMore
    <3>3. \A n \in DOMAIN up' : up'[n].type = "status" => n \in DOMAIN up
      BY <3>1, <3>2
    <3> QED
      BY <1>3, <3>2, <3>3 DEF StatusesAreOld
  <2> QED
    BY <1>3, <2>1, <2>2, <2>3 DEF UpMoves
<1>4. ASSUME NEW m \in Monitors, HandlePoll(m)
      PROVE  StatusesAreOld'
  <2>1. up # <<>> /\ up' = Tail(up) /\ job_' = job_
    BY <1>4, Served1 DEF HandlePoll
  <2> QED
    BY <1>3, <2>1 DEF UpMoves
<1> QED
  BY <1>1, <1>2, <1>3, <1>4, LinkCases DEF Sends, Rests

\* A session that is called online runs, and whatever running job the decoder
\* holds or will get is not of a session before it.
OnlineJobs ==
    \A i \in Rx :
        decoder_online[i] =>
            /\ running[i]
            /\ job_.running => generation[i] <= job_.generation
            /\ \A n \in DOMAIN down :
                   IsJob(down[n]) /\ down[n].job.running =>
                       generation[i] <= down[n].job.generation

\* The extension calls a session online only over a status.
LEMMA OnlyByStatus ==
    ASSUME Invariant, OnlineJobs,
           KiwiStep \/ \E m \in Monitors : FinishPoll(m) \/ freedv_monitor_poll(m),
           NEW i \in Rx, decoder_online'[i]
    PROVE  /\ decoder_online[i] /\ running'[i]
           /\ generation'[i] = generation[i]
<1> TypeOK
  BY DEF Invariant
<1>1. ASSUME NEW j \in Rx, NEW md \in Modes, NEW asTest \in BOOLEAN,
             NEW report \in BOOLEAN, Begin(j, md, asTest, report)
      PROVE  /\ decoder_online[i] /\ running'[i]
             /\ generation'[i] = generation[i]
  BY <1>1 DEF Begin, TypeOK, OnlineJobs
<1>2. ASSUME NEW j \in Rx, freedv_stop(j)
      PROVE  /\ decoder_online[i] /\ running'[i]
             /\ generation'[i] = generation[i]
  BY <1>2 DEF freedv_stop, TypeOK, OnlineJobs
<1>3. ASSUME NEW j \in Rx, freedv_poll(j)
      PROVE  /\ decoder_online[i] /\ running'[i]
             /\ generation'[i] = generation[i]
  BY <1>3 DEF freedv_poll, TypeOK, OnlineJobs, session, identity
<1>4. CASE KiwiStep
  BY <1>1, <1>2, <1>3, <1>4
     DEF KiwiStep, Start, StartTest, freedv_test_audio, Tune, SwitchReporter,
         session, identity, OnlineJobs
<1>5. ASSUME NEW m \in Monitors, FinishPoll(m)
      PROVE  /\ decoder_online[i] /\ running'[i]
             /\ generation'[i] = generation[i]
  BY <1>5 DEF FinishPoll, session, identity, OnlineJobs
<1>6. ASSUME NEW m \in Monitors, freedv_monitor_poll(m)
      PROVE  /\ decoder_online[i] /\ running'[i]
             /\ generation'[i] = generation[i]
  <2>1. CASE OwnerMoved
    <3>1. active_rx \in Rx /\ running[active_rx] /\ Retune(active_rx)
      BY <1>6, <2>1 DEF freedv_monitor_poll, OwnerMoved, OwnerRuns, TypeOK
    <3>2. i # active_rx /\ decoder_online[i]
      BY <3>1 DEF Retune, TypeOK
    <3>3. running[i]
      BY <3>2 DEF OnlineJobs
    <3>4. active_rx = i
      BY <3>3, RunnerIsOwner
    <3> QED
      BY <3>2, <3>4
  <2>2. CASE ~OwnerMoved
    BY <1>6, <2>2 DEF freedv_monitor_poll, session, identity, OnlineJobs
  <2> QED
    BY <2>1, <2>2
<1> QED
  BY <1>4, <1>5, <1>6

\* Every job that is sent while a session runs is of that session or later.
LEMMA SentIsLater ==
    ASSUME Invariant, NEW i \in Rx, running[i]
    PROVE  generation[i] <= CurrentResponse.job.generation
<1>1. OwnerRuns /\ active_rx = i
  BY RunnerIsOwner
<1>2. CurrentResponse.job.generation \in {next_generation, generation[i]}
  BY <1>1 DEF CurrentResponse, OwnerJob
<1>3. generation[i] \in Nat /\ next_generation \in Nat /\ generation[i] < next_generation
  BY DEF Invariant, TypeOK, Generations
<1> QED
  BY <1>2, <1>3

LEMMA NextOnline ==
    ASSUME Invariant, Numbered, LinkTypeCore, Closed, Ordered, StatusesAreOld,
           OnlineJobs, [LinkNext]_allVars
    PROVE  OnlineJobs'
<1> USE DEF LinkTypeCore
<1>0. /\ down \in Seq(Downlink) /\ job_ \in DecoderJob /\ job_.generation \in Nat
      /\ generation \in [Rx -> Nat]
  BY DEF CamperTypeOK, DecoderJob, Invariant, TypeOK
<1>1. CASE Renews
  <2>1. /\ job_' = IdleJob(0) /\ UNCHANGED <<decoder_online, running, generation>>
        /\ \E greetings \in {<<>>, <<Greeting>>} : down' = greetings
    BY <1>1 DEF Renews, FreshCamper, vars, session, identity
  <2>2. \A n \in DOMAIN down' : ~IsJob(down'[n])
    BY <2>1, FreshQueue DEF Greeting, IsJob
  <2>3. ~job_'.running
    BY <2>1 DEF IdleJob
  <2> QED
    BY <2>1, <2>2, <2>3 DEF OnlineJobs
<1>2. CASE Takes
  <2>1. /\ down # <<>> /\ down' = Tail(down)
        /\ UNCHANGED <<decoder_online, running, generation>>
    BY <1>2 DEF Takes, vars, session, identity
  <2>2. /\ 1 \in DOMAIN down /\ Head(down) = down[1]
        /\ \A n \in DOMAIN down' : n + 1 \in DOMAIN down /\ down'[n] = down[n + 1]
    BY <1>0, <2>1, WithoutHead
  <2>3. job_'.running =>
            \/ job_' = job_
            \/ /\ IsJob(down[1]) /\ down[1].job.running
               /\ job_'.generation = down[1].job.generation
    BY <1>2, <2>2, TakenJob
  <2> SUFFICES ASSUME NEW i \in Rx, decoder_online'[i]
               PROVE  /\ running'[i]
                      /\ job_'.running => generation'[i] <= job_'.generation
                      /\ \A n \in DOMAIN down' :
                             IsJob(down'[n]) /\ down'[n].job.running =>
                                 generation'[i] <= down'[n].job.generation
    BY DEF OnlineJobs
  <2>4. /\ running[i]
        /\ job_.running => generation[i] <= job_.generation
        /\ \A n \in DOMAIN down :
               IsJob(down[n]) /\ down[n].job.running =>
                   generation[i] <= down[n].job.generation
    BY <2>1 DEF OnlineJobs
  <2>5. job_'.running => generation'[i] <= job_'.generation
    BY <2>1, <2>2, <2>3, <2>4
  <2> QED
    BY <2>1, <2>2, <2>4, <2>5
<1>3. ASSUME NEW m \in Monitors, HandlePoll(m)
      PROVE  OnlineJobs'
  <2> DEFINE job == CurrentResponse.job
             message == Job(job)
  <2>1. /\ freedv_monitor_poll(m) /\ job_' = job_ /\ down' = Append(down, message)
    BY <1>3 DEF HandlePoll
  <2>2. message \in Downlink /\ message.job = job
    BY ResponseType, MessageTypes DEF Invariant, Response, Job
  <2> SUFFICES ASSUME NEW i \in Rx, decoder_online'[i]
               PROVE  /\ running'[i]
                      /\ job_'.running => generation'[i] <= job_'.generation
                      /\ \A n \in DOMAIN down' :
                             IsJob(down'[n]) /\ down'[n].job.running =>
                                 generation'[i] <= down'[n].job.generation
    BY DEF OnlineJobs
  <2>3. decoder_online[i] /\ running'[i] /\ generation'[i] = generation[i]
    BY <2>1, OnlyByStatus
  <2>4. /\ running[i]
        /\ job_.running => generation[i] <= job_.generation
        /\ \A n \in DOMAIN down :
               IsJob(down[n]) /\ down[n].job.running =>
                   generation[i] <= down[n].job.generation
    BY <2>3 DEF OnlineJobs
  <2>5. generation[i] <= job.generation
    BY <2>4, SentIsLater
  <2> HIDE DEF message, job
  <2>6. /\ Len(down) \in Nat
        /\ DOMAIN down = 1..Len(down) /\ DOMAIN down' = 1..Len(down) + 1
        /\ down'[Len(down) + 1] = message
        /\ \A n \in DOMAIN down : down'[n] = down[n]
    BY <1>0, <2>1, <2>2, WithOneMore
  <2>7. ASSUME NEW n \in DOMAIN down', IsJob(down'[n]), down'[n].job.running
        PROVE  generation[i] <= down'[n].job.generation
    <3>1. CASE n \in DOMAIN down
      BY <2>4, <2>6, <2>7, <3>1
    <3>2. CASE n = Len(down) + 1
      BY <2>2, <2>5, <2>6, <3>2
    <3> QED
      BY <2>6, <3>1, <3>2
  <2> QED
    BY <2>1, <2>3, <2>4, <2>7
<1>4. ASSUME NEW message \in Downlink, Sends(message)
      PROVE  OnlineJobs'
  <2>1. /\ down' = Append(down, message) /\ ~IsJob(message)
        /\ UNCHANGED <<job_, decoder_online, running, generation>>
    BY <1>4 DEF Sends, vars, session, identity
  <2>2. /\ DOMAIN down = 1..Len(down) /\ DOMAIN down' = 1..Len(down) + 1
        /\ down'[Len(down) + 1] = message
        /\ \A n \in DOMAIN down : down'[n] = down[n]
        /\ Len(down) \in Nat
    BY <1>0, <2>1, WithOneMore
  <2>3. \A n \in DOMAIN down' : IsJob(down'[n]) => n \in DOMAIN down
    BY <2>1, <2>2
  <2> QED
    BY <2>1, <2>2, <2>3 DEF OnlineJobs
<1>5. CASE KiwiStep \/ \E m \in Monitors : EndPoll(m)
  <2>1. UNCHANGED <<down, job_>>
    BY <1>5 DEF KiwiStep, EndPoll, camper
  <2>2. KiwiStep \/ \E m \in Monitors : FinishPoll(m) \/ freedv_monitor_poll(m)
    BY <1>5 DEF EndPoll
  <2>3. \A i \in Rx : decoder_online'[i] =>
            decoder_online[i] /\ running'[i] /\ generation'[i] = generation[i]
    BY <2>2, OnlyByStatus
  <2> QED
    BY <2>1, <2>3 DEF OnlineJobs
<1>6. CASE HandleStatus
  <2> DEFINE g == Head(up).generation
  <2>1. /\ Commands("status") /\ UNCHANGED <<down, job_>>
    BY <1>6 DEF HandleStatus
  <2>2. g <= job_.generation
    BY <2>1, Served1, WithoutHead DEF CamperTypeOK, StatusesAreOld
  <2>3. CASE UNCHANGED vars
    BY <2>1, <2>3 DEF vars, session, identity, OnlineJobs
  <2>4. CASE freedv_receive_cmds(camped_rx, g) /\ camped_rx \in Rx
    <3>1. /\ running[camped_rx] /\ g = generation[camped_rx]
          /\ decoder_online' = [decoder_online EXCEPT ![camped_rx] = TRUE]
          /\ UNCHANGED <<running, generation>>
      BY <2>4 DEF freedv_receive_cmds, Current, session, identity
    <3>2. \A n \in DOMAIN down : IsJob(down[n]) => g <= down[n].job.generation
      <4> SUFFICES ASSUME NEW n \in DOMAIN down, IsJob(down[n])
                   PROVE  g <= down[n].job.generation
        OBVIOUS
      <4>1. down[n].job \in advertised /\ Follows(job_, down[n].job)
        BY DEF Ordered
      <4>2. down[n].job.generation \in Nat /\ g \in Nat
        BY <1>0, <2>4, <3>1, <4>1 DEF Invariant, TypeOK, DecoderJob
      <4> QED
        BY <1>0, <2>2, <4>1, <4>2 DEF Follows
    <3>3. decoder_online \in [Rx -> BOOLEAN]
      BY DEF Invariant, TypeOK
    <3> QED
      BY <2>1, <2>2, <3>1, <3>2, <3>3 DEF OnlineJobs
  <2> QED
    BY <1>6, <2>3, <2>4 DEF HandleStatus
<1>7. CASE Rests /\ UNCHANGED vars
  BY <1>7 DEF Rests, vars, session, identity, OnlineJobs
<1>8. ASSUME ~UNCHANGED vars
      PROVE  \/ KiwiStep \/ HandleStatus
             \/ \E m \in Monitors : HandlePoll(m) \/ EndPoll(m)
  <2>1. ReceiveJob \/ ReceiveControl \/ ReceiveSound => UNCHANGED vars
    BY Handled
  <2>2. \A ok \in BOOLEAN : HandleCamp(ok) => UNCHANGED vars
    BY DEF HandleCamp
  <2>3. Connect \/ Disconnect \/ TimedPoll \/ CampLost \/ SendSound
           \/ UNCHANGED allVars => UNCHANGED vars
    BY DEF Connect, Disconnect, TimedPoll, CampLost, SendSound, allVars
  <2> QED
    BY <1>8, <2>1, <2>2, <2>3 DEF LinkNext
<1> QED
  BY <1>1, <1>2, <1>3, <1>4, <1>5, <1>6, <1>7, <1>8, LinkCases

------------------------------------------------------------------------------
(* Whose frames lie in the queue.                                          *)

\* What arrives at place n, behind the acknowledged camps before it, finds the
\* decoder camping on rx or told of no camp at all.
Behind(queue, channel, n, rx) ==
    \/ \E j \in DOMAIN queue :
           /\ j < n /\ IsCamp(queue[j]) /\ queue[j].rx = rx
           /\ \A k \in DOMAIN queue : j < k /\ k < n => ~IsCamp(queue[k])
    \/ /\ \A k \in DOMAIN queue : k < n => ~IsCamp(queue[k])
       /\ channel \in {rx, Nil}

Camps ==
    /\ \A n \in DOMAIN down :
           down[n].type = "SND" => Behind(down, camped_channel_, n, down[n].rx)
    /\ camped_rx # Nil =>
           Behind(down, camped_channel_, Len(down) + 1, camped_rx)

\* A message more changes nothing before it; behind it, only a camp does.
LEMMA BehindOneMore ==
    ASSUME NEW queue \in Seq(Downlink), NEW e \in Downlink, NEW channel, NEW rx
    PROVE  /\ \A n \in 1..Len(queue) + 1 :
                  Behind(queue, channel, n, rx) =>
                      Behind(Append(queue, e), channel, n, rx)
           /\ IsCamp(e) /\ e.rx = rx =>
                  Behind(Append(queue, e), channel, Len(queue) + 2, rx)
           /\ ~IsCamp(e) /\ Behind(queue, channel, Len(queue) + 1, rx) =>
                  Behind(Append(queue, e), channel, Len(queue) + 2, rx)
<1> DEFINE longer == Append(queue, e)
<1>1. /\ Len(queue) \in Nat /\ DOMAIN queue = 1..Len(queue)
      /\ DOMAIN longer = 1..Len(queue) + 1
      /\ longer[Len(queue) + 1] = e
      /\ \A n \in DOMAIN queue : longer[n] = queue[n]
  BY WithOneMore
<1> HIDE DEF longer
<1>2. ASSUME NEW n \in 1..Len(queue) + 1, Behind(queue, channel, n, rx)
      PROVE  Behind(longer, channel, n, rx)
  <2>1. \A k \in DOMAIN longer : k < n => k \in DOMAIN queue
    BY <1>1
  <2>2. \A k \in DOMAIN queue : k \in DOMAIN longer
    BY <1>1
  <2> QED
    BY <1>1, <1>2, <2>1, <2>2 DEF Behind
<1>3. ASSUME IsCamp(e), e.rx = rx
      PROVE  Behind(longer, channel, Len(queue) + 2, rx)
  <2>1. /\ Len(queue) + 1 \in DOMAIN longer /\ Len(queue) + 1 < Len(queue) + 2
        /\ \A k \in DOMAIN longer :
               ~(Len(queue) + 1 < k /\ k < Len(queue) + 2)
    BY <1>1
  <2> QED
    BY <1>1, <1>3, <2>1 DEF Behind
<1>4. ASSUME ~IsCamp(e), Behind(queue, channel, Len(queue) + 1, rx)
      PROVE  Behind(longer, channel, Len(queue) + 2, rx)
  <2>1. /\ \A k \in DOMAIN queue :
               k \in DOMAIN longer /\ k < Len(queue) + 1 /\ k < Len(queue) + 2
        /\ \A k \in DOMAIN longer : k \in DOMAIN queue \/ k = Len(queue) + 1
    BY <1>1
  <2>2. \A k \in DOMAIN longer : IsCamp(longer[k]) => k \in DOMAIN queue
    BY <1>1, <1>4, <2>1
  <2> QED
    BY <1>1, <1>4, <2>1, <2>2 DEF Behind
<1> QED
  BY <1>2, <1>3, <1>4 DEF longer

\* What the decoder is told of its camp by the first message.
Told(queue, before, after) ==
    IF IsCamp(Head(queue)) THEN after = Head(queue).rx
                           ELSE after \in {before, Nil}

LEMMA BehindTail ==
    ASSUME NEW queue \in Seq(Downlink), queue # <<>>, NEW before, NEW after,
           Told(queue, before, after), NEW n \in Nat \ {0}, NEW rx,
           Behind(queue, before, n + 1, rx)
    PROVE  Behind(Tail(queue), after, n, rx)
<1> DEFINE rest == Tail(queue)
<1>1. /\ Head(queue) = queue[1] /\ Len(queue) \in Nat \ {0}
      /\ DOMAIN queue = 1..Len(queue) /\ DOMAIN rest = 1..Len(queue) - 1
      /\ \A k \in DOMAIN rest : k + 1 \in DOMAIN queue /\ rest[k] = queue[k + 1]
  BY WithoutHead
<1> HIDE DEF rest
<1>2. ASSUME NEW j \in DOMAIN queue, j < n + 1, IsCamp(queue[j]),
             queue[j].rx = rx,
             \A k \in DOMAIN queue : j < k /\ k < n + 1 => ~IsCamp(queue[k])
      PROVE  Behind(rest, after, n, rx)
  <2>1. CASE j = 1
    <3>1. after = rx
      BY <1>1, <1>2, <2>1 DEF Told
    <3>2. \A k \in DOMAIN rest : k < n => ~IsCamp(rest[k])
      <4> SUFFICES ASSUME NEW k \in DOMAIN rest, k < n
                   PROVE  ~IsCamp(rest[k])
        OBVIOUS
      <4>1. 1 < k + 1 /\ k + 1 < n + 1 /\ k + 1 \in DOMAIN queue
        BY <1>1
      <4> QED
        BY <1>1, <1>2, <2>1, <4>1
    <3> QED
      BY <3>1, <3>2 DEF Behind
  <2>2. CASE j # 1
    <3>1. /\ j - 1 \in DOMAIN rest /\ j - 1 < n
          /\ rest[j - 1] = queue[j]
      <4>1. j - 1 \in DOMAIN rest /\ j - 1 < n /\ (j - 1) + 1 = j
        BY <1>1, <1>2, <2>2
      <4> QED
        BY <1>1, <4>1
    <3>2. ASSUME NEW k \in DOMAIN rest, j - 1 < k, k < n
          PROVE  ~IsCamp(rest[k])
      <4>1. j < k + 1 /\ k + 1 < n + 1 /\ k + 1 \in DOMAIN queue
        BY <1>1, <3>2
      <4> QED
        BY <1>1, <1>2, <4>1
    <3> QED
      BY <1>2, <3>1, <3>2 DEF Behind
  <2> QED
    BY <2>1, <2>2
<1>3. ASSUME \A k \in DOMAIN queue : k < n + 1 => ~IsCamp(queue[k]),
             before \in {rx, Nil}
      PROVE  Behind(rest, after, n, rx)
  <2>1. ~IsCamp(queue[1])
    BY <1>1, <1>3
  <2>2. after \in {rx, Nil}
    BY <1>1, <1>3, <2>1 DEF Told
  <2>3. ASSUME NEW k \in DOMAIN rest, k < n
        PROVE  ~IsCamp(rest[k])
    <3>1. k + 1 < n + 1 /\ k + 1 \in DOMAIN queue
      BY <1>1, <2>3
    <3> QED
      BY <1>1, <1>3, <3>1
  <2> QED
    BY <2>2, <2>3 DEF Behind
<1> QED
  BY <1>2, <1>3 DEF Behind, rest

\* A handler that keeps the connection knows its camp from an acknowledgement
\* alone, and may forget it.
LEMMA TakenCamp ==
    ASSUME CamperTypeOK, Takes
    PROVE  Told(down, camped_channel_, camped_channel_')
<1>1. CASE ReceiveJob
  <2>1. Head(down).type = "job"
    BY <1>1, JobCases DEF Arrives
  <2>2. camped_channel_' \in {camped_channel_, Nil}
    <3>1. ~Ends
      BY DEF Takes
    <3> QED
      BY <1>1, <3>1, JobCases DEF ArmTest, KeepJob, StopJob, StartJob
  <2> QED
    BY <2>1, <2>2 DEF Told, IsCamp
<1>2. CASE ReceiveControl
  BY <1>2 DEF ReceiveControl, ReceiveMonitor, ReceiveCamped, ReceiveCampDisconnect,
              Arrives, Told, IsCamp
<1>3. CASE ReceiveSound
  BY <1>3 DEF ReceiveSound, process_audio, Arrives, Told, IsCamp
<1> QED
  BY <1>1, <1>2, <1>3 DEF Takes

LEMMA NextCamps ==
    ASSUME Invariant, LinkTypeCore, Closed, Camps, [LinkNext]_allVars
    PROVE  Camps'
<1> USE DEF LinkTypeCore
<1>0. down \in Seq(Downlink) /\ Len(down) \in Nat /\ DOMAIN down = 1..Len(down)
  BY LenProperties DEF CamperTypeOK
<1>1. CASE Renews
  <2>1. /\ camped_rx' = Nil
        /\ \E greetings \in {<<>>, <<Greeting>>} : down' = greetings
    BY <1>1 DEF Renews, FreshCamper
  <2>2. \A n \in DOMAIN down' : down'[n].type # "SND"
    BY <2>1, FreshQueue DEF Greeting
  <2> QED
    BY <2>1, <2>2 DEF Camps
<1>2. CASE Takes
  <2>1. /\ down # <<>> /\ down' = Tail(down) /\ camped_rx' = camped_rx
        /\ Told(down, camped_channel_, camped_channel_')
    BY <1>2, TakenCamp DEF Takes
  <2>2. /\ Len(down) \in Nat \ {0} /\ DOMAIN down' = 1..Len(down) - 1
        /\ \A n \in DOMAIN down' : n + 1 \in DOMAIN down /\ down'[n] = down[n + 1]
    BY <1>0, <2>1, WithoutHead
  <2>3. ASSUME NEW n \in DOMAIN down', down'[n].type = "SND"
        PROVE  Behind(down', camped_channel_', n, down'[n].rx)
    <3>1. n \in Nat \ {0} /\ Behind(down, camped_channel_, n + 1, down'[n].rx)
      BY <2>2, <2>3 DEF Camps
    <3> QED
      BY <1>0, <2>1, <3>1, BehindTail
  <2>4. ASSUME camped_rx' # Nil
        PROVE  Behind(down', camped_channel_', Len(down') + 1, camped_rx')
    <3>1. Behind(down, camped_channel_, Len(down) + 1, camped_rx)
      BY <2>1, <2>4 DEF Camps
    <3>2. Behind(Tail(down), camped_channel_', Len(down), camped_rx)
      BY <1>0, <2>1, <2>2, <3>1, BehindTail
    <3>3. Len(down') + 1 = Len(down)
      <4>1. Len(Tail(down)) = Len(down) - 1
        BY <1>0, <2>1, HeadTailProperties
      <4> QED
        BY <1>0, <2>1, <4>1
    <3> QED
      BY <2>1, <3>2, <3>3
  <2> QED
    BY <2>3, <2>4 DEF Camps
<1>3. ASSUME NEW message \in Downlink, down' = Append(down, message),
             camped_channel_' = camped_channel_,
             message.type = "SND" => camped_rx # Nil /\ message.rx = camped_rx,
             camped_rx' # Nil =>
                 camped_rx' = IF IsCamp(message) THEN message.rx ELSE camped_rx
      PROVE  Camps'
  <2>1. /\ DOMAIN down' = 1..Len(down) + 1 /\ Len(down') = Len(down) + 1
        /\ down'[Len(down) + 1] = message
        /\ \A n \in DOMAIN down : down'[n] = down[n]
    BY <1>0, <1>3, WithOneMore, AppendProperties
  <2>2. ASSUME NEW n \in DOMAIN down', down'[n].type = "SND"
        PROVE  Behind(down', camped_channel_', n, down'[n].rx)
    <3>1. Behind(down, camped_channel_, n, down'[n].rx)
      <4>1. CASE n \in DOMAIN down
        BY <2>1, <2>2, <4>1 DEF Camps
      <4>2. CASE n = Len(down) + 1
        BY <1>3, <2>1, <2>2, <4>2 DEF Camps
      <4> QED
        BY <1>0, <2>1, <4>1, <4>2
    <3> QED
      BY <1>0, <1>3, <2>1, <3>1, BehindOneMore
  <2>3. ASSUME camped_rx' # Nil
        PROVE  Behind(down', camped_channel_', Len(down) + 2, camped_rx')
    <3>1. CASE IsCamp(message)
      BY <1>0, <1>3, <2>3, <3>1, BehindOneMore
    <3>2. CASE ~IsCamp(message)
      <4>1. Behind(down, camped_channel_, Len(down) + 1, camped_rx')
        BY <1>3, <2>3, <3>2 DEF Camps
      <4> QED
        BY <1>0, <1>3, <3>2, <4>1, BehindOneMore
    <3> QED
      BY <3>1, <3>2
  <2>4. Len(down') + 1 = Len(down) + 2
    BY <1>0, <2>1
  <2> QED
    BY <2>2, <2>3, <2>4 DEF Camps
<1>4. ASSUME NEW m \in Monitors, HandlePoll(m)
      PROVE  Camps'
  <2> DEFINE message == Job(CurrentResponse.job)
  <2>1. message \in Downlink /\ message.type = "job"
    BY ResponseType, MessageTypes DEF Invariant, Response, Job
  <2>2. /\ down' = Append(down, message) /\ camped_rx' = camped_rx
        /\ camped_channel_' = camped_channel_
    BY <1>4 DEF HandlePoll, link
  <2> HIDE DEF message
  <2> QED
    BY <1>3, <2>1, <2>2 DEF IsCamp
<1>5. ASSUME NEW message \in Downlink, Sends(message)
      PROVE  Camps'
  BY <1>3, <1>5 DEF Sends
<1>6. CASE Rests
  BY <1>6 DEF Rests, Camps
<1> QED
  BY <1>1, <1>2, <1>4, <1>5, <1>6, LinkCases

------------------------------------------------------------------------------
(* The theorems.                                                           *)

LEMMA NextAstray ==
    ASSUME astray \in BOOLEAN, [LinkNext]_allVars
    PROVE  astray' \in BOOLEAN
<1>1. ASSUME ReceiveJob PROVE astray' \in BOOLEAN
  BY <1>1 DEF ReceiveJob
<1>2. ASSUME ReceiveControl \/ \E ok \in BOOLEAN : HandleCamp(ok)
      PROVE  astray' \in BOOLEAN
  BY <1>2 DEF ReceiveControl, HandleCamp
<1> QED
  BY <1>1, <1>2
     DEF LinkNext, Connect, Disconnect, TimedPoll, ReceiveSound, HandlePoll, EndPoll,
         HandleStatus, CampLost, SendSound, KiwiStep, allVars, link

LinkInvariant ==
    /\ Invariant /\ Numbered
    /\ LinkTypeCore /\ astray \in BOOLEAN /\ Closed
    /\ Ordered /\ StatusesAreOld /\ OnlineJobs
    /\ Camps

LEMMA LinkInvariantCorrect == LinkSpec => []LinkInvariant
<1>1. LinkInit => LinkInvariant
  <2> SUFFICES ASSUME LinkInit PROVE LinkInvariant
    OBVIOUS
  <2>1. Init /\ CamperInit
    BY DEF LinkInit
  <2>2. Invariant
    <3>1. Ownership /\ Generations
      BY <2>1, NilAssumption
         DEF Init, Ownership, SingleOwner, GateFollowsSession, Generations,
             OwnerIsLatest, OwnerRuns, GenerationNamesJob, IdleGeneration
    <3>2. Handshake
      BY <2>1
         DEF Init, Handshake, IdleNeverReady, SeenWasOffered, ReadyWasSeen,
             RepliesAreAdvertised, ReadyOnlyAfterOffer, PlaysBehindResponse
    <3> QED
      BY <2>1, <3>1, <3>2, InitType DEF Invariant
  <2>3. Numbered
    BY <2>1 DEF Init, Numbered
  <2>4. LinkTypeCore
    <3>1. IdleJob(0) \in DecoderJob
      BY DEF IdleJob, DecoderJob
    <3>2. <<>> \in Seq(Uplink) /\ <<>> \in Seq(Downlink)
      BY EmptySeq
    <3>3. CamperTypeOK
      BY <2>1, <3>1, <3>2 DEF CamperInit, CamperTypeOK
    <3>4. 0 \in 0..MaxDrops
      BY JobLinkAssumption
    <3> QED
      BY <3>3, <3>4 DEF LinkInit, LinkTypeCore
  <2>5. up = <<>> /\ down = <<>> /\ job_ = IdleJob(0)
    BY <2>1 DEF CamperInit
  <2>6. Closed /\ Ordered /\ StatusesAreOld /\ Camps
    BY <2>1, <2>5, EmptySeq
       DEF LinkInit, CamperInit, Closed, Ordered, Held, StatusesAreOld, Camps
  <2>7. OnlineJobs
    BY <2>1 DEF Init, OnlineJobs
  <2> QED
    BY <2>2, <2>3, <2>4, <2>6, <2>7 DEF LinkInvariant, LinkInit
<1>2. LinkInvariant /\ [LinkNext]_allVars => LinkInvariant'
  <2> SUFFICES ASSUME LinkInvariant, [LinkNext]_allVars PROVE LinkInvariant'
    OBVIOUS
  <2>1. /\ Invariant /\ Numbered /\ LinkTypeCore /\ astray \in BOOLEAN /\ Closed
        /\ Ordered /\ StatusesAreOld /\ OnlineJobs /\ Camps
    BY DEF LinkInvariant
  <2>2. [Next]_vars
    BY <2>1, ExtensionStep
  <2>3. Invariant'
    BY <2>1, <2>2, NextType, NextOwnership, NextGenerations, NextHandshake
       DEF Invariant
  <2> QED
    BY <2>1, <2>2, <2>3, NextNumbered, NextLinkType, NextOrdered, NextStatuses,
       NextOnline, NextCamps, NextAstray
       DEF LinkInvariant
<1> QED
  BY <1>1, <1>2, PTL DEF LinkSpec

\* Every value of the composition has its type, and no connection is lost more
\* often than MaxDrops allows.
THEOREM LinkTypeCorrect == LinkSpec => []LinkTypeOK
<1>1. LinkInvariant => LinkTypeOK
  BY DEF LinkInvariant, LinkTypeCore, LinkTypeOK, Invariant
<1> QED
  BY <1>1, LinkInvariantCorrect, PTL

\* Behind the link the extension does nothing that it does not do on its own:
\* what is proved of Spec holds of the composition, and the statuses that
\* KiwiExtension takes from nowhere include those the decoder sends.
THEOREM ExtensionBehindLink == LinkSpec => Spec
<1>1. LinkInit => Init
  BY DEF LinkInit
<1>2. LinkInvariant /\ [LinkNext]_allVars => [Next]_vars
  BY ExtensionStep DEF LinkInvariant
<1> QED
  BY <1>1, <1>2, LinkInvariantCorrect, PTL DEF LinkSpec, Spec

\* Frames carry no receiver; still none is decoded for another receiver than
\* the one it came from, however camps, jobs and frames overtake each other.
THEOREM FrameMatchesJobCorrect == LinkSpec => []FrameMatchesJob
<1>1. ASSUME LinkInvariant PROVE FrameMatchesJob
  <2> SUFFICES ASSUME Decodes PROVE Head(down).rx = job_.rx_channel
    BY DEF FrameMatchesJob
  <2>0. down \in Seq(Downlink) /\ job_ \in DecoderJob
    BY <1>1 DEF LinkInvariant, LinkTypeCore, CamperTypeOK
  <2>1. /\ down # <<>> /\ Head(down).type = "SND" /\ job_.running
        /\ camped_channel_ = job_.rx_channel
    BY DEF Decodes, Arrives, Accepts
  <2>2. 1 \in DOMAIN down /\ down[1] = Head(down) /\ \A k \in DOMAIN down : ~(k < 1)
    BY <2>0, <2>1, WithoutHead
  <2>3. camped_channel_ \in {Head(down).rx, Nil}
    BY <1>1, <2>1, <2>2 DEF LinkInvariant, Camps, Behind
  <2>4. job_.rx_channel \in Rx
    <3>1. job_ # IdleJob(0)
      BY <2>1 DEF IdleJob
    <3>2. PICK a \in advertised : Essence(a) = Essence(job_)
      BY <1>1, <3>1 DEF LinkInvariant, Ordered, Held
    <3>3. a.running /\ a.rx_channel = job_.rx_channel
      BY <2>1, <3>2 DEF Essence
    <3> QED
      BY <1>1, <3>3 DEF LinkInvariant, Numbered
  <2> QED
    BY <2>1, <2>3, <2>4, NilAssumption
<1> QED
  BY <1>1, LinkInvariantCorrect, PTL

\* The browser is told that a decoder is online only over a status of its own
\* session: the running job the decoder then holds is that very session's.
THEOREM OnlineIsCurrentCorrect == LinkSpec => []OnlineIsCurrent
<1>1. ASSUME LinkInvariant PROVE OnlineIsCurrent
  <2> SUFFICES ASSUME NEW i \in Rx, decoder_online[i], job_.running
               PROVE  job_.generation = generation[i]
    BY DEF OnlineIsCurrent
  <2>1. running[i] /\ generation[i] <= job_.generation
    BY <1>1 DEF LinkInvariant, OnlineJobs
  <2>2. generation[i] = next_generation - 1
    <3>1. Invariant
      BY <1>1 DEF LinkInvariant
    <3>2. OwnerRuns /\ active_rx = i
      BY <2>1, <3>1, RunnerIsOwner
    <3> QED
      BY <3>1, <3>2 DEF Invariant, Generations, OwnerIsLatest
  <2>3. job_.generation < next_generation
    <3>1. job_ # IdleJob(0)
      BY DEF IdleJob
    <3>2. PICK a \in advertised : Essence(a) = Essence(job_)
      BY <1>1, <3>1 DEF LinkInvariant, Ordered, Held
    <3>3. a.generation = job_.generation
      BY <3>2 DEF Essence
    <3> QED
      BY <1>1, <3>3 DEF LinkInvariant, Invariant, Generations
  <2>4. /\ job_.generation \in Nat /\ generation[i] \in Nat
        /\ next_generation \in Nat
    BY <1>1 DEF LinkInvariant, LinkTypeCore, CamperTypeOK, DecoderJob,
                Invariant, TypeOK
  <2> QED
    BY <2>1, <2>2, <2>3, <2>4
<1> QED
  BY <1>1, LinkInvariantCorrect, PTL

\* A connection is broken off over two different jobs of one generation only
\* when they differ in the Reporter switch; no start, stop, retune, test, late
\* response or reconnection makes two others.
THEOREM ConflictOnlyFromSwitchCorrect == LinkSpec => []ConflictOnlyFromSwitch
<1>1. ASSUME LinkInvariant PROVE ConflictOnlyFromSwitch
  <2> DEFINE incoming == Head(down).job
  <2> SUFFICES ASSUME Arrives("job"), Conflict(incoming),
                      incoming.reporter = job_.reporter
               PROVE  FALSE
    BY DEF ConflictOnlyFromSwitch
  <2>1. down \in Seq(Downlink) /\ down # <<>> /\ IsJob(Head(down)) /\ job_ \in DecoderJob
    BY <1>1 DEF LinkInvariant, LinkTypeCore, CamperTypeOK, Arrives, IsJob
  <2>2. 1 \in DOMAIN down /\ down[1] = Head(down)
    BY <2>1, WithoutHead
  <2>3. incoming \in advertised /\ Follows(job_, incoming)
    BY <1>1, <2>1, <2>2 DEF LinkInvariant, Ordered
  <2>4. incoming \in DecoderJob
    BY <1>1, <2>3 DEF LinkInvariant, Invariant, TypeOK
  <2> HIDE DEF incoming
  <2>5. /\ ~TestNowReady(job_, incoming)
        /\ incoming.generation = job_.generation /\ incoming # job_
    BY <2>1, <2>4, Classified DEF Conflict
  <2>6. job_ # IdleJob(0)
    <3> SUFFICES ASSUME job_ = IdleJob(0) PROVE FALSE
      OBVIOUS
    <3>1. incoming.generation = 0
      BY <2>5 DEF IdleJob
    <3> QED
      BY <1>1, <2>3, <2>5, <3>1 DEF LinkInvariant, Numbered
  <2>7. PICK a \in advertised :
            Essence(a) = Essence(job_) /\ a.test_ready = job_.test_ready
    BY <1>1, <2>6 DEF LinkInvariant, Ordered, Held
  <2>8. Essence(incoming) = Essence(job_)
    <3>1. a.generation = incoming.generation
      BY <2>5, <2>7 DEF Essence
    <3>2. Essence(a) = Essence(incoming)
      BY <1>1, <2>3, <3>1
         DEF LinkInvariant, Invariant, Generations, GenerationNamesJob
    <3> QED
      BY <2>7, <3>2
  <2>9. /\ incoming.generation = job_.generation
        /\ incoming.running = job_.running
        /\ incoming.rx_channel = job_.rx_channel
        /\ incoming.mode = job_.mode
        /\ incoming.frequency_hz = job_.frequency_hz
        /\ incoming.test = job_.test
        /\ incoming.reporter = job_.reporter
    BY <2>8 DEF Essence
  <2>10. incoming.test_ready # job_.test_ready
    BY <2>1, <2>4, <2>5, <2>9 DEF DecoderJob
  <2>11. ~job_.test_ready /\ incoming.test_ready
    BY <2>1, <2>3, <2>4, <2>9, <2>10 DEF Follows, DecoderJob
  <2>12. job_.running
    BY <1>1, <2>3, <2>9, <2>11
       DEF LinkInvariant, Invariant, Handshake, IdleNeverReady
  <2>13. job_.test
    <3>1. a.running /\ a.test = job_.test
      BY <2>7, <2>12 DEF Essence
    <3> QED
      BY <1>1, <2>7, <2>11, <3>1 DEF LinkInvariant, Numbered
  <2>14. [incoming EXCEPT !.reporter = job_.reporter]
             = [job_ EXCEPT !.test_ready = TRUE]
    BY <2>1, <2>4, <2>9, <2>11 DEF DecoderJob
  <2> QED
    BY <2>5, <2>11, <2>12, <2>13, <2>14 DEF TestNowReady
<1> QED
  BY <1>1, LinkInvariantCorrect, PTL
------------------------------------------------------------------------------
(* Where the decoder camps.                                                *)

\* The monitor task has yet to read a camp on a receiver.
Awaited(u) == \E n \in DOMAIN u : u[n].type = "camp" /\ u[n].rx # Nil

\* A camp on a receiver is the last one asked for and on the target; where the
\* decoder asked to leave, it takes itself to camp nowhere.
Asked(u, target, channel) ==
    \A n \in DOMAIN u :
        u[n].type = "camp" =>
            /\ u[n].rx = Nil => channel = Nil
            /\ u[n].rx # Nil =>
                   /\ u[n].rx = target
                   /\ \A k \in DOMAIN u : u[k].type = "camp" => k <= n

\* Every camp that was answered was granted, and on the target.
Granted(d, target) ==
    \A n \in DOMAIN d : d[n].type = "camped" => d[n].ok /\ d[n].rx = target

\* The messages that tell the decoder of its camp, and the receiver they tell.
Speaks(e) == e.type \in {"camped", "camp_disconnect"}
Word(e) == IF e.type = "camped" THEN e.rx ELSE Nil

\* A decoder that camps on the channel and reads the queue ends up on rx, by
\* the last message that speaks.
Leads(d, channel, rx) ==
    /\ (\A n \in DOMAIN d : ~Speaks(d[n])) => channel = rx
    /\ \A n \in DOMAIN d :
           Speaks(d[n]) /\ (\A k \in DOMAIN d : n < k => ~Speaks(d[k]))
               => Word(d[n]) = rx

\* No camp is asked for while an earlier one is unanswered, and once none is
\* asked for, decoder and Kiwi are about to agree.
TunedTo(u, d, target, rx, channel) ==
    /\ Asked(u, target, channel)
    /\ Granted(d, target)
    /\ Holds(u, "camp") => ~Holds(d, "camped")
    /\ ~Holds(u, "camp") => Leads(d, channel, rx)

\* Without its first message a queue keeps what holds of it.
LEMMA HeadGone ==
    ASSUME NEW T, NEW s \in Seq(T), s # <<>>
    PROVE  /\ \A t : Holds(s, t) <=> Head(s).type = t \/ Holds(Tail(s), t)
           /\ Awaited(s) <=>
                  \/ Head(s).type = "camp" /\ Head(s).rx # Nil
                  \/ Awaited(Tail(s))
           /\ \A target, channel : Asked(s, target, channel) =>
                  /\ Asked(Tail(s), target, channel)
                  /\ Head(s).type = "camp" =>
                         /\ Head(s).rx = Nil => channel = Nil
                         /\ Head(s).rx # Nil =>
                                Head(s).rx = target /\ ~Holds(Tail(s), "camp")
           /\ \A target : Granted(s, target) =>
                  /\ Granted(Tail(s), target)
                  /\ Head(s).type = "camped" => Head(s).ok /\ Head(s).rx = target
           /\ \A channel, rx : Leads(s, channel, rx) =>
                  IF Speaks(Head(s)) THEN Leads(Tail(s), Word(Head(s)), rx)
                                     ELSE Leads(Tail(s), channel, rx)
<1> DEFINE rest == Tail(s)
<1>1. /\ Head(s) = s[1] /\ Len(s) \in Nat \ {0}
      /\ DOMAIN s = 1..Len(s) /\ DOMAIN rest = 1..Len(s) - 1
      /\ \A n \in DOMAIN rest : n + 1 \in DOMAIN s /\ rest[n] = s[n + 1]
  BY WithoutHead
<1> HIDE DEF rest
<1>2. /\ 1 \in DOMAIN s
      /\ \A n \in DOMAIN rest : n \in Nat \ {0} /\ n + 1 # 1 /\ 1 < n + 1
      /\ \A n \in DOMAIN s : n # 1 =>
             n - 1 \in DOMAIN rest /\ rest[n - 1] = s[n]
  <2>1. ASSUME NEW n \in DOMAIN s, n # 1
        PROVE  n - 1 \in DOMAIN rest /\ (n - 1) + 1 = n
    BY <1>1, <2>1
  <2> QED
    BY <1>1, <2>1
<1>3. ASSUME NEW t PROVE Holds(s, t) <=> Head(s).type = t \/ Holds(rest, t)
  BY <1>1, <1>2 DEF Holds
<1>4. Awaited(s) <=> (Head(s).type = "camp" /\ Head(s).rx # Nil) \/ Awaited(rest)
  BY <1>1, <1>2 DEF Awaited
<1>5. ASSUME NEW target, NEW channel, Asked(s, target, channel)
      PROVE  /\ Asked(rest, target, channel)
             /\ Head(s).type = "camp" =>
                    /\ Head(s).rx = Nil => channel = Nil
                    /\ Head(s).rx # Nil =>
                           Head(s).rx = target /\ ~Holds(rest, "camp")
  <2>1. ASSUME NEW n \in DOMAIN rest, rest[n].type = "camp", rest[n].rx # Nil,
               NEW k \in DOMAIN rest, rest[k].type = "camp"
        PROVE  rest[n].rx = target /\ k <= n
    <3>1. s[n + 1].rx = target /\ k + 1 <= n + 1
      BY <1>1, <1>5, <2>1 DEF Asked
    <3> QED
      BY <1>1, <1>2, <3>1
  <2>2. ASSUME NEW n \in DOMAIN rest, rest[n].type = "camp", rest[n].rx = Nil
        PROVE  channel = Nil
    BY <1>1, <1>5, <2>2 DEF Asked
  <2>3. Asked(rest, target, channel)
    BY <2>1, <2>2 DEF Asked
  <2>4. ASSUME Head(s).type = "camp", Head(s).rx # Nil
        PROVE  Head(s).rx = target /\ ~Holds(rest, "camp")
    <3>1. s[1].rx = target /\ \A k \in DOMAIN s : s[k].type = "camp" => k <= 1
      BY <1>1, <1>2, <1>5, <2>4 DEF Asked
    <3>2. ASSUME NEW n \in DOMAIN rest, rest[n].type = "camp" PROVE FALSE
      <4>1. n + 1 <= 1 /\ 1 < n + 1
        BY <1>1, <1>2, <3>1, <3>2
      <4> QED
        BY <1>2, <4>1
    <3> QED
      BY <1>1, <3>1, <3>2 DEF Holds
  <2>5. Head(s).type = "camp" /\ Head(s).rx = Nil => channel = Nil
    BY <1>1, <1>2, <1>5 DEF Asked
  <2> QED
    BY <2>3, <2>4, <2>5
<1>6. ASSUME NEW target, Granted(s, target)
      PROVE  /\ Granted(rest, target)
             /\ Head(s).type = "camped" => Head(s).ok /\ Head(s).rx = target
  BY <1>1, <1>2, <1>6 DEF Granted
<1>7. ASSUME NEW channel, NEW rx, Leads(s, channel, rx)
      PROVE  IF Speaks(Head(s)) THEN Leads(rest, Word(Head(s)), rx)
                                ELSE Leads(rest, channel, rx)
  <2> DEFINE now == IF Speaks(Head(s)) THEN Word(Head(s)) ELSE channel
  <2>1. ASSUME \A n \in DOMAIN rest : ~Speaks(rest[n])
        PROVE  now = rx
    <3>1. \A n \in DOMAIN s : n # 1 => ~Speaks(s[n])
      BY <1>2, <2>1
    <3>2. CASE Speaks(Head(s))
      <4>1. Speaks(s[1]) /\ \A k \in DOMAIN s : 1 < k => ~Speaks(s[k])
        BY <1>1, <3>1, <3>2
      <4>2. Word(s[1]) = rx
        BY <1>2, <1>7, <4>1 DEF Leads
      <4> QED
        BY <1>1, <3>2, <4>2
    <3>3. CASE ~Speaks(Head(s))
      BY <1>1, <1>7, <3>1, <3>3 DEF Leads
    <3> QED
      BY <3>2, <3>3
  <2>2. ASSUME NEW n \in DOMAIN rest, Speaks(rest[n]),
               \A k \in DOMAIN rest : n < k => ~Speaks(rest[k])
        PROVE  Word(rest[n]) = rx
    <3>1. ASSUME NEW k \in DOMAIN s, n + 1 < k
          PROVE  ~Speaks(s[k])
      <4>1. k # 1 /\ n < k - 1
        BY <1>1, <3>1
      <4> QED
        BY <1>2, <2>2, <4>1
    <3>2. n + 1 \in DOMAIN s /\ rest[n] = s[n + 1]
      BY <1>1
    <3> QED
      BY <1>7, <2>2, <3>1, <3>2 DEF Leads
  <2>3. Leads(rest, now, rx)
    BY <2>1, <2>2 DEF Leads
  <2> QED
    BY <2>3
<1> QED
  BY <1>3, <1>4, <1>5, <1>6, <1>7 DEF rest

\* What holds of a queue with a message more.
LEMMA OneMore ==
    ASSUME NEW T, NEW s \in Seq(T), NEW e \in T
    PROVE  /\ \A t : Holds(Append(s, e), t) <=> Holds(s, t) \/ e.type = t
           /\ Awaited(Append(s, e)) <=> Awaited(s) \/ (e.type = "camp" /\ e.rx # Nil)
           /\ \A target, channel :
                  /\ Asked(s, target, channel)
                  /\ e.type = "camp" =>
                         /\ ~Awaited(s)
                         /\ e.rx = Nil => channel = Nil
                         /\ e.rx # Nil => e.rx = target
                  => Asked(Append(s, e), target, channel)
           /\ \A target :
                  Granted(s, target)
                      /\ (e.type = "camped" => e.ok /\ e.rx = target)
                  => Granted(Append(s, e), target)
           /\ \A channel, rx :
                  IF Speaks(e) THEN Leads(Append(s, e), channel, Word(e))
                  ELSE Leads(s, channel, rx) => Leads(Append(s, e), channel, rx)
<1> DEFINE longer == Append(s, e)
           last == Len(s) + 1
<1>1. /\ DOMAIN s = 1..Len(s) /\ Len(s) \in Nat
      /\ DOMAIN longer = 1..Len(s) + 1 /\ longer[last] = e
      /\ \A n \in DOMAIN s : longer[n] = s[n]
  BY WithOneMore
<1> HIDE DEF longer
<1>2. /\ last \in DOMAIN longer
      /\ \A n \in DOMAIN longer : (n \in DOMAIN s \/ n = last) /\ n <= last /\ ~(last < n)
      /\ \A n \in DOMAIN s : n \in DOMAIN longer /\ n < last /\ n # last
  BY <1>1
<1> HIDE DEF last
<1>3. ASSUME NEW t PROVE Holds(longer, t) <=> Holds(s, t) \/ e.type = t
  BY <1>1, <1>2 DEF Holds
<1>4. Awaited(longer) <=> Awaited(s) \/ (e.type = "camp" /\ e.rx # Nil)
  BY <1>1, <1>2 DEF Awaited
<1>5. ASSUME NEW target, NEW channel, Asked(s, target, channel),
             e.type = "camp" =>
                 /\ ~Awaited(s)
                 /\ e.rx = Nil => channel = Nil
                 /\ e.rx # Nil => e.rx = target
      PROVE  Asked(longer, target, channel)
  <2>1. CASE e.type = "camp"
    BY <1>1, <1>2, <1>5, <2>1 DEF Asked, Awaited
  <2>2. CASE e.type # "camp"
    BY <1>1, <1>2, <1>5, <2>2 DEF Asked
  <2> QED
    BY <2>1, <2>2
<1>6. ASSUME NEW target, Granted(s, target),
             e.type = "camped" => e.ok /\ e.rx = target
      PROVE  Granted(longer, target)
  BY <1>1, <1>2, <1>6 DEF Granted
<1>7. ASSUME NEW channel, NEW rx, ~Speaks(e), Leads(s, channel, rx)
      PROVE  Leads(longer, channel, rx)
  BY <1>1, <1>2, <1>7 DEF Leads
<1>8. ASSUME NEW channel, Speaks(e) PROVE Leads(longer, channel, Word(e))
  <2>1. last \in DOMAIN longer /\ Speaks(longer[last])
    BY <1>1, <1>2, <1>8
  <2>2. ASSUME NEW n \in DOMAIN longer,
               \A k \in DOMAIN longer : n < k => ~Speaks(longer[k])
        PROVE  Word(longer[n]) = Word(e)
    <3>1. n = last
      BY <1>2, <2>1, <2>2
    <3> QED
      BY <1>1, <3>1
  <2> QED
    BY <2>1, <2>2 DEF Leads
<1> QED
  BY <1>3, <1>4, <1>5, <1>6, <1>7, <1>8 DEF longer

\* A list of messages is added one by one.
LEMMA Added ==
    ASSUME NEW T, NEW s \in Seq(T), NEW a \in T, NEW b \in T
    PROVE  /\ s \o <<>> = s
           /\ s \o <<a>> = Append(s, a)
           /\ s \o <<a, b>> = Append(Append(s, a), b)
           /\ Append(s, a) \in Seq(T) /\ Append(Append(s, a), b) \in Seq(T)
<1>1. Append(s, a) \in Seq(T) /\ Append(Append(s, a), b) \in Seq(T)
  BY AppendProperties
<1>2. s \o <<>> = s /\ s \o <<a>> = Append(s, a)
  BY ConcatEmptySeq, AppendIsConcat
<1>3. <<a>> \in Seq(T) /\ <<b>> \in Seq(T)
  OBVIOUS
<1>4. (s \o <<a>>) \o <<b>> = s \o (<<a>> \o <<b>>)
  BY <1>3, ConcatAssociative
<1>5. Append(Append(s, a), b) = Append(s, a) \o <<b>>
  BY <1>1, AppendIsConcat
<1>6. <<a>> \o <<b>> = <<a, b>>
  BY ShortLists
<1> QED
  BY <1>1, <1>2, <1>4, <1>5, <1>6

\* The first message is read: an acknowledgement makes the decoder camp on the
\* target, a loss nowhere.
LEMMA TunedHandled ==
    ASSUME NEW u \in Seq(Uplink), NEW d \in Seq(Downlink), d # <<>>,
           NEW target, NEW rx, NEW channel, TunedTo(u, d, target, rx, channel)
    PROVE  /\ Head(d).type = "camped" =>
                  /\ Head(d).rx = target /\ Head(d).ok
                  /\ TunedTo(u, Tail(d), target, rx, target)
           /\ Head(d).type = "camp_disconnect" =>
                  TunedTo(u, Tail(d), target, rx, Nil)
           /\ ~Speaks(Head(d)) => TunedTo(u, Tail(d), target, rx, channel)
<1>1. /\ \A t : Holds(d, t) <=> Head(d).type = t \/ Holds(Tail(d), t)
      /\ Granted(d, target) =>
             /\ Granted(Tail(d), target)
             /\ Head(d).type = "camped" => Head(d).ok /\ Head(d).rx = target
      /\ Leads(d, channel, rx) =>
             IF Speaks(Head(d)) THEN Leads(Tail(d), Word(Head(d)), rx)
                                ELSE Leads(Tail(d), channel, rx)
  BY HeadGone
<1>2. /\ Asked(u, target, channel) => Asked(u, target, Nil)
      /\ ~Holds(u, "camp") => Asked(u, target, target)
  BY DEF Asked, Holds
<1>3. /\ Head(d).type = "camped" => Speaks(Head(d)) /\ Word(Head(d)) = Head(d).rx
      /\ Head(d).type = "camp_disconnect" => Speaks(Head(d)) /\ Word(Head(d)) = Nil
  BY DEF Speaks, Word
<1>4. CASE Head(d).type = "camped"
  <2>1. Head(d).rx = target /\ Head(d).ok /\ ~Holds(u, "camp")
    BY <1>1, <1>4 DEF TunedTo
  <2>2. TunedTo(u, Tail(d), target, rx, target)
    BY <1>1, <1>2, <1>3, <1>4, <2>1 DEF TunedTo
  <2> QED
    BY <1>3, <1>4, <2>1, <2>2
<1>5. CASE Head(d).type = "camp_disconnect"
  <2>1. TunedTo(u, Tail(d), target, rx, Nil)
    BY <1>1, <1>2, <1>3, <1>5 DEF TunedTo
  <2> QED
    BY <1>3, <1>5, <2>1
<1>6. CASE ~Speaks(Head(d))
  <2>1. TunedTo(u, Tail(d), target, rx, channel)
    BY <1>1, <1>6 DEF TunedTo
  <2> QED
    BY <1>3, <1>6, <2>1
<1> QED
  BY <1>4, <1>5, <1>6 DEF Speaks

\* The first command is handled: a camp that is granted is acknowledged behind
\* everything else, unless the decoder asked to leave.
LEMMA TunedServed ==
    ASSUME NEW u \in Seq(Uplink), NEW d \in Seq(Downlink), u # <<>>,
           NEW target, NEW rx, NEW channel, TunedTo(u, d, target, rx, channel)
    PROVE  /\ Head(u).type # "camp" => TunedTo(Tail(u), d, target, rx, channel)
           /\ Head(u).type = "camp" /\ Head(u).rx = Nil =>
                  TunedTo(Tail(u), d, target, Nil, channel)
           /\ Head(u).type = "camp" /\ Head(u).rx # Nil =>
                  LET e == Camped(Head(u).rx, TRUE) IN
                  e \in Downlink =>
                      TunedTo(Tail(u), Append(d, e), target, Head(u).rx, channel)
<1>1. /\ \A t : Holds(u, t) <=> Head(u).type = t \/ Holds(Tail(u), t)
      /\ Asked(u, target, channel) =>
             /\ Asked(Tail(u), target, channel)
             /\ Head(u).type = "camp" =>
                    /\ Head(u).rx = Nil => channel = Nil
                    /\ Head(u).rx # Nil =>
                           Head(u).rx = target /\ ~Holds(Tail(u), "camp")
  BY HeadGone
<1>2. CASE Head(u).type # "camp"
  BY <1>1, <1>2 DEF TunedTo
<1>3. CASE Head(u).type = "camp" /\ Head(u).rx = Nil
  <2>1. channel = Nil /\ ~Holds(d, "camped")
    BY <1>1, <1>3 DEF TunedTo
  <2>2. Leads(d, Nil, Nil)
    BY <2>1 DEF Leads, Holds, Speaks, Word
  <2> QED
    BY <1>1, <1>3, <2>1, <2>2 DEF TunedTo
<1>4. CASE Head(u).type = "camp" /\ Head(u).rx # Nil
  <2> DEFINE e == Camped(Head(u).rx, TRUE)
  <2>1. /\ e.type = "camped" /\ e.ok /\ e.rx = Head(u).rx
        /\ Speaks(e) /\ Word(e) = Head(u).rx
    BY DEF Camped, Speaks, Word
  <2> HIDE DEF e
  <2>2. Head(u).rx = target /\ ~Holds(Tail(u), "camp") /\ Granted(d, target)
        /\ Asked(Tail(u), target, channel)
    BY <1>1, <1>4 DEF TunedTo
  <2>3. ASSUME e \in Downlink
        PROVE  TunedTo(Tail(u), Append(d, e), target, Head(u).rx, channel)
    <3>1. /\ Granted(Append(d, e), target)
          /\ Leads(Append(d, e), channel, Head(u).rx)
      BY <2>1, <2>2, <2>3, OneMore
    <3> QED
      BY <2>2, <3>1 DEF TunedTo
  <2> QED
    BY <1>4, <2>3 DEF e
<1> QED
  BY <1>2, <1>3, <1>4

\* Polls, statuses, jobs and frames say nothing of a camp; a loss is the last
\* word on it.
LEMMA TunedOneMore ==
    ASSUME NEW u \in Seq(Uplink), NEW d \in Seq(Downlink),
           NEW target, NEW rx, NEW channel, TunedTo(u, d, target, rx, channel)
    PROVE  /\ \A e \in Uplink : e.type # "camp" =>
                  TunedTo(Append(u, e), d, target, rx, channel)
           /\ \A e \in Downlink : ~Speaks(e) =>
                  TunedTo(u, Append(d, e), target, rx, channel)
           /\ \A e \in Downlink : e.type = "camp_disconnect" =>
                  TunedTo(u, Append(d, e), target, Nil, channel)
<1>1. ASSUME NEW e \in Uplink, e.type # "camp"
      PROVE  TunedTo(Append(u, e), d, target, rx, channel)
  <2>1. /\ \A t : Holds(Append(u, e), t) <=> Holds(u, t) \/ e.type = t
        /\ Asked(u, target, channel) => Asked(Append(u, e), target, channel)
    BY <1>1, OneMore
  <2> QED
    BY <1>1, <2>1 DEF TunedTo
<1>2. ASSUME NEW e \in Downlink, e.type # "camped"
      PROVE  /\ ~Speaks(e) => TunedTo(u, Append(d, e), target, rx, channel)
             /\ Speaks(e) => TunedTo(u, Append(d, e), target, Nil, channel)
  <2>1. /\ \A t : Holds(Append(d, e), t) <=> Holds(d, t) \/ e.type = t
        /\ Granted(d, target) => Granted(Append(d, e), target)
        /\ IF Speaks(e) THEN Leads(Append(d, e), channel, Word(e))
           ELSE Leads(d, channel, rx) => Leads(Append(d, e), channel, rx)
    BY <1>2, OneMore
  <2>2. Word(e) = Nil
    BY <1>2 DEF Word
  <2> QED
    BY <1>2, <2>1, <2>2 DEF TunedTo
<1>3. \A e : (e.type = "camp_disconnect" => Speaks(e) /\ e.type # "camped")
             /\ (~Speaks(e) => e.type # "camped")
  BY DEF Speaks
<1> QED
  BY <1>1, <1>2, <1>3

\* Where no camp on a receiver is unanswered, the next one may be asked for.
LEMMA TunedAnew ==
    ASSUME NEW u \in Seq(Uplink), NEW d \in Seq(Downlink),
           ~Awaited(u), ~Holds(d, "camped"),
           NEW target, NEW rx, NEW channel, TunedTo(u, d, target, rx, channel),
           NEW other \in Rx
    PROVE  /\ TunedTo(u, d, other, rx, channel)
           /\ TunedTo(u, d, Nil, rx, channel)
           /\ TunedTo(Append(u, Camp(Nil)), d, Nil, rx, Nil)
           /\ TunedTo(Append(u, Camp(other)), d, other, rx, channel)
<1>1. \A t : Asked(u, t, channel) /\ Asked(u, t, Nil) /\ Granted(d, t)
  BY DEF TunedTo, Asked, Granted, Awaited, Holds
<1>2. \A t : TunedTo(u, d, t, rx, channel)
  BY <1>1 DEF TunedTo
<1>3. other # Nil
  BY NilAssumption
<1>4. ASSUME NEW t \in Rx \cup {Nil}, NEW c, t = Nil => c = Nil, Asked(u, t, c)
      PROVE  TunedTo(Append(u, Camp(t)), d, t, rx, c)
  <2> DEFINE e == Camp(t)
  <2>1. e \in Uplink /\ e.type = "camp" /\ e.rx = t
    BY MessageTypes DEF Camp
  <2> HIDE DEF e
  <2>2. /\ \A x : Holds(Append(u, e), x) <=> Holds(u, x) \/ e.type = x
        /\ Asked(Append(u, e), t, c)
    BY <1>4, <2>1, OneMore
  <2>3. TunedTo(Append(u, e), d, t, rx, c)
    BY <1>1, <2>1, <2>2 DEF TunedTo
  <2> QED
    BY <2>3 DEF e
<1> QED
  BY <1>1, <1>2, <1>3, <1>4

\* Where the decoder's job wants it to camp.
Target == IF job_.running THEN job_.rx_channel ELSE Nil

\* A decoder that holds the job of a running session has a backend and camps
\* on the session's receiver, or is about to be told to.
Bound ==
    HoldsCurrentJob =>
        /\ backend_
        /\ camped_channel_ = Target \/ Awaited(up) \/ Holds(down, "camped")

Steered ==
    ~astray => TunedTo(up, down, Target, camped_rx, camped_channel_) /\ Bound

\* A job that runs is on a receiver, the one that arrives too; and the one the
\* decoder holds is no later than the last that was handed out.
LEMMA JobsOfReceivers ==
    ASSUME LinkInvariant
    PROVE  /\ job_ \in DecoderJob
           /\ job_.running =>
                  job_.rx_channel \in Rx /\ job_.generation < next_generation
           /\ Arrives("job") =>
                  /\ Head(down).job \in DecoderJob
                  /\ Head(down).job.running => Head(down).job.rx_channel \in Rx
<1>1. job_ \in DecoderJob /\ down \in Seq(Downlink)
  BY DEF LinkInvariant, LinkTypeCore, CamperTypeOK
<1>2. job_.running => job_.rx_channel \in Rx /\ job_.generation < next_generation
  <2>1. CASE job_ = IdleJob(0)
    BY <2>1 DEF IdleJob
  <2>2. ASSUME NEW a \in advertised, Essence(a) = Essence(job_), job_.running
        PROVE  job_.rx_channel \in Rx /\ job_.generation < next_generation
    <3>1. /\ a.generation = job_.generation /\ a.running = job_.running
          /\ a.rx_channel = job_.rx_channel
      BY <2>2 DEF Essence
    <3> QED
      BY <2>2, <3>1 DEF LinkInvariant, Numbered, Invariant, Generations
  <2> QED
    BY <2>1, <2>2 DEF LinkInvariant, Ordered, Held
<1>3. ASSUME Arrives("job")
      PROVE  /\ Head(down).job \in DecoderJob
             /\ Head(down).job.running => Head(down).job.rx_channel \in Rx
  <2>1. 1 \in DOMAIN down /\ down[1] = Head(down) /\ IsJob(Head(down))
    BY <1>1, <1>3, WithoutHead DEF Arrives, IsJob
  <2>2. Head(down).job \in advertised
    BY <2>1 DEF LinkInvariant, Ordered
  <2> QED
    BY <2>2 DEF LinkInvariant, Numbered, Invariant, TypeOK
<1> QED
  BY <1>1, <1>2, <1>3

\* A session that ends or is numbered anew does not come back.
LEMMA StillHeld ==
    ASSUME LinkInvariant, [LinkNext]_allVars,
           job_'.running = job_.running, job_'.rx_channel = job_.rx_channel,
           job_'.generation = job_.generation,
           HoldsCurrentJob'
    PROVE  HoldsCurrentJob
<1> DEFINE i == job_.rx_channel
           g == job_.generation
<1>1. /\ job_.running /\ running'[i] /\ g = generation'[i]
  BY DEF HoldsCurrentJob, Current
<1>2. i \in Rx /\ g < next_generation /\ g \in Nat
  BY <1>1, JobsOfReceivers DEF DecoderJob
<1>3. TypeOK /\ next_generation \in Nat
  BY DEF LinkInvariant, Invariant, TypeOK
<1>4. [Next]_vars
  BY ExtensionStep DEF LinkInvariant
<1> HIDE DEF i, g
<1>5. ASSUME NEW k \in Rx, NEW m \in Modes, NEW asTest \in BOOLEAN,
             NEW report \in BOOLEAN, Begin(k, m, asTest, report)
      PROVE  running[i] /\ g = generation[i]
  BY <1>1, <1>2, <1>3, <1>5 DEF Begin, TypeOK
<1>6. ASSUME NEW k \in Rx, freedv_stop(k)
      PROVE  running[i] /\ g = generation[i]
  BY <1>1, <1>2, <1>3, <1>6 DEF freedv_stop, TypeOK
<1>7. ASSUME NEW m \in Monitors, freedv_monitor_poll(m)
      PROVE  running[i] /\ g = generation[i]
  <2>1. CASE OwnerMoved
    <3>1. /\ running' = running /\ active_rx \in Rx
          /\ generation' = [generation EXCEPT ![active_rx] = next_generation]
      BY <1>3, <1>7, <2>1 DEF freedv_monitor_poll, Retune, session, TypeOK,
                              OwnerMoved, OwnerRuns
    <3> QED
      BY <1>1, <1>2, <1>3, <3>1 DEF TypeOK
  <2>2. CASE ~OwnerMoved
    BY <1>1, <1>7, <2>2 DEF freedv_monitor_poll, session, identity
  <2> QED
    BY <2>1, <2>2
<1>8. ASSUME UNCHANGED <<running, generation>>
      PROVE  running[i] /\ g = generation[i]
  BY <1>1, <1>8
<1>9. running[i] /\ g = generation[i]
  BY <1>3, <1>4, <1>5, <1>6, <1>7, <1>8, NextCases
     DEF freedv_receive_cmds, freedv_poll, FinishPoll, freedv_test_audio,
         Tune, SwitchReporter, vars, session, identity, polls, testVars
<1> QED
  BY <1>1, <1>9 DEF HoldsCurrentJob, Current, i, g

LEMMA StepOfReceipt ==
    ReceiveJob \/ ReceiveControl \/ ReceiveSound => [LinkNext]_allVars
BY DEF LinkNext

\* A camper made anew is on its way to no camp.
LEMMA FreshSteered ==
    ASSUME NEW greetings \in {<<>>, <<Greeting>>}, FreshCamper(greetings),
           camped_rx' = Nil
    PROVE  Steered'
<1>1. /\ up' = <<>> /\ down' = greetings /\ job_' = IdleJob(0)
      /\ camped_channel_' = Nil
  BY DEF FreshCamper
<1>2. \A n \in DOMAIN greetings : greetings[n].type = "monitor"
  BY FreshQueue DEF Greeting
<1>3. TunedTo(<<>>, greetings, Nil, Nil, Nil)
  BY <1>2 DEF TunedTo, Asked, Granted, Holds, Leads, Speaks
<1>4. ~job_'.running /\ Target' = Nil
  BY <1>1 DEF IdleJob, Target
<1> QED
  BY <1>1, <1>3, <1>4 DEF Steered, Bound, HoldsCurrentJob

\* A job that is kept or armed changes nothing of the camp.  A new one finds no
\* camp unanswered, or everything settled, unless it leads the decoder astray:
\* so the next camp is asked for, or need not be.
LEMMA SteeredByJob ==
    ASSUME LinkInvariant, Steered, ReceiveJob, ~Ends
    PROVE  Steered'
<1> SUFFICES ASSUME ~astray'
             PROVE  TunedTo(up', down', Target', camped_rx', camped_channel_') /\ Bound'
  BY DEF Steered
<1> DEFINE incoming == Head(down).job
           rest == Tail(down)
           p == Poll
<1>0. /\ up \in Seq(Uplink) /\ down \in Seq(Downlink) /\ CamperTypeOK
      /\ job_ \in DecoderJob /\ job_.generation \in Nat
  BY DEF LinkInvariant, LinkTypeCore, CamperTypeOK, DecoderJob
<1>1. /\ Arrives("job") /\ down # <<>> /\ Head(down).type = "job"
      /\ incoming \in DecoderJob /\ ~Conflict(incoming)
      /\ UNCHANGED <<connected, camped_rx>>
      /\ ArmTest(incoming) \/ KeepJob(incoming)
           \/ StopJob(incoming) \/ StartJob(incoming)
  BY <1>0, JobCases DEF Arrives, ArmTest, KeepJob, StopJob, StartJob, Conflict
<1>2. rest \in Seq(Downlink) /\ \A t : Holds(down, t) <=> t = "job" \/ Holds(rest, t)
  BY <1>0, <1>1, HeadGone, WithoutHead
<1>3. astray' = IF job_'.generation = job_.generation THEN astray
                ELSE CampUnanswered \/ (astray /\ ~Agreed)
  BY <1>1 DEF ReceiveJob
<1>4. p \in Uplink /\ p.type = "poll"
  BY MessageTypes DEF Poll
<1>5. CASE ArmTest(incoming) \/ KeepJob(incoming)
  <2>1. /\ down' = rest /\ UNCHANGED <<camped_channel_, backend_>>
        /\ job_'.running = job_.running /\ job_'.rx_channel = job_.rx_channel
        /\ job_'.generation = job_.generation
        /\ up' = up \o <<>> \/ up' = up \o <<p>>
    <3>1. CASE ArmTest(incoming)
      BY <1>0, <3>1 DEF ArmTest, Answer, DecoderJob
    <3>2. CASE KeepJob(incoming)
      BY <3>2 DEF KeepJob, Answer, PollIfIdle
    <3> QED
      BY <1>5, <3>1, <3>2
  <2>2. ~astray /\ TunedTo(up, down, Target, camped_rx, camped_channel_) /\ Bound
    BY <1>3, <2>1 DEF Steered
  <2>3. Target' = Target
    BY <2>1 DEF Target
  <2>4. TunedTo(up, rest, Target, camped_rx, camped_channel_)
    BY <1>0, <1>1, <2>2, TunedHandled DEF Speaks
  <2> HIDE DEF rest, p
  <2>5. up' = up \/ up' = Append(up, p)
    BY <1>0, <1>4, <2>1, Added
  <2>6. TunedTo(up', rest, Target, camped_rx, camped_channel_)
    BY <1>0, <1>2, <1>4, <2>4, <2>5, TunedOneMore
  <2>7. Awaited(up) => Awaited(up')
    <3>1. Awaited(up) => Awaited(Append(up, p))
      BY <1>0, <1>4, OneMore
    <3> QED
      BY <2>5, <3>1
  <2>8. HoldsCurrentJob' => HoldsCurrentJob
    BY <2>1, StillHeld, StepOfReceipt
  <2>9. Bound'
    BY <1>2, <2>1, <2>2, <2>3, <2>7, <2>8 DEF Bound
  <2> QED
    BY <1>1, <2>1, <2>3, <2>6, <2>9
<1>6. CASE StopJob(incoming) \/ StartJob(incoming)
  <2>1. job_' = incoming /\ incoming.generation # job_.generation
    BY <1>0, <1>1, <1>6, Classified DEF StopJob, StartJob
  <2>2. ~CampUnanswered /\ (astray => Agreed)
    BY <1>3, <2>1
  <2>3. ~Awaited(up) /\ ~Holds(rest, "camped")
    BY <2>2 DEF CampUnanswered, Awaited
  <2>4. PICK t : TunedTo(up, rest, t, camped_rx, camped_channel_)
    <3>1. CASE ~astray
      BY <1>0, <1>1, <3>1, TunedHandled DEF Steered, Speaks
    <3>2. CASE astray
      <4>1. /\ camped_channel_ = camped_rx /\ ~Holds(up, "camp")
            /\ ~Holds(rest, "camped") /\ ~Holds(rest, "camp_disconnect")
        BY <2>2, <3>2 DEF Agreed
      <4>2. TunedTo(up, rest, Nil, camped_rx, camped_channel_)
        BY <4>1 DEF TunedTo, Asked, Granted, Holds, Leads, Speaks
      <4> QED
        BY <4>2
    <3> QED
      BY <3>1, <3>2
  <2>5. ASSUME NEW other \in Rx
        PROVE  /\ TunedTo(up, rest, other, camped_rx, camped_channel_)
               /\ TunedTo(up, rest, Nil, camped_rx, camped_channel_)
               /\ TunedTo(Append(up, Camp(Nil)), rest, Nil, camped_rx, Nil)
               /\ TunedTo(Append(up, Camp(other)), rest, other, camped_rx,
                          camped_channel_)
    BY <1>0, <1>2, <2>3, <2>4, TunedAnew
  <2> HIDE DEF rest
  <2>6. CASE StopJob(incoming)
    <3>1. /\ ~incoming.running /\ camped_channel_' = Nil /\ down' = rest
          /\ up' = up \o ((IF camped_channel_ # Nil THEN <<Camp(Nil)>> ELSE <<>>)
                              \o <<p>>)
      BY <2>6 DEF StopJob, Answer, PollIfIdle, rest
    <3>2. Target' = Nil /\ Bound'
      BY <2>1, <3>1 DEF Target, Bound, HoldsCurrentJob
    <3>3. TunedTo(up', rest, Nil, camped_rx, Nil)
      <4>1. CASE camped_channel_ # Nil
        <5> DEFINE c == Camp(Nil)
        <5>1. up' = up \o <<c, p>>
          BY <3>1, <4>1, ShortLists
        <5>2. c \in Uplink
          BY MessageTypes
        <5>3. PICK other \in Rx : TRUE
          BY <1>0, <4>1 DEF CamperTypeOK
        <5>4. TunedTo(Append(up, c), rest, Nil, camped_rx, Nil)
          BY <2>5, <5>3
        <5> HIDE DEF c, p
        <5>5. up' = Append(Append(up, c), p) /\ Append(up, c) \in Seq(Uplink)
          BY <1>0, <1>4, <5>1, <5>2, Added
        <5> QED
          BY <1>2, <1>4, <5>4, <5>5, TunedOneMore
      <4>2. CASE camped_channel_ = Nil
        <5>1. up' = up \o <<p>>
          BY <3>1, <4>2, ShortLists
        <5>2. TunedTo(up, rest, Nil, camped_rx, Nil)
          BY <2>3, <2>4, <4>2 DEF TunedTo, Asked, Granted, Awaited, Holds
        <5> HIDE DEF p
        <5>3. up' = Append(up, p)
          BY <1>0, <1>4, <5>1, Added
        <5> QED
          BY <1>0, <1>2, <1>4, <5>2, <5>3, TunedOneMore
      <4> QED
        BY <4>1, <4>2
    <3> QED
      BY <1>1, <3>1, <3>2, <3>3
  <2>7. CASE StartJob(incoming)
    <3> DEFINE target == incoming.rx_channel
               s == Status(incoming.generation)
    <3>1. /\ incoming.running /\ backend_' = TRUE /\ down' = rest
          /\ up' = up \o ((IF NeedsCamp(incoming) THEN <<Camp(target)>> ELSE <<>>)
                              \o <<s>>)
          /\ camped_channel_' = camped_channel_
      BY <2>7 DEF StartJob, Answer, rest
    <3>2. target \in Rx /\ target # Nil /\ incoming.generation \in Nat
      BY <1>1, <3>1, JobsOfReceivers, NilAssumption DEF DecoderJob
    <3>3. Target' = target
      BY <2>1, <3>1 DEF Target
    <3>4. s \in Uplink /\ s.type = "status"
      BY <3>2, MessageTypes DEF Status
    <3>5. CASE NeedsCamp(incoming)
      <4> DEFINE c == Camp(target)
      <4>1. up' = up \o <<c, s>>
        BY <3>1, <3>5, ShortLists
      <4>2. c \in Uplink /\ c.type = "camp" /\ c.rx # Nil
        BY <3>2, MessageTypes DEF Camp
      <4>3. TunedTo(Append(up, c), rest, target, camped_rx, camped_channel_)
        BY <2>5, <3>2
      <4> HIDE DEF c, s
      <4>4. up' = Append(Append(up, c), s) /\ Append(up, c) \in Seq(Uplink)
        BY <1>0, <3>4, <4>1, <4>2, Added
      <4>5. Awaited(Append(up, c))
        BY <1>0, <4>2, OneMore
      <4>6. Awaited(up')
        BY <3>4, <4>4, <4>5, OneMore
      <4>7. TunedTo(up', rest, target, camped_rx, camped_channel_)
        BY <1>2, <3>4, <4>3, <4>4, TunedOneMore
      <4> QED
        BY <1>1, <3>1, <3>3, <4>6, <4>7 DEF Bound
    <3>6. CASE ~NeedsCamp(incoming)
      <4>1. up' = up \o <<s>>
        BY <3>1, <3>6, ShortLists
      <4>2. camped_channel_ = target
        BY <3>6 DEF NeedsCamp
      <4>3. TunedTo(up, rest, target, camped_rx, camped_channel_)
        BY <2>5, <3>2
      <4> HIDE DEF s
      <4>4. up' = Append(up, s)
        BY <1>0, <3>4, <4>1, Added
      <4>5. TunedTo(up', rest, target, camped_rx, camped_channel_)
        BY <1>0, <1>2, <3>4, <4>3, <4>4, TunedOneMore
      <4> QED
        BY <1>1, <3>1, <3>3, <4>2, <4>5 DEF Bound
    <3> QED
      BY <3>5, <3>6
  <2> QED
    BY <1>6, <2>6, <2>7
<1> QED
  BY <1>1, <1>5, <1>6

\* Only an acknowledgement makes the decoder camp, on the target; a loss leads
\* it astray unless its session has ended.
LEMMA SteeredByControl ==
    ASSUME LinkInvariant, Steered, ReceiveControl \/ ReceiveSound
    PROVE  Steered'
<1> SUFFICES ASSUME ~astray'
             PROVE  TunedTo(up', down', Target', camped_rx', camped_channel_') /\ Bound'
  BY DEF Steered
<1> DEFINE rest == Tail(down)
           p == Poll
           s == Status(job_.generation)
<1>0. /\ up \in Seq(Uplink) /\ down \in Seq(Downlink) /\ job_.generation \in Nat
  BY DEF LinkInvariant, LinkTypeCore, CamperTypeOK, DecoderJob
<1>1. /\ UNCHANGED <<job_, camped_rx>> /\ down # <<>> /\ ~astray
      /\ ReceiveCampDisconnect => ~HoldsCurrentJob
  <2>1. CASE ReceiveControl
    <3>1. /\ ReceiveMonitor \/ ReceiveCamped \/ ReceiveCampDisconnect
          /\ astray' = (astray \/ (Arrives("camp_disconnect") /\ HoldsCurrentJob))
          /\ camped_rx' = camped_rx
      BY <2>1 DEF ReceiveControl
    <3>2. job_' = job_ /\ down # <<>>
      BY <3>1 DEF ReceiveMonitor, ReceiveCamped, ReceiveCampDisconnect, Arrives
    <3>3. ~astray /\ ~(Arrives("camp_disconnect") /\ HoldsCurrentJob)
      BY <3>1, Zenon
    <3>4. ReceiveCampDisconnect => Arrives("camp_disconnect")
      BY DEF ReceiveCampDisconnect
    <3> QED
      BY <3>1, <3>2, <3>3, <3>4
  <2>2. CASE ReceiveSound
    <3>1. /\ UNCHANGED <<job_, camped_rx, astray>> /\ Arrives("SND")
      BY <2>2 DEF ReceiveSound, process_audio, link
    <3> QED
      BY <3>1 DEF ReceiveCampDisconnect, Arrives
  <2> QED
    BY <2>1, <2>2
<1>2. TunedTo(up, down, Target, camped_rx, camped_channel_) /\ Bound
  BY <1>1 DEF Steered
<1>3. Target' = Target /\ (HoldsCurrentJob' => HoldsCurrentJob)
  BY <1>1, StillHeld, StepOfReceipt DEF Target
<1>4. rest \in Seq(Downlink)
      /\ \A t : Holds(down, t) <=> Head(down).type = t \/ Holds(rest, t)
  BY <1>0, <1>1, HeadGone, WithoutHead
<1>5. /\ p \in Uplink /\ p.type = "poll" /\ s \in Uplink /\ s.type = "status"
  BY <1>0, MessageTypes DEF Poll, Status
<1>6. ASSUME down' = rest,
             \/ up' = up \o <<>> \/ up' = up \o <<p>> \/ up' = up \o <<s>>
             \/ up' = up \o <<s, p>>,
             TunedTo(up, rest, Target, camped_rx, camped_channel_')
      PROVE  /\ TunedTo(up', down', Target', camped_rx', camped_channel_')
             /\ Awaited(up) => Awaited(up')
  <2> HIDE DEF rest, p, s
  <2>1. \/ up' = up \/ up' = Append(up, p) \/ up' = Append(up, s)
        \/ up' = Append(Append(up, s), p)
    BY <1>0, <1>5, <1>6, Added
  <2>2. Append(up, s) \in Seq(Uplink)
    BY <1>0, <1>5, AppendProperties
  <2>3. \A e \in {p, s} : TunedTo(Append(up, e), rest, Target, camped_rx, camped_channel_')
                          /\ (Awaited(up) => Awaited(Append(up, e)))
    BY <1>0, <1>4, <1>5, <1>6, TunedOneMore, OneMore
  <2>4. TunedTo(Append(Append(up, s), p), rest, Target, camped_rx, camped_channel_')
        /\ (Awaited(up) => Awaited(Append(Append(up, s), p)))
    BY <1>4, <1>5, <2>2, <2>3, TunedOneMore, OneMore
  <2> QED
    BY <1>1, <1>3, <1>6, <2>1, <2>3, <2>4
<1>7. ASSUME ~Speaks(Head(down))
      PROVE  /\ TunedTo(up, rest, Target, camped_rx, camped_channel_)
             /\ Holds(down, "camped") => Holds(rest, "camped")
  BY <1>0, <1>1, <1>2, <1>4, <1>7, TunedHandled DEF Speaks
<1>8. CASE ReceiveMonitor
  <2>1. /\ ~Speaks(Head(down)) /\ down' = rest /\ up' = up \o <<p>>
        /\ UNCHANGED <<camped_channel_, backend_>>
    BY <1>8 DEF ReceiveMonitor, Arrives, Answer, Speaks
  <2> QED
    BY <1>2, <1>3, <1>6, <1>7, <2>1 DEF Bound
<1>9. CASE ReceiveCamped
  <2>1. Head(down).type = "camped" /\ backend_' = backend_
    BY <1>9 DEF ReceiveCamped, Arrives
  <2>2. Head(down).rx = Target /\ Head(down).ok
        /\ TunedTo(up, rest, Target, camped_rx, Target)
    BY <1>0, <1>1, <1>2, <2>1, TunedHandled
  <2>3. /\ camped_channel_' = Target /\ down' = rest
        /\ up' = up \o (<<s>> \o IF WaitingTest THEN <<p>> ELSE <<>>)
    BY <1>9, <2>2 DEF ReceiveCamped, Answer
  <2>4. up' = up \o <<s>> \/ up' = up \o <<s, p>>
    BY <2>3, ShortLists, Zenon
  <2> QED
    BY <1>2, <1>3, <1>6, <2>1, <2>2, <2>3, <2>4 DEF Bound
<1>10. CASE ReceiveCampDisconnect
  <2>1. /\ Head(down).type = "camp_disconnect" /\ Arrives("camp_disconnect")
        /\ camped_channel_' = Nil /\ down' = rest /\ up' = up \o <<>>
    BY <1>10 DEF ReceiveCampDisconnect, Arrives, Answer
  <2>2. TunedTo(up, rest, Target, camped_rx, Nil)
    BY <1>0, <1>1, <1>2, <2>1, TunedHandled
  <2>3. ~HoldsCurrentJob
    BY <1>1, <1>10
  <2> QED
    BY <1>3, <1>6, <2>1, <2>2, <2>3 DEF Bound
<1>11. CASE ReceiveSound
  <2>1. /\ ~Speaks(Head(down)) /\ down' = rest
        /\ up' = up \o <<>> \/ up' = up \o <<s>>
        /\ UNCHANGED <<camped_channel_, backend_>>
    BY <1>11 DEF ReceiveSound, process_audio, Arrives, Answer, Speaks
  <2> QED
    BY <1>2, <1>3, <1>6, <1>7, <2>1 DEF Bound
<1> QED
  BY <1>8, <1>9, <1>10, <1>11 DEF ReceiveControl

\* A camp is granted to the target the decoder still has, and the loss of one
\* is told behind every acknowledgement.
LEMMA SteeredByKiwi ==
    ASSUME LinkInvariant, [LinkNext]_allVars, Steered,
           \/ TimedPoll
           \/ \E m \in Monitors : HandlePoll(m)
           \/ \E ok \in BOOLEAN : HandleCamp(ok)
           \/ HandleStatus \/ CampLost \/ SendSound
    PROVE  Steered'
<1> SUFFICES ASSUME ~astray'
             PROVE  TunedTo(up', down', Target', camped_rx', camped_channel_') /\ Bound'
  BY DEF Steered
<1>0. up \in Seq(Uplink) /\ down \in Seq(Downlink)
  BY DEF LinkInvariant, LinkTypeCore, CamperTypeOK
<1>1. /\ UNCHANGED <<job_, camped_channel_, backend_>> /\ ~astray
      /\ \A ok \in BOOLEAN : HandleCamp(ok) => ok
  <2>1. ASSUME NEW ok \in BOOLEAN, HandleCamp(ok)
        PROVE  UNCHANGED <<job_, camped_channel_, backend_>> /\ ~astray /\ ok
    <3>1. /\ astray' = (astray \/ ~ok)
          /\ UNCHANGED <<job_, camped_channel_, backend_>>
      BY <2>1 DEF HandleCamp
    <3> QED
      BY <3>1, Zenon
  <2>2. ASSUME TimedPoll \/ (\E m \in Monitors : HandlePoll(m))
                 \/ HandleStatus \/ CampLost \/ SendSound
        PROVE  UNCHANGED <<job_, camped_channel_, backend_, astray>>
    BY <2>2 DEF TimedPoll, maybe_poll, HandlePoll, HandleStatus, CampLost, SendSound,
                link
  <2> QED
    BY <2>1, <2>2
<1>2. TunedTo(up, down, Target, camped_rx, camped_channel_) /\ Bound
  BY <1>1 DEF Steered
<1>3. Target' = Target /\ (HoldsCurrentJob' => HoldsCurrentJob)
  BY <1>1, StillHeld DEF Target
<1>4. ASSUME TunedTo(up', down', Target, camped_rx', camped_channel_),
             Awaited(up) => Awaited(up') \/ Holds(down', "camped"),
             Holds(down, "camped") => Holds(down', "camped")
      PROVE  TunedTo(up', down', Target', camped_rx', camped_channel_') /\ Bound'
  BY <1>1, <1>2, <1>3, <1>4 DEF Bound
<1>5. CASE TimedPoll
  <2> DEFINE p == Poll
  <2>1. /\ up' = Append(up, p) /\ UNCHANGED <<down, camped_rx>>
    BY <1>5 DEF TimedPoll, maybe_poll, link
  <2>2. p \in Uplink /\ p.type = "poll"
    BY MessageTypes DEF Poll
  <2> HIDE DEF p
  <2>3. TunedTo(Append(up, p), down, Target, camped_rx, camped_channel_)
    BY <1>0, <1>2, <2>2, TunedOneMore
  <2>4. Awaited(up) => Awaited(Append(up, p))
    BY <1>0, <2>2, OneMore
  <2> QED
    BY <1>4, <2>1, <2>3, <2>4
<1>6. ASSUME up # <<>>, up' = Tail(up), Head(up).type # "camp"
      PROVE  /\ TunedTo(up', down, Target, camped_rx, camped_channel_)
             /\ up' \in Seq(Uplink) /\ (Awaited(up) => Awaited(up'))
  BY <1>0, <1>2, <1>6, HeadGone, TunedServed, WithoutHead
<1>7. ASSUME NEW m \in Monitors, HandlePoll(m)
      PROVE  TunedTo(up', down', Target', camped_rx', camped_channel_') /\ Bound'
  <2> DEFINE e == Job(CurrentResponse.job)
  <2>1. /\ Commands("poll") /\ up' = Tail(up) /\ down' = Append(down, e)
        /\ camped_rx' = camped_rx
    BY <1>7 DEF HandlePoll, link
  <2>2. e \in Downlink /\ e.type = "job" /\ ~Speaks(e)
    BY ResponseType, MessageTypes
       DEF LinkInvariant, Invariant, Response, Job, Speaks
  <2> HIDE DEF e
  <2>3. /\ TunedTo(up', down, Target, camped_rx, camped_channel_)
        /\ up' \in Seq(Uplink) /\ (Awaited(up) => Awaited(up'))
    BY <1>6, <2>1 DEF Commands
  <2>4. TunedTo(up', Append(down, e), Target, camped_rx, camped_channel_)
    BY <1>0, <2>2, <2>3, TunedOneMore
  <2>5. Holds(down, "camped") => Holds(Append(down, e), "camped")
    BY <1>0, <2>2, OneMore
  <2> QED
    BY <1>4, <2>1, <2>3, <2>4, <2>5
<1>8. ASSUME NEW ok \in BOOLEAN, HandleCamp(ok)
      PROVE  TunedTo(up', down', Target', camped_rx', camped_channel_') /\ Bound'
  <2> DEFINE rx == Head(up).rx
             e == Camped(rx, TRUE)
  <2>1. ok = TRUE
    BY <1>1, <1>8
  <2>2. /\ up # <<>> /\ Head(up).type = "camp" /\ up' = Tail(up) /\ camped_rx' = rx
        /\ down' = IF rx = Nil THEN down ELSE Append(down, e)
    BY <1>8, <2>1 DEF HandleCamp, Commands
  <2>3. rx \in Rx \cup {Nil}
    BY <1>0, <2>2, Served1, UplinkFields
  <2>4. Awaited(up) <=> (Head(up).type = "camp" /\ rx # Nil) \/ Awaited(up')
    BY <1>0, <2>2, HeadGone
  <2>5. CASE rx = Nil
    <3>1. TunedTo(up', down, Target, Nil, camped_channel_)
      BY <1>0, <1>2, <2>2, <2>5, TunedServed
    <3> QED
      BY <1>4, <2>2, <2>4, <2>5, <3>1
  <2>6. CASE rx # Nil
    <3>1. e \in Downlink /\ e.type = "camped"
      BY <2>3, <2>6, MessageTypes DEF Camped
    <3>2. TunedTo(up', Append(down, e), Target, rx, camped_channel_)
      BY <1>0, <1>2, <2>2, <2>6, <3>1, TunedServed
    <3> HIDE DEF e
    <3>3. Holds(Append(down, e), "camped")
      BY <1>0, <3>1, OneMore
    <3> QED
      BY <1>4, <2>2, <2>6, <3>2, <3>3
  <2> QED
    BY <2>5, <2>6
<1>9. CASE HandleStatus
  <2>1. /\ Commands("status") /\ up' = Tail(up) /\ UNCHANGED <<down, camped_rx>>
    BY <1>9 DEF HandleStatus, link
  <2> QED
    BY <1>4, <1>6, <2>1 DEF Commands
<1>10. CASE CampLost
  <2> DEFINE e == CampDisconnect
  <2>1. /\ up' = up /\ camped_rx' = Nil /\ down' = Append(down, e)
    BY <1>10 DEF CampLost
  <2>2. e \in Downlink /\ e.type = "camp_disconnect"
    BY MessageTypes DEF CampDisconnect
  <2> HIDE DEF e
  <2>3. TunedTo(up, Append(down, e), Target, Nil, camped_channel_)
    BY <1>0, <1>2, <2>2, TunedOneMore
  <2>4. Holds(down, "camped") => Holds(Append(down, e), "camped")
    BY <1>0, <2>2, OneMore
  <2> QED
    BY <1>4, <2>1, <2>3, <2>4
<1>11. CASE SendSound
  <2> DEFINE e == Sound(camped_rx)
  <2>1. camped_rx \in Rx /\ down' = Append(down, e) /\ UNCHANGED <<up, camped_rx>>
    BY <1>11 DEF SendSound, link, LinkInvariant, LinkTypeCore
  <2>2. e \in Downlink /\ ~Speaks(e)
    BY <2>1, MessageTypes DEF Sound, Speaks
  <2> HIDE DEF e
  <2>3. TunedTo(up, Append(down, e), Target, camped_rx, camped_channel_)
    BY <1>0, <1>2, <2>2, TunedOneMore
  <2>4. Holds(down, "camped") => Holds(Append(down, e), "camped")
    BY <1>0, <2>1, <2>2, OneMore
  <2> QED
    BY <1>4, <2>1, <2>3, <2>4
<1> QED
  BY <1>5, <1>7, <1>8, <1>9, <1>10, <1>11

\* A decoder that was not led astray is on its way in every reachable state.
LEMMA SteeredCorrect == LinkSpec => []Steered
<1>1. LinkInit => Steered
  <2> SUFFICES ASSUME LinkInit PROVE Steered
    OBVIOUS
  <2>1. /\ up = <<>> /\ down = <<>> /\ ~job_.running
        /\ camped_channel_ = Nil /\ camped_rx = Nil
    BY DEF LinkInit, CamperInit, IdleJob
  <2> QED
    BY <2>1 DEF Steered, TunedTo, Asked, Granted, Holds, Leads, Bound, HoldsCurrentJob
<1>2. LinkInvariant /\ Steered /\ [LinkNext]_allVars => Steered'
  <2> SUFFICES ASSUME LinkInvariant, Steered, [LinkNext]_allVars
               PROVE  Steered'
    OBVIOUS
  <2>1. CASE Connect
    <3>1. camped_rx' = Nil
      BY <2>1 DEF Connect, LinkInvariant, Closed
    <3> QED
      BY <2>1, <3>1, FreshSteered DEF Connect
  <2>2. CASE Disconnect
    BY <2>2, FreshSteered DEF Disconnect
  <2>3. CASE ReceiveJob
    <3>1. CASE Ends
      BY <3>1, FreshSteered DEF Ends
    <3>2. CASE ~Ends
      BY <2>3, <3>2, SteeredByJob
    <3> QED
      BY <3>1, <3>2
  <2>4. CASE ReceiveControl \/ ReceiveSound
    BY <2>4, SteeredByControl
  <2>5. CASE \/ TimedPoll
             \/ \E m \in Monitors : HandlePoll(m)
             \/ \E ok \in BOOLEAN : HandleCamp(ok)
             \/ HandleStatus \/ CampLost \/ SendSound
    BY <2>5, SteeredByKiwi
  <2>6. CASE (\E m \in Monitors : EndPoll(m)) \/ KiwiStep \/ UNCHANGED allVars
    <3>1. UNCHANGED <<job_, camped_channel_, backend_, up, down, camped_rx, astray>>
      BY <2>6 DEF EndPoll, KiwiStep, allVars, camper, link
    <3>2. Target' = Target /\ (HoldsCurrentJob' => HoldsCurrentJob)
      BY <3>1, StillHeld DEF Target
    <3>3. Bound => Bound'
      BY <3>1, <3>2 DEF Bound
    <3> QED
      BY <3>1, <3>2, <3>3 DEF Steered
  <2> QED
    BY <2>1, <2>2, <2>3, <2>4, <2>5, <2>6 DEF LinkNext
<1> QED
  BY <1>1, <1>2, LinkInvariantCorrect, PTL DEF LinkSpec

\* However the timer polls, whatever sessions, tests, retunes, Reporter
\* switches, lost camps and lost connections came before: a decoder that holds
\* a running session's job and has nothing under way listens to its receiver,
\* unless it was led astray.
THEOREM QuietDecoderListensCorrect == LinkSpec => []QuietDecoderListens
<1>1. Steered /\ LinkInvariant => QuietDecoderListens
  <2> SUFFICES ASSUME Steered, LinkInvariant, Quiet, HoldsCurrentJob, ~astray
               PROVE  Listening(job_.rx_channel)
    BY DEF QuietDecoderListens
  <2>1. connected /\ up = <<>> /\ \A i \in DOMAIN down : down[i].type = "SND"
    BY DEF Quiet
  <2>2. /\ ~Holds(up, "camp") /\ ~Awaited(up)
        /\ ~Holds(down, "camped") /\ \A i \in DOMAIN down : ~Speaks(down[i])
    BY <2>1 DEF Holds, Awaited, Speaks
  <2>3. camped_channel_ = camped_rx
    BY <2>2 DEF Steered, TunedTo, Leads
  <2>4. backend_ /\ camped_channel_ = Target
    BY <2>2 DEF Steered, Bound
  <2> QED
    BY <2>1, <2>3, <2>4 DEF Target, Listening, HoldsCurrentJob
<1> QED
  BY <1>1, SteeredCorrect, LinkInvariantCorrect, PTL
==============================================================================
