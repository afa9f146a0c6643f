---------------------------- MODULE KiwiExtension ----------------------------
(***************************************************************************)
(* The FreeDV extension inside the KiwiSDR server: one record per receiver *)
(* channel, one owner of the decoder at a time, a generation number that   *)
(* names each job, the gate that keeps ordinary receiver audio away from a *)
(* FreeDV listener, and the two-poll handshake that starts a reference     *)
(* test.  The server's tasks are cooperative: a handler runs to its end    *)
(* except freedv_monitor_poll, which sends its response half way and may   *)
(* yield there, so it is two steps.                                        *)
(***************************************************************************)
EXTENDS DecoderJobs, Integers

CONSTANTS EnabledModes,   \* modes the administrator allows
          LoadedSignals,  \* reference recordings found at start-up
          SignalBlocks,   \* callbacks one recording lasts
          Identities,     \* Reporter fields start commands may carry
          Monitors,       \* monitor tasks that may carry polls
          MaxGeneration   \* bound: no session starts and no dial moves later

ASSUME ExtensionAssumption ==
    /\ EnabledModes \subseteq Modes
    /\ LoadedSignals \subseteq {"700D", "RADEV1", "RADEV2"}
    /\ Identities \subseteq {"none", "valid", "invalid"}
    /\ SignalBlocks \in Nat \ {0}
    /\ MaxGeneration \in Nat

VARIABLES
    \* freedv[rx], the record of each channel:
    running, mode, frequency_hz, generation, reporter_requested,
    decoder_online,    \* a status of the session arrived in time
    test, test_job_seen, test_done_sent, test_sample, test_last_percent,
    \* the extension's globals:
    active_rx,         \* channel that owns the decoder, or Nil
    next_generation,
    \* the server around it:
    want_rtn_snd,      \* return-audio gate of each channel
    dial,              \* frequency each receiver displays
    reporter_enabled,  \* the administrator's switch, read live
    reply,             \* poll response a monitor task is sending, or Nil
    advertised         \* history: every job ever sent

session == <<running, mode, reporter_requested>>
identity == <<generation, frequency_hz, next_generation>>
testVars == <<test, test_job_seen, test_done_sent, test_sample,
              test_last_percent>>
environment == <<dial, reporter_enabled>>
polls == <<reply, advertised>>

vars == <<session, identity, testVars, environment, polls, active_rx,
          decoder_online, want_rtn_snd>>

Response == [rx : Rx \cup {Nil}, arm : BOOLEAN, job : DecoderJob]

TypeOK ==
    /\ running \in [Rx -> BOOLEAN]
    /\ mode \in [Rx -> Modes \cup {Nil}]
    /\ frequency_hz \in [Rx -> Freqs \cup {Nil}]
    /\ generation \in [Rx -> Nat]
    /\ reporter_requested \in [Rx -> BOOLEAN]
    /\ decoder_online \in [Rx -> BOOLEAN]
    /\ test \in [Rx -> BOOLEAN]
    /\ test_job_seen \in [Rx -> BOOLEAN]
    /\ test_done_sent \in [Rx -> BOOLEAN]
    /\ test_sample \in [Rx -> Nat \cup {Nil}]
    /\ test_last_percent \in [Rx -> Int]
    /\ active_rx \in Rx \cup {Nil}
    /\ next_generation \in Nat \ {0}
    /\ want_rtn_snd \in [Rx -> BOOLEAN]
    /\ dial \in [Rx -> Freqs]
    /\ reporter_enabled \in BOOLEAN
    /\ reply \in [Monitors -> Response \cup {Nil}]
    /\ advertised \in SUBSET DecoderJob

Init ==
    /\ running = [i \in Rx |-> FALSE]
    /\ mode = [i \in Rx |-> Nil]
    /\ frequency_hz = [i \in Rx |-> Nil]
    /\ generation = [i \in Rx |-> 0]
    /\ reporter_requested = [i \in Rx |-> FALSE]
    /\ decoder_online = [i \in Rx |-> FALSE]
    /\ test = [i \in Rx |-> FALSE]
    /\ test_job_seen = [i \in Rx |-> FALSE]
    /\ test_done_sent = [i \in Rx |-> FALSE]
    /\ test_sample = [i \in Rx |-> Nil]
    /\ test_last_percent = [i \in Rx |-> -1]
    /\ active_rx = Nil
    /\ next_generation = 1
    /\ want_rtn_snd = [i \in Rx |-> FALSE]
    /\ dial \in [Rx -> Freqs]
    /\ reporter_enabled \in BOOLEAN
    /\ reply = [m \in Monitors |-> Nil]
    /\ advertised = {}

------------------------------------------------------------------------------
(* Browser commands.                                                       *)

\* Mutant: the gate waits for the decoder.
GateAwaitsDecoder(i, enabled) ==
    want_rtn_snd' = [want_rtn_snd EXCEPT ![i] = enabled /\ decoder_online[i]]

\* The return-audio gate of a channel.
freedv_return_audio(i, enabled) ==
    want_rtn_snd' = [want_rtn_snd EXCEPT ![i] = enabled]

SignalOf(m) == IF m \in {"RADEV1", "RADEV2"} THEN m ELSE "700D"

\* Mutant: the channel that asks is looked at, not the owner.
BusyIfSelfRuns(i) == active_rx \notin {Nil, i} /\ running[i]

Busy(i) == active_rx \notin {Nil, i} /\ running[active_rx]

\* A request the extension accepts if the decoder is free.  `who' says what
\* the Reporter fields of a start command hold; a test carries none.
Admissible(m, who, asTest) ==
    /\ m \in EnabledModes
    /\ IF asTest THEN SignalOf(m) \in LoadedSignals ELSE who # "invalid"

\* Start, stop and a new test all forget the previous test of the channel.
ResetTest(i) ==
    /\ test_job_seen' = [test_job_seen EXCEPT ![i] = FALSE]
    /\ test_done_sent' = [test_done_sent EXCEPT ![i] = FALSE]
    /\ test_sample' = [test_sample EXCEPT ![i] = Nil]
    /\ test_last_percent' = [test_last_percent EXCEPT ![i] = -1]

Begin(i, m, asTest, report) ==
    /\ next_generation < MaxGeneration
    /\ ~Busy(i)
    /\ active_rx' = i
    /\ running' = [running EXCEPT ![i] = TRUE]
    /\ test' = [test EXCEPT ![i] = asTest]
    /\ ResetTest(i)
    /\ decoder_online' = [decoder_online EXCEPT ![i] = FALSE]
    /\ reporter_requested' = [reporter_requested EXCEPT ![i] = report]
    /\ generation' = [generation EXCEPT ![i] = next_generation]
    /\ next_generation' = next_generation + 1
    /\ mode' = [mode EXCEPT ![i] = m]
    /\ frequency_hz' = [frequency_hz EXCEPT ![i] = dial[i]]
    /\ freedv_return_audio(i, TRUE)
    /\ UNCHANGED <<environment, polls>>

Start(i, m, who) ==
    /\ Admissible(m, who, FALSE)
    /\ Begin(i, m, FALSE, who = "valid")

StartTest(i, m) ==
    /\ Admissible(m, "none", TRUE)
    /\ Begin(i, m, TRUE, FALSE)

\* Every refused start or test: the browser gets an error, nothing changes.
Refuse(i, m, who, asTest) ==
    /\ ~Admissible(m, who, asTest) \/ Busy(i)
    /\ UNCHANGED vars

\* Stop, Close and the tear-down of the extension's connection alike.
freedv_stop(i) ==
    /\ IF running[i]
       THEN /\ generation' = [generation EXCEPT ![i] = next_generation]
            /\ next_generation' = next_generation + 1
            /\ running' = [running EXCEPT ![i] = FALSE]
       ELSE UNCHANGED <<generation, next_generation, running>>
    /\ test' = [test EXCEPT ![i] = FALSE]
    /\ ResetTest(i)
    /\ decoder_online' = [decoder_online EXCEPT ![i] = FALSE]
    /\ reporter_requested' = [reporter_requested EXCEPT ![i] = FALSE]
    /\ freedv_return_audio(i, FALSE)
    /\ active_rx' = IF active_rx = i THEN Nil ELSE active_rx
    /\ UNCHANGED <<mode, frequency_hz, environment, polls>>

------------------------------------------------------------------------------
(* Decoder status, and its absence for more than five seconds.             *)

\* Mutant: the generation of a status is not compared.
CurrentIfRunning(i, g) == running[i]

\* The status is about the session that runs.
Current(i, g) == running[i] /\ g = generation[i]

freedv_receive_cmds(i, g) ==
    /\ Current(i, g)
    /\ decoder_online' = [decoder_online EXCEPT ![i] = TRUE]
    /\ freedv_return_audio(i, TRUE)
    /\ UNCHANGED <<session, identity, testVars, environment, polls, active_rx>>

\* A status that does not decode, for a channel that stopped, or of another
\* generation.
IgnoreStatus(i, g, valid) ==
    /\ ~Current(i, g) \/ ~valid
    /\ UNCHANGED vars

freedv_poll(i) ==
    /\ running[i] /\ decoder_online[i]
    /\ decoder_online' = [decoder_online EXCEPT ![i] = FALSE]
    /\ freedv_return_audio(i, TRUE)
    /\ UNCHANGED <<session, identity, testVars, environment, polls, active_rx>>

------------------------------------------------------------------------------
(* The decoder's authenticated poll.                                       *)

OwnerRuns == active_rx # Nil /\ running[active_rx]

OwnerMoved == OwnerRuns /\ dial[active_rx] # frequency_hz[active_rx]

\* Mutant: the first poll of a test arms it.
ArmsTestAtOnce ==
    /\ OwnerRuns /\ ~OwnerMoved
    /\ test[active_rx] /\ test_sample[active_rx] = Nil

\* A second poll of a waiting test: it is taken as the camper's readiness.  A
\* test whose dial moved waits for two more polls.
ArmsTest ==
    /\ OwnerRuns /\ ~OwnerMoved
    /\ test[active_rx] /\ test_job_seen[active_rx]
    /\ test_sample[active_rx] = Nil

\* Mutant: readiness is only said in the response that arms the test.
TestReadyOnce == ~test[active_rx] \/ ArmsTest

TestReady ==
    \/ ~test[active_rx]
    \/ test_sample[active_rx] # Nil /\ ~OwnerMoved
    \/ ArmsTest

OwnerJob ==
    [generation   |-> IF OwnerMoved THEN next_generation
                                    ELSE generation[active_rx],
     running      |-> TRUE,
     rx_channel   |-> active_rx,
     mode         |-> mode[active_rx],
     frequency_hz |-> dial[active_rx],
     test         |-> test[active_rx],
     test_ready   |-> TestReady,
     reporter     |-> /\ reporter_enabled /\ reporter_requested[active_rx]
                      /\ ~test[active_rx]]

\* Mutants: an idle job one generation early, and one late.
IdleGenerationEarly == next_generation - 2
IdleGenerationLate == next_generation

\* The generation of the idle job: the last one that was handed out.
IdleGeneration == next_generation - 1

CurrentResponse ==
    IF OwnerRuns
    THEN [rx |-> active_rx, arm |-> ArmsTest, job |-> OwnerJob]
    ELSE [rx |-> Nil, arm |-> FALSE, job |-> IdleJob(IdleGeneration)]

\* The poll found the dial moved: a new generation, and a test starts over.
\* test_done_sent is left as it is.
Retune(i) ==
    /\ frequency_hz' = [frequency_hz EXCEPT ![i] = dial[i]]
    /\ generation' = [generation EXCEPT ![i] = next_generation]
    /\ next_generation' = next_generation + 1
    /\ decoder_online' = [decoder_online EXCEPT ![i] = FALSE]
    /\ IF test[i]
       THEN /\ test_job_seen' = [test_job_seen EXCEPT ![i] = FALSE]
            /\ test_sample' = [test_sample EXCEPT ![i] = Nil]
            /\ test_last_percent' = [test_last_percent EXCEPT ![i] = -1]
       ELSE UNCHANGED <<test_job_seen, test_sample, test_last_percent>>

\* From the accepted poll to the queued response, where the task may yield.
freedv_monitor_poll(m) ==
    /\ reply[m] = Nil
    /\ reply' = [reply EXCEPT ![m] = CurrentResponse]
    /\ advertised' = advertised \cup {CurrentResponse.job}
    /\ IF OwnerMoved
       THEN Retune(active_rx)
       ELSE UNCHANGED <<identity, decoder_online, test_job_seen, test_sample,
                        test_last_percent>>
    /\ UNCHANGED <<session, environment, active_rx, want_rtn_snd, test,
                   test_done_sent>>

\* Mutant: any test of the channel will do.
StillTestingSomething(r) == r.rx # Nil /\ running[r.rx] /\ test[r.rx]

\* The response's job is still the channel's test.
StillTesting(r) ==
    r.rx # Nil /\ running[r.rx] /\ test[r.rx]
               /\ generation[r.rx] = r.job.generation

\* Mutant: the recording starts although it already plays.
StartsAgain(r) == r.arm

\* The response was the one that starts the recording.
Starts(r) == r.arm /\ test_sample[r.rx] = Nil

\* The rest of freedv_monitor_poll: the test may only start behind the
\* response that announces it.
FinishPoll(m) ==
    /\ reply[m] # Nil
    /\ LET r == reply[m] IN
       /\ test_job_seen' =
            IF StillTesting(r) THEN [test_job_seen EXCEPT ![r.rx] = TRUE]
                               ELSE test_job_seen
       /\ IF StillTesting(r) /\ Starts(r)
          THEN /\ test_sample' = [test_sample EXCEPT ![r.rx] = 0]
               /\ test_last_percent' = [test_last_percent EXCEPT ![r.rx] = -1]
          ELSE UNCHANGED <<test_sample, test_last_percent>>
    /\ reply' = [reply EXCEPT ![m] = Nil]
    /\ UNCHANGED <<session, identity, environment, active_rx, decoder_online,
                   want_rtn_snd, test, test_done_sent, advertised>>

------------------------------------------------------------------------------
(* The real-sample callback of a reference test.                           *)

\* The callback is only registered when one of these two was loaded.
TestAudioRegistered == {"700D", "RADEV1"} \cap LoadedSignals # {}

Percent(sample) == (sample * 100) \div SignalBlocks

\* Mutant: the last block is never counted.
AfterBlockShort(sample) ==
    IF sample + 1 < SignalBlocks THEN sample + 1 ELSE sample

AfterBlock(sample) == IF sample < SignalBlocks THEN sample + 1 ELSE sample

\* One callback plays one block.  Completion is announced by a callback that
\* has no progress to announce: the message slot holds one.
freedv_test_audio(i) ==
    /\ TestAudioRegistered
    /\ running[i] /\ test[i] /\ test_sample[i] # Nil
    /\ test_sample[i] < SignalBlocks \/ ~test_done_sent[i]
    /\ LET after == AfterBlock(test_sample[i]) IN
       /\ test_sample' = [test_sample EXCEPT ![i] = after]
       /\ test_last_percent' = [test_last_percent EXCEPT ![i] = Percent(after)]
       /\ test_done_sent' = [test_done_sent EXCEPT
             ![i] = @ \/ /\ after = SignalBlocks
                         /\ Percent(after) = test_last_percent[i]]
    /\ UNCHANGED <<session, identity, environment, polls, active_rx,
                   decoder_online, want_rtn_snd, test, test_job_seen>>

------------------------------------------------------------------------------
(* The receiver and its administrator.                                     *)

Tune(i, frequency) ==
    /\ next_generation < MaxGeneration
    /\ frequency # dial[i]
    /\ dial' = [dial EXCEPT ![i] = frequency]
    /\ UNCHANGED <<session, identity, testVars, reporter_enabled, polls,
                   active_rx, decoder_online, want_rtn_snd>>

SwitchReporter ==
    /\ reporter_enabled' = ~reporter_enabled
    /\ UNCHANGED <<session, identity, testVars, dial, polls, active_rx,
                   decoder_online, want_rtn_snd>>

Next ==
    \/ \E i \in Rx, m \in Modes, who \in Identities : Start(i, m, who)
    \/ \E i \in Rx, m \in Modes : StartTest(i, m)
    \/ \E i \in Rx, m \in Modes, who \in Identities, asTest \in BOOLEAN :
          Refuse(i, m, who, asTest)
    \/ \E i \in Rx : freedv_stop(i)
    \/ \E i \in Rx, g \in 1..next_generation : freedv_receive_cmds(i, g)
    \/ \E i \in Rx, g \in 1..next_generation, valid \in BOOLEAN :
          IgnoreStatus(i, g, valid)
    \/ \E i \in Rx : freedv_poll(i)
    \/ \E m \in Monitors : freedv_monitor_poll(m)
    \/ \E m \in Monitors : FinishPoll(m)
    \/ \E i \in Rx : freedv_test_audio(i)
    \/ \E i \in Rx, f \in Freqs : Tune(i, f)
    \/ SwitchReporter

Spec == Init /\ [][Next]_vars

\* The sound task calls the callback for every block it produces, and the
\* monitor task returns from every response it sends.
FairSpec ==
    /\ Spec
    /\ \A i \in Rx : WF_vars(freedv_test_audio(i))
    /\ \A m \in Monitors : WF_vars(FinishPoll(m))

------------------------------------------------------------------------------
(* Properties.                                                             *)

\* Exactly the owner of the decoder runs: the single global session.  Start on
\* another channel is refused, and a stop or close of a channel that does not
\* own the decoder leaves the owner alone.
SingleOwner == \A i \in Rx : running[i] <=> active_rx = i

\* The gate that silences ordinary receiver audio is closed for as long as the
\* channel's session runs, through decoder outages, retunes and late statuses,
\* and opens with every way the session ends.
GateFollowsSession == \A i \in Rx : want_rtn_snd[i] <=> running[i]

\* A generation names one job: whatever starts, stops and retunes happen, two
\* responses with one generation differ at most in the test handshake and the
\* administrator's Reporter switch.  The decoder's classify_job relies on it.
GenerationNamesJob ==
    \A a, b \in advertised :
        a.generation = b.generation => Essence(a) = Essence(b)

\* test_ready=true is never the first the decoder hears of a test: a response
\* with test_ready=false and the same generation was sent before.
ReadyOnlyAfterOffer ==
    \A a \in advertised :
        a.test /\ a.test_ready =>
            \E b \in advertised :
                b.generation = a.generation /\ ~b.test_ready

\* The reference recording never plays for a generation whose test_ready=true
\* response has not been queued, although starts, stops and retunes may happen
\* while freedv_monitor_poll is suspended in send_msg.
PlaysBehindResponse ==
    \A i \in Rx :
        test_sample[i] # Nil =>
            \E a \in advertised :
                /\ a.generation = generation[i]
                /\ a.rx_channel = i /\ a.test /\ a.test_ready

\* Once a test was announced ready no later response of that generation takes
\* it back: the decoder would see a conflict.
KeepsReady ==
    \A m \in Monitors :
        reply[m] = Nil /\ reply'[m] # Nil =>
            \A a \in advertised :
                /\ a.generation = reply'[m].job.generation
                /\ a.test_ready
                => reply'[m].job.test_ready

ReadyNeverWithdrawn == [][KeepsReady]_vars

\* Within a generation the recording never starts over, even if the responses
\* of two monitor tasks both meant to start it.
PlaysOn ==
    \A i \in Rx :
        /\ generation'[i] = generation[i]
        /\ test_sample[i] # Nil
        => /\ test_sample'[i] # Nil
           /\ test_sample'[i] >= test_sample[i]

NoRewind == [][PlaysOn]_vars

\* Every playing, the one behind a retune too, comes to its last block and says
\* 100 %, unless the session stops or the dial moves first; and test_done then
\* follows if the session has not announced it before.  A test that is retuned
\* after it completed says 100 % again but never test_done.
TestCompletes ==
    \A i \in Rx :
        /\ test_sample[i] # Nil ~>
               test_last_percent[i] = 100 \/ test_sample[i] = Nil
        /\ test_sample[i] # Nil /\ ~test_done_sent[i] ~>
               test_done_sent[i] \/ test_sample[i] = Nil
==============================================================================
