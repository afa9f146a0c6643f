------------------------------- MODULE Sound -------------------------------
(***************************************************************************)
(* The path of received sound through the decoder: numbered packets from   *)
(* the receiver, some of which are lost on the way, the input queue of the *)
(* back end, the modem, the vocoder, and the queue of speech to return.    *)
(* Each of them keeps something from one packet to the next, and has to    *)
(* give it up when the sound is interrupted.                               *)
(*                                                                         *)
(* A sample is represented by the number of its packet, and what is made   *)
(* of samples by the oldest of them.  The modem libraries are external:    *)
(* they need any amount of Amounts and answer anything.  The queue of      *)
(* speech is that of module PacedQueue, where a packet may take nothing.   *)
(***************************************************************************)
EXTENDS Integers, Sequences

CONSTANTS Modulus,     \* 2^32, the width of the sequence number
          PacketSize,  \* samples of a packet at the modem's rate
          Amounts,     \* what the modem may need for its next frame
          MaxQueued,   \* kMaxQueuedSamples of the RADE back end
          Priming,     \* feature vectors that prime the vocoder
          Features,    \* feature vectors of a modem frame
          MaxSpeech,   \* speech the pacer holds
          MaxPackets, MaxJobs  \* bounds: packets produced, jobs started

ASSUME SoundAssumption ==
    /\ Modulus \in Nat \ {0, 1}
    /\ MaxQueued \in Nat
    /\ PacketSize \in 1..MaxQueued
    /\ Amounts # {} /\ Amounts \subseteq 1..MaxQueued
    /\ Priming \in Nat \ {0} /\ Features \in Nat /\ MaxSpeech \in Nat \ {0}
    /\ MaxPackets \in Nat /\ MaxJobs \in Nat

VARIABLES
    backend,    \* "none", "rade" or "codec2"
    waiting,    \* the job is a test that is not ready
    expected_sequence, expected_sequence_valid,
    pushing,    \* inside the back end's push
    iq,         \* samples the modem has not taken
    needed,     \* what it needs for its next frame
    taken,      \* the oldest sample it took since it was opened, or 0
    primer,     \* feature vectors that prime the vocoder
    last_sync,
    pcm,        \* speech of this push
    speech,     \* speech in the pacer
    dropped_frames,
    produced,   \* packets the receiver has produced
    jobs,       \* jobs started
    \* history:
    stream,       \* the last packet decoded without interruption, or 0
    interrupted,  \* the last packet before this stream
    refused,      \* the last packet that did not fit, or 0
    lost, slow    \* packets lost from streams, decodes that took too long

decoderVars == <<waiting, expected_sequence, expected_sequence_valid, dropped_frames>>
modem == <<needed, taken, primer, last_sync>>
history == <<stream, interrupted, refused, lost, slow>>
vars == <<backend, decoderVars, pushing, iq, modem, pcm, speech, produced, jobs, history>>

Numbers == 1..MaxPackets

TypeOK ==
    /\ backend \in {"none", "rade", "codec2"}
    /\ waiting \in BOOLEAN /\ pushing \in BOOLEAN
    /\ expected_sequence \in 0..Modulus - 1
    /\ expected_sequence_valid \in BOOLEAN
    /\ iq \in Seq(Numbers) /\ needed \in Amounts
    /\ taken \in Numbers \cup {0}
    /\ primer \in Seq(Numbers) /\ Len(primer) <= Priming
    /\ last_sync \in BOOLEAN
    /\ pcm \in Seq(Numbers) /\ speech \in Seq(Numbers) /\ Len(speech) <= MaxSpeech
    /\ dropped_frames \in Nat
    /\ produced \in 0..MaxPackets /\ jobs \in 0..MaxJobs
    /\ stream \in 0..produced /\ interrupted \in 0..produced
    /\ refused \in 0..produced
    /\ lost \in Nat /\ slow \in Nat

Init ==
    /\ backend = "none" /\ waiting = FALSE /\ pushing = FALSE
    /\ expected_sequence = 0 /\ expected_sequence_valid = FALSE
    /\ iq = <<>> /\ needed \in Amounts /\ taken = 0 /\ primer = <<>>
    /\ last_sync = FALSE
    /\ pcm = <<>> /\ speech = <<>> /\ dropped_frames = 0
    /\ produced = 0 /\ jobs = 0
    /\ stream = 0 /\ interrupted = 0 /\ refused = 0 /\ lost = 0 /\ slow = 0

Newest(n, s) == IF Len(s) > n THEN SubSeq(s, Len(s) - n + 1, Len(s)) ELSE s
Copies(n, of) == [k \in 1..n |-> of]

------------------------------------------------------------------------------
(* The back ends.                                                          *)

OpenModem == needed' \in Amounts /\ taken' = 0 /\ primer' = <<>> /\ last_sync' = FALSE

\* Mutant: empties the queue and leaves the modem.
ResetQueueOnly == UNCHANGED modem

\* A reset opens the RADE modem again, with a vocoder to prime; that of
\* Codec2 stays as it is.
reset == IF backend = "rade" THEN OpenModem ELSE UNCHANGED modem

\* kfd_rade_decode: the vocoder starts over when the modem loses sync, also
\* if the same frame still has features.  The first features prime it, the
\* others make speech.
RadeFrame(sync, features) ==
    LET kept == IF last_sync /\ ~sync THEN <<>> ELSE primer
        primes == IF Priming - Len(kept) < features THEN Priming - Len(kept)
                                                    ELSE features IN
    /\ primer' = kept \o Copies(primes, Head(iq))
    /\ pcm' = pcm \o Copies(features - primes, Head(iq))

Codec2Frame(features) == pcm' = pcm \o Copies(features, Head(iq)) /\ UNCHANGED primer

\* One frame of the loop in push.
DecodeFrame ==
    /\ pushing /\ Len(iq) >= needed
    /\ \E sync \in BOOLEAN, features \in {0, Features} :
           /\ IF backend = "rade" THEN RadeFrame(sync, features)
                                  ELSE Codec2Frame(features)
           /\ last_sync' = sync
    /\ taken' = IF taken = 0 THEN Head(iq) ELSE taken
    /\ iq' = SubSeq(iq, needed + 1, Len(iq))
    /\ needed' \in Amounts
    /\ UNCHANGED <<backend, decoderVars, pushing, speech, produced, jobs, history>>

------------------------------------------------------------------------------
(* The decoder.                                                            *)

SequenceOf(n) == n % Modulus

Unexpected(sequence) == sequence # expected_sequence

\* Mutant: the difference of numbers that do not wrap.
PlainDifference(sequence) == sequence - expected_sequence

Missed(sequence) == (sequence - expected_sequence) % Modulus

\* A packet that does not fit resets the RADE back end and is dropped itself.
Overflows(queue) == backend = "rade" /\ Len(queue) + PacketSize > MaxQueued

\* process_audio up to the loop of the back end's push; a gap empties all.
Receive ==
    LET sequence == SequenceOf(produced')
        gap == expected_sequence_valid /\ Unexpected(sequence)
        overflow == ~gap /\ Overflows(iq)
        missing == IF stream = 0 THEN 0 ELSE produced' - 1 - stream IN
    /\ backend # "none" /\ ~waiting /\ ~pushing
    /\ produced < MaxPackets /\ produced' = produced + 1
    /\ expected_sequence' = SequenceOf(produced' + 1)
    /\ expected_sequence_valid' = TRUE
    /\ dropped_frames' = IF gap THEN dropped_frames + Missed(sequence) ELSE dropped_frames
    /\ speech' = IF gap THEN <<>> ELSE speech
    /\ iq' = IF overflow THEN <<>>
             ELSE (IF gap THEN <<>> ELSE iq) \o Copies(PacketSize, produced')
    /\ IF gap \/ overflow THEN reset ELSE UNCHANGED modem
    /\ pushing' = TRUE
    /\ stream' = produced'
    /\ interrupted' = IF stream = 0 \/ missing > 0 THEN produced' - 1 ELSE interrupted
    /\ refused' = IF overflow THEN produced' ELSE refused
    /\ lost' = lost + missing
    /\ UNCHANGED <<backend, waiting, pcm, jobs, slow>>

\* The rest of process_audio: speech is queued, and at most a packet of it is
\* returned.
EndPush ==
    /\ pushing /\ Len(iq) < needed
    /\ pushing' = FALSE /\ pcm' = <<>>
    /\ LET made == IF backend = "rade" \/ last_sync THEN pcm ELSE <<>>
           queue == Newest(MaxSpeech, speech \o made) IN
       \/ speech' = queue
       \/ queue # <<>> /\ speech' = Tail(queue)
    /\ UNCHANGED <<backend, decoderVars, iq, modem, produced, jobs, history>>

\* A decode that took more than 500 ms counts as a dropped frame.
EndSlowPush ==
    /\ pushing /\ Len(iq) < needed
    /\ pushing' = FALSE /\ pcm' = <<>>
    /\ dropped_frames' = dropped_frames + 1
    /\ iq' = <<>> /\ speech' = <<>>
    /\ reset
    /\ slow' = slow + 1
    /\ interrupted' = stream
    /\ UNCHANGED <<backend, waiting, expected_sequence, expected_sequence_valid, produced,
                   jobs, stream, refused, lost>>

NewStream == expected_sequence_valid' = FALSE /\ speech' = <<>> /\ iq' = <<>> /\ stream' = 0

\* apply_job, a job that starts: with a new back end.
StartJob(name, test) ==
    /\ ~pushing
    /\ jobs < MaxJobs /\ jobs' = jobs + 1
    /\ backend' = name /\ waiting' = test
    /\ OpenModem /\ NewStream
    /\ UNCHANGED <<expected_sequence, dropped_frames, pushing, pcm, produced, interrupted,
                   refused, lost, slow>>

\* apply_job, a test that becomes ready.
ArmTest ==
    /\ ~pushing
    /\ waiting /\ waiting' = FALSE
    /\ reset /\ NewStream
    /\ UNCHANGED <<backend, expected_sequence, dropped_frames, pushing, pcm, produced, jobs,
                   interrupted, refused, lost, slow>>

\* reset_decoder, or a new camper behind a failure, also one of push itself.
Stop ==
    /\ backend # "none"
    /\ backend' = "none" /\ waiting' = FALSE
    /\ pushing' = FALSE /\ pcm' = <<>>
    /\ OpenModem /\ NewStream
    /\ UNCHANGED <<expected_sequence, dropped_frames, produced, jobs, interrupted,
                   refused, lost, slow>>

\* A packet does not reach the decoder, or is ignored by one that has no back
\* end or waits; fewer than Modulus are lost in a row.
Lose ==
    /\ produced < MaxPackets /\ produced' = produced + 1
    /\ stream > 0 => produced' - stream < Modulus
    /\ UNCHANGED <<backend, decoderVars, pushing, iq, modem, pcm, speech, jobs, history>>

Next ==
    \/ DecodeFrame \/ Receive \/ EndPush \/ EndSlowPush
    \/ \E name \in {"rade", "codec2"}, test \in BOOLEAN : StartJob(name, test)
    \/ ArmTest \/ Stop \/ Lose

Spec == Init /\ [][Next]_vars

------------------------------------------------------------------------------
(* Properties.                                                             *)

Since(n, s) == \A k \in DOMAIN s : s[k] > n

\* Nothing crosses an interruption: what waits for the modem, what the RADE
\* modem and its vocoder hold and what waits to be returned is of the sound
\* since the last packet that was lost or ignored, or decoded too slowly.  A
\* packet that did not fit does not interrupt what waits to be returned.
NothingCrosses ==
    /\ Since(interrupted, speech)
    /\ \A n \in {interrupted, refused} :
           /\ Since(n, iq) /\ Since(n, pcm)
           /\ backend = "rade" => Since(n, primer) /\ (taken = 0 \/ taken > n)

\* The counter of dropped frames is the packets lost from streams and the
\* decodes that took too long, across every wrap of the sequence number.
DropsCounted == dropped_frames = lost + slow
==============================================================================
