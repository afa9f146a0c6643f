---------------------------- MODULE SpectrumRing ----------------------------
(***************************************************************************)
(* The dashboard's audio ring: the decoder thread writes receiver samples  *)
(* without ever waiting, the FFT thread takes the newest window ten times  *)
(* a second and publishes its spectrum as the latest frame.  Ring and      *)
(* positions are shared without a lock, so every access to them is a step. *)
(*                                                                         *)
(* A sample is the number of its arrival, 0 is a slot never written, and a *)
(* frame is the window it was computed from.  Sample rate and the flags of *)
(* a frame are left out.                                                   *)
(***************************************************************************)
EXTENDS Integers, Sequences, FiniteSets

CONSTANTS Size,        \* kAudioRingSize
          FftSize,     \* kFftSize
          Modulus,     \* 2^64, the width of the two positions
          Bursts,      \* sizes of one push
          MaxSamples,  \* bound: samples pushed
          MaxChanges   \* bound: sessions started and stopped

ASSUME RingAssumption ==
    /\ Size \in Nat \ {0}
    /\ FftSize \in 1..Size
    /\ Modulus \in Nat \ {0}
    /\ Modulus % Size = 0
    /\ MaxSamples \in Nat /\ MaxSamples < Modulus
    /\ Bursts \subseteq 1..Size - FftSize   \* a packet is far shorter
    /\ MaxChanges \in Nat

VARIABLES
    audio, audio_write, audio_read,  \* the ring and its two positions
    spectrum_drops,                  \* samples that found no room
    latest_frame, latest_sequence,   \* what the FFT thread published
    \* the decoder thread:
    pushing,   \* burst being written: its size and how much is written
    starting,  \* inside session_started, behind the clearing of the frame
    \* the FFT thread:
    fft,       \* where it is in its loop
    write,     \* the position it loaded
    samples,   \* the part of the window it has copied
    \* history:
    boundary,  \* samples written when a session last started or stopped
    changes,   \* starts and stops so far
    stopped,   \* a session stopped since the FFT thread loaded `write'
    old        \* frames with samples from before the boundary since then

decoderVars == <<pushing, starting>>
fftVars == <<fft, write, samples>>
frameVars == <<latest_frame, latest_sequence>>
ghosts == <<boundary, changes, stopped, old>>
ringVars == <<audio, audio_write, audio_read, spectrum_drops, decoderVars,
              fftVars, frameVars, ghosts>>

NoFrame == <<>>
Idle == [size |-> 0, done |-> 0]
Slot(n) == (n % Modulus) % Size
FftSteps == {"load", "check", "copy", "store", "publish"}
Window == Seq(0..MaxSamples)

RingTypeOK ==
    /\ audio \in [0..Size - 1 -> 0..MaxSamples]
    /\ audio_write \in 0..MaxSamples
    /\ audio_read \in 0..MaxSamples
    /\ spectrum_drops \in 0..MaxSamples
    /\ latest_frame \in Window /\ Len(latest_frame) \in {0, FftSize}
    /\ latest_sequence \in Nat
    /\ pushing \in [size : {0} \cup Bursts, done : Nat]
    /\ pushing.done <= pushing.size
    /\ starting \in BOOLEAN
    /\ fft \in FftSteps
    /\ write \in 0..MaxSamples
    /\ samples \in Window /\ Len(samples) <= FftSize
    /\ boundary \in 0..MaxSamples
    /\ changes \in 0..MaxChanges
    /\ stopped \in BOOLEAN
    /\ old \in Nat

RingInit ==
    /\ audio = [n \in 0..Size - 1 |-> 0]
    /\ audio_write = 0 /\ audio_read = 0 /\ spectrum_drops = 0
    /\ latest_frame = NoFrame /\ latest_sequence = 0
    /\ pushing = Idle /\ starting = FALSE
    /\ fft = "load" /\ write = 0 /\ samples = <<>>
    /\ boundary = 0 /\ changes = 0 /\ stopped = FALSE /\ old = 0

------------------------------------------------------------------------------
(* The decoder thread.                                                     *)

DecoderFree == pushing = Idle /\ ~starting

\* The decoder thread may find more queued than fits, because the FFT thread
\* can set the read position back.
Free ==
    LET queued == (audio_write - audio_read) % Modulus IN
    Size - (IF queued < Size THEN queued ELSE Size)

\* push_audio loads both positions and drops a burst that does not fit.
push_audio(count) ==
    /\ DecoderFree
    /\ audio_write + spectrum_drops + count <= MaxSamples
    /\ IF count <= Free
       THEN /\ pushing' = [size |-> count, done |-> 0]
            /\ UNCHANGED spectrum_drops
       ELSE /\ spectrum_drops' = spectrum_drops + count
            /\ UNCHANGED pushing
    /\ UNCHANGED <<audio, audio_write, audio_read, starting, fftVars,
                   frameVars, ghosts>>

WriteSample ==
    /\ pushing.done < pushing.size
    /\ LET n == audio_write + pushing.done IN
       audio' = [audio EXCEPT ![Slot(n)] = n + 1]
    /\ pushing' = [pushing EXCEPT !.done = @ + 1]
    /\ UNCHANGED <<audio_write, audio_read, spectrum_drops, starting, fftVars,
                   frameVars, ghosts>>

EndPush ==
    /\ pushing.size > 0 /\ pushing.done = pushing.size
    /\ audio_write' = audio_write + pushing.size
    /\ pushing' = Idle
    /\ UNCHANGED <<audio, audio_read, spectrum_drops, starting, fftVars,
                   frameVars, ghosts>>

\* What the properties compare with: a new session begins here.
Changes ==
    /\ changes < MaxChanges /\ changes' = changes + 1
    /\ boundary' = audio_write
    /\ old' = 0

\* Mutant: clears the sequence with the frame.
ClearFrameAndSequence == latest_frame' = NoFrame /\ latest_sequence' = 0

ClearFrame == latest_frame' = NoFrame /\ UNCHANGED latest_sequence

\* session_started locks twice: first it clears the frame, ...
StartSession ==
    /\ DecoderFree
    /\ starting' = TRUE
    /\ ClearFrame
    /\ Changes
    /\ UNCHANGED <<audio, audio_write, audio_read, spectrum_drops, pushing, fftVars, stopped>>

\* ... then it replaces the session and the capture.
FinishStart ==
    /\ starting /\ starting' = FALSE
    /\ UNCHANGED <<audio, audio_write, audio_read, spectrum_drops, pushing, fftVars,
                   frameVars, ghosts>>

\* session_stopped discards what the FFT thread has not read, by storing the
\* read position, which the FFT thread stores as well.
StopSession ==
    /\ DecoderFree
    /\ audio_read' = audio_write
    /\ Changes
    /\ stopped' = TRUE
    /\ UNCHANGED <<audio, audio_write, spectrum_drops, decoderVars, fftVars, frameVars>>

------------------------------------------------------------------------------
(* The FFT thread.                                                         *)

LoadWrite ==
    /\ fft = "load" /\ fft' = "check"
    /\ write' = audio_write
    /\ stopped' = FALSE
    /\ UNCHANGED <<audio, audio_write, audio_read, spectrum_drops, decoderVars, samples,
                   frameVars, boundary, changes, old>>

\* Mutant: any new sample is enough.
AnyUnread == write # audio_read

\* A read position beyond `write' makes the difference wrap, and enough.
EnoughUnread == (write - audio_read) % Modulus >= FftSize

\* Mutant: frees the window before it is copied.
LoadAndStoreRead ==
    /\ fft = "check"
    /\ fft' = IF EnoughUnread THEN "copy" ELSE "load"
    /\ audio_read' = IF EnoughUnread THEN write ELSE audio_read
    /\ samples' = <<>>
    /\ UNCHANGED <<audio, audio_write, spectrum_drops, decoderVars, write,
                   frameVars, ghosts>>

LoadRead ==
    /\ fft = "check"
    /\ fft' = IF EnoughUnread THEN "copy" ELSE "load"
    /\ samples' = <<>>
    /\ UNCHANGED <<audio, audio_write, audio_read, spectrum_drops, decoderVars, write,
                   frameVars, ghosts>>

CopySample ==
    /\ fft = "copy"
    /\ samples' = Append(samples, audio[Slot(write - FftSize + Len(samples))])
    /\ fft' = IF Len(samples') = FftSize THEN "store" ELSE "copy"
    /\ UNCHANGED <<audio, audio_write, audio_read, spectrum_drops, decoderVars, write,
                   frameVars, ghosts>>

StoreRead ==
    /\ fft = "store" /\ fft' = "publish"
    /\ audio_read' = write
    /\ UNCHANGED <<audio, audio_write, spectrum_drops, decoderVars, write, samples, frameVars,
                   ghosts>>

HasOld(frame) == \E n \in DOMAIN frame : frame[n] <= boundary

PublishFrame ==
    /\ fft = "publish" /\ fft' = "load"
    /\ latest_frame' = samples
    /\ latest_sequence' = latest_sequence + 1
    /\ old' = IF HasOld(samples) THEN old + 1 ELSE old
    /\ UNCHANGED <<audio, audio_write, audio_read, spectrum_drops, decoderVars, write, samples,
                   boundary, changes, stopped>>

fft_loop == LoadWrite \/ LoadRead \/ CopySample \/ StoreRead \/ PublishFrame

RingNext ==
    \/ \E count \in Bursts : push_audio(count)
    \/ WriteSample
    \/ EndPush
    \/ StartSession
    \/ FinishStart
    \/ StopSession
    \/ fft_loop

------------------------------------------------------------------------------
(* Properties.                                                             *)

\* A window is torn only by a session that stopped while it was taken: the
\* decoder thread cannot overwrite what the FFT thread copies, because the
\* read position moves behind the copy and the push is refused before that.
TornOnlyByStop ==
    fft \in {"copy", "store"} /\ ~stopped =>
        samples = [n \in 1..Len(samples) |-> write - FftSize + n]

\* However starts and stops meet the FFT thread, also when it sets the read
\* position back, a session shows at most two frames with earlier audio: the
\* one being computed, and one more.
OldFramesAreFew == old <= 2

==============================================================================
