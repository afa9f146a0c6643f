-------------------------- MODULE DashboardProofs --------------------------
(***************************************************************************)
(* For any ring, window, bursts, number of viewers and limit: a window is  *)
(* torn only by a session that stopped while it was taken, a session shows *)
(* at most two frames with earlier audio, the public viewers are counted   *)
(* exactly, a viewer never gets an older frame, and a download is the      *)
(* newest modem samples of its session.                                    *)
(*                                                                         *)
(* The argument for the ring: the newest Size samples are in it (Filled),  *)
(* and from the moment the FFT thread has found a window, the burst being  *)
(* written ends before it would wrap into that window (Clear).  The first  *)
(* frame with earlier audio was under way when the session began; once the *)
(* FFT thread has published it and looked again, a stop is behind it and   *)
(* its window ends behind the boundary, so that after a second one the     *)
(* read position is there too and every window begins there (OldKnown).    *)
(***************************************************************************)
EXTENDS Dashboard, FiniteSetTheorems, SequenceTheorems, TLAPS

------------------------------------------------------------------------------
(* Remainders.                                                             *)

\* Quotient and remainder make up the dividend.
LEMMA Division ==
    ASSUME NEW c \in Nat \ {0}, NEW a \in Int
    PROVE  /\ a % c \in 0..c - 1 /\ a \div c \in Int
           /\ a = c * (a \div c) + (a % c)
OBVIOUS

\* Two samples less than a ring apart are in different slots of it.
LEMMA SlotsDiffer ==
    ASSUME NEW c \in Nat \ {0}, NEW a \in Nat, NEW b \in Nat,
           a < b, b < a + c
    PROVE  a % c # b % c
<1> SUFFICES ASSUME a % c = b % c PROVE FALSE
  OBVIOUS
<1> DEFINE p == a \div c
           q == b \div c
           r == a % c
<1>1. /\ p \in Int /\ q \in Int /\ r \in 0..c - 1
      /\ a = c * p + r /\ b = c * q + r
  BY Division
<1> HIDE DEF p, q, r
<1>2. b - a = c * (q - p)
  BY <1>1
<1>3. CASE q - p >= 1
  <2>1. c * (q - p) >= c
    BY <1>1, <1>3
  <2> QED
    BY <1>2, <2>1
<1>4. CASE q - p <= 0
  <2>1. c * (q - p) <= 0
    BY <1>1, <1>4
  <2> QED
    BY <1>2, <2>1
<1> QED
  BY <1>1, <1>3, <1>4

\* A number below the divisor is its own remainder.
LEMMA Remains ==
    ASSUME NEW c \in Nat \ {0}, NEW a \in Nat, a < c
    PROVE  a % c = a
OBVIOUS

------------------------------------------------------------------------------
(* The ring.                                                               *)

\* The burst admitted last fits, and nobody reads ahead.
Bounded ==
    /\ audio_write + spectrum_drops + pushing.size <= MaxSamples
    /\ audio_read <= audio_write
    /\ write <= audio_write

\* What the decoder thread has written, the burst under way included.
Written == audio_write + pushing.done

\* The newest Size samples are in their slots.
Filled ==
    \A n \in Nat : n < Written /\ Written <= n + Size => audio[n % Size] = n + 1

\* A window that is found, or about to be, has room behind it for the burst.
Clear ==
    ~stopped =>
        /\ fft \in {"check", "copy", "store"} => audio_read <= write
        /\ fft \in {"copy", "store"} => audio_read + FftSize <= write
        /\ fft \in {"check", "copy", "store"} /\ audio_read + FftSize <= write =>
               audio_write + pushing.size + FftSize <= write + Size

\* How much of the window is copied at each place of the loop.
Progress ==
    /\ fft = "copy" => Len(samples) < FftSize
    /\ fft \in {"store", "publish"} => Len(samples) = FftSize

\* TornOnlyByStop, sample by sample.
Intact ==
    fft \in {"copy", "store"} /\ ~stopped =>
        \A n \in 1..Len(samples) : samples[n] = write - FftSize + n

RingInvariant == RingTypeOK /\ Bounded /\ Filled /\ Clear /\ Progress /\ Intact

\* The constants as numbers, and what the type invariant says of the positions.
LEMMA Numbers ==
    ASSUME RingTypeOK
    PROVE  /\ Size \in Nat \ {0} /\ FftSize \in Nat \ {0} /\ FftSize <= Size
           /\ Modulus \in Nat \ {0} /\ MaxSamples \in Nat /\ MaxSamples < Modulus
           /\ \A count \in Bursts : count \in Nat \ {0} /\ count + FftSize <= Size
           /\ audio_write \in Nat /\ audio_read \in Nat /\ write \in Nat
           /\ spectrum_drops \in Nat
           /\ pushing.size \in Nat /\ pushing.done \in Nat
           /\ pushing.done <= pushing.size /\ pushing.size + FftSize <= Size
           /\ samples \in Seq(0..MaxSamples) /\ Len(samples) \in Nat
<1>1. /\ Size \in Nat \ {0} /\ FftSize \in Nat \ {0} /\ FftSize <= Size
      /\ Modulus \in Nat \ {0} /\ MaxSamples \in Nat /\ MaxSamples < Modulus
      /\ \A count \in Bursts : count \in Nat \ {0} /\ count + FftSize <= Size
  BY RingAssumption
<1>2. pushing.size \in {0} \cup Bursts /\ pushing.done \in Nat
  BY DEF RingTypeOK
<1>3. samples \in Seq(0..MaxSamples)
  BY DEF RingTypeOK, Window
<1> QED
  BY <1>1, <1>2, <1>3 DEF RingTypeOK

\* A slot is one, and that of a sample within the bound is its remainder.
LEMMA SlotOfSample ==
    ASSUME RingTypeOK, NEW n \in Int
    PROVE  /\ Slot(n) \in 0..Size - 1
           /\ n \in 0..MaxSamples => Slot(n) = n % Size
<1>1. n % Modulus \in Int
  BY Numbers, Division
<1>2. Slot(n) \in 0..Size - 1
  BY <1>1, Numbers, Division DEF Slot
<1>3. ASSUME n \in 0..MaxSamples PROVE n % Modulus = n
  BY <1>3, Numbers, Remains
<1> QED
  BY <1>2, <1>3 DEF Slot

\* An empty ring at first.
LEMMA InitRing == RingInit => RingInvariant
<1> SUFFICES ASSUME RingInit PROVE RingInvariant
  OBVIOUS
<1>1. samples = <<>> /\ latest_frame = <<>> /\ fft = "load"
  BY DEF RingInit, NoFrame
<1>2. Len(samples) = 0 /\ Len(latest_frame) = 0
  BY <1>1
<1>3. pushing = [size |-> 0, done |-> 0]
  BY DEF RingInit, Idle
<1>4. RingTypeOK
  <2>1. 0 \in 0..MaxSamples /\ 0 \in 0..MaxChanges /\ 0 \in Nat /\ 0 <= FftSize
    BY RingAssumption
  <2>2. samples \in Window /\ latest_frame \in Window
    BY <1>1 DEF Window
  <2>3. audio \in [0..Size - 1 -> 0..MaxSamples]
    BY <2>1 DEF RingInit
  <2>4. /\ pushing \in [size : {0} \cup Bursts, done : Nat]
        /\ pushing.done <= pushing.size
    BY <1>3
  <2> QED
    BY <1>1, <1>2, <2>1, <2>2, <2>3, <2>4 DEF RingInit, RingTypeOK, FftSteps
<1>5. Bounded /\ Filled
  BY <1>3, RingAssumption DEF RingInit, Bounded, Filled, Written
<1>6. Clear /\ Progress /\ Intact
  BY <1>1 DEF Clear, Progress, Intact
<1> QED
  BY <1>4, <1>5, <1>6 DEF RingInvariant

\* A burst that is admitted ends before it wraps into what is not yet read.
LEMMA PushKeeps ==
    ASSUME RingInvariant, NEW count \in Bursts, push_audio(count)
    PROVE  RingInvariant'
<1> USE DEF RingInvariant
<1>0. /\ Size \in Nat /\ count \in Nat \ {0} /\ spectrum_drops \in Nat
      /\ audio_write \in Nat /\ audio_read \in Nat /\ audio_read <= audio_write
  BY Numbers DEF Bounded
<1>1. /\ pushing = [size |-> 0, done |-> 0]
      /\ UNCHANGED <<audio, audio_write, audio_read, starting, fft, write, samples,
                     latest_frame, latest_sequence, boundary, changes, stopped, old>>
      /\ audio_write + spectrum_drops + count <= MaxSamples
  BY DEF push_audio, DecoderFree, Idle, fftVars, frameVars, ghosts
<1>2. (audio_write - audio_read) % Modulus = audio_write - audio_read
  <2>1. audio_write - audio_read \in Nat /\ audio_write - audio_read < Modulus
    BY <1>1, Numbers DEF Bounded
  <2> QED
    BY <2>1, Numbers, Remains
<1>3. CASE count <= Free
  <2>1. pushing' = [size |-> count, done |-> 0] /\ spectrum_drops' = spectrum_drops
    BY <1>3 DEF push_audio
  <2>2. audio_write + count <= audio_read + Size
    <3>1. Free = Size - (IF audio_write - audio_read < Size
                         THEN audio_write - audio_read ELSE Size)
      BY <1>2 DEF Free
    <3> QED
      BY <1>0, <1>3, <3>1
  <2>3. RingTypeOK'
    BY <1>1, <2>1, Numbers DEF RingTypeOK
  <2>4. Bounded' /\ Filled'
    BY <1>1, <2>1 DEF Bounded, Filled, Written
  <2>5. Clear'
    <3>1. FftSize \in Nat /\ write \in Nat /\ count + FftSize <= Size
      BY Numbers
    <3>2. audio_read + FftSize <= write =>
              audio_write + count + FftSize <= write + Size
      BY <1>0, <2>2, <3>1
    <3>3. pushing'.size = count
      BY <2>1
    <3> QED
      BY <1>1, <3>2, <3>3 DEF Clear
  <2> QED
    BY <1>1, <2>3, <2>4, <2>5 DEF Progress, Intact
<1>4. CASE ~(count <= Free)
  <2>1. pushing' = pushing /\ spectrum_drops' = spectrum_drops + count
    BY <1>4 DEF push_audio
  <2>2. spectrum_drops' \in 0..MaxSamples
    BY <1>0, <1>1, <2>1, RingAssumption
  <2>3. RingTypeOK'
    BY <1>1, <2>1, <2>2 DEF RingTypeOK
  <2> QED
    BY <1>1, <2>1, <2>3, Numbers
       DEF Bounded, Filled, Written, Clear, Progress, Intact
<1> QED
  BY <1>3, <1>4

\* The slot written held a sample that is no longer among the newest.
LEMMA WriteKeeps == RingInvariant /\ WriteSample => RingInvariant'
<1> SUFFICES ASSUME RingInvariant, WriteSample PROVE RingInvariant'
  OBVIOUS
<1> USE DEF RingInvariant
<1> DEFINE n == Written
<1>0. /\ Size \in Nat \ {0} /\ MaxSamples \in Nat
      /\ audio_write \in Nat /\ spectrum_drops \in Nat
      /\ pushing.size \in Nat /\ pushing.done \in Nat
      /\ pushing = [size |-> pushing.size, done |-> pushing.done]
      /\ audio_write + spectrum_drops + pushing.size <= MaxSamples
  BY Numbers DEF RingTypeOK, Bounded
<1>1. /\ pushing.done < pushing.size
      /\ audio' = [audio EXCEPT ![Slot(n)] = n + 1]
      /\ pushing' = [pushing EXCEPT !.done = @ + 1]
      /\ UNCHANGED <<audio_write, audio_read, spectrum_drops, starting, fft, write,
                     samples, latest_frame, latest_sequence, boundary, changes,
                     stopped, old>>
  BY DEF WriteSample, Written, fftVars, frameVars, ghosts
<1>2. /\ n \in Nat /\ n < MaxSamples /\ n + 1 \in 0..MaxSamples
      /\ n \in 0..MaxSamples
  BY <1>0, <1>1 DEF Written
<1>3. /\ pushing' = [size |-> pushing.size, done |-> pushing.done + 1]
      /\ Written' = n + 1
  <2>1. pushing' = [size |-> pushing.size, done |-> pushing.done + 1]
    BY <1>0, <1>1
  <2> QED
    BY <1>0, <1>1, <2>1 DEF Written
<1>4. Slot(n) = n % Size /\ Slot(n) \in 0..Size - 1
  BY <1>2, SlotOfSample
<1>5. audio \in [0..Size - 1 -> 0..MaxSamples]
  BY DEF RingTypeOK
<1>6. RingTypeOK'
  <2>1. audio' \in [0..Size - 1 -> 0..MaxSamples]
    BY <1>1, <1>2, <1>4, <1>5
  <2>2. pushing' \in [size : {0} \cup Bursts, done : Nat]
    <3>1. pushing.size \in {0} \cup Bursts
      BY DEF RingTypeOK
    <3>2. pushing.done + 1 \in Nat
      BY <1>0
    <3> QED
      BY <1>3, <3>1, <3>2
  <2>3. pushing'.done <= pushing'.size
    BY <1>1, <1>3, Numbers
  <2> QED
    BY <1>1, <2>1, <2>2, <2>3 DEF RingTypeOK
<1>7. Filled'
  <2> SUFFICES ASSUME NEW m \in Nat, m < n + 1, n + 1 <= m + Size
               PROVE  audio'[m % Size] = m + 1
    BY <1>3 DEF Filled
  <2>1. CASE m = n
    BY <1>1, <1>4, <1>5, <2>1
  <2>2. CASE m < n
    <3>1. m % Size # n % Size /\ m % Size \in 0..Size - 1
      <4>1. n \in Nat /\ n < m + Size
        BY <1>0, <1>2
      <4> HIDE DEF n
      <4> QED
        BY <1>0, <2>2, <4>1, SlotsDiffer, Division
    <3>2. audio[m % Size] = m + 1
      BY <1>2, <2>2, Numbers DEF Filled
    <3> QED
      BY <1>1, <1>4, <1>5, <3>1, <3>2
  <2> QED
    BY <1>2, <2>1, <2>2
<1>8. Bounded' /\ Clear' /\ Progress' /\ Intact'
  BY <1>1, <1>3 DEF Bounded, Clear, Progress, Intact
<1> QED
  BY <1>6, <1>7, <1>8

\* The burst becomes visible.
LEMMA EndPushKeeps == RingInvariant /\ EndPush => RingInvariant'
<1> SUFFICES ASSUME RingInvariant, EndPush PROVE RingInvariant'
  OBVIOUS
<1> USE DEF RingInvariant
<1>0. /\ Size \in Nat \ {0} /\ MaxSamples \in Nat
      /\ audio_write \in Nat /\ spectrum_drops \in Nat
      /\ pushing.size \in Nat /\ pushing.done \in Nat
      /\ pushing = [size |-> pushing.size, done |-> pushing.done]
      /\ audio_write + spectrum_drops + pushing.size <= MaxSamples
  BY Numbers DEF RingTypeOK, Bounded
<1>1. /\ pushing.done = pushing.size
      /\ audio_write' = audio_write + pushing.size
      /\ pushing' = [size |-> 0, done |-> 0]
      /\ UNCHANGED <<audio, audio_read, spectrum_drops, starting, fft, write, samples,
                     latest_frame, latest_sequence, boundary, changes, stopped, old>>
  BY DEF EndPush, Idle, fftVars, frameVars, ghosts
<1>2. audio_write' \in 0..MaxSamples /\ audio_write' >= audio_write
  BY <1>0, <1>1
<1>3. RingTypeOK'
  BY <1>1, <1>2 DEF RingTypeOK
<1>4. Written' = Written
  BY <1>0, <1>1 DEF Written
<1>5. Bounded' /\ Clear'
  <2>1. /\ audio_write' + pushing'.size = audio_write + pushing.size
        /\ audio_write' + spectrum_drops + pushing'.size
             = audio_write + spectrum_drops + pushing.size
    BY <1>0, <1>1
  <2>2. Bounded'
    <3>1. audio_read <= audio_write' /\ write <= audio_write'
      <4>1. audio_read \in Nat /\ write \in Nat
        BY Numbers
      <4> QED
        BY <1>0, <1>2, <4>1 DEF Bounded
    <3> QED
      BY <1>1, <2>1, <3>1 DEF Bounded
  <2>3. Clear'
    BY <1>1, <2>1 DEF Clear
  <2> QED
    BY <2>2, <2>3
<1>6. Filled' /\ Progress' /\ Intact'
  BY <1>1, <1>4 DEF Filled, Progress, Intact
<1> QED
  BY <1>3, <1>5, <1>6

\* Starts and stops touch the ring only where a window no longer counts.
LEMMA SessionKeeps ==
    RingInvariant /\ (StartSession \/ FinishStart \/ StopSession) => RingInvariant'
<1> SUFFICES ASSUME RingInvariant, StartSession \/ FinishStart \/ StopSession
             PROVE  RingInvariant'
  OBVIOUS
<1> USE DEF RingInvariant
<1>1. CASE StartSession
  <2>1. /\ starting' = TRUE /\ latest_frame' = <<>>
        /\ UNCHANGED <<audio, audio_write, audio_read, spectrum_drops, pushing, fft,
                       write, samples, latest_sequence, stopped>>
        /\ changes < MaxChanges /\ changes' = changes + 1
        /\ boundary' = audio_write /\ old' = 0
    BY <1>1 DEF StartSession, Changes, ClearFrame, NoFrame, fftVars
  <2>2. changes' \in 0..MaxChanges
    BY <2>1, RingAssumption DEF RingTypeOK
  <2>3. latest_frame' \in Window /\ Len(latest_frame') = 0
    BY <2>1 DEF Window
  <2>4. RingTypeOK'
    BY <2>1, <2>2, <2>3 DEF RingTypeOK
  <2> QED
    BY <2>1, <2>4 DEF Bounded, Filled, Written, Clear, Progress, Intact
<1>2. CASE FinishStart
  <2>1. /\ starting' = FALSE
        /\ UNCHANGED <<audio, audio_write, audio_read, spectrum_drops, pushing, fft,
                       write, samples, latest_frame, latest_sequence, boundary,
                       changes, stopped, old>>
    BY <1>2 DEF FinishStart, fftVars, frameVars, ghosts
  <2>2. RingTypeOK'
    BY <2>1 DEF RingTypeOK
  <2> QED
    BY <2>1, <2>2 DEF Bounded, Filled, Written, Clear, Progress, Intact
<1>3. CASE StopSession
  <2>1. /\ audio_read' = audio_write /\ stopped' = TRUE
        /\ UNCHANGED <<audio, audio_write, spectrum_drops, pushing, starting, fft,
                       write, samples, latest_frame, latest_sequence>>
        /\ changes < MaxChanges /\ changes' = changes + 1
        /\ boundary' = audio_write /\ old' = 0
    BY <1>3 DEF StopSession, Changes, decoderVars, fftVars, frameVars
  <2>2. changes' \in 0..MaxChanges
    BY <2>1, RingAssumption DEF RingTypeOK
  <2>3. RingTypeOK'
    BY <2>1, <2>2 DEF RingTypeOK
  <2> QED
    BY <2>1, <2>3, Numbers DEF Bounded, Filled, Written, Clear, Progress, Intact
<1> QED
  BY <1>1, <1>2, <1>3

\* The FFT thread's accesses: only LoadWrite starts a window and only
\* StoreRead moves the read position, behind the copy.
LEMMA FftKeeps == RingInvariant /\ fft_loop => RingInvariant'
<1> SUFFICES ASSUME RingInvariant, fft_loop PROVE RingInvariant'
  OBVIOUS
<1> USE DEF RingInvariant
<1>0. UNCHANGED <<audio, audio_write, spectrum_drops, pushing, starting, boundary,
                  changes>>
  BY DEF fft_loop, LoadWrite, LoadRead, CopySample, StoreRead, PublishFrame, decoderVars,
         ghosts
<1>1. CASE LoadWrite
  <2>1. /\ fft' = "check" /\ write' = audio_write /\ stopped' = FALSE
        /\ UNCHANGED <<audio_read, samples, latest_frame, latest_sequence, old>>
    BY <1>1 DEF LoadWrite, frameVars
  <2>2. RingTypeOK'
    BY <1>0, <2>1 DEF RingTypeOK, FftSteps
  <2>3. audio_write + pushing.size + FftSize <= audio_write + Size
    BY Numbers
  <2>4. Clear' /\ Bounded'
    BY <1>0, <2>1, <2>3, Numbers DEF Clear, Bounded
  <2> QED
    BY <1>0, <2>1, <2>2, <2>4 DEF Filled, Written, Progress, Intact
<1>2. CASE LoadRead
  <2>1. /\ fft = "check" /\ samples' = <<>>
        /\ fft' = IF EnoughUnread THEN "copy" ELSE "load"
        /\ UNCHANGED <<audio_read, write, latest_frame, latest_sequence, stopped, old>>
    BY <1>2 DEF LoadRead, frameVars, ghosts
  <2>2. /\ samples' \in Window /\ Len(samples') = 0
        /\ Len(samples') <= FftSize /\ 0 < FftSize
    BY <2>1, Numbers DEF Window
  <2>3. RingTypeOK'
    <3>1. fft' \in FftSteps
      BY <2>1 DEF FftSteps
    <3> QED
      BY <1>0, <2>1, <2>2, <3>1 DEF RingTypeOK
  <2>4. ASSUME ~stopped, EnoughUnread PROVE audio_read + FftSize <= write
    <3>1. write - audio_read \in Nat /\ write - audio_read < Modulus
      <4>1. audio_read <= write
        BY <2>1, <2>4 DEF Clear
      <4>2. /\ write \in Nat /\ audio_read \in Nat /\ Modulus \in Nat
            /\ write < Modulus
        <5>1. write <= MaxSamples /\ MaxSamples < Modulus /\ MaxSamples \in Nat
          BY Numbers DEF RingTypeOK
        <5> QED
          BY <5>1, Numbers
      <4> QED
        BY <4>1, <4>2
    <3>2. (write - audio_read) % Modulus = write - audio_read
      BY <3>1, Numbers, Remains
    <3> QED
      BY <2>4, <3>2, Numbers DEF EnoughUnread
  <2>5. Clear'
    BY <1>0, <2>1, <2>4 DEF Clear
  <2>6. Progress' /\ Intact'
    BY <2>1, <2>2 DEF Progress, Intact
  <2> QED
    BY <1>0, <2>1, <2>3, <2>5, <2>6 DEF Bounded, Filled, Written
<1>3. CASE CopySample
  <2> DEFINE n == write - FftSize + Len(samples)
             x == audio[Slot(n)]
  <2>1. /\ fft = "copy" /\ samples' = Append(samples, x)
        /\ fft' = IF Len(samples') = FftSize THEN "store" ELSE "copy"
        /\ UNCHANGED <<audio_read, write, latest_frame, latest_sequence, stopped, old>>
    BY <1>3 DEF CopySample, frameVars, ghosts
  <2>2. n \in Int /\ samples \in Seq(0..MaxSamples) /\ Len(samples) \in Nat
    BY Numbers
  <2>3. Slot(n) \in 0..Size - 1 /\ (n \in 0..MaxSamples => Slot(n) = n % Size)
    BY <2>2, SlotOfSample
  <2>4. x \in 0..MaxSamples
    BY <2>3 DEF RingTypeOK
  <2> HIDE DEF x
  <2>5. /\ samples' \in Seq(0..MaxSamples) /\ Len(samples') = Len(samples) + 1
        /\ \A i \in 1..Len(samples) : samples'[i] = samples[i]
        /\ samples'[Len(samples) + 1] = x
    BY <2>1, <2>2, <2>4
  <2>6. Len(samples') <= FftSize /\ Progress'
    <3>1. Len(samples) < FftSize
      BY <2>1 DEF Progress
    <3>2. FftSize \in Nat
      BY Numbers
    <3>3. Len(samples') \in Nat /\ Len(samples') <= FftSize
      BY <2>2, <2>5, <3>1, <3>2
    <3>4. Len(samples') = FftSize \/ Len(samples') < FftSize
      BY <3>2, <3>3
    <3> QED
      BY <2>1, <3>3, <3>4 DEF Progress
  <2>7. RingTypeOK'
    <3>1. fft' \in FftSteps
      BY <2>1 DEF FftSteps
    <3>2. samples' \in Window
      BY <2>5 DEF Window
    <3> QED
      BY <1>0, <2>1, <2>6, <3>1, <3>2 DEF RingTypeOK
  <2>8. ASSUME ~stopped PROVE x = n + 1
    <3>1. n \in Nat /\ n < Written /\ Written <= n + Size /\ n <= MaxSamples
      <4>1. /\ audio_read + FftSize <= write
            /\ audio_write + pushing.size + FftSize <= write + Size
        BY <2>1, <2>8 DEF Clear
      <4>2. Len(samples) < FftSize
        BY <2>1 DEF Progress
      <4>3. write <= audio_write
        BY DEF Bounded
      <4>4. write <= MaxSamples
        BY Numbers DEF RingTypeOK
      <4>5. /\ write \in Nat /\ audio_read \in Nat /\ audio_write \in Nat
            /\ pushing.size \in Nat /\ pushing.done \in Nat
            /\ pushing.done <= pushing.size
            /\ FftSize \in Nat /\ Size \in Nat /\ MaxSamples \in Nat
        BY Numbers
      <4>6. n \in Nat /\ n < audio_write /\ n <= MaxSamples
        BY <2>2, <4>1, <4>2, <4>3, <4>4, <4>5
      <4>7. Written >= audio_write /\ Written \in Nat
        BY <4>5 DEF Written
      <4>8. Written <= n + Size
        <5>1. audio_write + pushing.done + FftSize <= write + Size
          BY <4>1, <4>5
        <5> QED
          BY <2>2, <4>5, <5>1 DEF Written
      <4> HIDE DEF n
      <4> QED
        BY <4>5, <4>6, <4>7, <4>8
    <3>2. Slot(n) = n % Size
      BY <2>3, <3>1, Numbers
    <3>3. audio[n % Size] = n + 1
      BY <3>1 DEF Filled
    <3> QED
      BY <3>2, <3>3 DEF x
  <2>9. Intact'
    <3> SUFFICES ASSUME ~stopped, NEW i \in 1..Len(samples) + 1
                 PROVE  samples'[i] = write - FftSize + i
      BY <2>1, <2>5 DEF Intact
    <3>1. CASE i \in 1..Len(samples)
      BY <2>1, <2>5, <3>1 DEF Intact
    <3>2. CASE i = Len(samples) + 1
      BY <2>2, <2>5, <2>8, <3>2, Numbers
    <3> QED
      BY <2>2, <3>1, <3>2
  <2>10. Clear'
    BY <1>0, <2>1 DEF Clear
  <2> QED
    BY <1>0, <2>1, <2>6, <2>7, <2>9, <2>10 DEF Bounded, Filled, Written
<1>4. CASE StoreRead
  <2>1. /\ fft = "store" /\ fft' = "publish" /\ audio_read' = write
        /\ UNCHANGED <<write, samples, latest_frame, latest_sequence, stopped, old>>
    BY <1>4 DEF StoreRead, frameVars, ghosts
  <2>2. RingTypeOK'
    BY <1>0, <2>1 DEF RingTypeOK, FftSteps
  <2> QED
    BY <1>0, <2>1, <2>2 DEF Bounded, Filled, Written, Clear, Progress, Intact
<1>5. CASE PublishFrame
  <2>1. /\ fft = "publish" /\ fft' = "load"
        /\ latest_frame' = samples /\ latest_sequence' = latest_sequence + 1
        /\ old' = IF HasOld(samples) THEN old + 1 ELSE old
        /\ UNCHANGED <<audio_read, write, samples, stopped>>
    BY <1>5 DEF PublishFrame
  <2>2. Len(latest_frame') = FftSize
    BY <2>1 DEF Progress
  <2>3. RingTypeOK'
    BY <1>0, <2>1, <2>2 DEF RingTypeOK, FftSteps
  <2> QED
    BY <1>0, <2>1, <2>3 DEF Bounded, Filled, Written, Clear, Progress, Intact
<1> QED
  BY <1>1, <1>2, <1>3, <1>4, <1>5 DEF fft_loop

------------------------------------------------------------------------------
(* The dashboard.                                                          *)

\* Whatever the dashboard does, the ring makes a step of its own or none.
LEMMA RingStep ==
    ASSUME DashboardNext
    PROVE  \/ \E count \in Bursts : push_audio(count)
           \/ WriteSample \/ EndPush
           \/ StartSession \/ FinishStart \/ StopSession
           \/ fft_loop
           \/ UNCHANGED ringVars
BY DEF DashboardNext, Decoder, Fft, BeginSession, FinishStartAndClear, ReceiveBurst,
       push_modem_audio, Arrive, Leave, SendFrame, SendPing, Acknowledge

\* A step that leaves the ring alone keeps what holds of it.
LEMMA RingStutters == RingInvariant /\ UNCHANGED ringVars => RingInvariant'
BY DEF RingInvariant, ringVars, decoderVars, fftVars, frameVars, ghosts, RingTypeOK,
       Bounded, Filled, Written, Clear, Progress, Intact

\* The ring is sound in every reachable state of the dashboard.
THEOREM RingCorrect == DashboardSpec => []RingInvariant
<1>1. DashboardInit => RingInvariant
  BY InitRing DEF DashboardInit
<1>2. RingInvariant /\ [DashboardNext]_allVars => RingInvariant'
  <2> SUFFICES ASSUME RingInvariant, [DashboardNext]_allVars PROVE RingInvariant'
    OBVIOUS
  <2>1. CASE DashboardNext
    BY <2>1, RingStep, RingStutters, PushKeeps, WriteKeeps, EndPushKeeps, SessionKeeps,
       FftKeeps
  <2>2. CASE UNCHANGED allVars
    BY <2>2, RingStutters DEF allVars
  <2> QED
    BY <2>1, <2>2
<1> QED
  BY <1>1, <1>2, PTL DEF DashboardSpec

\* A window is torn only by a session that stopped while it was taken: the
\* decoder thread never overwrites what the FFT thread copies, although no
\* lock keeps the two apart.
THEOREM TornOnlyByStopCorrect == DashboardSpec => []TornOnlyByStop
<1>1. RingInvariant => TornOnlyByStop
  <2> SUFFICES ASSUME RingInvariant, fft \in {"copy", "store"}, ~stopped
               PROVE  samples = [n \in 1..Len(samples) |-> write - FftSize + n]
    BY DEF TornOnlyByStop
  <2>1. samples \in Seq(0..MaxSamples)
    BY DEF RingInvariant, RingTypeOK, Window
  <2>2. \A n \in 1..Len(samples) : samples[n] = write - FftSize + n
    BY DEF RingInvariant, Intact
  <2>3. samples = [n \in 1..Len(samples) |-> samples[n]]
    BY <2>1
  <2> QED
    BY <2>2, <2>3
<1> QED
  BY <1>1, RingCorrect, PTL

------------------------------------------------------------------------------
(* Frames with earlier audio.                                              *)

\* A slot behind what is written holds its sample or one that came after it.
NotOlder == \A n \in Nat : n < Written => audio[n % Size] >= n + 1

\* After one such frame no session has stopped under the window, which ends
\* behind the boundary; after two the window begins there.
OldKnown ==
    /\ boundary <= audio_write
    /\ old \in 0..2
    /\ old >= 1 /\ fft # "load" => ~stopped /\ boundary <= write
    /\ old >= 1 /\ fft = "publish" => boundary <= audio_read
    /\ old = 2 => boundary <= audio_read
    /\ old = 2 /\ fft \in {"copy", "store", "publish"} =>
           /\ boundary + FftSize <= write
           /\ \A i \in 1..Len(samples) : samples[i] > boundary

OldInvariant == NotOlder /\ OldKnown

\* Only a write changes a slot, and it writes the newest sample.
LEMMA NotOlderKept ==
    ASSUME RingInvariant, NotOlder, DashboardNext
    PROVE  NotOlder'
<1>1. /\ audio_write \in Nat /\ pushing.size \in Nat /\ pushing.done \in Nat
      /\ Size \in Nat \ {0} /\ Written \in Nat
      /\ audio \in [0..Size - 1 -> 0..MaxSamples]
  <2>1. RingTypeOK
    BY DEF RingInvariant
  <2>2. /\ audio_write \in Nat /\ pushing.size \in Nat /\ pushing.done \in Nat
        /\ Size \in Nat \ {0}
    BY <2>1, Numbers
  <2>3. Written \in Nat
    BY <2>2 DEF Written
  <2>4. audio \in [0..Size - 1 -> 0..MaxSamples]
    BY <2>1, Zenon DEF RingTypeOK
  <2> QED
    BY <2>2, <2>3, <2>4
<1>2. CASE WriteSample
  <2> DEFINE n == audio_write + pushing.done
  <2>1. /\ pushing.done < pushing.size
        /\ audio' = [audio EXCEPT ![Slot(n)] = n + 1]
        /\ pushing' = [pushing EXCEPT !.done = @ + 1]
        /\ audio_write' = audio_write
    BY <1>2, Zenon DEF WriteSample
  <2>2. RingTypeOK /\ Bounded
    BY DEF RingInvariant
  <2>3. n \in 0..MaxSamples
    <3>1. /\ audio_write + spectrum_drops + pushing.size <= MaxSamples
          /\ spectrum_drops \in Nat /\ MaxSamples \in Nat
      BY <2>2, Numbers DEF Bounded
    <3>2. pushing.done < pushing.size
      BY <2>1
    <3> QED
      BY <1>1, <3>1, <3>2
  <2>4. Slot(n) = n % Size /\ Slot(n) \in 0..Size - 1
    BY <2>2, <2>3, SlotOfSample
  <2>5. Written' = n + 1
    <3>1. pushing = [size |-> pushing.size, done |-> pushing.done]
      BY <2>2 DEF RingTypeOK
    <3>2. pushing'.done = pushing.done + 1
      BY <2>1, <3>1
    <3> QED
      BY <1>1, <2>1, <3>2 DEF Written
  <2> HIDE DEF n
  <2> SUFFICES ASSUME NEW m \in Nat, m < n + 1
               PROVE  audio'[m % Size] >= m + 1
    BY <2>5 DEF NotOlder
  <2>6. m % Size \in 0..Size - 1
    BY <1>1, Division
  <2>7. CASE m % Size = n % Size
    BY <1>1, <2>1, <2>3, <2>4, <2>6, <2>7
  <2>8. CASE m % Size # n % Size
    <3>1. m < n
      BY <2>3, <2>8
    <3>2. audio[m % Size] >= m + 1
      BY <3>1 DEF NotOlder, Written, n
    <3> QED
      BY <1>1, <2>1, <2>4, <2>6, <2>8, <3>2
  <2> QED
    BY <2>7, <2>8
<1>3. CASE EndPush
  <2>1. /\ pushing.done = pushing.size /\ audio' = audio
        /\ audio_write' = audio_write + pushing.size
        /\ pushing' = [size |-> 0, done |-> 0]
    BY <1>3 DEF EndPush, Idle
  <2>2. Written' = Written
    BY <1>1, <2>1 DEF Written
  <2> QED
    BY <2>1, <2>2 DEF NotOlder
<1>4. ASSUME NEW count \in Bursts, push_audio(count) PROVE NotOlder'
  <2>1. /\ pushing = [size |-> 0, done |-> 0]
        /\ pushing' = pushing \/ pushing' = [size |-> count, done |-> 0]
        /\ audio' = audio /\ audio_write' = audio_write
    BY <1>4 DEF push_audio, DecoderFree, Idle
  <2>2. pushing'.done = pushing.done
    BY <2>1
  <2> QED
    BY <2>1, <2>2 DEF NotOlder, Written
<1>5. ASSUME UNCHANGED <<audio, audio_write, pushing>> PROVE NotOlder'
  BY <1>5 DEF NotOlder, Written
<1>6. \/ WriteSample \/ EndPush \/ \E count \in Bursts : push_audio(count)
      \/ UNCHANGED <<audio, audio_write, pushing>>
  <2>1. StartSession \/ FinishStart \/ StopSession
            => UNCHANGED <<audio, audio_write, pushing>>
    BY DEF StartSession, FinishStart, StopSession, decoderVars
  <2>2. fft_loop => UNCHANGED <<audio, audio_write, pushing>>
    BY DEF fft_loop, LoadWrite, LoadRead, CopySample, StoreRead, PublishFrame,
           decoderVars
  <2>3. UNCHANGED ringVars => UNCHANGED <<audio, audio_write, pushing>>
    BY DEF ringVars, decoderVars
  <2> QED
    BY <2>1, <2>2, <2>3, RingStep
<1> QED
  BY <1>2, <1>3, <1>4, <1>5, <1>6

\* What OldKnown says of the numbers.
LEMMA OldNumbers ==
    ASSUME RingInvariant
    PROVE  /\ audio_write \in Nat /\ audio_read \in Nat /\ write \in Nat
           /\ boundary \in Nat /\ FftSize \in Nat \ {0}
           /\ audio_read <= audio_write /\ write <= audio_write
           /\ Len(samples) \in Nat
<1>1. RingTypeOK /\ Bounded
  BY DEF RingInvariant
<1>2. boundary \in Nat
  BY <1>1, Numbers DEF RingTypeOK
<1> QED
  BY <1>1, <1>2, Numbers DEF Bounded

\* The decoder thread's part: a start or a stop begins the count anew.
LEMMA OldKeptByDecoder ==
    ASSUME RingInvariant, OldKnown,
           \/ \E count \in Bursts : push_audio(count)
           \/ WriteSample \/ EndPush
           \/ StartSession \/ FinishStart \/ StopSession
    PROVE  OldKnown'
<1>1. CASE StartSession \/ StopSession
  <2>1. boundary' = audio_write /\ old' = 0 /\ audio_write' = audio_write
    BY <1>1 DEF StartSession, StopSession, Changes
  <2> QED
    BY <2>1, OldNumbers DEF OldKnown
<1>2. CASE EndPush
  <2>1. /\ audio_write' = audio_write + pushing.size
        /\ UNCHANGED <<audio_read, fft, write, samples, boundary, stopped, old>>
    BY <1>2 DEF EndPush, fftVars, ghosts
  <2>2. pushing.size \in Nat
    BY Numbers DEF RingInvariant
  <2>3. boundary <= audio_write'
    BY <2>1, <2>2, OldNumbers DEF OldKnown
  <2> QED
    BY <2>1, <2>3 DEF OldKnown
<1>3. CASE WriteSample \/ FinishStart \/ \E count \in Bursts : push_audio(count)
  <2>1. UNCHANGED <<audio_write, audio_read, fft, write, samples, boundary, stopped,
                    old>>
    BY <1>3 DEF WriteSample, FinishStart, push_audio, fftVars, ghosts
  <2> QED
    BY <2>1 DEF OldKnown
<1> QED
  BY <1>1, <1>2, <1>3

\* The FFT thread's part: it looks at the read position behind the boundary, at
\* the latest when it has published such a frame.
LEMMA OldKeptByFft ==
    ASSUME RingInvariant, OldInvariant, fft_loop
    PROVE  OldKnown'
<1> USE DEF OldInvariant
<1>0. UNCHANGED <<audio, audio_write, boundary>>
  BY DEF fft_loop, LoadWrite, LoadRead, CopySample, StoreRead, PublishFrame, ghosts
<1>1. CASE LoadWrite
  <2>1. /\ fft' = "check" /\ write' = audio_write /\ stopped' = FALSE
        /\ UNCHANGED <<audio_read, samples, old>>
    BY <1>1 DEF LoadWrite
  <2> QED
    BY <1>0, <2>1 DEF OldKnown
<1>2. CASE LoadRead
  <2>1. /\ fft = "check" /\ samples' = <<>>
        /\ fft' = IF EnoughUnread THEN "copy" ELSE "load"
        /\ UNCHANGED <<audio_read, write, stopped, old>>
    BY <1>2 DEF LoadRead, ghosts
  <2>2. Len(samples') = 0
    BY <2>1
  <2>3. ASSUME old = 2, EnoughUnread PROVE boundary + FftSize <= write
    <3>1. ~stopped /\ boundary <= audio_read
      BY <2>1, <2>3 DEF OldKnown
    <3>2. RingInvariant'
      BY FftKeeps
    <3>3. fft' = "copy" /\ stopped' = stopped /\ audio_read' = audio_read
          /\ write' = write
      BY <2>1, <2>3
    <3>4. audio_read + FftSize <= write
      BY <3>1, <3>2, <3>3 DEF RingInvariant, Clear
    <3> QED
      BY <3>1, <3>4, OldNumbers
  <2> QED
    BY <1>0, <2>1, <2>2, <2>3 DEF OldKnown
<1>3. CASE CopySample
  <2> DEFINE n == write - FftSize + Len(samples)
             x == audio[Slot(n)]
  <2>1. /\ fft = "copy" /\ samples' = Append(samples, x)
        /\ fft' = IF Len(samples') = FftSize THEN "store" ELSE "copy"
        /\ UNCHANGED <<audio_read, write, stopped, old>>
    BY <1>3 DEF CopySample, ghosts
  <2>2. ASSUME old = 2 PROVE x > boundary
    <3>1. boundary + FftSize <= write /\ write <= audio_write
      BY <2>1, <2>2, OldNumbers DEF OldKnown
    <3>2. Len(samples) < FftSize
      BY <2>1 DEF RingInvariant, Progress
    <3>3. n \in Nat /\ n >= boundary /\ n < write
      BY <3>1, <3>2, OldNumbers
    <3>4. pushing.done \in Nat /\ write <= MaxSamples /\ MaxSamples \in Nat
      BY Numbers DEF RingInvariant, RingTypeOK
    <3> HIDE DEF n
    <3>5. n < Written /\ n \in 0..MaxSamples
      <4>1. n < audio_write + pushing.done
        BY <3>1, <3>3, <3>4, OldNumbers
      <4>2. n <= MaxSamples
        BY <3>3, <3>4, OldNumbers
      <4> QED
        BY <3>3, <3>4, <4>1, <4>2 DEF Written
    <3>6. Slot(n) = n % Size /\ Slot(n) \in 0..Size - 1
      BY <3>5, SlotOfSample DEF RingInvariant
    <3>7. audio[n % Size] >= n + 1
      BY <3>3, <3>5 DEF NotOlder
    <3>8. x \in Nat
      BY <3>4, <3>6 DEF RingInvariant, RingTypeOK
    <3>9. x = audio[n % Size]
      BY <3>6
    <3> HIDE DEF x
    <3> QED
      BY <3>3, <3>7, <3>8, <3>9, OldNumbers
  <2>3. samples \in Seq(0..MaxSamples) /\ x \in 0..MaxSamples
    <3>1. n \in Int /\ RingTypeOK
      BY OldNumbers DEF RingInvariant
    <3>2. Slot(n) \in 0..Size - 1
      BY <3>1, SlotOfSample
    <3> QED
      BY <3>1, <3>2 DEF RingTypeOK, Window
  <2> HIDE DEF x
  <2>4. /\ Len(samples') = Len(samples) + 1
        /\ \A i \in 1..Len(samples) : samples'[i] = samples[i]
        /\ samples'[Len(samples) + 1] = x
    BY <2>1, <2>3
  <2>5. ASSUME old = 2, NEW i \in 1..Len(samples') PROVE samples'[i] > boundary
    <3>1. i \in 1..Len(samples) \/ i = Len(samples) + 1
      BY <2>4, <2>5, OldNumbers
    <3> QED
      BY <2>1, <2>2, <2>4, <2>5, <3>1 DEF OldKnown
  <2>6. fft' \in {"copy", "store"}
    BY <2>1
  <2> QED
    BY <1>0, <2>1, <2>5, <2>6 DEF OldKnown
<1>4. CASE StoreRead
  <2>1. /\ fft = "store" /\ fft' = "publish" /\ audio_read' = write
        /\ UNCHANGED <<write, samples, stopped, old>>
    BY <1>4 DEF StoreRead, ghosts
  <2> QED
    BY <1>0, <2>1 DEF OldKnown
<1>5. CASE PublishFrame
  <2>1. /\ fft = "publish" /\ fft' = "load"
        /\ old' = IF HasOld(samples) THEN old + 1 ELSE old
        /\ UNCHANGED <<audio_read, write, samples, stopped>>
    BY <1>5 DEF PublishFrame
  <2>2. old = 2 => ~HasOld(samples)
    <3> SUFFICES ASSUME old = 2, NEW i \in DOMAIN samples, samples[i] <= boundary
                 PROVE  FALSE
      BY DEF HasOld
    <3>1. samples \in Seq(0..MaxSamples) /\ MaxSamples \in Nat
      BY Numbers DEF RingInvariant
    <3>2. i \in 1..Len(samples) /\ samples[i] \in Nat
      BY <3>1
    <3>3. samples[i] > boundary
      BY <2>1, <3>2 DEF OldKnown
    <3> QED
      BY <3>2, <3>3, OldNumbers
  <2>3. old' \in 0..2 /\ (old' = 2 => old \in {1, 2})
    BY <2>1, <2>2 DEF OldKnown
  <2>4. old' = 2 => boundary <= audio_read
    BY <2>1, <2>3 DEF OldKnown
  <2> QED
    BY <1>0, <2>1, <2>3, <2>4 DEF OldKnown
<1> QED
  BY <1>1, <1>2, <1>3, <1>4, <1>5 DEF fft_loop

\* A step that leaves the ring alone keeps what is known of old frames.
LEMMA OldStutters == OldInvariant /\ UNCHANGED ringVars => OldInvariant'
BY DEF OldInvariant, OldKnown, NotOlder, Written, ringVars, decoderVars, fftVars, ghosts

\* Where the FFT thread is when a session has seen one or two frames with
\* earlier audio, in every reachable state.
THEOREM OldCorrect == DashboardSpec => []OldInvariant
<1>1. DashboardInit => OldInvariant
  <2> SUFFICES ASSUME DashboardInit PROVE OldInvariant
    OBVIOUS
  <2>1. /\ audio_write = 0 /\ boundary = 0 /\ old = 0 /\ fft = "load"
        /\ pushing = [size |-> 0, done |-> 0]
    BY DEF DashboardInit, RingInit, Idle
  <2>2. Written = 0
    BY <2>1 DEF Written
  <2> QED
    BY <2>1, <2>2 DEF OldInvariant, OldKnown, NotOlder
<1>2. RingInvariant /\ OldInvariant /\ [DashboardNext]_allVars => OldInvariant'
  <2> SUFFICES ASSUME RingInvariant, OldInvariant, [DashboardNext]_allVars
               PROVE  OldInvariant'
    OBVIOUS
  <2>1. CASE UNCHANGED ringVars
    BY <2>1, OldStutters
  <2>2. CASE DashboardNext /\ ~UNCHANGED ringVars
    <3>1. NotOlder'
      BY <2>2, NotOlderKept DEF OldInvariant
    <3>2. OldKnown'
      BY <2>2, RingStep, OldKeptByDecoder, OldKeptByFft DEF OldInvariant
    <3> QED
      BY <3>1, <3>2 DEF OldInvariant
  <2> QED
    BY <2>1, <2>2 DEF allVars
<1> QED
  BY <1>1, <1>2, RingCorrect, PTL DEF DashboardSpec

\* However starts and stops meet the FFT thread, also when a stop moves the
\* read position that the FFT thread then sets back, a session shows at most
\* two frames with audio from before it.
THEOREM OldFramesAreFewCorrect == DashboardSpec => []OldFramesAreFew
<1>1. OldInvariant => OldFramesAreFew
  BY DEF OldInvariant, OldKnown, OldFramesAreFew
<1> QED
  BY <1>1, OldCorrect, PTL

------------------------------------------------------------------------------
(* The viewers.                                                            *)

Present == {v \in Viewers : place[v] # "away"}

\* What the viewers know: each is somewhere, those counted are finitely many,
\* and none got a frame that was not published.
ViewersKnown ==
    /\ place \in [Viewers -> {"away", "refused", "streaming", "answering"}]
    /\ sent \in [Viewers -> Nat]
    /\ \A v \in Viewers : sent[v] <= latest_sequence
    /\ IsFiniteSet(Present)
    /\ SeatsCounted

\* Frames are numbered upwards, also across sessions.
LEMMA SequenceGrows ==
    ASSUME RingInvariant, DashboardNext
    PROVE  latest_sequence' \in Nat /\ latest_sequence <= latest_sequence'
<1>1. latest_sequence \in Nat
  BY DEF RingInvariant, RingTypeOK
<1>2. latest_sequence' = latest_sequence \/ latest_sequence' = latest_sequence + 1
  BY RingStep
     DEF push_audio, WriteSample, EndPush, StartSession, ClearFrame, FinishStart,
         StopSession, fft_loop, LoadWrite, LoadRead, CopySample, StoreRead,
         PublishFrame, ringVars, frameVars
<1> QED
  BY <1>1, <1>2

\* One more viewer, or one less, is one in the count.
LEMMA PresentChanges ==
    ASSUME ViewersKnown, NEW v \in Viewers, NEW to,
           place' = [place EXCEPT ![v] = to]
    PROVE  /\ Present' = IF to = "away" THEN Present \ {v} ELSE Present \cup {v}
           /\ IsFiniteSet(Present')
           /\ Cardinality(Present) \in Nat
           /\ Cardinality(Present')
                = CASE place[v] = "away" /\ to # "away" -> Cardinality(Present) + 1
                    [] place[v] # "away" /\ to = "away" -> Cardinality(Present) - 1
                    [] OTHER -> Cardinality(Present)
<1>1. Present' = IF to = "away" THEN Present \ {v} ELSE Present \cup {v}
  BY DEF Present, ViewersKnown
<1>2. v \in Present <=> place[v] # "away"
  BY DEF Present
<1>3. IsFiniteSet(Present)
  BY DEF ViewersKnown
<1>4. /\ IsFiniteSet(Present \cup {v}) /\ IsFiniteSet(Present \ {v})
      /\ Cardinality(Present \cup {v})
           = IF v \in Present THEN Cardinality(Present) ELSE Cardinality(Present) + 1
      /\ Cardinality(Present \ {v})
           = IF v \in Present THEN Cardinality(Present) - 1 ELSE Cardinality(Present)
  BY <1>3, FS_AddElement, FS_RemoveElement
<1>5. Cardinality(Present) \in Nat
  BY <1>3, FS_CardinalityType
<1> QED
  BY <1>1, <1>2, <1>3, <1>4, <1>5

\* Nobody is inside who is not counted.
LEMMA InsideIsPresent ==
    ASSUME IsFiniteSet(Present)
    PROVE  /\ IsFiniteSet(Inside)
           /\ Cardinality(Inside) \in Nat /\ Cardinality(Present) \in Nat
           /\ Cardinality(Inside) <= Cardinality(Present)
<1>1. Inside \subseteq Present
  BY DEF Inside, Present
<1> QED
  BY <1>1, FS_Subset, FS_CardinalityType

\* A step of one viewer.
LEMMA ViewerKeeps ==
    ASSUME RingInvariant, ViewersKnown, NEW v \in Viewers,
           Arrive(v) \/ Leave(v) \/ SendFrame(v) \/ SendPing(v) \/ Acknowledge(v)
    PROVE  ViewersKnown'
<1>0. /\ latest_sequence' = latest_sequence /\ latest_sequence \in Nat
      /\ place \in [Viewers -> {"away", "refused", "streaming", "answering"}]
      /\ sent \in [Viewers -> Nat]
      /\ \A u \in Viewers : sent[u] <= latest_sequence
      /\ public_clients = Cardinality(Present)
      /\ Cardinality(Inside) <= MaxClients
      /\ MaxClients \in Nat
  BY DashboardAssumption
     DEF Arrive, Leave, SendFrame, SendPing, Acknowledge, ringVars, frameVars,
         RingInvariant, RingTypeOK, ViewersKnown, SeatsCounted, Present
<1>1. IsFiniteSet(Present)
  BY DEF ViewersKnown
<1>2. CASE Arrive(v)
  <2> DEFINE to == IF MayEnter(public_clients) THEN "streaming" ELSE "refused"
  <2>1. /\ place[v] = "away" /\ place' = [place EXCEPT ![v] = to]
        /\ public_clients' = public_clients + 1
        /\ sent' = [sent EXCEPT ![v] = 0]
    BY <1>2 DEF Arrive
  <2>2. /\ IsFiniteSet(Present') /\ Cardinality(Present) \in Nat
        /\ Cardinality(Present') = Cardinality(Present) + 1
    <3>1. to # "away"
      OBVIOUS
    <3> HIDE DEF to
    <3> QED
      BY <2>1, <3>1, PresentChanges
  <2>3. Cardinality(Inside') <= MaxClients
    <3>1. CASE MayEnter(public_clients)
      <4>1. public_clients < MaxClients
        BY <3>1 DEF MayEnter
      <4>2. Inside' \subseteq Present'
        BY DEF Inside, Present
      <4>3. /\ Cardinality(Inside') <= Cardinality(Present')
            /\ Cardinality(Inside') \in Nat
        BY <2>2, <4>2, FS_Subset, FS_CardinalityType
      <4> QED
        BY <1>0, <2>2, <4>1, <4>3
    <3>2. CASE ~MayEnter(public_clients)
      <4>1. Inside' = Inside
        BY <1>0, <2>1, <3>2 DEF Inside
      <4> QED
        BY <1>0, <4>1
    <3> QED
      BY <3>1, <3>2
  <2>4. public_clients' = Cardinality(Present')
    BY <1>0, <2>1, <2>2
  <2>5. /\ place' \in [Viewers -> {"away", "refused", "streaming", "answering"}]
        /\ sent' \in [Viewers -> Nat]
        /\ \A u \in Viewers : sent'[u] <= latest_sequence'
    BY <1>0, <2>1
  <2> QED
    BY <2>2, <2>3, <2>4, <2>5 DEF ViewersKnown, SeatsCounted, Present
<1>3. CASE Leave(v)
  <2>1. /\ place[v] # "away" /\ place' = [place EXCEPT ![v] = "away"]
        /\ public_clients' = public_clients - 1 /\ sent' = sent
    BY <1>3 DEF Leave, CountedOut
  <2>2. /\ IsFiniteSet(Present')
        /\ Cardinality(Present') = Cardinality(Present) - 1
    BY <2>1, PresentChanges
  <2>3. Inside' \subseteq Inside
    BY <1>0, <2>1 DEF Inside
  <2>4. /\ Cardinality(Inside') \in Nat /\ Cardinality(Inside) \in Nat
        /\ Cardinality(Inside') <= Cardinality(Inside)
    BY <1>1, <2>3, InsideIsPresent, FS_Subset, FS_CardinalityType
  <2>5. Cardinality(Inside') <= MaxClients
    BY <1>0, <2>4
  <2>6. place' \in [Viewers -> {"away", "refused", "streaming", "answering"}]
    BY <1>0, <2>1
  <2> QED
    BY <1>0, <2>1, <2>2, <2>5, <2>6 DEF ViewersKnown, SeatsCounted, Present
<1>4. CASE SendFrame(v) \/ SendPing(v) \/ Acknowledge(v)
  <2> DEFINE to == IF place[v] = "streaming" THEN "answering" ELSE "streaming"
  <2>1. /\ place[v] \in {"streaming", "answering"}
        /\ place' = [place EXCEPT ![v] = to]
        /\ public_clients' = public_clients
        /\ sent' = sent \/ sent' = [sent EXCEPT ![v] = latest_sequence]
    BY <1>4 DEF SendFrame, SendPing, Acknowledge
  <2>2. /\ IsFiniteSet(Present')
        /\ Cardinality(Present') = Cardinality(Present)
    <3>1. to # "away" /\ place[v] # "away"
      BY <2>1
    <3> HIDE DEF to
    <3> QED
      BY <2>1, <3>1, PresentChanges
  <2>3. Inside' = Inside
    BY <1>0, <2>1 DEF Inside
  <2>4. /\ place' \in [Viewers -> {"away", "refused", "streaming", "answering"}]
        /\ sent' \in [Viewers -> Nat]
        /\ \A u \in Viewers : sent'[u] <= latest_sequence'
    BY <1>0, <2>1
  <2> QED
    BY <1>0, <2>1, <2>2, <2>3, <2>4 DEF ViewersKnown, SeatsCounted, Present
<1> QED
  BY <1>2, <1>3, <1>4

\* A step that leaves the viewers alone.
LEMMA ViewersStutter ==
    ASSUME RingInvariant, ViewersKnown, UNCHANGED viewerVars,
           latest_sequence' \in Nat, latest_sequence <= latest_sequence'
    PROVE  ViewersKnown'
<1>1. latest_sequence \in Nat /\ sent \in [Viewers -> Nat]
  BY DEF RingInvariant, RingTypeOK, ViewersKnown
<1>2. \A v \in Viewers : sent'[v] <= latest_sequence'
  BY <1>1 DEF ViewersKnown, viewerVars
<1>3. Present' = Present /\ Inside' = Inside
  BY DEF Present, Inside, viewerVars
<1> QED
  BY <1>2, <1>3 DEF ViewersKnown, SeatsCounted, viewerVars, Present

\* Who steps.
LEMMA ViewersStep ==
    ASSUME DashboardNext
    PROVE  \/ UNCHANGED viewerVars
           \/ \E v \in Viewers :
                 Arrive(v) \/ Leave(v) \/ SendFrame(v) \/ SendPing(v) \/ Acknowledge(v)
BY DEF DashboardNext, Decoder, Fft, BeginSession, FinishStartAndClear, ReceiveBurst,
       push_modem_audio

\* What the viewers know holds in every reachable state.
THEOREM ViewersCorrect == DashboardSpec => []ViewersKnown
<1>1. DashboardInit => ViewersKnown
  <2> SUFFICES ASSUME DashboardInit PROVE ViewersKnown
    OBVIOUS
  <2>1. Present = {} /\ Inside = {}
    BY DEF DashboardInit, Present, Inside
  <2>2. IsFiniteSet({}) /\ Cardinality({}) = 0
    BY FS_EmptySet
  <2>3. Present = {v \in Viewers : place[v] # "away"}
    BY DEF Present
  <2>4. SeatsCounted
    <3>1. Cardinality({v \in Viewers : place[v] # "away"}) = 0
      BY <2>1, <2>2, <2>3
    <3>2. Cardinality(Inside) = 0 /\ public_clients = 0 /\ 0 <= MaxClients
      BY <2>1, <2>2, DashboardAssumption DEF DashboardInit
    <3> QED
      BY <3>1, <3>2 DEF SeatsCounted
  <2>5. IsFiniteSet(Present)
    BY <2>1, <2>2
  <2> QED
    BY <2>4, <2>5 DEF DashboardInit, RingInit, ViewersKnown
<1>2. RingInvariant /\ ViewersKnown /\ [DashboardNext]_allVars => ViewersKnown'
  <2> SUFFICES ASSUME RingInvariant, ViewersKnown, [DashboardNext]_allVars
               PROVE  ViewersKnown'
    OBVIOUS
  <2>1. CASE DashboardNext
    BY <2>1, ViewersStep, ViewerKeeps, ViewersStutter, SequenceGrows
  <2>2. CASE UNCHANGED allVars
    <3>1. /\ UNCHANGED viewerVars /\ latest_sequence' = latest_sequence
          /\ latest_sequence \in Nat
      BY <2>2 DEF allVars, ringVars, frameVars, RingInvariant, RingTypeOK
    <3> QED
      BY <3>1, ViewersStutter
  <2> QED
    BY <2>1, <2>2
<1> QED
  BY <1>1, <1>2, RingCorrect, PTL DEF DashboardSpec

\* The counter is the number of viewers inside or about to be refused, for any
\* number of them and any limit, and the limit holds.
THEOREM SeatsCountedCorrect == DashboardSpec => []SeatsCounted
<1>1. ViewersKnown => SeatsCounted
  BY DEF ViewersKnown
<1> QED
  BY <1>1, ViewersCorrect, PTL

\* A viewer that stays never gets a frame again or an older one.
THEOREM NewFramesOnlyCorrect == DashboardSpec => NewFramesOnly
<1> DEFINE Newer == \A v \in Viewers :
               place[v] # "away" /\ sent'[v] # sent[v] => sent'[v] > sent[v]
<1>1. ViewersKnown /\ RingInvariant /\ [DashboardNext]_allVars => [Newer]_allVars
  <2> SUFFICES ASSUME ViewersKnown, RingInvariant, DashboardNext, NEW v \in Viewers,
                      place[v] # "away", sent'[v] # sent[v]
               PROVE  sent'[v] > sent[v]
    OBVIOUS
  <2>1. /\ sent \in [Viewers -> Nat] /\ sent[v] <= latest_sequence
        /\ latest_sequence \in Nat
    BY DEF ViewersKnown, RingInvariant, RingTypeOK
  <2>2. PICK u \in Viewers :
            Arrive(u) \/ Leave(u) \/ SendFrame(u) \/ SendPing(u) \/ Acknowledge(u)
    BY ViewersStep DEF viewerVars
  <2>3. sent'[v] = latest_sequence
    BY <2>1, <2>2 DEF Arrive, Leave, SendFrame, SendPing, Acknowledge
  <2> QED
    BY <2>1, <2>3
<1>2. ViewersKnown /\ RingInvariant /\ [DashboardNext]_allVars
        => [\A v \in Viewers :
               place[v] # "away" /\ sent'[v] # sent[v] => sent'[v] > sent[v]]_allVars
  BY <1>1
<1> QED
  BY <1>2, ViewersCorrect, RingCorrect, PTL DEF DashboardSpec, NewFramesOnly

------------------------------------------------------------------------------
(* The capture.                                                            *)

\* The newest CaptureSize samples of the session are in their slots.
Kept ==
    \A k \in Nat : k < capture_write /\ capture_write <= k + CaptureSize =>
        capture[1 + (k % CaptureSize)] = since + k + 1

CaptureKnown ==
    /\ captured \in Nat /\ since \in Nat /\ capture_write \in Nat
    /\ modem \in {0} \cup Bursts
    /\ starting => modem = 0 /\ since = captured
    /\ capture = <<>> \/ capture = [n \in 1..CaptureSize |-> capture[n]]
    /\ capture = <<>> => capture_write = 0
    /\ ~starting => captured = since + capture_write /\ Kept

\* A burst overwrites exactly the oldest samples, also one longer than the ring.
LEMMA CaptureBurst ==
    ASSUME CaptureKnown, push_modem_audio
    PROVE  CaptureKnown'
<1> DEFINE ring == IF capture = <<>> THEN [n \in 1..CaptureSize |-> 0] ELSE capture
           Lands(n) == {k \in 0..modem - 1 :
                           1 + ((capture_write + k) % CaptureSize) = n}
           Last(n) == CHOOSE k \in Lands(n) : \A j \in Lands(n) : j <= k
<1>1. /\ captured \in Nat /\ since \in Nat /\ capture_write \in Nat
      /\ modem \in Nat \ {0} /\ CaptureSize \in Nat \ {0}
      /\ ~starting /\ starting' = starting
      /\ captured = since + capture_write /\ Kept
      /\ capture = <<>> => capture_write = 0
  BY RingAssumption, DashboardAssumption
     DEF CaptureKnown, push_modem_audio, DecoderFree, ringVars, decoderVars
<1>2. /\ capture' = [n \in 1..CaptureSize |->
                        IF Lands(n) = {} THEN ring[n] ELSE captured + 1 + Last(n)]
      /\ capture_write' = capture_write + modem
      /\ captured' = captured + modem /\ modem' = 0 /\ since' = since
  BY DEF push_modem_audio
<1>4. ASSUME NEW n, NEW j \in Lands(n), \A i \in Lands(n) : i <= j
      PROVE  Last(n) = j
  <2>1. Last(n) \in Lands(n) /\ \A i \in Lands(n) : i <= Last(n)
    BY <1>4
  <2>2. Last(n) <= j /\ j <= Last(n) /\ Last(n) \in Int /\ j \in Int
    BY <1>4, <2>1
  <2> HIDE DEF Last
  <2> QED
    BY <2>2
<1>5. ASSUME NEW k \in Nat, k < capture_write + modem,
             capture_write + modem <= k + CaptureSize
      PROVE  capture'[1 + (k % CaptureSize)] = since + k + 1
  <2> DEFINE n == 1 + (k % CaptureSize)
  <2>1. n \in 1..CaptureSize
    BY <1>1, Division
  <2>2. ASSUME NEW i \in 0..modem - 1, capture_write + i # k,
               k < capture_write + i
        PROVE  i \notin Lands(n)
    <3>1. capture_write + i \in Nat /\ capture_write + i < k + CaptureSize
      BY <1>1, <1>5, <2>2
    <3>2. k % CaptureSize # (capture_write + i) % CaptureSize
      BY <1>1, <2>2, <3>1, SlotsDiffer
    <3>3. k % CaptureSize \in Int /\ (capture_write + i) % CaptureSize \in Int
      BY <1>1, <3>1, Division
    <3> QED
      BY <3>2, <3>3
  <2>3. CASE k >= capture_write
    <3> DEFINE j == k - capture_write
    <3>1. j \in 0..modem - 1 /\ capture_write + j = k
      BY <1>1, <1>5, <2>3
    <3>2. j \in Lands(n)
      BY <3>1
    <3>3. ASSUME NEW i \in Lands(n) PROVE i <= j
      <4>1. i \in 0..modem - 1
        BY <3>3
      <4> SUFFICES ASSUME i > j PROVE FALSE
        BY <3>1, <4>1
      <4>2. k < capture_write + i /\ capture_write + i # k
        BY <1>1, <3>1, <4>1
      <4> QED
        BY <2>2, <3>3, <4>1, <4>2
    <3>4. Last(n) = j
      BY <1>4, <3>2, <3>3
    <3>5. capture'[n] = captured + 1 + Last(n)
      BY <1>2, <2>1, <3>2
    <3> HIDE DEF Last
    <3> QED
      BY <1>1, <3>4, <3>5
  <2>4. CASE k < capture_write
    <3>1. Lands(n) = {}
      <4> SUFFICES ASSUME NEW i \in Lands(n) PROVE FALSE
        OBVIOUS
      <4>1. i \in 0..modem - 1
        OBVIOUS
      <4>2. k < capture_write + i /\ capture_write + i # k
        BY <1>1, <2>4, <4>1
      <4> QED
        BY <2>2, <4>1, <4>2
    <3>2. capture'[n] = ring[n] /\ ring = capture
      BY <1>1, <1>2, <2>1, <2>4, <3>1
    <3>3. capture_write <= k + CaptureSize
      BY <1>1, <1>5
    <3> QED
      BY <1>1, <2>4, <3>2, <3>3 DEF Kept
  <2> QED
    BY <1>1, <2>3, <2>4
<1>6. capture' = [n \in 1..CaptureSize |-> capture'[n]]
  <2> DEFINE slot(n) == IF Lands(n) = {} THEN ring[n] ELSE captured + 1 + Last(n)
  <2>1. capture' = [n \in 1..CaptureSize |-> slot(n)]
    BY <1>2
  <2> HIDE DEF slot
  <2> QED
    BY <2>1
<1>7. Kept'
  BY <1>2, <1>5 DEF Kept
<1>8. capture' # <<>>
  <2>1. DOMAIN capture' = 1..CaptureSize
    BY <1>6
  <2> QED
    BY <1>1, <2>1
<1>9. captured' = since' + capture_write' /\ capture_write' \in Nat /\ captured' \in Nat
  BY <1>1, <1>2
<1> QED
  BY <1>1, <1>2, <1>6, <1>7, <1>8, <1>9 DEF CaptureKnown

LEMMA CaptureStutters ==
    CaptureKnown /\ UNCHANGED <<captureVars, starting>> => CaptureKnown'
BY DEF CaptureKnown, captureVars, Kept

LEMMA CaptureSteps ==
    ASSUME CaptureKnown, [DashboardNext]_allVars
    PROVE  CaptureKnown'
<1>1. CASE push_modem_audio
  BY <1>1, CaptureBurst
<1>2. ASSUME NEW count \in Bursts, ReceiveBurst(count) PROVE CaptureKnown'
  <2>1. /\ modem' = count /\ starting' = starting /\ ~starting
        /\ UNCHANGED <<capture, capture_write, captured, since>>
    BY <1>2 DEF ReceiveBurst, push_audio, DecoderFree
  <2> QED
    BY <2>1 DEF CaptureKnown, Kept
<1>3. CASE BeginSession
  <2>1. /\ modem = 0 /\ modem' = 0 /\ starting' = TRUE /\ since' = captured
        /\ UNCHANGED <<capture, capture_write, captured>>
    BY <1>3 DEF BeginSession, StartSession
  <2> QED
    BY <2>1 DEF CaptureKnown
<1>4. CASE FinishStartAndClear
  <2>1. /\ starting /\ starting' = FALSE
        /\ capture' = <<>> /\ capture_write' = 0
        /\ UNCHANGED <<modem, captured, since>>
    BY <1>4 DEF FinishStartAndClear, FinishStart
  <2>2. Kept'
    BY <2>1 DEF Kept
  <2> QED
    BY <2>1, <2>2 DEF CaptureKnown
<1>5. CASE Decoder
  <2>1. UNCHANGED <<captureVars, starting>>
    BY <1>5 DEF Decoder, WriteSample, EndPush, StopSession, decoderVars
  <2> QED
    BY <2>1, CaptureStutters
<1>6. CASE Fft
  <2>1. UNCHANGED <<captureVars, starting>>
    BY <1>6 DEF Fft, fft_loop, LoadWrite, LoadRead, CopySample, StoreRead,
                PublishFrame, decoderVars
  <2> QED
    BY <2>1, CaptureStutters
<1>7. ASSUME NEW v \in Viewers,
             Arrive(v) \/ Leave(v) \/ SendFrame(v) \/ SendPing(v) \/ Acknowledge(v)
      PROVE  CaptureKnown'
  <2>1. UNCHANGED <<captureVars, starting>>
    BY <1>7 DEF Arrive, Leave, SendFrame, SendPing, Acknowledge, ringVars, decoderVars
  <2> QED
    BY <2>1, CaptureStutters
<1>8. CASE UNCHANGED allVars
  BY <1>8, CaptureStutters DEF allVars, ringVars, decoderVars
<1> QED
  BY <1>1, <1>2, <1>3, <1>4, <1>5, <1>6, <1>7, <1>8 DEF DashboardNext

\* Kept describes the ring by position, a download by age.
LEMMA DownloadIsNewest == CaptureKnown => CaptureIsNewest
<1> SUFFICES ASSUME CaptureKnown, ~starting PROVE CaptureIsNewest
  BY DEF CaptureIsNewest
<1> DEFINE kept == IF captured - since < CaptureSize THEN captured - since
                                                     ELSE CaptureSize
<1>0. /\ CaptureSize \in Nat \ {0}
      /\ captured \in Nat /\ since \in Nat /\ capture_write \in Nat
      /\ captured = since + capture_write /\ Kept
      /\ capture = <<>> => capture_write = 0
  BY DashboardAssumption DEF CaptureKnown
<1>1. CASE capture = <<>>
  <2>1. Len(capture) = 0 /\ capture_write = 0 /\ kept = 0
    BY <1>0, <1>1
  <2> QED
    BY <1>0, <2>1 DEF CaptureIsNewest, capture_wav
<1>2. CASE capture # <<>>
  <2>1. Len(capture) = CaptureSize
    <3> DEFINE values == {capture[n] : n \in 1..CaptureSize}
    <3>1. capture \in [1..CaptureSize -> values]
      BY <1>2 DEF CaptureKnown
    <3> HIDE DEF values
    <3>2. capture \in Seq(values)
      <4>1. Seq(values) = UNION {[1..n -> values] : n \in Nat}
        BY SeqDef
      <4> QED
        BY <1>0, <3>1, <4>1
    <3>3. DOMAIN capture = 1..CaptureSize /\ DOMAIN capture = 1..Len(capture)
          /\ Len(capture) \in Nat
      BY <1>0, <3>1, <3>2, LenProperties
    <3> QED
      BY <1>0, <3>3
  <2> DEFINE held == IF capture_write < CaptureSize THEN capture_write
                                                    ELSE CaptureSize
  <2>2. held = kept /\ kept \in Nat /\ First \in Nat /\ First = capture_write - kept
    BY <1>0, <2>1 DEF First
  <2>3. ASSUME NEW n \in 1..kept
        PROVE  capture[1 + ((First + n - 1) % CaptureSize)] = captured - kept + n
    <3> DEFINE k == First + n - 1
    <3>1. k \in Nat /\ k < capture_write /\ capture_write <= k + CaptureSize
      BY <1>0, <2>2
    <3>2. capture[1 + (k % CaptureSize)] = since + k + 1
      BY <1>0, <3>1 DEF Kept
    <3>3. since + k + 1 = captured - kept + n
      BY <1>0, <2>2
    <3> QED
      BY <3>2, <3>3
  <2>4. capture_wav = [n \in 1..kept |-> capture[1 + ((First + n - 1) % CaptureSize)]]
    BY <2>1, <2>2 DEF capture_wav
  <2> HIDE DEF kept
  <2>5. capture_wav = [n \in 1..kept |-> captured - kept + n]
    BY <2>3, <2>4
  <2> QED
    BY <2>5 DEF CaptureIsNewest, kept
<1> QED
  BY <1>1, <1>2

\* A download is the newest samples of the session, for every size of the
\* ring and of the bursts.
THEOREM CaptureIsNewestCorrect == DashboardSpec => []CaptureIsNewest
<1>1. DashboardInit => CaptureKnown
  BY DEF DashboardInit, RingInit, CaptureKnown, Kept
<1>2. CaptureKnown /\ [DashboardNext]_allVars => CaptureKnown'
  BY CaptureSteps
<1> QED
  BY <1>1, <1>2, DownloadIsNewest, PTL DEF DashboardSpec
==============================================================================
