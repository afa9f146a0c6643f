----------------------------- MODULE AudioPacer -----------------------------
(***************************************************************************)
(* The decoder's AudioPacer: a ring buffer that turns bursts of decoded    *)
(* speech into packets of the receiver's size.  A sample is the number of  *)
(* its arrival; 0 is the silence a packet is padded with.  The vector is   *)
(* taken to be allocated from the start, not by the first push.            *)
(***************************************************************************)
EXTENDS Naturals, Sequences

CONSTANTS
    InitialMaximum,  \* capacity before the first configure
    Settings,        \* <<sample rate, target milliseconds>> configured
    MaximumMs,       \* kDecodedAudioMaximumMs
    Packets,         \* packet sizes take is asked for
    Bursts,          \* sizes of the bursts push is given
    MaxPushed        \* bound: samples that ever arrive

ASSUME PacerAssumption ==
    /\ InitialMaximum \in Nat \ {0}
    /\ Settings \subseteq Nat \X Nat
    /\ MaximumMs \in Nat
    /\ Packets \subseteq Nat \ {0}
    /\ Bursts \subseteq Nat \ {0}
    /\ MaxPushed \in Nat

VARIABLES
    queue_, head_, size_, maximum_samples_, target_samples_,
    high_water_samples_, primed_, starvation_pending_,
    dropped_samples_,
    underruns_,      \* always equal to reprimes_
    packet,          \* what the last take returned
    pushed,          \* history: samples that ever arrived
    taken,           \* history: samples taken since the last clear
    cleared          \* history: pushed when the queue was cleared

ring == <<queue_, head_, size_, maximum_samples_>>
counters == <<high_water_samples_, dropped_samples_, underruns_>>
history == <<pushed, taken, cleared>>
pacerVars == <<ring, counters, target_samples_, primed_, starvation_pending_,
               packet, history>>

Smaller(a, b) == IF a < b THEN a ELSE b
Larger(a, b) == IF a < b THEN b ELSE a

TypeOK ==
    /\ maximum_samples_ \in Nat \ {0}
    /\ queue_ \in [0..maximum_samples_ - 1 -> Nat]
    /\ head_ \in 0..maximum_samples_ - 1
    /\ size_ \in 0..maximum_samples_
    /\ target_samples_ \in 0..maximum_samples_
    /\ high_water_samples_ \in Nat
    /\ primed_ \in BOOLEAN
    /\ starvation_pending_ \in BOOLEAN
    /\ dropped_samples_ \in Nat
    /\ underruns_ \in Nat
    /\ packet \in Seq(Nat)
    /\ pushed \in Nat /\ taken \in Nat /\ cleared \in Nat

Init ==
    /\ maximum_samples_ = InitialMaximum
    /\ queue_ = [k \in 0..InitialMaximum - 1 |-> 0]
    /\ head_ = 0 /\ size_ = 0
    /\ target_samples_ = 0
    /\ high_water_samples_ = 0 /\ dropped_samples_ = 0 /\ underruns_ = 0
    /\ primed_ = TRUE
    /\ starvation_pending_ = FALSE
    /\ packet = <<>>
    /\ pushed = 0 /\ taken = 0 /\ cleared = 0

------------------------------------------------------------------------------
\* Mutant: the oldest samples are kept.
SourceOldest(keep, i) == (head_ + i) % maximum_samples_

\* Where the i-th kept sample is, when only the `keep' newest are kept.
Source(keep, i) == (head_ + (size_ - keep) + i) % maximum_samples_

resize_queue(maximum) ==
    LET keep == Smaller(size_, maximum) IN
    /\ queue_' = [i \in 0..maximum - 1 |->
                    IF i < keep THEN queue_[Source(keep, i)] ELSE 0]
    /\ maximum_samples_' = maximum
    /\ head_' = 0
    /\ size_' = keep
    /\ dropped_samples_' = dropped_samples_ + (size_ - keep)
    /\ high_water_samples_' = Larger(high_water_samples_, keep)

configure(sample_rate, target_ms) ==
    LET maximum == Larger(1, (sample_rate * MaximumMs) \div 1000)
        target == Smaller(maximum, (sample_rate * target_ms) \div 1000)
    IN  /\ IF maximum # maximum_samples_
           THEN resize_queue(maximum) /\ UNCHANGED underruns_
           ELSE UNCHANGED <<ring, counters>>
        /\ target_samples_' = target
        /\ IF target # target_samples_
           THEN primed_' = (target = 0 \/ size_' >= target)
           ELSE UNCHANGED primed_
        /\ UNCHANGED <<starvation_pending_, packet, pushed, taken, cleared>>

clear ==
    /\ head_' = 0 /\ size_' = 0
    /\ high_water_samples_' = 0 /\ dropped_samples_' = 0 /\ underruns_' = 0
    /\ primed_' = (target_samples_ = 0)
    /\ starvation_pending_' = FALSE
    /\ taken' = 0 /\ cleared' = pushed
    /\ UNCHANGED <<queue_, maximum_samples_, target_samples_, packet, pushed>>

\* Mutant: the wrap is forgotten when the ring empties.
AdvancedPast(count) == head_ + count

\* discard_oldest, for a count of at most size_.
Advanced(count) ==
    IF count = size_ /\ count > 0 THEN 0
    ELSE (head_ + count) % maximum_samples_

\* The ring after `count' samples, the first being number `from', were copied
\* behind the `held' samples that start at `head'.
Copied(head, held, from, count) ==
    LET tail == (head + held) % maximum_samples_
        first == Smaller(count, maximum_samples_ - tail)
    IN  [k \in 0..maximum_samples_ - 1 |->
           IF tail <= k /\ k < tail + first THEN from + (k - tail)
           ELSE IF k < count - first THEN from + first + k
           ELSE queue_[k]]

\* Mutant: reaching the target is not enough.
PrimeLate ==
    IF ~primed_ /\ size_' > target_samples_
    THEN /\ primed_' = TRUE
         /\ starvation_pending_' = FALSE
         /\ underruns_' = IF starvation_pending_ THEN underruns_ + 1
                                                 ELSE underruns_
    ELSE UNCHANGED <<primed_, starvation_pending_, underruns_>>

\* A target that is reached again confirms the starvation before it.
Prime ==
    IF ~primed_ /\ size_' >= target_samples_
    THEN /\ primed_' = TRUE
         /\ starvation_pending_' = FALSE
         /\ underruns_' = IF starvation_pending_ THEN underruns_ + 1
                                                 ELSE underruns_
    ELSE UNCHANGED <<primed_, starvation_pending_, underruns_>>

\* Mutant: a burst that fills the ring replaces what waits, uncounted.
ExcessOfBurst(count) ==
    IF count >= maximum_samples_ THEN count - maximum_samples_
    ELSE IF size_ + count > maximum_samples_
    THEN size_ + count - maximum_samples_ ELSE 0

\* The samples that do not fit when `count' more arrive.
Excess(count) ==
    IF size_ + count > maximum_samples_
    THEN size_ + count - maximum_samples_ ELSE 0

push(count) ==
    LET excess == Excess(count)
        kept == Smaller(count, maximum_samples_)
        flush == count >= maximum_samples_
        head == IF flush THEN 0 ELSE Advanced(excess)
        held == IF flush THEN 0 ELSE size_ - excess
    IN  /\ pushed + count <= MaxPushed
        /\ queue_' = Copied(head, held, pushed + count - kept + 1, kept)
        /\ head_' = head
        /\ size_' = held + kept
        /\ dropped_samples_' = dropped_samples_ + excess
        /\ high_water_samples_' = Larger(high_water_samples_, size_')
        /\ Prime
        /\ pushed' = pushed + count
        /\ UNCHANGED <<maximum_samples_, target_samples_, packet, taken,
                       cleared>>

\* take with nothing to give; a partial packet is kept for later.
TakeNothing(count) ==
    /\ \/ size_ = 0 \/ ~primed_
       \/ target_samples_ > 0 /\ size_ < count
    /\ packet' = <<>>
    /\ IF size_ = 0 \/ ~primed_
       THEN UNCHANGED <<primed_, starvation_pending_>>
       ELSE primed_' = FALSE /\ starvation_pending_' = TRUE
    /\ UNCHANGED <<ring, counters, target_samples_, pushed, taken, cleared>>

TakePacket(count) ==
    LET available == Smaller(count, size_)
        first == Smaller(available, maximum_samples_ - head_)
    IN  /\ size_ > 0 /\ primed_
        /\ target_samples_ = 0 \/ size_ >= count
        /\ packet' = [k \in 1..count |->
                        IF k <= first THEN queue_[head_ + k - 1]
                        ELSE IF k <= available THEN queue_[k - 1 - first]
                        ELSE 0]
        /\ head_' = Advanced(available)
        /\ size_' = size_ - available
        /\ taken' = taken + available
        /\ UNCHANGED <<queue_, maximum_samples_, target_samples_, counters,
                       primed_, starvation_pending_, pushed, cleared>>

take(count) == TakeNothing(count) \/ TakePacket(count)

Next ==
    \/ \E setting \in Settings : configure(setting[1], setting[2])
    \/ clear
    \/ \E count \in Bursts : push(count)
    \/ \E count \in Packets : take(count)

Spec == Init /\ [][Next]_pacerVars

------------------------------------------------------------------------------
(* Properties.                                                             *)

Contents == [k \in 1..size_ |-> queue_[(head_ + k - 1) % maximum_samples_]]

\* The pairs configure computes.
Bound(setting) ==
    LET maximum == Larger(1, (setting[1] * MaximumMs) \div 1000) IN
    <<maximum, Smaller(maximum, (setting[1] * setting[2]) \div 1000)>>

Queue == INSTANCE PacedQueue WITH
            waiting <- Contents, limit <- maximum_samples_,
            target <- target_samples_, playing <- primed_,
            lost <- dropped_samples_, serial <- pushed,
            Bounds <- {Bound(setting) : setting \in Settings}

\* The ring behaves as the bounded FIFO through wrap-around, overflow, a burst
\* larger than the ring, resizing and clearing.
ImplementsQueue == Queue!QSpec

\* Every sample that arrived since the last clear was returned once, is
\* counted as dropped, or waits.
NothingUncounted == pushed - cleared = taken + dropped_samples_ + size_

\* What waits is the newest speech: the samples are the last that arrived, in
\* their order.
NewestWindow == \A k \in 1..size_ : Contents[k] = pushed - size_ + k
==============================================================================
