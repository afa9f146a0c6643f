-------------------------- MODULE AudioPacerProofs --------------------------
(***************************************************************************)
(* For any settings, packets, bursts and capacity: no sample goes          *)
(* uncounted, what waits is the newest speech in order, and the ring is    *)
(* the bounded FIFO of PacedQueue.                                         *)
(*                                                                         *)
(* The argument is NewestWindow: the samples in the ring, read from        *)
(* head_ with one wrap, are the last size_ that arrived.  The queue the    *)
(* ring stands for is then known from two numbers, pushed and size_, and   *)
(* each operation is a step of PacedQueue on a run of numbers.             *)
(***************************************************************************)
EXTENDS AudioPacer, SequenceTheorems, TLAPS

\* At least what waits has arrived, and the counts since the last clear add up.
Counted == size_ <= pushed /\ cleared <= pushed /\ NothingUncounted

PacerInvariant == TypeOK /\ Counted /\ NewestWindow

------------------------------------------------------------------------------
(* Remainders and the ring.                                                *)

\* The slot of a position that is at most once around the ring.
Wrapped(a, m) == IF a < m THEN a ELSE a - m

\* A remainder of less than twice the divisor takes one subtraction.
LEMMA OneWrap ==
    ASSUME NEW m \in Nat \ {0}, NEW a \in Nat, a < 2 * m
    PROVE  /\ a % m = Wrapped(a, m)
           /\ Wrapped(a, m) \in 0..m - 1
<1> DEFINE q == a \div m
           r == a % m
<1>1. q \in Int /\ r \in 0..m - 1 /\ a = m * q + r
  OBVIOUS
<1> HIDE DEF q, r
<1>2. q >= 0
  <2> SUFFICES ASSUME q <= -1 PROVE FALSE
    BY <1>1
  <2>1. m * q <= m * (-1)
    BY <1>1
  <2> QED
    BY <1>1, <2>1
<1>3. q <= 1
  <2> SUFFICES ASSUME q >= 2 PROVE FALSE
    BY <1>1
  <2>1. m * q >= m * 2
    BY <1>1
  <2> QED
    BY <1>1, <2>1
<1>4. q = 0 \/ q = 1
  BY <1>1, <1>2, <1>3
<1>5. a = r \/ a = m + r
  BY <1>1, <1>4
<1>6. r = Wrapped(a, m)
  BY <1>1, <1>5 DEF Wrapped
<1> QED
  BY <1>1, <1>6 DEF r

\* The ring's numbers as the type invariant has them.
LEMMA Numbers ==
    ASSUME TypeOK
    PROVE  /\ maximum_samples_ \in Nat /\ maximum_samples_ > 0
           /\ head_ \in Nat /\ head_ < maximum_samples_
           /\ size_ \in Nat /\ size_ <= maximum_samples_
           /\ target_samples_ \in Nat /\ dropped_samples_ \in Nat
           /\ underruns_ \in Nat /\ high_water_samples_ \in Nat
           /\ pushed \in Nat /\ taken \in Nat /\ cleared \in Nat
BY DEF TypeOK

\* The slot of the k-th sample that waits.
LEMMA SlotOf ==
    ASSUME TypeOK, NEW k \in Nat, k <= maximum_samples_
    PROVE  /\ (head_ + k) % maximum_samples_
                = Wrapped(head_ + k, maximum_samples_)
           /\ (head_ + k) % maximum_samples_ \in 0..maximum_samples_ - 1
<1>1. maximum_samples_ \in Nat \ {0} /\ head_ + k \in Nat
      /\ head_ + k < 2 * maximum_samples_
  BY Numbers
<1> QED
  BY <1>1, OneWrap, Zenon

\* The window, slot by slot.
LEMMA InWindow ==
    ASSUME PacerInvariant, NEW k \in Nat, k < size_
    PROVE  queue_[(head_ + k) % maximum_samples_] = pushed - size_ + k + 1
<1>1. k + 1 \in 1..size_ /\ head_ + (k + 1) - 1 = head_ + k
  BY Numbers DEF PacerInvariant
<1>2. Contents[k + 1] = pushed - size_ + (k + 1)
  BY <1>1 DEF PacerInvariant, NewestWindow
<1>3. Contents[k + 1] = queue_[(head_ + k) % maximum_samples_]
  BY <1>1 DEF Contents
<1> QED
  BY <1>1, <1>2, <1>3, Numbers DEF PacerInvariant

\* Where the ring starts once its `count' oldest samples are gone.
LEMMA AdvancedSlot ==
    ASSUME TypeOK, NEW count \in Nat, count <= size_
    PROVE  /\ Advanced(count) \in 0..maximum_samples_ - 1
           /\ count < size_ =>
                Advanced(count) = Wrapped(head_ + count, maximum_samples_)
<1>1. (head_ + count) % maximum_samples_ \in 0..maximum_samples_ - 1
      /\ (head_ + count) % maximum_samples_
            = Wrapped(head_ + count, maximum_samples_)
  BY SlotOf, Numbers
<1>2. count < size_ => count # size_
  BY Numbers
<1> QED
  BY <1>1, <1>2, Numbers DEF Advanced

\* A sample that stays is in the slot it was in.
LEMMA AdvancedKeeps ==
    ASSUME TypeOK, NEW count \in Nat, count <= size_,
           NEW k \in Nat, k < size_ - count
    PROVE  (Advanced(count) + k) % maximum_samples_
             = (head_ + (count + k)) % maximum_samples_
<1> DEFINE m == maximum_samples_
           h == Advanced(count)
<1>1. /\ m \in Nat \ {0} /\ head_ \in Nat /\ head_ < m
      /\ size_ \in Nat /\ size_ <= m
  BY Numbers
<1>2. /\ h \in 0..m - 1
      /\ h = Wrapped(head_ + count, m)
  BY <1>1, AdvancedSlot
<1> HIDE DEF h, m
<1>3. h + k \in Nat /\ h + k < 2 * m
  BY <1>1, <1>2
<1>4. (h + k) % m = Wrapped(h + k, m)
  BY <1>1, <1>3, OneWrap, Zenon
<1>5. head_ + (count + k) \in Nat /\ head_ + (count + k) < 2 * m
  BY <1>1
<1>6. (head_ + (count + k)) % m
        = Wrapped(head_ + (count + k), m)
  BY <1>1, <1>5, OneWrap, Zenon
<1>7. Wrapped(h + k, m) = Wrapped(head_ + (count + k), m)
  BY <1>1, <1>2 DEF Wrapped
<1>8. (h + k) % m = (head_ + (count + k)) % m
  BY <1>4, <1>6, <1>7
<1> QED
  BY <1>8 DEF h, m

\* Behind what was held lie the samples that were copied, in their order.
CopiedBehind(head, held, from, count) ==
    /\ Copied(head, held, from, count) \in [0..maximum_samples_ - 1 -> Nat]
    /\ \A k \in 0..(held + count) - 1 :
         Copied(head, held, from, count)[(head + k) % maximum_samples_]
           = IF k < held THEN queue_[(head + k) % maximum_samples_]
             ELSE from + (k - held)

LEMMA CopiedRing ==
    ASSUME TypeOK, NEW head \in Nat, head < maximum_samples_,
           NEW held \in Nat, NEW count \in Nat,
           held + count <= maximum_samples_, NEW from \in Nat
    PROVE  CopiedBehind(head, held, from, count)
<1> DEFINE m == maximum_samples_
           tail == (head + held) % m
           first == Smaller(count, m - tail)
<1>1. m \in Nat \ {0}
  BY Numbers
<1>2. queue_ \in [0..m - 1 -> Nat]
  BY DEF TypeOK
<1>3. Copied(head, held, from, count)
        = [k \in 0..m - 1 |->
             IF tail <= k /\ k < tail + first THEN from + (k - tail)
             ELSE IF k < count - first THEN from + first + k
             ELSE queue_[k]]
  BY DEF Copied
<1> HIDE DEF m
<1>4. tail = Wrapped(head + held, m) /\ tail \in 0..m - 1
  <2>1. head + held \in Nat /\ head + held < 2 * m
    BY <1>1 DEF m
  <2> QED
    BY <1>1, <2>1, OneWrap, Zenon DEF tail
<1> HIDE DEF tail
<1>5. first \in Nat /\ first = IF count < m - tail THEN count ELSE m - tail
  BY <1>1, <1>4 DEF Smaller
<1> HIDE DEF first
<1>6. Copied(head, held, from, count) \in [0..m - 1 -> Nat]
  <2> SUFFICES ASSUME NEW k \in 0..m - 1
               PROVE (IF tail <= k /\ k < tail + first THEN from + (k - tail)
                      ELSE IF k < count - first THEN from + first + k
                      ELSE queue_[k]) \in Nat
    BY <1>3
  <2>1. queue_[k] \in Nat
    BY <1>2
  <2> QED
    BY <1>1, <1>4, <1>5, <2>1
<1>7. ASSUME NEW k \in 0..(held + count) - 1
      PROVE  Copied(head, held, from, count)[(head + k) % m]
               = IF k < held THEN queue_[(head + k) % m]
                 ELSE from + (k - held)
  <2> DEFINE slot == (head + k) % m
  <2>1. slot = Wrapped(head + k, m) /\ slot \in 0..m - 1
    <3>1. head + k \in Nat /\ head + k < 2 * m
      BY <1>1 DEF m
    <3> QED
      BY <1>1, <3>1, OneWrap, Zenon DEF slot
  <2> HIDE DEF slot
  <2>2. Copied(head, held, from, count)[slot]
          = IF tail <= slot /\ slot < tail + first THEN from + (slot - tail)
            ELSE IF slot < count - first THEN from + first + slot
            ELSE queue_[slot]
    BY <1>3, <2>1
  <2>3. head < m /\ held + count <= m
    BY DEF m
  <2>4. CASE k < held
    <3>1. ~(tail <= slot /\ slot < tail + first)
      BY <1>1, <1>4, <1>5, <2>1, <2>3, <2>4 DEF Wrapped
    <3>2. ~(slot < count - first)
      BY <1>1, <1>4, <1>5, <2>1, <2>3, <2>4 DEF Wrapped
    <3> QED
      BY <2>2, <2>4, <3>1, <3>2 DEF slot
  <2>5. CASE k >= held
    <3>1. CASE tail <= slot /\ slot < tail + first
      <4>1. slot - tail = k - held
        BY <1>1, <1>4, <1>5, <2>1, <2>3, <2>5, <3>1 DEF Wrapped
      <4> QED
        BY <1>1, <1>4, <2>1, <2>2, <2>5, <3>1, <4>1 DEF slot
    <3>2. CASE ~(tail <= slot /\ slot < tail + first)
      <4>1. slot < count - first /\ first + slot = k - held
        BY <1>1, <1>4, <1>5, <2>1, <2>3, <2>5, <3>2 DEF Wrapped
      <4>2. from + first + slot = from + (k - held)
        BY <4>1, <1>5, <2>1
      <4> QED
        BY <2>2, <2>5, <3>2, <4>1, <4>2 DEF slot
    <3> QED
      BY <3>1, <3>2
  <2> QED
    BY <2>4, <2>5
<1> QED
  BY <1>6, <1>7 DEF m, CopiedBehind

------------------------------------------------------------------------------
(* The invariant.                                                          *)

\* What configure computes is a capacity and a target within it.
LEMMA Settled ==
    ASSUME NEW setting \in Settings
    PROVE  /\ Bound(setting)[1] \in Nat \ {0}
           /\ Bound(setting)[2] \in 0..Bound(setting)[1]
<1> DEFINE maximum == (setting[1] * MaximumMs) \div 1000
           target == (setting[1] * setting[2]) \div 1000
<1>1. setting[1] \in Nat /\ setting[2] \in Nat /\ MaximumMs \in Nat
  BY PacerAssumption
<1>2. setting[1] * MaximumMs \in Nat /\ setting[1] * setting[2] \in Nat
  BY <1>1
<1>3. maximum \in Nat /\ target \in Nat
  BY <1>2
<1>4. /\ Bound(setting)[1] = Larger(1, maximum)
      /\ Bound(setting)[2] = Smaller(Larger(1, maximum), target)
  BY DEF Bound
<1> HIDE DEF maximum, target
<1> QED
  BY <1>3, <1>4 DEF Larger, Smaller

LEMMA OneBack ==
    ASSUME NEW size \in Nat, NEW head \in Nat, NEW last \in Nat, NEW k \in 1..size
    PROVE  /\ k - 1 \in 0..size - 1 /\ head + (k - 1) = head + k - 1
           /\ last - size + (k - 1) + 1 = last - size + k
OBVIOUS

\* A window is the newest one if it is so slot by slot.
LEMMA WindowNext ==
    ASSUME \A k \in 0..size_' - 1 :
             queue_'[(head_' + k) % maximum_samples_'] = pushed' - size_' + k + 1,
           size_' \in Nat, head_' \in Nat, pushed' \in Nat
    PROVE  NewestWindow'
<1> SUFFICES ASSUME NEW k \in 1..size_'
             PROVE Contents'[k] = pushed' - size_' + k
  BY DEF NewestWindow
<1>1. Contents'[k] = queue_'[(head_' + k - 1) % maximum_samples_']
  BY DEF Contents
<1>2. k - 1 \in 0..size_' - 1 /\ head_' + (k - 1) = head_' + k - 1
      /\ pushed' - size_' + (k - 1) + 1 = pushed' - size_' + k
  BY OneBack, Zenon
<1> QED
  BY <1>1, <1>2

\* A resize keeps the newest samples that fit, from the start of the ring.
LEMMA ResizeKeeps ==
    ASSUME PacerInvariant, NEW maximum \in Nat \ {0}, resize_queue(maximum),
           UNCHANGED <<pushed, taken, cleared>>
    PROVE  /\ queue_' \in [0..maximum - 1 -> Nat]
           /\ head_' = 0 /\ size_' = Smaller(size_, maximum)
           /\ size_' \in 0..maximum /\ size_' <= size_
           /\ dropped_samples_' = dropped_samples_ + (size_ - size_')
           /\ high_water_samples_' \in Nat
           /\ maximum_samples_' = maximum
           /\ NewestWindow'
<1> DEFINE keep == Smaller(size_, maximum)
<1>1. TypeOK
  BY DEF PacerInvariant
<1>2. keep \in Nat /\ keep <= maximum /\ keep <= size_
  BY <1>1, Numbers DEF Smaller
<1>3. /\ queue_' = [i \in 0..maximum - 1 |->
                      IF i < keep THEN queue_[Source(keep, i)] ELSE 0]
      /\ maximum_samples_' = maximum /\ head_' = 0 /\ size_' = keep
      /\ dropped_samples_' = dropped_samples_ + (size_ - keep)
      /\ high_water_samples_' = Larger(high_water_samples_, keep)
  BY DEF resize_queue
<1> HIDE DEF keep
<1>4. ASSUME NEW i \in 0..maximum - 1, i < keep
      PROVE  queue_[Source(keep, i)] = pushed - keep + i + 1
  <2>1. (size_ - keep) + i \in Nat /\ (size_ - keep) + i < size_
    BY <1>1, <1>2, <1>4, Numbers
  <2>2. Source(keep, i) = (head_ + ((size_ - keep) + i)) % maximum_samples_
    <3>1. head_ + (size_ - keep) + i = head_ + ((size_ - keep) + i)
      BY <1>1, <1>2, Numbers
    <3> QED
      BY <3>1 DEF Source
  <2>3. queue_[Source(keep, i)] = pushed - size_ + ((size_ - keep) + i) + 1
    BY <2>1, <2>2, InWindow
  <2> QED
    BY <1>1, <1>2, <2>3, Numbers
<1>5. ASSUME NEW i \in 0..maximum - 1
      PROVE  queue_'[i] = (IF i < keep THEN pushed - keep + i + 1 ELSE 0)
  BY <1>3, <1>4
<1>6. pushed \in Nat /\ size_ \in Nat /\ size_ <= pushed
  BY <1>1, Numbers DEF PacerInvariant, Counted
<1>7. queue_' \in [0..maximum - 1 -> Nat]
  <2>1. \A i \in 0..maximum - 1 :
          (IF i < keep THEN queue_[Source(keep, i)] ELSE 0) \in Nat
    BY <1>2, <1>4, <1>6
  <2> QED
    BY <1>3, <2>1
<1>8. NewestWindow'
  <2>1. ASSUME NEW k \in 0..size_' - 1
        PROVE  queue_'[(head_' + k) % maximum_samples_']
                 = pushed' - size_' + k + 1
    <3>1. k \in 0..maximum - 1 /\ k < keep
      BY <1>2, <1>3
    <3>2. (head_' + k) % maximum_samples_' = k
      <4>1. k \in Nat /\ k < 2 * maximum /\ Wrapped(k, maximum) = k
        BY <3>1 DEF Wrapped
      <4>2. k % maximum = k
        BY <4>1, OneWrap, Zenon
      <4> QED
        BY <1>3, <3>1, <4>2
    <3> QED
      BY <1>3, <1>5, <3>1, <3>2
  <2> QED
    BY <1>2, <1>3, <1>6, <2>1, WindowNext
<1>9. high_water_samples_' \in Nat
  BY <1>1, <1>2, <1>3, Numbers DEF Larger
<1> QED
  BY <1>2, <1>3, <1>7, <1>8, <1>9 DEF keep

\* What a resize drops is counted.
LEMMA FewerKept ==
    ASSUME NEW gone \in Nat, NEW lost \in Nat, NEW size \in Nat,
           NEW left \in Nat, left <= size
    PROVE  /\ lost + (size - left) \in Nat
           /\ gone + (lost + (size - left)) + left = gone + lost + size
OBVIOUS

LEMMA ConfigureKeeps ==
    ASSUME PacerInvariant, NEW setting \in Settings,
           configure(setting[1], setting[2])
    PROVE  /\ PacerInvariant'
           /\ maximum_samples_' = Bound(setting)[1]
           /\ target_samples_' = Bound(setting)[2]
           /\ size_' = Smaller(size_, maximum_samples_')
           /\ dropped_samples_' = dropped_samples_ + (size_ - size_')
<1> DEFINE maximum == Bound(setting)[1]
           target == Bound(setting)[2]
<1>1. maximum \in Nat \ {0} /\ target \in 0..maximum
  BY Settled
<1>2. /\ IF maximum # maximum_samples_
         THEN resize_queue(maximum) /\ UNCHANGED underruns_
         ELSE UNCHANGED <<ring, counters>>
      /\ target_samples_' = target
      /\ IF target # target_samples_
         THEN primed_' = (target = 0 \/ size_' >= target)
         ELSE UNCHANGED primed_
      /\ UNCHANGED <<starvation_pending_, packet, pushed, taken, cleared>>
  BY DEF configure, Bound
<1> HIDE DEF maximum, target
<1>3. TypeOK
  BY DEF PacerInvariant
<1>4. /\ queue_' \in [0..maximum - 1 -> Nat]
      /\ head_' \in 0..maximum - 1
      /\ size_' \in 0..maximum /\ size_' = Smaller(size_, maximum)
      /\ size_' <= size_
      /\ dropped_samples_' = dropped_samples_ + (size_ - size_')
      /\ high_water_samples_' \in Nat /\ underruns_' \in Nat
      /\ maximum_samples_' = maximum
      /\ NewestWindow'
  <2>1. CASE maximum # maximum_samples_
    <3>1. resize_queue(maximum) /\ UNCHANGED <<underruns_, pushed, taken, cleared>>
      BY <1>2, <2>1
    <3>2. underruns_' \in Nat
      BY <3>1, <1>3, Numbers
    <3> QED
      BY <1>1, <3>1, <3>2, ResizeKeeps
  <2>2. CASE maximum = maximum_samples_
    <3>1. UNCHANGED <<queue_, head_, size_, maximum_samples_,
                      high_water_samples_, dropped_samples_, underruns_,
                      pushed>>
      BY <1>2, <2>2 DEF ring, counters
    <3>2. NewestWindow'
      BY <3>1 DEF PacerInvariant, NewestWindow, Contents
    <3>3. /\ size_ = Smaller(size_, maximum)
          /\ dropped_samples_ = dropped_samples_ + (size_ - size_)
      BY <1>3, <2>2, Numbers DEF Smaller
    <3> QED
      BY <1>3, <2>2, <3>1, <3>2, <3>3 DEF TypeOK
  <2> QED
    BY <2>1, <2>2
<1>5. TypeOK'
  <2>1. primed_' \in BOOLEAN /\ starvation_pending_' \in BOOLEAN
    <3>1. primed_ \in BOOLEAN /\ starvation_pending_ \in BOOLEAN
      BY <1>3 DEF TypeOK
    <3>2. CASE target # target_samples_
      <4>1. primed_' = (target = 0 \/ size_' >= target)
        BY <1>2, <3>2
      <4> QED
        BY <1>2, <3>1, <4>1, Zenon
    <3>3. CASE target = target_samples_
      BY <1>2, <3>1, <3>3
    <3> QED
      BY <3>2, <3>3
  <2>2. /\ packet' \in Seq(Nat)
        /\ pushed' \in Nat /\ taken' \in Nat /\ cleared' \in Nat
    BY <1>2, <1>3 DEF TypeOK
  <2>3. target_samples_' \in 0..maximum_samples_'
    BY <1>1, <1>2, <1>4
  <2>4. dropped_samples_' \in Nat
    <3>1. size_' \in Nat
      BY <1>1, <1>4
    <3> QED
      BY <1>3, <1>4, <3>1, Numbers, FewerKept, Zenon
  <2> QED
    BY <1>1, <1>4, <2>1, <2>2, <2>3, <2>4 DEF TypeOK
<1>6. Counted'
  <2>1. /\ size_ <= pushed /\ cleared <= pushed
        /\ pushed - cleared = taken + dropped_samples_ + size_
    BY DEF PacerInvariant, Counted, NothingUncounted
  <2>2. pushed' = pushed /\ taken' = taken /\ cleared' = cleared
    BY <1>2
  <2>3. size_' \in Nat /\ size_' <= size_
    BY <1>1, <1>4
  <2>4. size_' <= pushed
    BY <1>3, <2>1, <2>3, Numbers
  <2>5. taken + dropped_samples_' + size_' = taken + dropped_samples_ + size_
    <3>1. taken + (dropped_samples_ + (size_ - size_')) + size_'
            = taken + dropped_samples_ + size_
      <4>1. taken \in Nat /\ dropped_samples_ \in Nat /\ size_ \in Nat
        BY <1>3, Numbers
      <4>2. size_' \in Nat /\ size_' <= size_
        BY <2>3
      <4> DEFINE left == size_'
      <4>3. left \in Nat /\ left <= size_
        BY <4>2
      <4> HIDE DEF left
      <4>4. taken + (dropped_samples_ + (size_ - left)) + left
              = taken + dropped_samples_ + size_
        BY <4>1, <4>3
      <4> QED
        BY <4>4 DEF left
    <3>2. dropped_samples_' = dropped_samples_ + (size_ - size_')
      BY <1>4
    <3> QED
      BY <3>1, <3>2, Zenon
  <2> QED
    BY <2>1, <2>2, <2>4, <2>5, Zenon DEF Counted, NothingUncounted
<1> QED
  BY <1>2, <1>4, <1>5, <1>6 DEF PacerInvariant, maximum, target

LEMMA ClearKeeps ==
    ASSUME PacerInvariant, clear
    PROVE  PacerInvariant'
<1>1. TypeOK'
  <2>1. primed_' \in BOOLEAN
    BY Zenon DEF clear
  <2>2. 0 \in 0..maximum_samples_ - 1 /\ 0 \in 0..maximum_samples_
    BY Numbers DEF PacerInvariant
  <2> QED
    BY <2>1, <2>2 DEF PacerInvariant, TypeOK, clear
<1>2. Counted'
  BY Numbers DEF PacerInvariant, Counted, NothingUncounted, clear
<1>3. NewestWindow'
  BY DEF NewestWindow, clear
<1> QED
  BY <1>1, <1>2, <1>3 DEF PacerInvariant

\* The numbers a push works with: what does not fit goes first, unless the
\* burst replaces everything.
LEMMA PushNumbers ==
    ASSUME TypeOK, NEW count \in Bursts
    PROVE  /\ count \in Nat /\ count > 0
           /\ Excess(count) \in Nat
           /\ Excess(count) = (IF size_ + count > maximum_samples_
                               THEN size_ + count - maximum_samples_ ELSE 0)
           /\ count < maximum_samples_ => Excess(count) <= size_
<1>1. count \in Nat /\ count > 0
  BY PacerAssumption
<1> QED
  BY <1>1, Numbers DEF Excess

LEMMA PrimeKeeps ==
    ASSUME TypeOK, Prime
    PROVE  /\ primed_' \in BOOLEAN /\ starvation_pending_' \in BOOLEAN
           /\ underruns_' \in Nat
           /\ primed_' = (primed_ \/ size_' >= target_samples_)
<1>1. /\ primed_ \in BOOLEAN /\ starvation_pending_ \in BOOLEAN
      /\ underruns_ \in Nat
  BY DEF TypeOK
<1>2. CASE ~primed_ /\ size_' >= target_samples_
  <2>1. /\ primed_' = TRUE /\ starvation_pending_' = FALSE
        /\ underruns_' = IF starvation_pending_ THEN underruns_ + 1
                                                ELSE underruns_
    BY <1>2 DEF Prime
  <2>2. underruns_' \in Nat
    BY <1>1, <2>1
  <2> QED
    BY <1>2, <2>1, <2>2
<1>3. CASE ~(~primed_ /\ size_' >= target_samples_)
  <2>1. UNCHANGED <<primed_, starvation_pending_, underruns_>>
    BY <1>3 DEF Prime
  <2>2. primed_ = (primed_ \/ size_' >= target_samples_)
    BY <1>1, <1>3, Zenon
  <2> QED
    BY <1>1, <2>1, <2>2, Zenon
<1> QED
  BY <1>2, <1>3

LEMMA PushKeeps ==
    ASSUME PacerInvariant, NEW count \in Bursts, push(count)
    PROVE  /\ PacerInvariant'
           /\ size_' = Smaller(size_ + count, maximum_samples_)
<1> DEFINE m == maximum_samples_
           excess == Excess(count)
           kept == Smaller(count, m)
           flush == count >= m
           head == IF flush THEN 0 ELSE Advanced(excess)
           held == IF flush THEN 0 ELSE size_ - excess
           from == pushed + count - kept + 1
<1>1. /\ queue_' = Copied(head, held, from, kept)
      /\ head_' = head
      /\ size_' = held + kept
      /\ dropped_samples_' = dropped_samples_ + excess
      /\ high_water_samples_' = Larger(high_water_samples_, size_')
      /\ Prime
      /\ pushed' = pushed + count
      /\ UNCHANGED <<m, target_samples_, packet, taken, cleared>>
  BY DEF push
<1>2. TypeOK
  BY DEF PacerInvariant
<1>3. /\ count \in Nat /\ count > 0
      /\ excess \in Nat
      /\ excess = (IF size_ + count > m THEN size_ + count - m ELSE 0)
      /\ count < m => excess <= size_
  BY <1>2, PushNumbers
<1>4. /\ m \in Nat /\ m > 0 /\ size_ \in Nat /\ size_ <= m
      /\ pushed \in Nat /\ size_ <= pushed
  BY <1>2, Numbers DEF PacerInvariant, Counted
<1> HIDE DEF m, excess
<1>5. /\ kept \in Nat /\ kept <= m /\ kept <= count
      /\ held \in Nat /\ held + kept <= m
      /\ held + kept = Smaller(size_ + count, m)
      /\ head \in Nat /\ head < m
  <2>1. /\ kept \in Nat /\ kept <= m /\ kept <= count
        /\ held \in Nat /\ held + kept <= m
        /\ held + kept = Smaller(size_ + count, m)
    BY <1>3, <1>4 DEF Smaller
  <2>2. head \in Nat /\ head < m
    <3>1. CASE count >= m
      BY <1>4, <3>1
    <3>2. CASE ~(count >= m)
      <4>1. excess \in Nat /\ excess <= size_
        BY <1>3, <1>4, <3>2
      <4>2. Advanced(excess) \in 0..m - 1
        BY <1>2, <4>1, AdvancedSlot DEF m
      <4> QED
        BY <1>4, <3>2, <4>2
    <3> QED
      BY <3>1, <3>2
  <2> QED
    BY <2>1, <2>2
<1>6. from \in Nat
  BY <1>3, <1>4, <1>5
\* What is held is where it was.
<1>7. ASSUME NEW k \in Nat, k < held
      PROVE  queue_[(head + k) % m] = (pushed + count) - (held + kept) + k + 1
  <2>1. ~(count >= m) /\ held = size_ - excess /\ head = Advanced(excess)
    BY <1>7
  <2>2. /\ excess <= size_ /\ k < size_ - excess
        /\ excess + k \in Nat /\ excess + k < size_
    BY <1>3, <1>4, <1>7, <2>1
  <2>3. (head + k) % m = (head_ + (excess + k)) % m
    BY <1>2, <1>3, <2>1, <2>2, AdvancedKeeps, Zenon DEF m
  <2>4. queue_[(head_ + (excess + k)) % m] = pushed - size_ + (excess + k) + 1
    BY <2>2, InWindow DEF m
  <2>5. kept = count
    BY <1>3, <1>4, <2>1 DEF Smaller
  <2>6. pushed - size_ + (excess + k) + 1
          = (pushed + count) - (held + kept) + k + 1
    BY <1>3, <1>4, <2>1, <2>5
  <2> QED
    BY <2>3, <2>4, <2>6
<1>8. kept + (pushed + count - kept) = pushed + count
  BY <1>3, <1>4, <1>5
<1> HIDE DEF kept, flush, head, held, from
<1>9. /\ Copied(head, held, from, kept) \in [0..m - 1 -> Nat]
      /\ \A k \in 0..(held + kept) - 1 :
           Copied(head, held, from, kept)[(head + k) % m]
             = IF k < held THEN queue_[(head + k) % m] ELSE from + (k - held)
  <2>1. held + kept <= maximum_samples_ /\ head < maximum_samples_
        /\ head \in Nat /\ held \in Nat /\ kept \in Nat
    BY <1>5 DEF m
  <2>2. CopiedBehind(head, held, from, kept)
    BY <1>2, <1>6, <2>1, CopiedRing, Zenon
  <2> QED
    BY <2>2, Zenon DEF m, CopiedBehind
<1>10. ASSUME NEW k \in 0..(held + kept) - 1
       PROVE  Copied(head, held, from, kept)[(head + k) % m]
                = (pushed + count) - (held + kept) + k + 1
  <2>1. k \in Nat
    BY <1>5
  <2>2. CASE k < held
    BY <1>7, <1>9, <2>1, <2>2
  <2>3. CASE ~(k < held)
    <3>1. from + (k - held) = (pushed + count) - (held + kept) + k + 1
      BY <1>3, <1>4, <1>5, <2>1 DEF from
    <3> QED
      BY <1>9, <2>3, <3>1
  <2> QED
    BY <2>2, <2>3
<1>11. m' = m
  BY <1>1
<1>12. NewestWindow'
  <2>1. /\ maximum_samples_' = m /\ head_' = head
        /\ size_' = held + kept /\ pushed' = pushed + count
        /\ queue_' = Copied(head, held, from, kept)
    BY <1>1, <1>11 DEF m
  <2>2. ASSUME NEW k \in 0..size_' - 1
        PROVE  queue_'[(head_' + k) % maximum_samples_']
                 = pushed' - size_' + k + 1
    <3>1. k \in 0..(held + kept) - 1
      BY <2>1, Zenon
    <3>2. Copied(head, held, from, kept)[(head + k) % m]
            = (pushed + count) - (held + kept) + k + 1
      BY <1>10, <3>1
    <3> QED
      BY <2>1, <3>2, Zenon
  <2>3. size_' \in Nat /\ head_' \in Nat /\ pushed' \in Nat
    BY <1>1, <1>3, <1>4, <1>5
  <2> QED
    BY <2>2, <2>3, WindowNext, Zenon
<1>13. TypeOK'
  <2>1. maximum_samples_' = maximum_samples_ /\ target_samples_' = target_samples_
        /\ packet' = packet /\ taken' = taken /\ cleared' = cleared
    BY <1>1 DEF m
  <2>2. queue_' \in [0..maximum_samples_ - 1 -> Nat]
    BY <1>1, <1>9 DEF m
  <2>3. head_' \in 0..maximum_samples_ - 1 /\ size_' \in 0..maximum_samples_
    BY <1>1, <1>4, <1>5 DEF m
  <2>4. dropped_samples_' \in Nat /\ pushed' \in Nat
    BY <1>1, <1>2, <1>3, <1>4, Numbers
  <2>5. high_water_samples_' \in Nat
    <3>1. high_water_samples_ \in Nat /\ held + kept \in Nat
      BY <1>2, <1>5, Numbers
    <3>2. Larger(high_water_samples_, held + kept) \in Nat
      BY <3>1 DEF Larger
    <3> QED
      BY <1>1, <3>2, Zenon
  <2>6. /\ primed_' \in BOOLEAN /\ starvation_pending_' \in BOOLEAN
        /\ underruns_' \in Nat
    BY <1>1, <1>2, PrimeKeeps
  <2> QED
    BY <1>2, <2>1, <2>2, <2>3, <2>4, <2>5, <2>6 DEF TypeOK
<1>14. Counted'
  <2>1. /\ size_ <= pushed /\ cleared <= pushed
        /\ pushed - cleared = taken + dropped_samples_ + size_
    BY DEF PacerInvariant, Counted, NothingUncounted
  <2>2. /\ taken \in Nat /\ dropped_samples_ \in Nat /\ cleared \in Nat
    BY <1>2, Numbers
  <2>3. held + kept = IF size_ + count > m THEN m ELSE size_ + count
    BY <1>3, <1>4, <1>5 DEF Smaller
  <2>4. held + kept <= pushed + count /\ cleared <= pushed + count
    BY <1>3, <1>4, <2>1, <2>2, <2>3
  <2>5. (pushed + count) - cleared = taken + (dropped_samples_ + excess) + (held + kept)
    BY <1>3, <1>4, <2>1, <2>2, <2>3
  <2> QED
    <3>1. /\ pushed' = pushed + count /\ cleared' = cleared
          /\ taken' = taken /\ size_' = held + kept
          /\ dropped_samples_' = dropped_samples_ + excess
      BY <1>1
    <3> QED
      BY <2>4, <2>5, <3>1, Zenon DEF Counted, NothingUncounted
<1> QED
  BY <1>1, <1>5, <1>12, <1>13, <1>14 DEF PacerInvariant, m

\* A packet holds the oldest samples that waited, in their order.
LEMMA TakePacketKeeps ==
    ASSUME PacerInvariant, NEW count \in Packets, TakePacket(count)
    PROVE  /\ PacerInvariant'
           /\ size_' = size_ - Smaller(count, size_)
           /\ packet' = [k \in 1..count |->
                           IF k <= size_ THEN (pushed - size_) + k ELSE 0]
<1> DEFINE m == maximum_samples_
           available == Smaller(count, size_)
           first == Smaller(available, m - head_)
<1>1. /\ size_ > 0 /\ primed_
      /\ packet' = [k \in 1..count |->
                      IF k <= first THEN queue_[head_ + k - 1]
                      ELSE IF k <= available THEN queue_[k - 1 - first]
                      ELSE 0]
      /\ head_' = Advanced(available)
      /\ size_' = size_ - available
      /\ taken' = taken + available
      /\ UNCHANGED <<queue_, m, target_samples_, counters,
                     primed_, starvation_pending_, pushed, cleared>>
  BY DEF TakePacket
<1>2. TypeOK
  BY DEF PacerInvariant
<1>3. /\ m \in Nat /\ m > 0 /\ size_ \in Nat /\ size_ <= m
      /\ head_ \in Nat /\ head_ < m
      /\ pushed \in Nat /\ size_ <= pushed
      /\ count \in Nat /\ count > 0
  BY <1>2, Numbers, PacerAssumption DEF PacerInvariant, Counted
<1>4. available \in Nat /\ available <= size_
      /\ available = IF count < size_ THEN count ELSE size_
  BY <1>3 DEF Smaller
<1>5. first \in Nat /\ first <= available
      /\ first = IF available < m - head_ THEN available ELSE m - head_
  BY <1>3, <1>4 DEF Smaller
<1> HIDE DEF available, first, m
<1>6. ASSUME NEW k \in 1..count
      PROVE  (IF k <= first THEN queue_[head_ + k - 1]
              ELSE IF k <= available THEN queue_[k - 1 - first]
              ELSE 0)
             = IF k <= size_ THEN (pushed - size_) + k ELSE 0
  <2>1. CASE k <= available
    <3>1. k - 1 \in Nat /\ k - 1 < size_ /\ k <= size_ /\ k - 1 <= m
      BY <1>3, <1>4, <2>1
    <3>2. queue_[(head_ + (k - 1)) % m] = pushed - size_ + (k - 1) + 1
      BY <3>1, InWindow DEF m
    <3>3. queue_[(head_ + (k - 1)) % m] = (pushed - size_) + k
      BY <1>3, <3>2
    <3>4. (head_ + (k - 1)) % m = Wrapped(head_ + (k - 1), m)
      BY <1>2, <3>1, SlotOf DEF m
    <3>5. CASE k <= first
      <4>1. Wrapped(head_ + (k - 1), m) = head_ + k - 1
        BY <1>3, <1>4, <1>5, <3>1, <3>5 DEF Wrapped
      <4>2. queue_[head_ + k - 1] = (pushed - size_) + k
        BY <3>3, <3>4, <4>1, Zenon
      <4> QED
        BY <3>1, <3>5, <4>2
    <3>6. CASE ~(k <= first)
      <4>1. Wrapped(head_ + (k - 1), m) = k - 1 - first
        BY <1>3, <1>4, <1>5, <2>1, <3>1, <3>6 DEF Wrapped
      <4>2. queue_[k - 1 - first] = (pushed - size_) + k
        BY <3>3, <3>4, <4>1, Zenon
      <4> QED
        BY <2>1, <3>1, <3>6, <4>2
    <3> QED
      BY <3>5, <3>6
  <2>2. CASE ~(k <= available)
    <3>1. ~(k <= size_) /\ ~(k <= first)
      BY <1>3, <1>4, <1>5, <2>2
    <3> QED
      BY <2>2, <3>1
  <2> QED
    BY <2>1, <2>2
<1>7. packet' = [k \in 1..count |->
                   IF k <= size_ THEN (pushed - size_) + k ELSE 0]
  BY <1>1, <1>6
<1>8. packet' \in Seq(Nat)
  <2> DEFINE sample(k) == IF k <= size_ THEN (pushed - size_) + k ELSE 0
  <2>1. \A k \in 1..count : sample(k) \in Nat
    BY <1>3
  <2> HIDE DEF sample
  <2>2. [k \in 1..count |-> sample(k)] \in Seq(Nat)
    BY <1>3, <2>1, IsASeq
  <2> QED
    BY <1>7, <2>2, Zenon DEF sample
<1>9. NewestWindow'
  <2>1. /\ maximum_samples_' = maximum_samples_ /\ head_' = Advanced(available)
        /\ size_' = size_ - available /\ pushed' = pushed /\ queue_' = queue_
    BY <1>1 DEF m
  <2>2. ASSUME NEW k \in 0..size_' - 1
        PROVE  queue_'[(head_' + k) % maximum_samples_']
                 = pushed' - size_' + k + 1
    <3>1. k \in 0..(size_ - available) - 1
      BY <2>1, Zenon
    <3>2. /\ k \in Nat /\ k < size_ - available
          /\ available + k \in Nat /\ available + k < size_
      BY <1>3, <1>4, <3>1
    <3>3. (Advanced(available) + k) % maximum_samples_
            = (head_ + (available + k)) % maximum_samples_
      BY <1>2, <1>4, <3>2, AdvancedKeeps, Zenon
    <3>4. queue_[(head_ + (available + k)) % maximum_samples_]
            = pushed - size_ + (available + k) + 1
      BY <3>2, InWindow
    <3>5. pushed - size_ + (available + k) + 1
            = pushed - (size_ - available) + k + 1
      BY <1>3, <1>4, <3>2
    <3>6. queue_[(Advanced(available) + k) % maximum_samples_]
            = pushed - (size_ - available) + k + 1
      BY <3>3, <3>4, <3>5, Zenon
    <3> QED
      BY <2>1, <3>6, Zenon
  <2>3. size_' \in Nat /\ head_' \in Nat /\ pushed' \in Nat
    <3>1. Advanced(available) \in Nat
      BY <1>2, <1>3, <1>4, AdvancedSlot
    <3> QED
      BY <1>3, <1>4, <2>1, <3>1
  <2> QED
    BY <2>2, <2>3, WindowNext, Zenon
<1>10. TypeOK'
  <2>1. /\ maximum_samples_' = maximum_samples_ /\ target_samples_' = target_samples_
        /\ queue_' = queue_ /\ primed_' = primed_
        /\ starvation_pending_' = starvation_pending_
        /\ high_water_samples_' = high_water_samples_
        /\ dropped_samples_' = dropped_samples_ /\ underruns_' = underruns_
        /\ pushed' = pushed /\ cleared' = cleared
    BY <1>1 DEF m, counters
  <2>2. head_' \in 0..maximum_samples_ - 1
    BY <1>1, <1>2, <1>4, AdvancedSlot
  <2>3. size_' \in 0..maximum_samples_ /\ taken' \in Nat
    BY <1>1, <1>2, <1>3, <1>4, Numbers DEF m
  <2> QED
    BY <1>2, <1>8, <2>1, <2>2, <2>3 DEF TypeOK
<1>11. Counted'
  <2>1. /\ size_ <= pushed /\ cleared <= pushed
        /\ pushed - cleared = taken + dropped_samples_ + size_
    BY DEF PacerInvariant, Counted, NothingUncounted
  <2>2. taken \in Nat /\ dropped_samples_ \in Nat /\ cleared \in Nat
    BY <1>2, Numbers
  <2>3. /\ size_ - available <= pushed
        /\ pushed - cleared
             = (taken + available) + dropped_samples_ + (size_ - available)
    BY <1>3, <1>4, <2>1, <2>2
  <2>4. /\ pushed' = pushed /\ cleared' = cleared
        /\ taken' = taken + available /\ size_' = size_ - available
        /\ dropped_samples_' = dropped_samples_
    BY <1>1 DEF counters
  <2> QED
    BY <2>1, <2>3, <2>4, Zenon DEF Counted, NothingUncounted
<1> QED
  BY <1>1, <1>7, <1>9, <1>10, <1>11 DEF PacerInvariant, available

\* A take that finds too little changes the packet and, at most, what the
\* pacer waits for.
LEMMA TakeNothingKeeps ==
    ASSUME PacerInvariant, NEW count \in Packets, TakeNothing(count)
    PROVE  PacerInvariant'
<1>1. /\ UNCHANGED <<queue_, head_, size_, maximum_samples_,
                     high_water_samples_, dropped_samples_, underruns_,
                     target_samples_, pushed, taken, cleared>>
      /\ packet' = <<>>
  BY DEF TakeNothing, ring, counters
<1>2. primed_' \in BOOLEAN /\ starvation_pending_' \in BOOLEAN
  BY DEF TakeNothing, PacerInvariant, TypeOK
<1>3. packet' \in Seq(Nat)
  BY <1>1, EmptySeq
<1>4. TypeOK'
  BY <1>1, <1>2, <1>3 DEF PacerInvariant, TypeOK
<1>5. Counted' /\ NewestWindow'
  BY <1>1 DEF PacerInvariant, Counted, NothingUncounted, NewestWindow, Contents
<1> QED
  BY <1>4, <1>5 DEF PacerInvariant

LEMMA StutterKeeps ==
    ASSUME PacerInvariant, UNCHANGED pacerVars
    PROVE  PacerInvariant'
<1>1. UNCHANGED <<queue_, head_, size_, maximum_samples_,
                  high_water_samples_, dropped_samples_, underruns_,
                  target_samples_, primed_, starvation_pending_, packet,
                  pushed, taken, cleared>>
  BY DEF pacerVars, ring, counters, history
<1> QED
  BY <1>1 DEF PacerInvariant, TypeOK, Counted, NothingUncounted, NewestWindow,
              Contents

LEMMA InitInvariant == Init => PacerInvariant
<1> SUFFICES ASSUME Init PROVE PacerInvariant
  OBVIOUS
<1>1. packet \in Seq(Nat)
  BY EmptySeq DEF Init
<1>2. InitialMaximum \in Nat \ {0}
  BY PacerAssumption
<1>3. TypeOK
  <2>1. /\ maximum_samples_ \in Nat \ {0}
        /\ queue_ \in [0..maximum_samples_ - 1 -> Nat]
    BY <1>2 DEF Init
  <2>2. 0 \in 0..maximum_samples_ - 1 /\ 0 \in 0..maximum_samples_
    BY <2>1
  <2> QED
    BY <1>1, <2>1, <2>2 DEF Init, TypeOK
<1>4. Counted /\ NewestWindow
  BY DEF Init, Counted, NothingUncounted, NewestWindow
<1> QED
  BY <1>3, <1>4 DEF PacerInvariant

\* The ring is typed, its counts add up and it holds the newest samples in
\* order, whatever configure, clear, push and take do.
THEOREM PacerCorrect == Spec => []PacerInvariant
<1>1. PacerInvariant /\ [Next]_pacerVars => PacerInvariant'
  <2> SUFFICES ASSUME PacerInvariant, [Next]_pacerVars PROVE PacerInvariant'
    OBVIOUS
  <2>1. ASSUME NEW setting \in Settings, configure(setting[1], setting[2])
        PROVE  PacerInvariant'
    BY <2>1, ConfigureKeeps
  <2>2. CASE clear
    BY <2>2, ClearKeeps
  <2>3. ASSUME NEW count \in Bursts, push(count)
        PROVE  PacerInvariant'
    BY <2>3, PushKeeps
  <2>4. ASSUME NEW count \in Packets, take(count)
        PROVE  PacerInvariant'
    BY <2>4, TakeNothingKeeps, TakePacketKeeps DEF take
  <2>5. CASE UNCHANGED pacerVars
    BY <2>5, StutterKeeps
  <2> QED
    BY <2>1, <2>2, <2>3, <2>4, <2>5 DEF Next
<1> QED
  BY InitInvariant, <1>1, PTL DEF Spec

\* Every sample that arrived since the last clear was returned, is counted as
\* dropped, or waits, whatever push, take and configure did in between.
THEOREM NothingUncountedCorrect == Spec => []NothingUncounted
<1>1. PacerInvariant => NothingUncounted
  BY DEF PacerInvariant, Counted
<1> QED
  BY PacerCorrect, <1>1, PTL

\* What waits is the newest speech in its order, through wrap-around, resizing
\* and bursts larger than the ring.
THEOREM NewestWindowCorrect == Spec => []NewestWindow
<1>1. PacerInvariant => NewestWindow
  BY DEF PacerInvariant
<1> QED
  BY PacerCorrect, <1>1, PTL

------------------------------------------------------------------------------
(* The refinement: the queue the ring stands for.                          *)

\* The samples that follow number `last', in their order.
After(last, count) == [k \in 1..count |-> last + k]

LEMMA AfterIsSeq ==
    ASSUME NEW last \in Nat, NEW count \in Nat
    PROVE  /\ After(last, count) \in Seq(Nat)
           /\ Len(After(last, count)) = count
           /\ \A k \in 1..count : After(last, count)[k] = last + k
<1>1. \A k \in 1..count : last + k \in Nat
  OBVIOUS
<1>2. After(last, count) \in Seq(Nat)
  BY <1>1, IsASeq DEF After
<1>3. DOMAIN After(last, count) = 1..count
  BY DEF After
<1>4. Len(After(last, count)) = count
  BY <1>2, <1>3, LenProperties
<1> QED
  BY <1>2, <1>4 DEF After

\* None follow.
LEMMA AfterNone ==
    ASSUME NEW last \in Nat
    PROVE  After(last, 0) = <<>>
<1>1. After(last, 0) \in Seq(Nat) /\ Len(After(last, 0)) = 0
  BY AfterIsSeq
<1> QED
  BY <1>1, EmptySeq

\* Samples that arrive continue the run.
LEMMA AfterConcat ==
    ASSUME NEW last \in Nat, NEW count \in Nat, NEW more \in Nat
    PROVE  After(last, count) \o After(last + count, more)
             = After(last, count + more)
<1> DEFINE s == After(last, count)
           t == After(last + count, more)
           u == After(last, count + more)
<1>1. /\ s \in Seq(Nat) /\ Len(s) = count
      /\ \A k \in 1..count : s[k] = last + k
  BY AfterIsSeq
<1>2. /\ t \in Seq(Nat) /\ Len(t) = more
      /\ \A k \in 1..more : t[k] = (last + count) + k
  <2>1. last + count \in Nat
    OBVIOUS
  <2> QED
    BY <2>1, AfterIsSeq
<1>3. /\ u \in Seq(Nat) /\ Len(u) = count + more
      /\ \A k \in 1..(count + more) : u[k] = last + k
  <2>1. count + more \in Nat
    OBVIOUS
  <2> QED
    BY <2>1, AfterIsSeq
<1> HIDE DEF s, t, u
<1>4. /\ s \o t \in Seq(Nat) /\ Len(s \o t) = count + more
      /\ \A k \in 1..(count + more) :
           (s \o t)[k] = IF k <= count THEN s[k] ELSE t[k - count]
  <2>1. /\ s \o t \in Seq(Nat) /\ Len(s \o t) = Len(s) + Len(t)
        /\ \A k \in 1..(Len(s) + Len(t)) :
             (s \o t)[k] = IF k <= Len(s) THEN s[k] ELSE t[k - Len(s)]
    <3>1. s \in Seq(Nat) /\ t \in Seq(Nat)
      BY <1>1, <1>2
    <3> QED
      BY <3>1, ConcatProperties, Zenon
  <2> QED
    BY <1>1, <1>2, <2>1, Zenon
<1>5. ASSUME NEW k \in 1..(count + more) PROVE (s \o t)[k] = u[k]
  <2>1. CASE k <= count
    BY <1>1, <1>3, <1>4, <2>1
  <2>2. CASE ~(k <= count)
    <3>1. k - count \in 1..more /\ (last + count) + (k - count) = last + k
      BY <2>2
    <3> QED
      BY <1>2, <1>3, <1>4, <2>2, <3>1
  <2> QED
    BY <2>1, <2>2
<1>6. s \o t = u
  BY <1>3, <1>4, <1>5, SeqEqual
<1> QED
  BY <1>6 DEF s, t, u

\* What remains of a run behind its first samples.
LEMMA AfterRest ==
    ASSUME NEW last \in Nat, NEW count \in Nat, NEW gone \in Nat, gone <= count
    PROVE  SubSeq(After(last, count), gone + 1, count)
             = After(last + gone, count - gone)
<1> DEFINE s == After(last, count)
           r == SubSeq(s, gone + 1, count)
           t == After(last + gone, count - gone)
<1>1. /\ s \in Seq(Nat) /\ Len(s) = count
      /\ \A k \in 1..count : s[k] = last + k
  BY AfterIsSeq
<1>2. /\ t \in Seq(Nat) /\ Len(t) = count - gone
      /\ \A k \in 1..(count - gone) : t[k] = (last + gone) + k
  <2>1. last + gone \in Nat /\ count - gone \in Nat
    OBVIOUS
  <2> QED
    BY <2>1, AfterIsSeq
<1> HIDE DEF s, t
<1>3. /\ r \in Seq(Nat)
      /\ Len(r) = IF gone + 1 <= count THEN count - (gone + 1) + 1 ELSE 0
      /\ \A i \in 1..(count - (gone + 1) + 1) : r[i] = s[(gone + 1) + i - 1]
  <2>1. \A i \in gone + 1..count : s[i] \in Nat
    BY <1>1
  <2>2. gone + 1 \in Int /\ count \in Int
    OBVIOUS
  <2> QED
    BY <2>1, <2>2, SubSeqProperties
<1> HIDE DEF r
<1>4. Len(r) = count - gone
  <2>1. Len(r) = IF gone + 1 <= count THEN count - (gone + 1) + 1 ELSE 0
    BY <1>3
  <2> QED
    BY <2>1
<1>5. ASSUME NEW k \in 1..(count - gone) PROVE r[k] = t[k]
  <2>1. /\ k \in 1..(count - (gone + 1) + 1)
        /\ (gone + 1) + k - 1 = gone + k /\ gone + k \in 1..count
        /\ last + (gone + k) = (last + gone) + k
    OBVIOUS
  <2>2. r[k] = s[gone + k]
    BY <1>3, <2>1
  <2> QED
    BY <1>1, <1>2, <2>1, <2>2
<1>6. r = t
  BY <1>2, <1>3, <1>4, <1>5, SeqEqual
<1> QED
  BY <1>6 DEF r, s, t

\* Of a run the newest samples are the last ones, and what is lost is counted.
LEMMA NewestOfRun ==
    ASSUME NEW last \in Nat, NEW count \in Nat, NEW most \in Nat
    PROVE  /\ Queue!Newest(After(last, count), most)
                = After(last + (count - Smaller(count, most)),
                        Smaller(count, most))
           /\ Queue!Excess(After(last, count), most)
                = count - Smaller(count, most)
<1> DEFINE keep == Smaller(count, most)
<1>1. keep \in Nat /\ keep <= count
      /\ keep = IF count < most THEN count ELSE most
  BY DEF Smaller
<1>2. Len(After(last, count)) = count
  BY AfterIsSeq
<1>3. Queue!Newest(After(last, count), most)
        = SubSeq(After(last, count), (count - keep) + 1, count)
  BY <1>2 DEF Queue!Newest, Smaller
<1>4. Queue!Excess(After(last, count), most) = count - keep
  <2>1. Queue!Excess(After(last, count), most)
          = IF count > most THEN count - most ELSE 0
    BY <1>2 DEF Queue!Excess
  <2> QED
    BY <1>1, <2>1
<1> HIDE DEF keep
<1>5. SubSeq(After(last, count), (count - keep) + 1, count)
        = After(last + (count - keep), count - (count - keep))
  <2>1. count - keep \in Nat /\ count - keep <= count
    BY <1>1
  <2> QED
    BY <2>1, AfterRest
<1>6. count - (count - keep) = keep
  BY <1>1
<1> QED
  BY <1>3, <1>4, <1>5, <1>6 DEF keep

\* The queue the ring stands for is a run of numbers.
LEMMA ContentsAreRun ==
    ASSUME PacerInvariant
    PROVE  /\ Contents = After(pushed - size_, size_)
           /\ pushed - size_ \in Nat /\ size_ \in Nat /\ pushed \in Nat
           /\ Len(Contents) = size_
<1>1. pushed \in Nat /\ size_ \in Nat /\ size_ <= pushed
  BY Numbers DEF PacerInvariant, Counted
<1>2. \A k \in 1..size_ : queue_[(head_ + k - 1) % maximum_samples_]
                            = (pushed - size_) + k
  BY DEF PacerInvariant, NewestWindow, Contents
<1>3. Contents = After(pushed - size_, size_)
  BY <1>2 DEF Contents, After
<1>4. pushed - size_ \in Nat
  BY <1>1
<1> QED
  BY <1>1, <1>3, <1>4, AfterIsSeq

LEMMA Earlier ==
    ASSUME NEW last \in Nat, NEW size \in Nat, size <= last
    PROVE  last - size \in Nat
OBVIOUS

LEMMA ContentsAreRunNext ==
    ASSUME PacerInvariant'
    PROVE  /\ Contents' = After(pushed' - size_', size_')
           /\ Len(Contents') = size_'
<1>1. pushed' \in Nat /\ size_' \in Nat /\ size_' <= pushed'
  BY DEF PacerInvariant, Counted, TypeOK
<1>2. \A k \in 1..size_' : queue_'[(head_' + k - 1) % maximum_samples_']
                            = (pushed' - size_') + k
  BY DEF PacerInvariant, NewestWindow, Contents
<1>3. Contents' = After(pushed' - size_', size_')
  BY <1>2 DEF Contents, After
<1>4. pushed' - size_' \in Nat
  BY <1>1, Earlier, Zenon
<1> QED
  BY <1>1, <1>3, <1>4, AfterIsSeq

\* A resize keeps and counts as the queue's new limit does.
LEMMA ConfigureIsLimit ==
    ASSUME PacerInvariant, NEW setting \in Settings,
           configure(setting[1], setting[2])
    PROVE  Queue!Limit(Bound(setting)[1], Bound(setting)[2])
<1> DEFINE most == Bound(setting)[1]
           start == Bound(setting)[2]
           keep == Smaller(size_, most)
<1>1. /\ PacerInvariant' /\ maximum_samples_' = most /\ target_samples_' = start
      /\ size_' = keep
      /\ dropped_samples_' = dropped_samples_ + (size_ - keep)
  <2>1. /\ size_' = Smaller(size_, maximum_samples_')
        /\ dropped_samples_' = dropped_samples_ + (size_ - size_')
        /\ PacerInvariant' /\ maximum_samples_' = most /\ target_samples_' = start
    BY ConfigureKeeps
  <2> QED
    BY <2>1, Zenon
<1>2. /\ pushed' = pushed /\ packet' = packet
      /\ IF start # target_samples_
         THEN primed_' = (start = 0 \/ size_' >= start)
         ELSE UNCHANGED primed_
  BY DEF configure, Bound
<1>3. most \in Nat
  BY Settled
<1> HIDE DEF most, start
<1>4. /\ Contents = After(pushed - size_, size_)
      /\ pushed - size_ \in Nat /\ size_ \in Nat /\ pushed \in Nat
      /\ Contents' = After(pushed - keep, keep)
      /\ Len(Contents') = size_'
  BY <1>1, <1>2, ContentsAreRun, ContentsAreRunNext
<1>5. /\ Queue!Newest(Contents, most)
           = After((pushed - size_) + (size_ - keep), keep)
      /\ Queue!Excess(Contents, most) = size_ - keep
  BY <1>3, <1>4, NewestOfRun
<1>6. (pushed - size_) + (size_ - keep) = pushed - keep
  <2>1. keep \in Nat
    BY <1>3, <1>4 DEF Smaller
  <2> HIDE DEF keep
  <2> QED
    BY <1>4, <2>1
<1>7. Contents' = Queue!Newest(Contents, most)
  BY <1>4, <1>5, <1>6
<1>8. dropped_samples_' = dropped_samples_ + Queue!Excess(Contents, most)
  BY <1>1, <1>5
<1>9. primed_' = IF start = target_samples_ THEN primed_
                 ELSE start = 0 \/ Len(Contents') >= start
  <2>1. CASE start = target_samples_
    BY <1>2, <2>1
  <2>2. CASE start # target_samples_
    BY <1>2, <1>4, <2>2, Zenon
  <2> QED
    BY <2>1, <2>2
<1>10. Queue!Limit(most, start)
  BY <1>1, <1>2, <1>7, <1>8, <1>9, Zenon DEF Queue!Limit
<1> QED
  BY <1>10 DEF most, start

LEMMA ClearIsEmpty ==
    ASSUME PacerInvariant, clear
    PROVE  Queue!Empty
<1>1. /\ size_' = 0 /\ dropped_samples_' = 0
      /\ primed_' = (target_samples_ = 0)
      /\ maximum_samples_' = maximum_samples_
      /\ target_samples_' = target_samples_
      /\ packet' = packet /\ pushed' = pushed
  BY DEF clear
<1>2. Contents' = <<>>
  <2>1. PacerInvariant'
    BY ClearKeeps
  <2>2. Contents' = After(pushed - 0, 0) /\ pushed \in Nat
    BY <1>1, <2>1, ContentsAreRun, ContentsAreRunNext
  <2>3. pushed - 0 = pushed
    BY <2>2
  <2> QED
    BY <2>2, <2>3, AfterNone
<1> QED
  BY <1>1, <1>2, Zenon DEF Queue!Empty

\* However the burst and the ring meet, what stays is the newest of what was
\* there and what came.
LEMMA PushIsAdd ==
    ASSUME PacerInvariant, NEW count \in Bursts, push(count)
    PROVE  Queue!Add(count)
<1> DEFINE m == maximum_samples_
           keep == Smaller(size_ + count, m)
           arrived == [k \in 1..count |-> pushed + k]
<1>1. TypeOK
  BY DEF PacerInvariant
<1>2. /\ PacerInvariant' /\ size_' = keep
  BY PushKeeps
<1>3. /\ pushed' = pushed + count /\ dropped_samples_' = dropped_samples_ + Excess(count)
      /\ Prime /\ m' = m /\ target_samples_' = target_samples_
      /\ packet' = packet
  BY DEF push
<1>4. /\ count \in Nat
      /\ Excess(count) = (IF size_ + count > m THEN size_ + count - m ELSE 0)
  BY <1>1, PushNumbers
<1>5. m \in Nat /\ size_ \in Nat /\ pushed \in Nat /\ size_ <= pushed
  BY <1>1, Numbers DEF PacerInvariant, Counted
<1>6. keep \in Nat /\ keep <= size_ + count
      /\ Excess(count) = (size_ + count) - keep
  BY <1>4, <1>5 DEF Smaller
<1>7. /\ Contents = After(pushed - size_, size_)
      /\ Contents' = After((pushed + count) - keep, keep)
      /\ Len(Contents') = keep
  BY <1>2, <1>3, ContentsAreRun, ContentsAreRunNext
<1>8. Contents \o arrived = After(pushed - size_, size_ + count)
  <2>1. pushed - size_ \in Nat /\ (pushed - size_) + size_ = pushed
    BY <1>5
  <2>2. arrived = After((pushed - size_) + size_, count)
    BY <2>1 DEF After
  <2> HIDE DEF arrived
  <2>3. After(pushed - size_, size_) \o After((pushed - size_) + size_, count)
          = After(pushed - size_, size_ + count)
    BY <1>4, <1>5, <2>1, AfterConcat
  <2> QED
    BY <1>7, <2>2, <2>3, Zenon
<1>9. /\ Queue!Newest(Contents \o arrived, m)
           = After((pushed - size_) + ((size_ + count) - keep), keep)
      /\ Queue!Excess(Contents \o arrived, m) = (size_ + count) - keep
  <2>1. pushed - size_ \in Nat /\ size_ + count \in Nat
    BY <1>4, <1>5
  <2> HIDE DEF arrived
  <2> QED
    BY <1>5, <1>8, <2>1, NewestOfRun
<1> HIDE DEF m, keep, arrived
<1>10. (pushed - size_) + ((size_ + count) - keep) = (pushed + count) - keep
  BY <1>4, <1>5, <1>6
<1>11. Contents' = Queue!Newest(Contents \o arrived, m)
  BY <1>7, <1>9, <1>10
<1>12. dropped_samples_' = dropped_samples_ + Queue!Excess(Contents \o arrived, m)
  BY <1>3, <1>6, <1>9
<1>13. primed_' = (primed_ \/ Len(Contents') >= target_samples_)
  BY <1>1, <1>2, <1>3, <1>7, PrimeKeeps, Zenon
<1>14. /\ maximum_samples_' = maximum_samples_
       /\ Contents' = Queue!Newest(Contents \o [k \in 1..count |-> pushed + k],
                                   maximum_samples_)
       /\ dropped_samples_' = dropped_samples_
            + Queue!Excess(Contents \o [k \in 1..count |-> pushed + k],
                           maximum_samples_)
  BY <1>3, <1>11, <1>12, Zenon DEF m, arrived
<1> QED
  BY <1>3, <1>13, <1>14, Zenon DEF Queue!Add

\* The packet is the queue's front, and the queue's rest is what waits.
LEMMA TakePacketIsGive ==
    ASSUME PacerInvariant, NEW count \in Packets, TakePacket(count)
    PROVE  Queue!Give(count)
<1> DEFINE available == Smaller(count, size_)
<1>1. /\ PacerInvariant' /\ size_' = size_ - available
      /\ packet' = [k \in 1..count |->
                      IF k <= size_ THEN (pushed - size_) + k ELSE 0]
  BY TakePacketKeeps
<1>2. /\ size_ > 0 /\ primed_ /\ (target_samples_ = 0 \/ size_ >= count)
      /\ UNCHANGED <<maximum_samples_, target_samples_, primed_,
                     dropped_samples_, pushed>>
  BY DEF TakePacket, counters
<1>3. count \in Nat /\ count > 0
  BY PacerAssumption
<1>4. /\ Contents = After(pushed - size_, size_)
      /\ Len(Contents) = size_
      /\ pushed - size_ \in Nat /\ size_ \in Nat /\ pushed \in Nat
      /\ Contents' = After(pushed - (size_ - available), size_ - available)
  BY <1>1, <1>2, ContentsAreRun, ContentsAreRunNext
<1>5. available \in Nat /\ available <= size_
      /\ available = IF count < size_ THEN count ELSE size_
  BY <1>3, <1>4 DEF Smaller
<1> HIDE DEF available
<1>6. Contents # <<>>
  <2>1. Len(<<>>) = 0
    BY EmptySeq
  <2> QED
    BY <1>2, <1>4, <2>1
<1>7. packet' = [k \in 1..count |->
                   IF k <= Len(Contents) THEN Contents[k] ELSE 0]
  <2>1. ASSUME NEW k \in 1..count
        PROVE  (IF k <= size_ THEN (pushed - size_) + k ELSE 0)
                 = IF k <= Len(Contents) THEN Contents[k] ELSE 0
    <3>1. CASE k <= size_
      <4>1. k \in 1..size_
        BY <1>3, <1>4, <3>1
      <4>2. Contents[k] = (pushed - size_) + k
        BY <1>4, <4>1, AfterIsSeq
      <4> QED
        BY <1>4, <3>1, <4>2
    <3>2. CASE ~(k <= size_)
      BY <1>4, <3>2
    <3> QED
      BY <3>1, <3>2
  <2> QED
    BY <1>1, <2>1
<1>8. Contents' = SubSeq(Contents, count + 1, Len(Contents))
  <2>1. CASE available = count
    <3>1. SubSeq(After(pushed - size_, size_), count + 1, size_)
            = After((pushed - size_) + count, size_ - count)
      BY <1>3, <1>4, <1>5, <2>1, AfterRest
    <3>2. (pushed - size_) + count = pushed - (size_ - count)
      BY <1>3, <1>4
    <3> QED
      BY <1>4, <2>1, <3>1, <3>2
  <2>2. CASE available # count
    <3>1. available = size_ /\ size_ < count + 1 /\ size_ - available = 0
          /\ pushed - 0 = pushed /\ count + 1 \in Int /\ size_ \in Int
      BY <1>3, <1>4, <1>5, <2>2
    <3>2. Contents' = <<>>
      BY <1>4, <3>1, AfterNone
    <3>3. SubSeq(Contents, count + 1, size_) = <<>>
      BY <3>1, SubSeqEmpty
    <3> QED
      BY <1>4, <3>2, <3>3
  <2> QED
    BY <2>1, <2>2
<1>9. target_samples_ = 0 \/ Len(Contents) >= count
  BY <1>2, <1>4
<1> QED
  BY <1>2, <1>6, <1>7, <1>8, <1>9, Zenon DEF Queue!Give

LEMMA TakeNothingIsRefuse ==
    ASSUME PacerInvariant, NEW count \in Packets, TakeNothing(count)
    PROVE  Queue!Refuse(count)
<1>1. /\ UNCHANGED <<queue_, head_, size_, maximum_samples_,
                     dropped_samples_, target_samples_, pushed>>
      /\ packet' = <<>>
      /\ primed_' \in {FALSE, primed_}
      /\ \/ size_ = 0 \/ ~primed_
         \/ target_samples_ > 0 /\ size_ < count
  <2>1. primed_ \in BOOLEAN
    BY DEF PacerInvariant, TypeOK
  <2>2. primed_' \in {FALSE, primed_}
    BY <2>1, Zenon DEF TakeNothing
  <2> QED
    BY <2>2, Zenon DEF TakeNothing, ring, counters
<1>2. Contents' = Contents
  BY <1>1 DEF Contents
<1>3. Len(Contents) = size_ /\ pushed \in Nat
      /\ Contents = After(pushed - size_, size_)
  BY ContentsAreRun
<1>4. size_ = 0 => Contents = <<>>
  <2> SUFFICES ASSUME size_ = 0 PROVE Contents = <<>>
    OBVIOUS
  <2>1. pushed - 0 = pushed
    BY <1>3
  <2> QED
    BY <1>3, <2>1, AfterNone
<1>5. \/ ~primed_ \/ Contents = <<>>
      \/ target_samples_ > 0 /\ Len(Contents) < count
  BY <1>1, <1>3, <1>4, Zenon
<1> QED
  BY <1>1, <1>2, <1>5, Zenon DEF Queue!Refuse

LEMMA InitIsQInit == Init => Queue!QInit
<1> SUFFICES ASSUME Init PROVE Queue!QInit
  OBVIOUS
<1>1. PacerInvariant
  BY InitInvariant
<1>2. /\ maximum_samples_ = InitialMaximum /\ size_ = 0 /\ pushed = 0
      /\ target_samples_ = 0 /\ dropped_samples_ = 0 /\ primed_ = TRUE
      /\ packet = <<>>
  BY DEF Init
<1>3. Contents = After(0 - 0, 0)
  BY <1>1, <1>2, ContentsAreRun
<1>4. Contents = <<>>
  <2>1. 0 - 0 = 0 /\ 0 \in Nat
    OBVIOUS
  <2> QED
    BY <1>3, <2>1, AfterNone
<1>5. maximum_samples_ \in Nat \ {0}
  BY <1>2, PacerAssumption
<1> QED
  BY <1>2, <1>4, <1>5 DEF Queue!QInit

\* The ring behaves as the bounded FIFO: every operation of the pacer is one
\* of the queue, on the samples the ring holds.
THEOREM PacerImplementsQueue == Spec => ImplementsQueue
<1>1. PacerInvariant /\ [Next]_pacerVars => [Queue!QNext]_(Queue!queueVars)
  <2> SUFFICES ASSUME PacerInvariant, [Next]_pacerVars
               PROVE  [Queue!QNext]_(Queue!queueVars)
    OBVIOUS
  <2>1. ASSUME NEW setting \in Settings, configure(setting[1], setting[2])
        PROVE  Queue!QNext
    <3>1. Queue!Limit(Bound(setting)[1], Bound(setting)[2])
      BY <2>1, ConfigureIsLimit
    <3>2. Bound(setting) \in {Bound(s) : s \in Settings}
      OBVIOUS
    <3> QED
      BY <3>1, <3>2 DEF Queue!QNext
  <2>2. ASSUME clear PROVE Queue!QNext
    BY <2>2, ClearIsEmpty DEF Queue!QNext
  <2>3. ASSUME NEW count \in Bursts, push(count)
        PROVE  Queue!QNext
    BY <2>3, PushIsAdd DEF Queue!QNext
  <2>4. ASSUME NEW count \in Packets, take(count)
        PROVE  Queue!QNext
    BY <2>4, TakeNothingIsRefuse, TakePacketIsGive DEF take, Queue!QNext
  <2>5. CASE UNCHANGED pacerVars
    <3>1. UNCHANGED <<queue_, head_, size_, maximum_samples_, target_samples_,
                      primed_, dropped_samples_, packet, pushed>>
      BY <2>5 DEF pacerVars, ring, counters, history
    <3>2. Contents' = Contents
      BY <3>1 DEF Contents
    <3> QED
      BY <3>1, <3>2 DEF Queue!queueVars
  <2> QED
    BY <2>1, <2>2, <2>3, <2>4, <2>5 DEF Next
<1> QED
  BY <1>1, InitIsQInit, PacerCorrect, PTL DEF Spec, ImplementsQueue, Queue!QSpec

=============================================================================
