----------------------------- MODULE SoundProofs -----------------------------
(***************************************************************************)
(* Proofs about Sound, for every width of the sequence number, every size  *)
(* of packets and queues and every number of packets and jobs.             *)
(*                                                                         *)
(* NothingCrosses is inductive only together with what the position of the *)
(* stream says of the rest: while there is a stream, the expected number   *)
(* is that of the packet behind it and fewer packets than the number has   *)
(* values are missing; where there is none, every queue is empty.          *)
(***************************************************************************)
EXTENDS Sound, SequenceTheorems, TLAPS

------------------------------------------------------------------------------
(* Numbers that wrap.                                                      *)

\* Integer division.
LEMMA Division ==
    ASSUME NEW c \in Nat \ {0}, NEW a \in Int
    PROVE  /\ a % c \in 0..c - 1 /\ a \div c \in Int
           /\ a = c * (a \div c) + (a % c)
OBVIOUS

\* A remainder is its own.
LEMMA Remains ==
    ASSUME NEW c \in Nat \ {0}, NEW a \in Nat, a < c
    PROVE  a % c = a
OBVIOUS

\* A difference that wrapped once is put right by the remainder.
LEMMA WrapsBack ==
    ASSUME NEW c \in Nat \ {0}, NEW d \in Int, -c <= d, d < 0
    PROVE  d % c = d + c
<1> DEFINE u == d \div c
           v == d % c
<1>1. u \in Int /\ v \in 0..c - 1 /\ d = c * u + v
  BY Division
<1> HIDE DEF u, v
<1>2. c * u \in Int /\ c * u > -c - c /\ c * u < 0
  BY <1>1
<1>3. u = -1
  <2>1. CASE u <= -2
    <3>1. c * u <= -c - c
      BY <1>1, <2>1
    <3> QED
      BY <1>2, <3>1
  <2>2. CASE u >= 0
    <3>1. c * u >= 0
      BY <1>1, <2>2
    <3> QED
      BY <1>2, <3>1
  <2> QED
    BY <1>1, <2>1, <2>2
<1>4. c * u = -c
  BY <1>3
<1> QED
  BY <1>1, <1>4 DEF v

\* Counting with numbers that wrap is right for less than one turn of them.
LEMMA CountsMissing ==
    ASSUME NEW c \in Nat \ {0}, NEW a \in Nat, NEW b \in Nat, a <= b, b < a + c
    PROVE  ((b % c) - (a % c)) % c = b - a
<1> DEFINE p == a \div c
           q == b \div c
           r == a % c
           s == b % c
<1>1. /\ p \in Int /\ q \in Int /\ r \in 0..c - 1 /\ s \in 0..c - 1
      /\ a = c * p + r /\ b = c * q + s
  BY Division
<1> HIDE DEF p, q, r, s
<1>2. b - a = c * (q - p) + (s - r)
  BY <1>1
<1>3. q - p \in Int /\ c * (q - p) \in Int
  BY <1>1
<1>4. q - p = 0 \/ q - p = 1
  <2>1. CASE q - p >= 2
    <3>1. c * (q - p) >= 2 * c
      BY <1>1, <2>1
    <3> QED
      BY <1>1, <1>2, <1>3, <3>1
  <2>2. CASE q - p <= -1
    <3>1. c * (q - p) <= -c
      BY <1>1, <2>2
    <3> QED
      BY <1>1, <1>2, <1>3, <3>1
  <2> QED
    BY <1>3, <2>1, <2>2
<1>5. CASE q - p = 0
  <2>1. c * (q - p) = 0
    BY <1>5
  <2>2. s - r = b - a /\ s - r \in 0..c - 1
    BY <1>1, <1>2, <1>3, <2>1
  <2>3. (s - r) % c = s - r
    BY <2>2, Remains
  <2> QED
    BY <2>2, <2>3 DEF r, s
<1>6. CASE q - p = 1
  <2>1. c * (q - p) = c
    BY <1>6
  <2>2. s - r = b - a - c /\ b - a \in 0..c - 1
    BY <1>1, <1>2, <1>3, <2>1
  <2>3. s - r \in Int /\ -c <= s - r /\ s - r < 0
    BY <2>2
  <2>4. (s - r) % c = s - r + c
    BY <2>3, WrapsBack
  <2> QED
    BY <2>2, <2>4 DEF r, s
<1> QED
  BY <1>4, <1>5, <1>6

------------------------------------------------------------------------------
(* Queues.                                                                 *)

\* Copies of a packet's sample make a sequence.
LEMMA CopiesAre ==
    ASSUME NEW T, NEW of \in T, NEW n \in Nat
    PROVE  Copies(n, of) \in Seq(T) /\ Len(Copies(n, of)) = n
BY DEF Copies

\* They are as new as their packet.
LEMMA CopiesSince ==
    ASSUME NEW of, NEW n \in Nat, NEW m, of > m
    PROVE  Since(m, Copies(n, of))
BY DEF Copies, Since

\* Nothing is in the empty queue.
LEMMA EmptySince == ASSUME NEW m PROVE Since(m, <<>>)
BY DEF Since

\* A queue is as new as what it is made of.
LEMMA JoinSince ==
    ASSUME NEW T, NEW s \in Seq(T), NEW t \in Seq(T), NEW m,
           Since(m, s), Since(m, t)
    PROVE  Since(m, s \o t)
<1> SUFFICES ASSUME NEW k \in DOMAIN (s \o t) PROVE (s \o t)[k] > m
  BY DEF Since
<1>1. /\ s \o t \in Seq(T) /\ Len(s \o t) = Len(s) + Len(t)
      /\ \A i \in 1..Len(s) + Len(t) :
            (s \o t)[i] = IF i <= Len(s) THEN s[i] ELSE t[i - Len(s)]
  BY ConcatProperties
<1>2. k \in 1..Len(s) + Len(t) /\ Len(s) \in Nat /\ Len(t) \in Nat
  BY <1>1, LenProperties
<1>3. CASE k <= Len(s)
  <2>1. k \in DOMAIN s
    BY <1>2, <1>3, LenProperties
  <2> QED
    BY <1>1, <1>2, <1>3, <2>1 DEF Since
<1>4. CASE ~(k <= Len(s))
  <2>1. k - Len(s) \in DOMAIN t
    BY <1>2, <1>4, LenProperties
  <2> QED
    BY <1>1, <1>2, <1>4, <2>1 DEF Since
<1> QED
  BY <1>3, <1>4

\* So is a part of it.
LEMMA PartSince ==
    ASSUME NEW T, NEW s \in Seq(T), NEW m, Since(m, s),
           NEW a \in 1..Len(s) + 1, NEW b \in 0..Len(s)
    PROVE  SubSeq(s, a, b) \in Seq(T) /\ Since(m, SubSeq(s, a, b))
<1>1. /\ SubSeq(s, a, b) \in Seq(T)
      /\ Len(SubSeq(s, a, b)) = IF a <= b THEN b - a + 1 ELSE 0
      /\ \A i \in 1..b - a + 1 : SubSeq(s, a, b)[i] = s[a + i - 1]
  BY SubSeqProperties
<1>2. Len(s) \in Nat /\ DOMAIN s = 1..Len(s)
  BY LenProperties
<1> SUFFICES ASSUME NEW k \in DOMAIN SubSeq(s, a, b)
             PROVE  SubSeq(s, a, b)[k] > m
  BY <1>1 DEF Since
<1>3. k \in 1..b - a + 1 /\ a + k - 1 \in 1..Len(s)
  BY <1>1, <1>2, LenProperties
<1> QED
  BY <1>1, <1>2, <1>3 DEF Since

\* The speech a full pacer keeps.
LEMMA NewestOf ==
    ASSUME NEW T, NEW s \in Seq(T), NEW n \in Nat \ {0}
    PROVE  /\ Newest(n, s) \in Seq(T) /\ Len(Newest(n, s)) <= n
           /\ \A m : Since(m, s) => Since(m, Newest(n, s))
<1>1. Len(s) \in Nat
  BY LenProperties
<1>2. CASE Len(s) > n
  <2>1. Len(s) - n + 1 \in 1..Len(s) + 1 /\ Len(s) \in 0..Len(s)
    BY <1>1, <1>2
  <2>2. Newest(n, s) = SubSeq(s, Len(s) - n + 1, Len(s))
    BY <1>2 DEF Newest
  <2>3. SubSeq(s, Len(s) - n + 1, Len(s)) \in Seq(T)
        /\ Len(SubSeq(s, Len(s) - n + 1, Len(s))) = n
    BY <1>1, <1>2, <2>1, SubSeqProperties
  <2>4. ASSUME NEW m, Since(m, s)
        PROVE  Since(m, SubSeq(s, Len(s) - n + 1, Len(s)))
    BY <2>1, <2>4, PartSince
  <2> HIDE DEF Newest
  <2> QED
    BY <2>2, <2>3, <2>4
<1>3. CASE ~(Len(s) > n)
  BY <1>1, <1>3 DEF Newest
<1> QED
  BY <1>2, <1>3

\* What remains of a queue when its first sample is taken.
LEMMA TailOf ==
    ASSUME NEW T, NEW s \in Seq(T), s # <<>>
    PROVE  /\ Tail(s) \in Seq(T) /\ Len(Tail(s)) <= Len(s)
           /\ Head(s) \in T
           /\ \A m : Since(m, s) => Since(m, Tail(s)) /\ Head(s) > m
<1>1. /\ Len(s) \in Nat \ {0} /\ DOMAIN s = 1..Len(s)
      /\ Tail(s) \in Seq(T) /\ Len(Tail(s)) = Len(s) - 1 /\ Head(s) = s[1]
      /\ \A i \in 1..Len(Tail(s)) : Tail(s)[i] = s[i + 1]
  BY LenProperties, HeadTailProperties, EmptySeq
<1>2. s[1] \in T
  BY <1>1, ElementOfSeq
<1>3. ASSUME NEW m, Since(m, s) PROVE Since(m, Tail(s)) /\ Head(s) > m
  <2>1. DOMAIN Tail(s) = 1..Len(s) - 1
    BY <1>1, LenProperties
  <2>2. \A k \in 1..Len(s) - 1 : k + 1 \in 1..Len(s) /\ Tail(s)[k] = s[k + 1]
    BY <1>1
  <2> QED
    BY <1>1, <1>3, <2>1, <2>2 DEF Since
<1> QED
  BY <1>1, <1>2, <1>3

------------------------------------------------------------------------------
(* The invariant.                                                          *)

\* What the position of the stream says of the rest.
Positioned ==
    /\ pushing => stream > 0
    /\ ~pushing => pcm = <<>>
    /\ expected_sequence_valid <=> stream > 0
    /\ stream > 0 => /\ expected_sequence = SequenceOf(stream + 1)
                     /\ produced - stream < Modulus
    /\ stream = 0 => /\ speech = <<>> /\ iq = <<>>
                     /\ backend = "rade" => taken = 0 /\ primer = <<>>

SoundInvariant == TypeOK /\ Positioned /\ NothingCrosses /\ DropsCounted

\* The constants and counters as numbers.
LEMMA SoundNumbers ==
    ASSUME TypeOK
    PROVE  /\ Modulus \in Nat \ {0} /\ PacketSize \in Nat \ {0}
           /\ MaxPackets \in Nat /\ MaxSpeech \in Nat \ {0}
           /\ Priming \in Nat \ {0} /\ Features \in Nat
           /\ \A n \in Amounts : n \in Nat \ {0}
           /\ produced \in Nat /\ stream \in Nat /\ stream <= produced
           /\ interrupted \in Nat /\ interrupted <= produced
           /\ refused \in Nat /\ refused <= produced /\ produced <= MaxPackets
BY SoundAssumption DEF TypeOK

LEMMA SoundInit == Init => SoundInvariant
<1> SUFFICES ASSUME Init PROVE SoundInvariant
  OBVIOUS
<1>1. TypeOK
  <2>1. /\ 0 \in 0..Modulus - 1 /\ 0 \in 0..MaxPackets /\ 0 \in 0..MaxJobs
        /\ 0 <= Priming /\ 0 <= MaxSpeech
    BY SoundAssumption
  <2>2. <<>> \in Seq(Numbers) /\ Len(<<>>) = 0
    BY EmptySeq
  <2>3. /\ iq = <<>> /\ primer = <<>> /\ pcm = <<>> /\ speech = <<>>
        /\ needed \in Amounts /\ taken = 0 /\ produced = 0 /\ jobs = 0
        /\ expected_sequence = 0 /\ dropped_frames = 0
        /\ stream = 0 /\ interrupted = 0 /\ refused = 0 /\ lost = 0 /\ slow = 0
        /\ backend = "none" /\ waiting = FALSE /\ pushing = FALSE
        /\ expected_sequence_valid = FALSE /\ last_sync = FALSE
    BY DEF Init
  <2>4. /\ iq \in Seq(Numbers)
        /\ primer \in Seq(Numbers) /\ Len(primer) <= Priming
        /\ pcm \in Seq(Numbers)
        /\ speech \in Seq(Numbers) /\ Len(speech) <= MaxSpeech
    BY <2>1, <2>2, <2>3
  <2>5. /\ produced \in 0..MaxPackets /\ stream \in 0..produced
        /\ interrupted \in 0..produced /\ refused \in 0..produced
    BY <2>1, <2>3
  <2> QED
    BY <2>1, <2>3, <2>4, <2>5 DEF TypeOK
<1>2. Positioned
  BY DEF Init, Positioned
<1>3. NothingCrosses
  BY EmptySince DEF Init, NothingCrosses
<1>4. DropsCounted
  BY DEF Init, DropsCounted
<1> QED
  BY <1>1, <1>2, <1>3, <1>4 DEF SoundInvariant

\* A frame of the RADE modem primes and speaks with what is still queued.
LEMMA RadeFrameKeeps ==
    ASSUME SoundInvariant, iq # <<>>,
           NEW sync \in BOOLEAN, NEW features \in {0, Features},
           RadeFrame(sync, features)
    PROVE  /\ primer' \in Seq(Numbers) /\ Len(primer') <= Priming
           /\ pcm' \in Seq(Numbers)
           /\ \A m : Since(m, iq) /\ Since(m, pcm) => Since(m, pcm')
           /\ \A m : Since(m, iq) /\ Since(m, primer) => Since(m, primer')
<1> DEFINE kept == IF last_sync /\ ~sync THEN <<>> ELSE primer
           primes == IF Priming - Len(kept) < features THEN Priming - Len(kept)
                                                       ELSE features
           priming == Copies(primes, Head(iq))
           spoken == Copies(features - primes, Head(iq))
<1>1. /\ iq \in Seq(Numbers) /\ pcm \in Seq(Numbers) /\ Head(iq) \in Numbers
      /\ primer \in Seq(Numbers) /\ Len(primer) <= Priming
      /\ Priming \in Nat /\ features \in Nat
  BY SoundNumbers, TailOf DEF SoundInvariant, TypeOK
<1>2. kept \in Seq(Numbers) /\ Len(kept) \in Nat /\ Len(kept) <= Priming
  <2>1. Len(<<>>) = 0 /\ <<>> \in Seq(Numbers)
    BY EmptySeq
  <2> QED
    BY <1>1, <2>1, LenProperties
<1>3. \A m : Since(m, primer) => Since(m, kept)
  BY EmptySince
<1> HIDE DEF kept
<1>4. primes \in Nat /\ features - primes \in Nat /\ Len(kept) + primes <= Priming
  BY <1>1, <1>2
<1>5. primer' = kept \o priming /\ pcm' = pcm \o spoken
  BY DEF RadeFrame, kept
<1> HIDE DEF primes
<1>6. /\ priming \in Seq(Numbers) /\ Len(priming) = primes
      /\ spoken \in Seq(Numbers)
  BY <1>1, <1>4, CopiesAre
<1>7. ASSUME NEW m, Since(m, iq) PROVE Since(m, priming) /\ Since(m, spoken)
  <2>1. Head(iq) > m
    BY <1>1, <1>7, TailOf
  <2> QED
    BY <1>4, <2>1, CopiesSince
<1> HIDE DEF priming, spoken
<1>8. /\ kept \o priming \in Seq(Numbers) /\ Len(kept \o priming) <= Priming
      /\ pcm \o spoken \in Seq(Numbers)
  BY <1>1, <1>2, <1>4, <1>6, ConcatProperties
<1>9. ASSUME NEW m, Since(m, iq), Since(m, pcm) PROVE Since(m, pcm')
  BY <1>1, <1>5, <1>6, <1>7, <1>9, JoinSince
<1>10. ASSUME NEW m, Since(m, iq), Since(m, primer) PROVE Since(m, primer')
  <2>1. Since(m, kept) /\ Since(m, priming)
    BY <1>3, <1>7, <1>10
  <2> QED
    BY <1>2, <1>5, <1>6, <2>1, JoinSince
<1> QED
  BY <1>5, <1>8, <1>9, <1>10

LEMMA DecodeFrameKeeps ==
    ASSUME SoundInvariant, DecodeFrame
    PROVE  SoundInvariant'
<1> USE DEF SoundInvariant
<1>1. PICK sync \in BOOLEAN, features \in {0, Features} :
         /\ IF backend = "rade" THEN RadeFrame(sync, features)
                                ELSE Codec2Frame(features)
         /\ last_sync' = sync
  BY DEF DecodeFrame
<1>2. /\ pushing /\ Len(iq) >= needed
      /\ taken' = IF taken = 0 THEN Head(iq) ELSE taken
      /\ iq' = SubSeq(iq, needed + 1, Len(iq))
      /\ needed' \in Amounts
      /\ UNCHANGED <<backend, pushing, speech, produced, jobs, waiting,
                     expected_sequence, expected_sequence_valid, dropped_frames,
                     stream, interrupted, refused, lost, slow>>
  BY DEF DecodeFrame, decoderVars, history
<1>3. /\ needed \in Nat \ {0} /\ iq \in Seq(Numbers) /\ Len(iq) \in Nat
      /\ pcm \in Seq(Numbers) /\ primer \in Seq(Numbers) /\ Len(primer) <= Priming
      /\ stream > 0 /\ stream \in Nat /\ Features \in Nat
  BY <1>2, SoundNumbers, LenProperties DEF TypeOK, Positioned
<1>4. iq # <<>>
  BY <1>2, <1>3, EmptySeq
<1>5. /\ Head(iq) \in Numbers
      /\ iq' \in Seq(Numbers)
      /\ \A m : Since(m, iq) => Head(iq) > m /\ Since(m, iq')
  <2>1. needed + 1 \in 1..Len(iq) + 1 /\ Len(iq) \in 0..Len(iq)
    BY <1>2, <1>3
  <2>2. SubSeq(iq, needed + 1, Len(iq)) \in Seq(Numbers)
    BY <1>3, <2>1, SubSeqProperties
  <2>3. \A m : Since(m, iq) => Since(m, SubSeq(iq, needed + 1, Len(iq)))
    BY <1>3, <2>1, PartSince
  <2> QED
    BY <1>2, <1>3, <1>4, <2>2, <2>3, TailOf
<1>6. /\ pcm' \in Seq(Numbers) /\ primer' \in Seq(Numbers) /\ Len(primer') <= Priming
      /\ \A m : Since(m, iq) /\ Since(m, pcm) => Since(m, pcm')
      /\ backend = "rade" =>
            \A m : Since(m, iq) /\ Since(m, primer) => Since(m, primer')
  <2>1. CASE backend = "rade"
    BY <1>1, <1>4, <2>1, RadeFrameKeeps
  <2>2. CASE backend # "rade"
    <3>1. primer' = primer /\ pcm' = pcm \o Copies(features, Head(iq))
          /\ features \in Nat
      BY <1>1, <1>3, <2>2 DEF Codec2Frame
    <3>2. Copies(features, Head(iq)) \in Seq(Numbers)
      BY <1>5, <3>1, CopiesAre
    <3>3. pcm \o Copies(features, Head(iq)) \in Seq(Numbers)
      BY <1>3, <3>2, ConcatProperties
    <3>4. ASSUME NEW m, Since(m, iq), Since(m, pcm) PROVE Since(m, pcm')
      <4>1. Since(m, Copies(features, Head(iq)))
        BY <1>5, <3>1, <3>4, CopiesSince
      <4> QED
        BY <1>3, <3>1, <3>2, <3>4, <4>1, JoinSince
    <3> QED
      BY <1>3, <2>2, <3>1, <3>3, <3>4
  <2> QED
    BY <2>1, <2>2
<1>7. TypeOK'
  BY <1>1, <1>2, <1>5, <1>6 DEF TypeOK
<1>8. Positioned'
  BY <1>2, <1>3 DEF Positioned, SequenceOf
<1>9. NothingCrosses'
  <2>1. Since(interrupted', speech')
    BY <1>2 DEF NothingCrosses
  <2>2. ASSUME NEW n \in {interrupted, refused}
        PROVE  /\ Since(n, iq') /\ Since(n, pcm')
               /\ backend = "rade" => Since(n, primer') /\ (taken' = 0 \/ taken' > n)
    <3>1. /\ Since(n, iq) /\ Since(n, pcm)
          /\ backend = "rade" => Since(n, primer) /\ (taken = 0 \/ taken > n)
      BY DEF NothingCrosses
    <3> QED
      BY <1>2, <1>5, <1>6, <3>1
  <2> QED
    BY <1>2, <2>1, <2>2 DEF NothingCrosses
<1>10. DropsCounted'
  BY <1>2 DEF DropsCounted
<1> QED
  BY <1>7, <1>8, <1>9, <1>10

\* A packet at its turn, behind a gap, or one that does not fit.
LEMMA ReceiveKeeps ==
    ASSUME SoundInvariant, Receive
    PROVE  SoundInvariant'
<1> USE DEF SoundInvariant
<1> DEFINE p == produced + 1
           gap == expected_sequence_valid /\ Unexpected(SequenceOf(p))
           overflow == ~gap /\ Overflows(iq)
           missing == IF stream = 0 THEN 0 ELSE p - 1 - stream
           packet == Copies(PacketSize, p)
<1>1. /\ backend # "none" /\ ~waiting /\ ~pushing
      /\ produced < MaxPackets /\ produced' = p
      /\ expected_sequence' = SequenceOf(p + 1) /\ expected_sequence_valid' = TRUE
      /\ dropped_frames' = IF gap THEN dropped_frames + Missed(SequenceOf(p))
                                  ELSE dropped_frames
      /\ speech' = IF gap THEN <<>> ELSE speech
      /\ iq' = IF overflow THEN <<>> ELSE (IF gap THEN <<>> ELSE iq) \o packet
      /\ IF gap \/ overflow THEN reset ELSE UNCHANGED modem
      /\ pushing' = TRUE /\ stream' = p
      /\ interrupted' = IF stream = 0 \/ missing > 0 THEN p - 1 ELSE interrupted
      /\ refused' = IF overflow THEN p ELSE refused
      /\ lost' = lost + missing
      /\ UNCHANGED <<backend, waiting, pcm, jobs, slow>>
  BY DEF Receive
<1>2. /\ produced \in Nat /\ stream \in Nat /\ stream <= produced
      /\ interrupted \in Nat /\ interrupted <= produced
      /\ refused \in Nat /\ refused <= produced
      /\ Modulus \in Nat \ {0, 1} /\ PacketSize \in Nat
      /\ iq \in Seq(Numbers) /\ pcm = <<>>
      /\ speech \in Seq(Numbers) /\ Len(speech) <= MaxSpeech /\ 0 <= MaxSpeech
  BY <1>1, SoundNumbers, SoundAssumption DEF TypeOK, Positioned
<1>3. missing \in Nat /\ p \in Numbers /\ p <= MaxPackets
  BY <1>1, <1>2, SoundNumbers DEF Numbers
<1>4. gap <=> missing > 0
  <2>1. CASE stream = 0
    BY <2>1 DEF Positioned
  <2>2. CASE stream # 0
    <3>1. /\ expected_sequence_valid /\ expected_sequence = SequenceOf(stream + 1)
          /\ produced - stream < Modulus
      BY <1>2, <2>2 DEF Positioned
    <3>2. ((p % Modulus) - ((stream + 1) % Modulus)) % Modulus = p - (stream + 1)
      <4>1. Modulus \in Nat \ {0} /\ stream + 1 \in Nat /\ p \in Nat
            /\ stream + 1 <= p /\ p < stream + 1 + Modulus
        BY <1>2, <3>1
      <4> HIDE DEF p
      <4> QED
        BY <4>1, CountsMissing
    <3>3. CASE p = stream + 1
      BY <1>2, <2>2, <3>1, <3>3 DEF Unexpected
    <3>4. CASE p # stream + 1
      <4>1. p % Modulus # (stream + 1) % Modulus
        <5> SUFFICES ASSUME p % Modulus = (stream + 1) % Modulus PROVE FALSE
          OBVIOUS
        <5>1. p % Modulus \in Int
          BY <1>2, Division
        <5>2. (p % Modulus) - ((stream + 1) % Modulus) = 0
          BY <5>1
        <5>3. 0 % Modulus = 0
          BY <1>2, Remains
        <5> QED
          BY <1>2, <3>2, <3>4, <5>2, <5>3
      <4>2. p - 1 - stream > 0
        BY <1>2, <3>4
      <4> QED
        BY <2>2, <3>1, <4>1, <4>2 DEF Unexpected, SequenceOf
    <3> QED
      BY <3>3, <3>4
  <2> QED
    BY <2>1, <2>2
<1>5. gap => Missed(SequenceOf(p)) = missing
  <2> SUFFICES ASSUME gap PROVE Missed(SequenceOf(p)) = missing
    OBVIOUS
  <2>1. stream > 0 /\ expected_sequence = SequenceOf(stream + 1)
        /\ produced - stream < Modulus
    BY DEF Positioned
  <2>2. /\ Modulus \in Nat \ {0} /\ stream + 1 \in Nat /\ p \in Nat
        /\ stream + 1 <= p /\ p < stream + 1 + Modulus
        /\ missing = p - (stream + 1)
    BY <1>2, <2>1
  <2> HIDE DEF p, missing, gap
  <2>3. ((p % Modulus) - ((stream + 1) % Modulus)) % Modulus = p - (stream + 1)
    BY <2>2, CountsMissing
  <2> QED
    BY <2>1, <2>2, <2>3 DEF Missed, SequenceOf
<1>6. /\ packet \in Seq(Numbers)
      /\ \A m \in Nat : m < p => Since(m, packet)
  BY <1>2, <1>3, CopiesAre, CopiesSince
<1>7. <<>> \in Seq(Numbers) /\ Len(<<>>) = 0 /\ (IF gap THEN <<>> ELSE iq) \in Seq(Numbers)
  BY <1>2, EmptySeq
<1>8. overflow => backend = "rade"
  BY DEF Overflows
<1> HIDE DEF packet, missing, gap, overflow
<1>9. /\ needed' \in Amounts /\ taken' \in Numbers \cup {0}
      /\ primer' \in Seq(Numbers) /\ Len(primer') <= Priming
      /\ last_sync' \in BOOLEAN
      /\ backend = "rade" /\ (gap \/ overflow) => taken' = 0 /\ primer' = <<>>
      /\ ~(gap \/ overflow) => taken' = taken /\ primer' = primer
  <2>1. 0 <= Priming
    BY SoundNumbers
  <2> QED
    BY <1>1, <1>7, <2>1 DEF reset, OpenModem, modem, TypeOK
<1>10. iq' \in Seq(Numbers) /\ speech' \in Seq(Numbers) /\ Len(speech') <= MaxSpeech
  BY <1>1, <1>2, <1>6, <1>7, ConcatProperties
<1>11. TypeOK'
  <2>1. expected_sequence' \in 0..Modulus - 1
    BY <1>1, <1>2, Division DEF SequenceOf
  <2>2. dropped_frames' \in Nat /\ lost' \in Nat
    BY <1>1, <1>3, <1>5 DEF TypeOK
  <2>3. /\ stream' \in 0..produced' /\ interrupted' \in 0..produced'
        /\ refused' \in 0..produced' /\ produced' \in 0..MaxPackets
    BY <1>1, <1>2, <1>3
  <2> QED
    BY <1>1, <1>2, <1>9, <1>10, <2>1, <2>2, <2>3 DEF TypeOK
<1>12. Positioned'
  BY <1>1, <1>2 DEF Positioned
<1>13. DropsCounted'
  <2>1. /\ dropped_frames \in Nat /\ lost \in Nat /\ slow \in Nat
        /\ dropped_frames = lost + slow
    BY DEF TypeOK, DropsCounted
  <2>2. dropped_frames' = dropped_frames + missing
    <3>1. CASE gap
      BY <1>1, <1>5, <3>1
    <3>2. CASE ~gap
      BY <1>1, <1>3, <1>4, <2>1, <3>2
    <3> QED
      BY <3>1, <3>2
  <2>3. lost' = lost + missing /\ slow' = slow
    BY <1>1
  <2> QED
    BY <1>3, <2>1, <2>2, <2>3 DEF DropsCounted
<1>14. NothingCrosses'
  <2>1. ASSUME NEW n \in {interrupted, refused}
        PROVE  n \in Nat /\ n < p
    BY <1>2, <2>1
  <2>2. CASE gap
    <3>1. /\ ~overflow /\ speech' = <<>> /\ iq' = packet
          /\ interrupted' = p - 1 /\ refused' = refused
          /\ backend = "rade" => taken' = 0 /\ primer' = <<>>
      BY <1>1, <1>4, <1>6, <1>9, <2>2, ConcatEmptySeq DEF overflow
    <3>2. ASSUME NEW n \in {interrupted', refused'} PROVE Since(n, iq')
      BY <1>2, <1>6, <2>1, <3>1, <3>2
    <3> QED
      BY <1>1, <1>2, <3>1, <3>2, EmptySince DEF NothingCrosses
  <2>3. CASE ~gap /\ stream = 0
    <3>1. /\ speech' = <<>> /\ iq' \in {<<>>, packet}
          /\ interrupted' = p - 1
          /\ backend = "rade" => taken' = 0 /\ primer' = <<>>
      BY <1>1, <1>2, <1>6, <1>9, <2>3, ConcatEmptySeq DEF Positioned
    <3>2. overflow => iq' = <<>>
      BY <1>1
    <3>3. ASSUME NEW n \in {interrupted', refused'} PROVE Since(n, iq')
      <4>1. CASE iq' = <<>>
        BY <4>1, EmptySince
      <4>2. CASE iq' # <<>>
        <5>1. iq' = packet /\ n \in Nat /\ n < p
          BY <1>1, <1>2, <2>1, <3>1, <3>2, <3>3, <4>2
        <5> QED
          BY <1>6, <5>1
      <4> QED
        BY <4>1, <4>2
    <3> QED
      BY <1>1, <1>2, <3>1, <3>3, EmptySince DEF NothingCrosses
  <2>4. CASE ~gap /\ stream # 0
    <3>1. interrupted' = interrupted /\ speech' = speech
      BY <1>1, <1>3, <1>4, <2>4
    <3>2. CASE overflow
      <4>1. iq' = <<>> /\ backend = "rade" /\ taken' = 0 /\ primer' = <<>>
        BY <1>1, <1>8, <1>9, <3>2
      <4> QED
        BY <1>1, <1>2, <3>1, <4>1, EmptySince DEF NothingCrosses
    <3>3. CASE ~overflow
      <4>1. /\ iq' = iq \o packet /\ taken' = taken /\ primer' = primer
            /\ refused' = refused
        BY <1>1, <1>9, <2>4, <3>3
      <4>2. ASSUME NEW n \in {interrupted, refused} PROVE Since(n, iq')
        <5>1. Since(n, iq) /\ Since(n, packet)
          BY <1>6, <2>1, <4>2 DEF NothingCrosses
        <5> QED
          BY <1>2, <1>6, <4>1, <5>1, JoinSince
      <4> QED
        BY <1>1, <1>2, <3>1, <4>1, <4>2, EmptySince DEF NothingCrosses
    <3> QED
      BY <3>2, <3>3
  <2> QED
    BY <2>2, <2>3, <2>4
<1> QED
  BY <1>11, <1>12, <1>13, <1>14

\* What is returned is what was queued, and nothing older.
LEMMA EndPushKeeps ==
    ASSUME SoundInvariant, EndPush
    PROVE  SoundInvariant'
<1> USE DEF SoundInvariant
<1> DEFINE made == IF backend = "rade" \/ last_sync THEN pcm ELSE <<>>
           queue == Newest(MaxSpeech, speech \o made)
<1>1. /\ pushing /\ pushing' = FALSE /\ pcm' = <<>>
      /\ speech' = queue \/ (queue # <<>> /\ speech' = Tail(queue))
      /\ UNCHANGED <<backend, waiting, expected_sequence, expected_sequence_valid,
                     dropped_frames, iq, needed, taken, primer, last_sync,
                     produced, jobs, stream, interrupted, refused, lost, slow>>
  BY DEF EndPush, decoderVars, modem, history
<1>2. /\ pcm \in Seq(Numbers) /\ speech \in Seq(Numbers) /\ MaxSpeech \in Nat \ {0}
      /\ <<>> \in Seq(Numbers)
  BY SoundNumbers, EmptySeq DEF TypeOK
<1>3. made \in Seq(Numbers) /\ Since(interrupted, speech) /\ Since(interrupted, made)
  BY <1>2, EmptySince DEF NothingCrosses
<1> HIDE DEF made
<1>4. speech \o made \in Seq(Numbers) /\ Since(interrupted, speech \o made)
  BY <1>2, <1>3, ConcatProperties, JoinSince
<1>5. queue \in Seq(Numbers) /\ Len(queue) <= MaxSpeech /\ Since(interrupted, queue)
  BY <1>2, <1>4, NewestOf
<1> HIDE DEF queue
<1>6. /\ speech' \in Seq(Numbers) /\ Len(speech') <= MaxSpeech
      /\ Since(interrupted, speech')
  <2>1. CASE speech' = queue
    BY <1>5, <2>1
  <2>2. CASE queue # <<>> /\ speech' = Tail(queue)
    <3>1. /\ Tail(queue) \in Seq(Numbers) /\ Len(Tail(queue)) <= Len(queue)
          /\ Since(interrupted, Tail(queue))
      BY <1>5, <2>2, TailOf
    <3>2. Len(queue) \in Nat /\ Len(Tail(queue)) \in Nat /\ MaxSpeech \in Nat
      BY <1>2, <1>5, <3>1, LenProperties
    <3> QED
      BY <1>5, <2>2, <3>1, <3>2
  <2> QED
    BY <1>1, <2>1, <2>2
<1>7. TypeOK'
  BY <1>1, <1>2, <1>6 DEF TypeOK
<1>8. Positioned'
  <2>1. stream > 0
    BY <1>1 DEF Positioned
  <2>2. stream # 0
    BY <2>1, SoundNumbers
  <2> QED
    BY <1>1, <2>1, <2>2 DEF Positioned, SequenceOf
<1>9. NothingCrosses'
  BY <1>1, <1>6, EmptySince DEF NothingCrosses
<1>10. DropsCounted'
  BY <1>1 DEF DropsCounted
<1> QED
  BY <1>7, <1>8, <1>9, <1>10

LEMMA EndSlowPushKeeps ==
    ASSUME SoundInvariant, EndSlowPush
    PROVE  SoundInvariant'
<1> USE DEF SoundInvariant
<1>1. /\ pushing /\ pushing' = FALSE /\ pcm' = <<>>
      /\ dropped_frames' = dropped_frames + 1 /\ slow' = slow + 1
      /\ iq' = <<>> /\ speech' = <<>>
      /\ reset
      /\ interrupted' = stream
      /\ UNCHANGED <<backend, waiting, expected_sequence, expected_sequence_valid,
                     produced, jobs, stream, refused, lost>>
  BY DEF EndSlowPush
<1>2. <<>> \in Seq(Numbers) /\ Len(<<>>) = 0 /\ 0 <= MaxSpeech /\ 0 <= Priming
  BY SoundNumbers, EmptySeq
<1>3. /\ needed' \in Amounts /\ taken' \in Numbers \cup {0}
      /\ primer' \in Seq(Numbers) /\ Len(primer') <= Priming
      /\ last_sync' \in BOOLEAN
      /\ backend = "rade" => taken' = 0 /\ primer' = <<>>
  BY <1>1, <1>2 DEF reset, OpenModem, modem, TypeOK
<1>4. TypeOK'
  <2>1. dropped_frames' \in Nat /\ slow' \in Nat /\ interrupted' \in 0..produced'
    BY <1>1 DEF TypeOK
  <2> QED
    BY <1>1, <1>2, <1>3, <2>1 DEF TypeOK
<1>5. Positioned'
  BY <1>1, <1>3 DEF Positioned, SequenceOf
<1>6. NothingCrosses'
  BY <1>1, <1>3, EmptySince DEF NothingCrosses
<1>7. DropsCounted'
  BY <1>1 DEF DropsCounted, TypeOK
<1> QED
  BY <1>4, <1>5, <1>6, <1>7

\* A stream ends with all queues and what the RADE modem holds.
StreamEnded ==
    /\ NewStream
    /\ pushing' = FALSE /\ pcm' = <<>>
    /\ needed' \in Amounts /\ last_sync' \in BOOLEAN
    /\ \/ taken' = 0 /\ primer' = <<>>
       \/ backend' # "rade" /\ taken' = taken /\ primer' = primer
    /\ backend' \in {"none", "rade", "codec2"} /\ waiting' \in BOOLEAN
    /\ jobs' \in 0..MaxJobs
    /\ UNCHANGED <<expected_sequence, dropped_frames, produced, interrupted,
                   refused, lost, slow>>

\* Then nothing is left to cross.
LEMMA StreamEnds ==
    ASSUME SoundInvariant, StreamEnded
    PROVE  SoundInvariant'
<1> USE DEF SoundInvariant, StreamEnded
<1>1. /\ expected_sequence_valid' = FALSE /\ speech' = <<>> /\ iq' = <<>> /\ stream' = 0
  BY DEF NewStream
<1>2. /\ <<>> \in Seq(Numbers) /\ Len(<<>>) = 0 /\ 0 <= MaxSpeech /\ 0 <= Priming
      /\ 0 \in 0..produced
  BY SoundNumbers, EmptySeq
<1>3. TypeOK'
  <2>1. taken' \in Numbers \cup {0} /\ primer' \in Seq(Numbers) /\ Len(primer') <= Priming
    BY <1>2 DEF TypeOK
  <2> QED
    BY <1>1, <1>2, <2>1 DEF TypeOK
<1>4. Positioned'
  BY <1>1 DEF Positioned
<1>5. NothingCrosses'
  BY <1>1, EmptySince DEF NothingCrosses
<1>6. DropsCounted'
  BY DEF DropsCounted
<1> QED
  BY <1>3, <1>4, <1>5, <1>6

LEMMA JobsKeep ==
    ASSUME SoundInvariant,
           \/ \E name \in {"rade", "codec2"}, test \in BOOLEAN : StartJob(name, test)
           \/ ArmTest
           \/ Stop
    PROVE  SoundInvariant'
<1>0. TypeOK /\ Positioned
  BY DEF SoundInvariant
<1>1. ASSUME NEW name \in {"rade", "codec2"}, NEW test \in BOOLEAN, StartJob(name, test)
      PROVE  SoundInvariant'
  <2>1. NewStream /\ needed' \in Amounts /\ last_sync' \in BOOLEAN
        /\ taken' = 0 /\ primer' = <<>>
    BY <1>1 DEF StartJob, OpenModem
  <2>2. /\ backend' \in {"none", "rade", "codec2"} /\ waiting' \in BOOLEAN
        /\ jobs' \in 0..MaxJobs
    BY <1>0, <1>1, SoundAssumption DEF StartJob, TypeOK
  <2>3. pushing' = FALSE /\ pcm' = <<>>
    BY <1>0, <1>1 DEF StartJob, Positioned, TypeOK
  <2>4. UNCHANGED <<expected_sequence, dropped_frames, produced, interrupted,
                    refused, lost, slow>>
    BY <1>1 DEF StartJob
  <2> QED
    BY <2>1, <2>2, <2>3, <2>4, StreamEnds DEF StreamEnded
<1>2. CASE ArmTest
  <2>1. NewStream /\ needed' \in Amounts /\ last_sync' \in BOOLEAN
    BY <1>0, <1>2 DEF ArmTest, reset, OpenModem, modem, TypeOK
  <2>2. \/ taken' = 0 /\ primer' = <<>>
        \/ backend' # "rade" /\ taken' = taken /\ primer' = primer
    BY <1>2 DEF ArmTest, reset, OpenModem, modem
  <2>3. /\ backend' \in {"none", "rade", "codec2"} /\ waiting' \in BOOLEAN
        /\ jobs' \in 0..MaxJobs
    BY <1>0, <1>2 DEF ArmTest, TypeOK
  <2>4. pushing' = FALSE /\ pcm' = <<>>
    BY <1>0, <1>2 DEF ArmTest, Positioned, TypeOK
  <2>5. UNCHANGED <<expected_sequence, dropped_frames, produced, interrupted,
                    refused, lost, slow>>
    BY <1>2 DEF ArmTest
  <2> QED
    BY <2>1, <2>2, <2>3, <2>4, <2>5, StreamEnds DEF StreamEnded
<1>3. CASE Stop
  <2>1. NewStream /\ needed' \in Amounts /\ last_sync' \in BOOLEAN
        /\ taken' = 0 /\ primer' = <<>>
    BY <1>3 DEF Stop, OpenModem
  <2>2. /\ backend' \in {"none", "rade", "codec2"} /\ waiting' \in BOOLEAN
        /\ jobs' \in 0..MaxJobs
    BY <1>0, <1>3 DEF Stop, TypeOK
  <2>3. pushing' = FALSE /\ pcm' = <<>>
    BY <1>3 DEF Stop
  <2>4. UNCHANGED <<expected_sequence, dropped_frames, produced, interrupted,
                    refused, lost, slow>>
    BY <1>3 DEF Stop
  <2> QED
    BY <2>1, <2>2, <2>3, <2>4, StreamEnds DEF StreamEnded
<1> QED
  BY <1>1, <1>2, <1>3

LEMMA LoseKeeps ==
    ASSUME SoundInvariant, Lose
    PROVE  SoundInvariant'
<1> USE DEF SoundInvariant
<1>1. /\ produced < MaxPackets /\ produced' = produced + 1
      /\ stream > 0 => produced' - stream < Modulus
      /\ UNCHANGED <<backend, waiting, expected_sequence, expected_sequence_valid,
                     dropped_frames, pushing, iq, needed, taken, primer, last_sync,
                     pcm, speech, jobs, stream, interrupted, refused, lost, slow>>
  BY DEF Lose, decoderVars, modem, history
<1>2. TypeOK'
  <2>1. /\ produced' \in 0..MaxPackets /\ stream' \in 0..produced'
        /\ interrupted' \in 0..produced' /\ refused' \in 0..produced'
    BY <1>1, SoundNumbers
  <2> QED
    BY <1>1, <2>1 DEF TypeOK
<1>3. Positioned'
  BY <1>1 DEF Positioned, SequenceOf
<1>4. NothingCrosses'
  BY <1>1 DEF NothingCrosses
<1>5. DropsCounted'
  BY <1>1 DEF DropsCounted
<1> QED
  BY <1>2, <1>3, <1>4, <1>5

LEMMA SoundStep == SoundInvariant /\ [Next]_vars => SoundInvariant'
<1> SUFFICES ASSUME SoundInvariant, [Next]_vars PROVE SoundInvariant'
  OBVIOUS
<1>1. CASE UNCHANGED vars
  BY <1>1 DEF SoundInvariant, TypeOK, Positioned, NothingCrosses, DropsCounted,
              SequenceOf, vars, decoderVars, modem, history
<1>2. CASE Next
  BY <1>2, DecodeFrameKeeps, ReceiveKeeps, EndPushKeeps, EndSlowPushKeeps, JobsKeep,
     LoseKeeps DEF Next
<1> QED
  BY <1>1, <1>2

\* The invariant, with the types, in every reachable state.
THEOREM SoundCorrect == Spec => []SoundInvariant
BY SoundInit, SoundStep, PTL DEF Spec

\* Whatever is lost, refused, late or stopped: no sound from before an
\* interruption is decoded or returned behind it.
THEOREM NothingCrossesCorrect == Spec => []NothingCrosses
BY SoundCorrect, PTL DEF SoundInvariant

\* The dropped frames are counted exactly while fewer packets are lost in a
\* row than the number has values.
THEOREM DropsCountedCorrect == Spec => []DropsCounted
BY SoundCorrect, PTL DEF SoundInvariant
==============================================================================
