------------------------- MODULE ReturnAudioProofs -------------------------
(***************************************************************************)
(* For any number of sessions and packets and any queue limit: the queue   *)
(* is never forgotten, speech stays in order, and what is heard is never   *)
(* more than MaxQueued packets behind what has arrived.                    *)
(*                                                                         *)
(* The argument: the packets under way and the packets queued carry        *)
(* consecutive numbers (Numbered), so the position of a packet in the      *)
(* queue is its age.                                                       *)
(***************************************************************************)
EXTENDS ReturnAudio, TLAPS

\* What holds of every reachable state.
Invariant == TypeOK /\ Numbered /\ QueueIsKnown

Counts == [sent : Numbers, queued : Numbers, heard : Numbers]

\* The queue after discarding its excess is the newest end of the queue.
LEMMA TrimmedIsNewest ==
    ASSUME MaxQueued \in Nat \ {0}, NEW S, rtn_snd_nd \in Seq(S)
    PROVE  /\ Trimmed \in Seq(S)
           /\ Len(Trimmed) <= MaxQueued
           /\ Len(Trimmed) <= Len(rtn_snd_nd)
           /\ rtn_snd_nd # <<>> => Trimmed # <<>>
           /\ \A i \in 1..Len(Trimmed) :
                 Trimmed[i] = rtn_snd_nd[Len(rtn_snd_nd) - Len(Trimmed) + i]
<1> DEFINE n == Len(rtn_snd_nd)
<1>0. n \in Nat
  OBVIOUS
<1>1. CASE n <= MaxQueued
  BY <1>0, <1>1 DEF Trimmed
<1>2. CASE n > MaxQueued
  <2>1. Trimmed = SubSeq(rtn_snd_nd, n - MaxQueued + 1, n)
    BY <1>0, <1>2 DEF Trimmed
  <2>2. Len(Trimmed) = MaxQueued
    BY <1>0, <1>2, <2>1
  <2>3. Trimmed \in Seq(S)
    BY <1>0, <1>2, <2>1
  <2>4. \A i \in 1..MaxQueued : Trimmed[i] = rtn_snd_nd[n - MaxQueued + i]
    BY <1>0, <1>2, <2>1
  <2> QED
    BY <1>0, <1>2, <2>2, <2>3, <2>4
<1> QED
  BY <1>0, <1>1, <1>2

\* What the type invariant says of the numbers and the queues.
LEMMA Typed ==
    ASSUME TypeOK
    PROVE  /\ numbers \in Counts
           /\ numbers.sent \in Nat /\ numbers.queued \in Nat
           /\ numbers.heard \in Nat
           /\ numbers.sent <= MaxPackets
           /\ wire \in Seq(Packet) /\ Len(wire) \in Nat
           /\ rtn_snd_nd \in Seq(Packet) /\ Len(rtn_snd_nd) \in Nat
<1>1. /\ numbers \in Counts
      /\ wire \in Seq(Packet) /\ rtn_snd_nd \in Seq(Packet)
  BY DEF TypeOK, Counts
<1>2. Len(wire) \in Nat /\ Len(rtn_snd_nd) \in Nat
  BY <1>1
<1>3. /\ numbers.sent \in Numbers /\ numbers.queued \in Numbers
      /\ numbers.heard \in Numbers
  BY <1>1 DEF Counts
<1> QED
  BY <1>1, <1>2, <1>3, ReturnAssumption DEF Numbers

\* The initial state: nothing sent, nothing queued.
LEMMA InitInvariant == Init => Invariant
<1> SUFFICES ASSUME Init PROVE Invariant
  OBVIOUS
<1>1. 0 \in Numbers
  BY ReturnAssumption DEF Numbers
<1>2. session \in 0..MaxSessions
  BY ReturnAssumption DEF Init
<1>3. wire \in Seq(Packet) /\ rtn_snd_nd \in Seq(Packet)
  BY DEF Init
<1>4. numbers \in [sent : Numbers, queued : Numbers, heard : Numbers]
  BY <1>1 DEF Init
<1>5. heard \in {"live", "silence", "speech"}
  BY DEF Init
<1>6. /\ decoding \in BOOLEAN /\ want_rtn_snd \in BOOLEAN
      /\ have_rtn_snd \in BOOLEAN
  BY DEF Init
<1>7. TypeOK
  BY <1>2, <1>3, <1>4, <1>5, <1>6 DEF TypeOK
<1>8. Len(wire) = 0 /\ Len(rtn_snd_nd) = 0
  BY DEF Init
<1>9. numbers.sent = 0 /\ numbers.queued = 0 /\ numbers.heard = 0
  BY DEF Init
<1>10. Numbered
  BY <1>8, <1>9 DEF Numbered
<1> QED
  BY <1>7, <1>10 DEF Invariant, QueueIsKnown, Init

\* The closed gate empties the queue.
LEMMA OpenGateInvariant ==
    Invariant /\ OpenGate
    /\ UNCHANGED <<session, decoding, want_rtn_snd, wire>>
    => Invariant'
<1> SUFFICES ASSUME Invariant, OpenGate,
                    UNCHANGED <<session, decoding, want_rtn_snd, wire>>
             PROVE  Invariant'
  OBVIOUS
<1>1. /\ rtn_snd_nd' = <<>> /\ have_rtn_snd' = FALSE /\ heard' = "live"
      /\ numbers' = numbers
  BY DEF OpenGate, Invariant, QueueIsKnown
<1>2. Len(rtn_snd_nd') = 0 /\ rtn_snd_nd' \in Seq(Packet)
  BY <1>1
<1>3. TypeOK'
  BY <1>1, <1>2 DEF Invariant, TypeOK
<1>4. numbers.heard <= numbers.queued
  BY Typed DEF Invariant, Numbered
<1>5. numbers.heard + 0 = numbers.heard
  BY Typed DEF Invariant
<1>6. Numbered'
  BY <1>1, <1>2, <1>4, <1>5 DEF Invariant, Numbered
<1> QED
  BY <1>1, <1>3, <1>6 DEF Invariant, QueueIsKnown

\* What a cadence that plays speech does, in numbers: it plays the oldest of
\* the packets it keeps.
LEMMA SpeechPlayed ==
    ASSUME Invariant, SendSpeech
    PROVE  /\ Len(Trimmed) \in 1..MaxQueued
           /\ rtn_snd_nd' = Tail(Trimmed)
           /\ rtn_snd_nd' \in Seq(Packet)
           /\ Len(rtn_snd_nd') = Len(Trimmed) - 1
           /\ \A i \in 1..Len(rtn_snd_nd') :
                 rtn_snd_nd'[i] = numbers.queued - Len(rtn_snd_nd') + i
           /\ numbers'.sent = numbers.sent
           /\ numbers'.queued = numbers.queued
           /\ numbers'.heard = numbers.queued - Len(Trimmed) + 1
           /\ numbers' \in Counts
<1> DEFINE kept == Trimmed
<1>1. /\ numbers \in Counts /\ rtn_snd_nd \in Seq(Packet)
      /\ Len(rtn_snd_nd) \in Nat /\ numbers.queued \in Nat
  BY Typed DEF Invariant
<1>2. /\ kept \in Seq(Packet) /\ kept # <<>>
      /\ Len(kept) <= MaxQueued /\ Len(kept) <= Len(rtn_snd_nd)
      /\ \A i \in 1..Len(kept) :
            kept[i] = rtn_snd_nd[Len(rtn_snd_nd) - Len(kept) + i]
  BY <1>1, TrimmedIsNewest, ReturnAssumption DEF SendSpeech
<1>3. /\ rtn_snd_nd' = Tail(kept)
      /\ numbers' = [numbers EXCEPT !.heard = Head(kept)]
  BY DEF SendSpeech, Left
<1> HIDE DEF kept
<1>4. Len(kept) \in Nat \ {0}
  BY <1>2
<1>5. \A i \in 1..Len(rtn_snd_nd) :
         rtn_snd_nd[i] = numbers.queued - Len(rtn_snd_nd) + i
  BY DEF Invariant, Numbered
<1>6. ASSUME NEW i \in 1..Len(kept)
      PROVE  kept[i] = numbers.queued - Len(kept) + i
  <2>1. Len(rtn_snd_nd) - Len(kept) + i \in 1..Len(rtn_snd_nd)
    BY <1>1, <1>2, <1>4
  <2>2. kept[i] = rtn_snd_nd[Len(rtn_snd_nd) - Len(kept) + i]
    BY <1>2
  <2>3. rtn_snd_nd[Len(rtn_snd_nd) - Len(kept) + i] =
           numbers.queued - Len(rtn_snd_nd) + (Len(rtn_snd_nd) - Len(kept) + i)
    BY <1>5, <2>1
  <2>4. /\ Len(rtn_snd_nd) \in Int /\ Len(kept) \in Int
        /\ numbers.queued \in Int /\ i \in Int
    BY <1>1, <1>4
  <2> QED
    BY <2>2, <2>3, <2>4
<1>7. Head(kept) = kept[1] /\ Head(kept) \in Packet
  BY <1>2, <1>4
<1>8. Head(kept) = numbers.queued - Len(kept) + 1
  BY <1>4, <1>6, <1>7
<1>9. /\ Tail(kept) \in Seq(Packet)
      /\ Len(Tail(kept)) = Len(kept) - 1
      /\ \A i \in 1..(Len(kept) - 1) : Tail(kept)[i] = kept[i + 1]
  BY <1>2, <1>4
<1>10. Head(kept) \in Numbers
  BY <1>7, ReturnAssumption DEF Packet, Numbers
<1>11. /\ numbers'.sent = numbers.sent /\ numbers'.queued = numbers.queued
       /\ numbers'.heard = Head(kept)
       /\ numbers' \in Counts
  BY <1>1, <1>3, <1>10 DEF Counts
<1>12. ASSUME NEW i \in 1..(Len(kept) - 1)
       PROVE  Tail(kept)[i] = numbers.queued - (Len(kept) - 1) + i
  <2>1. i + 1 \in 1..Len(kept)
    BY <1>4
  <2>2. Tail(kept)[i] = kept[i + 1]
    BY <1>9
  <2> QED
    BY <1>1, <1>4, <1>6, <2>1, <2>2
<1>13. Len(kept) \in 1..MaxQueued
  BY <1>2, <1>4, ReturnAssumption
<1>14. \A i \in 1..Len(rtn_snd_nd') :
          rtn_snd_nd'[i] = numbers.queued - Len(rtn_snd_nd') + i
  BY <1>3, <1>9, <1>12
<1> QED
  BY <1>3, <1>8, <1>9, <1>11, <1>13, <1>14 DEF kept

\* A cadence of the sound task.
LEMMA CadenceInvariant == Invariant /\ c2s_sound_mon => Invariant'
<1> SUFFICES ASSUME Invariant, c2s_sound_mon PROVE Invariant'
  OBVIOUS
<1>1. UNCHANGED <<session, decoding, want_rtn_snd, wire>>
  BY DEF c2s_sound_mon
<1>2. CASE SendSpeech
  <2>1. have_rtn_snd /\ have_rtn_snd' = have_rtn_snd /\ heard' = "speech"
    BY <1>2 DEF SendSpeech
  <2>2. TypeOK'
    BY <1>1, <1>2, <2>1, SpeechPlayed DEF Invariant, TypeOK, Counts
  <2>3. numbers'.heard + Len(rtn_snd_nd') <= numbers'.queued
    <3>1. numbers.queued \in Nat /\ Len(Trimmed) \in Nat
      BY <1>2, SpeechPlayed, Typed, ReturnAssumption DEF Invariant
    <3> QED
      BY <1>2, <3>1, SpeechPlayed
  <2>4. Numbered'
    BY <1>1, <1>2, <2>3, SpeechPlayed DEF Invariant, Numbered
  <2> QED
    BY <2>1, <2>2, <2>4 DEF Invariant, QueueIsKnown
<1>3. CASE SendSilence
  <2>1. /\ UNCHANGED <<rtn_snd_nd, have_rtn_snd, numbers>>
        /\ heard' = "silence"
    BY <1>3 DEF SendSilence
  <2> QED
    BY <1>1, <2>1 DEF Invariant, TypeOK, Numbered, QueueIsKnown
<1> QED
  BY <1>1, <1>2, <1>3, OpenGateInvariant DEF c2s_sound_mon

\* The decoder returns a packet.
LEMMA ReturnInvariant == Invariant /\ ReturnSpeech => Invariant'
<1> SUFFICES ASSUME Invariant, ReturnSpeech PROVE Invariant'
  OBVIOUS
<1> DEFINE next == numbers.sent + 1
<1>1. next \in Numbers /\ next \in Packet
  BY Typed, ReturnAssumption DEF Invariant, ReturnSpeech, Numbers, Packet
<1>2. numbers' = [numbers EXCEPT !.sent = next] /\ wire' = Append(wire, next)
  BY DEF ReturnSpeech
<1>3. UNCHANGED <<session, decoding, want_rtn_snd, have_rtn_snd, rtn_snd_nd,
                  heard>>
  BY DEF ReturnSpeech
<1>4. /\ numbers'.sent = next /\ numbers'.queued = numbers.queued
      /\ numbers'.heard = numbers.heard /\ numbers' \in Counts
  BY <1>1, <1>2, Typed DEF Invariant, Counts
<1>5. /\ wire' \in Seq(Packet) /\ Len(wire') = Len(wire) + 1
      /\ \A i \in 1..Len(wire) : wire'[i] = wire[i]
      /\ wire'[Len(wire) + 1] = next
  BY <1>1, <1>2, Typed DEF Invariant
<1>6. TypeOK'
  BY <1>3, <1>4, <1>5 DEF Invariant, TypeOK, Counts
<1>7. numbers.sent = numbers.queued + Len(wire)
  BY DEF Invariant, Numbered
<1>8. next = numbers.queued + (Len(wire) + 1)
  <2>1. numbers.queued \in Nat /\ Len(wire) \in Nat
    BY Typed DEF Invariant
  <2> QED
    BY <1>7, <2>1
<1>9. \A i \in 1..Len(wire') : wire'[i] = numbers.queued + i
  <2>1. \A i \in 1..Len(wire) : wire[i] = numbers.queued + i
    BY DEF Invariant, Numbered
  <2>2. \A i \in 1..(Len(wire) + 1) : i \in 1..Len(wire) \/ i = Len(wire) + 1
    BY Typed DEF Invariant
  <2> QED
    BY <1>5, <1>8, <2>1, <2>2
<1>10. Numbered'
  BY <1>3, <1>4, <1>5, <1>8, <1>9 DEF Invariant, Numbered
<1> QED
  BY <1>3, <1>6, <1>10 DEF Invariant, QueueIsKnown

\* The monitor task queues a packet.
LEMMA QueueInvariant == Invariant /\ QueueSpeech => Invariant'
<1> SUFFICES ASSUME Invariant, QueueSpeech PROVE Invariant'
  OBVIOUS
<1>1. /\ wire # <<>> /\ wire' = Tail(wire) /\ have_rtn_snd' = TRUE
      /\ rtn_snd_nd' = Append(rtn_snd_nd, Head(wire))
      /\ numbers' = [numbers EXCEPT !.queued = Head(wire)]
  BY DEF QueueSpeech
<1>2. UNCHANGED <<session, decoding, want_rtn_snd, heard>>
  BY DEF QueueSpeech
<1>3. /\ wire \in Seq(Packet) /\ rtn_snd_nd \in Seq(Packet)
      /\ Len(wire) \in Nat \ {0} /\ Len(rtn_snd_nd) \in Nat
      /\ numbers \in Counts /\ numbers.queued \in Nat
      /\ numbers.heard \in Nat
  BY <1>1, Typed DEF Invariant
<1>4. Head(wire) = wire[1] /\ Head(wire) \in Packet
  BY <1>1, <1>3
<1>5. wire[1] = numbers.queued + 1
  BY <1>3 DEF Invariant, Numbered
<1>6. Head(wire) \in Numbers
  BY <1>4, ReturnAssumption DEF Packet, Numbers
<1>7. /\ numbers'.sent = numbers.sent /\ numbers'.queued = numbers.queued + 1
      /\ numbers'.heard = numbers.heard /\ numbers' \in Counts
  BY <1>1, <1>3, <1>4, <1>5, <1>6 DEF Counts
<1>8. /\ wire' \in Seq(Packet) /\ Len(wire') = Len(wire) - 1
      /\ \A i \in 1..(Len(wire) - 1) : wire'[i] = wire[i + 1]
  BY <1>1, <1>3
<1>9. /\ rtn_snd_nd' \in Seq(Packet)
      /\ Len(rtn_snd_nd') = Len(rtn_snd_nd) + 1
      /\ \A i \in 1..Len(rtn_snd_nd) : rtn_snd_nd'[i] = rtn_snd_nd[i]
      /\ rtn_snd_nd'[Len(rtn_snd_nd) + 1] = numbers.queued + 1
  BY <1>1, <1>3, <1>4, <1>5
<1>10. TypeOK'
  BY <1>1, <1>2, <1>7, <1>8, <1>9 DEF Invariant, TypeOK, Counts
<1>11. \A i \in 1..Len(wire') : wire'[i] = numbers'.queued + i
  <2> SUFFICES ASSUME NEW i \in 1..(Len(wire) - 1)
               PROVE  wire'[i] = numbers.queued + 1 + i
    BY <1>7, <1>8
  <2>1. i + 1 \in 1..Len(wire) /\ i \in Nat
    BY <1>3
  <2>2. wire[i + 1] = numbers.queued + (i + 1)
    BY <2>1 DEF Invariant, Numbered
  <2>3. wire'[i] = wire[i + 1]
    BY <1>8
  <2>4. numbers.queued \in Nat
    BY <1>3
  <2> QED
    BY <2>1, <2>2, <2>3, <2>4
<1>12. \A i \in 1..Len(rtn_snd_nd') :
          rtn_snd_nd'[i] = numbers'.queued - Len(rtn_snd_nd') + i
  <2> SUFFICES ASSUME NEW i \in 1..(Len(rtn_snd_nd) + 1)
               PROVE  rtn_snd_nd'[i] =
                        (numbers.queued + 1) - (Len(rtn_snd_nd) + 1) + i
    BY <1>7, <1>9
  <2>0. numbers.queued \in Nat /\ Len(rtn_snd_nd) \in Nat
    BY <1>3
  <2>1. CASE i \in 1..Len(rtn_snd_nd)
    <3>1. rtn_snd_nd[i] = numbers.queued - Len(rtn_snd_nd) + i
      BY <2>1 DEF Invariant, Numbered
    <3>2. rtn_snd_nd'[i] = rtn_snd_nd[i]
      BY <1>9, <2>1
    <3>3. numbers.queued - Len(rtn_snd_nd) + i
              = (numbers.queued + 1) - (Len(rtn_snd_nd) + 1) + i
      BY <2>0
    <3> QED
      BY <3>1, <3>2, <3>3
  <2>2. CASE i = Len(rtn_snd_nd) + 1
    <3>1. rtn_snd_nd'[i] = numbers.queued + 1
      BY <1>9, <2>2
    <3> QED
      BY <2>0, <2>2, <3>1
  <2> QED
    BY <1>3, <2>1, <2>2
<1>13. numbers.sent = numbers.queued + Len(wire)
       /\ numbers.heard + Len(rtn_snd_nd) <= numbers.queued
  BY DEF Invariant, Numbered
<1>14. numbers'.sent = numbers'.queued + Len(wire')
       /\ numbers'.heard + Len(rtn_snd_nd') <= numbers'.queued
  <2>1. /\ numbers.queued \in Nat /\ numbers.heard \in Nat
        /\ Len(wire) \in Nat /\ Len(rtn_snd_nd) \in Nat
    BY <1>3
  <2>2. /\ numbers.sent = (numbers.queued + 1) + (Len(wire) - 1)
        /\ numbers.heard + (Len(rtn_snd_nd) + 1) <= numbers.queued + 1
    BY <1>13, <2>1
  <2> QED
    BY <1>7, <1>8, <1>9, <2>2
<1>15. Numbered'
  BY <1>11, <1>12, <1>14 DEF Numbered
<1> QED
  BY <1>1, <1>10, <1>15 DEF Invariant, QueueIsKnown

\* Every step of the receiver, the decoder and the sound task.
LEMMA NextInvariant == Invariant /\ [Next]_vars => Invariant'
<1> SUFFICES ASSUME Invariant, [Next]_vars PROVE Invariant'
  OBVIOUS
<1> DEFINE unmoved == UNCHANGED <<wire, rtn_snd_nd, have_rtn_snd, numbers>>
<1>0. ASSUME unmoved PROVE Numbered' /\ QueueIsKnown'
  BY <1>0 DEF Invariant, Numbered, QueueIsKnown
<1>1. CASE Start
  <2>1. session' \in 0..MaxSessions
    BY <1>1, ReturnAssumption DEF Start, Invariant, TypeOK
  <2>2. unmoved
    BY <1>1 DEF Start, queues
  <2>3. TypeOK'
    BY <1>1, <2>1, <2>2 DEF Start, Invariant, TypeOK
  <2> QED
    BY <1>0, <2>2, <2>3 DEF Invariant
<1>2. CASE Stop
  <2>1. ToSet(rtn_snd_nd) \subseteq Packet
    BY Typed DEF ToSet, Invariant
  <2>2. unmoved
    BY <1>2 DEF Stop, queues
  <2>3. TypeOK'
    BY <1>2, <2>1, <2>2 DEF Stop, Invariant, TypeOK
  <2> QED
    BY <1>0, <2>2, <2>3 DEF Invariant
<1>3. CASE LearnJob
  <2>1. unmoved
    BY <1>3 DEF LearnJob, queues
  <2>2. TypeOK'
    BY <1>3, <2>1 DEF LearnJob, Invariant, TypeOK
  <2> QED
    BY <1>0, <2>1, <2>2 DEF Invariant
<1>4. CASE UNCHANGED vars
  <2>1. unmoved
    BY <1>4 DEF vars, queues
  <2>2. TypeOK'
    BY <1>4, <2>1 DEF vars, Invariant, TypeOK
  <2> QED
    BY <1>0, <2>1, <2>2 DEF Invariant
<1> QED
  BY <1>1, <1>2, <1>3, <1>4, ReturnInvariant, QueueInvariant,
     CadenceInvariant DEF Next

\* The queue and what is under way are known, typed and numbered in every
\* reachable state.
THEOREM InvariantCorrect == Spec => []Invariant
BY InitInvariant, NextInvariant, PTL DEF Spec

\* have_rtn_snd never denies a queue that holds packets (c2s_sound_mon would
\* neither play nor discard them).
THEOREM QueueIsKnownCorrect == Spec => []QueueIsKnown
<1>1. Invariant => QueueIsKnown
  BY DEF Invariant
<1> QED
  BY <1>1, InvariantCorrect, PTL

\* Numbered packets are in order.
LEMMA NumberedInOrder == Invariant => SpeechInOrder
<1> SUFFICES ASSUME Invariant PROVE SpeechInOrder
  OBVIOUS
<1> DEFINE coming == rtn_snd_nd \o wire
           oldest == numbers.queued - Len(rtn_snd_nd)
<1>1. /\ rtn_snd_nd \in Seq(Packet) /\ wire \in Seq(Packet)
      /\ Len(rtn_snd_nd) \in Nat /\ Len(wire) \in Nat
      /\ numbers.queued \in Nat /\ numbers.heard \in Nat
  BY Typed DEF Invariant
<1>2. /\ Len(coming) = Len(rtn_snd_nd) + Len(wire)
      /\ \A i \in 1..Len(coming) :
            coming[i] = IF i <= Len(rtn_snd_nd) THEN rtn_snd_nd[i]
                        ELSE wire[i - Len(rtn_snd_nd)]
  BY <1>1
<1>3. ASSUME NEW i \in 1..Len(coming) PROVE coming[i] = oldest + i
  <2>1. CASE i <= Len(rtn_snd_nd)
    <3>1. i \in 1..Len(rtn_snd_nd) /\ coming[i] = rtn_snd_nd[i]
      BY <1>1, <1>2, <2>1
    <3> QED
      BY <3>1 DEF Invariant, Numbered
  <2>2. CASE i > Len(rtn_snd_nd)
    <3>1. i - Len(rtn_snd_nd) \in 1..Len(wire) /\ i \in Nat
      BY <1>1, <1>2, <2>2
    <3>2. coming[i] = wire[i - Len(rtn_snd_nd)]
      BY <1>1, <1>2, <2>2
    <3>3. wire[i - Len(rtn_snd_nd)] = numbers.queued + (i - Len(rtn_snd_nd))
      BY <3>1 DEF Invariant, Numbered
    <3> QED
      BY <1>1, <3>1, <3>2, <3>3
  <2> QED
    BY <1>1, <1>2, <2>1, <2>2
<1>4. numbers.heard <= oldest /\ oldest \in Int
  BY <1>1 DEF Invariant, Numbered
<1>5. Len(coming) \in Nat
  BY <1>1, <1>2
<1> HIDE DEF coming, oldest
<1>6. numbers.heard \in Nat
  BY <1>1
<1>7. ASSUME NEW i \in 1..Len(coming)
      PROVE  /\ numbers.heard < coming[i]
             /\ \A j \in 1..(i - 1) : coming[j] < coming[i]
  <2>1. coming[i] = oldest + i /\ i \in 1..Len(coming)
    BY <1>3
  <2>2. numbers.heard < oldest + i
    BY <1>4, <1>5, <1>6
  <2>3. ASSUME NEW j \in 1..(i - 1) PROVE coming[j] < coming[i]
    <3>1. j \in 1..Len(coming) /\ j < i
      BY <1>5
    <3>2. coming[j] = oldest + j
      BY <1>3, <3>1
    <3> QED
      BY <1>4, <1>5, <2>1, <3>1, <3>2
  <2> QED
    BY <2>1, <2>2, <2>3
<1> QED
  BY <1>7 DEF SpeechInOrder, coming

\* Speech is heard in the order in which the decoder sent it and never twice
\* (rtn_snd_nd and c2s_sound_mon).
THEOREM SpeechInOrderCorrect == Spec => []SpeechInOrder
BY InvariantCorrect, NumberedInOrder, PTL

\* A burst of decoder replies never leaves the listener more than MaxQueued
\* packets behind (c2s_sound_mon discards the excess before it plays).
THEOREM BoundedDelayCorrect == Spec => BoundedDelay
<1>1. ASSUME Invariant, [Next]_vars
      PROVE  [numbers'.heard # numbers.heard =>
                numbers'.heard + MaxQueued > numbers.queued]_vars
  <2>1. CASE SendSpeech
    <3>1. /\ Len(Trimmed) \in 1..MaxQueued
          /\ numbers'.heard = numbers.queued - Len(Trimmed) + 1
      BY <1>1, <2>1, SpeechPlayed
    <3>2. numbers.queued \in Nat
      BY <1>1, Typed DEF Invariant
    <3> QED
      BY <3>1, <3>2, ReturnAssumption
  <2>2. CASE ~SendSpeech
    <3>1. numbers \in Counts
      BY <1>1, Typed DEF Invariant
    <3> QED
      BY <1>1, <2>2, <3>1
         DEF Next, Start, Stop, LearnJob, ReturnSpeech, QueueSpeech, Counts,
             c2s_sound_mon, OpenGate, SendSilence, vars
  <2> QED
    BY <2>1, <2>2
<1> QED
  BY <1>1, InvariantCorrect, PTL DEF Spec, BoundedDelay
=============================================================================
