----------------------------- MODULE PacedQueue -----------------------------
(***************************************************************************)
(* What the decoder needs from the queue between modem and receiver: a     *)
(* bounded FIFO of samples that loses only its oldest samples, says how    *)
(* many, and gives out packets of the size asked for, starting when enough *)
(* speech is waiting.  AudioPacer implements it with a ring buffer.        *)
(***************************************************************************)
EXTENDS Naturals, Sequences

CONSTANTS Bounds,   \* pairs <<limit, target>> the queue may be given
          Packets,  \* packet sizes that may be asked for
          Bursts    \* sizes of the bursts that arrive

VARIABLES waiting,  \* samples that wait, oldest first
          limit,    \* most samples that may wait
          target,   \* samples that must wait before packets are given out
          playing,  \* packets are given out
          lost,     \* samples dropped since the queue was cleared
          packet,   \* what the last request returned
          serial    \* samples that ever arrived; each is known by its number

queueVars == <<waiting, limit, target, playing, lost, packet, serial>>

QInit ==
    /\ waiting = <<>> /\ packet = <<>>
    /\ lost = 0 /\ serial = 0
    /\ target = 0 /\ playing = TRUE
    /\ limit \in Nat \ {0}

\* The newest samples that fit, of a sequence.
Newest(samples, most) ==
    SubSeq(samples, Len(samples) - (IF Len(samples) < most
                                    THEN Len(samples) ELSE most) + 1,
           Len(samples))

Excess(samples, most) ==
    IF Len(samples) > most THEN Len(samples) - most ELSE 0

Limit(most, start) ==
    /\ limit' = most /\ target' = start
    /\ waiting' = Newest(waiting, most)
    /\ lost' = lost + Excess(waiting, most)
    /\ playing' = IF start = target THEN playing
                  ELSE start = 0 \/ Len(waiting') >= start
    /\ UNCHANGED <<packet, serial>>

Empty ==
    /\ waiting' = <<>> /\ lost' = 0
    /\ playing' = (target = 0)
    /\ UNCHANGED <<limit, target, packet, serial>>

Add(count) ==
    LET samples == waiting \o [k \in 1..count |-> serial + k] IN
    /\ waiting' = Newest(samples, limit)
    /\ lost' = lost + Excess(samples, limit)
    /\ serial' = serial + count
    /\ playing' = (playing \/ Len(waiting') >= target)
    /\ UNCHANGED <<limit, target, packet>>

\* With a target only whole packets leave; without one the last is padded.
Give(count) ==
    /\ playing /\ waiting # <<>>
    /\ target = 0 \/ Len(waiting) >= count
    /\ packet' = [k \in 1..count |->
                    IF k <= Len(waiting) THEN waiting[k] ELSE 0]
    /\ waiting' = SubSeq(waiting, count + 1, Len(waiting))
    /\ UNCHANGED <<limit, target, playing, lost, serial>>

\* Too little to give: the queue may wait for its target again.
Refuse(count) ==
    /\ \/ ~playing \/ waiting = <<>>
       \/ target > 0 /\ Len(waiting) < count
    /\ packet' = <<>>
    /\ playing' \in {FALSE, playing}
    /\ UNCHANGED <<waiting, limit, target, lost, serial>>

QNext ==
    \/ \E bound \in Bounds : Limit(bound[1], bound[2])
    \/ Empty
    \/ \E count \in Bursts : Add(count)
    \/ \E count \in Packets : Give(count) \/ Refuse(count)

QSpec == QInit /\ [][QNext]_queueVars
==============================================================================
