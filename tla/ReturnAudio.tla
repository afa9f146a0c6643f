---------------------------- MODULE ReturnAudio ----------------------------
(***************************************************************************)
(* Decoded speech on its way back to the listener of one receiver: the     *)
(* decoder returns packets over the camper connection, the Kiwi's monitor  *)
(* task queues them, and the receiver's sound task sends exactly one       *)
(* packet per cadence: speech, silence, or the receiver's own audio.       *)
(*                                                                         *)
(* A packet is the number the decoder would give it, so that its age and   *)
(* its order can be told.  The decoder learns of Start and Stop later than *)
(* the gate does, by its next poll; JobLink models how.                    *)
(***************************************************************************)
EXTENDS Integers, Sequences, SequencesExt

CONSTANTS MaxQueued,    \* packets c2s_sound_mon leaves queued, 12
          MaxSessions,  \* bound: sessions
          MaxPackets    \* bound: packets the decoder returns

ASSUME ReturnAssumption ==
    MaxQueued \in Nat \ {0} /\ MaxSessions \in Nat /\ MaxPackets \in Nat

VARIABLES
    session,       \* number of the current or the last session
    decoding,      \* the decoder works for a session
    wire,          \* returned packets that have not reached the Kiwi
    want_rtn_snd,  \* the gate: a session runs
    have_rtn_snd,  \* packets may be queued
    rtn_snd_nd,    \* the queue
    heard,         \* what the last cadence sent
    numbers        \* history: last packet sent, queued and heard

queues == <<wire, rtn_snd_nd, have_rtn_snd>>
vars == <<session, decoding, want_rtn_snd, queues, heard, numbers>>

Numbers == 0..MaxPackets
Packet == 1..MaxPackets

TypeOK ==
    /\ session \in 0..MaxSessions
    /\ decoding \in BOOLEAN
    /\ wire \in Seq(Packet)
    /\ want_rtn_snd \in BOOLEAN
    /\ have_rtn_snd \in BOOLEAN
    /\ rtn_snd_nd \in Seq(Packet)
    /\ heard \in {"live", "silence", "speech"}
    /\ numbers \in [sent : Numbers, queued : Numbers, heard : Numbers]

Init ==
    /\ session = 0 /\ decoding = FALSE
    /\ wire = <<>> /\ rtn_snd_nd = <<>>
    /\ want_rtn_snd = FALSE /\ have_rtn_snd = FALSE
    /\ heard = "live"
    /\ numbers = [sent |-> 0, queued |-> 0, heard |-> 0]

------------------------------------------------------------------------------
Start ==
    /\ session < MaxSessions
    /\ session' = session + 1
    /\ want_rtn_snd' = TRUE
    /\ UNCHANGED <<decoding, queues, heard, numbers>>

\* Stop or Close sets the gate and nothing else.
Stop ==
    /\ want_rtn_snd
    /\ want_rtn_snd' = FALSE
    /\ UNCHANGED <<session, decoding, queues, heard, numbers>>

LearnJob ==
    /\ decoding' = want_rtn_snd
    /\ UNCHANGED <<session, want_rtn_snd, queues, heard, numbers>>

\* "SET rev_bin=", one packet per received sound packet at most.
ReturnSpeech ==
    /\ decoding /\ numbers.sent < MaxPackets
    /\ wire' = Append(wire, numbers.sent + 1)
    /\ numbers' = [numbers EXCEPT !.sent = @ + 1]
    /\ UNCHANGED <<session, decoding, want_rtn_snd, have_rtn_snd, rtn_snd_nd,
                   heard>>

\* The monitor task queues what arrives, whatever the gate says.
QueueSpeech ==
    /\ wire # <<>>
    /\ wire' = Tail(wire)
    /\ rtn_snd_nd' = Append(rtn_snd_nd, Head(wire))
    /\ have_rtn_snd' = TRUE
    /\ numbers' = [numbers EXCEPT !.queued = Head(wire)]
    /\ UNCHANGED <<session, decoding, want_rtn_snd, heard>>

------------------------------------------------------------------------------
(* c2s_sound_mon, once per cadence of the sound task.                      *)

\* Mutant: the newest packets are discarded.
TrimmedOldest ==
    SubSeq(rtn_snd_nd, 1, IF Len(rtn_snd_nd) < MaxQueued
                          THEN Len(rtn_snd_nd) ELSE MaxQueued)

\* The queue without the excess at its old end.
Trimmed ==
    IF Len(rtn_snd_nd) <= MaxQueued THEN rtn_snd_nd
    ELSE SubSeq(rtn_snd_nd, Len(rtn_snd_nd) - MaxQueued + 1, Len(rtn_snd_nd))

\* Mutant: the closed gate leaves the queue for the next session.
OpenGateKeeps ==
    /\ ~want_rtn_snd
    /\ heard' = "live"
    /\ UNCHANGED <<rtn_snd_nd, have_rtn_snd, numbers>>

\* Mutant: Stop forgets the queue with its flag.
OpenGateHalf ==
    /\ ~want_rtn_snd
    /\ rtn_snd_nd' = rtn_snd_nd
    /\ have_rtn_snd' = FALSE
    /\ heard' = "live"
    /\ UNCHANGED numbers

OpenGate ==
    /\ ~want_rtn_snd
    /\ rtn_snd_nd' = IF have_rtn_snd THEN <<>> ELSE rtn_snd_nd
    /\ have_rtn_snd' = FALSE
    /\ heard' = "live"
    /\ UNCHANGED numbers

\* Mutant: the packet that is sent stays queued.
LeftAll == Trimmed

\* What stays queued when the oldest packet is sent.
Left == Tail(Trimmed)

SendSpeech ==
    /\ want_rtn_snd /\ have_rtn_snd /\ rtn_snd_nd # <<>>
    /\ heard' = "speech"
    /\ rtn_snd_nd' = Left
    /\ numbers' = [numbers EXCEPT !.heard = Head(Trimmed)]
    /\ UNCHANGED have_rtn_snd

SendSilence ==
    /\ want_rtn_snd
    /\ ~have_rtn_snd \/ rtn_snd_nd = <<>>
    /\ heard' = "silence"
    /\ UNCHANGED <<rtn_snd_nd, have_rtn_snd, numbers>>

c2s_sound_mon ==
    /\ OpenGate \/ SendSpeech \/ SendSilence
    /\ UNCHANGED <<session, decoding, want_rtn_snd, wire>>

Next ==
    \/ Start
    \/ Stop
    \/ LearnJob
    \/ ReturnSpeech
    \/ QueueSpeech
    \/ c2s_sound_mon

\* The sound task never stops, the connection delivers, the decoder polls.
Spec ==
    /\ Init /\ [][Next]_vars
    /\ WF_vars(c2s_sound_mon) /\ WF_vars(QueueSpeech) /\ WF_vars(LearnJob)

------------------------------------------------------------------------------
(* Properties.                                                             *)

\* Where every packet is: those under way carry the next numbers, those queued
\* the last ones.  The inductive invariant behind the properties below.
Numbered ==
    /\ numbers.sent = numbers.queued + Len(wire)
    /\ numbers.heard + Len(rtn_snd_nd) <= numbers.queued
    /\ \A i \in 1..Len(wire) : wire[i] = numbers.queued + i
    /\ \A i \in 1..Len(rtn_snd_nd) :
          rtn_snd_nd[i] = numbers.queued - Len(rtn_snd_nd) + i

\* A queue that holds packets is known to hold them, or no cadence would ever
\* play or discard them.
QueueIsKnown == rtn_snd_nd # <<>> => have_rtn_snd

\* However many packets a network burst delivers, what is heard is never more
\* than MaxQueued packets behind what has arrived, in every later session too.
BoundedDelay ==
    [][numbers'.heard # numbers.heard =>
          numbers'.heard + MaxQueued > numbers.queued]_vars

\* Speech under way is newer than anything heard and in the order in which
\* the decoder sent it: nothing is heard twice or after what followed it.
SpeechInOrder ==
    LET coming == rtn_snd_nd \o wire
    IN  \A i \in 1..Len(coming) :
            /\ numbers.heard < coming[i]
            /\ \A j \in 1..(i - 1) : coming[j] < coming[i]

\* After Stop nothing of the session stays queued or under way.
StopDrains ==
    ~want_rtn_snd ~>
        want_rtn_snd \/ (rtn_snd_nd = <<>> /\ wire = <<>> /\ ~decoding)

==============================================================================
