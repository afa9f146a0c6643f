------------------------------ MODULE JobLink ------------------------------
(***************************************************************************)
(* The Kiwi extension and the decoder joined by the camper WebSocket, with *)
(* the part of the Kiwi server that stands between them: its monitor task, *)
(* which handles the decoder's commands one after the other, camps the     *)
(* connection on a receiver, copies that receiver's sound to it and hands  *)
(* returned status to the extension of the camped channel.                 *)
(*                                                                         *)
(* The monitor task's camping is Kiwi code outside this repository; it is  *)
(* modelled from the messages the decoder sends it and handles.            *)
(***************************************************************************)
EXTENDS KiwiExtension, Camper, FiniteSets

CONSTANTS MaxPolls,  \* polls that may be unanswered when the timer polls
          MaxDrops,  \* connections that are lost
          Faults     \* what else may happen: "switch", "loss", "refusal"

ASSUME JobLinkAssumption ==
    /\ MaxPolls \in Nat \ {0}
    /\ MaxDrops \in Nat
    /\ Faults \subseteq {"switch", "loss", "refusal"}

VARIABLES connected,  \* the WebSocket is open
          camped_rx,  \* receiver the monitor task camps on, or Nil
          drops,      \* connections lost so far
          astray      \* history: the decoder may be wrong about its camp

link == <<connected, camped_rx, drops, astray>>
allVars == <<vars, camper, link>>

LinkTypeOK ==
    /\ TypeOK
    /\ CamperTypeOK
    /\ connected \in BOOLEAN
    /\ camped_rx \in Rx \cup {Nil}
    /\ drops \in 0..MaxDrops
    /\ astray \in BOOLEAN

LinkInit ==
    /\ Init
    /\ CamperInit
    /\ connected = FALSE
    /\ camped_rx = Nil
    /\ drops = 0
    /\ astray = FALSE

\* The decoder's job is that of a session as it runs now.
HoldsCurrentJob ==
    job_.running /\ Current(job_.rx_channel, job_.generation)

\* The monitor task is not suspended in a response.
MonitorFree == \A m \in Monitors : reply[m] = Nil

Holds(queue, type) == \E i \in DOMAIN queue : queue[i].type = type

Unanswered ==
    Cardinality({i \in DOMAIN up : up[i].type = "poll"})
      + Cardinality({i \in DOMAIN down : down[i].type = "job"})

------------------------------------------------------------------------------
(* The connection.                                                         *)

Connect ==
    /\ ~connected /\ MonitorFree
    /\ connected' = TRUE
    /\ FreshCamper(<<Greeting>>)
    /\ UNCHANGED <<vars, camped_rx, drops, astray>>

\* Network loss, a stalled control connection, a rejected poll or message:
\* the decoder starts over and the monitor task of the connection ends.
Disconnect ==
    /\ connected /\ drops < MaxDrops
    /\ drops' = drops + 1
    /\ connected' = FALSE
    /\ camped_rx' = Nil /\ astray' = FALSE
    /\ FreshCamper(<<>>)
    /\ UNCHANGED vars

------------------------------------------------------------------------------
(* The decoder.  Whatever it sends beyond its answers is rate-limited.     *)

TimedPoll ==
    /\ Unanswered < MaxPolls
    /\ maybe_poll
    /\ UNCHANGED <<vars, link>>

\* A receiver was asked for and the decoder has not read the answer.
CampUnanswered ==
    \/ \E n \in DOMAIN up : up[n].type = "camp" /\ up[n].rx # Nil
    \/ Holds(Tail(down), "camped")

\* Kiwi and decoder agree on the camp, and nothing is under way about it.
Agreed ==
    /\ camped_channel_ = camped_rx
    /\ ~Holds(up, "camp")
    /\ ~Holds(Tail(down), "camped") /\ ~Holds(Tail(down), "camp_disconnect")

\* The decoder goes by the last acknowledged camp: a job that is taken while
\* the next one is unanswered leads it astray, and a job that is taken when
\* all is settled brings it back.
ReceiveJob ==
    /\ apply_job
    /\ IF Conflict(Head(down).job)
       THEN connected' = FALSE /\ camped_rx' = Nil /\ astray' = FALSE
       ELSE /\ UNCHANGED <<connected, camped_rx>>
            /\ astray' = IF job_'.generation = job_.generation THEN astray
                         ELSE CampUnanswered \/ (astray /\ ~Agreed)
    /\ UNCHANGED <<vars, drops>>

\* The loss of a camp that arrives behind the next session's job drops that
\* job's decoder.
ReceiveControl ==
    /\ ReceiveMonitor \/ ReceiveCamped \/ ReceiveCampDisconnect
    /\ astray' = (astray \/ (Arrives("camp_disconnect") /\ HoldsCurrentJob))
    /\ UNCHANGED <<vars, connected, camped_rx, drops>>

ReceiveSound ==
    /\ process_audio(~Holds(up, "status"))
    /\ UNCHANGED <<vars, link>>

------------------------------------------------------------------------------
(* The monitor task.                                                       *)

Commands(type) == MonitorFree /\ up # <<>> /\ Head(up).type = type

HandlePoll(m) ==
    /\ Commands("poll")
    /\ freedv_monitor_poll(m)
    /\ up' = Tail(up)
    /\ down' = Append(down, Job(CurrentResponse.job))
    /\ UNCHANGED <<link, control_ready_, job_, camped_channel_, backend_>>

EndPoll(m) == FinishPoll(m) /\ UNCHANGED <<camper, link>>

\* A camp request is acknowledged, or refused when the receiver has no slot
\* left.  Leaving is acknowledged by a message the decoder ignores.
HandleCamp(ok) ==
    /\ Commands("camp")
    /\ ok \/ "refusal" \in Faults
    /\ LET rx == Head(up).rx IN
       /\ camped_rx' = IF ok THEN rx ELSE Nil
       /\ down' = IF rx = Nil THEN down ELSE Append(down, Camped(rx, ok))
    /\ up' = Tail(up)
    /\ astray' = (astray \/ ~ok)
    /\ UNCHANGED <<vars, connected, drops, control_ready_, job_,
                   camped_channel_, backend_>>

\* A status goes to the extension of the camped channel, or nowhere.
HandleStatus ==
    /\ Commands("status")
    /\ IF /\ camped_rx # Nil
          /\ Current(camped_rx, Head(up).generation)
       THEN freedv_receive_cmds(camped_rx, Head(up).generation)
       ELSE UNCHANGED vars
    /\ up' = Tail(up)
    /\ UNCHANGED <<link, control_ready_, job_, camped_channel_, backend_, down>>

\* The camped receiver's listener has left.
CampLost ==
    /\ "loss" \in Faults
    /\ camped_rx # Nil /\ ~running[camped_rx]
    /\ camped_rx' = Nil
    /\ down' = Append(down, CampDisconnect)
    /\ UNCHANGED <<vars, connected, drops, astray, control_ready_, job_,
                   camped_channel_, backend_, up>>

\* The camped receiver's sound task; one frame at a time is enough.
SendSound ==
    /\ camped_rx # Nil
    /\ ~Holds(down, "SND")
    /\ down' = Append(down, Sound(camped_rx))
    /\ UNCHANGED <<vars, link, control_ready_, job_, camped_channel_, backend_,
                   up>>

------------------------------------------------------------------------------
\* Everything at the Kiwi that does not involve the link.
KiwiStep ==
    /\ \/ \E i \in Rx, m \in Modes, who \in Identities : Start(i, m, who)
       \/ \E i \in Rx, m \in Modes : StartTest(i, m)
       \/ \E i \in Rx : freedv_stop(i) \/ freedv_poll(i) \/ freedv_test_audio(i)
       \/ \E i \in Rx, f \in Freqs : Tune(i, f)
       \/ "switch" \in Faults /\ SwitchReporter
    /\ UNCHANGED <<camper, link>>

LinkNext ==
    \/ Connect
    \/ Disconnect
    \/ TimedPoll
    \/ ReceiveJob
    \/ ReceiveControl
    \/ ReceiveSound
    \/ \E m \in Monitors : HandlePoll(m) \/ EndPoll(m)
    \/ \E ok \in BOOLEAN : HandleCamp(ok)
    \/ HandleStatus
    \/ CampLost
    \/ SendSound
    \/ KiwiStep

LinkSpec == LinkInit /\ [][LinkNext]_allVars

\* Neither task stops, the timer fires and the receiver keeps producing sound.
FairLinkSpec ==
    /\ LinkSpec
    /\ WF_allVars(Connect)
    /\ WF_allVars(TimedPoll)
    /\ WF_allVars(ReceiveJob)
    /\ WF_allVars(ReceiveControl)
    /\ WF_allVars(ReceiveSound)
    /\ \A m \in Monitors : WF_allVars(HandlePoll(m)) /\ WF_allVars(EndPoll(m))
    /\ WF_allVars(HandleCamp(TRUE))
    /\ WF_allVars(HandleStatus)
    /\ WF_allVars(SendSound)

------------------------------------------------------------------------------
(* Properties.                                                             *)

\* The decoder breaks off a connection over a same-generation conflict only
\* because the administrator flipped the Reporter switch: no order of starts,
\* stops, retunes, stale responses and reconnections produces one.
ConflictOnlyFromSwitch ==
    Arrives("job") /\ Conflict(Head(down).job) =>
        Head(down).job.reporter # job_.reporter

\* A frame is decoded for the receiver it came from, although frames carry no
\* receiver and the job, the camp and the sound change at different times.
FrameMatchesJob == Decodes => Head(down).rx = job_.rx_channel

\* What the browser is told is online is the decoder of this very session.
OnlineIsCurrent ==
    \A i \in Rx :
        decoder_online[i] /\ job_.running => job_.generation = generation[i]

Listening(i) ==
    /\ connected /\ backend_
    /\ job_.running /\ job_.rx_channel = i /\ camped_channel_ = i
    /\ camped_rx = i

\* Every command and every answer has been handled.
Quiet ==
    /\ connected /\ up = <<>> /\ MonitorFree
    /\ \A i \in DOMAIN down : down[i].type = "SND"

\* Once no message is under way, a decoder that holds a running session's job
\* listens to the session's receiver, with any number of polls, tests, retunes
\* and lost camps before, unless a hand-over crossed an unanswered camp, a camp
\* was refused, or the loss of the last one came behind the job.
QuietDecoderListens ==
    Quiet /\ HoldsCurrentJob /\ ~astray => Listening(job_.rx_channel)

\* Every session is eventually decoded, unless it ends first.
Served == \A i \in Rx : running[i] ~> Listening(i) \/ ~running[i]
==============================================================================
