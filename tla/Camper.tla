------------------------------- MODULE Camper -------------------------------
(***************************************************************************)
(* The decoder process as a camper of the Kiwi (class KiwiCamper): one     *)
(* thread that reads one WebSocket message at a time, polls for its job,   *)
(* asks to camp on the job's receiver and decodes the audio that arrives.  *)
(* `up' and `down' are the two directions of the WebSocket; each keeps its *)
(* order.  Every handler's action models the handler and what it sends.    *)
(*                                                                         *)
(* Authentication failures and malformed jobs raise an exception like the  *)
(* conflict below; they are Disconnect steps of the composition.           *)
(***************************************************************************)
EXTENDS DecoderJobs, Sequences

VARIABLES
    control_ready_,   \* the Kiwi greeted this connection
    job_,             \* the job the decoder holds
    camped_channel_,  \* receiver it was told it camps on, or Nil
    backend_,         \* a decoder exists
    up, down          \* messages on their way to, and from, the Kiwi

camper == <<control_ready_, job_, camped_channel_, backend_, up, down>>

Poll == [type |-> "poll"]
Camp(rx) == [type |-> "camp", rx |-> rx]
Status(g) == [type |-> "status", generation |-> g]
Uplink == [type : {"poll"}] \cup [type : {"camp"}, rx : Rx \cup {Nil}]
              \cup [type : {"status"}, generation : Nat]

Greeting == [type |-> "monitor"]
Job(job) == [type |-> "job", job |-> job]
Camped(rx, ok) == [type |-> "camped", rx |-> rx, ok |-> ok]
CampDisconnect == [type |-> "camp_disconnect"]
Sound(rx) == [type |-> "SND", rx |-> rx]   \* the frame itself names no rx
Downlink == [type : {"monitor", "camp_disconnect"}]
                \cup [type : {"job"}, job : DecoderJob]
                \cup [type : {"camped"}, rx : Rx, ok : BOOLEAN]
                \cup [type : {"SND"}, rx : Rx]

CamperTypeOK ==
    /\ control_ready_ \in BOOLEAN
    /\ job_ \in DecoderJob
    /\ camped_channel_ \in Rx \cup {Nil}
    /\ backend_ \in BOOLEAN
    /\ up \in Seq(Uplink)
    /\ down \in Seq(Downlink)

\* Mutant: the job survives the connection.
FreshCamperKeepsJob(greetings) ==
    /\ control_ready_' = FALSE
    /\ camped_channel_' = Nil
    /\ up' = <<>>
    /\ down' = greetings
    /\ UNCHANGED <<job_, backend_>>

\* A KiwiCamper as main() constructs it after every failure: nothing of the
\* earlier connection survives.
FreshCamper(greetings) ==
    /\ control_ready_' = FALSE
    /\ job_' = IdleJob(0)
    /\ camped_channel_' = Nil
    /\ backend_' = FALSE
    /\ up' = <<>>
    /\ down' = greetings

CamperInit ==
    /\ control_ready_ = FALSE
    /\ job_ = IdleJob(0)
    /\ camped_channel_ = Nil
    /\ backend_ = FALSE
    /\ up = <<>>
    /\ down = <<>>

Arrives(type) == down # <<>> /\ Head(down).type = type

\* The handler of the first message is done and has sent `messages'.
Answer(messages) == down' = Tail(down) /\ up' = up \o messages

WaitingTest == job_.test /\ ~job_.test_ready

------------------------------------------------------------------------------
\* "monitor": the connection is accepted; poll at once.
ReceiveMonitor ==
    /\ Arrives("monitor")
    /\ control_ready_' = TRUE
    /\ Answer(<<Poll>>)
    /\ UNCHANGED <<job_, camped_channel_, backend_>>

\* The poll timer, also looked at by process_audio: every second, or every
\* 100 ms while a test waits.  It waits for no answer.
maybe_poll ==
    /\ control_ready_
    /\ up' = Append(up, Poll)
    /\ UNCHANGED <<control_ready_, job_, camped_channel_, backend_, down>>

\* Without a job the decoder polls again 250 ms after every response.
PollIfIdle(job) == IF job.running THEN <<>> ELSE <<Poll>>

\* apply_job, first case: the waiting test may decode.
ArmTest(incoming) ==
    /\ TestNowReady(job_, incoming)
    /\ job_' = [job_ EXCEPT !.test_ready = TRUE]
    /\ Answer(<<>>)
    /\ UNCHANGED <<control_ready_, camped_channel_, backend_>>

KeepJob(incoming) ==
    /\ ~TestNowReady(job_, incoming)
    /\ classify_job(job_, incoming) \in {"stale", "unchanged"}
    /\ Answer(PollIfIdle(job_))
    /\ UNCHANGED <<control_ready_, job_, camped_channel_, backend_>>

\* The exception ends the connection.
Conflict(incoming) ==
    /\ ~TestNowReady(job_, incoming)
    /\ classify_job(job_, incoming) = "conflict"

StopJob(incoming) ==
    /\ classify_job(job_, incoming) = "changed" /\ ~incoming.running
    /\ job_' = incoming
    /\ camped_channel_' = Nil
    /\ backend_' = FALSE
    /\ Answer((IF camped_channel_ # Nil THEN <<Camp(Nil)>> ELSE <<>>)
                  \o PollIfIdle(incoming))
    /\ UNCHANGED control_ready_

\* Mutant: a decoder that camps somewhere stays there.
NeedsFirstCamp(job) == camped_channel_ = Nil

\* The camp request is not repeated for the channel the decoder camps on.
NeedsCamp(job) == camped_channel_ # job.rx_channel

StartJob(incoming) ==
    /\ classify_job(job_, incoming) = "changed" /\ incoming.running
    /\ job_' = incoming
    /\ backend_' = TRUE
    /\ Answer((IF NeedsCamp(incoming)
               THEN <<Camp(incoming.rx_channel)>> ELSE <<>>)
                  \o <<Status(incoming.generation)>>)
    /\ UNCHANGED <<control_ready_, camped_channel_>>

apply_job ==
    /\ Arrives("job")
    /\ LET incoming == Head(down).job IN
       \/ ArmTest(incoming)
       \/ KeepJob(incoming)
       \/ Conflict(incoming) /\ FreshCamper(<<>>)
       \/ StopJob(incoming)
       \/ StartJob(incoming)

\* "camp=1,N", or a refusal, which is ignored.
ReceiveCamped ==
    /\ Arrives("camped")
    /\ IF Head(down).ok
       THEN /\ camped_channel_' = Head(down).rx
            /\ Answer(<<Status(job_.generation)>>
                         \o IF WaitingTest THEN <<Poll>> ELSE <<>>)
       ELSE Answer(<<>>) /\ UNCHANGED camped_channel_
    /\ UNCHANGED <<control_ready_, job_, backend_>>

\* The camp ended: reset_decoder drops the backend, the job stays.
ReceiveCampDisconnect ==
    /\ Arrives("camp_disconnect")
    /\ camped_channel_' = Nil
    /\ backend_' = FALSE
    /\ Answer(<<>>)
    /\ UNCHANGED <<control_ready_, job_>>

\* Mutant: a frame of whatever receiver.
AcceptsAny == backend_ /\ job_.running

Accepts == backend_ /\ job_.running /\ camped_channel_ = job_.rx_channel

\* A sound frame; a status goes back at most every 250 ms.
process_audio(statusDue) ==
    /\ Arrives("SND")
    /\ Answer(IF Accepts /\ statusDue THEN <<Status(job_.generation)>>
                                      ELSE <<>>)
    /\ UNCHANGED <<control_ready_, job_, camped_channel_, backend_>>

\* The frame at hand is decoded, not ignored.
Decodes == Arrives("SND") /\ Accepts /\ ~WaitingTest
==============================================================================
