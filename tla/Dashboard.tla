------------------------------ MODULE Dashboard ------------------------------
(***************************************************************************)
(* The dashboard server: spectrum frames from SpectrumRing are streamed to *)
(* viewers, each served by a thread of its own; public viewers are counted *)
(* and limited.  The modem audio of the session is kept in a second ring   *)
(* for download, under a lock.                                             *)
(*                                                                         *)
(* Every viewer is a WebSocket request for the stream; the pages, the JSON *)
(* views and the management viewers, whose number has no limit, are left   *)
(* out.  How long the thread waits for an answer is up to the socket, so a *)
(* viewer may leave at any time and need not answer.                       *)
(***************************************************************************)
EXTENDS SpectrumRing

CONSTANTS Viewers,      \* public viewers
          MaxClients,   \* public_max_clients
          CaptureSize   \* samples the capture holds

ASSUME DashboardAssumption ==
    /\ MaxClients \in Nat \ {0}
    /\ CaptureSize \in Nat \ {0}

VARIABLES
    public_clients,
    place,      \* of each viewer: away, refused, streaming, or answering
    sent,       \* sequence of the last frame each viewer got
    capture, capture_write,
    modem,      \* burst process_audio has still to capture, or 0
    captured,   \* history: modem samples since the process started
    since       \* history: and when the session started

viewerVars == <<public_clients, place, sent>>
captureVars == <<capture, capture_write, modem, captured, since>>
allVars == <<ringVars, viewerVars, captureVars>>

Inside == {v \in Viewers : place[v] \in {"streaming", "answering"}}

DashboardTypeOK ==
    /\ RingTypeOK
    /\ public_clients \in Nat
    /\ place \in [Viewers -> {"away", "refused", "streaming", "answering"}]
    /\ sent \in [Viewers -> Nat]
    /\ capture \in Seq(Nat) /\ Len(capture) \in {0, CaptureSize}
    /\ capture_write \in Nat
    /\ modem \in {0} \cup Bursts
    /\ captured \in 0..MaxSamples
    /\ since \in 0..captured

DashboardInit ==
    /\ RingInit
    /\ public_clients = 0
    /\ place = [v \in Viewers |-> "away"]
    /\ sent = [v \in Viewers |-> 0]
    /\ capture = <<>> /\ capture_write = 0
    /\ modem = 0 /\ captured = 0 /\ since = 0

------------------------------------------------------------------------------
(* Viewers.                                                                *)

MayEnter(previous) == previous < MaxClients

\* handle counts the viewer in and looks at what the counter was.
Arrive(v) ==
    /\ place[v] = "away"
    /\ public_clients' = public_clients + 1
    /\ place' = [place EXCEPT ![v] = IF MayEnter(public_clients)
                                     THEN "streaming" ELSE "refused"]
    /\ sent' = [sent EXCEPT ![v] = 0]
    /\ UNCHANGED <<ringVars, captureVars>>

\* Mutant: a refused viewer stays counted.
CountedOutIfServed(v) == IF place[v] = "refused" THEN 0 ELSE 1

CountedOut(v) == 1

\* A refused viewer is counted out, as is one that disconnects, answers
\* something else or fails.
Leave(v) ==
    /\ place[v] # "away"
    /\ public_clients' = public_clients - CountedOut(v)
    /\ place' = [place EXCEPT ![v] = "away"]
    /\ UNCHANGED <<ringVars, sent, captureVars>>

\* websocket_stream sends the latest frame if the viewer has not got it.
SendFrame(v) ==
    /\ place[v] = "streaming"
    /\ latest_sequence # sent[v] /\ latest_frame # NoFrame
    /\ sent' = [sent EXCEPT ![v] = latest_sequence]
    /\ place' = [place EXCEPT ![v] = "answering"]
    /\ UNCHANGED <<ringVars, public_clients, captureVars>>

\* Otherwise a ping, once a second.
SendPing(v) ==
    /\ place[v] = "streaming"
    /\ latest_sequence = sent[v] \/ latest_frame = NoFrame
    /\ place' = [place EXCEPT ![v] = "answering"]
    /\ UNCHANGED <<ringVars, public_clients, sent, captureVars>>

Acknowledge(v) ==
    /\ place[v] = "answering"
    /\ place' = [place EXCEPT ![v] = "streaming"]
    /\ UNCHANGED <<ringVars, public_clients, sent, captureVars>>

------------------------------------------------------------------------------
(* The capture.                                                            *)

\* Mutant: reads from the write position whether or not the ring is full.
FirstIfFull == capture_write

First == IF capture_write > Len(capture) THEN capture_write - Len(capture)
                                         ELSE 0

\* capture_wav: what a download gets, oldest sample first.
capture_wav ==
    LET held == IF capture_write < Len(capture) THEN capture_write
                                                ELSE Len(capture) IN
    [n \in 1..held |-> capture[1 + ((First + n - 1) % Len(capture))]]

\* process_audio pushes the packet's audio, then its modem audio.
ReceiveBurst(count) ==
    /\ modem = 0 /\ modem' = count
    /\ push_audio(count)
    /\ UNCHANGED <<viewerVars, capture, capture_write, captured, since>>

\* push_modem_audio; the first burst of a session allocates the ring.
push_modem_audio ==
    /\ DecoderFree /\ modem > 0
    /\ LET ring == IF capture = <<>> THEN [n \in 1..CaptureSize |-> 0]
                                     ELSE capture
           \* the last sample of the burst that lands in a slot stays there
           Lands(n) == {k \in 0..modem - 1 :
                           1 + ((capture_write + k) % CaptureSize) = n}
       IN capture' = [n \in 1..CaptureSize |->
              IF Lands(n) = {} THEN ring[n]
              ELSE captured + 1
                     + CHOOSE k \in Lands(n) : \A j \in Lands(n) : j <= k]
    /\ capture_write' = capture_write + modem
    /\ captured' = captured + modem
    /\ modem' = 0
    /\ UNCHANGED <<ringVars, viewerVars, since>>

BeginSession ==
    /\ modem = 0
    /\ StartSession
    /\ since' = captured
    /\ UNCHANGED <<viewerVars, capture, capture_write, modem, captured>>

\* The second half of session_started also clears the capture.
FinishStartAndClear ==
    /\ FinishStart
    /\ capture' = <<>> /\ capture_write' = 0
    /\ UNCHANGED <<viewerVars, modem, captured, since>>

------------------------------------------------------------------------------
Decoder ==
    /\ WriteSample \/ EndPush \/ (modem = 0 /\ StopSession)
    /\ UNCHANGED <<viewerVars, captureVars>>

Fft == fft_loop /\ UNCHANGED <<viewerVars, captureVars>>

DashboardNext ==
    \/ Decoder
    \/ Fft
    \/ BeginSession
    \/ FinishStartAndClear
    \/ \E count \in Bursts : ReceiveBurst(count)
    \/ push_modem_audio
    \/ \E v \in Viewers :
           Arrive(v) \/ Leave(v) \/ SendFrame(v) \/ SendPing(v) \/ Acknowledge(v)

DashboardSpec == DashboardInit /\ [][DashboardNext]_allVars

------------------------------------------------------------------------------
(* Properties.                                                             *)

\* The counter is the number of viewers inside or about to be refused, in
\* whatever order handlers count in and out, and the limit holds.
SeatsCounted ==
    /\ public_clients = Cardinality({v \in Viewers : place[v] # "away"})
    /\ Cardinality(Inside) <= MaxClients

\* A viewer that stays gets each frame at most once and never an older one,
\* although a new session clears the frame under it.
NewFramesOnly ==
    [][\A v \in Viewers :
           place[v] # "away" /\ sent'[v] # sent[v] => sent'[v] > sent[v]]_allVars

\* A download is the newest samples of the current session, oldest first,
\* however the ring wrapped and with nothing of the session before.
CaptureIsNewest ==
    LET kept == IF captured - since < CaptureSize THEN captured - since
                                                  ELSE CaptureSize IN
    ~starting => capture_wav = [n \in 1..kept |-> captured - kept + n]
==============================================================================
