------------------------------ MODULE Reporter ------------------------------
(***************************************************************************)
(* The Reporter sidecar: one asyncio task that takes the decoder's session *)
(* events from a bounded queue and keeps one connection to FreeDV Reporter *)
(* for the listener who opted in.  Events are datagrams: the queue drops   *)
(* them when it is full, which it is when the task waits for the server.   *)
(*                                                                         *)
(* A listener stands for the identity, callsign and locator, a connection  *)
(* is bound to.  The table of sessions is a sequence, the one updated last *)
(* at its end.  Time is abstract: a delay is over when it is over.         *)
(*                                                                         *)
(* The decoder is modelled by the events it sends, FreeDV Reporter by what *)
(* it lists.                                                               *)
(***************************************************************************)
EXTENDS Naturals, Sequences, SequencesExt

CONSTANTS
    Jobs,         \* what sessions are about
    Listeners,    \* identities, all of them well-formed
    Nil,
    MaxQueue,     \* datagrams the queue holds, 64
    MaxSessions,  \* bound: sessions
    MaxRestarts   \* bound: failures of the decoder and of the sidecar

Values == UNION {{job.frequency, job.mode, job.message} : job \in Jobs}

ASSUME ReporterAssumption ==
    /\ \A job \in Jobs :
          /\ DOMAIN job = {"frequency", "mode", "who", "message", "enabled",
                           "test"}
          /\ job.who \in Listeners
          /\ job.enabled \in BOOLEAN /\ job.test \in BOOLEAN
    /\ Nil \notin Listeners \cup Values
    /\ MaxQueue \in Nat \ {0} /\ MaxSessions \in Nat /\ MaxRestarts \in Nat

VARIABLES
    \* the decoder:
    live,            \* a session runs
    session, job_,   \* its number, and what it is about
    restarts,
    \* the sidecar:
    queue,
    sessions,
    config,          \* of the last event that carried one
    quiet,           \* the last event was taken more than 15 s ago
    awaiting,        \* what main() waits for
    event,           \* the event main() is at, or Nil
    connected,       \* sio.connected
    connected_identity,
    last,            \* frequency, mode and message published, or Nil each
    retry_due,       \* next_retry has come
    state_file,
    \* FreeDV Reporter:
    listing          \* what it shows for the connection, or Nil

decoder == <<live, session, job_, restarts>>
inputs == <<queue, sessions, config, quiet>>
connection == <<connected, connected_identity, last, listing>>
vars == <<decoder, inputs, awaiting, event, connection, retry_due, state_file>>

Consent(enabled, who, message) ==
    [enabled |-> enabled, who |-> who, message |-> message]
NoConsent == Consent(FALSE, Nil, Nil)

Start(s, job) ==
    [type |-> "start", session_id |-> s, frequency |-> job.frequency,
     mode |-> job.mode, sync |-> FALSE, heard |-> FALSE,
     consent |-> Consent(job.enabled /\ ~job.test, job.who, job.message)]

Status(s, job, sync, heard) ==
    [type |-> "status", session_id |-> s, frequency |-> job.frequency,
     mode |-> job.mode, sync |-> sync, heard |-> heard,
     consent |-> Consent(job.enabled, job.who, job.message)]

Stop(s) == [type |-> "stop", session_id |-> s, heard |-> FALSE, sync |-> FALSE]

Unpublished == [frequency |-> Nil, mode |-> Nil, message |-> Nil]

ReporterInit ==
    /\ queue = <<>> /\ sessions = <<>>
    /\ config = NoConsent
    /\ quiet = FALSE
    /\ awaiting = "event" /\ event = Nil
    /\ connected = FALSE /\ connected_identity = Nil
    /\ last = Unpublished
    /\ retry_due = TRUE
    /\ state_file = "disabled"
    /\ listing = Nil

Init ==
    /\ live = FALSE /\ session = 0 /\ job_ \in Jobs /\ restarts = 0
    /\ ReporterInit

------------------------------------------------------------------------------
(* The decoder, and the datagrams it sends.                                *)

\* The queue drops what does not fit.
datagram_received(e) ==
    queue' = IF Len(queue) < MaxQueue THEN Append(queue, e) ELSE queue

StartSession(job) ==
    /\ ~live /\ session < MaxSessions
    /\ live' = TRUE /\ session' = session + 1 /\ job_' = job
    /\ datagram_received(Start(session + 1, job))
    /\ UNCHANGED <<restarts, sessions, config, quiet, awaiting, event,
                   connection, retry_due, state_file>>

\* A decoder that reconnects may get the same job again.
ResumeSession ==
    /\ ~live /\ session > 0
    /\ restarts < MaxRestarts /\ restarts' = restarts + 1
    /\ live' = TRUE
    /\ datagram_received(Start(session, job_))
    /\ UNCHANGED <<session, job_, sessions, config, quiet, awaiting, event,
                   connection, retry_due, state_file>>

\* A test sends no status.  A callsign may come without sync, at the end of a
\* transmission.
ReportStatus(sync, heard) ==
    /\ live /\ ~job_.test
    /\ datagram_received(Status(session, job_, sync, heard))
    /\ UNCHANGED <<decoder, sessions, config, quiet, awaiting, event,
                   connection, retry_due, state_file>>

StopSession ==
    /\ live
    /\ live' = FALSE
    /\ datagram_received(Stop(session))
    /\ UNCHANGED <<session, job_, restarts, sessions, config, quiet, awaiting,
                   event, connection, retry_due, state_file>>

\* The decoder's connection to the Kiwi fails, or the decoder is killed: no
\* stop is sent.
Killed ==
    /\ live
    /\ restarts < MaxRestarts /\ restarts' = restarts + 1
    /\ live' = FALSE
    /\ UNCHANGED <<session, job_, inputs, awaiting, event, connection,
                   retry_due, state_file>>

------------------------------------------------------------------------------
(* ReporterState.                                                          *)

\* The table without the entry of a session, which has one at most.
Others(s) ==
    LET at == {i \in DOMAIN sessions : sessions[i].session_id = s}
    IN  IF at = {} THEN sessions
        ELSE RemoveAt(sessions, CHOOSE i \in at : TRUE)

Entry(e) == [session_id |-> e.session_id, frequency |-> e.frequency,
             mode |-> e.mode, sync |-> e.sync, who |-> e.consent.who]

\* Mutant: consent is taken from the start alone.
ConsentOfStart(e) == IF e.type = "start" THEN e.consent ELSE config

\* Every event about a session carries its listener's consent.
ConsentOf(e) == e.consent

update(e) ==
    /\ quiet' = FALSE
    /\ IF e.type = "stop"
       THEN /\ sessions' = Others(e.session_id)
            /\ UNCHANGED config
       ELSE /\ sessions' = Append(Others(e.session_id), Entry(e))
            /\ config' = ConsentOf(e)

\* Mutant: stale sessions are kept while somebody is listed.
ExpiredUnlisted == quiet /\ sessions # <<>> /\ ~connected

Expired == quiet /\ sessions # <<>>

expire_stale ==
    /\ sessions' = IF Expired THEN <<>> ELSE sessions
    /\ UNCHANGED <<config, quiet>>

\* The session published: the last one that is synchronized, if there is one.
selected(table) ==
    LET synced == {i \in DOMAIN table : table[i].sync}
    IN  IF synced # {} THEN table[Max(synced)] ELSE Last(table)

Selected == selected(sessions)

------------------------------------------------------------------------------
(* main(): one iteration until it waits again.                             *)

\* disconnect: nothing is remembered of the connection.  The await in it has
\* no effect on what follows.
disconnect(state) ==
    /\ connected' = FALSE /\ connected_identity' = Nil
    /\ last' = Unpublished
    /\ listing' = Nil
    /\ state_file' = state

\* An event is taken, or none came for a second.
Take(e) ==
    \/ /\ queue # <<>> /\ e = Head(queue)
       /\ queue' = Tail(queue)
       /\ update(e)
    \/ /\ queue = <<>> /\ e = Nil
       /\ UNCHANGED queue
       /\ expire_stale

\* Nothing may be published.
Withdraw ==
    /\ sessions' = <<>> \/ ~config'.enabled
    /\ disconnect("disabled")
    /\ retry_due' = (retry_due \/ sessions' = <<>>)
    /\ awaiting' = "event" /\ event' = Nil

\* Mutant: a connection is kept whoever it was made for.
BelongsToAnyone == connected

\* The connection is this listener's.
Belongs == connected /\ connected_identity = config'.who

Connect(e) ==
    /\ sessions' # <<>> /\ config'.enabled
    /\ ~Belongs /\ (connected \/ retry_due)
    /\ IF connected THEN disconnect("connecting")
       ELSE state_file' = "connecting" /\ UNCHANGED connection
    /\ retry_due' = TRUE
    /\ awaiting' = "acceptance" /\ event' = e

AwaitRetry ==
    /\ sessions' # <<>> /\ config'.enabled
    /\ ~connected /\ ~retry_due
    /\ awaiting' = "event" /\ event' = Nil
    /\ UNCHANGED <<connection, retry_due, state_file>>

Proceed(e) ==
    /\ sessions' # <<>> /\ config'.enabled
    /\ Belongs
    /\ awaiting' = "publishing" /\ event' = e
    /\ UNCHANGED <<connection, retry_due, state_file>>

Iterate ==
    /\ awaiting = "event"
    /\ \E e \in {IF queue = <<>> THEN Nil ELSE Head(queue)} :
          /\ Take(e)
          /\ Withdraw \/ Connect(e) \/ AwaitRetry \/ Proceed(e)
    /\ UNCHANGED decoder

\* Mutant: what the last connection published counts for the next one.
RememberedLast == last

\* What a new connection has published.
AfterAcceptance == Unpublished

\* connect_and_wait_for_acceptance succeeds.  The connection may be gone again
\* when main() looks at it.
Accept(gone) ==
    /\ awaiting = "acceptance"
    /\ connected' = ~gone
    /\ connected_identity' = config.who
    /\ last' = AfterAcceptance
    /\ listing' = IF gone THEN Nil
                  ELSE [who |-> config.who, frequency |-> Nil, mode |-> Nil,
                        message |-> Nil]
    /\ retry_due' = TRUE
    /\ state_file' = "online"
    /\ awaiting' = IF gone THEN "event" ELSE "publishing"
    /\ event' = IF gone THEN Nil ELSE event
    /\ UNCHANGED <<decoder, inputs>>

RejectOrTimeout ==
    /\ awaiting = "acceptance"
    /\ retry_due' = FALSE
    /\ state_file' = "error"
    /\ awaiting' = "event" /\ event' = Nil
    /\ UNCHANGED <<decoder, inputs, connection>>

freq_change(shown, frequency) ==
    [shown EXCEPT !.frequency = frequency, !.mode = Nil]

rx_report(shown, mode) == [shown EXCEPT !.mode = mode]

\* Mutant: the mode is only published when it changed.
ModeDueIfChanged(refresh) == Selected.mode # last.mode \/ refresh

\* The server forgets the mode with the frequency.
ModeDue(refresh) ==
    Selected.frequency # last.frequency \/ Selected.mode # last.mode \/ refresh

publish_rx_selection(shown, refresh) ==
    LET tuned == IF Selected.frequency # last.frequency
                 THEN freq_change(shown, Selected.frequency) ELSE shown
    IN  IF ModeDue(refresh) THEN rx_report(tuned, Selected.mode) ELSE tuned

\* The event at hand is a reception: a callsign, or sync of a RADE mode.
Reception ==
    /\ event # Nil
    /\ event.heard \/ (event.sync /\ event.mode \in {"RADEV1", "RADEV2"})

\* The selection, every ten seconds anew, the message and a reception, which
\* is left out if it was reported before.
Publish(refresh, report) ==
    /\ awaiting = "publishing" /\ connected
    /\ report => Reception
    /\ LET shown == [publish_rx_selection(listing, refresh)
                        EXCEPT !.message = IF config.message # last.message
                                           THEN config.message ELSE @]
       IN listing' = IF report THEN rx_report(shown, event.mode) ELSE shown
    /\ last' = [frequency |-> Selected.frequency, mode |-> Selected.mode,
                message |-> config.message]
    /\ awaiting' = "event" /\ event' = Nil
    /\ UNCHANGED <<decoder, inputs, connected, connected_identity, retry_due,
                   state_file>>

PublishFails ==
    /\ awaiting = "publishing"
    /\ disconnect("error")
    /\ retry_due' = FALSE
    /\ awaiting' = "event" /\ event' = Nil
    /\ UNCHANGED <<decoder, inputs>>

------------------------------------------------------------------------------
(* Time, the server and the operating system.                              *)

RetryDue ==
    /\ ~retry_due
    /\ retry_due' = TRUE
    /\ UNCHANGED <<decoder, inputs, awaiting, event, connection, state_file>>

EventsAge ==
    /\ ~quiet
    /\ quiet' = TRUE
    /\ UNCHANGED <<decoder, queue, sessions, config, awaiting, event,
                   connection, retry_due, state_file>>

ServerDisconnects ==
    /\ connected
    /\ connected' = FALSE /\ listing' = Nil
    /\ UNCHANGED <<decoder, inputs, awaiting, event, connected_identity, last,
                   retry_due, state_file>>

\* The sidecar is restarted and remembers nothing.
Restart ==
    /\ restarts < MaxRestarts /\ restarts' = restarts + 1
    /\ queue' = <<>> /\ sessions' = <<>> /\ config' = NoConsent
    /\ quiet' = FALSE
    /\ awaiting' = "event" /\ event' = Nil
    /\ disconnect("disabled")
    /\ retry_due' = TRUE
    /\ UNCHANGED <<live, session, job_>>

Next ==
    \/ \E job \in Jobs : StartSession(job)
    \/ ResumeSession
    \/ \E sync, heard \in BOOLEAN : ReportStatus(sync, heard)
    \/ StopSession
    \/ Killed
    \/ Iterate
    \/ \E gone \in BOOLEAN : Accept(gone)
    \/ RejectOrTimeout
    \/ \E refresh, report \in BOOLEAN : Publish(refresh, report)
    \/ PublishFails
    \/ RetryDue
    \/ EventsAge
    \/ ServerDisconnects
    \/ Restart

Spec == Init /\ [][Next]_vars

\* The sidecar's task and its timers go on, a session that is decoded has its
\* status sent, and the server accepts a listener who asks again and again.
FairSpec ==
    /\ Spec
    /\ WF_vars(Iterate)
    /\ WF_vars(RejectOrTimeout) /\ SF_vars(Accept(FALSE))
    /\ WF_vars(Publish(FALSE, FALSE) \/ PublishFails)
    /\ WF_vars(RetryDue)
    /\ WF_vars(EventsAge)
    /\ WF_vars(\E sync, heard \in BOOLEAN : ReportStatus(sync, heard))

------------------------------------------------------------------------------
(* Properties.                                                             *)

\* Whoever is listed is the listener the last event was about, and has opted
\* in, whatever the order of sessions, lost datagrams, reconnections and
\* restarts; so nobody is listed by a test.
BoundIdentity ==
    listing # Nil => config.enabled /\ listing.who = config.who

\* Between two iterations the listing shows the selected session's frequency
\* and the listener's message, although only changes are published and the
\* connection that they were published on may be gone.
ListedAsSelected ==
    awaiting = "event" /\ connected =>
        /\ sessions # <<>>
        /\ listing.frequency = Selected.frequency
        /\ listing.message = config.message

\* A change of frequency, at which the server forgets the mode, never leaves
\* the listing without one.
ModeFollowsFrequency ==
    awaiting = "event" /\ connected => listing.mode # Nil

OptedIn(who) == live /\ job_.enabled /\ ~job_.test /\ job_.who = who

\* Presence ends with the session or its consent, even if the stop is lost.
PresenceEnds ==
    \A who \in Listeners :
        ~OptedIn(who) ~> OptedIn(who) \/ listing = Nil \/ listing.who # who

\* A listener who opted in is eventually listed, also after the sidecar or the
\* decoder was restarted or the start was lost.
OptInListed ==
    \A who \in Listeners :
        OptedIn(who) ~> ~OptedIn(who) \/ (listing # Nil /\ listing.who = who)

\* The identity is the selected session's: while the next listener is decoded, a
\* synchronized session that was left without a stop is not published under
\* that listener's name.
SelectedListener ==
    awaiting = "event" /\ connected /\ live /\ Selected.sync =>
        Selected.who = listing.who
==============================================================================
