--------------------------- MODULE ReporterProofs ---------------------------
(***************************************************************************)
(* For any number of sessions, listeners, datagrams and restarts, whatever *)
(* the order of events: who is listed is the listener of the last event,   *)
(* and what is listed is what was selected.                                *)
(*                                                                         *)
(* The argument: what the sidecar remembers of its connection is true of   *)
(* the listing as long as the connection lasts (Remembered), and an event  *)
(* that makes it wrong for the listener is followed, in the same           *)
(* iteration, by a disconnection (Bound).  Which session is selected, and  *)
(* what is in the queue, does not matter for that.  For the mode it does:  *)
(* whatever is selected came from a job (Typed), so that a frequency is    *)
(* never published without a mode (Complete).                              *)
(***************************************************************************)
EXTENDS Reporter, SequenceTheorems, WellFoundedInduction, TLAPS

Fields == {"who", "frequency", "mode", "message"}

\* Without a connection nothing is listed; with one, the listing has the
\* identity, the frequency and the message the sidecar remembers.
Remembered ==
    IF connected
    THEN /\ listing = [f \in Fields |-> listing[f]]
         /\ listing.who = connected_identity
         /\ last = [frequency |-> listing.frequency, mode |-> last.mode,
                    message |-> listing.message]
    ELSE listing = Nil

\* A connection kept or being made is one the last event permits, and it has
\* been brought up to date unless main() is about to.
Bound ==
    /\ awaiting \in {"event", "acceptance", "publishing"}
    /\ awaiting # "event" => sessions # <<>> /\ config.enabled
    /\ awaiting = "acceptance" => ~connected
    /\ connected => config.enabled /\ connected_identity = config.who
    /\ connected /\ awaiting = "event" =>
          /\ sessions # <<>>
          /\ last.frequency = Selected.frequency
          /\ last.message = config.message

Invariant == Remembered /\ Bound

Consents == [enabled : BOOLEAN, who : Listeners, message : Values]

\* What the decoder sends: a stop carries no reception.
Events ==
    [type : {"stop"}, session_id : Nat, heard : {FALSE}, sync : {FALSE}]
      \cup [type : {"start", "status"}, session_id : Nat, frequency : Values,
            mode : Values, sync : BOOLEAN, heard : BOOLEAN,
            consent : Consents]

Entries == [session_id : Nat, frequency : Values, mode : Values,
            sync : BOOLEAN, who : Listeners]

\* What is on its way, at hand and in the table came from a job.
Typed ==
    /\ job_ \in Jobs /\ session \in Nat
    /\ queue \in Seq(Events)
    /\ sessions \in Seq(Entries)
    /\ event \in Events \cup {Nil}

\* A listing with a frequency has a mode.
Complete == connected /\ listing.frequency # Nil => listing.mode # Nil

\* What disconnect leaves satisfies the invariant, given that main() waits for
\* an event or for acceptance.
LEMMA Disconnected ==
    ASSUME NEW state, disconnect(state),
           \/ awaiting' = "event"
           \/ awaiting' = "acceptance" /\ sessions' # <<>> /\ config'.enabled
    PROVE  Invariant'
BY DEF disconnect, Invariant, Remembered, Bound

\* One iteration: an event, or none, and what main() does about it.
LEMMA IterateInvariant ==
    ASSUME Invariant, Iterate
    PROVE  Invariant'
<1>1. PICK e : Take(e) /\ (Withdraw \/ Connect(e) \/ AwaitRetry \/ Proceed(e))
  BY DEF Iterate
<1>2. CASE Withdraw
  BY <1>2, Disconnected DEF Withdraw
<1>3. CASE Connect(e)
  <2>1. CASE connected
    BY <1>3, <2>1, Disconnected DEF Connect
  <2>2. CASE ~connected
    BY <1>3, <2>2 DEF Connect, connection, Invariant, Remembered, Bound
  <2> QED
    BY <2>1, <2>2
<1>4. CASE AwaitRetry
  BY <1>4 DEF AwaitRetry, connection, Invariant, Remembered, Bound
<1>5. CASE Proceed(e)
  BY <1>5 DEF Proceed, Belongs, connection, Invariant, Remembered, Bound
<1> QED
  BY <1>1, <1>2, <1>3, <1>4, <1>5

\* A new connection lists its listener and nothing else.
LEMMA AcceptInvariant ==
    ASSUME Invariant, NEW gone \in BOOLEAN, Accept(gone)
    PROVE  Invariant'
<1>1. CASE gone
  BY <1>1 DEF Accept, inputs, Invariant, Remembered, Bound
<1>2. CASE ~gone
  <2>1. listing' = [who |-> config.who, frequency |-> Nil, mode |-> Nil,
                    message |-> Nil]
    BY <1>2 DEF Accept
  <2>2. listing' = [f \in Fields |-> listing'[f]]
    BY <2>1 DEF Fields
  <2>3. last' = [frequency |-> listing'.frequency, mode |-> last'.mode,
                 message |-> listing'.message]
    BY <2>1 DEF Accept, AfterAcceptance, Unpublished
  <2>4. connected'
    BY <1>2 DEF Accept
  <2>5. /\ connected_identity' = config'.who
        /\ listing'.who = connected_identity'
    BY <2>1 DEF Accept, inputs
  <2>6. Remembered'
    BY <2>2, <2>3, <2>4, <2>5 DEF Remembered
  <2>7. Bound'
    BY <1>2, <2>5 DEF Accept, inputs, Invariant, Bound
  <2> QED
    BY <2>6, <2>7 DEF Invariant
<1> QED
  BY <1>1, <1>2

\* Publishing only the differences brings the listing up to date, since what
\* is remembered is what is listed.
LEMMA PublishInvariant ==
    ASSUME Invariant, NEW refresh \in BOOLEAN, NEW report \in BOOLEAN,
           Publish(refresh, report)
    PROVE  Invariant'
<1> DEFINE tuned == IF Selected.frequency # last.frequency
                    THEN freq_change(listing, Selected.frequency)
                    ELSE listing
           published == publish_rx_selection(listing, refresh)
           shown == [published EXCEPT !.message =
                        IF config.message # last.message
                        THEN config.message ELSE @]
<1>1. /\ listing = [f \in Fields |-> listing[f]]
      /\ listing.who = connected_identity
      /\ last.frequency = listing.frequency
      /\ last.message = listing.message
      /\ connected /\ awaiting = "publishing"
      /\ sessions # <<>> /\ config.enabled /\ connected_identity = config.who
  BY DEF Publish, Invariant, Remembered, Bound
<1>2. /\ tuned = [f \in Fields |-> tuned[f]]
      /\ tuned.who = listing.who
      /\ tuned.frequency = Selected.frequency
      /\ tuned.message = listing.message
  BY <1>1 DEF freq_change, Fields
<1>3. /\ published = [f \in Fields |-> published[f]]
      /\ published.who = listing.who
      /\ published.frequency = Selected.frequency
      /\ published.message = listing.message
  BY <1>2 DEF publish_rx_selection, rx_report, Fields
<1>4. /\ shown = [f \in Fields |-> shown[f]]
      /\ shown.who = listing.who
      /\ shown.frequency = Selected.frequency
      /\ shown.message = config.message
  BY <1>1, <1>3 DEF Fields
<1>5. listing' = IF report THEN rx_report(shown, event.mode) ELSE shown
  BY DEF Publish
<1>6. /\ listing' = [f \in Fields |-> listing'[f]]
      /\ listing'.who = listing.who
      /\ listing'.frequency = Selected.frequency
      /\ listing'.message = config.message
  BY <1>4, <1>5 DEF rx_report, Fields
<1>7. /\ last' = [frequency |-> Selected.frequency, mode |-> Selected.mode,
                  message |-> config.message]
      /\ awaiting' = "event"
      /\ UNCHANGED <<connected, connected_identity, sessions, config>>
  BY DEF Publish, inputs
<1>8. Remembered'
  BY <1>1, <1>6, <1>7 DEF Remembered
<1>9. Selected' = Selected
  BY <1>7 DEF Selected
<1>10. Bound'
  BY <1>1, <1>7, <1>9 DEF Bound
<1> QED
  BY <1>8, <1>10 DEF Invariant

LEMMA NextInvariant ==
    ASSUME Invariant, [Next]_vars
    PROVE  Invariant'
<1> DEFINE Unseen == UNCHANGED <<sessions, config, awaiting, connection>>
<1>1. Unseen => Invariant'
  BY DEF connection, Invariant, Remembered, Bound, Selected
<1>2. ASSUME NEW job \in Jobs, StartSession(job) PROVE Unseen
  BY <1>2 DEF StartSession
<1>3. CASE ResumeSession
  BY <1>1, <1>3 DEF ResumeSession
<1>4. ASSUME NEW sync \in BOOLEAN, NEW heard \in BOOLEAN,
             ReportStatus(sync, heard)
      PROVE  Unseen
  BY <1>4 DEF ReportStatus
<1>5. CASE StopSession
  BY <1>1, <1>5 DEF StopSession
<1>6. CASE Killed
  BY <1>1, <1>6 DEF Killed, inputs
<1>7. CASE RejectOrTimeout
  BY <1>7 DEF RejectOrTimeout, inputs, connection, Invariant, Remembered, Bound
<1>8. CASE PublishFails
  BY <1>8, Disconnected DEF PublishFails
<1>9. CASE RetryDue
  BY <1>1, <1>9 DEF RetryDue, inputs
<1>10. CASE EventsAge
  BY <1>1, <1>10 DEF EventsAge
<1>11. CASE ServerDisconnects
  BY <1>11 DEF ServerDisconnects, inputs, Invariant, Remembered, Bound
<1>12. CASE Restart
  BY <1>12, Disconnected DEF Restart
<1>13. CASE UNCHANGED vars
  BY <1>1, <1>13 DEF vars, inputs
<1> QED
  BY <1>1, <1>2, <1>3, <1>4, <1>5, <1>6, <1>7, <1>8, <1>9, <1>10, <1>11,
     <1>12, <1>13, IterateInvariant, AcceptInvariant, PublishInvariant
     DEF Next

\* The invariant holds of every reachable state of the sidecar.
THEOREM InvariantCorrect == Spec => []Invariant
<1>1. Init => Invariant
  BY DEF Init, ReporterInit, Invariant, Remembered, Bound
<1> QED
  BY <1>1, NextInvariant, PTL DEF Spec

\* Nobody is listed who did not opt in, or for another listener's event.
THEOREM BoundIdentityCorrect == Spec => []BoundIdentity
<1>1. Invariant => BoundIdentity
  BY DEF Invariant, Remembered, Bound, BoundIdentity
<1> QED
  BY <1>1, InvariantCorrect, PTL

\* Between two iterations the listing is what the session table selects,
\* across every failure of the connection.
THEOREM ListedAsSelectedCorrect == Spec => []ListedAsSelected
<1>1. Invariant => ListedAsSelected
  BY DEF Invariant, Remembered, Bound, ListedAsSelected
<1> QED
  BY <1>1, InvariantCorrect, PTL

------------------------------------------------------------------------------
(* Events and the session table.                                           *)

\* A set of numbers that is not empty has a least one.
LEMMA LeastExists ==
    ASSUME NEW T \in SUBSET Nat, T # {}
    PROVE  \E x \in T : \A y \in T : x <= y
<1> DEFINE R == OpToRel(<, Nat)
<1>1. IsWellFoundedOn(R, Nat)
  BY NatLessThanWellFounded, Zenon
<1>2. R = {p \in Nat \X Nat : p[1] < p[2]}
  BY DEF OpToRel
<1> HIDE DEF R
<1>3. PICK x \in T : \A y \in T : ~(<<y, x>> \in R)
  BY <1>1, WFMin, Zenon
<1>4. \A y \in T : ~(y < x)
  BY <1>2, <1>3
<1> QED
  BY <1>4

\* A set of numbers within a bound that is not empty has a greatest one.
LEMMA MaxExists ==
    ASSUME NEW n \in Nat, NEW T \in SUBSET (1..n), T # {}
    PROVE  Max(T) \in T
<1> DEFINE below == {n - x : x \in T}
<1>1. below \in SUBSET Nat /\ below # {}
  <2>1. \A x \in T : n - x \in Nat
    OBVIOUS
  <2> QED
    BY <2>1
<1>2. PICK b \in below : \A y \in below : b <= y
  BY <1>1, LeastExists
<1>3. PICK x \in T : b = n - x
  BY <1>2
<1>4. \A y \in T : x >= y
  <2> SUFFICES ASSUME NEW y \in T PROVE x >= y
    OBVIOUS
  <2>1. b <= n - y
    BY <1>2
  <2>2. x \in 1..n /\ y \in 1..n
    OBVIOUS
  <2> QED
    BY <1>3, <2>1, <2>2
<1> QED
  BY <1>4 DEF Max

\* A sequence without one of its elements is one.
LEMMA RemoveAtType ==
    ASSUME NEW S, NEW s \in Seq(S), NEW i \in 1..Len(s)
    PROVE  RemoveAt(s, i) \in Seq(S)
<1>1. Len(s) \in Nat /\ \A j \in 1..Len(s) : s[j] \in S
  BY ElementOfSeq, LenProperties
<1>2. SubSeq(s, 1, i - 1) \in Seq(S)
  <2>1. \A j \in 1..i - 1 : s[j] \in S
    BY <1>1
  <2>2. 1 \in Int /\ i - 1 \in Int
    BY <1>1
  <2> QED
    BY <2>1, <2>2, SubSeqProperties
<1>3. SubSeq(s, i + 1, Len(s)) \in Seq(S)
  <2>1. \A j \in i + 1..Len(s) : s[j] \in S
    BY <1>1
  <2>2. i + 1 \in Int /\ Len(s) \in Int
    BY <1>1
  <2> QED
    BY <2>1, <2>2, SubSeqProperties
<1> QED
  BY <1>2, <1>3, ConcatProperties DEF RemoveAt

LEMMA OthersType ==
    ASSUME Typed, NEW s
    PROVE  Others(s) \in Seq(Entries)
<1> DEFINE at == {i \in DOMAIN sessions : sessions[i].session_id = s}
<1>1. sessions \in Seq(Entries)
  BY DEF Typed
<1>2. DOMAIN sessions = 1..Len(sessions)
  BY <1>1, LenProperties
<1>3. CASE at = {}
  BY <1>1, <1>3 DEF Others
<1>4. CASE at # {}
  <2>1. (CHOOSE i \in at : TRUE) \in 1..Len(sessions)
    BY <1>2, <1>4
  <2>2. RemoveAt(sessions, CHOOSE i \in at : TRUE) \in Seq(Entries)
    BY <1>1, <2>1, RemoveAtType
  <2> QED
    BY <1>4, <2>2 DEF Others
<1> QED
  BY <1>3, <1>4

\* What is selected is in the table.
LEMMA SelectedType ==
    ASSUME Typed, sessions # <<>>
    PROVE  Selected \in Entries
<1> DEFINE synced == {i \in DOMAIN sessions : sessions[i].sync}
<1>1. sessions \in Seq(Entries)
  BY DEF Typed
<1>2. Len(sessions) \in Nat \ {0} /\ DOMAIN sessions = 1..Len(sessions)
  BY <1>1, EmptySeq, LenProperties
<1>3. Selected = IF synced # {} THEN sessions[Max(synced)] ELSE Last(sessions)
  BY DEF Selected, selected
<1>4. CASE synced # {}
  <2>1. synced \in SUBSET (1..Len(sessions)) /\ Len(sessions) \in Nat
    BY <1>2
  <2>2. Max(synced) \in 1..Len(sessions)
    <3> HIDE DEF synced
    <3> QED
      BY <1>4, <2>1, MaxExists
  <2> HIDE DEF synced
  <2> QED
    BY <1>1, <1>3, <1>4, <2>2, ElementOfSeq
<1>5. CASE synced = {}
  <2>1. Len(sessions) \in 1..Len(sessions)
    BY <1>2
  <2> QED
    BY <1>1, <1>3, <1>5, <2>1, ElementOfSeq DEF Last
<1> QED
  BY <1>4, <1>5

\* The datagrams about a job are events.
LEMMA EventTypes ==
    ASSUME NEW job \in Jobs, NEW s \in Nat
    PROVE  /\ Start(s, job) \in Events
           /\ \A sync, heard \in BOOLEAN : Status(s, job, sync, heard) \in Events
           /\ Stop(s) \in Events
<1>1. /\ job.who \in Listeners /\ job.enabled \in BOOLEAN
      /\ job.test \in BOOLEAN
  BY ReporterAssumption
<1>2. job.frequency \in Values /\ job.mode \in Values /\ job.message \in Values
  BY DEF Values
<1>3. Consent(job.enabled /\ ~job.test, job.who, job.message) \in Consents
  BY <1>1, <1>2 DEF Consent, Consents
<1>4. Consent(job.enabled, job.who, job.message) \in Consents
  BY <1>1, <1>2 DEF Consent, Consents
<1>5. Start(s, job) \in Events
  BY <1>2, <1>3 DEF Start, Events
<1>6. ASSUME NEW sync \in BOOLEAN, NEW heard \in BOOLEAN
      PROVE  Status(s, job, sync, heard) \in Events
  BY <1>2, <1>4 DEF Status, Events
<1>7. Stop(s) \in Events
  BY DEF Stop, Events
<1> QED
  BY <1>5, <1>6, <1>7

LEMMA ReceivedType ==
    ASSUME Typed, NEW e \in Events, datagram_received(e)
    PROVE  queue' \in Seq(Events)
<1>1. queue \in Seq(Events)
  BY DEF Typed
<1>2. Append(queue, e) \in Seq(Events)
  BY <1>1, AppendProperties
<1> QED
  BY <1>1, <1>2 DEF datagram_received

\* Taking an event leaves a table of entries.
LEMMA TakeType ==
    ASSUME Typed, NEW e, Take(e)
    PROVE  /\ e \in Events \cup {Nil}
           /\ queue' \in Seq(Events) /\ sessions' \in Seq(Entries)
<1>1. queue \in Seq(Events) /\ sessions \in Seq(Entries)
  BY DEF Typed
<1>2. CASE queue # <<>> /\ e = Head(queue) /\ queue' = Tail(queue) /\ update(e)
  <2>1. e \in Events /\ queue' \in Seq(Events)
    BY <1>1, <1>2, HeadTailProperties
  <2>2. CASE e.type = "stop"
    <3>1. sessions' = Others(e.session_id)
      BY <1>2, <2>2 DEF update
    <3> QED
      BY <2>1, <3>1, OthersType
  <2>3. CASE e.type # "stop"
    <3>1. sessions' = Append(Others(e.session_id), Entry(e))
      BY <1>2, <2>3 DEF update
    <3>2. Entry(e) \in Entries
      <4>1. e \in [type : {"start", "status"}, session_id : Nat,
                   frequency : Values, mode : Values, sync : BOOLEAN,
                   heard : BOOLEAN, consent : Consents]
        BY <2>1, <2>3 DEF Events
      <4>2. e.consent.who \in Listeners
        BY <4>1 DEF Consents
      <4> QED
        BY <4>1, <4>2 DEF Entry, Entries
    <3>3. Others(e.session_id) \in Seq(Entries)
      BY OthersType
    <3>4. Append(Others(e.session_id), Entry(e)) \in Seq(Entries)
      BY <3>2, <3>3, AppendProperties
    <3> QED
      BY <2>1, <3>1, <3>4
  <2> QED
    BY <2>2, <2>3
<1>3. CASE queue = <<>> /\ e = Nil /\ UNCHANGED queue /\ expire_stale
  <2>1. <<>> \in Seq(Entries)
    BY EmptySeq
  <2> QED
    BY <1>1, <1>3, <2>1 DEF expire_stale
<1> QED
  BY <1>2, <1>3 DEF Take

LEMMA TypedNext ==
    ASSUME Typed, [Next]_vars
    PROVE  Typed'
<1> DEFINE Same == UNCHANGED <<job_, session, queue, sessions, event>>
<1>0. /\ job_ \in Jobs /\ session \in Nat /\ queue \in Seq(Events)
      /\ sessions \in Seq(Entries) /\ event \in Events \cup {Nil}
  BY DEF Typed
<1>1. Same => Typed'
  BY DEF Typed
<1>2. ASSUME NEW job \in Jobs, StartSession(job) PROVE Typed'
  <2>1. Start(session + 1, job) \in Events
    <3>1. session + 1 \in Nat
      BY <1>0
    <3> QED
      BY <3>1, EventTypes
  <2>2. queue' \in Seq(Events)
    BY <1>2, <2>1, ReceivedType DEF StartSession
  <2> QED
    BY <1>0, <1>2, <2>2 DEF StartSession, Typed
<1>3. CASE ResumeSession
  <2>1. Start(session, job_) \in Events
    BY <1>0, EventTypes
  <2>2. queue' \in Seq(Events)
    BY <1>3, <2>1, ReceivedType DEF ResumeSession
  <2> QED
    BY <1>0, <1>3, <2>2 DEF ResumeSession, Typed
<1>4. ASSUME NEW sync \in BOOLEAN, NEW heard \in BOOLEAN,
             ReportStatus(sync, heard)
      PROVE  Typed'
  <2>1. Status(session, job_, sync, heard) \in Events
    BY <1>0, EventTypes
  <2>2. queue' \in Seq(Events)
    BY <1>4, <2>1, ReceivedType DEF ReportStatus
  <2> QED
    BY <1>0, <1>4, <2>2 DEF ReportStatus, decoder, Typed
<1>5. CASE StopSession
  <2>1. Stop(session) \in Events
    BY <1>0, EventTypes
  <2>2. queue' \in Seq(Events)
    BY <1>5, <2>1, ReceivedType DEF StopSession
  <2> QED
    BY <1>0, <1>5, <2>2 DEF StopSession, Typed
<1>6. CASE Killed
  BY <1>1, <1>6 DEF Killed, inputs
<1>7. CASE Iterate
  <2>1. PICK e : Take(e) /\ (Withdraw \/ Connect(e) \/ AwaitRetry \/ Proceed(e))
    BY <1>7 DEF Iterate
  <2>2. /\ e \in Events \cup {Nil}
        /\ queue' \in Seq(Events) /\ sessions' \in Seq(Entries)
    BY <2>1, TakeType
  <2>3. event' \in {e, Nil}
    BY <2>1 DEF Withdraw, Connect, AwaitRetry, Proceed
  <2>4. UNCHANGED <<job_, session>>
    BY <1>7 DEF Iterate, decoder
  <2> QED
    BY <1>0, <2>2, <2>3, <2>4 DEF Typed
<1>8. ASSUME NEW gone \in BOOLEAN, Accept(gone) PROVE Typed'
  BY <1>0, <1>8 DEF Accept, decoder, inputs, Typed
<1>9. CASE RejectOrTimeout
  BY <1>0, <1>9 DEF RejectOrTimeout, decoder, inputs, Typed
<1>10. ASSUME NEW refresh \in BOOLEAN, NEW report \in BOOLEAN,
              Publish(refresh, report)
       PROVE  Typed'
  BY <1>0, <1>10 DEF Publish, decoder, inputs, Typed
<1>11. CASE PublishFails
  BY <1>0, <1>11 DEF PublishFails, decoder, inputs, Typed
<1>12. CASE RetryDue
  BY <1>1, <1>12 DEF RetryDue, decoder, inputs
<1>13. CASE EventsAge
  BY <1>1, <1>13 DEF EventsAge, decoder
<1>14. CASE ServerDisconnects
  BY <1>1, <1>14 DEF ServerDisconnects, decoder, inputs
<1>15. CASE Restart
  <2>1. <<>> \in Seq(Events) /\ <<>> \in Seq(Entries)
    BY EmptySeq
  <2> QED
    BY <1>0, <1>15, <2>1 DEF Restart, Typed
<1>16. CASE UNCHANGED vars
  BY <1>1, <1>16 DEF vars, decoder, inputs
<1> QED
  BY <1>2, <1>3, <1>4, <1>5, <1>6, <1>7, <1>8, <1>9, <1>10, <1>11, <1>12,
     <1>13, <1>14, <1>15, <1>16 DEF Next

\* The events in flight and the sessions in the table are as the decoder made
\* them: each but a stop names a frequency and a mode.
THEOREM TypedCorrect == Spec => []Typed
<1>1. Init => Typed
  <2> SUFFICES ASSUME Init PROVE Typed
    OBVIOUS
  <2>1. <<>> \in Seq(Events) /\ <<>> \in Seq(Entries)
    BY EmptySeq
  <2> QED
    BY <2>1 DEF Init, ReporterInit, Typed
<1> QED
  BY <1>1, TypedNext, PTL DEF Spec

------------------------------------------------------------------------------
(* The mode.                                                               *)

\* The frequency is only published together with a mode.
LEMMA PublishComplete ==
    ASSUME Invariant, Typed, Complete, NEW refresh \in BOOLEAN,
           NEW report \in BOOLEAN, Publish(refresh, report)
    PROVE  Complete'
<1> DEFINE tuned == IF Selected.frequency # last.frequency
                    THEN freq_change(listing, Selected.frequency)
                    ELSE listing
           published == publish_rx_selection(listing, refresh)
           shown == [published EXCEPT !.message =
                        IF config.message # last.message
                        THEN config.message ELSE @]
<1>1. /\ listing = [f \in Fields |-> listing[f]]
      /\ last.frequency = listing.frequency
      /\ sessions # <<>> /\ connected
  BY DEF Publish, Invariant, Remembered, Bound
<1>2. Selected.mode # Nil /\ Selected.frequency # Nil
  BY <1>1, SelectedType, ReporterAssumption DEF Entries
<1>3. tuned = [f \in Fields |-> tuned[f]]
  BY <1>1 DEF freq_change, Fields
<1>4. published = IF ModeDue(refresh) THEN rx_report(tuned, Selected.mode)
                  ELSE tuned
  BY DEF publish_rx_selection
<1>5. published.mode # Nil /\ published = [f \in Fields |-> published[f]]
  <2>1. CASE ModeDue(refresh)
    <3>1. published = [tuned EXCEPT !.mode = Selected.mode]
      BY <1>4, <2>1 DEF rx_report
    <3> QED
      BY <1>2, <1>3, <3>1 DEF Fields
  <2>2. CASE ~ModeDue(refresh)
    <3>1. Selected.frequency = last.frequency
      BY <2>2 DEF ModeDue
    <3>2. published = listing
      BY <1>4, <2>2, <3>1
    <3>3. listing.frequency # Nil
      BY <1>1, <1>2, <3>1
    <3>4. listing.mode # Nil
      BY <1>1, <3>3 DEF Complete
    <3> QED
      BY <1>1, <3>2, <3>4
  <2> QED
    BY <2>1, <2>2
<1>6. shown.mode # Nil /\ shown = [f \in Fields |-> shown[f]]
  BY <1>5 DEF Fields
<1>7. listing' = IF report THEN rx_report(shown, event.mode) ELSE shown
  BY DEF Publish
<1>8. CASE report
  <2>1. Reception
    BY <1>8 DEF Publish
  <2>2. event \in Events /\ (event.heard \/ event.sync)
    BY <2>1 DEF Reception, Typed
  <2>3. event.mode \in Values
    BY <2>2 DEF Events
  <2>4. event.mode # Nil
    BY <2>3, ReporterAssumption
  <2>5. listing' = [shown EXCEPT !.mode = event.mode]
    BY <1>7, <1>8 DEF rx_report
  <2>6. listing'.mode # Nil
    BY <1>6, <2>4, <2>5 DEF Fields
  <2> QED
    BY <2>6 DEF Complete
<1>9. CASE ~report
  <2>1. listing'.mode # Nil
    BY <1>6, <1>7, <1>9
  <2> QED
    BY <2>1 DEF Complete
<1> QED
  BY <1>8, <1>9

LEMMA CompleteNext ==
    ASSUME Invariant, Typed, Complete, [Next]_vars
    PROVE  Complete'
<1>1. UNCHANGED connection => Complete'
  BY DEF connection, Complete
<1>2. ASSUME NEW state, disconnect(state) PROVE Complete'
  BY <1>2 DEF disconnect, Complete
<1>3. ASSUME NEW job \in Jobs, StartSession(job) PROVE Complete'
  BY <1>1, <1>3 DEF StartSession
<1>4. CASE ResumeSession \/ StopSession \/ Killed
  BY <1>1, <1>4 DEF ResumeSession, StopSession, Killed
<1>5. ASSUME NEW sync \in BOOLEAN, NEW heard \in BOOLEAN,
             ReportStatus(sync, heard)
      PROVE  Complete'
  BY <1>1, <1>5 DEF ReportStatus
<1>6. CASE Iterate
  <2>1. PICK e : Withdraw \/ Connect(e) \/ AwaitRetry \/ Proceed(e)
    BY <1>6 DEF Iterate
  <2> QED
    BY <1>1, <1>2, <2>1 DEF Withdraw, Connect, AwaitRetry, Proceed
<1>7. ASSUME NEW gone \in BOOLEAN, Accept(gone) PROVE Complete'
  BY <1>7 DEF Accept, Complete
<1>8. CASE RejectOrTimeout \/ RetryDue \/ EventsAge
  BY <1>1, <1>8 DEF RejectOrTimeout, RetryDue, EventsAge
<1>9. ASSUME NEW refresh \in BOOLEAN, NEW report \in BOOLEAN,
             Publish(refresh, report)
      PROVE  Complete'
  BY <1>9, PublishComplete
<1>10. CASE PublishFails \/ Restart
  BY <1>2, <1>10 DEF PublishFails, Restart
<1>11. CASE ServerDisconnects
  BY <1>11 DEF ServerDisconnects, Complete
<1>12. CASE UNCHANGED vars
  BY <1>1, <1>12 DEF vars
<1> QED
  BY <1>3, <1>4, <1>5, <1>6, <1>7, <1>8, <1>9, <1>10, <1>11, <1>12 DEF Next

\* Between two iterations the listing has a mode, although the server forgets
\* it with every change of frequency and the sidecar only sends differences.
THEOREM ModeFollowsFrequencyCorrect == Spec => []ModeFollowsFrequency
<1>1. Init => Complete
  BY DEF Init, ReporterInit, Complete
<1>2. Spec => []Complete
  BY <1>1, CompleteNext, InvariantCorrect, TypedCorrect, PTL DEF Spec
<1>3. Invariant /\ Typed /\ Complete => ModeFollowsFrequency
  <2> SUFFICES ASSUME Invariant, Typed, Complete, awaiting = "event", connected
               PROVE  listing.mode # Nil
    BY DEF ModeFollowsFrequency
  <2>1. /\ sessions # <<>> /\ last.frequency = Selected.frequency
        /\ last.frequency = listing.frequency
    BY DEF Invariant, Remembered, Bound
  <2>2. Selected.frequency # Nil
    BY <2>1, SelectedType, ReporterAssumption DEF Entries
  <2> QED
    BY <2>1, <2>2 DEF Complete
<1> QED
  BY <1>2, <1>3, InvariantCorrect, TypedCorrect, PTL
==============================================================================
