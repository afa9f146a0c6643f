---------------------------- MODULE InstallProofs ----------------------------
(***************************************************************************)
(* For any labels and any number of installations, updates and crashes:    *)
(* the Kiwi always has a binary to run, a stored release stays what it is, *)
(* and a recovery that came to its end gives back what the attempt found.  *)
(*                                                                         *)
(* The argument: the active link, once made, names a stored release        *)
(* (Linked), because what a deployment points it at is stored before       *)
(* (Deploying).  As long as an attempt has changed nothing, the Kiwi is as *)
(* it was found; behind that, the label to return to holds the binary that *)
(* was found (Restorable).  The marker is this attempt's (Prepared).       *)
(***************************************************************************)
EXTENDS Install, TLAPS

Kept ==
    /\ attempt \in Nat /\ updates \in Nat
    /\ bin \in Binaries \cup {Nil}
    /\ stored \in [DOMAIN stored -> Binaries]
    /\ Nil \notin DOMAIN stored

Linked == IF active = Nil THEN bin # Nil ELSE active \in DOMAIN stored

Deploying ==
    /\ pc # "idle" => /\ release \in Releases
                      /\ previous \in DOMAIN stored \cup {Baseline}
                      /\ deployed => Baseline \in DOMAIN stored
    /\ pc = "store" => release \notin DOMAIN stored
    /\ pc \in {"point", "link", "switch", "restart", "switch_back"} =>
          release \in DOMAIN stored /\ Baseline \in DOMAIN stored
    /\ pc \in {"link", "switch", "restart", "switch_back"} =>
          target \in DOMAIN stored
    /\ pc = "link" => active # Nil

Invariant == Kept /\ Linked /\ Deploying

Running == pc # "idle"

\* What the attempt found, and its marker, which an earlier one cannot be.
Prepared ==
    /\ services \in BOOLEAN
    /\ Running =>
          /\ outcome = "none"
          /\ before.services \in BOOLEAN
          /\ decoder_prepared /\ marker # Nil =>
                /\ marker.saved = before.package
                /\ marker.was_active = before.services
    /\ pc = "prepare" => /\ ~decoder_prepared
                         /\ package = before.package
                         /\ services = before.services

PreparedInvariant == Prepared /\ DecoderRestored

LEMMA InitInvariant == Init => Invariant
BY InstallAssumption
   DEF Init, Invariant, Kept, Linked, Deploying, Official, Binaries

\* There is a binary to run.
LEMMA LiveIsBinary == Invariant => Live \in Binaries
BY InstallAssumption DEF Invariant, Kept, Linked, Live

\* A deployment stores the release, and the baseline if there is none, and
\* leaves what is stored.
LEMMA StoreKeeps ==
    ASSUME Invariant, Store
    PROVE  /\ DOMAIN stored' = DOMAIN stored \cup {Baseline, release}
           /\ \A r \in DOMAIN stored : stored'[r] = stored[r]
           /\ stored' \in [DOMAIN stored' -> Binaries]
           /\ Baseline \notin DOMAIN stored => stored'[Baseline] = Live
<1>1. Live \in Binaries /\ Built(attempt) \in Binaries
  BY LiveIsBinary DEF Invariant, Kept, Built, Binaries
<1> QED
  BY <1>1, InstallAssumption DEF Store, Invariant, Kept, Deploying

\* Every step preserves the invariant.
LEMMA NextInvariant == Invariant /\ [Next]_vars => Invariant'
<1> SUFFICES ASSUME Invariant, [Next]_vars PROVE Invariant'
  OBVIOUS
<1> USE InstallAssumption
<1> USE DEF Invariant, Kept, Linked, Deploying
<1>1. ASSUME NEW r \in Releases, Begin(r) PROVE Invariant'
  BY <1>1 DEF Begin, Previous, kiwi, decoder, history
<1>2. CASE Prepare \/ PrepareUnanswered
  BY <1>2 DEF Prepare, PrepareUnanswered, prepare_decoder, kiwi, locals,
              progress, history
<1>3. CASE Configure
  BY <1>3 DEF Configure, decoder, locals, history
<1>4. CASE Verify
  BY <1>4 DEF Verify, NewLabel, kiwi, decoder, locals, progress, history
<1>5. CASE Store
  BY <1>5, StoreKeeps DEF Store, decoder, locals, progress, history
<1>6. CASE Point
  BY <1>6 DEF Point, RollbackTarget, decoder, locals, progress, history
<1>7. CASE LinkBinary \/ Switch
  BY <1>7 DEF LinkBinary, Switch, decoder, locals, progress, history
<1>8. ASSUME NEW ok \in BOOLEAN, Restart(ok) \/ SwitchBack(ok)
      PROVE  Invariant'
  BY <1>8 DEF Restart, SwitchBack, decoder, locals, progress, history
<1>9. CASE StartDecoder \/ Commit \/ CommitUnanswered \/ StepFails
  BY <1>9 DEF StartDecoder, Commit, CommitUnanswered, StepFails, kiwi,
              decoder, locals, progress, history
<1>10. ASSUME NEW ok \in BOOLEAN, stop_decoder(ok) PROVE Invariant'
  BY <1>10 DEF stop_decoder, kiwi, locals, progress, history
<1>11. ASSUME NEW ok \in BOOLEAN, RollbackRelease(ok) PROVE Invariant'
  BY <1>11 DEF RollbackRelease, Continue, decoder, locals, progress, history
<1>12. ASSUME NEW ok \in BOOLEAN, RestoreConfig(ok) PROVE Invariant'
  BY <1>12 DEF RestoreConfig, Continue, decoder, locals, progress, history
<1>13. ASSUME NEW ok \in BOOLEAN, RollbackDecoder(ok) PROVE Invariant'
  BY <1>13 DEF RollbackDecoder, kiwi, locals, progress, history
<1>14. ASSUME NEW ok \in BOOLEAN, PowerFailure(ok) \/ Killed PROVE Invariant'
  BY <1>14 DEF PowerFailure, Killed, kiwi, decoder, locals, progress
<1>15. CASE OfficialUpdate
  BY <1>15 DEF OfficialUpdate, Official, Binaries, decoder, locals, progress
<1>16. ASSUME NEW r \in Releases \cup {Baseline}, NEW ok \in BOOLEAN,
              Rollback(r, ok)
       PROVE  Invariant'
  BY <1>16 DEF Rollback, decoder, locals, progress, history
<1>17. CASE UNCHANGED vars
  BY <1>17 DEF vars, kiwi, decoder, locals, progress, history
<1> QED
  BY <1>1, <1>2, <1>3, <1>4, <1>5, <1>6, <1>7, <1>8, <1>9, <1>10, <1>11,
     <1>12, <1>13, <1>14, <1>15, <1>16, <1>17 DEF Next

THEOREM InvariantCorrect == Spec => []Invariant
BY InitInvariant, NextInvariant, PTL DEF Spec

\* Whatever is interrupted, and in whatever order labels are activated, the
\* binary to start exists.
THEOREM AlwaysBootableCorrect == Spec => []AlwaysBootable
<1>1. Invariant => AlwaysBootable
  BY LiveIsBinary, InstallAssumption DEF AlwaysBootable
<1> QED
  BY <1>1, InvariantCorrect, PTL

\* No step of any attempt overwrites or removes what is stored.
THEOREM ReleasesKeptCorrect == Spec => ReleasesKept
<1>1. Invariant /\ [Next]_vars =>
        [\A r \in DOMAIN stored :
            r \in DOMAIN stored' /\ stored'[r] = stored[r]]_vars
  <2> SUFFICES ASSUME Invariant, Next
               PROVE  \A r \in DOMAIN stored :
                         r \in DOMAIN stored' /\ stored'[r] = stored[r]
    OBVIOUS
  <2>1. CASE Store
    BY <2>1, StoreKeeps
  <2>2. CASE ~Store
    <3>1. stored' = stored
      BY <2>2 DEF Next, Begin, Prepare, PrepareUnanswered, Configure, Verify,
         Point, LinkBinary, Switch, Restart, SwitchBack, StartDecoder, Commit,
         CommitUnanswered, StepFails, stop_decoder, RollbackRelease,
         RestoreConfig, RollbackDecoder, Killed, PowerFailure,
         OfficialUpdate, Rollback, kiwi
    <3> QED
      BY <3>1
  <2> QED
    BY <2>1, <2>2
<1> QED
  BY <1>1, InvariantCorrect, PTL DEF Spec, ReleasesKept

------------------------------------------------------------------------------

\* What a rollback of the decoder restores is what the attempt found.
LEMMA NextPrepared == PreparedInvariant /\ [Next]_vars => PreparedInvariant'
<1> SUFFICES ASSUME PreparedInvariant, [Next]_vars
             PROVE  PreparedInvariant'
  OBVIOUS
<1> USE DEF PreparedInvariant, Prepared, DecoderRestored, Running
<1>1. ASSUME NEW r \in Releases, Begin(r) PROVE PreparedInvariant'
  BY <1>1 DEF Begin, decoder, history
<1>2. CASE Prepare \/ PrepareUnanswered
  <2>1. /\ marker' = [saved |-> before.package, was_active |-> before.services]
        /\ services' = FALSE /\ before' = before
        /\ pc' \in {"configure", "recover"} /\ outcome' = outcome
        /\ Running
    BY <1>2 DEF Prepare, PrepareUnanswered, prepare_decoder, ReadyMarker,
                locals
  <2> QED
    BY <2>1
<1>3. CASE Configure \/ Verify \/ Store \/ Point \/ LinkBinary \/ Switch
  BY <1>3 DEF Configure, Verify, Store, Point, LinkBinary, Switch, decoder,
              locals, progress, history
<1>4. ASSUME NEW ok \in BOOLEAN, Restart(ok) \/ SwitchBack(ok)
      PROVE  PreparedInvariant'
  BY <1>4 DEF Restart, SwitchBack, decoder, locals, progress, history
<1>5. CASE StartDecoder \/ Commit \/ CommitUnanswered
  <2>1. CASE StartDecoder
    BY <2>1 DEF StartDecoder, locals, progress
  <2>2. CASE Commit \/ CommitUnanswered
    BY <2>2 DEF Commit, CommitUnanswered, locals, progress
  <2> QED
    BY <1>5, <2>1, <2>2
<1>6. CASE StepFails
  BY <1>6 DEF StepFails, decoder, locals, progress
<1>7. ASSUME NEW ok \in BOOLEAN, stop_decoder(ok) PROVE PreparedInvariant'
  BY <1>7 DEF stop_decoder, locals, progress
<1>8. ASSUME NEW ok \in BOOLEAN, RollbackRelease(ok) \/ RestoreConfig(ok)
      PROVE  PreparedInvariant'
  BY <1>8 DEF RollbackRelease, RestoreConfig, Continue, decoder, locals,
              progress
<1>9. ASSUME NEW ok \in BOOLEAN, RollbackDecoder(ok) PROVE PreparedInvariant'
  <2>1. CASE decoder_prepared /\ restore_package(ok)
    <3>1. /\ marker.saved = before.package /\ before.services \in BOOLEAN
          /\ marker.was_active = before.services
          /\ package' = marker.saved
          /\ services' = (ok /\ marker.was_active)
      BY <1>9, <2>1 DEF RollbackDecoder, restore_package
    <3>2. services' \in BOOLEAN
      BY <3>1
    <3>3. CASE ok
      <4>1. services' = before.services
        BY <3>1, <3>3
      <4> QED
        BY <1>9, <3>1, <3>2, <4>1 DEF RollbackDecoder, locals
    <3>4. CASE ~ok
      BY <1>9, <3>2, <3>4 DEF RollbackDecoder, locals
    <3> QED
      BY <3>3, <3>4
  <2>2. CASE (decoder_prepared => ~ok) /\ UNCHANGED decoder
    BY <1>9, <2>2 DEF RollbackDecoder, decoder, locals, progress
  <2> QED
    BY <1>9, <2>1, <2>2 DEF RollbackDecoder
<1>10. ASSUME NEW ok \in BOOLEAN, PowerFailure(ok) \/ Killed
       PROVE  PreparedInvariant'
  BY <1>10 DEF PowerFailure, Killed, decoder, locals, progress
<1>11. CASE OfficialUpdate
  BY <1>11 DEF OfficialUpdate, decoder, locals, progress
<1>12. ASSUME NEW r \in Releases \cup {Baseline}, NEW ok \in BOOLEAN,
              Rollback(r, ok)
       PROVE  PreparedInvariant'
  BY <1>12 DEF Rollback, decoder, locals, progress
<1>13. CASE UNCHANGED vars
  BY <1>13 DEF vars, decoder, locals, progress
<1> QED
  BY <1>1, <1>2, <1>3, <1>4, <1>5, <1>6, <1>7, <1>8, <1>9, <1>10, <1>11,
     <1>12, <1>13 DEF Next

\* The decoder is returned to what the attempt found, however many attempts
\* were broken off before it and left their marker.
THEOREM DecoderRestoredCorrect == Spec => []DecoderRestored
<1>1. Init => PreparedInvariant
  BY DEF Init, PreparedInvariant, Prepared, DecoderRestored, Running
<1>2. PreparedInvariant => DecoderRestored
  BY DEF PreparedInvariant
<1> QED
  BY <1>1, <1>2, NextPrepared, PTL DEF Spec

------------------------------------------------------------------------------

Answers == healthy /\ running = [binary |-> Live, config |-> config]

\* kiwi.json is as found, or its backup is.
Configured ==
    /\ Running => /\ outcome = "none"
                  /\ backup = before.config
                  /\ ~config_changed => config = before.config
    /\ pc = "restore_decoder" => /\ config = before.config
                                 /\ config_changed => Answers

\* The binary is as found, or the label to return to holds it.
Returnable ==
    /\ previous \in DOMAIN stored => stored[previous] = before.binary
    /\ pc \in {"prepare", "configure", "verify", "store", "point"} =>
          active = previous \/ (active = Nil /\ previous = Baseline)
    /\ pc \in {"prepare", "configure", "verify", "store", "point", "link",
               "restore", "restore_decoder"} => Live = before.binary
    /\ pc \in {"link", "switch", "restart", "switch_back"} => target = previous
    /\ pc \in {"link", "switch"} => active = previous
    /\ pc \in {"switch", "restart", "switch_back", "start", "commit"} =>
          bin = Nil
    /\ pc \in {"recover", "rollback"} =>
          IF deployed THEN bin = Nil ELSE Live = before.binary

Restorable ==
    /\ Running /\ before.trusted => Returnable
    /\ pc \in {"start", "commit"} => deployed
    /\ pc \in {"prepare", "configure", "verify", "store", "point", "link",
               "switch", "restart", "switch_back"} => ~deployed

KiwiInvariant == Configured /\ Restorable /\ KiwiRestored

\* What the Kiwi runs depends on the links and the releases alone.
LEMMA LiveUnchanged ==
    ASSUME UNCHANGED <<bin, active, stored>> PROVE Live' = Live
BY DEF Live

\* A deployment that stores a release changes nothing in use.
LEMMA StoreLive == ASSUME Invariant, Store PROVE Live' = Live
BY StoreKeeps DEF Store, Live, Invariant, Linked

\* The label to return to holds what was found, once the baseline is stored.
LEMMA StoreReturnable ==
    ASSUME Invariant, KiwiInvariant, before.trusted, Store
    PROVE  Returnable'
<1>1. /\ pc = "store" /\ pc' = "point"
      /\ UNCHANGED <<bin, active, previous, before>>
  BY DEF Store, locals
<1>2. Live = before.binary /\ Returnable
  BY <1>1 DEF KiwiInvariant, Restorable, Returnable, Running
<1>3. stored'[previous] = before.binary
  BY <1>1, <1>2, StoreKeeps DEF Invariant, Deploying, Returnable
<1> QED
  BY <1>1, <1>2, <1>3, StoreLive DEF Returnable

\* The deployment's own target is that label.
LEMMA PointReturnable ==
    ASSUME Invariant, KiwiInvariant, before.trusted, Point
    PROVE  Returnable'
<1>1. /\ pc = "point" /\ pc' = "link"
      /\ UNCHANGED <<bin, stored, previous, before>>
      /\ target' = RollbackTarget /\ active' = target'
  BY DEF Point, locals
<1>2. Live = before.binary /\ Returnable
  BY <1>1 DEF KiwiInvariant, Restorable, Returnable, Running
<1>3. previous \in DOMAIN stored /\ stored[previous] = before.binary
  BY <1>1, <1>2 DEF Invariant, Deploying, Returnable
<1>4. RollbackTarget = previous
  BY <1>1, <1>2, <1>3 DEF RollbackTarget, Returnable, Invariant, Kept
<1>5. Live' = before.binary
  BY <1>1, <1>2, <1>3, <1>4 DEF Live
<1> QED
  BY <1>1, <1>2, <1>3, <1>4, <1>5 DEF Returnable

\* Every step preserves what a recovery relies on.
LEMMA NextKiwi ==
    Invariant /\ KiwiInvariant /\ [Next]_vars => KiwiInvariant'
<1> SUFFICES ASSUME Invariant, KiwiInvariant, [Next]_vars
             PROVE  KiwiInvariant'
  OBVIOUS
<1> USE DEF KiwiInvariant, Configured, Restorable, KiwiRestored, Running
<1>1. ASSUME NEW r \in Releases, Begin(r) PROVE KiwiInvariant'
  <2>1. Live' = Live /\ (before'.trusted => Trusted) /\ before'.binary = Live
    BY <1>1, LiveUnchanged DEF Begin, kiwi
  <2>2. before'.trusted => Returnable'
    BY <1>1, <2>1 DEF Begin, Returnable, Previous, Trusted, Invariant,
                      Linked, kiwi
  <2> QED
    BY <1>1, <2>2 DEF Begin, kiwi
<1>2. CASE Prepare \/ PrepareUnanswered
  <2>1. CASE Prepare
    BY <2>1, LiveUnchanged DEF Prepare, Returnable, kiwi, locals
  <2>2. CASE PrepareUnanswered
    BY <2>2, LiveUnchanged
       DEF PrepareUnanswered, Returnable, kiwi, locals, progress
  <2> QED
    BY <1>2, <2>1, <2>2
<1>3. CASE Configure
  BY <1>3, LiveUnchanged DEF Configure, Returnable, locals
<1>4. CASE Verify
  BY <1>4, LiveUnchanged DEF Verify, Returnable, kiwi, locals, progress
<1>5. CASE Store
  BY <1>5, StoreReturnable DEF Store, locals, progress
<1>6. CASE Point
  BY <1>6, PointReturnable DEF Point, locals, progress
<1>7. CASE LinkBinary
  BY <1>7 DEF LinkBinary, Returnable, locals, progress
<1>8. CASE Switch
  BY <1>8 DEF Switch, Returnable, locals, progress
<1>9. ASSUME NEW ok \in BOOLEAN, Restart(ok) PROVE KiwiInvariant'
  BY <1>9 DEF Restart, Returnable, locals
<1>10. ASSUME NEW ok \in BOOLEAN, SwitchBack(ok) PROVE KiwiInvariant'
  <2>1. before.trusted => Live' = before.binary
    BY <1>10 DEF SwitchBack, Returnable, Live, Invariant, Deploying
  <2> QED
    BY <1>10, <2>1 DEF SwitchBack, Returnable, locals, progress
<1>11. CASE StartDecoder \/ CommitUnanswered
  BY <1>11 DEF StartDecoder, CommitUnanswered, Returnable, kiwi, locals,
               progress
<1>12. CASE Commit
  BY <1>12 DEF Commit
<1>13. CASE StepFails
  <2>1. Live' = Live
    BY <1>13, LiveUnchanged DEF StepFails, kiwi
  <2>2. pc = "switch" /\ before.trusted => Live = before.binary
    BY DEF Returnable, Live, Invariant, Deploying
  <2> QED
    BY <1>13, <2>1, <2>2 DEF StepFails, Returnable, kiwi, locals, progress
<1>14. ASSUME NEW ok \in BOOLEAN, stop_decoder(ok) PROVE KiwiInvariant'
  BY <1>14, LiveUnchanged DEF stop_decoder, Returnable, kiwi, locals, progress
<1>15. ASSUME NEW ok \in BOOLEAN, RollbackRelease(ok) PROVE KiwiInvariant'
  <2>1. before.trusted => Live' = before.binary
    <3>1. CASE deployed
      BY <1>15, <3>1 DEF RollbackRelease, Returnable, Live, Invariant,
                         Deploying
    <3>2. CASE ~deployed
      BY <1>15, <3>2, LiveUnchanged DEF RollbackRelease, Returnable
    <3> QED
      BY <3>1, <3>2
  <2> QED
    BY <1>15, <2>1 DEF RollbackRelease, Continue, Returnable, locals, progress
<1>16. ASSUME NEW ok \in BOOLEAN, RestoreConfig(ok) PROVE KiwiInvariant'
  <2>1. Live' = Live
    BY <1>16, LiveUnchanged DEF RestoreConfig
  <2>2. config' = before.config
    BY <1>16 DEF RestoreConfig, RestoreAndRestart
  <2>3. pc' = "restore_decoder" /\ config_changed => Answers'
    <3> SUFFICES ASSUME pc' = "restore_decoder", config_changed PROVE Answers'
      OBVIOUS
    <3>1. restart(ok) /\ Continue("restore_decoder", healthy')
      BY <1>16 DEF RestoreConfig, RestoreAndRestart
    <3>2. healthy'
      BY <3>1 DEF Continue
    <3>3. running' = [binary |-> Live', config |-> config']
      BY <3>1 DEF restart
    <3> QED
      BY <3>2, <3>3 DEF Answers
  <2> QED
    BY <1>16, <2>1, <2>2, <2>3
       DEF RestoreConfig, Continue, Returnable, locals, progress
<1>17. ASSUME NEW ok \in BOOLEAN, RollbackDecoder(ok) PROVE KiwiInvariant'
  BY <1>17, LiveUnchanged
     DEF RollbackDecoder, Returnable, Answers, kiwi, locals, progress
<1>18. ASSUME NEW ok \in BOOLEAN, PowerFailure(ok) \/ Killed
       PROVE  KiwiInvariant'
  BY <1>18 DEF PowerFailure, Killed
<1>19. CASE OfficialUpdate
  BY <1>19 DEF OfficialUpdate
<1>20. ASSUME NEW r \in Releases \cup {Baseline}, NEW ok \in BOOLEAN,
              Rollback(r, ok)
       PROVE  KiwiInvariant'
  BY <1>20 DEF Rollback
<1>21. CASE UNCHANGED vars
  BY <1>21, LiveUnchanged
     DEF vars, kiwi, locals, progress, Returnable, Answers
<1> QED
  BY <1>1, <1>2, <1>3, <1>4, <1>5, <1>6, <1>7, <1>8, <1>9, <1>10, <1>11,
     <1>12, <1>13, <1>14, <1>15, <1>16, <1>17, <1>18, <1>19, <1>20, <1>21
     DEF Next

\* A recovery that came to its end has put back the binary, the configuration
\* and a running server.
THEOREM KiwiRestoredCorrect == Spec => []KiwiRestored
<1>1. Init => KiwiInvariant
  BY DEF Init, KiwiInvariant, Configured, Restorable, KiwiRestored, Running
<1>2. KiwiInvariant => KiwiRestored
  BY DEF KiwiInvariant
<1> QED
  BY <1>1, <1>2, InvariantCorrect, NextKiwi, PTL DEF Spec
=============================================================================
