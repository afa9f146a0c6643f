------------------------------ MODULE Install ------------------------------
(***************************************************************************)
(* The guided installer: it prepares a decoder, changes the Kiwi's         *)
(* configuration, deploys a release behind an active link, starts the      *)
(* decoder, and undoes all of it when a step fails.  Any step may fail,    *)
(* the installer may be killed between two, the Kiwi may lose power, and   *)
(* an answer of the decoder host may be lost.  Between installations an    *)
(* official update may replace the binary, and the operator may roll back. *)
(*                                                                         *)
(* Configurations and decoder packages are named by the attempt that made  *)
(* them, 0 before the first.  The decoder's two services are one.          *)
(***************************************************************************)
EXTENDS Naturals

CONSTANTS
    Releases,     \* labels the operator may give
    Nil,
    MaxAttempts,  \* bound: installations begun
    MaxUpdates,   \* bound: official updates
    MaxCrashes    \* bound: kills and power failures

Baseline == "baseline-1.902"

Binaries == [kind : {"official", "freedv"}, n : Nat]

ASSUME InstallAssumption ==
    /\ Baseline \notin Releases
    /\ Nil \notin Releases \cup {Baseline} \cup Binaries
    /\ MaxAttempts \in Nat /\ MaxUpdates \in Nat /\ MaxCrashes \in Nat

VARIABLES
    mode,        \* "local" or "remote" decoder
    \* the Kiwi:
    bin,         \* the binary at /usr/local/bin/kiwid, or Nil: a link to active
    active,      \* the release /root/freedv-releases/active names, or Nil
    stored,      \* the releases kept, a function from label to binary
    config,      \* kiwi.json
    running,     \* binary and configuration of the running server
    healthy,     \* it answers
    \* the decoder's host:
    package,     \* decoder package with its configuration, or Nil
    services,    \* they are active
    marker,      \* one-shot-ready: what was there before, or Nil
    \* the installer:
    pc,
    attempt, release, previous,
    config_changed, deployed, decoder_prepared,
    backup,      \* the kiwi.json preserved
    target,      \* previous in deploy-kiwi-release.sh
    \* the past:
    before,      \* what this attempt found
    outcome,     \* of the last attempt
    updates, crashes

kiwi == <<bin, active, stored, config, running, healthy>>
decoder == <<package, services, marker>>
locals == <<attempt, release, previous, backup, before>>
progress == <<config_changed, deployed, decoder_prepared>>
history == <<mode, updates, crashes>>
vars == <<kiwi, decoder, pc, locals, progress, target, outcome, history>>

Official(n) == [kind |-> "official", n |-> n]
Built(n) == [kind |-> "freedv", n |-> n]

\* The binary that a start of the server runs.
Live == IF bin # Nil THEN bin
        ELSE IF active \in DOMAIN stored THEN stored[active] ELSE Nil

restart(ok) ==
    /\ running' = [binary |-> Live', config |-> config']
    /\ healthy' = (ok /\ Live' # Nil)

Init ==
    /\ mode \in {"local", "remote"}
    /\ bin = Official(0) /\ active = Nil /\ stored = [r \in {} |-> Nil]
    /\ config = 0
    /\ running = [binary |-> Official(0), config |-> 0] /\ healthy = TRUE
    /\ package \in {Nil, 0}
    /\ services \in {FALSE, package # Nil}
    /\ marker = Nil
    /\ pc = "idle"
    /\ attempt = 0 /\ release = Nil /\ previous = Nil
    /\ config_changed = FALSE /\ deployed = FALSE /\ decoder_prepared = FALSE
    /\ backup = 0 /\ target = Nil
    /\ before = Nil /\ outcome = "none"
    /\ updates = 0 /\ crashes = 0

------------------------------------------------------------------------------
(* main(), up to the deployment.                                           *)

\* What the installer returns to: it reads the active link as it stands.
Previous == IF active # Nil THEN active ELSE Baseline

\* The release that would be returned to is the binary in use.
Trusted == IF Previous \in DOMAIN stored THEN stored[Previous] = Live
                                         ELSE Previous = Baseline

\* Checks and the backup, behind which nothing has changed.
Begin(r) ==
    /\ pc = "idle" /\ healthy
    /\ attempt < MaxAttempts /\ attempt' = attempt + 1
    /\ release' = r
    /\ backup' = config
    /\ previous' = Previous
    /\ config_changed' = FALSE /\ deployed' = FALSE
    /\ decoder_prepared' = FALSE
    /\ before' = [binary |-> Live, config |-> config, package |-> package,
                  services |-> services, trusted |-> Trusted]
    /\ pc' = "prepare" /\ outcome' = "none"
    /\ UNCHANGED <<kiwi, decoder, target, history>>

\* Mutant: an earlier marker is kept.
KeptMarker ==
    IF marker # Nil THEN marker
    ELSE [saved |-> package, was_active |-> services]

ReadyMarker == [saved |-> package, was_active |-> services]

\* The decoder's installation script to its end.  A local decoder must be new;
\* a remote one is installed or reconfigured.
prepare_decoder ==
    /\ mode = "local" => package = Nil
    /\ marker' = ReadyMarker
    /\ package' = attempt /\ services' = FALSE

Prepare ==
    /\ pc = "prepare"
    /\ prepare_decoder
    /\ decoder_prepared' = TRUE
    /\ pc' = "configure"
    /\ UNCHANGED <<kiwi, locals, config_changed, deployed, target, outcome,
                   history>>

\* The connection is lost when the script has ended.
PrepareUnanswered ==
    /\ pc = "prepare" /\ mode = "remote"
    /\ prepare_decoder
    /\ pc' = "recover"
    /\ UNCHANGED <<kiwi, locals, progress, target, outcome, history>>

Configure ==
    /\ pc = "configure"
    /\ config' = attempt /\ config_changed' = TRUE
    /\ pc' = "verify"
    /\ UNCHANGED <<bin, active, stored, running, healthy, decoder, locals,
                   deployed, decoder_prepared, target, outcome, history>>

\* Mutant: a label may be used again.
NewLabelAny == TRUE

NewLabel == release \notin DOMAIN stored

\* The build has succeeded and its result is in order.
Verify ==
    /\ pc = "verify" /\ NewLabel
    /\ pc' = "store"
    /\ UNCHANGED <<kiwi, decoder, locals, progress, target, outcome, history>>

------------------------------------------------------------------------------
(* deploy-kiwi-release.sh.                                                 *)

\* The baseline is the binary in use when nothing has been stored.
Store ==
    /\ pc = "store" /\ healthy
    /\ stored' = [r \in DOMAIN stored \cup {Baseline, release} |->
                    IF r = release THEN Built(attempt)
                    ELSE IF r \in DOMAIN stored THEN stored[r] ELSE Live]
    /\ pc' = "point"
    /\ UNCHANGED <<bin, active, config, running, healthy, decoder, locals,
                   progress, target, outcome, history>>

\* Mutant: the label alone is trusted.
RollbackTargetClaimed == IF active # Nil THEN active ELSE Nil

\* The active release, if it is the binary in use, or the baseline.
RollbackTarget ==
    IF active \in DOMAIN stored /\ stored[active] = Live
    THEN active ELSE Baseline

Point ==
    /\ pc = "point"
    /\ target' = RollbackTarget
    /\ active' = target'
    /\ pc' = "link"
    /\ UNCHANGED <<bin, stored, config, running, healthy, decoder, locals,
                   progress, outcome, history>>

LinkBinary ==
    /\ pc = "link"
    /\ bin' = Nil
    /\ pc' = "switch"
    /\ UNCHANGED <<active, stored, config, running, healthy, decoder, locals,
                   progress, target, outcome, history>>

Switch ==
    /\ pc = "switch"
    /\ active' = release
    /\ pc' = "restart"
    /\ UNCHANGED <<bin, stored, config, running, healthy, decoder, locals,
                   progress, target, outcome, history>>

Restart(ok) ==
    /\ pc = "restart"
    /\ UNCHANGED <<bin, active, stored, config>>
    /\ restart(ok)
    /\ deployed' = ok
    /\ pc' = IF ok THEN "start" ELSE "switch_back"
    /\ UNCHANGED <<decoder, locals, config_changed, decoder_prepared, target,
                   outcome, history>>

SwitchBack(ok) ==
    /\ pc = "switch_back"
    /\ active' = target
    /\ UNCHANGED <<bin, stored, config>>
    /\ restart(ok)
    /\ pc' = "recover"
    /\ UNCHANGED <<decoder, locals, progress, target, outcome, history>>

------------------------------------------------------------------------------
(* main(), behind the deployment.                                          *)

StartDecoder ==
    /\ pc = "start"
    /\ services' = TRUE
    /\ pc' = "commit"
    /\ UNCHANGED <<kiwi, package, marker, locals, progress, target, outcome,
                   history>>

\* Decoder and Kiwi have been healthy in all samples.
Commit ==
    /\ pc = "commit"
    /\ marker' = Nil
    /\ pc' = "idle" /\ outcome' = "passed"
    /\ UNCHANGED <<kiwi, package, services, locals, progress, target, history>>

CommitUnanswered ==
    /\ pc = "commit" /\ mode = "remote"
    /\ marker' = Nil
    /\ pc' = "recover"
    /\ UNCHANGED <<kiwi, package, services, locals, progress, target, outcome,
                   history>>

\* A step fails and has changed nothing, or has undone what it changed.
StepFails ==
    /\ pc \in {"prepare", "configure", "verify", "store", "point", "link",
               "switch", "start", "commit"}
    /\ pc' = "recover"
    /\ UNCHANGED <<kiwi, decoder, locals, progress, target, outcome, history>>

------------------------------------------------------------------------------
(* main(): automatic recovery.                                             *)

\* A decoder that cannot be reached is not stopped.
stop_decoder(reached) ==
    /\ pc = "recover"
    /\ services' = (services /\ ~reached)
    /\ pc' = "rollback"
    /\ UNCHANGED <<kiwi, package, marker, locals, progress, target, outcome,
                   history>>

\* What fails in the recovery ends it.
Continue(next, ok) ==
    /\ pc' = IF ok THEN next ELSE "idle"
    /\ outcome' = IF ok THEN outcome ELSE "aborted"

RollbackRelease(ok) ==
    /\ pc = "rollback"
    /\ UNCHANGED <<bin, stored, config>>
    /\ IF deployed
       THEN /\ active' = previous
            /\ restart(ok)
            /\ Continue("restore", healthy')
       ELSE /\ ok
            /\ Continue("restore", TRUE)
            /\ UNCHANGED <<active, running, healthy>>
    /\ UNCHANGED <<decoder, locals, progress, target, history>>

\* Mutant: the server goes on with the configuration it has.
RestoreSilently(ok) ==
    config' = backup /\ UNCHANGED <<running, healthy>>

RestoreAndRestart(ok) == config' = backup /\ restart(ok)

RestoreConfig(ok) ==
    /\ pc = "restore"
    /\ UNCHANGED <<bin, active, stored>>
    /\ IF config_changed
       THEN RestoreAndRestart(ok) /\ Continue("restore_decoder", healthy')
       ELSE /\ ok
            /\ Continue("restore_decoder", TRUE)
            /\ UNCHANGED <<config, running, healthy>>
    /\ UNCHANGED <<decoder, locals, progress, target, history>>

\* The decoder's own rollback needs its marker.
restore_package(ok) ==
    /\ marker # Nil
    /\ package' = marker.saved
    /\ services' = (ok /\ marker.was_active)
    /\ marker' = IF ok THEN Nil ELSE marker

\* Its failure, with the package restored or not, is a warning.
RollbackDecoder(ok) ==
    /\ pc = "restore_decoder"
    /\ \/ decoder_prepared /\ restore_package(ok)
       \/ (decoder_prepared => ~ok) /\ UNCHANGED decoder
    /\ pc' = "idle"
    /\ outcome' = IF ok THEN "restored" ELSE "decoder not restored"
    /\ UNCHANGED <<kiwi, locals, progress, target, history>>

------------------------------------------------------------------------------
(* Everything else.                                                        *)

\* The installer is interrupted or its terminal goes away: no recovery.
Killed ==
    /\ pc # "idle"
    /\ crashes < MaxCrashes /\ crashes' = crashes + 1
    /\ pc' = "idle" /\ outcome' = "killed"
    /\ UNCHANGED <<kiwi, decoder, locals, progress, target, mode, updates>>

\* The Kiwi comes back; a local decoder starts with it.
PowerFailure(ok) ==
    /\ crashes < MaxCrashes /\ crashes' = crashes + 1
    /\ UNCHANGED <<bin, active, stored, config>>
    /\ restart(ok)
    /\ services' = IF mode = "local" THEN package # Nil ELSE services
    /\ pc' = "idle" /\ outcome' = "killed"
    /\ UNCHANGED <<package, marker, locals, progress, target, mode, updates>>

\* An official update replaces the binary and leaves the active link.
OfficialUpdate ==
    /\ pc = "idle"
    /\ updates < MaxUpdates /\ updates' = updates + 1
    /\ bin' = Official(updates + 1)
    /\ UNCHANGED <<active, stored, config>>
    /\ restart(TRUE)
    /\ outcome' = "none"
    /\ UNCHANGED <<decoder, pc, locals, progress, target, mode, crashes>>

\* rollback-kiwi-release.sh by hand.
Rollback(r, ok) ==
    /\ pc = "idle"
    /\ r \in DOMAIN stored
    /\ active' = r
    /\ UNCHANGED <<bin, stored, config>>
    /\ restart(ok)
    /\ outcome' = "none"
    /\ UNCHANGED <<decoder, pc, locals, progress, target, history>>

Next ==
    \/ \E r \in Releases : Begin(r)
    \/ Prepare
    \/ PrepareUnanswered
    \/ Configure
    \/ Verify
    \/ Store
    \/ Point
    \/ LinkBinary
    \/ Switch
    \/ StartDecoder
    \/ Commit
    \/ CommitUnanswered
    \/ StepFails
    \/ \E ok \in BOOLEAN :
          \/ Restart(ok)
          \/ SwitchBack(ok)
          \/ stop_decoder(ok)
          \/ RollbackRelease(ok)
          \/ RestoreConfig(ok)
          \/ RollbackDecoder(ok)
          \/ PowerFailure(ok)
    \/ Killed
    \/ OfficialUpdate
    \/ \E r \in Releases \cup {Baseline}, ok \in BOOLEAN : Rollback(r, ok)

Spec == Init /\ [][Next]_vars

------------------------------------------------------------------------------
(* Properties.                                                             *)

\* Whenever the Kiwi is started, at any point of a deployment, a rollback or
\* what a crash left of them, there is a binary to run.
AlwaysBootable == Live # Nil

\* A recovery that came to its end leaves the Kiwi as this attempt found it,
\* whatever step failed and whatever earlier attempts left behind, provided
\* that the active link named the binary in use.
KiwiRestored ==
    outcome \in {"restored", "decoder not restored"} /\ before.trusted =>
        /\ Live = before.binary /\ config = before.config
        /\ config_changed =>
              healthy /\ running = [binary |-> Live, config |-> config]

\* A decoder that was prepared is returned to the package and the service
\* state this attempt found, not to those an earlier attempt found.
DecoderRestored ==
    outcome = "restored" /\ decoder_prepared =>
        package = before.package /\ services = before.services

\* A release that has been stored is what a later rollback gets: no attempt
\* overwrites it, the baseline included.
ReleasesKept ==
    [][\A r \in DOMAIN stored :
          r \in DOMAIN stored' /\ stored'[r] = stored[r]]_vars

\* An official update leaves no stale rollback target: a failed installation
\* never brings back a release that the update had replaced.
NoStaleTarget ==
    outcome = "restored" /\ updates > 0 /\ before.binary = Official(updates) =>
        Live.kind = "official"
==============================================================================
