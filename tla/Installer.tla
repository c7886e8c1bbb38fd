------------------------------ MODULE Installer ------------------------------
(* `tg update` (update.rs): processes that look for a newer release, download and  *)
(* verify it and put it in the place of the executable, at once on Unix and by a    *)
(* detached helper on Windows. A file is the height of the release whose complete   *)
(* binary it holds, or Partial, or NoFile. Any step can fail, and any process can   *)
(* be killed between two of them.                                                   *)
EXTENDS Naturals, FiniteSetsExt

CONSTANTS
    Updater,      \* processes started by `tg update`; each is started once
    MaxHeight,    \* bound: the highest release that is ever published
    Attempts,     \* the attempts of the Windows helper (60 in the code)
    MaxHarms      \* bound: times that a process is killed or a move back fails

\* The release that runs exists, and the helper makes an attempt.
ASSUME InstallerAssumption ==
    MaxHeight \in Nat \ {0} /\ Attempts \in Nat \ {0} /\ MaxHarms \in Nat

VARIABLES
    onWindows,    \* the platform of the build
    published,    \* GitHub: releases, with whether each is a prerelease
    executable,   \* the file that runs
    updaters,     \* each `tg update`: where it is, what it runs, seeks and has on disk
    failureMarker,\* the file <target>.update-failed
    harms

installerVars == <<onWindows, published, executable, updaters, failureMarker, harms>>

NoFile == 0
Partial == MaxHeight + 1
File == NoFile .. Partial

Release(height, prerelease) == [height |-> height, prerelease |-> prerelease]

\* `runs` is the version that the process was started from.
Unstarted == [at |-> "unstarted", channel |-> "stable", runs |-> NoFile, version |-> NoFile,
              archive |-> NoFile, stage |-> NoFile, backup |-> NoFile, attempt |-> 0]

InstallerInit ==
    /\ onWindows \in BOOLEAN
    /\ published = {Release(1, FALSE)}
    /\ executable = 1
    /\ updaters = [u \in Updater |-> Unstarted]
    /\ failureMarker = FALSE
    /\ harms = 0

InstallerType ==
    /\ onWindows \in BOOLEAN /\ failureMarker \in BOOLEAN
    /\ published \subseteq [height : 1 .. MaxHeight, prerelease : BOOLEAN]
    /\ executable \in File
    /\ updaters \in [Updater ->
         [at : {"unstarted", "checking", "downloading", "verifying", "staging", "staged",
                "replacing", "restoring", "discarding", "marking", "clearing", "ended"},
          channel : {"stable", "prerelease"}, runs : File, version : File, archive : File,
          stage : File, backup : File, attempt : 0 .. Attempts]]
    /\ harms \in 0 .. MaxHarms

-------------------------------------------------------------------------------
(* GitHub.                                                                      *)

Publish ==
    /\ \E height \in 1 .. MaxHeight, prerelease \in BOOLEAN :
          /\ height = 1 + Max({r.height : r \in published})
          /\ published' = published \cup {Release(height, prerelease)}
    /\ UNCHANGED <<onWindows, executable, updaters, failureMarker, harms>>

\* check asks LATEST_URL or RELEASES_URL; parse_releases drops the tags that are not
\* on the 0.1.Z line, and select_update the drafts.
Offered(channel) == {r \in published : channel = "prerelease" \/ ~r.prerelease}

\* select_update: a release is offered only if it is higher than the one that runs.
NewestOffered(channel) == Max({r.height : r \in Offered(channel)})

-------------------------------------------------------------------------------
(* An updater, step by step.                                                    *)

Moves(u, from, change) ==
    /\ updaters[u].at = from
    /\ updaters' = [updaters EXCEPT ![u] = change]

Start(u) ==
    /\ executable \in 1 .. MaxHeight
    /\ \E channel \in {"stable", "prerelease"} :
          Moves(u, "unstarted", [updaters[u] EXCEPT !.at = "checking", !.channel = channel,
                                                    !.runs = executable])
    /\ UNCHANGED <<onWindows, published, executable, failureMarker, harms>>

\* run: nothing to install clears the failure marker of Windows, unless that fails too.
Check(u) ==
    /\ LET newest == NewestOffered(updaters[u].channel)
           found == newest > updaters[u].runs
       IN /\ Moves(u, "checking", [updaters[u] EXCEPT
                !.at = IF found THEN "downloading" ELSE "ended",
                !.version = IF found THEN newest ELSE NoFile])
          /\ failureMarker' = (failureMarker /\ (found \/ ~onWindows))
    /\ UNCHANGED <<onWindows, published, executable, harms>>

\* download: curl fetches the checksums and the archive, whole or damaged.
DownloadArchive(u) ==
    /\ \E archive \in {updaters[u].version, Partial} :
          Moves(u, "downloading", [updaters[u] EXCEPT !.at = "verifying", !.archive = archive])
    /\ UNCHANGED <<onWindows, published, executable, failureMarker, harms>>

\* Mutant: an archive is taken as it came.
TakeArchive(u) ==
    /\ Moves(u, "verifying", [updaters[u] EXCEPT !.at = "staging", !.stage = Partial])
    /\ UNCHANGED <<onWindows, published, executable, failureMarker, harms>>

\* verify_archive and extract_exact_binary: only a whole archive gets further; then
\* validate_update_target, and stage_binary creates its file beside the executable.
VerifyArchive(u) ==
    /\ updaters[u].archive = updaters[u].version
    /\ executable # NoFile
    /\ Moves(u, "verifying", [updaters[u] EXCEPT !.at = "staging", !.stage = Partial])
    /\ UNCHANGED <<onWindows, published, executable, failureMarker, harms>>

\* stage_binary copies the binary and syncs it.
StageBinary(u) ==
    /\ Moves(u, "staging", [updaters[u] EXCEPT !.at = "staged", !.stage = updaters[u].archive])
    /\ UNCHANGED <<onWindows, published, executable, failureMarker, harms>>

\* Whatever fails before the replacement: the staged file is removed, and the directory
\* of the downloads goes when the process ends.
Fails(u) ==
    /\ \E at \in {"checking", "downloading", "verifying", "staging"} :
          Moves(u, at, [updaters[u] EXCEPT !.at = "ended", !.stage = NoFile,
                                           !.archive = NoFile])
    /\ UNCHANGED <<onWindows, published, executable, failureMarker, harms>>

\* fs::rename over the executable, or a failure that removes the staged file.
Rename(u) ==
    /\ ~onWindows
    /\ Moves(u, "staged", [updaters[u] EXCEPT !.at = "ended", !.stage = NoFile])
    /\ executable' \in {executable, updaters[u].stage}
    /\ UNCHANGED <<onWindows, published, failureMarker, harms>>

\* spawn_windows_replacer: the marker of an earlier failure is cleared first; the
\* helper begins when this process has exited. A helper that cannot start takes the stage
\* away; what fails before, clearing the marker among it, leaves the stage.
SpawnReplacer(u) ==
    /\ onWindows
    /\ \/ /\ \/ Moves(u, "staged", [updaters[u] EXCEPT !.at = "replacing"])
             \/ Moves(u, "staged", [updaters[u] EXCEPT !.at = "ended", !.stage = NoFile])
          /\ failureMarker' = FALSE
       \/ /\ Moves(u, "staged", [updaters[u] EXCEPT !.at = "ended"])
          /\ failureMarker' \in {failureMarker, FALSE}
    /\ UNCHANGED <<onWindows, published, executable, harms>>

-------------------------------------------------------------------------------
(* The Windows helper.                                                          *)

\* File.Replace moves the executable to the backup and the stage to the executable.
\* The backup is deleted then, unless that fails.
Replace(u) ==
    /\ executable # NoFile
    /\ executable' = updaters[u].stage
    /\ \E backup \in {NoFile, executable} :
          Moves(u, "replacing", [updaters[u] EXCEPT !.at = "ended", !.stage = NoFile,
                                                    !.backup = backup])
    /\ UNCHANGED <<onWindows, published, failureMarker, harms>>

AfterAttempt(u) == IF updaters[u].attempt + 1 = Attempts THEN "restoring" ELSE "replacing"

\* It fails: as a whole (the executable runs elsewhere, or is not there), or after
\* the first of its two moves.
ReplaceFails(u) ==
    /\ \E half \in BOOLEAN :
          /\ half => executable # NoFile
          /\ executable' = IF half THEN NoFile ELSE executable
          /\ Moves(u, "replacing", [updaters[u] EXCEPT
                !.at = AfterAttempt(u), !.attempt = @ + 1,
                !.backup = IF half THEN executable ELSE @])
    /\ UNCHANGED <<onWindows, published, failureMarker, harms>>

\* Mutant: the executable is not moved back.
RestoreNothing(u) ==
    /\ Moves(u, "restoring", [updaters[u] EXCEPT !.at = "discarding"])
    /\ UNCHANGED <<onWindows, published, executable, failureMarker, harms>>

\* The last attempt is over: a missing executable is moved back. The move can fail.
Restore(u) ==
    /\ IF executable = NoFile /\ updaters[u].backup # NoFile
       THEN \/ /\ executable' = updaters[u].backup
               /\ Moves(u, "restoring", [updaters[u] EXCEPT !.at = "discarding",
                                                            !.backup = NoFile])
               /\ UNCHANGED harms
            \/ /\ harms < MaxHarms
               /\ harms' = harms + 1
               /\ Moves(u, "restoring", [updaters[u] EXCEPT !.at = "discarding"])
               /\ UNCHANGED executable
       ELSE /\ Moves(u, "restoring", [updaters[u] EXCEPT !.at = "discarding"])
            /\ UNCHANGED <<executable, harms>>
    /\ UNCHANGED <<onWindows, published, failureMarker>>

\* Mutant: a backup is discarded whether the executable is there or not.
DiscardAnyway(u) ==
    /\ Moves(u, "discarding", [updaters[u] EXCEPT !.at = "marking", !.backup = NoFile])
    /\ UNCHANGED <<onWindows, published, executable, failureMarker, harms>>

\* A backup that remains beside an executable is deleted, unless that fails.
DiscardBackup(u) ==
    /\ \E backup \in {updaters[u].backup, NoFile} :
          /\ backup = updaters[u].backup \/ executable # NoFile
          /\ Moves(u, "discarding", [updaters[u] EXCEPT !.at = "marking", !.backup = backup])
    /\ UNCHANGED <<onWindows, published, executable, failureMarker, harms>>

MarkFailure(u) ==
    /\ Moves(u, "marking", [updaters[u] EXCEPT !.at = "clearing"])
    /\ failureMarker' = TRUE
    /\ UNCHANGED <<onWindows, published, executable, harms>>

DeleteStage(u) ==
    /\ Moves(u, "clearing", [updaters[u] EXCEPT !.at = "ended", !.stage = NoFile])
    /\ UNCHANGED <<onWindows, published, executable, failureMarker, harms>>

\* The process, or its helper, is killed; what it has on disk stays there.
Killed(u) ==
    /\ harms < MaxHarms
    /\ harms' = harms + 1
    /\ updaters[u].at \notin {"unstarted", "ended"}
    /\ updaters' = [updaters EXCEPT ![u].at = "ended"]
    /\ UNCHANGED <<onWindows, published, executable, failureMarker>>

InstallerNext ==
    \/ Publish
    \/ \E u \in Updater :
          \/ Start(u) \/ Check(u) \/ DownloadArchive(u) \/ VerifyArchive(u) \/ StageBinary(u)
          \/ Fails(u) \/ Rename(u) \/ SpawnReplacer(u) \/ Replace(u) \/ ReplaceFails(u)
          \/ Restore(u) \/ DiscardBackup(u) \/ MarkFailure(u) \/ DeleteStage(u) \/ Killed(u)

InstallerSpec == InstallerInit /\ [][InstallerNext]_installerVars

-------------------------------------------------------------------------------
(* Properties.                                                                  *)

\* "The existing executable is left untouched on failure" (update.rs): the executable
\* never holds part of a release, at every moment it or a copy of it is there, and it is
\* there again when every updater has ended and nothing was killed or kept from moving
\* it back, however two updaters interleave.
ExecutableSurvives ==
    /\ executable # Partial
    /\ executable # NoFile \/ \E u \in Updater : updaters[u].backup \in 1 .. MaxHeight
    /\ harms = 0 /\ (\A u \in Updater : updaters[u].at \in {"unstarted", "ended"})
          => executable # NoFile

\* What is about to be put in place is a release of the channel that was asked for,
\* higher than the version the updater was started from.
StagedIsWanted ==
    \A u \in Updater :
        updaters[u].stage \in 1 .. MaxHeight =>
            /\ updaters[u].stage > updaters[u].runs
            /\ \E r \in Offered(updaters[u].channel) : r.height = updaters[u].stage

\* An update takes no executable away, and replaces it with a whole and newer release of
\* the channel that was asked for.
ReplacesSafely == ExecutableSurvives /\ StagedIsWanted
==============================================================================
