------------------------------ MODULE Lifecycle ------------------------------
(***************************************************************************)
(* A program that fetches a browser and launches it, again if that fails:  *)
(* Fetcher and Launch, joined by the executable.                           *)
(***************************************************************************)
EXTENDS Fetcher, Launch

vars == <<fetcherVars, launchVars>>

Init == FetcherInit /\ LaunchInit

\* The permissions of an entry are set after it is copied.
Startable == files[Executable] = "whole"

Launches ==
  /\ fetch = "fetched"
  /\ Spawn(Startable)
  /\ UNCHANGED fetcherVars

\* What failed to start, or was used, is looked for again.
FetchesAgain ==
  /\ fetch = "fetched" /\ launch \in {"failed", "dropped"} /\ ~orphan
  /\ fetch' = "idle" /\ launch' = "none" /\ child' = "none"
  /\ UNCHANGED <<archive, files, copied, fetches, spoiled, stderr, printed, expired, orphan>>

FetchStep ==
  /\ \/ Fetch \/ Download \/ Extract \/ Extracted \/ Wipes
     \/ \E as \in {"idle", "failed"} : FetchStops(as)
  /\ UNCHANGED launchVars

\* What the launcher and the runtime do of themselves.
LauncherStep ==
  /\ \/ TimesOut \/ SeesExit \/ ReadsLine \/ ReadsEnd
     \/ TryWait \/ CleanUpKills \/ CleanUpWaits \/ Reaps
  /\ UNCHANGED fetcherVars

LaunchStep ==
  \/ LauncherStep
  \/ /\ \/ TimerExpires \/ Connects \/ Refused \/ Cancels \/ Drop \/ Wait \/ Kill \/ Exits
        \/ \E line \in {"noise", "url", "bad", "eof"} : Prints(line)
     /\ UNCHANGED fetcherVars

Next == Launches \/ FetchesAgain \/ FetchStep \/ LaunchStep

\* The timer expires, and the launcher and the runtime are polled when something is ready.
Spec ==
  /\ Init /\ [][Next]_vars
  /\ WF_vars(TimerExpires /\ UNCHANGED fetcherVars) /\ WF_vars(LauncherStep)

-----------------------------------------------------------------------------
(* Properties.                                                             *)

\* There is a child as long as launch has not failed, and only a child that exits is
\* reaped: browser/mod.rs:37-51, fetcher/mod.rs:12-18.
TypeOK ==
  /\ fetch \in {"idle", "failed", "fetched"} \cup Running
  /\ archive \in 0 .. Entries /\ copied \in 0 .. 2 * Entries
  /\ files \in [1 .. Entries -> {"absent", "partial", "whole"}]
  /\ fetches \in 0 .. MaxFetches /\ {spoiled, expired, orphan} \subseteq BOOLEAN
  /\ launch \in {"none", "reading", "connecting", "launched", "failed", "dropped", "panicked"}
             \cup CleaningUp
  /\ child \in {"none", "running", "exited", "reaped"}
  /\ launch \notin {"none", "failed"} => child # "none"
  /\ stderr \in Seq({"noise", "url", "bad", "eof"}) /\ printed \in 0 .. MaxLines

\* What fetch returns is complete, whatever downloads failed or were cut off before, unless
\* an extraction was: fetcher/mod.rs:31-62, runtime/mod.rs:53-98.
InstallationIsComplete ==
  fetch = "fetched" /\ ~spoiled => \A e \in 1 .. Entries : files[e] = "whole"

\* A launch that failed leaves no process and no zombie behind, however the exit of the
\* child races the line, the timeout, the connection and the clean-up:
\* browser/mod.rs:161-191.
FailedLaunchLeavesNoProcess == launch = "failed" => child \in {"none", "reaped"}

\* The clean-up never kills what was reaped, which its expect would turn into a panic:
\* browser/mod.rs:182-188.
CleanUpNeverPanics == launch # "panicked"

\* Waiting for the address and cleaning up come to an end; connecting need not:
\* browser/mod.rs:169-191, 534-580.
LaunchConcludes ==
  launch \in {"reading"} \cup CleaningUp ~> launch \notin {"reading"} \cup CleaningUp

\* A child whose Browser, or whose launch, was dropped is reaped in the end:
\* browser/mod.rs:504-522, async_process.rs:16-25.
NoOrphanStays == launch = "dropped" ~> child = "reaped"

=============================================================================
