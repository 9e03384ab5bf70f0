------------------------------- MODULE Launch -------------------------------
(***************************************************************************)
(* Browser::launch and what becomes of the child process                   *)
(* (src/src/browser/mod.rs, async_process.rs): the launcher waits for the  *)
(* line with the address of the websocket, for the exit of the child and   *)
(* for the timeout, connects, and on every error sees to it that no        *)
(* process is left.                                                        *)
(***************************************************************************)
EXTENDS Naturals, Sequences

CONSTANTS MaxLines   \* bound: lines the child prints

ASSUME LaunchAssumption == MaxLines \in Nat

VARIABLES
  launch,     \* where launch is, and then what the client holds
  child,      \* "none", "running", "exited" and not reaped, "reaped"
  stderr,     \* lines printed and not yet read
  printed,    \* lines printed so far, for the bound
  expired,    \* timeout_fut is ready
  orphan      \* the runtime reaps the child: its handle was dropped

launchVars == <<launch, child, stderr, printed, expired, orphan>>

LaunchInit ==
  /\ launch = "none" /\ child = "none" /\ stderr = <<>> /\ printed = 0
  /\ expired = FALSE /\ orphan = FALSE

\* with_child failed, and launch cleans up.
CleaningUp == {"cleaning", "killing", "waiting"}

-----------------------------------------------------------------------------
(* The child (external).                                                   *)

\* "bad" is not UTF-8, "eof" closes the stream.
Prints(line) ==
  /\ child = "running" /\ printed < MaxLines
  /\ printed' = IF line = "eof" THEN MaxLines ELSE printed + 1
  /\ stderr' = Append(stderr, line)
  /\ UNCHANGED <<launch, child, expired, orphan>>

Exits ==
  /\ child = "running" /\ child' = "exited"
  /\ UNCHANGED <<launch, stderr, printed, expired, orphan>>

\* A process that is killed may have exited before.
Killed == IF child = "running" THEN "exited" ELSE child

-----------------------------------------------------------------------------
(* Browser::launch.                                                        *)

\* Mutant of Spawn: an error of spawn is not looked at.
SpawnUnchecked(startable) ==
  /\ launch \in {"none", "failed"}
  /\ launch' = "reading" /\ child' = IF startable THEN "running" ELSE child
  /\ stderr' = <<>> /\ printed' = 0 /\ expired' = FALSE /\ UNCHANGED orphan

\* BrowserConfig::launch, if the executable can be started.
Spawn(startable) ==
  /\ launch \in {"none", "failed"}
  /\ IF startable
     THEN launch' = "reading" /\ child' = "running"
     ELSE launch' = "failed" /\ UNCHANGED child
  /\ stderr' = <<>> /\ printed' = 0 /\ expired' = FALSE /\ UNCHANGED orphan

TimerExpires ==
  /\ launch = "reading" /\ ~expired /\ expired' = TRUE
  /\ UNCHANGED <<launch, child, stderr, printed, orphan>>

\* Mutant of TimesOut: the time is looked at between the lines.
TimesOutBetweenLines ==
  /\ launch = "reading" /\ expired /\ stderr # <<>>
  /\ launch' = "cleaning" /\ UNCHANGED <<child, stderr, printed, expired, orphan>>

\* The branches of select! in ws_url_from_output: one that is ready is taken at random.
TimesOut ==
  /\ launch = "reading" /\ expired
  /\ launch' = "cleaning" /\ UNCHANGED <<child, stderr, printed, expired, orphan>>

SeesExit ==
  /\ launch = "reading" /\ child = "exited"
  /\ child' = "reaped" /\ launch' = "cleaning" /\ UNCHANGED <<stderr, printed, expired, orphan>>

ReadsLine ==
  /\ launch = "reading" /\ stderr # <<>>
  /\ stderr' = Tail(stderr)
  /\ launch' = IF Head(stderr) = "url" THEN "connecting"
               ELSE IF Head(stderr) = "noise" THEN "reading" ELSE "cleaning"
  /\ UNCHANGED <<child, printed, expired, orphan>>

\* The pipe ends with the child.
ReadsEnd ==
  /\ launch = "reading" /\ stderr = <<>> /\ child = "exited"
  /\ launch' = "cleaning" /\ UNCHANGED <<child, stderr, printed, expired, orphan>>

\* Connection::connect; nothing bounds the time it takes.
Connects ==
  /\ launch = "connecting" /\ child = "running"
  /\ launch' = "launched" /\ UNCHANGED <<child, stderr, printed, expired, orphan>>

Refused ==
  /\ launch = "connecting"
  /\ launch' = "cleaning" /\ UNCHANGED <<child, stderr, printed, expired, orphan>>

\* Mutant of TryWait: the child is killed at once.
TryWaitNot ==
  /\ launch = "cleaning"
  /\ launch' = "killing" /\ UNCHANGED <<child, stderr, printed, expired, orphan>>

\* Mutant of TryWait: an error of connect means that the child is gone.
TryWaitTrusts ==
  /\ launch = "cleaning"
  /\ launch' = IF expired THEN "killing" ELSE "failed"
  /\ UNCHANGED <<child, stderr, printed, expired, orphan>>

\* try_wait, which reaps a child that has exited.
TryWait ==
  /\ launch = "cleaning"
  /\ IF child = "running" THEN launch' = "killing" /\ UNCHANGED child
                          ELSE launch' = "failed" /\ child' = "reaped"
  /\ UNCHANGED <<stderr, printed, expired, orphan>>

\* To kill a child that was reaped is an error, which launch does not expect.
CleanUpKills ==
  /\ launch = "killing"
  /\ child' = Killed /\ launch' = IF child = "reaped" THEN "panicked" ELSE "waiting"
  /\ UNCHANGED <<stderr, printed, expired, orphan>>

CleanUpWaits ==
  /\ launch = "waiting" /\ child \in {"exited", "reaped"}
  /\ child' = "reaped" /\ launch' = "failed" /\ UNCHANGED <<stderr, printed, expired, orphan>>

-----------------------------------------------------------------------------
(* The Browser.                                                            *)

\* Mutant of Handover: the process is left to itself.
HandoverForgets == UNCHANGED <<child, orphan>>

\* kill_on_drop: a child that was not reaped is killed and left to the runtime.
Handover == child' = Killed /\ orphan' = (child # "reaped")

\* The future of launch is dropped.
Cancels ==
  /\ launch \in {"reading", "connecting"} \cup CleaningUp
  /\ launch' = "dropped" /\ Handover /\ UNCHANGED <<stderr, printed, expired>>

\* Browser::drop: try_wait, and then kill_on_drop.
Drop ==
  /\ launch = "launched"
  /\ launch' = "dropped"
  /\ IF child = "exited" THEN child' = "reaped" /\ UNCHANGED orphan ELSE Handover
  /\ UNCHANGED <<stderr, printed, expired>>

\* Browser::wait, and try_wait of a child that has exited.
Wait ==
  /\ launch = "launched" /\ child = "exited"
  /\ child' = "reaped" /\ UNCHANGED <<launch, stderr, printed, expired, orphan>>

\* Browser::kill, which waits for the child too.
Kill ==
  /\ launch = "launched" /\ child \in {"running", "exited"}
  /\ child' = "reaped" /\ UNCHANGED <<launch, stderr, printed, expired, orphan>>

\* The runtime (external).
Reaps ==
  /\ orphan /\ child = "exited"
  /\ child' = "reaped" /\ orphan' = FALSE /\ UNCHANGED <<launch, stderr, printed, expired>>

=============================================================================
