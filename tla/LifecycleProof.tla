--------------------------- MODULE LifecycleProof ---------------------------
(***************************************************************************)
(* Proofs about Lifecycle, for an archive of any number of entries, any    *)
(* number of calls of fetch and any number of lines of the child.          *)
(*                                                                         *)
(* The two halves of the system keep an invariant each: where the launcher *)
(* is says what the child can be, and how far the extraction is says which *)
(* entries are whole.                                                      *)
(***************************************************************************)
EXTENDS Lifecycle, TLAPS

Lines == {"noise", "url", "bad", "eof"}

\* What the child can be at each place of the launcher.
ChildFits ==
  /\ child \in {"none", "running", "exited", "reaped"}
  /\ launch = "none" => child = "none"
  /\ launch = "failed" => child \in {"none", "reaped"}
  /\ launch \in {"reading", "connecting", "killing"} => child \in {"running", "exited"}
  /\ launch = "waiting" => child = "exited"
  /\ launch \in {"cleaning", "launched", "dropped"} => child # "none"

LaunchInv ==
  /\ launch \in {"none", "reading", "connecting", "launched", "failed", "dropped"} \cup CleaningUp
  /\ ChildFits
  /\ expired \in BOOLEAN /\ orphan \in BOOLEAN
  /\ orphan => launch = "dropped"
  /\ stderr \in Seq(Lines) /\ printed \in 0 .. MaxLines

AllAbsent == \A e \in 1 .. Entries : files[e] = "absent"
AllWhole == \A e \in 1 .. Entries : files[e] = "whole"

FetchInv ==
  /\ fetch \in {"idle", "failed", "fetched"} \cup Running
  /\ archive \in 0 .. Entries /\ copied \in 0 .. 2 * Entries
  /\ files \in [1 .. Entries -> {"absent", "partial", "whole"}]
  /\ fetches \in 0 .. MaxFetches /\ spoiled \in BOOLEAN
  /\ fetch = "extracting" => \A e \in 1 .. Entries : 2 * e <= copied => files[e] = "whole"
  /\ ~spoiled =>
       /\ fetch \in {"idle", "failed"} => AllAbsent \/ AllWhole
       /\ fetch = "downloading" => AllAbsent
       /\ fetch = "fetched" => AllWhole

IInv == LaunchInv /\ FetchInv

-----------------------------------------------------------------------------

LEMMA NothingDone == 0 \in 0 .. Entries /\ 0 \in 0 .. 2 * Entries /\ 0 \in 0 .. MaxFetches
<1>1. Entries \in Nat /\ MaxFetches \in Nat
  BY FetcherAssumption
<1> QED
  BY <1>1

LEMMA NothingPrinted == <<>> \in Seq(Lines) /\ 0 \in 0 .. MaxLines
BY LaunchAssumption

\* Initially nothing runs and nothing is there.
LEMMA InitHolds == Init => IInv
<1> SUFFICES ASSUME Init PROVE IInv
  OBVIOUS
<1>1. LaunchInv
  BY NothingPrinted DEF Init, LaunchInit, LaunchInv, ChildFits
<1>2. /\ fetch = "idle" /\ archive = 0 /\ copied = 0 /\ fetches = 0 /\ spoiled = FALSE
      /\ files = [e \in 1 .. Entries |-> "absent"]
  BY DEF Init, FetcherInit, Absent
<1>3. AllAbsent /\ files \in [1 .. Entries -> {"absent", "partial", "whole"}]
  BY <1>2 DEF AllAbsent
<1>4. FetchInv
  BY <1>2, <1>3, NothingDone DEF FetchInv, Running
<1> QED
  BY <1>1, <1>4 DEF IInv

\* A launch keeps its half: Browser::launch and the child, browser/mod.rs:154-219, 504-580.
LEMMA LaunchKeeps ==
  ASSUME LaunchInv,
         \/ \E startable \in BOOLEAN : Spawn(startable)
         \/ \E line \in Lines : Prints(line)
         \/ TimerExpires \/ TimesOut \/ SeesExit \/ ReadsLine \/ ReadsEnd \/ Connects \/ Refused
         \/ TryWait \/ CleanUpKills \/ CleanUpWaits \/ Cancels \/ Drop \/ Wait \/ Kill \/ Exits \/ Reaps
  PROVE  LaunchInv'
<1> USE LaunchAssumption DEF LaunchInv, ChildFits, CleaningUp
<1>1. CASE \E startable \in BOOLEAN : Spawn(startable)
  <2>1. PICK startable \in BOOLEAN : Spawn(startable)
    BY <1>1
  <2>2. stderr' \in Seq(Lines) /\ printed' \in 0 .. MaxLines
    BY <2>1, NothingPrinted DEF Spawn
  <2>3. launch \in {"none", "failed"} /\ ~orphan
    BY <2>1 DEF Spawn
  <2>4. expired' \in BOOLEAN /\ orphan' \in BOOLEAN /\ ~orphan'
    BY <2>1, <2>3, Zenon DEF Spawn
  <2>5. CASE startable
    <3>1. launch' = "reading" /\ child' = "running"
      BY <2>1, <2>5 DEF Spawn
    <3> QED
      BY <2>2, <2>4, <3>1
  <2>6. CASE ~startable
    <3>1. launch' = "failed" /\ child' = child
      BY <2>1, <2>6 DEF Spawn
    <3> QED
      BY <2>2, <2>3, <2>4, <3>1
  <2> QED
    BY <2>5, <2>6
<1>2. CASE \E line \in Lines : Prints(line)
  <2>1. PICK line \in Lines : Prints(line)
    BY <1>2
  <2>2. /\ launch' = launch /\ child' = child /\ expired' = expired /\ orphan' = orphan
        /\ printed' \in 0 .. MaxLines
    BY <2>1 DEF Prints
  <2>3. stderr' \in Seq(Lines)
    BY <2>1 DEF Prints, Lines
  <2> QED
    BY <2>2, <2>3
<1>3. CASE TimerExpires
  BY <1>3 DEF TimerExpires
<1>4. CASE TimesOut
  BY <1>4 DEF TimesOut
<1>5. CASE SeesExit
  BY <1>5 DEF SeesExit
<1>6. CASE ReadsLine
  <2>1. stderr' \in Seq(Lines) /\ launch' \in {"reading", "connecting", "cleaning"}
    BY <1>6 DEF ReadsLine, Lines
  <2>2. /\ launch = "reading" /\ child' = child /\ printed' = printed
        /\ expired' = expired /\ orphan' = orphan
    BY <1>6 DEF ReadsLine
  <2> QED
    BY <2>1, <2>2
<1>7. CASE ReadsEnd
  BY <1>7 DEF ReadsEnd
<1>8. CASE Connects
  BY <1>8 DEF Connects
<1>9. CASE Refused
  BY <1>9 DEF Refused
<1>10. CASE TryWait
  BY <1>10 DEF TryWait
<1>11. CASE CleanUpKills
  BY <1>11 DEF CleanUpKills, Killed
<1>12. CASE CleanUpWaits
  BY <1>12 DEF CleanUpWaits
<1>13. CASE Cancels
  BY <1>13 DEF Cancels, Handover, Killed
<1>14. CASE Drop
  BY <1>14 DEF Drop, Handover, Killed
<1>15. CASE Wait
  BY <1>15 DEF Wait
<1>16. CASE Kill
  BY <1>16 DEF Kill
<1>17. CASE Exits
  BY <1>17 DEF Exits
<1>18. CASE Reaps
  BY <1>18 DEF Reaps
<1> QED
  BY <1>1, <1>2, <1>3, <1>4, <1>5, <1>6, <1>7, <1>8, <1>9, <1>10, <1>11, <1>12, <1>13, <1>14, <1>15, <1>16, <1>17, <1>18

\* A fetch keeps its half: fetcher/mod.rs:42-80, runtime/mod.rs:53-98.
LEMMA FetchKeeps ==
  ASSUME FetchInv,
         \/ Fetch \/ Download \/ Extract \/ Extracted \/ Wipes
         \/ \E as \in {"idle", "failed"} : FetchStops(as)
  PROVE  FetchInv'
<1> USE FetcherAssumption DEF FetchInv, Running
<1>1. CASE Fetch
  <2>1. CASE Local
    BY <1>1, <2>1 DEF Fetch, Local, AllAbsent, AllWhole
  <2>2. CASE ~Local
    <3>1. ~spoiled => AllAbsent
      BY <1>1, <2>2 DEF Fetch, Local, AllAbsent, AllWhole
    <3> QED
      BY <1>1, <2>2, <3>1 DEF Fetch, AllAbsent, AllWhole
  <2> QED
    BY <2>1, <2>2
<1>2. CASE Download
  BY <1>2 DEF Download, AllAbsent, AllWhole
<1>3. CASE Extract
  <2> DEFINE entry == copied \div 2 + 1
  <2>1. entry \in 1 .. Entries /\ copied + 1 \in 0 .. 2 * Entries
    BY <1>3 DEF Extract
  <2>2. files' = [files EXCEPT ![entry] = IF copied % 2 = 0 THEN "partial" ELSE "whole"]
    BY <1>3 DEF Extract
  <2>3. files' \in [1 .. Entries -> {"absent", "partial", "whole"}]
    BY <2>1, <2>2
  <2>4. ASSUME NEW e \in 1 .. Entries, 2 * e <= copied'
        PROVE  files'[e] = "whole"
    <3>1. copied' = copied + 1 /\ copied \in Nat
      BY <1>3 DEF Extract
    <3>2. CASE e = entry
      <4>1. copied % 2 # 0
        BY <2>4, <3>1, <3>2
      <4> QED
        BY <2>1, <2>2, <3>2, <4>1
    <3>3. CASE e # entry
      <4>1. 2 * e <= copied
        BY <2>4, <3>1, <3>3
      <4>2. files[e] = "whole"
        BY <1>3, <4>1 DEF Extract
      <4> QED
        BY <2>1, <2>2, <3>3, <4>2
    <3> QED
      BY <3>2, <3>3
  <2> QED
    BY <1>3, <2>1, <2>3, <2>4 DEF Extract
<1>4. CASE Extracted
  <2>1. AllWhole
    BY <1>4 DEF Extracted, AllWhole
  <2>2. AllWhole' /\ archive' \in 0 .. Entries
    BY <1>4, <2>1 DEF Extracted, AllWhole
  <2> QED
    BY <1>4, <2>2 DEF Extracted, AllWhole
<1>5. CASE Wipes
  <2>1. AllAbsent' /\ files' \in [1 .. Entries -> {"absent", "partial", "whole"}]
    BY <1>5 DEF Wipes, Absent, AllAbsent
  <2> QED
    BY <1>5, <2>1, NothingDone DEF Wipes
<1>6. CASE \E as \in {"idle", "failed"} : FetchStops(as)
  BY <1>6 DEF FetchStops, AllAbsent, AllWhole
<1> QED
  BY <1>1, <1>2, <1>3, <1>4, <1>5, <1>6

\* A half that is not touched keeps its invariant.
LEMMA LaunchStays == ASSUME LaunchInv, UNCHANGED launchVars PROVE LaunchInv'
BY DEF LaunchInv, launchVars, ChildFits, CleaningUp

LEMMA FetchStays == ASSUME FetchInv, UNCHANGED fetcherVars PROVE FetchInv'
BY DEF FetchInv, fetcherVars, AllAbsent, AllWhole

\* Every step keeps both halves.
LEMMA NextKeeps == IInv /\ [Next]_vars => IInv'
<1> SUFFICES ASSUME LaunchInv, FetchInv, [Next]_vars PROVE IInv'
  BY DEF IInv
<1>1. CASE Launches
  <2>1. Startable \in BOOLEAN
    BY DEF Startable
  <2>2. LaunchInv'
    BY <1>1, <2>1, LaunchKeeps DEF Launches
  <2>3. FetchInv'
    BY <1>1, FetchStays DEF Launches
  <2> QED
    BY <2>2, <2>3 DEF IInv
<1>2. CASE FetchesAgain
  <2>1. LaunchInv'
    BY <1>2 DEF FetchesAgain, LaunchInv, ChildFits, CleaningUp
  <2>2. FetchInv'
    BY <1>2 DEF FetchesAgain, FetchInv, Running, AllAbsent, AllWhole
  <2> QED
    BY <2>1, <2>2 DEF IInv
<1>3. CASE FetchStep
  BY <1>3, FetchKeeps, LaunchStays DEF FetchStep, IInv
<1>4. CASE LaunchStep
  <2>1. LaunchInv'
    BY <1>4, LaunchKeeps DEF LaunchStep, LauncherStep, Lines
  <2>2. FetchInv'
    BY <1>4, FetchStays DEF LaunchStep, LauncherStep
  <2> QED
    BY <2>1, <2>2 DEF IInv
<1>5. CASE UNCHANGED vars
  BY <1>5, LaunchStays, FetchStays DEF vars, IInv
<1> QED
  BY <1>1, <1>2, <1>3, <1>4, <1>5 DEF Next

LEMMA InvariantHolds == Spec => []IInv
BY InitHolds, NextKeeps, PTL DEF Spec

-----------------------------------------------------------------------------

\* The types, and that there is a child wherever the launcher relies on one.
THEOREM LifecycleTypeCorrect == Spec => []TypeOK
<1>1. IInv => TypeOK
  BY DEF IInv, LaunchInv, FetchInv, TypeOK, ChildFits, CleaningUp, Running, Lines
<1> QED
  BY <1>1, InvariantHolds, PTL

\* What fetch returns is complete unless an extraction was cut off, for archives of any
\* size: fetcher/mod.rs:31-62.
THEOREM FetchedIsComplete == Spec => []InstallationIsComplete
<1>1. IInv => InstallationIsComplete
  BY DEF IInv, FetchInv, InstallationIsComplete, AllWhole
<1> QED
  BY <1>1, InvariantHolds, PTL

\* A launch that failed leaves neither a process nor a zombie: browser/mod.rs:161-191.
THEOREM FailureLeavesNoProcess == Spec => []FailedLaunchLeavesNoProcess
<1>1. IInv => FailedLaunchLeavesNoProcess
  BY DEF IInv, LaunchInv, FailedLaunchLeavesNoProcess, ChildFits
<1> QED
  BY <1>1, InvariantHolds, PTL

\* The expect of the clean-up never fails: browser/mod.rs:182-188.
THEOREM CleanUpIsSafe == Spec => []CleanUpNeverPanics
<1>1. IInv => CleanUpNeverPanics
  BY DEF IInv, LaunchInv, CleanUpNeverPanics, CleaningUp
<1> QED
  BY <1>1, InvariantHolds, PTL

=============================================================================
