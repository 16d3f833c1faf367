--------------------------- MODULE ReporterProofs ---------------------------
(***************************************************************************)
(* Theorems of Reporter for any results and files: its type invariant, no  *)
(* lost wakeup (also when results share files), and, when every result has *)
(* a file of its own, that the journal keeps a result until the control    *)
(* plane has stored it.                                                    *)
(***************************************************************************)
EXTENDS Reporter, TLAPS

\* What a file holds belongs there, and what is still in f.tmp is not persisted.
FilesAreNamed ==
    /\ \A f \in Files : tmp[f] # NoResult =>
          FileOf[tmp[f]] = f /\ submit[tmp[f]] \in {"written", "failed"}
    /\ \A f \in Files : journal[f] # NoResult => FileOf[journal[f]] = f
    /\ \A f \in Files : latest[f] # NoResult => FileOf[latest[f]] = f

\* The files still to be read are there: only the goroutine removes one, and not
\* before it has taken it off its list.
ScanIsGood == \A f \in loop.todo : journal[f] # NoResult

\* The file in hand, and what was read from it.
HandIsGood ==
    loop.at \in {"send", "remove"} =>
        /\ loop.file \in Files /\ loop.file \notin loop.todo
        /\ loop.result \in Results /\ FileOf[loop.result] = loop.file
        /\ loop.at = "remove" => loop.result \in received

\* A result that was persisted, announced and never sent will be looked at.
WillBeSeen(x) ==
    \/ signal \/ process # "up" \/ loop.at = "scan"
    \/ loop.at \in {"next", "send", "remove"} /\ FileOf[x] \in loop.todo

NothingOverlooked ==
    \A x \in Results :
        submit[x] = "done" /\ journal[FileOf[x]] = x /\ x \notin tried => WillBeSeen(x)

IInv == TypeOK /\ FilesAreNamed /\ ScanIsGood /\ HandIsGood /\ NothingOverlooked

\* The files of two results differ, as those of two experiments do.
OneFileEach == \A x, y \in Results : FileOf[x] = FileOf[y] => x = y

-----------------------------------------------------------------------------
\* A result has a file.
LEMMA FileType == \A x \in Results : FileOf[x] \in Files
  BY DEF Files

\* Nothing has been submitted.
LEMMA InitIInv == Init => IInv
<1> SUFFICES ASSUME Init PROVE IInv
  OBVIOUS
<1> USE ReporterAssumption DEF Init, Empty, FlushStart
<1>0. signal \in BOOLEAN
  OBVIOUS
<1>1. TypeOK
  BY <1>0 DEF TypeOK
<1> QED
  BY <1>1 DEF IInv, FilesAreNamed, ScanIsGood, HandIsGood, NothingOverlooked

-----------------------------------------------------------------------------
(* Submit. *)

\* A submitter writes its temporary file.
LEMMA WriteTmpPreserves ==
    ASSUME NEW x \in Results, IInv, WriteTmp(x) PROVE IInv'
<1> USE FileType, ReporterAssumption DEF IInv, WriteTmp
<1>1. TypeOK'
  BY DEF TypeOK
<1>2. FilesAreNamed'
  BY DEF FilesAreNamed, TypeOK
<1>3. ScanIsGood' /\ HandIsGood'
  BY DEF ScanIsGood, HandIsGood
<1>4. NothingOverlooked'
  BY DEF NothingOverlooked, WillBeSeen, TypeOK
<1> QED
  BY <1>1, <1>2, <1>3, <1>4

\* It renames the file.
LEMMA RenamePreserves ==
    ASSUME NEW x \in Results, IInv, Rename(x) PROVE IInv'
<1> DEFINE f == FileOf[x]
<1> USE FileType, ReporterAssumption DEF IInv
<1>1. /\ f \in Files /\ submit[x] = "written"
      /\ submit' \in [Results -> {"new", "written", "renamed", "done", "failed"}]
      /\ submit'[x] \in {"renamed", "failed"}
      /\ \A y \in Results \ {x} : submit'[y] = submit[y]
  BY DEF Rename, TypeOK
<1>2. /\ tmp' = [tmp EXCEPT ![f] = NoResult]
      /\ journal' = IF tmp[f] = NoResult THEN journal ELSE [journal EXCEPT ![f] = tmp[f]]
      /\ latest' = IF tmp[f] = NoResult THEN latest ELSE [latest EXCEPT ![f] = tmp[f]]
      /\ UNCHANGED <<signal, loop, process, ends, received, tried>>
  BY DEF Rename
<1>3. TypeOK'
  BY <1>1, <1>2 DEF TypeOK
<1>4. FilesAreNamed'
  <2>1. \A g \in Files : tmp'[g] # NoResult => g # f /\ tmp'[g] = tmp[g]
    BY <1>1, <1>2 DEF TypeOK
  <2>2. \A g \in Files : tmp'[g] # NoResult => tmp[g] # x /\ tmp[g] \in Results
    BY <2>1, <1>1, <1>2 DEF FilesAreNamed, TypeOK
  <2>3. \A g \in Files : tmp'[g] # NoResult =>
          FileOf[tmp'[g]] = g /\ submit'[tmp'[g]] \in {"written", "failed"}
    BY <2>1, <2>2, <1>1 DEF FilesAreNamed
  <2>4. \A g \in Files : /\ journal'[g] # NoResult => FileOf[journal'[g]] = g
                         /\ latest'[g] # NoResult => FileOf[latest'[g]] = g
    BY <1>1, <1>2 DEF FilesAreNamed, TypeOK
  <2> QED
    BY <2>3, <2>4 DEF FilesAreNamed
<1>5. ScanIsGood' /\ HandIsGood'
  BY <1>1, <1>2 DEF ScanIsGood, HandIsGood, TypeOK
<1>6. NothingOverlooked'
  <2> SUFFICES ASSUME NEW y \in Results, submit'[y] = "done", journal'[FileOf[y]] = y,
                      y \notin tried'
               PROVE  WillBeSeen(y)'
    BY DEF NothingOverlooked
  <2>1. y # x /\ submit[y] = "done"
    BY <1>1
  <2>2. y # tmp[f]
    BY <1>1, <2>1 DEF FilesAreNamed
  <2>3. journal[FileOf[y]] = y
    BY <1>1, <1>2, <2>2 DEF TypeOK
  <2> QED
    BY <1>2, <2>1, <2>3 DEF NothingOverlooked, WillBeSeen
<1> QED
  BY <1>3, <1>4, <1>5, <1>6

\* It wakes the reporter up.
LEMMA NotifyPreserves ==
    ASSUME NEW x \in Results, IInv, Notify(x) PROVE IInv'
<1> USE FileType DEF IInv, Notify, disk
<1>1. TypeOK'
  BY DEF TypeOK
<1>2. FilesAreNamed'
  BY ReporterAssumption DEF FilesAreNamed, TypeOK
<1>3. ScanIsGood' /\ HandIsGood'
  BY DEF ScanIsGood, HandIsGood
<1>4. NothingOverlooked'
  BY DEF NothingOverlooked, WillBeSeen
<1> QED
  BY <1>1, <1>2, <1>3, <1>4

-----------------------------------------------------------------------------
(* The goroutine: it leaves tmp, latest and submit alone. *)

Goroutine ==
    \/ ReadDir \/ (\E f \in Files : ReadFile(f)) \/ FlushEnds
    \/ SendAcknowledged \/ SendFails \/ Remove \/ Wake \/ Tick \/ LoopReturns

\* The actions of the reporter goroutine.
LEMMA GoroutinePreserves ==
    ASSUME IInv, Goroutine PROVE IInv'
<1> USE FileType, ReporterAssumption DEF IInv, At, Running, disk
<1>1. CASE ReadDir
  <2> USE <1>1 DEF ReadDir
  <2>1. /\ loop'.at = "next" /\ loop'.todo = {f \in Files : journal[f] # NoResult}
        /\ UNCHANGED <<submit, tmp, journal, latest, signal, process, ends, received, tried>>
    BY DEF TypeOK
  <2>2. TypeOK'
    BY DEF TypeOK
  <2>3. FilesAreNamed' /\ ScanIsGood' /\ HandIsGood'
    BY <2>1 DEF FilesAreNamed, ScanIsGood, HandIsGood
  <2>4. NothingOverlooked'
    BY <2>1 DEF NothingOverlooked, WillBeSeen
  <2> QED
    BY <2>2, <2>3, <2>4
<1>2. ASSUME NEW f \in Files, ReadFile(f) PROVE IInv'
  <2> USE <1>2 DEF ReadFile
  <2>1. journal[f] \in Results /\ FileOf[journal[f]] = f
    BY DEF ScanIsGood, FilesAreNamed, TypeOK
  <2>2. TypeOK'
    BY <2>1 DEF TypeOK
  <2>3. FilesAreNamed' /\ ScanIsGood' /\ HandIsGood'
    BY <2>1 DEF FilesAreNamed, ScanIsGood, HandIsGood
  <2>4. NothingOverlooked'
    <3> SUFFICES ASSUME NEW y \in Results, submit'[y] = "done", journal'[FileOf[y]] = y,
                        y \notin tried'
                 PROVE  WillBeSeen(y)'
      BY DEF NothingOverlooked
    <3>1. FileOf[y] # f /\ WillBeSeen(y)
      BY DEF NothingOverlooked
    <3> QED
      BY <3>1 DEF WillBeSeen
  <2> QED
    BY <2>2, <2>3, <2>4
<1>3. CASE FlushEnds
  <2> USE <1>3 DEF FlushEnds, FlushStart
  <2>1. TypeOK'
    BY DEF TypeOK
  <2>2. FilesAreNamed' /\ ScanIsGood' /\ HandIsGood'
    BY DEF FilesAreNamed, ScanIsGood, HandIsGood
  <2>3. NothingOverlooked'
    BY DEF NothingOverlooked, WillBeSeen
  <2> QED
    BY <2>1, <2>2, <2>3
<1>4. CASE SendAcknowledged
  <2> USE <1>4 DEF SendAcknowledged
  <2>1. /\ loop'.at = "remove" /\ loop'.todo = loop.todo
        /\ loop'.file = loop.file /\ loop'.result = loop.result
    BY DEF TypeOK
  <2>2. TypeOK'
    BY DEF TypeOK, HandIsGood
  <2>3. FilesAreNamed' /\ ScanIsGood' /\ HandIsGood'
    BY <2>1 DEF FilesAreNamed, ScanIsGood, HandIsGood
  <2>4. NothingOverlooked'
    BY <2>1 DEF NothingOverlooked, WillBeSeen
  <2> QED
    BY <2>2, <2>3, <2>4
<1>5. CASE SendFails
  <2> USE <1>5 DEF SendFails
  <2>1. loop'.at = "next" /\ loop'.todo = loop.todo
    BY DEF TypeOK
  <2>2. TypeOK'
    BY DEF TypeOK, HandIsGood
  <2>3. FilesAreNamed' /\ ScanIsGood' /\ HandIsGood'
    BY <2>1 DEF FilesAreNamed, ScanIsGood, HandIsGood
  <2>4. NothingOverlooked'
    BY <2>1 DEF NothingOverlooked, WillBeSeen
  <2> QED
    BY <2>2, <2>3, <2>4
<1>6. CASE Remove
  <2> USE <1>6 DEF Remove
  <2>1. loop'.at = "next" /\ loop'.todo = loop.todo /\ loop.todo \subseteq Files
    BY DEF TypeOK
  <2>2. \A f \in Files : journal'[f] = IF f = loop.file THEN NoResult ELSE journal[f]
    BY DEF TypeOK, HandIsGood
  <2>3. TypeOK'
    BY DEF TypeOK, HandIsGood
  <2>4. FilesAreNamed' /\ ScanIsGood' /\ HandIsGood'
    BY <2>1, <2>2 DEF FilesAreNamed, ScanIsGood, HandIsGood
  <2>5. NothingOverlooked'
    BY <2>1, <2>2 DEF NothingOverlooked, WillBeSeen
  <2> QED
    BY <2>3, <2>4, <2>5
<1>7. CASE Wake \/ Tick
  <2> USE <1>7 DEF Wake, Tick, FlushStart
  <2>0. signal' \in BOOLEAN
    BY Zenon DEF TypeOK
  <2>1. TypeOK'
    BY <2>0 DEF TypeOK
  <2>2. FilesAreNamed' /\ ScanIsGood' /\ HandIsGood'
    BY DEF FilesAreNamed, ScanIsGood, HandIsGood
  <2>3. NothingOverlooked'
    BY DEF NothingOverlooked, WillBeSeen
  <2> QED
    BY <2>1, <2>2, <2>3
<1>8. CASE LoopReturns
  <2> USE <1>8 DEF LoopReturns
  <2>1. loop'.at = "stopped" /\ loop'.todo = loop.todo
    BY DEF TypeOK
  <2>2. TypeOK'
    BY DEF TypeOK
  <2>3. FilesAreNamed' /\ ScanIsGood' /\ HandIsGood'
    BY <2>1 DEF FilesAreNamed, ScanIsGood, HandIsGood
  <2>4. NothingOverlooked'
    BY DEF NothingOverlooked, WillBeSeen
  <2> QED
    BY <2>2, <2>3, <2>4
<1> QED
  BY <1>1, <1>2, <1>3, <1>4, <1>5, <1>6, <1>7, <1>8 DEF Goroutine

-----------------------------------------------------------------------------
(* The process stops, crashes and starts. *)

\* The dispatcher stops and starts.
LEMMA ProcessPreserves ==
    ASSUME IInv, ReporterCancel \/ Crash \/ Start PROVE IInv'
<1> USE FileType, ReporterAssumption DEF IInv, Running, disk, FlushStart
<1>1. CASE ReporterCancel
  <2> USE <1>1 DEF ReporterCancel
  <2>1. TypeOK'
    BY DEF TypeOK
  <2>2. FilesAreNamed' /\ ScanIsGood' /\ HandIsGood' /\ NothingOverlooked'
    BY DEF FilesAreNamed, ScanIsGood, HandIsGood, NothingOverlooked, WillBeSeen
  <2> QED
    BY <2>1, <2>2
<1>2. CASE Crash
  <2> USE <1>2 DEF Crash
  <2>1. TypeOK'
    BY DEF TypeOK
  <2>2. \A x \in Results : submit[x] \in {"written", "failed"} => submit'[x] = "failed"
    BY DEF TypeOK
  <2>3. FilesAreNamed'
    BY <2>2 DEF FilesAreNamed, TypeOK
  <2>4. ScanIsGood' /\ HandIsGood' /\ NothingOverlooked'
    BY DEF ScanIsGood, HandIsGood, NothingOverlooked, WillBeSeen
  <2> QED
    BY <2>1, <2>3, <2>4
<1>3. CASE Start
  <2> USE <1>3 DEF Start
  <2>1. TypeOK'
    BY DEF TypeOK
  <2>2. FilesAreNamed' /\ ScanIsGood' /\ HandIsGood' /\ NothingOverlooked'
    BY DEF FilesAreNamed, ScanIsGood, HandIsGood, NothingOverlooked, WillBeSeen
  <2> QED
    BY <2>1, <2>2
<1> QED
  BY <1>1, <1>2, <1>3

\* Every step.
LEMMA NextPreserves == IInv /\ [Next]_vars => IInv'
<1> SUFFICES ASSUME IInv, [Next]_vars PROVE IInv'
  OBVIOUS
<1>1. CASE UNCHANGED vars
  BY <1>1 DEF vars, IInv, TypeOK, FilesAreNamed, ScanIsGood, HandIsGood, NothingOverlooked, WillBeSeen
<1> QED
  BY <1>1, WriteTmpPreserves, RenamePreserves, NotifyPreserves, GoroutinePreserves, ProcessPreserves
  DEF Next, Submit, Goroutine

-----------------------------------------------------------------------------
\* The inductive invariant behind the theorems below.
THEOREM Invariance == Spec => []IInv
  BY InitIInv, NextPreserves, PTL DEF Spec

\* Every variable of the reporter keeps its type: in particular flushOne never
\* finds a file of its list gone, and sends results only.
THEOREM TypeCorrect == Spec => []TypeOK
<1>1. IInv => TypeOK
  BY DEF IInv
<1> QED
  BY <1>1, Invariance, PTL

\* The one-place signal loses no wakeup, for any number of results, whether or
\* not they share files, and through stops and crashes.
THEOREM NoWakeupIsLost == Spec => []NoLostWakeup
<1>1. IInv => NoLostWakeup
  BY DEF IInv, TypeOK, NothingOverlooked, WillBeSeen, NoLostWakeup, At, Running
<1> QED
  BY <1>1, Invariance, PTL

-----------------------------------------------------------------------------
(* With a file for each result, what is removed is what was stored. *)

\* No step loses the latest result of a file: it is in the journal until the
\* control plane has received it.
LEMMA KeptByEveryStep ==
    OneFileEach /\ IInv /\ LatestResultKept /\ [Next]_vars => LatestResultKept'
<1> SUFFICES ASSUME OneFileEach, IInv, LatestResultKept, [Next]_vars,
                    NEW f \in Files, latest'[f] # NoResult
             PROVE  journal'[f] = latest'[f] \/ latest'[f] \in received'
  BY DEF LatestResultKept
<1>1. received \subseteq received'
  BY DEF Next, Submit, WriteTmp, Rename, Notify, ReadDir, ReadFile, FlushEnds, SendAcknowledged,
         SendFails, Remove, Wake, Tick, LoopReturns, ReporterCancel, Crash, Start, vars
<1>2. CASE UNCHANGED <<journal, latest>>
  BY <1>1, <1>2 DEF LatestResultKept
<1>3. ASSUME NEW x \in Results, Rename(x) PROVE journal'[f] = latest'[f] \/ latest'[f] \in received'
  BY <1>1, <1>3, FileType DEF Rename, IInv, TypeOK, LatestResultKept
<1>4. CASE Remove
  <2>1. /\ loop.result \in received /\ loop.result \in Results /\ FileOf[loop.result] = loop.file
        /\ latest' = latest
        /\ \A g \in Files : journal'[g] = IF g = loop.file THEN NoResult ELSE journal[g]
    BY <1>4 DEF Remove, At, IInv, TypeOK, HandIsGood
  <2>2. latest[f] \in Results /\ FileOf[latest[f]] = f
    BY <2>1 DEF IInv, TypeOK, FilesAreNamed
  <2>3. CASE f = loop.file
    BY <1>1, <2>1, <2>2, <2>3 DEF OneFileEach
  <2>4. CASE f # loop.file
    BY <1>1, <2>1, <2>4 DEF LatestResultKept
  <2> QED
    BY <2>3, <2>4
<1> QED
  BY <1>2, <1>3, <1>4
  DEF Next, Submit, WriteTmp, Notify, ReadDir, ReadFile, FlushEnds, SendAcknowledged,
      SendFails, Wake, Tick, LoopReturns, ReporterCancel, Crash, Start, vars, disk

\* When the results are of different experiments, what was renamed into the journal
\* last stays there until the control plane has stored it, through failing sends,
\* stops and crashes.  (Without the premise the code loses results: ReporterRestart.)
THEOREM LatestIsKept ==
    ASSUME OneFileEach PROVE Spec => []LatestResultKept
<1>1. Init => LatestResultKept
  BY DEF Init, Empty, LatestResultKept
<1>2. IInv /\ LatestResultKept /\ [Next]_vars => LatestResultKept'
  BY KeptByEveryStep
<1> QED
  BY <1>1, <1>2, Invariance, PTL DEF Spec
=============================================================================
