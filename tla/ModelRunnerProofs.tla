-------------------------- MODULE ModelRunnerProofs --------------------------
(***************************************************************************)
(* Theorems of ModelRunner for any number of runs, settings, lines and     *)
(* faults, and pipes of any size: its type invariant, that a FINISHED      *)
(* result is complete, that an outcome names its cause, and that what runs *)
(* is what was asked for.                                                  *)
(***************************************************************************)
EXTENDS ModelRunner, SequenceTheorems, FunctionTheorems, FiniteSetTheorems, TLAPS

-----------------------------------------------------------------------------
(* The invariant, as a predicate of one run's values: its program p with   *)
(* the pipes in and out, its stage st and context ctx, the stopped runs,   *)
(* the commands unw still to be written, and its result v.                 *)

Waiting == {"queued", "lookup", "fetch", "chmod", "handed"}
Running == {"hello", "config", "ready", "lines", "wait"}
Over == {"close", "report", "done"}

Programs == [at : {"none", "boot", "commands", "simulating", "ending", "leaving", "exited"},
             rejected : BOOLEAN, wrote : 0..MaxStats,
             exit : {"none", "ok", "failed"}, oom : BOOLEAN]
Results == [status : Statuses, reason : Reasons, error : BOOLEAN, stats : 0..MaxStats,
            rows : 0..MaxStats, ended : BOOLEAN, stored : BOOLEAN]
Contexts == {"live", "canceled", "deadline"}
EndLines == {"END", "END error"}

StatsIn(lines) == Cardinality({i \in DOMAIN lines : lines[i] = "STAT"})

WellTyped(p, in, out, st, ctx, unw, v) ==
    /\ p \in Programs
    /\ in \in Seq(Commands) /\ Len(in) <= PipeSize
    /\ out \in Seq(Lines) /\ Len(out) <= PipeSize
    /\ st \in Stages /\ ctx \in Contexts
    /\ unw \in Seq(Commands \cup Setting)
    /\ v \in Results

\* There is a program while the worker deals with one, and it exits once.
Placed(p, in, out, st, unw, v) ==
    /\ st \in Waiting => p = NoProcess /\ v = NotRun /\ in = <<>> /\ out = <<>>
    /\ st \in Running => p.at # "none"
    /\ p.at = "none" => p = NoProcess
    /\ p.at \notin {"none", "exited"} => st \in Running /\ p.exit = "none" /\ ~p.oom
    /\ p.at = "exited" => p.exit # "none" /\ (p.exit = "ok" => ~p.oom)
    /\ st = "queued" => unw \in Seq(Setting)
    /\ st \in Waiting \ {"queued"} => unw \in Seq({"accepted", "rejected"})
    /\ st \in {"hello", "config"} => unw \in Seq(Commands) /\ unw # <<>>

\* What may be in the pipe.
OnlyErrors(out) == \A i \in DOMAIN out : out[i] = "ERR"
OnlyTorn(out) == \A i \in DOMAIN out : out[i] = "torn"
NoEnd(out) == \A i \in DOMAIN out : out[i] \notin EndLines
EndIsLast(out) ==
    \A i \in DOMAIN out : out[i] \in EndLines => \A j \in DOMAIN out : j > i => out[j] = "torn"

\* It tells how far the program is.  After a rejected command the next line the
\* worker finds is the ERR.
InStep(p, in, out, st, v) ==
    /\ p.at = "boot" => st = "hello" /\ out = <<>>
    /\ st = "hello" => in = <<>> /\ ~p.rejected
    /\ p.at = "commands" =>
          /\ st \in {"hello", "config", "ready"}
          /\ IF st = "hello" THEN Len(out) = 1 ELSE OnlyErrors(out)
    /\ p.rejected => v.error \/ (st \in {"config", "ready"} /\ out # <<>> /\ Head(out) = "ERR")
    /\ p.at \notin {"leaving", "exited"} => NoEnd(out)
    /\ EndIsLast(out)
    /\ v.ended => p.at \in {"leaving", "exited"} /\ OnlyTorn(out)

\* No line is counted twice and none is lost before cmd.Wait closes the pipes.
Counted(r, p, out, st, v) ==
    /\ v.stats + StatsIn(out) <= p.wrote
    /\ st \notin Over => v.stats + StatsIn(out) = p.wrote
    /\ v.rows <= v.stats
    /\ r \in Traced /\ ~v.error => v.rows = v.stats

\* A FINISHED result is complete, and is stored when its trace is closed.
Complete(r, p, st, v) ==
    v.status = "FINISHED" =>
        /\ st \in Over
        /\ ~p.rejected /\ p.exit = "ok" /\ ~p.oom
        /\ v.ended /\ v.reason = "end" /\ v.stats = p.wrote
        /\ r \in Traced => v.rows = p.wrote /\ (st # "close" => v.stored)

\* Status and reason go together, and have their causes.
Caused(r, p, st, ctx, stop, v) ==
    /\ ctx = "canceled" => r \in stop
    /\ st \in Running => /\ v.status = "FAILED"
                         /\ v.reason \in IF v.ended THEN {"end", "error"} ELSE {""}
    /\ v.status = "CANCELED" <=> v.reason = "user_canceled"
    /\ v.status = "CANCELED" => r \in stop
    /\ v.reason = "timeout" => ctx = "deadline"
    /\ v.reason = "memory_limit_exceeded" => p.oom
    /\ p.oom => st \in Running \/ v.reason \in {"memory_limit_exceeded", "user_canceled", "timeout"}
    /\ st = "done" /\ r \in stop /\ v.status # "FINISHED" => v.status = "CANCELED"

Good(r, p, in, out, st, ctx, stop, unw, v) ==
    /\ WellTyped(p, in, out, st, ctx, unw, v)
    /\ Placed(p, in, out, st, unw, v)
    /\ InStep(p, in, out, st, v)
    /\ Counted(r, p, out, st, v)
    /\ Complete(r, p, st, v)
    /\ Caused(r, p, st, ctx, stop, v)

RunsAreGood ==
    \A r \in Runs : Good(r, process[r], stdin[r], stdout[r], stage[r], context[r], stopped,
                         unwritten[r], result[r])

Shapes ==
    /\ process \in [Runs -> Programs]
    /\ stdin \in [Runs -> Seq(Commands)] /\ stdout \in [Runs -> Seq(Lines)]
    /\ stage \in [Runs -> Stages] /\ context \in [Runs -> Contexts]
    /\ unwritten \in [Runs -> Seq(Commands \cup Setting)]
    /\ result \in [Runs -> Results]
    /\ stopped \subseteq Runs /\ faults \in 0..MaxFaults

\* The run that holds the mutex is downloading; the file was asked for by a run
\* that has been through the cache; so was each program that was started.
AskedFor(digest, wants, at) ==
    \E q \in Runs : wants[q] \in {NoDigest, digest} /\ at[q] \notin {"queued", "lookup"}

CacheIsGood ==
    /\ asked \in [Runs -> Digests \cup {NoDigest}] /\ object \in Digests
    /\ binary \in [Runs -> Digests \cup {NoDigest}]
    /\ cache \in Caches /\ holder \in Runs \cup {NoRun}
    /\ \A r \in Runs : (holder = r) <=> stage[r] \in {"fetch", "chmod"}
    /\ cache.entry = cache.file
    /\ cache.file # NoDigest => AskedFor(cache.file, asked, stage)
    /\ \A r \in Runs : /\ stage[r] \in {"chmod", "handed"} => cache.file # NoDigest
                       /\ (process[r].at = "none") <=> (binary[r] = NoDigest)
                       /\ binary[r] # NoDigest => AskedFor(binary[r], asked, stage)

IInv == Shapes /\ RunsAreGood /\ CacheIsGood

-----------------------------------------------------------------------------
(* The number of STAT lines in a pipe. *)

StatsAt(lines) == {i \in DOMAIN lines : lines[i] = "STAT"}

\* The STAT lines of a pipe are finitely many places in it.
LEMMA StatsAreFinite ==
    ASSUME NEW lines \in Seq(Lines)
    PROVE  /\ StatsIn(lines) = Cardinality(StatsAt(lines)) /\ StatsIn(lines) \in Nat
           /\ StatsAt(lines) \subseteq 1..Len(lines) /\ IsFiniteSet(StatsAt(lines))
<1>1. StatsAt(lines) \subseteq 1..Len(lines) /\ Len(lines) \in Nat
  BY DEF StatsAt
<1>2. IsFiniteSet(1..Len(lines))
  BY <1>1, FS_Interval
<1>3. IsFiniteSet(StatsAt(lines))
  BY <1>1, <1>2, FS_Subset
<1>4. StatsIn(lines) = Cardinality(StatsAt(lines))
  BY DEF StatsIn, StatsAt
<1> QED
  BY <1>1, <1>3, <1>4, FS_CardinalityType

\* A pipe without a STAT line has none to count.
LEMMA NoStats ==
    ASSUME NEW lines \in Seq(Lines), \A i \in DOMAIN lines : lines[i] # "STAT"
    PROVE  StatsIn(lines) = 0
<1>1. StatsAt(lines) = {}
  BY DEF StatsAt
<1> QED
  BY <1>1, StatsAreFinite, FS_EmptySet

\* A program that writes a STAT line, or another line.
LEMMA StatsAppend ==
    ASSUME NEW lines \in Seq(Lines), NEW line \in Lines
    PROVE  StatsIn(Append(lines, line)) = StatsIn(lines) + (IF line = "STAT" THEN 1 ELSE 0)
<1> DEFINE more == Append(lines, line)
           n == Len(lines) + 1
<1>1. /\ more \in Seq(Lines) /\ Len(lines) \in Nat /\ Len(more) = n
      /\ \A i \in 1..Len(lines) : more[i] = lines[i]
      /\ more[n] = line /\ DOMAIN lines = 1..Len(lines) /\ DOMAIN more = 1..n
  BY AppendProperties
<1> HIDE DEF more
<1>2. /\ StatsAt(lines) \subseteq 1..Len(lines) /\ IsFiniteSet(StatsAt(lines)) /\ StatsIn(lines) \in Nat
      /\ StatsIn(lines) = Cardinality(StatsAt(lines))
  BY StatsAreFinite
<1>2a. StatsIn(more) = Cardinality(StatsAt(more))
  BY <1>1, StatsAreFinite
<1>3. CASE line = "STAT"
  <2>1. StatsAt(more) = StatsAt(lines) \cup {n} /\ n \notin StatsAt(lines)
    BY <1>1, <1>2, <1>3 DEF StatsAt
  <2>2. Cardinality(StatsAt(more)) = Cardinality(StatsAt(lines)) + 1
    BY <1>2, <2>1, FS_AddElement
  <2> QED
    BY <1>2, <1>2a, <1>3, <2>2 DEF more
<1>4. CASE line # "STAT"
  <2>1. StatsAt(more) = StatsAt(lines)
    BY <1>1, <1>4 DEF StatsAt
  <2> QED
    BY <1>2, <1>2a, <1>4, <2>1 DEF more
<1> QED
  BY <1>3, <1>4

\* A worker that reads a line.
LEMMA StatsTail ==
    ASSUME NEW lines \in Seq(Lines), lines # <<>>
    PROVE  StatsIn(lines) = StatsIn(Tail(lines)) + (IF Head(lines) = "STAT" THEN 1 ELSE 0)
<1> DEFINE rest == Tail(lines)
<1>1. /\ rest \in Seq(Lines) /\ Len(lines) \in Nat /\ Len(lines) > 0 /\ Len(rest) = Len(lines) - 1
      /\ \A i \in 1..Len(rest) : rest[i] = lines[i + 1]
      /\ DOMAIN rest = 1..Len(rest) /\ DOMAIN lines = 1..Len(lines)
      /\ Head(lines) = lines[1]
  BY HeadTailProperties
<1> HIDE DEF rest
<1> DEFINE later == StatsAt(lines) \ {1}
           f == [i \in StatsAt(rest) |-> i + 1]
<1>2. f \in [StatsAt(rest) -> later]
  BY <1>1 DEF StatsAt
<1>3. \A i, j \in StatsAt(rest) : f[i] = f[j] => i = j
  BY <1>1 DEF StatsAt
<1>4. \A j \in later : \E i \in StatsAt(rest) : f[i] = j
  <2> SUFFICES ASSUME NEW j \in later PROVE \E i \in StatsAt(rest) : f[i] = j
    OBVIOUS
  <2>1. j - 1 \in StatsAt(rest) /\ f[j - 1] = j
    BY <1>1 DEF StatsAt
  <2> QED
    BY <2>1
<1>5. ExistsBijection(StatsAt(rest), later)
  <2>1. f \in Bijection(StatsAt(rest), later)
    BY <1>2, <1>3, <1>4, Fun_IsBij
  <2> QED
    BY <2>1 DEF ExistsBijection
<1>6. IsFiniteSet(StatsAt(rest)) /\ StatsIn(rest) \in Nat /\ StatsIn(rest) = Cardinality(StatsAt(rest))
  BY <1>1, StatsAreFinite
<1>7. IsFiniteSet(later) /\ Cardinality(later) = StatsIn(rest)
  BY <1>5, <1>6, FS_Bijection
<1>8. IsFiniteSet(StatsAt(lines)) /\ StatsIn(lines) = Cardinality(StatsAt(lines))
  BY StatsAreFinite
<1>9. CASE Head(lines) = "STAT"
  <2>1. 1 \in StatsAt(lines)
    BY <1>1, <1>9 DEF StatsAt
  <2>2. Cardinality(later) = Cardinality(StatsAt(lines)) - 1
    BY <1>8, <2>1, FS_RemoveElement
  <2>3. StatsIn(rest) = StatsIn(lines) - 1 /\ StatsIn(lines) \in Nat
    BY <1>7, <1>8, <2>2, StatsAreFinite
  <2>4. StatsIn(lines) = StatsIn(rest) + 1
    BY <1>6, <2>3
  <2> QED
    BY <1>9, <2>4 DEF rest
<1>10. CASE Head(lines) # "STAT"
  <2>1. later = StatsAt(lines)
    BY <1>1, <1>10 DEF StatsAt
  <2>2. StatsIn(lines) = StatsIn(rest)
    BY <1>7, <1>8, <2>1
  <2> QED
    BY <1>6, <1>10, <2>2 DEF rest
<1> QED
  BY <1>9, <1>10

-----------------------------------------------------------------------------
(* The steps of the program keep the invariant of its run. *)

\* What writing a line does to a pipe.
Written(lines, more, line) ==
    /\ more \in Seq(Lines) /\ Len(more) <= PipeSize
    /\ more # <<>> /\ Head(more) = IF lines = <<>> THEN line ELSE Head(lines)
    /\ lines = <<>> => Len(more) = 1
    /\ OnlyErrors(lines) /\ line = "ERR" => OnlyErrors(more) /\ Head(more) = "ERR"
    /\ OnlyTorn(lines) /\ line = "torn" => OnlyTorn(more)
    /\ NoEnd(lines) /\ line \notin EndLines => NoEnd(more)
    /\ NoEnd(lines) \/ (EndIsLast(lines) /\ line = "torn") => EndIsLast(more)
    /\ StatsIn(more) = StatsIn(lines) + (IF line = "STAT" THEN 1 ELSE 0)

\* What reading a line does to it.
Consumed(lines, rest) ==
    /\ rest \in Seq(Lines) /\ Len(rest) <= PipeSize
    /\ Head(lines) \in Lines
    /\ Len(lines) = 1 => rest = <<>>
    /\ OnlyErrors(lines) => OnlyErrors(rest) /\ Head(lines) = "ERR"
    /\ OnlyTorn(lines) => OnlyTorn(rest)
    /\ NoEnd(lines) => NoEnd(rest) /\ Head(lines) \notin EndLines
    /\ EndIsLast(lines) => EndIsLast(rest) /\ (Head(lines) \in EndLines => OnlyTorn(rest))
    /\ StatsIn(rest) \in Nat
    /\ StatsIn(lines) = StatsIn(rest) + (IF Head(lines) = "STAT" THEN 1 ELSE 0)

\* The lines the proofs name are lines, and an END line is none of the others.
LEMMA LineNames ==
    /\ {"HELLO", "READY", "ERR", "STAT", "END", "END error", "torn"} \subseteq Lines
    /\ EndLines \subseteq Lines
    /\ \A line \in EndLines : line \notin {"HELLO", "READY", "ERR", "STAT", "torn"}
  BY DEF Lines, EndLines

\* A line that is written is the last of a pipe that had room for it.
LEMMA LineWritten ==
    ASSUME NEW lines \in Seq(Lines), NEW line \in Lines, HasRoom(lines)
    PROVE  Written(lines, Append(lines, line), line)
<1> DEFINE more == Append(lines, line)
<1>1. /\ more \in Seq(Lines) /\ more # <<>>
      /\ Len(more) = Len(lines) + 1 /\ Len(lines) \in Nat
      /\ \A i \in 1..Len(lines) : more[i] = lines[i]
      /\ more[Len(lines) + 1] = line
      /\ DOMAIN lines = 1..Len(lines) /\ DOMAIN more = 1..(Len(lines) + 1)
      /\ lines = <<>> <=> Len(lines) = 0
  BY AppendProperties
<1>2. Len(more) <= PipeSize
  BY <1>1, ProcessAssumption DEF HasRoom
<1>3. Head(more) = IF lines = <<>> THEN line ELSE Head(lines)
  BY HeadTailAppend
<1>4. StatsIn(more) = StatsIn(lines) + (IF line = "STAT" THEN 1 ELSE 0)
  BY StatsAppend
<1> HIDE DEF more
<1>5. \A i \in DOMAIN more : (i \in DOMAIN lines /\ more[i] = lines[i]) \/ (i = Len(lines) + 1 /\ more[i] = line)
  BY <1>1
<1>9. OnlyErrors(lines) /\ lines # <<>> => Head(lines) = "ERR"
  BY <1>1 DEF OnlyErrors
<1>6. /\ OnlyErrors(lines) /\ line = "ERR" => OnlyErrors(more)
      /\ OnlyTorn(lines) /\ line = "torn" => OnlyTorn(more)
      /\ NoEnd(lines) /\ line \notin EndLines => NoEnd(more)
  BY <1>5 DEF OnlyErrors, OnlyTorn, NoEnd
<1>7. ASSUME NoEnd(lines) \/ (EndIsLast(lines) /\ line = "torn") PROVE EndIsLast(more)
  <2> SUFFICES ASSUME NEW i \in DOMAIN more, more[i] \in EndLines,
                      NEW j \in DOMAIN more, j > i
               PROVE  more[j] = "torn"
    BY DEF EndIsLast
  <2>1. i \in DOMAIN lines /\ more[i] = lines[i]
    BY <1>1, <1>5
  <2>2. EndIsLast(lines) /\ line = "torn"
    BY <1>7, <2>1 DEF NoEnd
  <2> QED
    BY <1>5, <2>1, <2>2 DEF EndIsLast
<1>8. Written(lines, more, line)
  BY <1>1, <1>2, <1>3, <1>4, <1>6, <1>7, <1>9 DEF Written
<1> QED
  BY <1>8 DEF more

\* A line that is read is the first of its pipe.
LEMMA LineRead ==
    ASSUME NEW lines \in Seq(Lines), lines # <<>>, Len(lines) <= PipeSize
    PROVE  Consumed(lines, Tail(lines))
<1> DEFINE rest == Tail(lines)
<1>1. /\ rest \in Seq(Lines) /\ Len(rest) = Len(lines) - 1
      /\ DOMAIN lines = 1..Len(lines) /\ DOMAIN rest = 1..(Len(lines) - 1)
      /\ \A i \in 1..(Len(lines) - 1) : rest[i] = lines[i + 1]
      /\ Head(lines) = lines[1] /\ Head(lines) \in Lines
      /\ Len(lines) \in Nat /\ Len(lines) > 0
  BY HeadTailProperties
<1>2. StatsIn(rest) \in Nat /\ StatsIn(lines) = StatsIn(rest) + (IF Head(lines) = "STAT" THEN 1 ELSE 0)
  BY <1>1, StatsTail, StatsAreFinite
<1> HIDE DEF rest
<1>3. Len(rest) <= PipeSize /\ (Len(lines) = 1 => rest = <<>>)
  <2>1. Len(rest) <= PipeSize /\ (Len(lines) = 1 => Len(rest) = 0)
    BY <1>1, ProcessAssumption
  <2>2. Len(rest) = 0 => rest = <<>>
    BY <1>1
  <2> QED
    BY <2>1, <2>2
<1>4. \A i \in DOMAIN rest : i + 1 \in DOMAIN lines /\ i + 1 > 1 /\ rest[i] = lines[i + 1]
  BY <1>1
<1>5. 1 \in DOMAIN lines
  BY <1>1
<1>6. /\ OnlyErrors(lines) => OnlyErrors(rest) /\ Head(lines) = "ERR"
      /\ OnlyTorn(lines) => OnlyTorn(rest)
      /\ NoEnd(lines) => NoEnd(rest) /\ Head(lines) \notin EndLines
  BY <1>1, <1>4, <1>5 DEF OnlyErrors, OnlyTorn, NoEnd
<1>7. ASSUME EndIsLast(lines) PROVE EndIsLast(rest) /\ (Head(lines) \in EndLines => OnlyTorn(rest))
  <2>1. ASSUME NEW i \in DOMAIN rest, rest[i] \in EndLines, NEW j \in DOMAIN rest, j > i
        PROVE  rest[j] = "torn"
    <3>1. i + 1 \in DOMAIN lines /\ lines[i + 1] \in EndLines /\ j + 1 \in DOMAIN lines /\ j + 1 > i + 1
      BY <1>1, <1>4, <2>1
    <3>2. lines[j + 1] = "torn"
      BY <1>7, <3>1 DEF EndIsLast
    <3> QED
      BY <1>4, <3>2
  <2>2. Head(lines) \in EndLines => OnlyTorn(rest)
    BY <1>1, <1>4, <1>5, <1>7 DEF EndIsLast, OnlyTorn
  <2> QED
    BY <2>1, <2>2 DEF EndIsLast
<1>8. Consumed(lines, rest)
  BY <1>1, <1>2, <1>3, <1>6, <1>7 DEF Consumed
<1> QED
  BY <1>8 DEF rest

\* What is left of the commands when one is read.
LEMMA CommandRead ==
    ASSUME NEW S, NEW cmds \in Seq(S), cmds # <<>>, Len(cmds) <= PipeSize
    PROVE  Tail(cmds) \in Seq(S) /\ Len(Tail(cmds)) <= PipeSize
<1>1. Tail(cmds) \in Seq(S) /\ Len(Tail(cmds)) = Len(cmds) - 1 /\ Len(cmds) \in Nat
  BY HeadTailProperties
<1> QED
  BY <1>1, ProcessAssumption

\* The values of a run in the invariant.
LEMMA GoodTypes ==
    ASSUME NEW r, NEW p, NEW in, NEW out, NEW st, NEW ctx, NEW stop, NEW unw, NEW v,
           Good(r, p, in, out, st, ctx, stop, unw, v)
    PROVE  /\ p \in Programs /\ v \in Results
           /\ in \in Seq(Commands) /\ Len(in) <= PipeSize
           /\ out \in Seq(Lines) /\ Len(out) <= PipeSize
           /\ StatsIn(out) \in Nat /\ v.stats \in Nat /\ v.rows \in Nat /\ p.wrote \in Nat
           /\ MaxStats \in Nat /\ PipeSize \in Nat
  BY ProcessAssumption, StatsAreFinite DEF Good, WellTyped, Programs, Results

\* Each step of the program, by its effect on the program and its two pipes:
\* HELLO, a command obeyed, ERR, READY, STAT, END, its exit, and its death with
\* and without a torn line.
LEMMA ProgramKeeps ==
    ASSUME NEW r, NEW p, NEW in, NEW out, NEW st, NEW ctx, NEW stop, NEW unw, NEW v,
           Good(r, p, in, out, st, ctx, stop, unw, v)
    PROVE  /\ p.at = "boot" /\ HasRoom(out) =>
                  Good(r, [p EXCEPT !.at = "commands"], in, Append(out, "HELLO"), st, ctx, stop, unw, v)
           /\ p.at = "commands" /\ in # <<>> =>
                  Good(r, p, Tail(in), out, st, ctx, stop, unw, v)
           /\ p.at = "commands" /\ in # <<>> /\ HasRoom(out) =>
                  Good(r, [p EXCEPT !.rejected = TRUE], Tail(in), Append(out, "ERR"), st, ctx, stop, unw, v)
           /\ p.at = "commands" /\ in # <<>> /\ HasRoom(out) =>
                  Good(r, [p EXCEPT !.at = "simulating"], Tail(in), Append(out, "READY"), st, ctx, stop, unw, v)
           /\ \A next \in {"simulating", "ending"} :
                p.at = "simulating" /\ p.wrote < MaxStats /\ HasRoom(out) =>
                  Good(r, [p EXCEPT !.wrote = @ + 1, !.at = next], in, Append(out, "STAT"), st, ctx, stop, unw, v)
           /\ \A line \in EndLines :
                p.at = "ending" /\ HasRoom(out) =>
                  Good(r, [p EXCEPT !.at = "leaving"], in, Append(out, line), st, ctx, stop, unw, v)
           /\ p.at = "leaving" =>
                  Good(r, [p EXCEPT !.at = "exited", !.exit = "ok"], in, out, st, ctx, stop, unw, v)
           /\ \A oom \in BOOLEAN :
                p.at \notin {"none", "exited"} =>
                  Good(r, [p EXCEPT !.at = "exited", !.exit = "failed", !.oom = oom], in, out, st, ctx, stop, unw, v)
           /\ \A oom \in BOOLEAN :
                p.at \notin {"none", "exited"} /\ HasRoom(out) =>
                  Good(r, [p EXCEPT !.at = "exited", !.exit = "failed", !.oom = oom], in, Append(out, "torn"), st, ctx, stop, unw, v)
<1>0. /\ p \in Programs /\ v \in Results
      /\ in \in Seq(Commands) /\ Len(in) <= PipeSize
      /\ out \in Seq(Lines) /\ Len(out) <= PipeSize
      /\ StatsIn(out) \in Nat /\ v.stats \in Nat /\ v.rows \in Nat /\ p.wrote \in Nat
      /\ MaxStats \in Nat /\ PipeSize \in Nat
  BY GoodTypes
<1>1. ASSUME p.at = "boot", HasRoom(out)
      PROVE  Good(r, [p EXCEPT !.at = "commands"], in, Append(out, "HELLO"), st, ctx, stop, unw, v)
  <2> DEFINE p2 == [p EXCEPT !.at = "commands"]
             out2 == Append(out, "HELLO")
  <2>1. /\ p2 \in Programs /\ p2.at = "commands" /\ p2.rejected = p.rejected
        /\ p2.wrote = p.wrote /\ p2.exit = p.exit /\ p2.oom = p.oom
    BY <1>0, <1>1 DEF Programs
  <2>2. Written(out, out2, "HELLO")
    BY <1>0, <1>1, LineNames, LineWritten
  <2> HIDE DEF p2, out2
  <2>3. WellTyped(p2, in, out2, st, ctx, unw, v) /\ Placed(p2, in, out2, st, unw, v)
    BY <1>0, <1>1, <2>1, <2>2, LineNames
    DEF Good, WellTyped, Placed, Written, Waiting, Running
  <2>4. InStep(p2, in, out2, st, v)
    BY <1>0, <1>1, <2>1, <2>2, LineNames DEF Good, InStep, Written
  <2>5. Counted(r, p2, out2, st, v)
    BY <1>0, <1>1, <2>1, <2>2 DEF Good, Counted, Placed, Written, Over, Running
  <2>6. Complete(r, p2, st, v) /\ Caused(r, p2, st, ctx, stop, v)
    BY <1>0, <1>1, <2>1, <2>2, LineNames DEF Good, Placed, Complete, Caused, Running, Over
  <2>7. Good(r, p2, in, out2, st, ctx, stop, unw, v)
    BY <2>3, <2>4, <2>5, <2>6 DEF Good
  <2> QED
    BY <2>7 DEF p2, out2
<1>2. ASSUME p.at = "commands", in # <<>>
      PROVE  Good(r, p, Tail(in), out, st, ctx, stop, unw, v)
  <2> DEFINE in2 == Tail(in)
  <2>1. in2 \in Seq(Commands) /\ Len(in2) <= PipeSize /\ st # "hello"
    BY <1>0, <1>2, CommandRead DEF Good, InStep
  <2> HIDE DEF in2
  <2>2. Good(r, p, in2, out, st, ctx, stop, unw, v)
    BY <1>0, <1>2, <2>1
    DEF Good, WellTyped, Placed, InStep, Counted, Complete, Caused, Running, Waiting, Over, EndLines
  <2> QED
    BY <2>2 DEF in2
<1>3. ASSUME p.at = "commands", in # <<>>, HasRoom(out)
      PROVE  Good(r, [p EXCEPT !.rejected = TRUE], Tail(in), Append(out, "ERR"), st, ctx, stop, unw, v)
  <2> DEFINE p2 == [p EXCEPT !.rejected = TRUE]
             in2 == Tail(in)
             out2 == Append(out, "ERR")
  <2>1. /\ p2 \in Programs /\ p2.at = p.at /\ p2.rejected = TRUE
        /\ p2.wrote = p.wrote /\ p2.exit = p.exit /\ p2.oom = p.oom
    BY <1>0, <1>3 DEF Programs
  <2>2. in2 \in Seq(Commands) /\ Len(in2) <= PipeSize /\ st # "hello"
    BY <1>0, <1>3, CommandRead DEF Good, InStep
  <2>3. Written(out, out2, "ERR")
    BY <1>0, <1>3, LineNames, LineWritten
  <2> HIDE DEF p2, in2, out2
  <2>4. WellTyped(p2, in2, out2, st, ctx, unw, v) /\ Placed(p2, in2, out2, st, unw, v)
    BY <1>0, <1>3, <2>1, <2>2, <2>3, LineNames
    DEF Good, WellTyped, Placed, Written, Waiting, Running
  <2>5. InStep(p2, in2, out2, st, v)
    BY <1>0, <1>3, <2>1, <2>2, <2>3, LineNames DEF Good, InStep, Written
  <2>6. Counted(r, p2, out2, st, v)
    BY <1>0, <1>3, <2>1, <2>2, <2>3 DEF Good, Counted, Placed, Written, Over, Running
  <2>7. Complete(r, p2, st, v) /\ Caused(r, p2, st, ctx, stop, v)
    BY <1>0, <1>3, <2>1, <2>2, <2>3, LineNames DEF Good, Placed, Complete, Caused, Running, Over
  <2>8. Good(r, p2, in2, out2, st, ctx, stop, unw, v)
    BY <2>4, <2>5, <2>6, <2>7 DEF Good
  <2> QED
    BY <2>8 DEF p2, in2, out2
<1>4. ASSUME p.at = "commands", in # <<>>, HasRoom(out)
      PROVE  Good(r, [p EXCEPT !.at = "simulating"], Tail(in), Append(out, "READY"), st, ctx, stop, unw, v)
  <2> DEFINE p2 == [p EXCEPT !.at = "simulating"]
             in2 == Tail(in)
             out2 == Append(out, "READY")
  <2>1. /\ p2 \in Programs /\ p2.at = "simulating" /\ p2.rejected = p.rejected
        /\ p2.wrote = p.wrote /\ p2.exit = p.exit /\ p2.oom = p.oom
    BY <1>0, <1>4 DEF Programs
  <2>2. in2 \in Seq(Commands) /\ Len(in2) <= PipeSize /\ st # "hello"
    BY <1>0, <1>4, CommandRead DEF Good, InStep
  <2>3. Written(out, out2, "READY")
    BY <1>0, <1>4, LineNames, LineWritten
  <2> HIDE DEF p2, in2, out2
  <2>4. WellTyped(p2, in2, out2, st, ctx, unw, v) /\ Placed(p2, in2, out2, st, unw, v)
    BY <1>0, <1>4, <2>1, <2>2, <2>3, LineNames
    DEF Good, WellTyped, Placed, Written, Waiting, Running
  <2>5. InStep(p2, in2, out2, st, v)
    BY <1>0, <1>4, <2>1, <2>2, <2>3, LineNames DEF Good, InStep, Written
  <2>6. Counted(r, p2, out2, st, v)
    BY <1>0, <1>4, <2>1, <2>2, <2>3 DEF Good, Counted, Placed, Written, Over, Running
  <2>7. Complete(r, p2, st, v) /\ Caused(r, p2, st, ctx, stop, v)
    BY <1>0, <1>4, <2>1, <2>2, <2>3, LineNames DEF Good, Placed, Complete, Caused, Running, Over
  <2>8. Good(r, p2, in2, out2, st, ctx, stop, unw, v)
    BY <2>4, <2>5, <2>6, <2>7 DEF Good
  <2> QED
    BY <2>8 DEF p2, in2, out2
<1>5. ASSUME NEW next \in {"simulating", "ending"}, p.at = "simulating", p.wrote < MaxStats, HasRoom(out)
      PROVE  Good(r, [p EXCEPT !.wrote = @ + 1, !.at = next], in, Append(out, "STAT"), st, ctx, stop, unw, v)
  <2> DEFINE p2 == [p EXCEPT !.wrote = @ + 1, !.at = next]
             out2 == Append(out, "STAT")
  <2>1. p2 \in Programs /\ p2.at = next /\ p2.rejected = p.rejected
        /\ p2.wrote = p.wrote + 1 /\ p2.exit = p.exit /\ p2.oom = p.oom
    <3>1. p.wrote + 1 \in 0..MaxStats /\ next \in {"simulating", "ending"}
      BY <1>0, <1>5
    <3> DEFINE n == p.wrote + 1
    <3> HIDE DEF n
    <3>2. p2 = [p EXCEPT !.wrote = n, !.at = next] /\ n \in 0..MaxStats
      BY <3>1 DEF n
    <3>3. p2 \in Programs /\ p2.at = next /\ p2.rejected = p.rejected
        /\ p2.wrote = n /\ p2.exit = p.exit /\ p2.oom = p.oom
      BY <1>0, <3>1, <3>2 DEF Programs
    <3> QED
      BY <3>3 DEF n
  <2>2. Written(out, out2, "STAT")
    BY <1>0, <1>5, LineNames, LineWritten
  <2> HIDE DEF p2, out2
  <2>3. WellTyped(p2, in, out2, st, ctx, unw, v) /\ Placed(p2, in, out2, st, unw, v)
    BY <1>0, <1>5, <2>1, <2>2, LineNames
    DEF Good, WellTyped, Placed, Written, Waiting, Running
  <2>4. InStep(p2, in, out2, st, v)
    BY <1>0, <1>5, <2>1, <2>2, LineNames DEF Good, InStep, Written
  <2>5. Counted(r, p2, out2, st, v)
    <3>1. st \notin Over
      BY <1>5 DEF Good, Placed, Running, Over
    <3>3. StatsIn(out2) = StatsIn(out) + 1
      BY <2>2 DEF Written
    <3>4. v.stats + StatsIn(out) = p.wrote /\ v.rows <= v.stats /\ (r \in Traced /\ ~v.error => v.rows = v.stats)
      BY <3>1, <1>0 DEF Good, Counted
    <3>5. p2.wrote = p.wrote + 1
      BY <2>1
    <3> QED
      BY <1>0, <3>3, <3>4, <3>5 DEF Counted
  <2>6. Complete(r, p2, st, v) /\ Caused(r, p2, st, ctx, stop, v)
    BY <1>0, <1>5, <2>1, <2>2, LineNames DEF Good, Placed, Complete, Caused, Running, Over
  <2>7. Good(r, p2, in, out2, st, ctx, stop, unw, v)
    BY <2>3, <2>4, <2>5, <2>6 DEF Good
  <2> QED
    BY <2>7 DEF p2, out2
<1>6. ASSUME NEW line \in EndLines, p.at = "ending", HasRoom(out)
      PROVE  Good(r, [p EXCEPT !.at = "leaving"], in, Append(out, line), st, ctx, stop, unw, v)
  <2> DEFINE p2 == [p EXCEPT !.at = "leaving"]
             out2 == Append(out, line)
  <2>1. /\ p2 \in Programs /\ p2.at = "leaving" /\ p2.rejected = p.rejected
        /\ p2.wrote = p.wrote /\ p2.exit = p.exit /\ p2.oom = p.oom
    BY <1>0, <1>6 DEF Programs
  <2>2. Written(out, out2, line)
    BY <1>0, <1>6, LineNames, LineWritten
  <2> HIDE DEF p2, out2
  <2>3. WellTyped(p2, in, out2, st, ctx, unw, v) /\ Placed(p2, in, out2, st, unw, v)
    BY <1>0, <1>6, <2>1, <2>2, LineNames
    DEF Good, WellTyped, Placed, Written, Waiting, Running
  <2>4. InStep(p2, in, out2, st, v)
    BY <1>0, <1>6, <2>1, <2>2, LineNames DEF Good, InStep, Written
  <2>5. Counted(r, p2, out2, st, v)
    <3>1. st \notin Over
      BY <1>6 DEF Good, Placed, Running, Over
    <3>2. line # "STAT"
      BY <1>6 DEF EndLines
    <3>3. StatsIn(out2) = StatsIn(out)
      BY <1>0, <2>2, <3>2 DEF Written
    <3>4. v.stats + StatsIn(out) = p.wrote /\ v.rows <= v.stats /\ (r \in Traced /\ ~v.error => v.rows = v.stats)
      BY <3>1, <1>0 DEF Good, Counted
    <3>5. p2.wrote = p.wrote
      BY <2>1
    <3> QED
      BY <1>0, <3>3, <3>4, <3>5 DEF Counted
  <2>6. Complete(r, p2, st, v) /\ Caused(r, p2, st, ctx, stop, v)
    BY <1>0, <1>6, <2>1, <2>2, LineNames DEF Good, Placed, Complete, Caused, Running, Over
  <2>7. Good(r, p2, in, out2, st, ctx, stop, unw, v)
    BY <2>3, <2>4, <2>5, <2>6 DEF Good
  <2> QED
    BY <2>7 DEF p2, out2
<1>7. ASSUME p.at = "leaving"
      PROVE  Good(r, [p EXCEPT !.at = "exited", !.exit = "ok"], in, out, st, ctx, stop, unw, v)
  <2> DEFINE p2 == [p EXCEPT !.at = "exited", !.exit = "ok"]
  <2>1. /\ p2 \in Programs /\ p2.at = "exited" /\ p2.rejected = p.rejected
        /\ p2.wrote = p.wrote /\ p2.exit = "ok" /\ p2.oom = p.oom
    BY <1>0, <1>7 DEF Programs
  <2> HIDE DEF p2
  <2>2. Good(r, p2, in, out, st, ctx, stop, unw, v)
    BY <1>0, <1>7, <2>1
    DEF Good, WellTyped, Placed, InStep, Counted, Complete, Caused, Running, Waiting, Over, EndLines
  <2> QED
    BY <2>2 DEF p2
<1>8. ASSUME NEW oom \in BOOLEAN, p.at \notin {"none", "exited"}
      PROVE  Good(r, [p EXCEPT !.at = "exited", !.exit = "failed", !.oom = oom], in, out, st, ctx, stop, unw, v)
  <2> DEFINE p2 == [p EXCEPT !.at = "exited", !.exit = "failed", !.oom = oom]
  <2>1. /\ p2 \in Programs /\ p2.at = "exited" /\ p2.rejected = p.rejected
        /\ p2.wrote = p.wrote /\ p2.exit = "failed" /\ p2.oom = oom
    BY <1>0, <1>8 DEF Programs
  <2> HIDE DEF p2
  <2>2. Good(r, p2, in, out, st, ctx, stop, unw, v)
    BY <1>0, <1>8, <2>1
    DEF Good, WellTyped, Placed, InStep, Counted, Complete, Caused, Running, Waiting, Over, EndLines
  <2> QED
    BY <2>2 DEF p2
<1>9. ASSUME NEW oom \in BOOLEAN, p.at \notin {"none", "exited"}, HasRoom(out)
      PROVE  Good(r, [p EXCEPT !.at = "exited", !.exit = "failed", !.oom = oom], in, Append(out, "torn"), st, ctx, stop, unw, v)
  <2> DEFINE p2 == [p EXCEPT !.at = "exited", !.exit = "failed", !.oom = oom]
             out2 == Append(out, "torn")
  <2>1. /\ p2 \in Programs /\ p2.at = "exited" /\ p2.rejected = p.rejected
        /\ p2.wrote = p.wrote /\ p2.exit = "failed" /\ p2.oom = oom
    BY <1>0, <1>9 DEF Programs
  <2>2. Written(out, out2, "torn")
    BY <1>0, <1>9, LineNames, LineWritten
  <2> HIDE DEF p2, out2
  <2>3. WellTyped(p2, in, out2, st, ctx, unw, v) /\ Placed(p2, in, out2, st, unw, v)
    BY <1>0, <1>9, <2>1, <2>2, LineNames
    DEF Good, WellTyped, Placed, Written, Waiting, Running
  <2>4. InStep(p2, in, out2, st, v)
    BY <1>0, <1>9, <2>1, <2>2, LineNames DEF Good, InStep, Written
  <2>5. Counted(r, p2, out2, st, v)
    BY <1>0, <1>9, <2>1, <2>2 DEF Good, Counted, Placed, Written, Over, Running
  <2>6. Complete(r, p2, st, v) /\ Caused(r, p2, st, ctx, stop, v)
    BY <1>0, <1>9, <2>1, <2>2, LineNames DEF Good, Placed, Complete, Caused, Running, Over
  <2>7. Good(r, p2, in, out2, st, ctx, stop, unw, v)
    BY <2>3, <2>4, <2>5, <2>6 DEF Good
  <2> QED
    BY <2>7 DEF p2, out2
<1> QED
  BY <1>1, <1>2, <1>3, <1>4, <1>5, <1>6, <1>7, <1>8, <1>9

-----------------------------------------------------------------------------
(* The steps of the worker keep it too. *)

\* Verdict and PrepareVerdict of ModelRunner, as functions of the run's values.
PrepareVerdictOf(ctx) ==
    CASE ctx = "canceled" -> [NotRun EXCEPT !.status = "CANCELED", !.reason = "user_canceled"]
      [] ctx = "deadline" -> [NotRun EXCEPT !.reason = "timeout", !.error = TRUE]
      [] OTHER            -> [NotRun EXCEPT !.error = TRUE]

VerdictOf(v, ctx, exit) ==
    IF v.error THEN v
    ELSE CASE ctx = "canceled" -> [v EXCEPT !.status = "CANCELED", !.reason = "user_canceled"]
           [] ctx = "deadline" -> [v EXCEPT !.reason = "timeout", !.error = TRUE]
           [] OTHER -> IF exit = "failed" \/ ~v.ended \/ v.reason = "error"
                       THEN [v EXCEPT !.error = TRUE]
                       ELSE [v EXCEPT !.status = "FINISHED"]

Killed(p) == IF p.at \notin {"none", "exited"} THEN [p EXCEPT !.at = "exited", !.exit = "failed"] ELSE p

\* What a run that has not been started looks like.
LEMMA NotStarted ==
    ASSUME NEW r, NEW p, NEW in, NEW out, NEW st, NEW ctx, NEW stop, NEW unw, NEW v,
           Good(r, p, in, out, st, ctx, stop, unw, v), st \in Waiting
    PROVE  /\ p = NoProcess /\ v = NotRun /\ in = <<>> /\ out = <<>>
           /\ StatsIn(out) = 0 /\ st \notin Running
           /\ p.at = "none" /\ ~p.rejected /\ p.wrote = 0 /\ p.exit = "none" /\ ~p.oom
           /\ v.status = "FAILED" /\ v.reason = "" /\ ~v.error /\ v.stats = 0 /\ v.rows = 0
           /\ ~v.ended /\ ~v.stored
<1>1. p = NoProcess /\ v = NotRun /\ in = <<>> /\ out = <<>> /\ out \in Seq(Lines)
  BY DEF Good, Placed, WellTyped
<1>2. \A i \in DOMAIN out : out[i] # "STAT"
  BY <1>1
<1>3. StatsIn(out) = 0
  BY <1>1, <1>2, NoStats
<1> QED
  BY <1>1, <1>3 DEF NoProcess, NotRun, Waiting, Running

\* A program that is killed, or that has already exited.
LEMMA KilledProgram ==
    ASSUME NEW p \in Programs
    PROVE  /\ Killed(p) \in Programs /\ (p.at # "none" => Killed(p).at = "exited")
           /\ Killed(p).rejected = p.rejected /\ Killed(p).wrote = p.wrote
           /\ p.at = "exited" => Killed(p) = p
           /\ p.at \notin {"none", "exited"} => Killed(p).exit = "failed" /\ Killed(p).oom = p.oom
  BY DEF Killed, Programs

\* Torn lines are not counted.
LEMMA TornIsNoStat ==
    ASSUME NEW out \in Seq(Lines), OnlyTorn(out)
    PROVE  StatsIn(out) = 0
  BY NoStats DEF OnlyTorn

\* The worker takes a run whose settings all have a value.
LEMMA AcceptedGood ==
    ASSUME NEW r, NEW p, NEW in, NEW out, NEW st, NEW ctx, NEW stop, NEW unw, NEW v,
           Good(r, p, in, out, st, ctx, stop, unw, v),
           st \in {"queued"},
           ~\E i \in DOMAIN unw : unw[i] = "malformed"
    PROVE  Good(r, p, in, out, "lookup", ctx, stop, unw, v)
<1>t. /\ p \in Programs /\ v \in Results /\ out \in Seq(Lines) /\ Len(out) <= PipeSize
      /\ StatsIn(out) \in Nat /\ v.stats \in Nat /\ v.rows \in Nat /\ p.wrote \in Nat /\ MaxStats \in Nat
  BY GoodTypes
<1>w. /\ p = NoProcess /\ v = NotRun /\ in = <<>> /\ out = <<>>
      /\ StatsIn(out) = 0 /\ st \notin Running
      /\ p.at = "none" /\ ~p.rejected /\ p.wrote = 0 /\ p.exit = "none" /\ ~p.oom
      /\ v.status = "FAILED" /\ v.reason = "" /\ ~v.error /\ v.stats = 0 /\ v.rows = 0
      /\ ~v.ended /\ ~v.stored
  <2>1. st \in Waiting
    BY DEF Waiting
  <2> QED
    BY <2>1, NotStarted
<1>1. unw \in Seq({"accepted", "rejected"})
  <2>1. unw \in Seq(Setting) /\ DOMAIN unw = 1..Len(unw) /\ Len(unw) \in Nat
    BY DEF Good, Placed, Waiting
  <2>2. \A i \in 1..Len(unw) : unw[i] \in {"accepted", "rejected"}
    BY <2>1 DEF Setting
  <2> QED
    BY <2>1, <2>2
<1>p1. WellTyped(p, in, out, "lookup", ctx, unw, v)
  BY <1>t, <1>w, <1>1 DEF Good, WellTyped, Stages
<1>p2. Placed(p, in, out, "lookup", unw, v)
  BY <1>t, <1>w, <1>1 DEF Good, Placed, Waiting, Running, Stages
<1>p3. InStep(p, in, out, "lookup", v)
  BY <1>t, <1>w, <1>1 DEF Good, InStep, Stages
<1>p4. Counted(r, p, out, "lookup", v)
  BY <1>t, <1>w, <1>1 DEF Good, Counted, Placed, Over, Running, Stages
<1>p5. Complete(r, p, "lookup", v)
  BY <1>t, <1>w, <1>1 DEF Good, Complete, Placed, Running, Over, Stages
<1>p6. Caused(r, p, "lookup", ctx, stop, v)
  BY <1>t, <1>w, <1>1 DEF Good, Caused, Placed, Running, Over, Stages
<1> QED
  BY <1>p1, <1>p2, <1>p3, <1>p4, <1>p5, <1>p6 DEF Good

\* A run that has not been started gets a step further.
LEMMA MovesOnGood ==
    ASSUME NEW r, NEW p, NEW in, NEW out, NEW st, NEW ctx, NEW stop, NEW unw, NEW v,
           NEW st2 \in {"lookup", "fetch", "chmod", "handed"},
           Good(r, p, in, out, st, ctx, stop, unw, v),
           st \in Waiting \ {"queued"}
    PROVE  Good(r, p, in, out, st2, ctx, stop, unw, v)
<1>t. /\ p \in Programs /\ v \in Results /\ out \in Seq(Lines) /\ Len(out) <= PipeSize
      /\ StatsIn(out) \in Nat /\ v.stats \in Nat /\ v.rows \in Nat /\ p.wrote \in Nat /\ MaxStats \in Nat
  BY GoodTypes
<1>w. /\ p = NoProcess /\ v = NotRun /\ in = <<>> /\ out = <<>>
      /\ StatsIn(out) = 0 /\ st \notin Running
      /\ p.at = "none" /\ ~p.rejected /\ p.wrote = 0 /\ p.exit = "none" /\ ~p.oom
      /\ v.status = "FAILED" /\ v.reason = "" /\ ~v.error /\ v.stats = 0 /\ v.rows = 0
      /\ ~v.ended /\ ~v.stored
  <2>1. st \in Waiting
    BY DEF Waiting
  <2> QED
    BY <2>1, NotStarted
<1>n. StatsIn(out) = 0 /\ v.stats = 0 /\ v.rows = 0 /\ p.wrote = 0
  BY <1>w
<1>p1. WellTyped(p, in, out, st2, ctx, unw, v)
  BY <1>t, <1>w, <1>n DEF Good, WellTyped, Stages
<1>p2. Placed(p, in, out, st2, unw, v)
  BY <1>t, <1>w, <1>n DEF Good, Placed, Waiting, Running, Stages
<1>p3. InStep(p, in, out, st2, v)
  BY <1>t, <1>w, <1>n DEF Good, InStep, Stages
<1>p4. Counted(r, p, out, st2, v)
  BY <1>n DEF Counted
<1>p5. Complete(r, p, st2, v)
  BY <1>t, <1>w, <1>n DEF Good, Complete, Placed, Running, Over, Stages
<1>p6. Caused(r, p, st2, ctx, stop, v)
  BY <1>t, <1>w, <1>n DEF Good, Caused, Placed, Running, Over, Stages
<1> QED
  BY <1>p1, <1>p2, <1>p3, <1>p4, <1>p5, <1>p6 DEF Good

\* The binary cannot be had.
LEMMA PrepareFailsGood ==
    ASSUME NEW r, NEW p, NEW in, NEW out, NEW st, NEW ctx, NEW stop, NEW unw, NEW v,
           Good(r, p, in, out, st, ctx, stop, unw, v),
           st \in Waiting
    PROVE  Good(r, p, in, out, "report", ctx, stop, unw, PrepareVerdictOf(ctx))
<1> DEFINE v2 == PrepareVerdictOf(ctx)
<1>t. /\ p \in Programs /\ v \in Results /\ out \in Seq(Lines) /\ Len(out) <= PipeSize
      /\ StatsIn(out) \in Nat /\ v.stats \in Nat /\ v.rows \in Nat /\ p.wrote \in Nat /\ MaxStats \in Nat
  BY GoodTypes
<1>w. /\ p = NoProcess /\ v = NotRun /\ in = <<>> /\ out = <<>>
      /\ StatsIn(out) = 0 /\ st \notin Running
      /\ p.at = "none" /\ ~p.rejected /\ p.wrote = 0 /\ p.exit = "none" /\ ~p.oom
      /\ v.status = "FAILED" /\ v.reason = "" /\ ~v.error /\ v.stats = 0 /\ v.rows = 0
      /\ ~v.ended /\ ~v.stored
  <2>1. st \in Waiting
    BY DEF Waiting
  <2> QED
    BY <2>1, NotStarted
<1>1. /\ v2 \in Results /\ v2.stats = 0 /\ v2.rows = 0 /\ ~v2.ended /\ ~v2.stored
      /\ (v2.status = "CANCELED" /\ v2.reason = "user_canceled" /\ ctx = "canceled")
         \/ (v2.status = "FAILED" /\ v2.reason = "timeout" /\ ctx = "deadline" /\ v2.error)
         \/ (v2.status = "FAILED" /\ v2.reason = "" /\ v2.error)
  BY <1>t, <1>w DEF PrepareVerdictOf, NotRun, Results, Statuses, Reasons
<1> HIDE DEF v2
<1>p1. WellTyped(p, in, out, "report", ctx, unw, v2)
  BY <1>t, <1>w, <1>1 DEF Good, WellTyped, Stages
<1>p2. Placed(p, in, out, "report", unw, v2)
  BY <1>t, <1>w, <1>1 DEF Good, Placed, Waiting, Running, Stages
<1>p3. InStep(p, in, out, "report", v2)
  BY <1>t, <1>w, <1>1 DEF Good, InStep, Stages
<1>p4. Counted(r, p, out, "report", v2)
  BY <1>t, <1>w, <1>1 DEF Good, Counted, Placed, Over, Running, Stages
<1>p5. Complete(r, p, "report", v2)
  BY <1>t, <1>w, <1>1 DEF Good, Complete, Placed, Running, Over, Stages
<1>p6. Caused(r, p, "report", ctx, stop, v2)
  BY <1>t, <1>w, <1>1 DEF Good, Caused, Placed, Running, Over, Stages
<1> QED
  BY <1>p1, <1>p2, <1>p3, <1>p4, <1>p5, <1>p6 DEF Good, v2

\* The run fails before there is a program.
LEMMA StartFailsGood ==
    ASSUME NEW r, NEW p, NEW in, NEW out, NEW st, NEW ctx, NEW stop, NEW unw, NEW v,
           NEW st2 \in {"close", "report"},
           Good(r, p, in, out, st, ctx, stop, unw, v),
           st \in Waiting
    PROVE  Good(r, p, in, out, st2, ctx, stop, unw, [v EXCEPT !.error = TRUE])
<1> DEFINE v2 == [v EXCEPT !.error = TRUE]
<1>t. /\ p \in Programs /\ v \in Results /\ out \in Seq(Lines) /\ Len(out) <= PipeSize
      /\ StatsIn(out) \in Nat /\ v.stats \in Nat /\ v.rows \in Nat /\ p.wrote \in Nat /\ MaxStats \in Nat
  BY GoodTypes
<1>w. /\ p = NoProcess /\ v = NotRun /\ in = <<>> /\ out = <<>>
      /\ StatsIn(out) = 0 /\ st \notin Running
      /\ p.at = "none" /\ ~p.rejected /\ p.wrote = 0 /\ p.exit = "none" /\ ~p.oom
      /\ v.status = "FAILED" /\ v.reason = "" /\ ~v.error /\ v.stats = 0 /\ v.rows = 0
      /\ ~v.ended /\ ~v.stored
  <2>1. st \in Waiting
    BY DEF Waiting
  <2> QED
    BY <2>1, NotStarted
<1>1. /\ v2 \in Results
      /\ v2.status = v.status /\ v2.reason = v.reason /\ v2.error = TRUE /\ v2.stats = v.stats
      /\ v2.rows = v.rows /\ v2.ended = v.ended /\ v2.stored = v.stored
  BY <1>t DEF Results, Statuses, Reasons
<1> HIDE DEF v2
<1>p1. WellTyped(p, in, out, st2, ctx, unw, v2)
  BY <1>t, <1>w, <1>1 DEF Good, WellTyped, Stages
<1>p2. Placed(p, in, out, st2, unw, v2)
  BY <1>t, <1>w, <1>1 DEF Good, Placed, Waiting, Running, Stages
<1>p3. InStep(p, in, out, st2, v2)
  BY <1>t, <1>w, <1>1 DEF Good, InStep, Stages
<1>p4. Counted(r, p, out, st2, v2)
  BY <1>t, <1>w, <1>1 DEF Good, Counted, Placed, Over, Running, Stages
<1>p5. Complete(r, p, st2, v2)
  BY <1>t, <1>w, <1>1 DEF Good, Complete, Placed, Running, Over, Stages
<1>p6. Caused(r, p, st2, ctx, stop, v2)
  BY <1>t, <1>w, <1>1 DEF Good, Caused, Placed, Running, Over, Stages
<1> QED
  BY <1>p1, <1>p2, <1>p3, <1>p4, <1>p5, <1>p6 DEF Good, v2

\* The program is started.
LEMMA StartGood ==
    ASSUME NEW r, NEW p, NEW in, NEW out, NEW st, NEW ctx, NEW stop, NEW unw, NEW v,
           Good(r, p, in, out, st, ctx, stop, unw, v),
           st \in {"handed"}
    PROVE  Good(r, Booting, in, out, "hello", ctx, stop, Append(unw, "START"), v)
<1> DEFINE p2 == Booting
           unw2 == Append(unw, "START")
<1>t. /\ p \in Programs /\ v \in Results /\ out \in Seq(Lines) /\ Len(out) <= PipeSize
      /\ StatsIn(out) \in Nat /\ v.stats \in Nat /\ v.rows \in Nat /\ p.wrote \in Nat /\ MaxStats \in Nat
  BY GoodTypes
<1>w. /\ p = NoProcess /\ v = NotRun /\ in = <<>> /\ out = <<>>
      /\ StatsIn(out) = 0 /\ st \notin Running
      /\ p.at = "none" /\ ~p.rejected /\ p.wrote = 0 /\ p.exit = "none" /\ ~p.oom
      /\ v.status = "FAILED" /\ v.reason = "" /\ ~v.error /\ v.stats = 0 /\ v.rows = 0
      /\ ~v.ended /\ ~v.stored
  <2>1. st \in Waiting
    BY DEF Waiting
  <2> QED
    BY <2>1, NotStarted
<1>1. p2 \in Programs /\ p2.at = "boot" /\ ~p2.rejected /\ p2.wrote = 0 /\ p2.exit = "none" /\ ~p2.oom
  <2>1. 0 \in 0..MaxStats
    BY <1>t
  <2>2. NoProcess \in Programs
    BY <2>1 DEF Programs, NoProcess
  <2>3. Booting = [NoProcess EXCEPT !.at = "boot"]
    BY DEF Booting
  <2> QED
    BY <1>w, <2>2, <2>3 DEF Programs
<1>2. unw2 \in Seq(Commands) /\ unw2 # <<>> /\ unw2 \in Seq(Commands \cup Setting)
  <2>1. unw \in Seq({"accepted", "rejected"})
    BY DEF Good, Placed, Waiting
  <2>2. unw \in Seq(Commands) /\ "START" \in Commands
    BY <2>1 DEF Commands
  <2>3. unw2 \in Seq(Commands) /\ unw2 # <<>>
    BY <2>2, AppendProperties
  <2> QED
    BY <2>3
<1> HIDE DEF p2, unw2
<1>p1. WellTyped(p2, in, out, "hello", ctx, unw2, v)
  BY <1>t, <1>w, <1>1, <1>2 DEF Good, WellTyped, Stages
<1>p2. Placed(p2, in, out, "hello", unw2, v)
  BY <1>t, <1>w, <1>1, <1>2 DEF Good, Placed, Waiting, Running, Stages
<1>p3. InStep(p2, in, out, "hello", v)
  BY <1>t, <1>w, <1>1, <1>2 DEF Good, InStep, Stages
<1>p4. Counted(r, p2, out, "hello", v)
  BY <1>t, <1>w, <1>1, <1>2 DEF Good, Counted, Placed, Over, Running, Stages
<1>p5. Complete(r, p2, "hello", v)
  BY <1>t, <1>w, <1>1, <1>2 DEF Good, Complete, Placed, Running, Over, Stages
<1>p6. Caused(r, p2, "hello", ctx, stop, v)
  BY <1>t, <1>w, <1>1, <1>2 DEF Good, Caused, Placed, Running, Over, Stages
<1> QED
  BY <1>p1, <1>p2, <1>p3, <1>p4, <1>p5, <1>p6 DEF Good, p2, unw2

\* The program is started and at once killed, outside its cgroup.
LEMMA NotConfinedGood ==
    ASSUME NEW r, NEW p, NEW in, NEW out, NEW st, NEW ctx, NEW stop, NEW unw, NEW v,
           Good(r, p, in, out, st, ctx, stop, unw, v),
           st \in {"handed"}
    PROVE  Good(r, [Booting EXCEPT !.at = "exited", !.exit = "failed"], in, out, "wait", ctx, stop, unw, [v EXCEPT !.error = TRUE])
<1> DEFINE p2 == [Booting EXCEPT !.at = "exited", !.exit = "failed"]
           v2 == [v EXCEPT !.error = TRUE]
<1>t. /\ p \in Programs /\ v \in Results /\ out \in Seq(Lines) /\ Len(out) <= PipeSize
      /\ StatsIn(out) \in Nat /\ v.stats \in Nat /\ v.rows \in Nat /\ p.wrote \in Nat /\ MaxStats \in Nat
  BY GoodTypes
<1>w. /\ p = NoProcess /\ v = NotRun /\ in = <<>> /\ out = <<>>
      /\ StatsIn(out) = 0 /\ st \notin Running
      /\ p.at = "none" /\ ~p.rejected /\ p.wrote = 0 /\ p.exit = "none" /\ ~p.oom
      /\ v.status = "FAILED" /\ v.reason = "" /\ ~v.error /\ v.stats = 0 /\ v.rows = 0
      /\ ~v.ended /\ ~v.stored
  <2>1. st \in Waiting
    BY DEF Waiting
  <2> QED
    BY <2>1, NotStarted
<1>1. p2 \in Programs /\ p2.at = "exited" /\ ~p2.rejected /\ p2.wrote = 0 /\ p2.exit = "failed" /\ ~p2.oom
  <2>1. 0 \in 0..MaxStats
    BY <1>t
  <2>2. NoProcess \in Programs
    BY <2>1 DEF Programs, NoProcess
  <2>3. Booting = [NoProcess EXCEPT !.at = "boot"]
    BY DEF Booting
  <2> QED
    BY <1>w, <2>2, <2>3 DEF Programs
<1>2. /\ v2 \in Results
      /\ v2.status = v.status /\ v2.reason = v.reason /\ v2.error = TRUE /\ v2.stats = v.stats
      /\ v2.rows = v.rows /\ v2.ended = v.ended /\ v2.stored = v.stored
  BY <1>t DEF Results, Statuses, Reasons
<1> HIDE DEF p2, v2
<1>p1. WellTyped(p2, in, out, "wait", ctx, unw, v2)
  BY <1>t, <1>w, <1>1, <1>2 DEF Good, WellTyped, Stages
<1>p2. Placed(p2, in, out, "wait", unw, v2)
  BY <1>t, <1>w, <1>1, <1>2 DEF Good, Placed, Waiting, Running, Stages
<1>p3. InStep(p2, in, out, "wait", v2)
  BY <1>t, <1>w, <1>1, <1>2 DEF Good, InStep, Stages
<1>p4. Counted(r, p2, out, "wait", v2)
  BY <1>t, <1>w, <1>1, <1>2 DEF Good, Counted, Placed, Over, Running, Stages
<1>p5. Complete(r, p2, "wait", v2)
  BY <1>t, <1>w, <1>1, <1>2 DEF Good, Complete, Placed, Running, Over, Stages
<1>p6. Caused(r, p2, "wait", ctx, stop, v2)
  BY <1>t, <1>w, <1>1, <1>2 DEF Good, Caused, Placed, Running, Over, Stages
<1> QED
  BY <1>p1, <1>p2, <1>p3, <1>p4, <1>p5, <1>p6 DEF Good, p2, v2

\* The worker gives the run up and kills the program.
LEMMA AbandonGood ==
    ASSUME NEW r, NEW p, NEW in, NEW out, NEW st, NEW ctx, NEW stop, NEW unw, NEW v,
           Good(r, p, in, out, st, ctx, stop, unw, v),
           st \in {"hello", "config", "ready", "lines"}
    PROVE  Good(r, Killed(p), in, out, "wait", ctx, stop, unw, [v EXCEPT !.error = TRUE])
<1> DEFINE p2 == Killed(p)
           v2 == [v EXCEPT !.error = TRUE]
<1>t. /\ p \in Programs /\ v \in Results /\ out \in Seq(Lines) /\ Len(out) <= PipeSize
      /\ StatsIn(out) \in Nat /\ v.stats \in Nat /\ v.rows \in Nat /\ p.wrote \in Nat /\ MaxStats \in Nat
  BY GoodTypes
<1>r. st \in Running /\ st \notin Waiting /\ st \notin Over /\ p.at # "none" /\ v.status = "FAILED"
  BY DEF Good, Placed, Caused, Running, Waiting, Over
<1>1. /\ p2 \in Programs /\ (p.at # "none" => p2.at = "exited") /\ p2.rejected = p.rejected /\ p2.wrote = p.wrote
      /\ p.at = "exited" => p2 = p
      /\ p.at \notin {"none", "exited"} => p2.exit = "failed" /\ p2.oom = p.oom
  BY <1>t, KilledProgram
<1>2. /\ v2 \in Results
      /\ v2.status = v.status /\ v2.reason = v.reason /\ v2.error = TRUE /\ v2.stats = v.stats
      /\ v2.rows = v.rows /\ v2.ended = v.ended /\ v2.stored = v.stored
  BY <1>t DEF Results, Statuses, Reasons
<1> HIDE DEF p2, v2
<1>p1. WellTyped(p2, in, out, "wait", ctx, unw, v2)
  BY <1>t, <1>r, <1>1, <1>2 DEF Good, WellTyped, Stages
<1>p2. Placed(p2, in, out, "wait", unw, v2)
  BY <1>t, <1>r, <1>1, <1>2 DEF Good, Placed, Waiting, Running, Stages
<1>p3. InStep(p2, in, out, "wait", v2)
  BY <1>t, <1>r, <1>1, <1>2 DEF Good, InStep, Stages
<1>p4. Counted(r, p2, out, "wait", v2)
  BY <1>t, <1>r, <1>1, <1>2 DEF Good, Counted, Placed, Over, Running, Stages
<1>p5. Complete(r, p2, "wait", v2)
  BY <1>t, <1>r, <1>1, <1>2 DEF Good, Complete, Placed, Running, Over, Stages
<1>p6. Caused(r, p2, "wait", ctx, stop, v2)
  BY <1>t, <1>r, <1>1, <1>2 DEF Good, Caused, Placed, Running, Over, Stages
<1> QED
  BY <1>p1, <1>p2, <1>p3, <1>p4, <1>p5, <1>p6 DEF Good, p2, v2

\* The worker reads HELLO.
LEMMA HelloGood ==
    ASSUME NEW r, NEW p, NEW in, NEW out, NEW st, NEW ctx, NEW stop, NEW unw, NEW v,
           Good(r, p, in, out, st, ctx, stop, unw, v),
           st = "hello",
           out # <<>>,
           Head(out) = "HELLO"
    PROVE  Good(r, p, in, Tail(out), "config", ctx, stop, unw, v)
<1> DEFINE rest == Tail(out)
<1>t. /\ p \in Programs /\ v \in Results /\ out \in Seq(Lines) /\ Len(out) <= PipeSize
      /\ StatsIn(out) \in Nat /\ v.stats \in Nat /\ v.rows \in Nat /\ p.wrote \in Nat /\ MaxStats \in Nat
  BY GoodTypes
<1>r. st \in Running /\ st \notin Waiting /\ st \notin Over /\ p.at # "none" /\ v.status = "FAILED"
  BY DEF Good, Placed, Caused, Running, Waiting, Over
<1>c. /\ rest \in Seq(Lines) /\ Len(rest) <= PipeSize /\ StatsIn(rest) \in Nat
      /\ StatsIn(out) = StatsIn(rest) + (IF Head(out) = "STAT" THEN 1 ELSE 0)
  BY <1>t, LineRead DEF Consumed
<1>d. Consumed(out, rest)
  BY <1>t, LineRead
<1>1. Len(out) = 1 => OnlyErrors(rest)
  BY <1>d DEF Consumed, OnlyErrors
<1>2. ~p.rejected
  BY DEF Good, InStep
<1> HIDE DEF rest
<1>p1. WellTyped(p, in, rest, "config", ctx, unw, v)
  BY <1>t, <1>r, <1>c, <1>1, <1>2 DEF Good, WellTyped, Stages
<1>p2. Placed(p, in, rest, "config", unw, v)
  BY <1>t, <1>r, <1>c, <1>1, <1>2 DEF Good, Placed, Waiting, Running, Stages
<1>p3. InStep(p, in, rest, "config", v)
  BY <1>t, <1>r, <1>1, <1>2, <1>c, <1>d DEF Good, InStep, Consumed, EndLines, Running, Stages
<1>p4. Counted(r, p, rest, "config", v)
  BY <1>t, <1>r, <1>c, <1>1, <1>2 DEF Good, Counted, Placed, Over, Running, Stages
<1>p5. Complete(r, p, "config", v)
  BY <1>t, <1>r, <1>c, <1>1, <1>2 DEF Good, Complete, Placed, Running, Over, Stages
<1>p6. Caused(r, p, "config", ctx, stop, v)
  BY <1>t, <1>r, <1>c, <1>1, <1>2 DEF Good, Caused, Placed, Running, Over, Stages
<1> QED
  BY <1>p1, <1>p2, <1>p3, <1>p4, <1>p5, <1>p6 DEF Good, rest

\* The worker reads READY.
LEMMA ReadyGood ==
    ASSUME NEW r, NEW p, NEW in, NEW out, NEW st, NEW ctx, NEW stop, NEW unw, NEW v,
           Good(r, p, in, out, st, ctx, stop, unw, v),
           st = "ready",
           out # <<>>,
           Head(out) = "READY"
    PROVE  Good(r, p, in, Tail(out), "lines", ctx, stop, unw, v)
<1> DEFINE rest == Tail(out)
<1>t. /\ p \in Programs /\ v \in Results /\ out \in Seq(Lines) /\ Len(out) <= PipeSize
      /\ StatsIn(out) \in Nat /\ v.stats \in Nat /\ v.rows \in Nat /\ p.wrote \in Nat /\ MaxStats \in Nat
  BY GoodTypes
<1>r. st \in Running /\ st \notin Waiting /\ st \notin Over /\ p.at # "none" /\ v.status = "FAILED"
  BY DEF Good, Placed, Caused, Running, Waiting, Over
<1>c. /\ rest \in Seq(Lines) /\ Len(rest) <= PipeSize /\ StatsIn(rest) \in Nat
      /\ StatsIn(out) = StatsIn(rest) + (IF Head(out) = "STAT" THEN 1 ELSE 0)
  BY <1>t, LineRead DEF Consumed
<1>d. Consumed(out, rest)
  BY <1>t, LineRead
<1> HIDE DEF rest
<1>p1. WellTyped(p, in, rest, "lines", ctx, unw, v)
  BY <1>t, <1>r, <1>c DEF Good, WellTyped, Stages
<1>p2. Placed(p, in, rest, "lines", unw, v)
  BY <1>t, <1>r, <1>c DEF Good, Placed, Waiting, Running, Stages
<1>p3. InStep(p, in, rest, "lines", v)
  BY <1>t, <1>r, <1>c, <1>d DEF Good, InStep, Consumed, EndLines, Running, Stages
<1>p4. Counted(r, p, rest, "lines", v)
  BY <1>t, <1>r, <1>c DEF Good, Counted, Placed, Over, Running, Stages
<1>p5. Complete(r, p, "lines", v)
  BY <1>t, <1>r, <1>c DEF Good, Complete, Placed, Running, Over, Stages
<1>p6. Caused(r, p, "lines", ctx, stop, v)
  BY <1>t, <1>r, <1>c DEF Good, Caused, Placed, Running, Over, Stages
<1> QED
  BY <1>p1, <1>p2, <1>p3, <1>p4, <1>p5, <1>p6 DEF Good, rest

\* The worker reads a STAT line and writes its row.
LEMMA StatGood ==
    ASSUME NEW r, NEW p, NEW in, NEW out, NEW st, NEW ctx, NEW stop, NEW unw, NEW v,
           Good(r, p, in, out, st, ctx, stop, unw, v),
           st = "lines",
           out # <<>>,
           Head(out) = "STAT"
    PROVE  Good(r, p, in, Tail(out), st, ctx, stop, unw, [v EXCEPT !.stats = @ + 1, !.rows = IF r \in Traced THEN @ + 1 ELSE @])
<1> DEFINE rest == Tail(out)
           v2 == [v EXCEPT !.stats = @ + 1, !.rows = IF r \in Traced THEN @ + 1 ELSE @]
<1>t. /\ p \in Programs /\ v \in Results /\ out \in Seq(Lines) /\ Len(out) <= PipeSize
      /\ StatsIn(out) \in Nat /\ v.stats \in Nat /\ v.rows \in Nat /\ p.wrote \in Nat /\ MaxStats \in Nat
  BY GoodTypes
<1>r. st \in Running /\ st \notin Waiting /\ st \notin Over /\ p.at # "none" /\ v.status = "FAILED"
  BY DEF Good, Placed, Caused, Running, Waiting, Over
<1>c. /\ rest \in Seq(Lines) /\ Len(rest) <= PipeSize /\ StatsIn(rest) \in Nat
      /\ StatsIn(out) = StatsIn(rest) + (IF Head(out) = "STAT" THEN 1 ELSE 0)
  BY <1>t, LineRead DEF Consumed
<1>d. Consumed(out, rest)
  BY <1>t, LineRead
<1>3. st \notin Over /\ v.stats + StatsIn(out) = p.wrote /\ p.wrote <= MaxStats /\ StatsIn(out) = StatsIn(rest) + 1
      /\ v.rows <= v.stats /\ (r \in Traced /\ ~v.error => v.rows = v.stats)
  BY <1>t, <1>r, <1>c DEF Good, Counted, Programs
<1>4. v.stats + 1 \in 0..MaxStats
  BY <1>t, <1>c, <1>3
<1>5. v.rows <= v.stats /\ v.rows + 1 \in 0..MaxStats
  BY <1>t, <1>c, <1>3 DEF Good, Counted
<1>6. /\ v2 \in Results
      /\ v2.status = v.status /\ v2.reason = v.reason /\ v2.error = v.error /\ v2.stats = v.stats + 1
      /\ v2.rows = (IF r \in Traced THEN v.rows + 1 ELSE v.rows) /\ v2.ended = v.ended /\ v2.stored = v.stored
  <2> DEFINE s == v.stats + 1
             w == IF r \in Traced THEN v.rows + 1 ELSE v.rows
  <2>1. s \in 0..MaxStats /\ w \in 0..MaxStats
    BY <1>t, <1>4, <1>5 DEF Results
  <2>2. v2 = [v EXCEPT !.stats = s, !.rows = w]
    OBVIOUS
  <2> HIDE DEF s, w, v2
  <2>3. /\ v2 \in Results
        /\ v2.status = v.status /\ v2.reason = v.reason /\ v2.error = v.error /\ v2.stats = s
        /\ v2.rows = w /\ v2.ended = v.ended /\ v2.stored = v.stored
    BY <1>t, <2>1, <2>2 DEF Results
  <2> QED
    BY <2>3 DEF s, w
<1> HIDE DEF rest, v2
<1>p1. WellTyped(p, in, rest, st, ctx, unw, v2)
  BY <1>t, <1>r, <1>c, <1>3, <1>4, <1>5, <1>6 DEF Good, WellTyped, Stages
<1>p2. Placed(p, in, rest, st, unw, v2)
  BY <1>t, <1>r, <1>c, <1>3, <1>4, <1>5, <1>6 DEF Good, Placed, Waiting, Running, Stages
<1>p3. InStep(p, in, rest, st, v2)
  BY <1>t, <1>r, <1>3, <1>4, <1>5, <1>6, <1>c, <1>d DEF Good, InStep, Consumed, EndLines, Running, Stages
<1>p4. Counted(r, p, rest, st, v2)
  <2>1. v2.stats + StatsIn(rest) = p.wrote /\ v2.stats = v.stats + 1
    <3>1. v.stats + StatsIn(out) = p.wrote /\ StatsIn(out) = StatsIn(rest) + 1 /\ p.wrote = p.wrote
      BY <1>3
    <3>2. v2.stats = v.stats + 1 /\ StatsIn(rest) \in Nat /\ v.stats \in Nat
      BY <1>6, <1>c, <1>t
    <3> QED
      BY <3>1, <3>2
  <2>2. v2.rows <= v2.stats
    <3>1. v2.rows \in {v.rows, v.rows + 1} /\ v.rows <= v.stats /\ v.rows \in Nat /\ v.stats \in Nat
      BY <1>6, <1>3, <1>t
    <3> QED
      BY <2>1, <3>1
  <2>3. r \in Traced /\ ~v2.error => v2.rows = v2.stats
    BY <1>3, <1>6
  <2>4. StatsIn(rest) \in Nat /\ v2.stats + StatsIn(rest) <= p.wrote
    <3>1. p.wrote \in Nat /\ StatsIn(rest) \in Nat
      BY <1>t, <1>c
    <3> QED
      BY <2>1, <3>1
  <2> QED
    BY <2>1, <2>2, <2>3, <2>4 DEF Counted
<1>p5. Complete(r, p, st, v2)
  BY <1>t, <1>r, <1>c, <1>3, <1>4, <1>5, <1>6 DEF Good, Complete, Placed, Running, Over, Stages
<1>p6. Caused(r, p, st, ctx, stop, v2)
  BY <1>t, <1>r, <1>c, <1>3, <1>4, <1>5, <1>6 DEF Good, Caused, Placed, Running, Over, Stages
<1> QED
  BY <1>p1, <1>p2, <1>p3, <1>p4, <1>p5, <1>p6 DEF Good, rest, v2

\* The worker reads a STAT line and its row cannot be written.
LEMMA RowFailsGood ==
    ASSUME NEW r, NEW p, NEW in, NEW out, NEW st, NEW ctx, NEW stop, NEW unw, NEW v,
           Good(r, p, in, out, st, ctx, stop, unw, v),
           st = "lines",
           out # <<>>,
           Head(out) = "STAT"
    PROVE  Good(r, Killed(p), in, Tail(out), "wait", ctx, stop, unw, [v EXCEPT !.stats = @ + 1, !.error = TRUE])
<1> DEFINE rest == Tail(out)
           p2 == Killed(p)
           v2 == [v EXCEPT !.stats = @ + 1, !.error = TRUE]
<1>t. /\ p \in Programs /\ v \in Results /\ out \in Seq(Lines) /\ Len(out) <= PipeSize
      /\ StatsIn(out) \in Nat /\ v.stats \in Nat /\ v.rows \in Nat /\ p.wrote \in Nat /\ MaxStats \in Nat
  BY GoodTypes
<1>r. st \in Running /\ st \notin Waiting /\ st \notin Over /\ p.at # "none" /\ v.status = "FAILED"
  BY DEF Good, Placed, Caused, Running, Waiting, Over
<1>c. /\ rest \in Seq(Lines) /\ Len(rest) <= PipeSize /\ StatsIn(rest) \in Nat
      /\ StatsIn(out) = StatsIn(rest) + (IF Head(out) = "STAT" THEN 1 ELSE 0)
  BY <1>t, LineRead DEF Consumed
<1>d. Consumed(out, rest)
  BY <1>t, LineRead
<1>1. /\ p2 \in Programs /\ (p.at # "none" => p2.at = "exited") /\ p2.rejected = p.rejected /\ p2.wrote = p.wrote
      /\ p.at = "exited" => p2 = p
      /\ p.at \notin {"none", "exited"} => p2.exit = "failed" /\ p2.oom = p.oom
  BY <1>t, KilledProgram
<1>3. st \notin Over /\ v.stats + StatsIn(out) = p.wrote /\ p.wrote <= MaxStats /\ StatsIn(out) = StatsIn(rest) + 1
      /\ v.rows <= v.stats /\ (r \in Traced /\ ~v.error => v.rows = v.stats)
  BY <1>t, <1>r, <1>c DEF Good, Counted, Programs
<1>4. v.stats + 1 \in 0..MaxStats
  BY <1>t, <1>c, <1>3
<1>5. v.rows <= v.stats /\ v.rows + 1 \in 0..MaxStats
  BY <1>t, <1>c, <1>3 DEF Good, Counted
<1>6. /\ v2 \in Results
      /\ v2.status = v.status /\ v2.reason = v.reason /\ v2.error = TRUE /\ v2.stats = v.stats + 1
      /\ v2.rows = v.rows /\ v2.ended = v.ended /\ v2.stored = v.stored
  <2> DEFINE s == v.stats + 1
  <2>1. s \in 0..MaxStats
    BY <1>4
  <2>2. v2 = [v EXCEPT !.stats = s, !.error = TRUE]
    OBVIOUS
  <2> HIDE DEF s, v2
  <2>3. /\ v2 \in Results
        /\ v2.status = v.status /\ v2.reason = v.reason /\ v2.error = TRUE /\ v2.stats = s
        /\ v2.rows = v.rows /\ v2.ended = v.ended /\ v2.stored = v.stored
    BY <1>t, <2>1, <2>2 DEF Results
  <2> QED
    BY <2>3 DEF s
<1> HIDE DEF rest, p2, v2
<1>p1. WellTyped(p2, in, rest, "wait", ctx, unw, v2)
  BY <1>t, <1>r, <1>c, <1>1, <1>3, <1>4, <1>5, <1>6 DEF Good, WellTyped, Stages
<1>p2. Placed(p2, in, rest, "wait", unw, v2)
  BY <1>t, <1>r, <1>c, <1>1, <1>3, <1>4, <1>5, <1>6 DEF Good, Placed, Waiting, Running, Stages
<1>p3. InStep(p2, in, rest, "wait", v2)
  BY <1>t, <1>r, <1>1, <1>3, <1>4, <1>5, <1>6, <1>c, <1>d DEF Good, InStep, Consumed, EndLines, Running, Stages
<1>p4. Counted(r, p2, rest, "wait", v2)
  <2>1. v2.stats + StatsIn(rest) = p2.wrote /\ v2.stats = v.stats + 1
    <3>1. v.stats + StatsIn(out) = p.wrote /\ StatsIn(out) = StatsIn(rest) + 1 /\ p2.wrote = p.wrote
      BY <1>3, <1>1
    <3>2. v2.stats = v.stats + 1 /\ StatsIn(rest) \in Nat /\ v.stats \in Nat
      BY <1>6, <1>c, <1>t
    <3> QED
      BY <3>1, <3>2
  <2>2. v2.rows <= v2.stats
    <3>1. v2.rows \in {v.rows, v.rows + 1} /\ v.rows <= v.stats /\ v.rows \in Nat /\ v.stats \in Nat
      BY <1>6, <1>3, <1>t
    <3> QED
      BY <2>1, <3>1
  <2>3. r \in Traced /\ ~v2.error => v2.rows = v2.stats
    BY <1>3, <1>6
  <2>4. StatsIn(rest) \in Nat /\ v2.stats + StatsIn(rest) <= p2.wrote
    <3>1. p2.wrote \in Nat /\ StatsIn(rest) \in Nat
      BY <1>t, <1>c, <1>1
    <3> QED
      BY <2>1, <3>1
  <2> QED
    BY <2>1, <2>2, <2>3, <2>4 DEF Counted
<1>p5. Complete(r, p2, "wait", v2)
  BY <1>t, <1>r, <1>c, <1>1, <1>3, <1>4, <1>5, <1>6 DEF Good, Complete, Placed, Running, Over, Stages
<1>p6. Caused(r, p2, "wait", ctx, stop, v2)
  BY <1>t, <1>r, <1>c, <1>1, <1>3, <1>4, <1>5, <1>6 DEF Good, Caused, Placed, Running, Over, Stages
<1> QED
  BY <1>p1, <1>p2, <1>p3, <1>p4, <1>p5, <1>p6 DEF Good, rest, p2, v2

\* The worker reads an END line.
LEMMA EndGood ==
    ASSUME NEW r, NEW p, NEW in, NEW out, NEW st, NEW ctx, NEW stop, NEW unw, NEW v,
           NEW reason \in {"end", "error"},
           Good(r, p, in, out, st, ctx, stop, unw, v),
           st = "lines",
           out # <<>>,
           Head(out) \in EndLines
    PROVE  Good(r, p, in, Tail(out), "wait", ctx, stop, unw, [v EXCEPT !.ended = TRUE, !.reason = reason])
<1> DEFINE rest == Tail(out)
           v2 == [v EXCEPT !.ended = TRUE, !.reason = reason]
<1>t. /\ p \in Programs /\ v \in Results /\ out \in Seq(Lines) /\ Len(out) <= PipeSize
      /\ StatsIn(out) \in Nat /\ v.stats \in Nat /\ v.rows \in Nat /\ p.wrote \in Nat /\ MaxStats \in Nat
  BY GoodTypes
<1>r. st \in Running /\ st \notin Waiting /\ st \notin Over /\ p.at # "none" /\ v.status = "FAILED"
  BY DEF Good, Placed, Caused, Running, Waiting, Over
<1>c. /\ rest \in Seq(Lines) /\ Len(rest) <= PipeSize /\ StatsIn(rest) \in Nat
      /\ StatsIn(out) = StatsIn(rest) + (IF Head(out) = "STAT" THEN 1 ELSE 0)
  BY <1>t, LineRead DEF Consumed
<1>d. Consumed(out, rest)
  BY <1>t, LineRead
<1>2. Head(out) # "STAT"
  BY DEF EndLines
<1>3. /\ v2 \in Results
      /\ v2.status = v.status /\ v2.reason = reason /\ v2.error = v.error /\ v2.stats = v.stats
      /\ v2.rows = v.rows /\ v2.ended = TRUE /\ v2.stored = v.stored
  BY <1>t DEF Results, Statuses, Reasons
<1> HIDE DEF rest, v2
<1>p1. WellTyped(p, in, rest, "wait", ctx, unw, v2)
  BY <1>t, <1>r, <1>c, <1>2, <1>3 DEF Good, WellTyped, Stages
<1>p2. Placed(p, in, rest, "wait", unw, v2)
  BY <1>t, <1>r, <1>c, <1>2, <1>3 DEF Good, Placed, Waiting, Running, Stages
<1>p3. InStep(p, in, rest, "wait", v2)
  BY <1>t, <1>r, <1>2, <1>3, <1>c, <1>d DEF Good, InStep, Consumed, EndLines, Running, Stages
<1>p4. Counted(r, p, rest, "wait", v2)
  BY <1>t, <1>r, <1>c, <1>2, <1>3 DEF Good, Counted, Placed, Over, Running, Stages
<1>p5. Complete(r, p, "wait", v2)
  BY <1>t, <1>r, <1>c, <1>2, <1>3 DEF Good, Complete, Placed, Running, Over, Stages
<1>p6. Caused(r, p, "wait", ctx, stop, v2)
  BY <1>t, <1>r, <1>c, <1>2, <1>3 DEF Good, Caused, Placed, Running, Over, Stages
<1> QED
  BY <1>p1, <1>p2, <1>p3, <1>p4, <1>p5, <1>p6 DEF Good, rest, v2

\* The output ends without an END.
LEMMA NoMoreLinesGood ==
    ASSUME NEW r, NEW p, NEW in, NEW out, NEW st, NEW ctx, NEW stop, NEW unw, NEW v,
           Good(r, p, in, out, st, ctx, stop, unw, v),
           st = "lines",
           out = <<>>,
           p.at \in {"none", "exited"}
    PROVE  Good(r, p, in, out, "wait", ctx, stop, unw, v)
<1>t. /\ p \in Programs /\ v \in Results /\ out \in Seq(Lines) /\ Len(out) <= PipeSize
      /\ StatsIn(out) \in Nat /\ v.stats \in Nat /\ v.rows \in Nat /\ p.wrote \in Nat /\ MaxStats \in Nat
  BY GoodTypes
<1>r. st \in Running /\ st \notin Waiting /\ st \notin Over /\ p.at # "none" /\ v.status = "FAILED"
  BY DEF Good, Placed, Caused, Running, Waiting, Over
<1>p1. WellTyped(p, in, out, "wait", ctx, unw, v)
  BY <1>t, <1>r DEF Good, WellTyped, Stages
<1>p2. Placed(p, in, out, "wait", unw, v)
  BY <1>t, <1>r DEF Good, Placed, Waiting, Running, Stages
<1>p3. InStep(p, in, out, "wait", v)
  BY <1>t, <1>r DEF Good, InStep, Stages
<1>p4. Counted(r, p, out, "wait", v)
  BY <1>t, <1>r DEF Good, Counted, Placed, Over, Running, Stages
<1>p5. Complete(r, p, "wait", v)
  BY <1>t, <1>r DEF Good, Complete, Placed, Running, Over, Stages
<1>p6. Caused(r, p, "wait", ctx, stop, v)
  BY <1>t, <1>r DEF Good, Caused, Placed, Running, Over, Stages
<1> QED
  BY <1>p1, <1>p2, <1>p3, <1>p4, <1>p5, <1>p6 DEF Good

\* The worker writes a command to the program.
LEMMA CommandGood ==
    ASSUME NEW r, NEW p, NEW in, NEW out, NEW st, NEW ctx, NEW stop, NEW unw, NEW v,
           Good(r, p, in, out, st, ctx, stop, unw, v),
           st = "config",
           p.at \notin {"none", "exited"},
           HasRoom(in)
    PROVE  Good(r, p, Append(in, Head(unw)), out, IF Len(unw) = 1 THEN "ready" ELSE st, ctx, stop, Tail(unw), v)
<1> DEFINE in2 == Append(in, Head(unw))
           unw2 == Tail(unw)
           st2 == IF Len(unw) = 1 THEN "ready" ELSE st
<1>t. /\ p \in Programs /\ v \in Results /\ out \in Seq(Lines) /\ Len(out) <= PipeSize
      /\ StatsIn(out) \in Nat /\ v.stats \in Nat /\ v.rows \in Nat /\ p.wrote \in Nat /\ MaxStats \in Nat
  BY GoodTypes
<1>r. st \in Running /\ st \notin Waiting /\ st \notin Over /\ p.at # "none" /\ v.status = "FAILED"
  BY DEF Good, Placed, Caused, Running, Waiting, Over
<1>1. unw \in Seq(Commands) /\ unw # <<>> /\ in \in Seq(Commands) /\ Len(in) <= PipeSize
  BY GoodTypes DEF Good, Placed
<1>2. in2 \in Seq(Commands) /\ Len(in2) <= PipeSize
  <2>1. Head(unw) \in Commands /\ Len(in) \in Nat
    BY <1>1, HeadTailProperties
  <2>2. in2 \in Seq(Commands) /\ Len(in2) = Len(in) + 1
    BY <1>1, <2>1, AppendProperties
  <2> QED
    BY <2>1, <2>2, ProcessAssumption DEF HasRoom
<1>3. unw2 \in Seq(Commands) /\ unw2 \in Seq(Commands \cup Setting)
  <2>1. unw2 \in Seq(Commands)
    BY <1>1, HeadTailProperties
  <2> QED
    BY <2>1
<1>4. st2 \in {"config", "ready"} /\ (st2 = "config" => unw2 # <<>>)
  <2>1. /\ Len(unw2) = Len(unw) - 1 /\ Len(unw) \in Nat /\ (Len(unw) = 0 => unw = <<>>)
        /\ unw2 = <<>> => Len(unw2) = 0
    <3>1. Len(unw2) = Len(unw) - 1 /\ Len(unw) \in Nat
      BY <1>1, HeadTailProperties
    <3>2. \A s : s = <<>> => Len(s) = 0
      OBVIOUS
    <3>3. Len(unw) = 0 => unw = <<>>
      BY <1>1
    <3> QED
      BY <3>1, <3>2, <3>3
  <2> QED
    BY <1>1, <2>1
<1> HIDE DEF in2, unw2, st2
<1>p1. WellTyped(p, in2, out, st2, ctx, unw2, v)
  BY <1>t, <1>r, <1>1, <1>2, <1>3, <1>4 DEF Good, WellTyped, Stages
<1>p2. Placed(p, in2, out, st2, unw2, v)
  BY <1>t, <1>r, <1>1, <1>2, <1>3, <1>4 DEF Good, Placed, Waiting, Running, Stages
<1>p3. InStep(p, in2, out, st2, v)
  BY <1>t, <1>r, <1>1, <1>2, <1>3, <1>4 DEF Good, InStep, Stages
<1>p4. Counted(r, p, out, st2, v)
  BY <1>t, <1>r, <1>1, <1>2, <1>3, <1>4 DEF Good, Counted, Placed, Over, Running, Stages
<1>p5. Complete(r, p, st2, v)
  BY <1>t, <1>r, <1>1, <1>2, <1>3, <1>4 DEF Good, Complete, Placed, Running, Over, Stages
<1>p6. Caused(r, p, st2, ctx, stop, v)
  BY <1>t, <1>r, <1>1, <1>2, <1>3, <1>4 DEF Good, Caused, Placed, Running, Over, Stages
<1> QED
  BY <1>p1, <1>p2, <1>p3, <1>p4, <1>p5, <1>p6 DEF Good, in2, unw2, st2

\* What a verdict amounts to.
Judged(v, ctx, p, u) ==
    /\ u \in Results /\ u.stats = v.stats /\ u.rows = v.rows /\ u.ended = v.ended /\ (v.error => u.error)
    /\ \/ u.status = "CANCELED" /\ u.reason = "user_canceled" /\ ctx = "canceled"
       \/ u.status = "FAILED" /\ u.error /\ u.reason \in {"", "end", "error"}
       \/ u.status = "FAILED" /\ u.error /\ u.reason = "timeout" /\ ctx = "deadline"
       \/ u.status = "FINISHED" /\ u.reason = "end" /\ ~v.error /\ v.ended /\ p.exit # "failed" /\ ~u.error

\* What cmd.Wait and the cgroup make of the result.
LEMMA VerdictGood ==
    ASSUME NEW r, NEW p, NEW in, NEW out, NEW st, NEW ctx, NEW stop, NEW unw, NEW v,
           Good(r, p, in, out, st, ctx, stop, unw, v), st \in {"wait"},
           NEW u, u = VerdictOf(v, ctx, p.exit)
    PROVE  Judged(v, ctx, p, u)
<1>1. v \in Results /\ v.status = "FAILED" /\ v.reason \in {"", "end", "error"} /\ (v.ended => v.reason \in {"end", "error"})
  BY GoodTypes DEF Good, Caused, Running
<1>2. CASE v.error
  BY <1>1, <1>2 DEF VerdictOf, Judged
<1>3. CASE ~v.error /\ ctx = "canceled"
  <2>1. u = [v EXCEPT !.status = "CANCELED", !.reason = "user_canceled"]
    BY <1>3 DEF VerdictOf
  <2> QED
    BY <1>1, <1>3, <2>1 DEF Results, Statuses, Reasons, Judged
<1>4. CASE ~v.error /\ ctx = "deadline"
  <2>1. u = [v EXCEPT !.reason = "timeout", !.error = TRUE]
    BY <1>4 DEF VerdictOf
  <2> QED
    BY <1>1, <1>4, <2>1 DEF Results, Statuses, Reasons, Judged
<1>5. CASE ~v.error /\ ctx \notin {"canceled", "deadline"} /\ (p.exit = "failed" \/ ~v.ended \/ v.reason = "error")
  <2>1. u = [v EXCEPT !.error = TRUE]
    BY <1>5 DEF VerdictOf
  <2> QED
    BY <1>1, <1>5, <2>1 DEF Results, Statuses, Reasons, Judged
<1>6. CASE ~v.error /\ ctx \notin {"canceled", "deadline"} /\ p.exit # "failed" /\ v.ended /\ v.reason # "error"
  <2>1. u = [v EXCEPT !.status = "FINISHED"]
    BY <1>6 DEF VerdictOf
  <2> QED
    BY <1>1, <1>6, <2>1 DEF Results, Statuses, Reasons, Judged
<1> QED
  BY <1>2, <1>3, <1>4, <1>5, <1>6

\* cmd.Wait returns, which closes the pipes, and the result is made up.
LEMMA WaitedGood ==
    ASSUME NEW r, NEW p, NEW in, NEW out, NEW st, NEW ctx, NEW stop, NEW unw, NEW v,
           NEW st2,
           Good(r, p, in, out, st, ctx, stop, unw, v),
           st \in {"wait"},
           p.at \in {"none", "exited"},
           st2 = IF r \in Traced THEN "close" ELSE "report"
    PROVE  Good(r, p, <<>>, <<>>, st2, ctx, stop, unw, AfterOom(VerdictOf(v, ctx, p.exit), p.oom))
<1> DEFINE v2 == AfterOom(VerdictOf(v, ctx, p.exit), p.oom)
           u == VerdictOf(v, ctx, p.exit)
           empty == <<>>
<1>t. /\ p \in Programs /\ v \in Results /\ out \in Seq(Lines) /\ Len(out) <= PipeSize
      /\ StatsIn(out) \in Nat /\ v.stats \in Nat /\ v.rows \in Nat /\ p.wrote \in Nat /\ MaxStats \in Nat
  BY GoodTypes
<1>r. st \in Running /\ st \notin Waiting /\ st \notin Over /\ p.at # "none" /\ v.status = "FAILED"
  BY DEF Good, Placed, Caused, Running, Waiting, Over
<1>1. /\ u \in Results /\ u.stats = v.stats /\ u.rows = v.rows /\ u.ended = v.ended /\ (v.error => u.error)
      /\ \/ u.status = "CANCELED" /\ u.reason = "user_canceled" /\ ctx = "canceled"
         \/ u.status = "FAILED" /\ u.error /\ u.reason \in {"", "end", "error"}
         \/ u.status = "FAILED" /\ u.error /\ u.reason = "timeout" /\ ctx = "deadline"
         \/ u.status = "FINISHED" /\ u.reason = "end" /\ ~v.error /\ v.ended /\ p.exit # "failed" /\ ~u.error
  <2>1. u = VerdictOf(v, ctx, p.exit)
    OBVIOUS
  <2> HIDE DEF u, v2
  <2>2. Judged(v, ctx, p, u)
    BY <2>1, VerdictGood
  <2> QED
    BY <2>2 DEF Judged
<1>2. /\ v2 \in Results /\ v2.stats = v.stats /\ v2.rows = v.rows /\ v2.ended = v.ended /\ (v.error => v2.error)
      /\ \/ v2.status = "CANCELED" /\ v2.reason = "user_canceled" /\ ctx = "canceled"
         \/ v2.status = "FAILED" /\ v2.error /\ v2.reason \in {"", "end", "error"} /\ ~p.oom
         \/ v2.status = "FAILED" /\ v2.error /\ v2.reason = "timeout" /\ ctx = "deadline"
         \/ v2.status = "FAILED" /\ v2.error /\ v2.reason = "memory_limit_exceeded" /\ p.oom
         \/ v2.status = "FINISHED" /\ v2.reason = "end" /\ ~v.error /\ v.ended /\ p.exit # "failed" /\ ~p.oom
  <2>1. v2 = AfterOom(u, p.oom)
    OBVIOUS
  <2> HIDE DEF u, v2
  <2>2. CASE p.oom /\ u.status # "CANCELED" /\ u.reason # "timeout"
    <3>1. v2 = [u EXCEPT !.status = "FAILED", !.reason = "memory_limit_exceeded", !.error = TRUE]
      BY <2>1, <2>2 DEF AfterOom
    <3> QED
      BY <1>1, <2>2, <3>1 DEF Results, Statuses, Reasons
  <2>3. CASE ~(p.oom /\ u.status # "CANCELED" /\ u.reason # "timeout")
    <3>1. v2 = u
      BY <2>1, <2>3 DEF AfterOom
    <3> QED
      BY <1>1, <2>3, <3>1
  <2> QED
    BY <2>2, <2>3
<1>3. /\ empty \in Seq(Lines) /\ empty \in Seq(Commands) /\ Len(empty) <= PipeSize /\ StatsIn(empty) = 0
      /\ OnlyErrors(empty) /\ OnlyTorn(empty) /\ NoEnd(empty) /\ EndIsLast(empty)
  <2>1. empty \in Seq(Lines) /\ empty \in Seq(Commands) /\ Len(empty) <= PipeSize /\ DOMAIN empty = {}
    BY ProcessAssumption
  <2>2. StatsIn(empty) = 0
    BY <2>1, NoStats
  <2> QED
    BY <2>1, <2>2 DEF OnlyErrors, OnlyTorn, NoEnd, EndIsLast
<1>4. p.at = "exited" /\ st2 \in {"close", "report"} /\ (r \in Traced <=> st2 = "close")
  BY <1>r
<1>5. v.ended => StatsIn(out) = 0
  BY <1>t, TornIsNoStat DEF Good, InStep
<1>6. p.exit \in {"ok", "failed"} /\ (p.rejected => v.error \/ v.ended = FALSE)
  BY <1>t, <1>4 DEF Good, Placed, InStep, Programs
<1>7. p.rejected => v.error
  BY DEF Good, InStep
<1> HIDE DEF v2, u, empty
<1>p1. WellTyped(p, empty, empty, st2, ctx, unw, v2)
  BY <1>t, <1>r, <1>1, <1>2, <1>3, <1>4, <1>5, <1>6, <1>7 DEF Good, WellTyped, Stages
<1>p2. Placed(p, empty, empty, st2, unw, v2)
  BY <1>t, <1>r, <1>1, <1>2, <1>3, <1>4, <1>5, <1>6, <1>7 DEF Good, Placed, Waiting, Running, Stages
<1>p3. InStep(p, empty, empty, st2, v2)
  BY <1>t, <1>r, <1>1, <1>2, <1>3, <1>4, <1>5, <1>6, <1>7 DEF Good, InStep, Stages
<1>p4. Counted(r, p, empty, st2, v2)
  <2>1. v.stats + StatsIn(out) = p.wrote /\ StatsIn(out) \in Nat /\ v.rows <= v.stats
        /\ (r \in Traced /\ ~v.error => v.rows = v.stats)
    BY <1>t, <1>r DEF Good, Counted
  <2>2. v2.stats + StatsIn(empty) <= p.wrote
    <3>1. v2.stats = v.stats /\ StatsIn(empty) = 0
      BY <1>2, <1>3
    <3> QED
      BY <1>t, <2>1, <3>1
  <2>3. st2 \in Over
    BY <1>4 DEF Over
  <2>4. v2.rows <= v2.stats /\ (r \in Traced /\ ~v2.error => v2.rows = v2.stats)
    BY <1>2, <2>1
  <2> QED
    BY <2>2, <2>3, <2>4 DEF Counted
<1>p5. Complete(r, p, st2, v2)
  <2>1. SUFFICES ASSUME v2.status = "FINISHED" PROVE Complete(r, p, st2, v2)
    BY DEF Complete
  <2>2. v2.reason = "end" /\ ~v.error /\ v.ended /\ v2.ended /\ p.exit # "failed" /\ ~p.oom
        /\ v2.stats = v.stats /\ v2.rows = v.rows
    BY <1>2, <2>1
  <2>3. StatsIn(out) = 0 /\ v.stats + StatsIn(out) = p.wrote /\ (r \in Traced => v.rows = v.stats)
    BY <1>5, <1>r, <2>2 DEF Good, Counted
  <2>4. v.stats = p.wrote
    BY <1>t, <2>3
  <2> QED
    BY <1>4, <1>6, <1>7, <2>2, <2>3, <2>4 DEF Complete, Over
<1>p6. Caused(r, p, st2, ctx, stop, v2)
  BY <1>t, <1>r, <1>1, <1>2, <1>3, <1>4, <1>5, <1>6, <1>7 DEF Good, Caused, Placed, Running, Over, Stages
<1> QED
  BY <1>p1, <1>p2, <1>p3, <1>p4, <1>p5, <1>p6 DEF Good, v2, u, empty

\* The metrics file is stored.
LEMMA StoredGood ==
    ASSUME NEW r, NEW p, NEW in, NEW out, NEW st, NEW ctx, NEW stop, NEW unw, NEW v,
           Good(r, p, in, out, st, ctx, stop, unw, v),
           st = "close"
    PROVE  Good(r, p, in, out, "report", ctx, stop, unw, [v EXCEPT !.stored = TRUE])
<1> DEFINE v2 == [v EXCEPT !.stored = TRUE]
<1>t. /\ p \in Programs /\ v \in Results /\ out \in Seq(Lines) /\ Len(out) <= PipeSize
      /\ StatsIn(out) \in Nat /\ v.stats \in Nat /\ v.rows \in Nat /\ p.wrote \in Nat /\ MaxStats \in Nat
  BY GoodTypes
<1>o. st \notin Running /\ st \notin Waiting /\ st \in Over
  BY DEF Running, Waiting, Over
<1>1. /\ v2 \in Results
      /\ v2.status = v.status /\ v2.reason = v.reason /\ v2.error = v.error /\ v2.stats = v.stats
      /\ v2.rows = v.rows /\ v2.ended = v.ended /\ v2.stored = TRUE
  BY <1>t DEF Results, Statuses, Reasons
<1> HIDE DEF v2
<1>p1. WellTyped(p, in, out, "report", ctx, unw, v2)
  BY <1>t, <1>o, <1>1 DEF Good, WellTyped, Stages
<1>p2. Placed(p, in, out, "report", unw, v2)
  BY <1>t, <1>o, <1>1 DEF Good, Placed, Waiting, Running, Stages
<1>p3. InStep(p, in, out, "report", v2)
  BY <1>t, <1>o, <1>1 DEF Good, InStep, Stages
<1>p4. Counted(r, p, out, "report", v2)
  BY <1>t, <1>o, <1>1 DEF Good, Counted, Placed, Over, Running, Stages
<1>p5. Complete(r, p, "report", v2)
  BY <1>t, <1>o, <1>1 DEF Good, Complete, Placed, Running, Over, Stages
<1>p6. Caused(r, p, "report", ctx, stop, v2)
  BY <1>t, <1>o, <1>1 DEF Good, Caused, Placed, Running, Over, Stages
<1> QED
  BY <1>p1, <1>p2, <1>p3, <1>p4, <1>p5, <1>p6 DEF Good, v2

\* The metrics file is not stored.
LEMMA NotStoredGood ==
    ASSUME NEW r, NEW p, NEW in, NEW out, NEW st, NEW ctx, NEW stop, NEW unw, NEW v,
           Good(r, p, in, out, st, ctx, stop, unw, v),
           st = "close"
    PROVE  Good(r, p, in, out, "report", ctx, stop, unw, AppendResultError(v))
<1> DEFINE v2 == AppendResultError(v)
<1>t. /\ p \in Programs /\ v \in Results /\ out \in Seq(Lines) /\ Len(out) <= PipeSize
      /\ StatsIn(out) \in Nat /\ v.stats \in Nat /\ v.rows \in Nat /\ p.wrote \in Nat /\ MaxStats \in Nat
  BY GoodTypes
<1>o. st \notin Running /\ st \notin Waiting /\ st \in Over
  BY DEF Running, Waiting, Over
<1>1. /\ v2 \in Results /\ v2.status = (IF v.status = "CANCELED" THEN "CANCELED" ELSE "FAILED")
      /\ v2.reason = v.reason /\ v2.error = TRUE /\ v2.stats = v.stats /\ v2.rows = v.rows
      /\ v2.ended = v.ended /\ v2.stored = v.stored
  BY <1>t DEF AppendResultError, Results, Statuses
<1> HIDE DEF v2
<1>p1. WellTyped(p, in, out, "report", ctx, unw, v2)
  BY <1>t, <1>o, <1>1 DEF Good, WellTyped, Stages
<1>p2. Placed(p, in, out, "report", unw, v2)
  BY <1>t, <1>o, <1>1 DEF Good, Placed, Waiting, Running, Stages
<1>p3. InStep(p, in, out, "report", v2)
  BY <1>t, <1>o, <1>1 DEF Good, InStep, Stages
<1>p4. Counted(r, p, out, "report", v2)
  BY <1>t, <1>o, <1>1 DEF Good, Counted, Placed, Over, Running, Stages
<1>p5. Complete(r, p, "report", v2)
  BY <1>t, <1>o, <1>1 DEF Good, Complete, Placed, Running, Over, Stages
<1>p6. Caused(r, p, "report", ctx, stop, v2)
  BY <1>t, <1>o, <1>1 DEF Good, Caused, Placed, Running, Over, Stages
<1> QED
  BY <1>p1, <1>p2, <1>p3, <1>p4, <1>p5, <1>p6 DEF Good, v2

\* The result is final: a stop overrides every outcome but FINISHED.
LEMMA ReportedGood ==
    ASSUME NEW r, NEW p, NEW in, NEW out, NEW st, NEW ctx, NEW stop, NEW unw, NEW v,
           NEW v2,
           Good(r, p, in, out, st, ctx, stop, unw, v),
           st = "report",
           v2 = IF r \in stop /\ v.status # "FINISHED"
                THEN [v EXCEPT !.status = "CANCELED", !.reason = "user_canceled"] ELSE v
    PROVE  Good(r, p, in, out, "done", ctx, stop, unw, v2)
<1>t. /\ p \in Programs /\ v \in Results /\ out \in Seq(Lines) /\ Len(out) <= PipeSize
      /\ StatsIn(out) \in Nat /\ v.stats \in Nat /\ v.rows \in Nat /\ p.wrote \in Nat /\ MaxStats \in Nat
  BY GoodTypes
<1>o. st \notin Running /\ st \notin Waiting /\ st \in Over
  BY DEF Running, Waiting, Over
<1>1. /\ v2 \in Results /\ v2.error = v.error /\ v2.stats = v.stats /\ v2.rows = v.rows
      /\ v2.ended = v.ended /\ v2.stored = v.stored
      /\ \/ r \in stop /\ v2.status = "CANCELED" /\ v2.reason = "user_canceled"
         \/ v2 = v /\ (r \in stop => v.status = "FINISHED")
  <2>1. CASE r \in stop /\ v.status # "FINISHED"
    <3>1. v2 = [v EXCEPT !.status = "CANCELED", !.reason = "user_canceled"]
      BY <2>1
    <3> QED
      BY <1>t, <2>1, <3>1 DEF Results, Statuses, Reasons
  <2>2. CASE ~(r \in stop /\ v.status # "FINISHED")
    <3>1. v2 = v
      BY <2>2
    <3> QED
      BY <1>t, <2>2, <3>1
  <2> QED
    BY <2>1, <2>2
<1>p1. WellTyped(p, in, out, "done", ctx, unw, v2)
  BY <1>t, <1>o, <1>1 DEF Good, WellTyped, Stages
<1>p2. Placed(p, in, out, "done", unw, v2)
  BY <1>t, <1>o, <1>1 DEF Good, Placed, Waiting, Running, Stages
<1>p3. InStep(p, in, out, "done", v2)
  BY <1>t, <1>o, <1>1 DEF Good, InStep, Stages
<1>p4. Counted(r, p, out, "done", v2)
  BY <1>t, <1>o, <1>1 DEF Good, Counted, Placed, Over, Running, Stages
<1>p5. Complete(r, p, "done", v2)
  BY <1>t, <1>o, <1>1 DEF Good, Complete, Placed, Running, Over, Stages
<1>p6. Caused(r, p, "done", ctx, stop, v2)
  BY <1>t, <1>o, <1>1 DEF Good, Caused, Placed, Running, Over, Stages
<1> QED
  BY <1>p1, <1>p2, <1>p3, <1>p4, <1>p5, <1>p6 DEF Good

\* A stop arrives for the run.
LEMMA StopGood ==
    ASSUME NEW r, NEW p, NEW in, NEW out, NEW st, NEW ctx, NEW stop, NEW unw, NEW v,
           NEW ctx2, NEW stop2,
           Good(r, p, in, out, st, ctx, stop, unw, v),
           st # "done",
           stop2 = stop \cup {r},
           ctx2 = IF ctx = "live" THEN "canceled" ELSE ctx
    PROVE  Good(r, p, in, out, st, ctx2, stop2, unw, v)
<1>t. /\ p \in Programs /\ v \in Results /\ out \in Seq(Lines) /\ Len(out) <= PipeSize
      /\ StatsIn(out) \in Nat /\ v.stats \in Nat /\ v.rows \in Nat /\ p.wrote \in Nat /\ MaxStats \in Nat
  BY GoodTypes
<1>p1. WellTyped(p, in, out, st, ctx2, unw, v)
  BY <1>t DEF Good, WellTyped, Contexts
<1>p2. Placed(p, in, out, st, unw, v)
  BY <1>t DEF Good, Placed, Waiting, Running, Contexts
<1>p3. InStep(p, in, out, st, v)
  BY <1>t DEF Good, InStep, Contexts
<1>p4. Counted(r, p, out, st, v)
  BY <1>t DEF Good, Counted, Placed, Over, Running, Contexts
<1>p5. Complete(r, p, st, v)
  BY <1>t DEF Good, Complete, Placed, Running, Over, Contexts
<1>p6. Caused(r, p, st, ctx2, stop2, v)
  BY <1>t DEF Good, Caused, Placed, Running, Over, Contexts
<1> QED
  BY <1>p1, <1>p2, <1>p3, <1>p4, <1>p5, <1>p6 DEF Good

\* The run timeout fires.
LEMMA TimeoutGood ==
    ASSUME NEW r, NEW p, NEW in, NEW out, NEW st, NEW ctx, NEW stop, NEW unw, NEW v,
           Good(r, p, in, out, st, ctx, stop, unw, v),
           st # "done",
           ctx = "live"
    PROVE  Good(r, p, in, out, st, "deadline", stop, unw, v)
<1>t. /\ p \in Programs /\ v \in Results /\ out \in Seq(Lines) /\ Len(out) <= PipeSize
      /\ StatsIn(out) \in Nat /\ v.stats \in Nat /\ v.rows \in Nat /\ p.wrote \in Nat /\ MaxStats \in Nat
  BY GoodTypes
<1>p1. WellTyped(p, in, out, st, "deadline", unw, v)
  BY <1>t DEF Good, WellTyped, Contexts
<1>p2. Placed(p, in, out, st, unw, v)
  BY <1>t DEF Good, Placed, Waiting, Running, Contexts
<1>p3. InStep(p, in, out, st, v)
  BY <1>t DEF Good, InStep, Contexts
<1>p4. Counted(r, p, out, st, v)
  BY <1>t DEF Good, Counted, Placed, Over, Running, Contexts
<1>p5. Complete(r, p, st, v)
  BY <1>t DEF Good, Complete, Placed, Running, Over, Contexts
<1>p6. Caused(r, p, st, "deadline", stop, v)
  BY <1>t DEF Good, Caused, Placed, Running, Over, Contexts
<1> QED
  BY <1>p1, <1>p2, <1>p3, <1>p4, <1>p5, <1>p6 DEF Good

-----------------------------------------------------------------------------
(* A step of one run, or around it, keeps the invariant. *)

\* Run r, and no other, has new values.
Moved(r, p2, in2, out2, st2, ctx2, unw2, v2) ==
    /\ process' = [process EXCEPT ![r] = p2]
    /\ stdin' = [stdin EXCEPT ![r] = in2] /\ stdout' = [stdout EXCEPT ![r] = out2]
    /\ stage' = [stage EXCEPT ![r] = st2] /\ context' = [context EXCEPT ![r] = ctx2]
    /\ unwritten' = [unwritten EXCEPT ![r] = unw2] /\ result' = [result EXCEPT ![r] = v2]

\* What is not assigned keeps its value.
Same(r) ==
    /\ process = [process EXCEPT ![r] = process[r]]
    /\ stdin = [stdin EXCEPT ![r] = stdin[r]] /\ stdout = [stdout EXCEPT ![r] = stdout[r]]
    /\ stage = [stage EXCEPT ![r] = stage[r]] /\ context = [context EXCEPT ![r] = context[r]]
    /\ unwritten = [unwritten EXCEPT ![r] = unwritten[r]] /\ result = [result EXCEPT ![r] = result[r]]

\* So a function that is not assigned has one value replaced by itself.
LEMMA Unmoved ==
    ASSUME Shapes, NEW r \in Runs
    PROVE  Same(r)
  BY DEF Shapes, Same

\* A stop of another run is none of a run's business.
LEMMA StopOfAnother ==
    ASSUME NEW r, NEW p, NEW in, NEW out, NEW st, NEW ctx, NEW stop, NEW unw, NEW v,
           Good(r, p, in, out, st, ctx, stop, unw, v),
           NEW stop2, r \in stop2 <=> r \in stop
    PROVE  Good(r, p, in, out, st, ctx, stop2, unw, v)
<1>1. Caused(r, p, st, ctx, stop2, v)
  BY DEF Good, Caused
<1> QED
  BY <1>1 DEF Good

\* If the new values of the one run that moves are good, all runs are good:
\* the invariant of a run mentions no other.
LEMMA OneRunMoves ==
    ASSUME Shapes, RunsAreGood, NEW r \in Runs, stopped' = stopped \/ stopped' = stopped \cup {r},
           faults' \in 0..MaxFaults,
           NEW p2, NEW in2, NEW out2, NEW st2, NEW ctx2, NEW unw2, NEW v2,
           Moved(r, p2, in2, out2, st2, ctx2, unw2, v2),
           Good(r, p2, in2, out2, st2, ctx2, stopped', unw2, v2)
    PROVE  Shapes' /\ RunsAreGood'
<1>1. /\ p2 \in Programs /\ in2 \in Seq(Commands) /\ out2 \in Seq(Lines)
      /\ st2 \in Stages /\ ctx2 \in Contexts /\ unw2 \in Seq(Commands \cup Setting) /\ v2 \in Results
  BY DEF Good, WellTyped
<1>2. Shapes'
  BY <1>1 DEF Moved, Shapes
<1>3. ASSUME NEW q \in Runs
      PROVE  Good(q, process[q], stdin[q], stdout[q], stage[q], context[q], stopped, unwritten[q], result[q])'
  <2>1. CASE q = r
    <3>1. /\ process'[q] = p2 /\ stdin'[q] = in2 /\ stdout'[q] = out2 /\ stage'[q] = st2
          /\ context'[q] = ctx2 /\ unwritten'[q] = unw2 /\ result'[q] = v2
      BY <2>1 DEF Moved, Shapes
    <3> QED
      BY <2>1, <3>1
  <2>2. CASE q # r
    <3>1. /\ process'[q] = process[q] /\ stdin'[q] = stdin[q] /\ stdout'[q] = stdout[q]
          /\ stage'[q] = stage[q] /\ context'[q] = context[q] /\ unwritten'[q] = unwritten[q]
          /\ result'[q] = result[q]
      BY <2>2 DEF Moved, Shapes
    <3>2. q \in stopped' <=> q \in stopped
      BY <2>2
    <3>3. Good(q, process[q], stdin[q], stdout[q], stage[q], context[q], stopped, unwritten[q], result[q])
      BY DEF RunsAreGood
    <3>4. Good(q, process[q], stdin[q], stdout[q], stage[q], context[q], stopped', unwritten[q], result[q])
      BY <3>2, <3>3, StopOfAnother
    <3> QED
      BY <3>1, <3>4
  <2> QED
    BY <2>1, <2>2
<1>4. RunsAreGood'
  BY <1>3 DEF RunsAreGood
<1> QED
  BY <1>2, <1>4

\* Once a run is through the cache, what it asked for remains asked for.
LEMMA StaysAskedFor ==
    ASSUME Shapes, NEW r \in Runs, asked' = asked,
           NEW st2, stage' = [stage EXCEPT ![r] = st2],
           st2 \in {"queued", "lookup"} => stage[r] \in {"queued", "lookup"},
           NEW digest, AskedFor(digest, asked, stage)
    PROVE  AskedFor(digest, asked, stage')
<1>1. PICK q \in Runs : asked[q] \in {NoDigest, digest} /\ stage[q] \notin {"queued", "lookup"}
  BY DEF AskedFor
<1>2. stage'[q] \notin {"queued", "lookup"}
  BY <1>1 DEF Shapes
<1> QED
  BY <1>1, <1>2 DEF AskedFor

\* A step that neither downloads nor starts a program keeps what is said of
\* the cache.
LEMMA CacheUntouched ==
    ASSUME Shapes, CacheIsGood, NEW r \in Runs, UNCHANGED <<asked, object, cache, holder, binary>>,
           NEW p2, NEW st2, process' = [process EXCEPT ![r] = p2], stage' = [stage EXCEPT ![r] = st2],
           (p2.at = "none") <=> (process[r].at = "none"),
           st2 \in {"queued", "lookup"} => stage[r] \in {"queued", "lookup"},
           st2 \in {"fetch", "chmod"} <=> stage[r] \in {"fetch", "chmod"},
           st2 \in {"chmod", "handed"} => stage[r] \in {"chmod", "handed"} \/ cache.file # NoDigest
    PROVE  CacheIsGood'
<1>1. \A digest : AskedFor(digest, asked, stage) => AskedFor(digest, asked, stage')
  BY StaysAskedFor
<1>2. cache.file # NoDigest => AskedFor(cache.file, asked, stage')
  BY <1>1 DEF CacheIsGood
<1>3. ASSUME NEW q \in Runs
      PROVE  /\ (holder' = q) <=> stage'[q] \in {"fetch", "chmod"}
             /\ stage'[q] \in {"chmod", "handed"} => cache.file # NoDigest
             /\ (process'[q].at = "none") <=> (binary[q] = NoDigest)
             /\ binary[q] # NoDigest => AskedFor(binary[q], asked, stage')
  <2>1. stage'[q] = IF q = r THEN st2 ELSE stage[q]
    BY DEF Shapes
  <2>2. process'[q] = IF q = r THEN p2 ELSE process[q]
    BY DEF Shapes
  <2>3. binary[q] # NoDigest => AskedFor(binary[q], asked, stage')
    BY <1>1 DEF CacheIsGood
  <2> QED
    BY <2>1, <2>2, <2>3 DEF CacheIsGood
<1> QED
  BY <1>2, <1>3 DEF CacheIsGood

\* A fault is within the bound.
LEMMA FaultCounts ==
    ASSUME Shapes, NEW kind, Fault(kind)
    PROVE  faults' \in 0..MaxFaults
<1>1. faults \in 0..MaxFaults /\ faults < MaxFaults /\ faults' = faults + 1 /\ MaxFaults \in Nat
  BY RunnerAssumption DEF Shapes, Fault
<1> QED
  BY <1>1

\* The worker takes the task.
LEMMA TakeKeeps ==
    ASSUME IInv, NEW r \in Runs, Take(r)
    PROVE  IInv'
<1> DEFINE st2 == IF \E i \in DOMAIN unwritten[r] : unwritten[r][i] = "malformed" THEN "report" ELSE "lookup"
           v2 == IF \E i \in DOMAIN unwritten[r] : unwritten[r][i] = "malformed" THEN [result[r] EXCEPT !.error = TRUE] ELSE result[r]
<1>i. Shapes /\ RunsAreGood /\ CacheIsGood
  BY DEF IInv
<1>g. Good(r, process[r], stdin[r], stdout[r], stage[r], context[r], stopped, unwritten[r], result[r])
  BY <1>i DEF RunsAreGood
<1>u. Same(r)
  BY <1>i, Unmoved
<1>1. Moved(r, process[r], stdin[r], stdout[r], st2, context[r], unwritten[r], v2)
  BY <1>u DEF Take, Moved, Same, pipes, shared, runnerVars, Goto
<1>2. Good(r, process[r], stdin[r], stdout[r], st2, context[r], stopped, unwritten[r], v2)
  <2>1. stage[r] \in {"queued"} /\ stage[r] \in Waiting
    BY DEF Take, Waiting
  <2> QED
    BY <1>g, <2>1, AcceptedGood, StartFailsGood
<1>3. stopped' = stopped /\ faults' \in 0..MaxFaults
  BY <1>i DEF Shapes, Take, pipes, shared, runnerVars, Goto
<1>4. Shapes' /\ RunsAreGood'
  BY <1>i, <1>1, <1>2, <1>3, OneRunMoves
<1>5. CacheIsGood'
  <2>1. UNCHANGED <<asked, object, cache, holder, binary>>
    BY DEF Take, pipes, shared, runnerVars, Goto
  <2>2. process' = [process EXCEPT ![r] = process[r]] /\ stage' = [stage EXCEPT ![r] = st2]
    BY <1>1 DEF Moved
  <2>3. /\ (process[r].at = "none") <=> (process[r].at = "none")
        /\ st2 \in {"queued", "lookup"} => stage[r] \in {"queued", "lookup"}
        /\ st2 \in {"fetch", "chmod"} <=> stage[r] \in {"fetch", "chmod"}
        /\ st2 \in {"chmod", "handed"} => stage[r] \in {"chmod", "handed"} \/ cache.file # NoDigest
    BY <1>i, <1>g DEF Take, Good, WellTyped, Programs
  <2> QED
    BY <1>i, <2>1, <2>2, <2>3, CacheUntouched
<1> QED
  BY <1>4, <1>5 DEF IInv

\* The binary is in the cache.
LEMMA HitKeeps ==
    ASSUME IInv, NEW r \in Runs, CacheHit(r)
    PROVE  IInv'
<1>i. Shapes /\ RunsAreGood /\ CacheIsGood
  BY DEF IInv
<1>g. Good(r, process[r], stdin[r], stdout[r], stage[r], context[r], stopped, unwritten[r], result[r])
  BY <1>i DEF RunsAreGood
<1>u. Same(r)
  BY <1>i, Unmoved
<1>1. Moved(r, process[r], stdin[r], stdout[r], "handed", context[r], unwritten[r], result[r])
  BY <1>u DEF CacheHit, Hit, Moved, Same, pipes, shared, runnerVars, Goto
<1>2. Good(r, process[r], stdin[r], stdout[r], "handed", context[r], stopped, unwritten[r], result[r])
  <2>1. stage[r] \in Waiting \ {"queued"}
    BY DEF CacheHit, Waiting
  <2> QED
    BY <1>g, <2>1, MovesOnGood
<1>3. stopped' = stopped /\ faults' \in 0..MaxFaults
  BY <1>i DEF Shapes, CacheHit, Hit, pipes, shared, runnerVars, Goto
<1>4. Shapes' /\ RunsAreGood'
  BY <1>i, <1>1, <1>2, <1>3, OneRunMoves
<1>5. CacheIsGood'
  <2>1. UNCHANGED <<asked, object, cache, holder, binary>>
    BY DEF CacheHit, Hit, pipes, shared, runnerVars, Goto
  <2>2. process' = [process EXCEPT ![r] = process[r]] /\ stage' = [stage EXCEPT ![r] = "handed"]
    BY <1>1 DEF Moved
  <2>3. /\ (process[r].at = "none") <=> (process[r].at = "none")
        /\ "handed" \in {"queued", "lookup"} => stage[r] \in {"queued", "lookup"}
        /\ "handed" \in {"fetch", "chmod"} <=> stage[r] \in {"fetch", "chmod"}
        /\ "handed" \in {"chmod", "handed"} => stage[r] \in {"chmod", "handed"} \/ cache.file # NoDigest
    BY <1>i, <1>g DEF CacheHit, Hit, Good, WellTyped, Programs
  <2> QED
    BY <1>i, <2>1, <2>2, <2>3, CacheUntouched
<1> QED
  BY <1>4, <1>5 DEF IInv

\* The binary is not in the cache: the worker locks it to download.
LEMMA MissKeeps ==
    ASSUME IInv, NEW r \in Runs, CacheMiss(r)
    PROVE  IInv'
<1>i. Shapes /\ RunsAreGood /\ CacheIsGood
  BY DEF IInv
<1>g. Good(r, process[r], stdin[r], stdout[r], stage[r], context[r], stopped, unwritten[r], result[r])
  BY <1>i DEF RunsAreGood
<1>u. Same(r)
  BY <1>i, Unmoved
<1>1. Moved(r, process[r], stdin[r], stdout[r], "fetch", context[r], unwritten[r], result[r])
  BY <1>u DEF CacheMiss, Moved, Same, pipes, shared, runnerVars, Goto
<1>2. Good(r, process[r], stdin[r], stdout[r], "fetch", context[r], stopped, unwritten[r], result[r])
  <2>1. stage[r] \in Waiting \ {"queued"}
    BY DEF CacheMiss, Waiting
  <2> QED
    BY <1>g, <2>1, MovesOnGood
<1>3. stopped' = stopped /\ faults' \in 0..MaxFaults
  BY <1>i DEF Shapes, CacheMiss, pipes, shared, runnerVars, Goto
<1>4. Shapes' /\ RunsAreGood'
  BY <1>i, <1>1, <1>2, <1>3, OneRunMoves
<1>5. CacheIsGood'
  <2>1. /\ stage[r] = "lookup" /\ holder = NoRun /\ holder' = r
        /\ UNCHANGED <<asked, object, cache, binary, process>> /\ stage' = [stage EXCEPT ![r] = "fetch"]
    BY DEF CacheMiss, Goto, pipes
  <2>2. \A digest : AskedFor(digest, asked, stage) => AskedFor(digest, asked, stage')
    BY <1>i, <2>1, StaysAskedFor
  <2>3. cache.file # NoDigest => AskedFor(cache.file, asked, stage')
    BY <1>i, <2>2 DEF CacheIsGood
  <2>4. ASSUME NEW q \in Runs
        PROVE  /\ (holder' = q) <=> stage'[q] \in {"fetch", "chmod"}
               /\ stage'[q] \in {"chmod", "handed"} => cache.file # NoDigest
               /\ (process[q].at = "none") <=> (binary[q] = NoDigest)
               /\ binary[q] # NoDigest => AskedFor(binary[q], asked, stage')
    <3>1. stage'[q] = IF q = r THEN "fetch" ELSE stage[q]
      BY <1>i, <2>1 DEF Shapes
    <3>2. stage[q] \notin {"fetch", "chmod"}
      BY <1>i, <2>1, RunnerAssumption DEF CacheIsGood
    <3>3. binary[q] # NoDigest => AskedFor(binary[q], asked, stage')
      BY <1>i, <2>2 DEF CacheIsGood
    <3> QED
      BY <1>i, <2>1, <3>1, <3>2, <3>3 DEF CacheIsGood
  <2> QED
    BY <1>i, <2>1, <2>3, <2>4 DEF CacheIsGood
<1> QED
  BY <1>4, <1>5 DEF IInv

\* The download matches what the run asked for, and is the new file and entry.
LEMMA FetchedKeeps ==
    ASSUME IInv, NEW r \in Runs, Fetched(r)
    PROVE  IInv'
<1>i. Shapes /\ RunsAreGood /\ CacheIsGood
  BY DEF IInv
<1>g. Good(r, process[r], stdin[r], stdout[r], stage[r], context[r], stopped, unwritten[r], result[r])
  BY <1>i DEF RunsAreGood
<1>u. Same(r)
  BY <1>i, Unmoved
<1>1. Moved(r, process[r], stdin[r], stdout[r], "chmod", context[r], unwritten[r], result[r])
  BY <1>u DEF Fetched, Moved, Same, pipes, shared, runnerVars, Goto
<1>2. Good(r, process[r], stdin[r], stdout[r], "chmod", context[r], stopped, unwritten[r], result[r])
  <2>1. stage[r] \in Waiting \ {"queued"}
    BY DEF Fetched, Waiting
  <2> QED
    BY <1>g, <2>1, MovesOnGood
<1>3. stopped' = stopped /\ faults' \in 0..MaxFaults
  BY <1>i DEF Shapes, Fetched, pipes, shared, runnerVars, Goto
<1>4. Shapes' /\ RunsAreGood'
  BY <1>i, <1>1, <1>2, <1>3, OneRunMoves
<1>5. CacheIsGood'
  <2>1. /\ stage[r] = "fetch" /\ asked[r] \in {NoDigest, object} /\ stage' = [stage EXCEPT ![r] = "chmod"]
        /\ UNCHANGED <<asked, object, holder, binary, process>>
        /\ cache' = [entry |-> object, file |-> object, executable |-> FALSE]
    BY DEF Fetched, Matches, Downloaded, Goto, pipes
  <2>2. \A digest : AskedFor(digest, asked, stage) => AskedFor(digest, asked, stage')
    BY <1>i, <2>1, StaysAskedFor
  <2>3. stage'[r] = "chmod"
    BY <1>i, <2>1 DEF Shapes
  <2>4. AskedFor(object, asked, stage')
    BY <2>1, <2>3 DEF AskedFor
  <2>5. cache' \in Caches /\ cache'.entry = object /\ cache'.file = object /\ object # NoDigest
    BY <1>i, <2>1, CacheAssumption DEF CacheIsGood, Caches
  <2>6. ASSUME NEW q \in Runs
        PROVE  /\ (holder = q) <=> stage'[q] \in {"fetch", "chmod"}
               /\ (process[q].at = "none") <=> (binary[q] = NoDigest)
               /\ binary[q] # NoDigest => AskedFor(binary[q], asked, stage')
    <3>1. stage'[q] = IF q = r THEN "chmod" ELSE stage[q]
      BY <1>i, <2>1 DEF Shapes
    <3>2. binary[q] # NoDigest => AskedFor(binary[q], asked, stage')
      BY <1>i, <2>2 DEF CacheIsGood
    <3> QED
      BY <1>i, <2>1, <3>1, <3>2 DEF CacheIsGood
  <2>7. AskedFor(cache'.file, asked, stage')
    BY <2>4, <2>5
  <2> QED
    BY <1>i, <2>1, <2>5, <2>6, <2>7 DEF CacheIsGood
<1> QED
  BY <1>4, <1>5 DEF IInv

\* The binary cannot be had: the worker unlocks the cache and reports.
LEMMA NotPreparedKeeps ==
    ASSUME IInv, NEW r \in Runs, NotPrepared(r), stage[r] \in {"fetch", "chmod"}, faults' \in 0..MaxFaults
    PROVE  IInv'
<1> DEFINE v2 == PrepareVerdictOf(context[r])
<1>i. Shapes /\ RunsAreGood /\ CacheIsGood
  BY DEF IInv
<1>g. Good(r, process[r], stdin[r], stdout[r], stage[r], context[r], stopped, unwritten[r], result[r])
  BY <1>i DEF RunsAreGood
<1>u. Same(r)
  BY <1>i, Unmoved
<1>1. Moved(r, process[r], stdin[r], stdout[r], "report", context[r], unwritten[r], v2)
  BY <1>u DEF NotPrepared, PrepareVerdict, PrepareVerdictOf, Unlock, Moved, Same, pipes, shared, runnerVars, Goto
<1>2. Good(r, process[r], stdin[r], stdout[r], "report", context[r], stopped, unwritten[r], v2)
  <2>1. stage[r] \in Waiting
    BY DEF Waiting
  <2> QED
    BY <1>g, <2>1, PrepareFailsGood
<1>3. stopped' = stopped /\ faults' \in 0..MaxFaults
  BY <1>i DEF Shapes, NotPrepared, PrepareVerdict, PrepareVerdictOf, Unlock, pipes, shared, runnerVars, Goto
<1>4. Shapes' /\ RunsAreGood'
  BY <1>i, <1>1, <1>2, <1>3, OneRunMoves
<1>5. CacheIsGood'
  <2>1. /\ holder' = NoRun /\ stage' = [stage EXCEPT ![r] = "report"] /\ stage[r] \in {"fetch", "chmod"}
        /\ UNCHANGED <<asked, object, binary, process>>
    BY DEF NotPrepared, Unlock, Goto, pipes
  <2>2. \A digest : AskedFor(digest, asked, stage) => AskedFor(digest, asked, stage')
    BY <1>i, <2>1, StaysAskedFor
  <2>3. holder = r /\ (stage[r] = "chmod" => cache.file # NoDigest)
    BY <1>i, <2>1 DEF CacheIsGood
  <2>4. /\ cache' \in Caches /\ cache'.entry = cache.entry /\ cache'.file = cache.file
        /\ cache.file # NoDigest => AskedFor(cache.file, asked, stage')
    <3>1. cache' = cache
      BY DEF NotPrepared
    <3> QED
      BY <1>i, <2>2, <3>1 DEF CacheIsGood
  <2>5. ASSUME NEW q \in Runs
        PROVE  /\ (holder' = q) <=> stage'[q] \in {"fetch", "chmod"}
               /\ stage'[q] \in {"chmod", "handed"} => cache.file # NoDigest
               /\ (process[q].at = "none") <=> (binary[q] = NoDigest)
               /\ binary[q] # NoDigest => AskedFor(binary[q], asked, stage')
    <3>1. stage'[q] = IF q = r THEN "report" ELSE stage[q]
      BY <1>i, <2>1 DEF Shapes
    <3>2. binary[q] # NoDigest => AskedFor(binary[q], asked, stage')
      BY <1>i, <2>2 DEF CacheIsGood
    <3>3. q # r => stage[q] \notin {"fetch", "chmod"}
      BY <1>i, <2>3 DEF CacheIsGood
    <3>4. NoRun # q
      BY RunnerAssumption
    <3>5. /\ stage[q] \in {"chmod", "handed"} => cache.file # NoDigest
          /\ (process[q].at = "none") <=> (binary[q] = NoDigest)
      BY <1>i DEF CacheIsGood
    <3> QED
      BY <2>1, <2>3, <3>1, <3>2, <3>3, <3>4, <3>5
  <2>6. cache'.file # NoDigest => AskedFor(cache'.file, asked, stage')
    BY <2>4
  <2> QED
    BY <1>i, <2>1, <2>4, <2>5, <2>6 DEF CacheIsGood
<1> QED
  BY <1>4, <1>5 DEF IInv

\* The file is made executable, and the cache is unlocked.
LEMMA ExecutableKeeps ==
    ASSUME IInv, NEW r \in Runs, MakeExecutable(r)
    PROVE  IInv'
<1>i. Shapes /\ RunsAreGood /\ CacheIsGood
  BY DEF IInv
<1>g. Good(r, process[r], stdin[r], stdout[r], stage[r], context[r], stopped, unwritten[r], result[r])
  BY <1>i DEF RunsAreGood
<1>u. Same(r)
  BY <1>i, Unmoved
<1>1. Moved(r, process[r], stdin[r], stdout[r], "handed", context[r], unwritten[r], result[r])
  BY <1>u DEF MakeExecutable, Moved, Same, pipes, shared, runnerVars, Goto
<1>2. Good(r, process[r], stdin[r], stdout[r], "handed", context[r], stopped, unwritten[r], result[r])
  <2>1. stage[r] \in Waiting \ {"queued"}
    BY DEF MakeExecutable, Waiting
  <2> QED
    BY <1>g, <2>1, MovesOnGood
<1>3. stopped' = stopped /\ faults' \in 0..MaxFaults
  BY <1>i DEF Shapes, MakeExecutable, pipes, shared, runnerVars, Goto
<1>4. Shapes' /\ RunsAreGood'
  BY <1>i, <1>1, <1>2, <1>3, OneRunMoves
<1>5. CacheIsGood'
  <2>1. /\ holder' = NoRun /\ stage' = [stage EXCEPT ![r] = "handed"] /\ stage[r] \in {"fetch", "chmod"}
        /\ UNCHANGED <<asked, object, binary, process>>
    BY DEF MakeExecutable, Goto, pipes
  <2>2. \A digest : AskedFor(digest, asked, stage) => AskedFor(digest, asked, stage')
    BY <1>i, <2>1, StaysAskedFor
  <2>3. holder = r /\ (stage[r] = "chmod" => cache.file # NoDigest)
    BY <1>i, <2>1 DEF CacheIsGood
  <2>c. cache.file # NoDigest
    BY <2>3 DEF MakeExecutable
  <2>4. /\ cache' \in Caches /\ cache'.entry = cache.entry /\ cache'.file = cache.file
        /\ cache.file # NoDigest => AskedFor(cache.file, asked, stage')
    <3>1. cache' = [cache EXCEPT !.executable = TRUE] /\ cache \in Caches
      BY <1>i DEF MakeExecutable, MadeExecutable, CacheIsGood
    <3>2. cache' \in Caches /\ cache'.entry = cache.entry /\ cache'.file = cache.file
      BY <3>1 DEF Caches
    <3> QED
      BY <1>i, <2>2, <3>2 DEF CacheIsGood
  <2>5. ASSUME NEW q \in Runs
        PROVE  /\ (holder' = q) <=> stage'[q] \in {"fetch", "chmod"}
               /\ stage'[q] \in {"chmod", "handed"} => cache.file # NoDigest
               /\ (process[q].at = "none") <=> (binary[q] = NoDigest)
               /\ binary[q] # NoDigest => AskedFor(binary[q], asked, stage')
    <3>1. stage'[q] = IF q = r THEN "handed" ELSE stage[q]
      BY <1>i, <2>1 DEF Shapes
    <3>2. binary[q] # NoDigest => AskedFor(binary[q], asked, stage')
      BY <1>i, <2>2 DEF CacheIsGood
    <3>3. q # r => stage[q] \notin {"fetch", "chmod"}
      BY <1>i, <2>3 DEF CacheIsGood
    <3>4. NoRun # q
      BY RunnerAssumption
    <3>5. /\ stage[q] \in {"chmod", "handed"} => cache.file # NoDigest
          /\ (process[q].at = "none") <=> (binary[q] = NoDigest)
      BY <1>i DEF CacheIsGood
    <3> QED
      BY <2>c, <2>1, <2>3, <3>1, <3>2, <3>3, <3>4, <3>5
  <2>6. cache'.file # NoDigest => AskedFor(cache'.file, asked, stage')
    BY <2>4
  <2> QED
    BY <1>i, <2>1, <2>4, <2>5, <2>6 DEF CacheIsGood
<1> QED
  BY <1>4, <1>5 DEF IInv

\* The trace file cannot be created.
LEMMA TraceFailsKeeps ==
    ASSUME IInv, NEW r \in Runs, TraceFails(r)
    PROVE  IInv'
<1> DEFINE v2 == [result[r] EXCEPT !.error = TRUE]
<1>i. Shapes /\ RunsAreGood /\ CacheIsGood
  BY DEF IInv
<1>g. Good(r, process[r], stdin[r], stdout[r], stage[r], context[r], stopped, unwritten[r], result[r])
  BY <1>i DEF RunsAreGood
<1>u. Same(r)
  BY <1>i, Unmoved
<1>1. Moved(r, process[r], stdin[r], stdout[r], "report", context[r], unwritten[r], v2)
  BY <1>u DEF TraceFails, Moved, Same, pipes, shared, runnerVars, Goto
<1>2. Good(r, process[r], stdin[r], stdout[r], "report", context[r], stopped, unwritten[r], v2)
  <2>1. stage[r] \in Waiting
    BY DEF TraceFails, Waiting
  <2> QED
    BY <1>g, <2>1, StartFailsGood
<1>3. stopped' = stopped /\ faults' \in 0..MaxFaults
  BY <1>i, FaultCounts DEF Shapes, TraceFails, pipes, shared, runnerVars, Goto
<1>4. Shapes' /\ RunsAreGood'
  BY <1>i, <1>1, <1>2, <1>3, OneRunMoves
<1>5. CacheIsGood'
  <2>1. UNCHANGED <<asked, object, cache, holder, binary>>
    BY DEF TraceFails, pipes, shared, runnerVars, Goto
  <2>2. process' = [process EXCEPT ![r] = process[r]] /\ stage' = [stage EXCEPT ![r] = "report"]
    BY <1>1 DEF Moved
  <2>3. /\ (process[r].at = "none") <=> (process[r].at = "none")
        /\ "report" \in {"queued", "lookup"} => stage[r] \in {"queued", "lookup"}
        /\ "report" \in {"fetch", "chmod"} <=> stage[r] \in {"fetch", "chmod"}
        /\ "report" \in {"chmod", "handed"} => stage[r] \in {"chmod", "handed"} \/ cache.file # NoDigest
    BY <1>i, <1>g DEF TraceFails, Good, WellTyped, Programs
  <2> QED
    BY <1>i, <2>1, <2>2, <2>3, CacheUntouched
<1> QED
  BY <1>4, <1>5 DEF IInv

\* The program cannot be started.
LEMMA StartFailsKeeps ==
    ASSUME IInv, NEW r \in Runs, StartFails(r)
    PROVE  IInv'
<1> DEFINE v2 == [result[r] EXCEPT !.error = TRUE]
<1>i. Shapes /\ RunsAreGood /\ CacheIsGood
  BY DEF IInv
<1>g. Good(r, process[r], stdin[r], stdout[r], stage[r], context[r], stopped, unwritten[r], result[r])
  BY <1>i DEF RunsAreGood
<1>u. Same(r)
  BY <1>i, Unmoved
<1>1. Moved(r, process[r], stdin[r], stdout[r], AfterRun(r), context[r], unwritten[r], v2)
  BY <1>u DEF StartFails, AfterRun, Moved, Same, pipes, shared, runnerVars, Goto
<1>2. Good(r, process[r], stdin[r], stdout[r], AfterRun(r), context[r], stopped, unwritten[r], v2)
  <2>1. stage[r] \in Waiting /\ AfterRun(r) \in {"close", "report"}
    BY DEF StartFails, Waiting, AfterRun
  <2> QED
    BY <1>g, <2>1, StartFailsGood
<1>3. stopped' = stopped /\ faults' \in 0..MaxFaults
  BY <1>i, FaultCounts DEF Shapes, StartFails, AfterRun, pipes, shared, runnerVars, Goto
<1>4. Shapes' /\ RunsAreGood'
  BY <1>i, <1>1, <1>2, <1>3, OneRunMoves
<1>5. CacheIsGood'
  <2>1. UNCHANGED <<asked, object, cache, holder, binary>>
    BY DEF StartFails, AfterRun, pipes, shared, runnerVars, Goto
  <2>2. process' = [process EXCEPT ![r] = process[r]] /\ stage' = [stage EXCEPT ![r] = AfterRun(r)]
    BY <1>1 DEF Moved
  <2>3. /\ (process[r].at = "none") <=> (process[r].at = "none")
        /\ AfterRun(r) \in {"queued", "lookup"} => stage[r] \in {"queued", "lookup"}
        /\ AfterRun(r) \in {"fetch", "chmod"} <=> stage[r] \in {"fetch", "chmod"}
        /\ AfterRun(r) \in {"chmod", "handed"} => stage[r] \in {"chmod", "handed"} \/ cache.file # NoDigest
    BY <1>i, <1>g DEF StartFails, AfterRun, Good, WellTyped, Programs
  <2> QED
    BY <1>i, <2>1, <2>2, <2>3, CacheUntouched
<1> QED
  BY <1>4, <1>5 DEF IInv

\* The program is started.
LEMMA StartKeeps ==
    ASSUME IInv, NEW r \in Runs, StartProcess(r)
    PROVE  IInv'
<1> DEFINE unw2 == Append(unwritten[r], "START")
<1>i. Shapes /\ RunsAreGood /\ CacheIsGood
  BY DEF IInv
<1>g. Good(r, process[r], stdin[r], stdout[r], stage[r], context[r], stopped, unwritten[r], result[r])
  BY <1>i DEF RunsAreGood
<1>u. Same(r)
  BY <1>i, Unmoved
<1>1. Moved(r, Booting, stdin[r], stdout[r], "hello", context[r], unw2, result[r])
  BY <1>u DEF StartProcess, Moved, Same, pipes, shared, runnerVars, Goto
<1>2. Good(r, Booting, stdin[r], stdout[r], "hello", context[r], stopped, unw2, result[r])
  <2>1. stage[r] \in {"handed"}
    BY DEF StartProcess, CanStart
  <2> QED
    BY <1>g, <2>1, StartGood
<1>3. stopped' = stopped /\ faults' \in 0..MaxFaults
  BY <1>i DEF Shapes, StartProcess, pipes, shared, runnerVars, Goto
<1>4. Shapes' /\ RunsAreGood'
  BY <1>i, <1>1, <1>2, <1>3, OneRunMoves
<1>5. CacheIsGood'
  <2>1. /\ stage[r] = "handed" /\ UNCHANGED <<asked, object, cache, holder>>
        /\ stage' = [stage EXCEPT ![r] = "hello"] /\ binary' = [binary EXCEPT ![r] = cache.file]
        /\ process' = [process EXCEPT ![r] = Booting]
    BY DEF StartProcess, CanStart, shared, Goto
  <2>2. \A digest : AskedFor(digest, asked, stage) => AskedFor(digest, asked, stage')
    BY <1>i, <2>1, StaysAskedFor
  <2>3. /\ cache.file \in Digests \cup {NoDigest} /\ cache.file # NoDigest
        /\ AskedFor(cache.file, asked, stage')
    BY <1>i, <2>1, <2>2 DEF CacheIsGood, Caches
  <2>4. (Booting).at # "none"
    BY DEF Booting, NoProcess
  <2>5. ASSUME NEW q \in Runs
        PROVE  /\ (holder = q) <=> stage'[q] \in {"fetch", "chmod"}
               /\ stage'[q] \in {"chmod", "handed"} => cache.file # NoDigest
               /\ (process'[q].at = "none") <=> (binary'[q] = NoDigest)
               /\ binary'[q] # NoDigest => AskedFor(binary'[q], asked, stage')
    <3>1. /\ stage'[q] = IF q = r THEN "hello" ELSE stage[q]
          /\ process'[q] = IF q = r THEN Booting ELSE process[q]
          /\ binary'[q] = IF q = r THEN cache.file ELSE binary[q]
      BY <1>i, <2>1 DEF Shapes, CacheIsGood
    <3>2. /\ (holder = q) <=> stage[q] \in {"fetch", "chmod"}
          /\ (process[q].at = "none") <=> (binary[q] = NoDigest)
          /\ binary[q] # NoDigest => AskedFor(binary[q], asked, stage')
      BY <1>i, <2>2 DEF CacheIsGood
    <3>3. CASE q = r
      <4>1. process'[q].at # "none"
        BY <2>4, <3>1, <3>3
      <4>2. /\ stage'[q] = "hello" /\ stage[q] = "handed" /\ binary'[q] = cache.file
        BY <2>1, <3>1, <3>3
      <4> QED
        BY <2>3, <3>2, <4>1, <4>2
    <3>4. CASE q # r
      BY <2>1, <2>3, <3>1, <3>2, <3>4
    <3> QED
      BY <3>3, <3>4
  <2>6. binary' \in [Runs -> Digests \cup {NoDigest}]
    BY <1>i, <2>1, <2>3 DEF CacheIsGood
  <2> QED
    BY <1>i, <2>1, <2>3, <2>5, <2>6 DEF CacheIsGood
<1> QED
  BY <1>4, <1>5 DEF IInv

\* The program is started and cannot be put into its cgroup.
LEMMA NotConfinedKeeps ==
    ASSUME IInv, NEW r \in Runs, NotConfined(r)
    PROVE  IInv'
<1> DEFINE p2 == [Booting EXCEPT !.at = "exited", !.exit = "failed"]
           v2 == [result[r] EXCEPT !.error = TRUE]
<1>i. Shapes /\ RunsAreGood /\ CacheIsGood
  BY DEF IInv
<1>g. Good(r, process[r], stdin[r], stdout[r], stage[r], context[r], stopped, unwritten[r], result[r])
  BY <1>i DEF RunsAreGood
<1>u. Same(r)
  BY <1>i, Unmoved
<1>1. Moved(r, p2, stdin[r], stdout[r], "wait", context[r], unwritten[r], v2)
  BY <1>u DEF NotConfined, Moved, Same, pipes, shared, runnerVars, Goto
<1>2. Good(r, p2, stdin[r], stdout[r], "wait", context[r], stopped, unwritten[r], v2)
  <2>1. stage[r] \in {"handed"}
    BY DEF NotConfined, CanStart
  <2> QED
    BY <1>g, <2>1, NotConfinedGood
<1>3. stopped' = stopped /\ faults' \in 0..MaxFaults
  BY <1>i, FaultCounts DEF Shapes, NotConfined, pipes, shared, runnerVars, Goto
<1>4. Shapes' /\ RunsAreGood'
  BY <1>i, <1>1, <1>2, <1>3, OneRunMoves
<1>5. CacheIsGood'
  <2>1. /\ stage[r] = "handed" /\ UNCHANGED <<asked, object, cache, holder>>
        /\ stage' = [stage EXCEPT ![r] = "wait"] /\ binary' = [binary EXCEPT ![r] = cache.file]
        /\ process' = [process EXCEPT ![r] = p2]
    BY DEF NotConfined, CanStart, shared, Goto
  <2>2. \A digest : AskedFor(digest, asked, stage) => AskedFor(digest, asked, stage')
    BY <1>i, <2>1, StaysAskedFor
  <2>3. /\ cache.file \in Digests \cup {NoDigest} /\ cache.file # NoDigest
        /\ AskedFor(cache.file, asked, stage')
    BY <1>i, <2>1, <2>2 DEF CacheIsGood, Caches
  <2>4. p2.at # "none"
    BY DEF Booting, NoProcess
  <2>5. ASSUME NEW q \in Runs
        PROVE  /\ (holder = q) <=> stage'[q] \in {"fetch", "chmod"}
               /\ stage'[q] \in {"chmod", "handed"} => cache.file # NoDigest
               /\ (process'[q].at = "none") <=> (binary'[q] = NoDigest)
               /\ binary'[q] # NoDigest => AskedFor(binary'[q], asked, stage')
    <3>1. /\ stage'[q] = IF q = r THEN "wait" ELSE stage[q]
          /\ process'[q] = IF q = r THEN [Booting EXCEPT !.at = "exited", !.exit = "failed"] ELSE process[q]
          /\ binary'[q] = IF q = r THEN cache.file ELSE binary[q]
      BY <1>i, <2>1 DEF Shapes, CacheIsGood
    <3>2. /\ (holder = q) <=> stage[q] \in {"fetch", "chmod"}
          /\ (process[q].at = "none") <=> (binary[q] = NoDigest)
          /\ binary[q] # NoDigest => AskedFor(binary[q], asked, stage')
      BY <1>i, <2>2 DEF CacheIsGood
    <3>3. CASE q = r
      <4>1. process'[q].at # "none"
        BY <2>4, <3>1, <3>3
      <4>2. /\ stage'[q] = "wait" /\ stage[q] = "handed" /\ binary'[q] = cache.file
        BY <2>1, <3>1, <3>3
      <4> QED
        BY <2>3, <3>2, <4>1, <4>2
    <3>4. CASE q # r
      BY <2>1, <2>3, <3>1, <3>2, <3>4
    <3> QED
      BY <3>3, <3>4
  <2>6. binary' \in [Runs -> Digests \cup {NoDigest}]
    BY <1>i, <2>1, <2>3 DEF CacheIsGood
  <2> QED
    BY <1>i, <2>1, <2>3, <2>5, <2>6 DEF CacheIsGood
<1> QED
  BY <1>4, <1>5 DEF IInv

\* The worker gives a run up, whatever the reason.
LEMMA AbandonKeeps ==
    ASSUME IInv, NEW r \in Runs, Failed(r), Abandon(r),
           stage[r] \in {"hello", "config", "ready", "lines"}, faults' = faults
    PROVE  IInv'
<1> DEFINE p2 == Killed(process[r])
           v2 == [result[r] EXCEPT !.error = TRUE]
<1>i. Shapes /\ RunsAreGood /\ CacheIsGood
  BY DEF IInv
<1>g. Good(r, process[r], stdin[r], stdout[r], stage[r], context[r], stopped, unwritten[r], result[r])
  BY <1>i DEF RunsAreGood
<1>u. Same(r)
  BY <1>i, Unmoved
<1>1. Moved(r, p2, stdin[r], stdout[r], "wait", context[r], unwritten[r], v2)
  BY <1>u DEF Failed, Abandon, Alive, Killed, Moved, Same, pipes, shared, runnerVars, Goto
<1>2. Good(r, p2, stdin[r], stdout[r], "wait", context[r], stopped, unwritten[r], v2)
  BY <1>g, AbandonGood
<1>3. stopped' = stopped /\ faults' \in 0..MaxFaults
  BY <1>i DEF Shapes, Failed, Abandon, Alive, Killed, pipes, shared, runnerVars, Goto
<1>4. Shapes' /\ RunsAreGood'
  BY <1>i, <1>1, <1>2, <1>3, OneRunMoves
<1>5. CacheIsGood'
  <2>1. p2 \in Programs /\ (process[r].at # "none" => p2.at = "exited")
    BY <1>g, KilledProgram DEF Good, WellTyped
  <2>2. UNCHANGED <<asked, object, cache, holder, binary>>
    BY DEF Failed, Abandon, pipes, shared, runnerVars, Goto
  <2>3. process' = [process EXCEPT ![r] = p2] /\ stage' = [stage EXCEPT ![r] = "wait"]
    BY <1>1 DEF Moved
  <2>4. (p2.at = "none") <=> (process[r].at = "none")
    BY <1>g, <2>1 DEF Good, Placed, Running, Failed, Abandon
  <2>5. /\ "wait" \notin {"queued", "lookup", "fetch", "chmod", "handed"}
        /\ stage[r] \notin {"queued", "lookup", "fetch", "chmod", "handed"}
    BY DEF Failed, Abandon
  <2> QED
    BY <1>i, <2>2, <2>3, <2>4, <2>5, CacheUntouched
<1> QED
  BY <1>4, <1>5 DEF IInv

\* The row of a STAT line cannot be written.
LEMMA RowFailsKeeps ==
    ASSUME IInv, NEW r \in Runs, RowNotWritten(r)
    PROVE  IInv'
<1> DEFINE p2 == Killed(process[r])
           v2 == [result[r] EXCEPT !.stats = @ + 1, !.error = TRUE]
<1>i. Shapes /\ RunsAreGood /\ CacheIsGood
  BY DEF IInv
<1>g. Good(r, process[r], stdin[r], stdout[r], stage[r], context[r], stopped, unwritten[r], result[r])
  BY <1>i DEF RunsAreGood
<1>u. Same(r)
  BY <1>i, Unmoved
<1>1. Moved(r, p2, stdin[r], Tail(stdout[r]), "wait", context[r], unwritten[r], v2)
  BY <1>u DEF RowNotWritten, Alive, Killed, Moved, Same, pipes, shared, runnerVars, Goto
<1>2. Good(r, p2, stdin[r], Tail(stdout[r]), "wait", context[r], stopped, unwritten[r], v2)
  <2>1. stage[r] = "lines" /\ stdout[r] # <<>> /\ Head(stdout[r]) = "STAT"
    BY DEF RowNotWritten, Readable
  <2> QED
    BY <1>g, <2>1, RowFailsGood
<1>3. stopped' = stopped /\ faults' \in 0..MaxFaults
  BY <1>i, FaultCounts DEF Shapes, RowNotWritten, Alive, Killed, pipes, shared, runnerVars, Goto
<1>4. Shapes' /\ RunsAreGood'
  BY <1>i, <1>1, <1>2, <1>3, OneRunMoves
<1>5. CacheIsGood'
  <2>1. p2 \in Programs /\ (process[r].at # "none" => p2.at = "exited")
    BY <1>g, KilledProgram DEF Good, WellTyped
  <2>2. UNCHANGED <<asked, object, cache, holder, binary>>
    BY DEF RowNotWritten, pipes, shared, runnerVars, Goto
  <2>3. process' = [process EXCEPT ![r] = p2] /\ stage' = [stage EXCEPT ![r] = "wait"]
    BY <1>1 DEF Moved
  <2>4. (p2.at = "none") <=> (process[r].at = "none")
    BY <1>g, <2>1 DEF Good, Placed, Running, RowNotWritten
  <2>5. /\ "wait" \notin {"queued", "lookup", "fetch", "chmod", "handed"}
        /\ stage[r] \notin {"queued", "lookup", "fetch", "chmod", "handed"}
    BY DEF RowNotWritten
  <2> QED
    BY <1>i, <2>2, <2>3, <2>4, <2>5, CacheUntouched
<1> QED
  BY <1>4, <1>5 DEF IInv

\* The worker reads HELLO.
LEMMA HelloKeeps ==
    ASSUME IInv, NEW r \in Runs, ReadHello(r)
    PROVE  IInv'
<1>i. Shapes /\ RunsAreGood /\ CacheIsGood
  BY DEF IInv
<1>g. Good(r, process[r], stdin[r], stdout[r], stage[r], context[r], stopped, unwritten[r], result[r])
  BY <1>i DEF RunsAreGood
<1>u. Same(r)
  BY <1>i, Unmoved
<1>1. Moved(r, process[r], stdin[r], Tail(stdout[r]), "config", context[r], unwritten[r], result[r])
  BY <1>u DEF ReadHello, NextLine, Moved, Same, pipes, shared, runnerVars, Goto
<1>2. Good(r, process[r], stdin[r], Tail(stdout[r]), "config", context[r], stopped, unwritten[r], result[r])
  <2>1. stage[r] = "hello" /\ stdout[r] # <<>> /\ Head(stdout[r]) = "HELLO"
    BY DEF ReadHello, NextLine, Readable
  <2> QED
    BY <1>g, <2>1, HelloGood
<1>3. stopped' = stopped /\ faults' \in 0..MaxFaults
  BY <1>i DEF Shapes, ReadHello, NextLine, pipes, shared, runnerVars, Goto
<1>4. Shapes' /\ RunsAreGood'
  BY <1>i, <1>1, <1>2, <1>3, OneRunMoves
<1>5. CacheIsGood'
<2>2. UNCHANGED <<asked, object, cache, holder, binary>>
    BY DEF ReadHello, NextLine, pipes, shared, runnerVars, Goto
  <2>3. process' = [process EXCEPT ![r] = process[r]] /\ stage' = [stage EXCEPT ![r] = "config"]
    BY <1>1 DEF Moved
  <2>4. (process[r].at = "none") <=> (process[r].at = "none")
    BY <1>g DEF Good, Placed, Running, ReadHello, NextLine
  <2>5. /\ "config" \notin {"queued", "lookup", "fetch", "chmod", "handed"}
        /\ stage[r] \notin {"queued", "lookup", "fetch", "chmod", "handed"}
    BY DEF ReadHello, NextLine
  <2> QED
    BY <1>i, <2>2, <2>3, <2>4, <2>5, CacheUntouched
<1> QED
  BY <1>4, <1>5 DEF IInv

\* The worker reads READY.
LEMMA ReadyKeeps ==
    ASSUME IInv, NEW r \in Runs, ReadReady(r)
    PROVE  IInv'
<1>i. Shapes /\ RunsAreGood /\ CacheIsGood
  BY DEF IInv
<1>g. Good(r, process[r], stdin[r], stdout[r], stage[r], context[r], stopped, unwritten[r], result[r])
  BY <1>i DEF RunsAreGood
<1>u. Same(r)
  BY <1>i, Unmoved
<1>1. Moved(r, process[r], stdin[r], Tail(stdout[r]), "lines", context[r], unwritten[r], result[r])
  BY <1>u DEF ReadReady, NextLine, Moved, Same, pipes, shared, runnerVars, Goto
<1>2. Good(r, process[r], stdin[r], Tail(stdout[r]), "lines", context[r], stopped, unwritten[r], result[r])
  <2>1. stage[r] = "ready" /\ stdout[r] # <<>> /\ Head(stdout[r]) = "READY"
    BY DEF ReadReady, NextLine, Readable
  <2> QED
    BY <1>g, <2>1, ReadyGood
<1>3. stopped' = stopped /\ faults' \in 0..MaxFaults
  BY <1>i DEF Shapes, ReadReady, NextLine, pipes, shared, runnerVars, Goto
<1>4. Shapes' /\ RunsAreGood'
  BY <1>i, <1>1, <1>2, <1>3, OneRunMoves
<1>5. CacheIsGood'
<2>2. UNCHANGED <<asked, object, cache, holder, binary>>
    BY DEF ReadReady, NextLine, pipes, shared, runnerVars, Goto
  <2>3. process' = [process EXCEPT ![r] = process[r]] /\ stage' = [stage EXCEPT ![r] = "lines"]
    BY <1>1 DEF Moved
  <2>4. (process[r].at = "none") <=> (process[r].at = "none")
    BY <1>g DEF Good, Placed, Running, ReadReady, NextLine
  <2>5. /\ "lines" \notin {"queued", "lookup", "fetch", "chmod", "handed"}
        /\ stage[r] \notin {"queued", "lookup", "fetch", "chmod", "handed"}
    BY DEF ReadReady, NextLine
  <2> QED
    BY <1>i, <2>2, <2>3, <2>4, <2>5, CacheUntouched
<1> QED
  BY <1>4, <1>5 DEF IInv

\* The worker reads a STAT line.
LEMMA StatKeeps ==
    ASSUME IInv, NEW r \in Runs, ReadStat(r)
    PROVE  IInv'
<1> DEFINE v2 == [result[r] EXCEPT !.stats = @ + 1, !.rows = IF r \in Traced THEN @ + 1 ELSE @]
<1>i. Shapes /\ RunsAreGood /\ CacheIsGood
  BY DEF IInv
<1>g. Good(r, process[r], stdin[r], stdout[r], stage[r], context[r], stopped, unwritten[r], result[r])
  BY <1>i DEF RunsAreGood
<1>u. Same(r)
  BY <1>i, Unmoved
<1>1. Moved(r, process[r], stdin[r], Tail(stdout[r]), stage[r], context[r], unwritten[r], v2)
  BY <1>u DEF ReadStat, NextLine, Moved, Same, pipes, shared, runnerVars, Goto
<1>2. Good(r, process[r], stdin[r], Tail(stdout[r]), stage[r], context[r], stopped, unwritten[r], v2)
  <2>1. stage[r] = "lines" /\ stdout[r] # <<>> /\ Head(stdout[r]) = "STAT"
    BY DEF ReadStat, NextLine, Readable
  <2> QED
    BY <1>g, <2>1, StatGood
<1>3. stopped' = stopped /\ faults' \in 0..MaxFaults
  BY <1>i DEF Shapes, ReadStat, NextLine, pipes, shared, runnerVars, Goto
<1>4. Shapes' /\ RunsAreGood'
  BY <1>i, <1>1, <1>2, <1>3, OneRunMoves
<1>5. CacheIsGood'
<2>2. UNCHANGED <<asked, object, cache, holder, binary>>
    BY DEF ReadStat, NextLine, pipes, shared, runnerVars, Goto
  <2>3. process' = [process EXCEPT ![r] = process[r]] /\ stage' = [stage EXCEPT ![r] = stage[r]]
    BY <1>1 DEF Moved
  <2>4. (process[r].at = "none") <=> (process[r].at = "none")
    BY <1>g DEF Good, Placed, Running, ReadStat, NextLine
  <2>5. /\ stage[r] \notin {"queued", "lookup", "fetch", "chmod", "handed"}
        /\ stage[r] \notin {"queued", "lookup", "fetch", "chmod", "handed"}
    BY DEF ReadStat, NextLine
  <2> QED
    BY <1>i, <2>2, <2>3, <2>4, <2>5, CacheUntouched
<1> QED
  BY <1>4, <1>5 DEF IInv

\* The worker reads the END line.
LEMMA EndKeeps ==
    ASSUME IInv, NEW r \in Runs, ReadEnd(r)
    PROVE  IInv'
<1> DEFINE v2 == [result[r] EXCEPT !.ended = TRUE, !.reason = IF Head(stdout[r]) = "END" THEN "end" ELSE "error"]
<1>i. Shapes /\ RunsAreGood /\ CacheIsGood
  BY DEF IInv
<1>g. Good(r, process[r], stdin[r], stdout[r], stage[r], context[r], stopped, unwritten[r], result[r])
  BY <1>i DEF RunsAreGood
<1>u. Same(r)
  BY <1>i, Unmoved
<1>1. Moved(r, process[r], stdin[r], Tail(stdout[r]), "wait", context[r], unwritten[r], v2)
  BY <1>u DEF ReadEnd, NextLine, Moved, Same, pipes, shared, runnerVars, Goto
<1>2. Good(r, process[r], stdin[r], Tail(stdout[r]), "wait", context[r], stopped, unwritten[r], v2)
  <2>1. stage[r] = "lines" /\ stdout[r] # <<>> /\ Head(stdout[r]) \in EndLines
        /\ (IF Head(stdout[r]) = "END" THEN "end" ELSE "error") \in {"end", "error"}
    BY DEF ReadEnd, EndLines, NextLine, Readable
  <2> QED
    BY <1>g, <2>1, EndGood
<1>3. stopped' = stopped /\ faults' \in 0..MaxFaults
  BY <1>i DEF Shapes, ReadEnd, NextLine, pipes, shared, runnerVars, Goto
<1>4. Shapes' /\ RunsAreGood'
  BY <1>i, <1>1, <1>2, <1>3, OneRunMoves
<1>5. CacheIsGood'
<2>2. UNCHANGED <<asked, object, cache, holder, binary>>
    BY DEF ReadEnd, NextLine, pipes, shared, runnerVars, Goto
  <2>3. process' = [process EXCEPT ![r] = process[r]] /\ stage' = [stage EXCEPT ![r] = "wait"]
    BY <1>1 DEF Moved
  <2>4. (process[r].at = "none") <=> (process[r].at = "none")
    BY <1>g DEF Good, Placed, Running, ReadEnd, NextLine
  <2>5. /\ "wait" \notin {"queued", "lookup", "fetch", "chmod", "handed"}
        /\ stage[r] \notin {"queued", "lookup", "fetch", "chmod", "handed"}
    BY DEF ReadEnd, NextLine
  <2> QED
    BY <1>i, <2>2, <2>3, <2>4, <2>5, CacheUntouched
<1> QED
  BY <1>4, <1>5 DEF IInv

\* The output ends without an END.
LEMMA EndOfLinesKeeps ==
    ASSUME IInv, NEW r \in Runs, EndOfLines(r)
    PROVE  IInv'
<1>i. Shapes /\ RunsAreGood /\ CacheIsGood
  BY DEF IInv
<1>g. Good(r, process[r], stdin[r], stdout[r], stage[r], context[r], stopped, unwritten[r], result[r])
  BY <1>i DEF RunsAreGood
<1>u. Same(r)
  BY <1>i, Unmoved
<1>1. Moved(r, process[r], stdin[r], stdout[r], "wait", context[r], unwritten[r], result[r])
  BY <1>u DEF EndOfLines, Moved, Same, pipes, shared, runnerVars, Goto
<1>2. Good(r, process[r], stdin[r], stdout[r], "wait", context[r], stopped, unwritten[r], result[r])
  <2>1. stage[r] = "lines" /\ stdout[r] = <<>> /\ process[r].at \in {"none", "exited"}
    BY DEF EndOfLines, AtEnd, Alive
  <2> QED
    BY <1>g, <2>1, NoMoreLinesGood
<1>3. stopped' = stopped /\ faults' \in 0..MaxFaults
  BY <1>i DEF Shapes, EndOfLines, pipes, shared, runnerVars, Goto
<1>4. Shapes' /\ RunsAreGood'
  BY <1>i, <1>1, <1>2, <1>3, OneRunMoves
<1>5. CacheIsGood'
  <2>2. UNCHANGED <<asked, object, cache, holder, binary>>
    BY DEF EndOfLines, pipes, shared, runnerVars, Goto
  <2>3. process' = [process EXCEPT ![r] = process[r]] /\ stage' = [stage EXCEPT ![r] = "wait"]
    BY <1>1 DEF Moved
  <2>4. (process[r].at = "none") <=> (process[r].at = "none")
    BY <1>g DEF Good, Placed, Running, EndOfLines
  <2>5. /\ "wait" \notin {"queued", "lookup", "fetch", "chmod", "handed"}
        /\ stage[r] \notin {"queued", "lookup", "fetch", "chmod", "handed"}
    BY DEF EndOfLines
  <2> QED
    BY <1>i, <2>2, <2>3, <2>4, <2>5, CacheUntouched
<1> QED
  BY <1>4, <1>5 DEF IInv

\* The worker writes a command.
LEMMA CommandKeeps ==
    ASSUME IInv, NEW r \in Runs, WriteCommand(r)
    PROVE  IInv'
<1> DEFINE in2 == Append(stdin[r], Head(unwritten[r]))
           st2 == IF Len(unwritten[r]) = 1 THEN "ready" ELSE stage[r]
           unw2 == Tail(unwritten[r])
<1>i. Shapes /\ RunsAreGood /\ CacheIsGood
  BY DEF IInv
<1>g. Good(r, process[r], stdin[r], stdout[r], stage[r], context[r], stopped, unwritten[r], result[r])
  BY <1>i DEF RunsAreGood
<1>u. Same(r)
  BY <1>i, Unmoved
<1>1. Moved(r, process[r], in2, stdout[r], st2, context[r], unw2, result[r])
  BY <1>u DEF WriteCommand, Moved, Same, pipes, shared, runnerVars, Goto
<1>2. Good(r, process[r], in2, stdout[r], st2, context[r], stopped, unw2, result[r])
  <2>1. stage[r] = "config" /\ process[r].at \notin {"none", "exited"} /\ HasRoom(stdin[r])
    BY DEF WriteCommand, Alive
  <2> QED
    BY <1>g, <2>1, CommandGood
<1>3. stopped' = stopped /\ faults' \in 0..MaxFaults
  BY <1>i DEF Shapes, WriteCommand, pipes, shared, runnerVars, Goto
<1>4. Shapes' /\ RunsAreGood'
  BY <1>i, <1>1, <1>2, <1>3, OneRunMoves
<1>5. CacheIsGood'
  <2>2. UNCHANGED <<asked, object, cache, holder, binary>>
    BY DEF WriteCommand, pipes, shared, runnerVars, Goto
  <2>3. process' = [process EXCEPT ![r] = process[r]] /\ stage' = [stage EXCEPT ![r] = st2]
    BY <1>1 DEF Moved
  <2>4. (process[r].at = "none") <=> (process[r].at = "none")
    BY <1>g DEF Good, Placed, Running, WriteCommand
  <2>5. /\ st2 \notin {"queued", "lookup", "fetch", "chmod", "handed"}
        /\ stage[r] \notin {"queued", "lookup", "fetch", "chmod", "handed"}
    BY DEF WriteCommand
  <2> QED
    BY <1>i, <2>2, <2>3, <2>4, <2>5, CacheUntouched
<1> QED
  BY <1>4, <1>5 DEF IInv

\* cmd.Wait returns.
LEMMA WaitedKeeps ==
    ASSUME IInv, NEW r \in Runs, Waited(r)
    PROVE  IInv'
<1> DEFINE v2 == AfterOom(VerdictOf(result[r], context[r], process[r].exit), process[r].oom)
<1>i. Shapes /\ RunsAreGood /\ CacheIsGood
  BY DEF IInv
<1>g. Good(r, process[r], stdin[r], stdout[r], stage[r], context[r], stopped, unwritten[r], result[r])
  BY <1>i DEF RunsAreGood
<1>u. Same(r)
  BY <1>i, Unmoved
<1>1. Moved(r, process[r], <<>>, <<>>, AfterRun(r), context[r], unwritten[r], v2)
  BY <1>u DEF Waited, Verdict, VerdictOf, Moved, Same, pipes, shared, runnerVars, Goto
<1>2. Good(r, process[r], <<>>, <<>>, AfterRun(r), context[r], stopped, unwritten[r], v2)
  <2>1. stage[r] \in {"wait"} /\ process[r].at \in {"none", "exited"}
        /\ AfterRun(r) = IF r \in Traced THEN "close" ELSE "report"
    BY DEF Waited, Alive, AfterRun
  <2> QED
    BY <1>g, <2>1, WaitedGood
<1>3. stopped' = stopped /\ faults' \in 0..MaxFaults
  BY <1>i DEF Shapes, Waited, pipes, shared, runnerVars, Goto
<1>4. Shapes' /\ RunsAreGood'
  BY <1>i, <1>1, <1>2, <1>3, OneRunMoves
<1>5. CacheIsGood'
  <2>2. UNCHANGED <<asked, object, cache, holder, binary>>
    BY DEF Waited, pipes, shared, runnerVars, Goto
  <2>3. process' = [process EXCEPT ![r] = process[r]] /\ stage' = [stage EXCEPT ![r] = AfterRun(r)]
    BY <1>1 DEF Moved
  <2>4. (process[r].at = "none") <=> (process[r].at = "none")
    BY <1>g DEF Good, Placed, Running, Waited
  <2>5. /\ AfterRun(r) \notin {"queued", "lookup", "fetch", "chmod", "handed"}
        /\ stage[r] \notin {"queued", "lookup", "fetch", "chmod", "handed"}
    BY DEF Waited, AfterRun
  <2> QED
    BY <1>i, <2>2, <2>3, <2>4, <2>5, CacheUntouched
<1> QED
  BY <1>4, <1>5 DEF IInv

\* The metrics file is stored.
LEMMA UploadKeeps ==
    ASSUME IInv, NEW r \in Runs, Upload(r)
    PROVE  IInv'
<1> DEFINE v2 == [result[r] EXCEPT !.stored = TRUE]
<1>i. Shapes /\ RunsAreGood /\ CacheIsGood
  BY DEF IInv
<1>g. Good(r, process[r], stdin[r], stdout[r], stage[r], context[r], stopped, unwritten[r], result[r])
  BY <1>i DEF RunsAreGood
<1>u. Same(r)
  BY <1>i, Unmoved
<1>1. Moved(r, process[r], stdin[r], stdout[r], "report", context[r], unwritten[r], v2)
  BY <1>u DEF Upload, Moved, Same, pipes, shared, runnerVars, Goto
<1>2. Good(r, process[r], stdin[r], stdout[r], "report", context[r], stopped, unwritten[r], v2)
  <2>1. stage[r] = "close"
    BY DEF Upload
  <2> QED
    BY <1>g, <2>1, StoredGood
<1>3. stopped' = stopped /\ faults' \in 0..MaxFaults
  BY <1>i DEF Shapes, Upload, pipes, shared, runnerVars, Goto
<1>4. Shapes' /\ RunsAreGood'
  BY <1>i, <1>1, <1>2, <1>3, OneRunMoves
<1>5. CacheIsGood'
  <2>2. UNCHANGED <<asked, object, cache, holder, binary>>
    BY DEF Upload, pipes, shared, runnerVars, Goto
  <2>3. process' = [process EXCEPT ![r] = process[r]] /\ stage' = [stage EXCEPT ![r] = "report"]
    BY <1>1 DEF Moved
  <2>4. (process[r].at = "none") <=> (process[r].at = "none")
    BY <1>g DEF Good, Placed, Running, Upload
  <2>5. /\ "report" \notin {"queued", "lookup", "fetch", "chmod", "handed"}
        /\ stage[r] \notin {"queued", "lookup", "fetch", "chmod", "handed"}
    BY DEF Upload
  <2> QED
    BY <1>i, <2>2, <2>3, <2>4, <2>5, CacheUntouched
<1> QED
  BY <1>4, <1>5 DEF IInv

\* The metrics file is not stored.
LEMMA UploadFailsKeeps ==
    ASSUME IInv, NEW r \in Runs, UploadFails(r)
    PROVE  IInv'
<1> DEFINE v2 == AppendResultError(result[r])
<1>i. Shapes /\ RunsAreGood /\ CacheIsGood
  BY DEF IInv
<1>g. Good(r, process[r], stdin[r], stdout[r], stage[r], context[r], stopped, unwritten[r], result[r])
  BY <1>i DEF RunsAreGood
<1>u. Same(r)
  BY <1>i, Unmoved
<1>1. Moved(r, process[r], stdin[r], stdout[r], "report", context[r], unwritten[r], v2)
  BY <1>u DEF UploadFails, Moved, Same, pipes, shared, runnerVars, Goto
<1>2. Good(r, process[r], stdin[r], stdout[r], "report", context[r], stopped, unwritten[r], v2)
  <2>1. stage[r] = "close"
    BY DEF UploadFails
  <2> QED
    BY <1>g, <2>1, NotStoredGood
<1>3. stopped' = stopped /\ faults' \in 0..MaxFaults
  BY <1>i, FaultCounts DEF Shapes, UploadFails, pipes, shared, runnerVars, Goto
<1>4. Shapes' /\ RunsAreGood'
  BY <1>i, <1>1, <1>2, <1>3, OneRunMoves
<1>5. CacheIsGood'
  <2>2. UNCHANGED <<asked, object, cache, holder, binary>>
    BY DEF UploadFails, pipes, shared, runnerVars, Goto
  <2>3. process' = [process EXCEPT ![r] = process[r]] /\ stage' = [stage EXCEPT ![r] = "report"]
    BY <1>1 DEF Moved
  <2>4. (process[r].at = "none") <=> (process[r].at = "none")
    BY <1>g DEF Good, Placed, Running, UploadFails
  <2>5. /\ "report" \notin {"queued", "lookup", "fetch", "chmod", "handed"}
        /\ stage[r] \notin {"queued", "lookup", "fetch", "chmod", "handed"}
    BY DEF UploadFails
  <2> QED
    BY <1>i, <2>2, <2>3, <2>4, <2>5, CacheUntouched
<1> QED
  BY <1>4, <1>5 DEF IInv

\* The result is reported.
LEMMA ReportKeeps ==
    ASSUME IInv, NEW r \in Runs, Report(r)
    PROVE  IInv'
<1> DEFINE v2 == IF r \in stopped /\ result[r].status # "FINISHED"
          THEN [result[r] EXCEPT !.status = "CANCELED", !.reason = "user_canceled"] ELSE result[r]
<1>i. Shapes /\ RunsAreGood /\ CacheIsGood
  BY DEF IInv
<1>g. Good(r, process[r], stdin[r], stdout[r], stage[r], context[r], stopped, unwritten[r], result[r])
  BY <1>i DEF RunsAreGood
<1>u. Same(r)
  BY <1>i, Unmoved
<1>1. Moved(r, process[r], stdin[r], stdout[r], "done", context[r], unwritten[r], v2)
  BY <1>u DEF Report, Moved, Same, pipes, shared, runnerVars, Goto
<1>2. Good(r, process[r], stdin[r], stdout[r], "done", context[r], stopped, unwritten[r], v2)
  <2>1. stage[r] = "report"
    BY DEF Report
  <2> QED
    BY <1>g, <2>1, ReportedGood
<1>3. stopped' = stopped /\ faults' \in 0..MaxFaults
  BY <1>i DEF Shapes, Report, pipes, shared, runnerVars, Goto
<1>4. Shapes' /\ RunsAreGood'
  BY <1>i, <1>1, <1>2, <1>3, OneRunMoves
<1>5. CacheIsGood'
  <2>2. UNCHANGED <<asked, object, cache, holder, binary>>
    BY DEF Report, pipes, shared, runnerVars, Goto
  <2>3. process' = [process EXCEPT ![r] = process[r]] /\ stage' = [stage EXCEPT ![r] = "done"]
    BY <1>1 DEF Moved
  <2>4. (process[r].at = "none") <=> (process[r].at = "none")
    BY <1>g DEF Good, Placed, Running, Report
  <2>5. /\ "done" \notin {"queued", "lookup", "fetch", "chmod", "handed"}
        /\ stage[r] \notin {"queued", "lookup", "fetch", "chmod", "handed"}
    BY DEF Report
  <2> QED
    BY <1>i, <2>2, <2>3, <2>4, <2>5, CacheUntouched
<1> QED
  BY <1>4, <1>5 DEF IInv

\* A stop arrives.
LEMMA StopKeeps ==
    ASSUME IInv, NEW r \in Runs, Stop(r)
    PROVE  IInv'
<1> DEFINE ctx2 == IF context[r] = "live" THEN "canceled" ELSE context[r]
<1>i. Shapes /\ RunsAreGood /\ CacheIsGood
  BY DEF IInv
<1>g. Good(r, process[r], stdin[r], stdout[r], stage[r], context[r], stopped, unwritten[r], result[r])
  BY <1>i DEF RunsAreGood
<1>u. Same(r)
  BY <1>i, Unmoved
<1>1. Moved(r, process[r], stdin[r], stdout[r], stage[r], ctx2, unwritten[r], result[r])
  BY <1>u DEF Stop, Moved, Same, pipes, shared, runnerVars, Goto
<1>2. Good(r, process[r], stdin[r], stdout[r], stage[r], ctx2, stopped \cup {r}, unwritten[r], result[r])
  <2>1. stage[r] # "done"
    BY DEF Stop
  <2> QED
    BY <1>g, <2>1, StopGood
<1>3. stopped' = stopped \cup {r} /\ faults' \in 0..MaxFaults
  BY <1>i DEF Shapes, Stop, pipes, shared, runnerVars, Goto
<1>4. Shapes' /\ RunsAreGood'
  BY <1>i, <1>1, <1>2, <1>3, OneRunMoves
<1>5. CacheIsGood'
  <2>1. UNCHANGED <<asked, object, cache, holder, binary>>
    BY DEF Stop, pipes, shared, runnerVars, Goto
  <2>2. process' = [process EXCEPT ![r] = process[r]] /\ stage' = [stage EXCEPT ![r] = stage[r]]
    BY <1>1 DEF Moved
  <2>3. /\ (process[r].at = "none") <=> (process[r].at = "none")
        /\ stage[r] \in {"queued", "lookup"} => stage[r] \in {"queued", "lookup"}
        /\ stage[r] \in {"fetch", "chmod"} <=> stage[r] \in {"fetch", "chmod"}
        /\ stage[r] \in {"chmod", "handed"} => stage[r] \in {"chmod", "handed"} \/ cache.file # NoDigest
    BY <1>i, <1>g DEF Stop, Good, Placed, Running
  <2> QED
    BY <1>i, <2>1, <2>2, <2>3, CacheUntouched
<1> QED
  BY <1>4, <1>5 DEF IInv

\* The timeout fires.
LEMMA TimeoutKeeps ==
    ASSUME IInv, NEW r \in Runs, Timeout(r)
    PROVE  IInv'
<1>i. Shapes /\ RunsAreGood /\ CacheIsGood
  BY DEF IInv
<1>g. Good(r, process[r], stdin[r], stdout[r], stage[r], context[r], stopped, unwritten[r], result[r])
  BY <1>i DEF RunsAreGood
<1>u. Same(r)
  BY <1>i, Unmoved
<1>1. Moved(r, process[r], stdin[r], stdout[r], stage[r], "deadline", unwritten[r], result[r])
  BY <1>u DEF Timeout, Moved, Same, pipes, shared, runnerVars, Goto
<1>2. Good(r, process[r], stdin[r], stdout[r], stage[r], "deadline", stopped, unwritten[r], result[r])
  <2>1. stage[r] # "done" /\ context[r] = "live"
    BY DEF Timeout
  <2> QED
    BY <1>g, <2>1, TimeoutGood
<1>3. stopped' = stopped /\ faults' \in 0..MaxFaults
  BY <1>i DEF Shapes, Timeout, pipes, shared, runnerVars, Goto
<1>4. Shapes' /\ RunsAreGood'
  BY <1>i, <1>1, <1>2, <1>3, OneRunMoves
<1>5. CacheIsGood'
  <2>1. UNCHANGED <<asked, object, cache, holder, binary>>
    BY DEF Timeout, pipes, shared, runnerVars, Goto
  <2>2. process' = [process EXCEPT ![r] = process[r]] /\ stage' = [stage EXCEPT ![r] = stage[r]]
    BY <1>1 DEF Moved
  <2>3. /\ (process[r].at = "none") <=> (process[r].at = "none")
        /\ stage[r] \in {"queued", "lookup"} => stage[r] \in {"queued", "lookup"}
        /\ stage[r] \in {"fetch", "chmod"} <=> stage[r] \in {"fetch", "chmod"}
        /\ stage[r] \in {"chmod", "handed"} => stage[r] \in {"chmod", "handed"} \/ cache.file # NoDigest
    BY <1>i, <1>g DEF Timeout, Good, Placed, Running
  <2> QED
    BY <1>i, <2>1, <2>2, <2>3, CacheUntouched
<1> QED
  BY <1>4, <1>5 DEF IInv

\* What changes only the program and its pipes.
LEMMA ProgramMoves ==
    ASSUME IInv, NEW r \in Runs, UNCHANGED <<runnerVars, context, stopped>>, faults' \in 0..MaxFaults,
           NEW p2, NEW in2, NEW out2, process' = [process EXCEPT ![r] = p2],
           stdin' = [stdin EXCEPT ![r] = in2], stdout' = [stdout EXCEPT ![r] = out2],
           process[r].at # "none", p2.at # "none",
           Good(r, p2, in2, out2, stage[r], context[r], stopped, unwritten[r], result[r])
    PROVE  IInv'
<1>i. Shapes /\ RunsAreGood /\ CacheIsGood
  BY DEF IInv
<1>u. Same(r)
  BY <1>i, Unmoved
<1>1. UNCHANGED <<asked, object, cache, holder, binary, stage, context, unwritten, result, stopped>>
  BY DEF runnerVars, shared
<1>2. Moved(r, p2, in2, out2, stage[r], context[r], unwritten[r], result[r])
  BY <1>u, <1>1 DEF Moved, Same
<1>3. Shapes' /\ RunsAreGood'
  BY <1>i, <1>1, <1>2, OneRunMoves
<1>4. process' = [process EXCEPT ![r] = p2] /\ stage' = [stage EXCEPT ![r] = stage[r]]
  BY <1>u, <1>1 DEF Same
<1>5. CacheIsGood'
  <2>1. UNCHANGED <<asked, object, cache, holder, binary>>
    BY <1>1
  <2>2. (p2.at = "none") <=> (process[r].at = "none")
    OBVIOUS
  <2>3. stage[r] \in {"chmod", "handed"} => stage[r] \in {"chmod", "handed"} \/ cache.file # NoDigest
    OBVIOUS
  <2>4. ASSUME NEW st2, st2 = stage[r] PROVE CacheIsGood'
    <3>1. stage' = [stage EXCEPT ![r] = st2]
      BY <1>4, <2>4
    <3> QED
      BY <1>i, <1>4, <2>1, <2>2, <2>3, <2>4, <3>1, CacheUntouched
  <2> QED
    BY <2>4
<1> QED
  BY <1>3, <1>5 DEF IInv

\* The program says HELLO.
LEMMA ProgramGreets ==
    ASSUME IInv, NEW r \in Runs, Hello(r), UNCHANGED <<runnerVars, context, stopped>>, UNCHANGED faults
    PROVE  IInv'
<1>g. Good(r, process[r], stdin[r], stdout[r], stage[r], context[r], stopped, unwritten[r], result[r])
  BY DEF IInv, RunsAreGood
<1>s. Shapes /\ faults \in 0..MaxFaults /\ process[r] \in Programs /\ Same(r)
  BY Unmoved DEF IInv, Shapes
<1> DEFINE p2 == [process[r] EXCEPT !.at = "commands"]
<1>1. process' = [process EXCEPT ![r] = p2]
  BY <1>s DEF Hello, SendLine, Same
<1>2. stdin' = [stdin EXCEPT ![r] = stdin[r]]
  BY <1>s DEF Hello, SendLine, Same
<1>3. stdout' = [stdout EXCEPT ![r] = Append(stdout[r], "HELLO")]
  BY <1>s DEF Hello, SendLine, Same
<1>4. process[r].at = "boot" /\ HasRoom(stdout[r])
  BY DEF Hello, SendLine
<1>5. Good(r, p2, stdin[r], Append(stdout[r], "HELLO"), stage[r], context[r], stopped, unwritten[r], result[r])
  BY Zenon, <1>g, <1>4, ProgramKeeps
<1>6. process[r].at # "none" /\ p2.at # "none"
  BY <1>s, <1>4 DEF Programs
<1>7. faults' \in 0..MaxFaults
  BY <1>s
<1> QED
  BY <1>1, <1>2, <1>3, <1>5, <1>6, <1>7, ProgramMoves

\* The program obeys a command.
LEMMA ProgramObeys ==
    ASSUME IInv, NEW r \in Runs, Obey(r), UNCHANGED <<runnerVars, context, stopped>>, UNCHANGED faults
    PROVE  IInv'
<1>g. Good(r, process[r], stdin[r], stdout[r], stage[r], context[r], stopped, unwritten[r], result[r])
  BY DEF IInv, RunsAreGood
<1>s. Shapes /\ faults \in 0..MaxFaults /\ process[r] \in Programs /\ Same(r)
  BY Unmoved DEF IInv, Shapes
<1>1. process' = [process EXCEPT ![r] = process[r]]
  BY <1>s DEF Obey, NextCommand, Same
<1>2. stdin' = [stdin EXCEPT ![r] = Tail(stdin[r])]
  BY <1>s DEF Obey, NextCommand, Same
<1>3. stdout' = [stdout EXCEPT ![r] = stdout[r]]
  BY <1>s DEF Obey, NextCommand, Same
<1>4. process[r].at = "commands" /\ stdin[r] # <<>>
  BY DEF Obey, NextCommand
<1>5. Good(r, process[r], Tail(stdin[r]), stdout[r], stage[r], context[r], stopped, unwritten[r], result[r])
  BY Zenon, <1>g, <1>4, ProgramKeeps
<1>6. process[r].at # "none" /\ process[r].at # "none"
  BY <1>s, <1>4 DEF Programs
<1>7. faults' \in 0..MaxFaults
  BY <1>s
<1> QED
  BY <1>1, <1>2, <1>3, <1>5, <1>6, <1>7, ProgramMoves

\* The program rejects a command.
LEMMA ProgramRejects ==
    ASSUME IInv, NEW r \in Runs, Reject(r), UNCHANGED <<runnerVars, context, stopped>>, UNCHANGED faults
    PROVE  IInv'
<1>g. Good(r, process[r], stdin[r], stdout[r], stage[r], context[r], stopped, unwritten[r], result[r])
  BY DEF IInv, RunsAreGood
<1>s. Shapes /\ faults \in 0..MaxFaults /\ process[r] \in Programs /\ Same(r)
  BY Unmoved DEF IInv, Shapes
<1> DEFINE p2 == [process[r] EXCEPT !.rejected = TRUE]
<1>1. process' = [process EXCEPT ![r] = p2]
  BY <1>s DEF Reject, NextCommand, SendLine, Same
<1>2. stdin' = [stdin EXCEPT ![r] = Tail(stdin[r])]
  BY <1>s DEF Reject, NextCommand, SendLine, Same
<1>3. stdout' = [stdout EXCEPT ![r] = Append(stdout[r], "ERR")]
  BY <1>s DEF Reject, NextCommand, SendLine, Same
<1>4. process[r].at = "commands" /\ stdin[r] # <<>> /\ HasRoom(stdout[r])
  BY DEF Reject, NextCommand, SendLine
<1>5. Good(r, p2, Tail(stdin[r]), Append(stdout[r], "ERR"), stage[r], context[r], stopped, unwritten[r], result[r])
  BY Zenon, <1>g, <1>4, ProgramKeeps
<1>6. process[r].at # "none" /\ p2.at # "none"
  BY <1>s, <1>4 DEF Programs
<1>7. faults' \in 0..MaxFaults
  BY <1>s
<1> QED
  BY <1>1, <1>2, <1>3, <1>5, <1>6, <1>7, ProgramMoves

\* The program is told to start.
LEMMA ProgramStarts ==
    ASSUME IInv, NEW r \in Runs, StartCommand(r), UNCHANGED <<runnerVars, context, stopped>>, UNCHANGED faults
    PROVE  IInv'
<1>g. Good(r, process[r], stdin[r], stdout[r], stage[r], context[r], stopped, unwritten[r], result[r])
  BY DEF IInv, RunsAreGood
<1>s. Shapes /\ faults \in 0..MaxFaults /\ process[r] \in Programs /\ Same(r)
  BY Unmoved DEF IInv, Shapes
<1> DEFINE p2 == [process[r] EXCEPT !.at = "simulating"]
<1>1. process' = [process EXCEPT ![r] = p2]
  BY <1>s DEF StartCommand, NextCommand, SendLine, Same
<1>2. stdin' = [stdin EXCEPT ![r] = Tail(stdin[r])]
  BY <1>s DEF StartCommand, NextCommand, SendLine, Same
<1>3. stdout' = [stdout EXCEPT ![r] = Append(stdout[r], "READY")]
  BY <1>s DEF StartCommand, NextCommand, SendLine, Same
<1>4. process[r].at = "commands" /\ stdin[r] # <<>> /\ HasRoom(stdout[r])
  BY DEF StartCommand, NextCommand, SendLine
<1>5. Good(r, p2, Tail(stdin[r]), Append(stdout[r], "READY"), stage[r], context[r], stopped, unwritten[r], result[r])
  BY Zenon, <1>g, <1>4, ProgramKeeps
<1>6. process[r].at # "none" /\ p2.at # "none"
  BY <1>s, <1>4 DEF Programs
<1>7. faults' \in 0..MaxFaults
  BY <1>s
<1> QED
  BY <1>1, <1>2, <1>3, <1>5, <1>6, <1>7, ProgramMoves

\* The program writes a STAT line.
LEMMA ProgramCounts ==
    ASSUME IInv, NEW r \in Runs, SendStat(r), UNCHANGED <<runnerVars, context, stopped>>, UNCHANGED faults
    PROVE  IInv'
<1>g. Good(r, process[r], stdin[r], stdout[r], stage[r], context[r], stopped, unwritten[r], result[r])
  BY DEF IInv, RunsAreGood
<1>s. Shapes /\ faults \in 0..MaxFaults /\ process[r] \in Programs /\ Same(r)
  BY Unmoved DEF IInv, Shapes
<1>k. PICK next \in {"simulating", "ending"} : process' = [process EXCEPT ![r].wrote = @ + 1, ![r].at = next]
  BY DEF SendStat, SendLine
<1> DEFINE p2 == [process[r] EXCEPT !.wrote = @ + 1, !.at = next]
<1>1. process' = [process EXCEPT ![r] = p2]
  BY <1>k, <1>s DEF SendStat, SendLine, Same
<1>2. stdin' = [stdin EXCEPT ![r] = stdin[r]]
  BY <1>k, <1>s DEF SendStat, SendLine, Same
<1>3. stdout' = [stdout EXCEPT ![r] = Append(stdout[r], "STAT")]
  BY <1>k, <1>s DEF SendStat, SendLine, Same
<1>4. process[r].at = "simulating" /\ process[r].wrote < MaxStats /\ HasRoom(stdout[r])
  BY <1>k DEF SendStat, SendLine
<1>5. Good(r, p2, stdin[r], Append(stdout[r], "STAT"), stage[r], context[r], stopped, unwritten[r], result[r])
  BY Zenon, <1>g, <1>4, ProgramKeeps
<1>6. process[r].at # "none" /\ p2.at # "none"
  BY <1>s, <1>4 DEF Programs
<1>7. faults' \in 0..MaxFaults
  BY <1>s
<1> QED
  BY <1>1, <1>2, <1>3, <1>5, <1>6, <1>7, ProgramMoves

\* The program writes its END line.
LEMMA ProgramEnds ==
    ASSUME IInv, NEW r \in Runs, SendEnd(r), UNCHANGED <<runnerVars, context, stopped>>, UNCHANGED faults
    PROVE  IInv'
<1>g. Good(r, process[r], stdin[r], stdout[r], stage[r], context[r], stopped, unwritten[r], result[r])
  BY DEF IInv, RunsAreGood
<1>s. Shapes /\ faults \in 0..MaxFaults /\ process[r] \in Programs /\ Same(r)
  BY Unmoved DEF IInv, Shapes
<1>k. PICK line \in EndLines : HasRoom(stdout[r]) /\ stdout' = [stdout EXCEPT ![r] = Append(@, line)]
  BY DEF SendEnd, SendLine, EndLines
<1> DEFINE p2 == [process[r] EXCEPT !.at = "leaving"]
<1>1. process' = [process EXCEPT ![r] = p2]
  BY <1>k, <1>s DEF SendEnd, SendLine, EndLines, Same
<1>2. stdin' = [stdin EXCEPT ![r] = stdin[r]]
  BY <1>k, <1>s DEF SendEnd, SendLine, EndLines, Same
<1>3. stdout' = [stdout EXCEPT ![r] = Append(stdout[r], line)]
  BY <1>k, <1>s DEF SendEnd, SendLine, EndLines, Same
<1>4. process[r].at = "ending" /\ HasRoom(stdout[r])
  BY <1>k DEF SendEnd, SendLine, EndLines
<1>5. Good(r, p2, stdin[r], Append(stdout[r], line), stage[r], context[r], stopped, unwritten[r], result[r])
  BY Zenon, <1>g, <1>4, ProgramKeeps
<1>6. process[r].at # "none" /\ p2.at # "none"
  BY <1>s, <1>4 DEF Programs
<1>7. faults' \in 0..MaxFaults
  BY <1>s
<1> QED
  BY <1>1, <1>2, <1>3, <1>5, <1>6, <1>7, ProgramMoves

\* The program exits.
LEMMA ProgramLeaves ==
    ASSUME IInv, NEW r \in Runs, Leave(r), UNCHANGED <<runnerVars, context, stopped>>, UNCHANGED faults
    PROVE  IInv'
<1>g. Good(r, process[r], stdin[r], stdout[r], stage[r], context[r], stopped, unwritten[r], result[r])
  BY DEF IInv, RunsAreGood
<1>s. Shapes /\ faults \in 0..MaxFaults /\ process[r] \in Programs /\ Same(r)
  BY Unmoved DEF IInv, Shapes
<1> DEFINE p2 == [process[r] EXCEPT !.at = "exited", !.exit = "ok"]
<1>1. process' = [process EXCEPT ![r] = p2]
  BY <1>s DEF Leave, Same
<1>2. stdin' = [stdin EXCEPT ![r] = stdin[r]]
  BY <1>s DEF Leave, Same
<1>3. stdout' = [stdout EXCEPT ![r] = stdout[r]]
  BY <1>s DEF Leave, Same
<1>4. process[r].at = "leaving"
  BY DEF Leave
<1>5. Good(r, p2, stdin[r], stdout[r], stage[r], context[r], stopped, unwritten[r], result[r])
  BY Zenon, <1>g, <1>4, ProgramKeeps
<1>6. process[r].at # "none" /\ p2.at # "none"
  BY <1>s, <1>4 DEF Programs
<1>7. faults' \in 0..MaxFaults
  BY <1>s
<1> QED
  BY <1>1, <1>2, <1>3, <1>5, <1>6, <1>7, ProgramMoves

\* The program dies, and may leave a torn line.
LEMMA ProgramDies ==
    ASSUME IInv, NEW r \in Runs, NEW oom \in BOOLEAN, Dies(r, oom),
           UNCHANGED <<runnerVars, context, stopped>>, faults' \in 0..MaxFaults
    PROVE  IInv'
<1> DEFINE p2 == [process[r] EXCEPT !.at = "exited", !.exit = "failed", !.oom = oom]
<1>g. Good(r, process[r], stdin[r], stdout[r], stage[r], context[r], stopped, unwritten[r], result[r])
  BY DEF IInv, RunsAreGood
<1>s. Shapes /\ faults \in 0..MaxFaults /\ process[r] \in Programs /\ Same(r)
  BY Unmoved DEF IInv, Shapes
<1>1. process' = [process EXCEPT ![r] = p2]
  BY <1>s DEF Dies, Same
<1>2. stdin' = [stdin EXCEPT ![r] = stdin[r]]
  BY <1>s DEF Dies, Same
<1>3. process[r].at \notin {"none", "exited"}
  BY DEF Dies, Alive
<1>4. p2.at # "none"
  BY <1>s DEF Programs
<1>5. CASE UNCHANGED stdout
  <2>1. stdout' = [stdout EXCEPT ![r] = stdout[r]]
    BY <1>s, <1>5 DEF Same
  <2>2. Good(r, p2, stdin[r], stdout[r], stage[r], context[r], stopped, unwritten[r], result[r])
    BY Zenon, <1>g, <1>3, ProgramKeeps
  <2> QED
    BY <1>1, <1>2, <1>3, <1>4, <2>1, <2>2, ProgramMoves
<1>6. CASE SendLine(r, "torn")
  <2>1. stdout' = [stdout EXCEPT ![r] = Append(stdout[r], "torn")] /\ HasRoom(stdout[r])
    BY <1>6 DEF SendLine
  <2>2. Good(r, p2, stdin[r], Append(stdout[r], "torn"), stage[r], context[r], stopped, unwritten[r], result[r])
    BY Zenon, <1>g, <1>3, <2>1, ProgramKeeps
  <2> QED
    BY <1>1, <1>2, <1>3, <1>4, <2>1, <2>2, ProgramMoves
<1> QED
  BY <1>5, <1>6 DEF Dies

\* Another build in the object store; nothing at all.
LEMMA RebuildKeeps ==
    ASSUME IInv, Rebuild
    PROVE  IInv'
<1>1. Shapes' /\ RunsAreGood'
  BY DEF IInv, Rebuild, pipes, Shapes, RunsAreGood
<1>2. CacheIsGood'
  BY DEF IInv, Rebuild, pipes, CacheIsGood, AskedFor
<1> QED
  BY <1>1, <1>2 DEF IInv

\* Nothing happens.
LEMMA StutterKeeps ==
    ASSUME IInv, UNCHANGED vars
    PROVE  IInv'
<1>1. Shapes' /\ RunsAreGood'
  BY DEF IInv, vars, pipes, shared, Shapes, RunsAreGood
<1>2. CacheIsGood'
  BY DEF IInv, vars, pipes, shared, CacheIsGood, AskedFor
<1> QED
  BY <1>1, <1>2 DEF IInv

-----------------------------------------------------------------------------
(* The invariant holds. *)

\* No run has been taken, and the cache is empty.
LEMMA InitIInv == Init => IInv
<1> SUFFICES ASSUME Init PROVE IInv
  OBVIOUS
<1>0. 0 \in 0..MaxStats /\ 0 \in 0..MaxFaults
  BY ProcessAssumption, RunnerAssumption
<1>1. \A r \in Runs : unwritten[r] \in Seq(Setting)
  BY RunnerAssumption DEF Init
<1>1a. unwritten \in [Runs -> Seq(Commands \cup Setting)]
  <2>1. ASSUME NEW r \in Runs PROVE unwritten[r] \in Seq(Commands \cup Setting)
    BY <1>1
  <2> QED
    BY <2>1 DEF Init
<1>2. NoProcess \in Programs /\ NotRun \in Results
  BY <1>0 DEF NoProcess, Programs, NotRun, Results, Statuses, Reasons
<1>3. Shapes
  BY <1>0, <1>1a, <1>2 DEF Init, Shapes, Stages, Contexts
<1>4. ASSUME NEW r \in Runs
      PROVE  Good(r, process[r], stdin[r], stdout[r], stage[r], context[r], stopped, unwritten[r], result[r])
  <2> DEFINE p == process[r]
             in == stdin[r]
             out == stdout[r]
             st == stage[r]
             ctx == context[r]
             unw == unwritten[r]
             v == result[r]
  <2>1. p = NoProcess /\ in = <<>> /\ out = <<>> /\ st = "queued" /\ ctx = "live" /\ v = NotRun
        /\ stopped = {}
    BY DEF Init
  <2>2. unw \in Seq(Setting) /\ unw \in Seq(Commands \cup Setting)
    BY <1>1, <1>1a
  <2> HIDE DEF p, in, out, st, ctx, unw, v
  <2>3. /\ in \in Seq(Commands) /\ Len(in) <= PipeSize /\ out \in Seq(Lines) /\ Len(out) <= PipeSize
        /\ DOMAIN out = {}
    BY <2>1, ProcessAssumption
  <2>4. /\ p.at = "none" /\ ~p.rejected /\ p.wrote = 0 /\ p.exit = "none" /\ ~p.oom
        /\ v.status = "FAILED" /\ v.reason = "" /\ ~v.error /\ v.stats = 0 /\ v.rows = 0
        /\ ~v.ended /\ ~v.stored
    BY <2>1 DEF NoProcess, NotRun
  <2>5. StatsIn(out) = 0
    BY <2>3, NoStats
  <2>6. WellTyped(p, in, out, st, ctx, unw, v)
    BY <1>2, <2>1, <2>2, <2>3 DEF WellTyped, Stages, Contexts
  <2>7. Placed(p, in, out, st, unw, v)
    BY <2>1, <2>2, <2>4 DEF Placed, Running
  <2>8. InStep(p, in, out, st, v)
    BY <2>1, <2>3, <2>4 DEF InStep, NoEnd, EndIsLast
  <2>9. Counted(r, p, out, st, v)
    <3>1. v.stats = 0 /\ v.rows = 0 /\ p.wrote = 0 /\ StatsIn(out) = 0
      BY <2>4, <2>5
    <3> QED
      BY <3>1 DEF Counted
  <2>10. Complete(r, p, st, v) /\ Caused(r, p, st, ctx, stopped, v)
    BY <2>1, <2>4 DEF Complete, Caused, Running
  <2>11. Good(r, p, in, out, st, ctx, stopped, unw, v)
    BY <2>6, <2>7, <2>8, <2>9, <2>10 DEF Good
  <2> QED
    BY <2>11 DEF p, in, out, st, ctx, unw, v
<1>5. CacheIsGood
  <2>1. binary \in [Runs -> Digests \cup {NoDigest}] /\ cache \in Caches /\ cache.entry = cache.file
        /\ cache.file = NoDigest
    BY DEF Init, EmptyCache, Caches
  <2>2. ASSUME NEW r \in Runs
        PROVE  holder # r /\ stage[r] = "queued" /\ process[r].at = "none" /\ binary[r] = NoDigest
    BY RunnerAssumption DEF Init, NoProcess
  <2> QED
    BY <2>1, <2>2 DEF Init, CacheIsGood
<1> QED
  BY <1>3, <1>4, <1>5 DEF IInv, RunsAreGood

\* Each action of a worker.
LEMMA WorkerPreserves ==
    ASSUME IInv, NEW r \in Runs, WorkerStep(r) \/ WorkerFault(r)
    PROVE  IInv'
<1>0. Shapes
  BY DEF IInv
<1>1. ASSUME FetchFails(r) \/ ChmodFails(r) PROVE IInv'
  <2>1. NotPrepared(r) /\ stage[r] \in {"fetch", "chmod"}
    BY <1>1 DEF FetchFails, ChmodFails
  <2>2. faults' \in 0..MaxFaults
    BY <1>0, <1>1, FaultCounts DEF FetchFails, ChmodFails, Shapes
  <2> QED
    BY <2>1, <2>2, NotPreparedKeeps
<1>2. ASSUME NoHello(r) \/ WriteFails(r) \/ NotReady(r) \/ BadLine(r) PROVE IInv'
  <2>1. /\ Failed(r) /\ Abandon(r) /\ faults' = faults
        /\ stage[r] \in {"hello", "config", "ready", "lines"}
    BY <1>2 DEF NoHello, WriteFails, NotReady, BadLine
  <2> QED
    BY <2>1, AbandonKeeps
<1>3. CASE Take(r)
  BY <1>3, TakeKeeps
<1>4. CASE CacheHit(r) \/ CacheMiss(r) \/ Fetched(r) \/ MakeExecutable(r)
  BY <1>4, HitKeeps, MissKeeps, FetchedKeeps, ExecutableKeeps
<1>5. CASE TraceFails(r) \/ StartFails(r) \/ StartProcess(r) \/ NotConfined(r)
  BY <1>5, TraceFailsKeeps, StartFailsKeeps, StartKeeps, NotConfinedKeeps
<1>6. CASE ReadHello(r) \/ ReadReady(r) \/ ReadStat(r) \/ ReadEnd(r) \/ RowNotWritten(r)
  BY <1>6, HelloKeeps, ReadyKeeps, StatKeeps, EndKeeps, RowFailsKeeps
<1>7. CASE WriteCommand(r) \/ EndOfLines(r) \/ Waited(r)
  BY <1>7, CommandKeeps, EndOfLinesKeeps, WaitedKeeps
<1>8. CASE Upload(r) \/ UploadFails(r) \/ Report(r)
  BY <1>8, UploadKeeps, UploadFailsKeeps, ReportKeeps
<1> QED
  BY <1>1, <1>2, <1>3, <1>4, <1>5, <1>6, <1>7, <1>8 DEF WorkerStep, WorkerFault

\* Each step of the program, and each stop, timeout, kill or crash.
LEMMA AroundPreserves ==
    ASSUME IInv, NEW r \in Runs, Around(r)
    PROVE  IInv'
<1>0. Shapes /\ faults \in 0..MaxFaults
  BY DEF IInv, Shapes
<1>1. CASE Simulates(r)
  <2>1. ProcessStep(r) /\ UNCHANGED <<runnerVars, context, stopped>> /\ UNCHANGED faults
    BY <1>1 DEF Simulates
  <2> QED
    BY <2>1, ProgramGreets, ProgramObeys, ProgramRejects, ProgramStarts, ProgramCounts, ProgramEnds,
       ProgramLeaves DEF ProcessStep
<1>2. CASE Stop(r) \/ Timeout(r)
  BY <1>2, StopKeeps, TimeoutKeeps
<1>3. CASE KillOnDone(r)
  <2>1. Dies(r, FALSE) /\ UNCHANGED <<runnerVars, context, stopped>> /\ faults' \in 0..MaxFaults
    BY <1>0, <1>3 DEF KillOnDone
  <2> QED
    BY <2>1, ProgramDies
<1>4. CASE Crash(r)
  <2>1. Dies(r, FALSE) /\ UNCHANGED <<runnerVars, context, stopped>> /\ faults' \in 0..MaxFaults
    BY <1>0, <1>4, FaultCounts DEF Crash
  <2> QED
    BY <2>1, ProgramDies
<1>5. CASE OomKill(r)
  <2>1. Dies(r, TRUE) /\ UNCHANGED <<runnerVars, context, stopped>> /\ faults' \in 0..MaxFaults
    BY <1>0, <1>5, FaultCounts DEF OomKill
  <2> QED
    BY <2>1, ProgramDies
<1> QED
  BY <1>1, <1>2, <1>3, <1>4, <1>5 DEF Around

\* Every step.
LEMMA NextPreserves == IInv /\ [Next]_vars => IInv'
<1> SUFFICES ASSUME IInv, [Next]_vars PROVE IInv'
  OBVIOUS
<1>1. ASSUME NEW r \in Runs, WorkerStep(r) \/ WorkerFault(r) PROVE IInv'
  BY <1>1, WorkerPreserves
<1>2. ASSUME NEW r \in Runs, Around(r) PROVE IInv'
  BY <1>2, AroundPreserves
<1> QED
  BY <1>1, <1>2, RebuildKeeps, StutterKeeps DEF Next

\* Each run's program, pipes and result fit the stage of its worker, and the
\* cache fits the runs (RunModelProcess, executeExperiment, GetOrDownload).
THEOREM Invariance == Spec => []IInv
  BY InitIInv, NextPreserves, PTL DEF Spec

\* The values have their types, the worker and its program agree on how far the
\* run is, the mutex is held exactly for a download, and no STAT line is counted
\* that the program has not written (RunModelProcess, GetOrDownload).
THEOREM TypeCorrect == Spec => []TypeOK
<1>1. IInv => TypeOK
  <2> SUFFICES ASSUME IInv PROVE TypeOK
    OBVIOUS
  <2>1. Shapes /\ CacheIsGood
    BY DEF IInv
  <2>2. ASSUME NEW r \in Runs
        PROVE  /\ Len(stdin[r]) <= PipeSize /\ Len(stdout[r]) <= PipeSize
               /\ process[r].at \notin {"none", "exited"} => stage[r] \in Running
               /\ result[r].stats + StatsIn(stdout[r]) <= process[r].wrote
    BY DEF IInv, RunsAreGood, Good, WellTyped, Placed, Counted
  <2>3. ProcessTypeOK
    BY <2>1, <2>2 DEF ProcessTypeOK, Shapes, Programs
  <2>4. /\ stage \in [Runs -> Stages] /\ context \in [Runs -> {"live", "canceled", "deadline"}]
        /\ stopped \subseteq Runs /\ faults \in 0..MaxFaults
        /\ \A r \in Runs : unwritten[r] \in Seq(Commands \cup Setting)
        /\ result \in [Runs -> [status : Statuses, reason : Reasons, error : BOOLEAN,
                                stats : 0..MaxStats, rows : 0..MaxStats, ended : BOOLEAN,
                                stored : BOOLEAN]]
    BY <2>1 DEF Shapes, Contexts, Results
  <2>5. /\ asked \in [Runs -> Digests \cup {NoDigest}]
        /\ object \in Digests /\ cache \in Caches /\ holder \in Runs \cup {NoRun}
        /\ binary \in [Runs -> Digests \cup {NoDigest}]
        /\ \A r \in Runs : /\ (holder = r) <=> stage[r] \in {"fetch", "chmod"}
                           /\ (process[r].at = "none") <=> (binary[r] = NoDigest)
    BY <2>1 DEF CacheIsGood
  <2>6. \A r \in Runs : /\ Alive(r) => stage[r] \in {"hello", "config", "ready", "lines", "wait"}
                       /\ result[r].stats + Cardinality({i \in DOMAIN stdout[r] :
                              stdout[r][i] = "STAT"}) <= process[r].wrote
    BY <2>2 DEF Alive, Running, StatsIn
  <2> QED
    BY <2>3, <2>4, <2>5, <2>6 DEF TypeOK
<1> QED
  BY <1>1, Invariance, PTL

\* A run is reported FINISHED only if the program accepted every setting, ended
\* by itself with END and no error, inside its memory limit, and every STAT line
\* it wrote was counted and, with store_metrics, is a row of the stored file
\* (RunModelProcess, executeExperiment).
THEOREM FinishedIsComplete == Spec => []FinishedMeansComplete
<1>1. IInv => FinishedMeansComplete
  BY DEF IInv, RunsAreGood, Good, Complete, FinishedMeansComplete, Done
<1> QED
  BY <1>1, Invariance, PTL

\* CANCELED stands for a stop and a stop for CANCELED or FINISHED, timeout for the
\* deadline, memory_limit_exceeded for an OOM kill, and an OOM kill is named
\* unless a stop or the deadline is (finishRunResult, Finish).
THEOREM OutcomesNameTheirCause == Spec => []OutcomeNamesItsCause
<1>1. IInv => OutcomeNamesItsCause
  <2> SUFFICES ASSUME IInv, NEW r \in Runs, Done(r)
               PROVE  /\ result[r].status = "CANCELED" <=> r \in stopped /\ result[r].status # "FINISHED"
                      /\ result[r].status = "CANCELED" <=> result[r].reason = "user_canceled"
                      /\ result[r].reason = "timeout" => context[r] = "deadline"
                      /\ result[r].reason = "memory_limit_exceeded" => process[r].oom
                      /\ process[r].oom => result[r].reason \in {"memory_limit_exceeded", "user_canceled", "timeout"}
    BY DEF OutcomeNamesItsCause
  <2>1. Caused(r, process[r], stage[r], context[r], stopped, result[r]) /\ stage[r] = "done"
    BY DEF IInv, RunsAreGood, Good, Done
  <2> QED
    BY <2>1 DEF Caused, Running
<1> QED
  BY <1>1, Invariance, PTL

\* What runs is what was asked for, or another build that another run of the
\* model asked for and downloaded in between; and the cache's entry is the
\* digest of its file while nobody downloads (GetOrDownload, GetFile).
THEOREM RunsAreAsAsked == Spec => []RunsWhatWasAsked
<1>1. IInv => RunsWhatWasAsked
  <2> SUFFICES ASSUME IInv PROVE RunsWhatWasAsked
    OBVIOUS
  <2>1. CacheIsGood
    BY DEF IInv
  <2>2. ASSUME NEW r \in Runs, binary[r] \notin {NoDigest, asked[r]}, asked[r] # NoDigest
        PROVE  \E q \in Runs \ {r} : asked[q] \in {NoDigest, binary[r]} /\ stage[q] \notin {"queued", "lookup"}
    <3>1. PICK q \in Runs : asked[q] \in {NoDigest, binary[r]} /\ stage[q] \notin {"queued", "lookup"}
      BY <2>1, <2>2 DEF CacheIsGood, AskedFor
    <3> QED
      BY <2>2, <3>1
  <2> QED
    BY <2>1, <2>2 DEF RunsWhatWasAsked, CacheIsGood
<1> QED
  BY <1>1, Invariance, PTL
=============================================================================
