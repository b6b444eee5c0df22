------------------------- MODULE SweepRunnerProofs -------------------------
(***************************************************************************)
(* What holds of the programs for every set of them and any number of      *)
(* crashes, and, for one run_sym.py at a time, of the matrices.            *)
(***************************************************************************)
EXTENDS SweepRunner, TLAPS

(* The disjuncts of Next, so that each has its step in the proofs.         *)
DriverStep(d) ==
  \/ Start(d) \/ Backup(d) \/ Generate(d) \/ Restore(d)
  \/ Skip(d) \/ Launch(d) \/ MoveEnds(d) \/ Report(d) \/ Interrupt(d)
  \/ \E text \in Text : SimEnds(d, text) \/ MoveBegins(d, text)

RealOutput == [nodes : {32, 128}, text : Text]

(* While its simulation runs or is moved, a program has a scratch file.    *)
HasScratch == \A d \in Drivers : pc[d] \in {"sim", "move"} => scratch[d] \in RealOutput

TypeInv == TypeOK /\ HasScratch

-----------------------------------------------------------------------------
(* The loops start with a file.                                            *)
LEMMA FirstFile == 1 \in File
  BY SweepAssumption DEF File

(* An experiment that has not been run has the types.                      *)
LEMMA InitTypes == Init => TypeInv
<1> SUFFICES ASSUME Init PROVE TypeInv
  OBVIOUS
<1>1. crashes \in 0 .. MaxCrashes
  BY SweepAssumption DEF Init
<1>2. scratch \in [Drivers -> Output] /\ out \in [Drivers -> Output]
  BY DEF Init, Output
<1>3. result \in [Drivers -> [status : {"none", "skip", "ok", "FAIL"}, warn : BOOLEAN]]
  BY DEF Init, NoResult
<1>4. HasScratch
  <2>1. \A d \in Drivers : pc[d] = "off"
    BY DEF Init
  <2> QED
    BY <2>1 DEF HasScratch
<1>5. /\ matrix \in [File -> {32, 128}] /\ backup \in [File -> {0, 32, 128}]
      /\ at \in [Drivers -> File] /\ unguarded \in BOOLEAN
  BY FirstFile DEF Init
<1>6. pc \in [Drivers -> {"off", "backup", "gen", "visit", "sim", "move", "report", "restore"}]
  BY DEF Init
<1>7. c2 \in [Cells -> [pc : {"off", "write", "zip", "rename"}, stdout : C2File,
                        tmp : {"none", "part", "good"}, trace : {"none", "part", "good"}]]
  BY DEF Init, C2File
<1> QED
  BY <1>1, <1>2, <1>3, <1>4, <1>5, <1>6, <1>7 DEF TypeInv, TypeOK

(* A loop over the files goes on, or leaves for its next phase.            *)
LEMMA LoopTypes ==
  ASSUME TypeInv, NEW d \in Drivers, NEW from, NEW to \in {"gen", "visit", "off"},
         NextFile(d, from, to)
  PROVE  /\ pc' \in [Drivers -> {"off", "backup", "gen", "visit", "sim", "move", "report", "restore"}]
         /\ at' \in [Drivers -> File]
         /\ \A e \in Drivers : pc'[e] \in {"sim", "move"} => pc[e] \in {"sim", "move"}
<1> USE DEF TypeInv, TypeOK
<1>1. CASE at[d] < NFiles
  <2>1. at' = [at EXCEPT ![d] = at[d] + 1] /\ pc' = pc
    BY <1>1 DEF NextFile
  <2>2. at[d] \in 1 .. NFiles
    BY DEF File
  <2>3. at[d] + 1 \in File
    BY <1>1, <2>2, SweepAssumption DEF File
  <2> QED
    BY <2>1, <2>3
<1>2. CASE ~(at[d] < NFiles)
  <2>1. at' = [at EXCEPT ![d] = 1] /\ pc' = [pc EXCEPT ![d] = to]
    BY <1>2 DEF NextFile
  <2> QED
    BY <2>1, FirstFile
<1> QED
  BY <1>1, <1>2

(* The steps of the sweep drivers keep the types.                          *)
LEMMA DriverTypes ==
  ASSUME TypeInv, NEW d \in Drivers, DriverStep(d)
  PROVE  TypeInv'
<1> USE DEF TypeInv, TypeOK, HasScratch, Goes
<1>1. CASE Start(d) \/ Backup(d) \/ Generate(d) \/ Restore(d)
  <2>1. CASE Start(d)
    BY <2>1 DEF Start, NoResult
  <2>2. CASE Backup(d)
    <3>1. backup' \in [File -> {0, 32, 128}]
      BY <2>2 DEF Backup
    <3> QED
      BY <2>2, <3>1, LoopTypes DEF Backup, NextFile
  <2>3. CASE Generate(d)
    <3>1. matrix' \in [File -> {32, 128}]
      BY <2>3 DEF Generate
    <3> QED
      BY <2>3, <3>1, LoopTypes DEF Generate, NextFile
  <2>4. CASE Restore(d)
    <3>1. matrix' \in [File -> {32, 128}] /\ backup' \in [File -> {0, 32, 128}]
      BY <2>4 DEF Restore
    <3> QED
      BY <2>4, <3>1, LoopTypes DEF Restore, NextFile
  <2> QED
    BY <1>1, <2>1, <2>2, <2>3, <2>4
<1>2. CASE Skip(d)
  BY <1>2 DEF Skip, Ended, Warns
<1>3. CASE Launch(d)
  <2>1. PICK f \in File :
          scratch' = [scratch EXCEPT ![d] = [nodes |-> matrix[f], text |-> "cut"]]
    BY <1>3 DEF Launch
  <2>2. matrix[f] \in {32, 128}
    BY <2>1
  <2>3. [nodes |-> matrix[f], text |-> "cut"] \in RealOutput
    BY <2>2 DEF RealOutput, Text
  <2>4. scratch' \in [Drivers -> Output] /\ out' \in [Drivers -> Output]
    BY <1>3, <2>1, <2>3 DEF Launch, Output, RealOutput
  <2>5. HasScratch'
    BY <1>3, <2>1, <2>3 DEF Launch
  <2> QED
    BY <1>3, <2>4, <2>5 DEF Launch
<1>4. CASE MoveEnds(d)
  BY <1>4 DEF MoveEnds, Output
<1>5. CASE Report(d)
  BY <1>5 DEF Report, Ended
<1>6. CASE Interrupt(d)
  <2>1. at' \in [Drivers -> File]
    BY <1>6, SweepAssumption DEF Interrupt, File
  <2> QED
    BY <1>6, <2>1 DEF Interrupt, Ended, Output
<1>7. ASSUME NEW text \in Text, SimEnds(d, text) PROVE TypeInv'
  <2>1. [scratch[d] EXCEPT !.text = text] \in RealOutput
    BY <1>7 DEF SimEnds, RealOutput
  <2>2. scratch' = [scratch EXCEPT ![d] = [scratch[d] EXCEPT !.text = text]]
    BY <1>7 DEF SimEnds
  <2>3. scratch' \in [Drivers -> Output]
    BY <2>1, <2>2 DEF Output, RealOutput
  <2> QED
    BY <1>7, <2>1, <2>2, <2>3 DEF SimEnds
<1>8. ASSUME NEW text \in Text, MoveBegins(d, text) PROVE TypeInv'
  <2>1. [scratch[d] EXCEPT !.text = text] \in RealOutput
    BY <1>8 DEF MoveBegins, RealOutput
  <2>2. out' \in [Drivers -> Output]
    BY <1>8, <2>1 DEF MoveBegins, Output, RealOutput
  <2> QED
    BY <1>8, <2>2 DEF MoveBegins
<1> QED
  BY <1>1, <1>2, <1>3, <1>4, <1>5, <1>6, <1>7, <1>8 DEF DriverStep

(* A cell of run_c2.py with its files.  A trace is whole and that of a     *)
(* success; the output is one of a success from the time the trace is      *)
(* zipped, and is written only where there is no trace; what is renamed    *)
(* has been zipped to its end.                                             *)
C2Files == [pc : {"off", "write", "zip", "rename"}, stdout : C2File,
            tmp : {"none", "part", "good"}, trace : {"none", "part", "good"}]

CellOK(files) ==
  /\ files.trace # "none" => files.trace = "good" /\ files.stdout = "good"
  /\ files.pc \in {"zip", "rename"} => files.stdout = "good"
  /\ files.pc = "write" => files.trace = "none"
  /\ files.pc = "rename" => files.tmp = "good"

(* A step of run_cell() touches its own cell only, and keeps it so.        *)
LEMMA C2Step ==
  ASSUME NEW c \in Cells, c2[c] \in C2Files, C2Next(c)
  PROVE  \E files \in C2Files :
           /\ c2' = [c2 EXCEPT ![c] = files]
           /\ CellOK(c2[c]) => CellOK(files)
           /\ UNCHANGED <<matrix, backup, pc, at, scratch, out, result, crashes, unguarded>>
<1> USE DEF C2Files, C2File, CellOK, C2Goes
<1>1. CASE C2Runs(c)
  <2> DEFINE files == [[c2[c] EXCEPT !.stdout = "part"] EXCEPT !.pc = "write"]
  <2>1. files \in C2Files /\ (CellOK(c2[c]) => CellOK(files))
    BY <1>1 DEF C2Runs, C2Skips
  <2> QED
    BY <1>1, <2>1 DEF C2Runs
<1>2. ASSUME NEW ok \in BOOLEAN, C2Writes(c, ok)
      PROVE  \E files \in C2Files :
               /\ c2' = [c2 EXCEPT ![c] = files]
               /\ CellOK(c2[c]) => CellOK(files)
               /\ UNCHANGED <<matrix, backup, pc, at, scratch, out, result, crashes, unguarded>>
  <2> DEFINE files == [[c2[c] EXCEPT !.stdout = IF ok THEN "good" ELSE "failed",
                                     !.tmp    = IF ok THEN "part" ELSE @]
                         EXCEPT !.pc = IF ok THEN "zip" ELSE "off"]
  <2>1. files \in C2Files /\ (CellOK(c2[c]) => CellOK(files))
    BY <1>2 DEF C2Writes
  <2>2. c2' = [c2 EXCEPT ![c] = files]
    BY <1>2 DEF C2Writes
  <2>3. UNCHANGED <<matrix, backup, pc, at, scratch, out, result, crashes, unguarded>>
    BY <1>2 DEF C2Writes
  <2> HIDE DEF files
  <2> QED
    BY <2>1, <2>2, <2>3
<1>3. CASE C2Zips(c)
  <2> DEFINE files == [[c2[c] EXCEPT !.tmp = "good"] EXCEPT !.pc = "rename"]
  <2>1. files \in C2Files /\ (CellOK(c2[c]) => CellOK(files))
    BY <1>3 DEF C2Zips
  <2> QED
    BY <1>3, <2>1 DEF C2Zips
<1>4. CASE C2Renames(c)
  <2> DEFINE files == [[c2[c] EXCEPT !.trace = c2[c].tmp, !.tmp = "none"] EXCEPT !.pc = "off"]
  <2>1. files \in C2Files /\ (CellOK(c2[c]) => CellOK(files))
    BY <1>4 DEF C2Renames
  <2> QED
    BY <1>4, <2>1 DEF C2Renames
<1> QED
  BY <1>1, <1>2, <1>3, <1>4 DEF C2Next

(* So do those of the C2 driver.                                           *)
LEMMA C2Types ==
  ASSUME TypeInv, NEW c \in Cells, C2Next(c)
  PROVE  TypeInv'
<1>1. c2 \in [Cells -> C2Files]
  BY DEF TypeInv, TypeOK, C2Files
<1>2. PICK files \in C2Files :
        /\ c2' = [c2 EXCEPT ![c] = files]
        /\ UNCHANGED <<matrix, backup, pc, at, scratch, out, result, crashes, unguarded>>
  BY <1>1, C2Step
<1>3. c2' \in [Cells -> C2Files]
  BY <1>1, <1>2
<1> QED
  BY <1>2, <1>3 DEF TypeInv, TypeOK, HasScratch, C2Files

(* So does a crash.                                                        *)
LEMMA CrashTypes == TypeInv /\ Crash => TypeInv'
<1> SUFFICES ASSUME TypeInv, Crash PROVE TypeInv'
  OBVIOUS
<1>1. crashes' \in 0 .. MaxCrashes
  BY SweepAssumption DEF TypeInv, TypeOK, Crash
<1>2. c2' = [c \in Cells |-> [c2[c] EXCEPT !.pc = "off"]] /\ UNCHANGED <<matrix, backup, out, unguarded>>
  BY DEF Crash
<1>3. /\ scratch' \in [Drivers -> Output] /\ pc' = [d \in Drivers |-> "off"]
      /\ at' \in [Drivers -> File]
  BY SweepAssumption DEF Crash, Output, File
<1>4. result' \in [Drivers -> [status : {"none", "skip", "ok", "FAIL"}, warn : BOOLEAN]]
  BY DEF Crash, NoResult
<1>5. c2' \in [Cells -> C2Files]
  BY <1>2 DEF TypeInv, TypeOK, C2Files
<1>6. HasScratch'
  BY <1>3 DEF HasScratch
<1> QED
  BY <1>1, <1>2, <1>3, <1>4, <1>5, <1>6 DEF TypeInv, TypeOK, C2Files

(* So does every step.                                                     *)
LEMMA TypesKept == TypeInv /\ [Next]_vars => TypeInv'
<1>1. TypeInv /\ UNCHANGED vars => TypeInv'
  BY DEF TypeInv, TypeOK, HasScratch, vars
<1>2. Next => (\E c \in Cells : C2Next(c)) \/ Crash \/ \E d \in Drivers : DriverStep(d)
  BY DEF Next, DriverStep
<1> QED
  BY <1>1, <1>2, DriverTypes, C2Types, CrashTypes

(* The types hold in every reachable state.                                *)
LEMMA TypeInvHolds == Spec => []TypeInv
  BY InitTypes, TypesKept, PTL DEF Spec

(* Every operation of run_sym.py, run_fig7.py, run_one() and run_cell()    *)
(* keeps the types.                                                        *)
THEOREM TypeCorrect == Spec => []TypeOK
<1>1. TypeInv => TypeOK
  BY DEF TypeInv
<1> QED
  BY <1>1, TypeInvHolds, PTL
-----------------------------------------------------------------------------

-----------------------------------------------------------------------------
(* The results of run_one().  A pass has printed nothing for a cell before *)
(* it reports or skips it; until the move is over the outfile is not whole.*)
Under == {"backup", "gen", "visit", "sim", "move", "report"}

ResultInv ==
  \A d \in Drivers :
    /\ pc[d] \in Under => result[d].status = "none"
    /\ result[d].status # "none" /\ HasResults(out[d]) /\ out[d].nodes # Expected(d)
         => result[d].warn
    /\ pc[d] \in {"sim", "move"} => out[d].text # "full"

(* The steps of the drivers keep the facts about results.                  *)
LEMMA DriverResults ==
  ASSUME TypeInv, ResultInv, NEW d \in Drivers, DriverStep(d)
  PROVE  ResultInv'
<1> USE DEF TypeInv, TypeOK, ResultInv, Goes, Under
<1>1. CASE Start(d) \/ Backup(d) \/ Generate(d) \/ Restore(d)
  BY <1>1 DEF Start, Backup, Generate, Restore, NextFile, NoResult, Expected, HasResults
<1>2. CASE Skip(d)
  BY <1>2 DEF Skip, Ended, Warns, Expected, HasResults
<1>3. CASE Launch(d)
  BY <1>3 DEF Launch, NoFile, Expected, HasResults
<1>4. CASE MoveEnds(d)
  BY <1>4 DEF MoveEnds, Expected, HasResults
<1>5. CASE Report(d)
  BY <1>5 DEF Report, Ended, Warns, Expected, HasResults
<1>6. CASE Interrupt(d)
  BY <1>6 DEF Interrupt, Ended, Expected, HasResults
<1>7. ASSUME NEW text \in Text, SimEnds(d, text) PROVE ResultInv'
  BY <1>7 DEF SimEnds, Expected, HasResults
<1>8. ASSUME NEW text \in Text, MoveBegins(d, text) PROVE ResultInv'
  <2>1. [scratch[d] EXCEPT !.text = text].text = text
    BY <1>8 DEF MoveBegins, HasScratch, RealOutput
  <2>2. out' = [out EXCEPT ![d] = [scratch[d] EXCEPT !.text = text]] /\ text # "full"
    BY <1>8 DEF MoveBegins
  <2>3. out'[d].text # "full" /\ \A e \in Drivers \ {d} : out'[e] = out[e]
    BY <2>1, <2>2
  <2> QED
    BY <1>8, <2>3 DEF MoveBegins, Expected, HasResults
<1> QED
  BY <1>1, <1>2, <1>3, <1>4, <1>5, <1>6, <1>7, <1>8 DEF DriverStep

(* The facts about results hold in every reachable state.                  *)
LEMMA ResultInvHolds == Spec => []ResultInv
<1>1. Init => ResultInv
  BY DEF Init, ResultInv, NoResult, NoFile, Under
<1>2. TypeInv /\ ResultInv /\ [Next]_vars => ResultInv'
  <2>1. TypeInv /\ ResultInv /\ UNCHANGED vars => ResultInv'
    BY DEF ResultInv, vars, Expected, HasResults
  <2>2. ASSUME ResultInv, NEW c \in Cells, C2Next(c) PROVE ResultInv'
    BY <2>2 DEF ResultInv, C2Next, C2Runs, C2Zips, C2Renames, C2Writes, C2Goes,
           Expected, HasResults
  <2>3. ResultInv /\ Crash => ResultInv'
    BY DEF ResultInv, Crash, NoResult, Expected, HasResults, Under
  <2>4. Next => (\E c \in Cells : C2Next(c)) \/ Crash \/ \E d \in Drivers : DriverStep(d)
    BY DEF Next, DriverStep
  <2> QED
    BY <2>1, <2>2, <2>3, <2>4, DriverResults
<1> QED
  BY <1>1, <1>2, TypeInvHolds, PTL DEF Spec

(* Results from a matrix of the wrong size never pass for good ones: the   *)
(* line that run_one() and emit() print for the cell warns of them.        *)
THEOREM WrongMatrixIsReported == Spec => []WrongMatrixReported
<1>1. ResultInv => WrongMatrixReported
  BY DEF ResultInv, WrongMatrixReported
<1> QED
  BY <1>1, ResultInvHolds, PTL

(* run_one() never loses or repeats a run that finished.                   *)
THEOREM ResultsAreKept == Spec => ResultsKept
<1> DEFINE Kept == \A d \in Drivers : out[d].text = "full" => out'[d] = out[d]
<1>1. ASSUME TypeInv, ResultInv, NEW d \in Drivers, DriverStep(d) PROVE Kept
  <2> USE DEF TypeInv, TypeOK, ResultInv
  <2>1. CASE Launch(d)
    BY <1>1, <2>1 DEF Launch, HasResults
  <2>2. CASE MoveEnds(d)
    BY <1>1, <2>2 DEF MoveEnds, Goes
  <2>3. ASSUME NEW text \in Text, MoveBegins(d, text) PROVE Kept
    BY <1>1, <2>3 DEF MoveBegins, NoFile
  <2>4. CASE UNCHANGED out
    BY <2>4
  <2> QED
    BY <1>1, <2>1, <2>2, <2>3, <2>4
    DEF DriverStep, Start, Backup, Generate, Restore, NextFile, Skip, Report, Interrupt, SimEnds
<1>2. (\E c \in Cells : C2Next(c)) \/ Crash \/ UNCHANGED vars => Kept
  BY DEF C2Next, C2Runs, C2Zips, C2Renames, C2Writes, C2Goes, Crash, vars
<1>3. TypeInv /\ ResultInv /\ [Next]_vars => [Kept]_vars
  BY <1>1, <1>2 DEF Next, DriverStep
<1> QED
  BY <1>3, TypeInvHolds, ResultInvHolds, PTL DEF Spec, ResultsKept
-----------------------------------------------------------------------------

-----------------------------------------------------------------------------
(* run_cell() of run_c2.py: each cell is as its steps leave it.            *)
TraceInv == \A c \in Cells : CellOK(c2[c])

(* Whatever is interrupted, a trace that lies in its place is whole.       *)
THEOREM TracesAreWhole == Spec => []TraceIsWhole
<1>1. Init => TraceInv
  BY DEF Init, TraceInv, CellOK
<1>2. ASSUME TypeInv, TraceInv, NEW c \in Cells, C2Next(c) PROVE TraceInv'
  <2>1. c2 \in [Cells -> C2Files]
    BY <1>2 DEF TypeInv, TypeOK, C2Files
  <2>2. PICK files : c2' = [c2 EXCEPT ![c] = files] /\ (CellOK(c2[c]) => CellOK(files))
    BY <1>2, <2>1, C2Step
  <2>3. c2'[c] = files /\ \A e \in Cells \ {c} : c2'[e] = c2[e]
    BY <2>1, <2>2
  <2> QED
    BY <1>2, <2>2, <2>3 DEF TraceInv
<1>3. ASSUME TypeInv, TraceInv, Crash PROVE TraceInv'
  <2>1. ASSUME NEW c \in Cells PROVE CellOK(c2'[c])
    <3>1. c2[c] \in C2Files /\ CellOK(c2[c])
      BY <1>3 DEF TypeInv, TypeOK, C2Files, TraceInv
    <3>2. c2'[c] = [c2[c] EXCEPT !.pc = "off"]
      BY <1>3 DEF Crash
    <3> QED
      BY <3>1, <3>2 DEF C2Files, CellOK
  <2> QED
    BY <2>1 DEF TraceInv
<1>4. ASSUME TraceInv, UNCHANGED c2 PROVE TraceInv'
  BY <1>4 DEF TraceInv
<1>5. ASSUME NEW d \in Drivers, DriverStep(d) PROVE UNCHANGED c2
  BY <1>5 DEF DriverStep, Start, Backup, Generate, Restore, NextFile, Skip, Launch, MoveEnds,
              Report, Interrupt, SimEnds, MoveBegins
<1>6. TypeInv /\ TraceInv /\ [Next]_vars => TraceInv'
  BY <1>2, <1>3, <1>4, <1>5 DEF Next, DriverStep, vars
<1>7. TraceInv => TraceIsWhole
  BY DEF TraceInv, CellOK, TraceIsWhole
<1> QED
  BY <1>1, <1>6, <1>7, TypeInvHolds, PTL DEF Spec

-----------------------------------------------------------------------------
(* The matrices while one run_sym.py at a time works on them: only it goes *)
(* through the steps that touch them.                                      *)
Touching == {"backup", "gen", "restore"}

(* How far a program with --prep-cms is with file f: it has been copied    *)
(* since the backup began, and has not been put back since.                *)
CopyMade(d, f) ==
  \/ pc[d] \in {"gen", "visit", "sim", "move", "report"}
  \/ pc[d] = "backup" /\ f < at[d]
  \/ pc[d] = "restore" /\ at[d] <= f

PutBack(d, f) == pc[d] = "restore" /\ f < at[d]

(* A 32-rank file has a 32-rank copy while there is one to be restored; if *)
(* nothing went wrong, every file is in the tree or in its copy.           *)
FileInv(d, f) ==
  /\ CopyMade(d, f) /\ matrix[f] = 32 => backup[f] = 32
  /\ PutBack(d, f) => backup[f] = 0
  /\ crashes = 0 /\ ~unguarded =>
       IF pc[d] \in {"off", "backup"} \/ PutBack(d, f) THEN matrix[f] = 32 ELSE backup[f] = 32

MatrixInv ==
  /\ \A d \in Plain : pc[d] \notin Touching
  /\ \A d \in Prep : /\ pc[d] \notin Touching => at[d] = 1
                     /\ \A f \in File : FileInv(d, f)

Lost(f) == 32 \in {matrix[f], backup[f]} /\ 32 \notin {matrix'[f], backup'[f]}

(* A driver that generates no matrix keeps the facts about matrices.       *)
LEMMA PlainStep ==
  ASSUME TypeInv, MatrixInv, NEW d \in Plain, DriverStep(d)
  PROVE  MatrixInv' /\ \A f \in File : ~Lost(f)
<1> USE DEF TypeInv, TypeOK, Touching, Goes
<1>1. d \in Drivers /\ d \notin Prep /\ pc[d] \notin Touching
  BY SweepAssumption DEF Drivers, MatrixInv
<1>2. /\ UNCHANGED <<matrix, backup, crashes, unguarded>>
      /\ \E to \in {"off", "visit", "sim", "move", "report"} : pc' = [pc EXCEPT ![d] = to]
      /\ at' = at \/ at' = [at EXCEPT ![d] = 1]
  <2>1. CASE Start(d) \/ Skip(d) \/ Launch(d) \/ MoveEnds(d) \/ Report(d)
    BY <1>1, <2>1 DEF Start, Skip, Launch, MoveEnds, Report, Ended
  <2>2. CASE Interrupt(d)
    <3>1. pc[d] \in {"visit", "sim", "move", "report"}
      BY <1>1, <2>2 DEF Interrupt
    <3> QED
      BY <1>1, <2>2, <3>1 DEF Interrupt, Ended
  <2>3. ASSUME NEW text \in Text, SimEnds(d, text) \/ MoveBegins(d, text)
        PROVE  /\ UNCHANGED <<matrix, backup, at, crashes, unguarded>>
               /\ \E to \in {"off", "visit", "sim", "move", "report"} : pc' = [pc EXCEPT ![d] = to]
    <3>1. CASE SimEnds(d, text)
      BY <3>1 DEF SimEnds
    <3>2. CASE MoveBegins(d, text)
      <4>1. pc' = [pc EXCEPT ![d] = "move"]
        BY <1>1, <3>2 DEF MoveBegins
      <4> QED
        BY <3>2, <4>1 DEF MoveBegins
    <3> QED
      BY <2>3, <3>1, <3>2
  <2> QED
    BY <1>1, <2>1, <2>2, <2>3 DEF DriverStep, Backup, Generate, Restore, NextFile
<1>3. PICK to \in {"off", "visit", "sim", "move", "report"} : pc' = [pc EXCEPT ![d] = to]
  BY <1>2
<1>4. pc'[d] = to /\ \A e \in Drivers \ {d} : pc'[e] = pc[e] /\ at'[e] = at[e]
  BY <1>1, <1>2, <1>3
<1>5. \A e \in Prep : e \in Drivers \ {d}
  BY <1>1 DEF Drivers
<1>6. \A e \in Plain : pc'[e] \notin Touching
  BY <1>4 DEF Drivers, MatrixInv
<1>7. ASSUME NEW e \in Prep, NEW f \in File PROVE FileInv(e, f)'
  BY <1>2, <1>4, <1>5 DEF MatrixInv, FileInv, CopyMade, PutBack
<1> QED
  BY <1>2, <1>4, <1>5, <1>6, <1>7 DEF MatrixInv, Lost

(* So does the one driver that generates them.                             *)
LEMMA PrepStep ==
  ASSUME TypeInv, MatrixInv, NEW fig, Prep = {fig}, DriverStep(fig)
  PROVE  MatrixInv' /\ \A f \in File : Lost(f) => Backup(fig) /\ at[fig] = f
<1> USE DEF TypeInv, TypeOK, Touching, Goes
<1>1. fig \in Drivers /\ fig \notin Plain /\ \A e \in Plain : e \in Drivers /\ e # fig
  BY SweepAssumption DEF Drivers
<1>2. \A e \in Plain : pc'[e] = pc[e]
  BY <1>1 DEF DriverStep, Start, Backup, Generate, Restore, NextFile, Skip, Launch, MoveEnds,
              Report, Interrupt, SimEnds, MoveBegins
<1>3. SUFFICES /\ pc'[fig] \notin Touching => at'[fig] = 1
               /\ \A f \in File : FileInv(fig, f)' /\ (Lost(f) => Backup(fig) /\ at[fig] = f)
  BY <1>2 DEF MatrixInv
<1>4. /\ pc[fig] \notin Touching => at[fig] = 1
      /\ \A f \in File : FileInv(fig, f)
  BY DEF MatrixInv
<1> USE DEF FileInv, CopyMade, PutBack
<1>5. CASE Start(fig)
  BY <1>1, <1>4, <1>5 DEF Start, Lost, File
<1>6. ASSUME NEW from, NEW to, NextFile(fig, from, to)
      PROVE  /\ UNCHANGED <<crashes, unguarded>> /\ pc[fig] = from /\ at[fig] \in File
             /\ \/ at[fig] < NFiles /\ at'[fig] = at[fig] + 1 /\ pc'[fig] = from
                \/ at[fig] = NFiles /\ at'[fig] = 1 /\ pc'[fig] = to
  BY <1>1, <1>6, SweepAssumption DEF NextFile, File
<1>7. CASE Backup(fig)
  <2>1. /\ matrix' = matrix /\ backup'[at[fig]] = matrix[at[fig]]
        /\ \A f \in File \ {at[fig]} : backup'[f] = backup[f]
    BY <1>1, <1>7 DEF Backup
  <2>2. ASSUME NEW f \in File PROVE FileInv(fig, f)' /\ (Lost(f) => at[fig] = f)
    BY <1>4, <1>6, <1>7, <2>1, <2>2, SweepAssumption DEF Backup, File, Lost
  <2> QED
    BY <1>6, <1>7, <2>2 DEF Backup
<1>8. CASE Generate(fig)
  <2>1. /\ backup' = backup /\ matrix'[at[fig]] \in {matrix[at[fig]], 128}
        /\ \A f \in File \ {at[fig]} : matrix'[f] = matrix[f]
    BY <1>1, <1>8 DEF Generate
  <2>2. ASSUME NEW f \in File PROVE FileInv(fig, f)' /\ ~Lost(f)
    BY <1>4, <1>6, <1>8, <2>1, <2>2, SweepAssumption DEF Generate, File, Lost
  <2> QED
    BY <1>6, <1>8, <2>2 DEF Generate
<1>9. CASE Restore(fig)
  <2>1. /\ backup'[at[fig]] = 0
        /\ matrix'[at[fig]] = IF backup[at[fig]] = 0 THEN matrix[at[fig]] ELSE backup[at[fig]]
        /\ \A f \in File \ {at[fig]} : matrix'[f] = matrix[f] /\ backup'[f] = backup[f]
    BY <1>1, <1>9 DEF Restore
  <2>2. ASSUME NEW f \in File PROVE FileInv(fig, f)' /\ ~Lost(f)
    BY <1>4, <1>6, <1>9, <2>1, <2>2, SweepAssumption DEF Restore, File, Lost
  <2> QED
    BY <1>6, <1>9, <2>2 DEF Restore
<1>10. CASE Skip(fig) \/ Launch(fig) \/ MoveEnds(fig) \/ Report(fig)
  <2>1. /\ UNCHANGED <<matrix, backup, at, crashes, unguarded>>
        /\ pc[fig] \in {"visit", "sim", "move", "report"}
        /\ pc'[fig] \in {"visit", "sim", "move", "report", "restore"}
    BY <1>1, <1>10 DEF Skip, Launch, MoveEnds, Report, Ended
  <2> QED
    BY <1>4, <2>1 DEF Lost, File
<1>11. CASE Interrupt(fig)
  <2>1. UNCHANGED <<matrix, backup, crashes>> /\ at'[fig] = 1
    BY <1>1, <1>11 DEF Interrupt
  <2>2. CASE pc[fig] \in {"backup", "gen", "restore"}
    <3>1. pc'[fig] = "off" /\ unguarded' = (unguarded \/ pc[fig] \in {"gen", "restore"})
      BY <1>1, <1>11, <2>2 DEF Interrupt
    <3> QED
      BY <1>4, <2>1, <2>2, <3>1 DEF Lost
  <2>3. CASE pc[fig] \in {"visit", "sim", "move", "report"}
    <3>1. pc'[fig] = "restore" /\ unguarded' = unguarded
      BY <1>1, <1>11, <2>3 DEF Interrupt, Ended
    <3> QED
      BY <1>4, <2>1, <2>3, <3>1 DEF Lost, File
  <2> QED
    BY <1>1, <1>11, <2>2, <2>3 DEF Interrupt
<1>12. ASSUME NEW text \in Text, SimEnds(fig, text) \/ MoveBegins(fig, text)
       PROVE  /\ pc'[fig] \notin Touching => at'[fig] = 1
              /\ \A f \in File : FileInv(fig, f)' /\ ~Lost(f)
  <2>1. /\ UNCHANGED <<matrix, backup, at, crashes, unguarded>>
        /\ pc[fig] \in {"sim", "move"} /\ pc'[fig] = "move"
    BY <1>1, <1>12 DEF SimEnds, MoveBegins
  <2> QED
    BY <1>4, <2>1 DEF Lost
<1> QED
  BY <1>5, <1>7, <1>8, <1>9, <1>10, <1>11, <1>12 DEF DriverStep

(* So does every step, with one such driver.                               *)
LEMMA MatrixStep ==
  ASSUME NEW fig, Prep = {fig}, TypeInv, MatrixInv, [Next]_vars
  PROVE  MatrixInv' /\ \A f \in File : Lost(f) => Backup(fig) /\ at[fig] = f
<1>1. CASE (\E c \in Cells : C2Next(c)) \/ UNCHANGED vars
  <2>1. UNCHANGED <<matrix, backup, pc, at, crashes, unguarded>>
    BY <1>1 DEF C2Next, C2Runs, C2Zips, C2Renames, C2Writes, C2Goes, vars
  <2> QED
    BY <2>1 DEF MatrixInv, FileInv, CopyMade, PutBack, Lost
<1>2. CASE Crash
  <2>1. /\ crashes' # 0 /\ UNCHANGED <<matrix, backup>>
        /\ \A d \in Drivers : pc'[d] = "off" /\ at'[d] = 1
    BY <1>2, SweepAssumption DEF Crash, TypeInv, TypeOK
  <2>2. Prep \subseteq Drivers /\ Plain \subseteq Drivers
    BY DEF Drivers
  <2> QED
    BY <2>1, <2>2 DEF MatrixInv, FileInv, CopyMade, PutBack, Lost, Touching
<1>3. ASSUME NEW d \in Drivers, DriverStep(d)
      PROVE  MatrixInv' /\ \A f \in File : Lost(f) => Backup(fig) /\ at[fig] = f
  BY <1>3, PlainStep, PrepStep DEF Drivers
<1> QED
  BY <1>1, <1>2, <1>3 DEF Next, DriverStep

(* The facts about matrices hold in every reachable state.                 *)
LEMMA MatrixInvHolds ==
  ASSUME NEW fig, Prep = {fig}
  PROVE  Spec => []MatrixInv
<1>1. Init => MatrixInv
  BY DEF Init, MatrixInv, FileInv, CopyMade, PutBack, Drivers, Touching
<1>2. TypeInv /\ MatrixInv /\ [Next]_vars => MatrixInv'
  BY MatrixStep
<1> QED
  BY <1>1, <1>2, TypeInvHolds, PTL DEF Spec

(* One run_sym.py at a time leaves the matrices as it found them, except   *)
(* after a crash or an end before its try block or in its finally clause.  *)
THEOREM TreeIsRestored ==
  ASSUME NEW fig, Prep = {fig}
  PROVE  Spec => []TreeRestored
<1>1. MatrixInv => TreeRestored
  BY DEF MatrixInv, FileInv, PutBack, TreeRestored
<1> QED
  BY <1>1, MatrixInvHolds, PTL

(* ... and even then a 32-rank matrix is lost only by the next backup of   *)
(* its file, never by the generators or by a restore that is cut in two.   *)
THEOREM OnlyBackupLoses ==
  ASSUME NEW fig, Prep = {fig}
  PROVE  Spec => OldLostByBackup
<1> DEFINE Step == \A f \in File :
                     32 \in {matrix[f], backup[f]} /\ 32 \notin {matrix'[f], backup'[f]}
                       => \E d \in Prep : Backup(d) /\ at[d] = f
<1>1. TypeInv /\ MatrixInv /\ [Next]_vars => [Step]_vars
  BY MatrixStep DEF Lost
<1> QED
  BY <1>1, TypeInvHolds, MatrixInvHolds, PTL DEF Spec, OldLostByBackup
=============================================================================
