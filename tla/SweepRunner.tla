---------------------------- MODULE SweepRunner ----------------------------
(***************************************************************************)
(* The programs that drive the experiments and what they leave on disk.    *)
(* run_sym.py (fig2, fig4) swaps the connection matrices of the tree for   *)
(* 128-rank ones while it runs and puts the 32-rank ones back, which       *)
(* run_fig7.py reads; both run htsim through run_one() of common.py, which *)
(* keeps one output file per cell and skips a cell that has results.       *)
(* run_c2.py keeps two files per cell, an output and a trace.              *)
(*                                                                         *)
(* Nothing keeps two of the programs from running at once.  A program may  *)
(* be interrupted (its finally clauses run, and may be interrupted too),   *)
(* and the machine may go down.  run_sym.py and run_fig7.py run one cell   *)
(* each here: cells of one program share no file.                          *)
(***************************************************************************)
EXTENDS Naturals

CONSTANTS
  Prep,       \* runs of run_sym.py --prep-cms
  Plain,      \* runs of run_fig7.py
  Cells,      \* the cells of run_c2.py
  NFiles,     \* the length of COLLECTIVE_CMS
  MaxCrashes  \* bound: the machine goes down at most so often

ASSUME SweepAssumption ==
  Prep \cap Plain = {} /\ NFiles \in Nat \ {0} /\ MaxCrashes \in Nat

Drivers == Prep \cup Plain

(* COLLECTIVE_CMS lists the files in the order in which gen_files.py       *)
(* writes them.                                                            *)
File == 1 .. NFiles

VARIABLES
  matrix,    \* the ranks of each collective .cm file of the tree
  backup,    \* those of its .exp26bak file, 0 if there is none
  pc,        \* where each program is
  at,        \* the file that its loop over COLLECTIVE_CMS comes to next
  scratch,   \* the local stdout.txt of a program's simulation
  out,       \* the outfile of a program's cell
  result,    \* what emit() printed for the cell in this pass
  c2,        \* run_cell() for each cell of run_c2.py: where it is, its files
  crashes,   \* how often the machine went down
  unguarded  \* history: a program ended between its backup and its try
             \* block, or within its finally clause

vars == <<matrix, backup, pc, at, scratch, out, result, c2, crashes, unguarded>>

(* An output names the ranks of its matrix; its text ends before the first *)
(* finished flow, after some, or after all of them.                        *)
NoFile == [nodes |-> 0, text |-> "none"]
Text   == {"cut", "flows", "full"}
Output == {NoFile} \cup [nodes : {32, 128}, text : Text]

NoResult == [status |-> "none", warn |-> FALSE]

C2File == {"none", "part", "failed", "good"}

TypeOK ==
  /\ matrix  \in [File -> {32, 128}]
  /\ backup  \in [File -> {0, 32, 128}]
  /\ pc      \in [Drivers -> {"off", "backup", "gen", "visit", "sim", "move", "report", "restore"}]
  /\ at      \in [Drivers -> File]
  /\ scratch \in [Drivers -> Output]
  /\ out     \in [Drivers -> Output]
  /\ result  \in [Drivers -> [status : {"none", "skip", "ok", "FAIL"}, warn : BOOLEAN]]
  /\ c2      \in [Cells -> [pc : {"off", "write", "zip", "rename"}, stdout : C2File,
                            tmp : {"none", "part", "good"}, trace : {"none", "part", "good"}]]
  /\ crashes \in 0 .. MaxCrashes
  /\ unguarded \in BOOLEAN

Init ==
  /\ matrix  = [f \in File |-> 32]
  /\ backup  = [f \in File |-> 0]
  /\ pc      = [d \in Drivers |-> "off"]
  /\ at      = [d \in Drivers |-> 1]
  /\ scratch = [d \in Drivers |-> NoFile]
  /\ out     = [d \in Drivers |-> NoFile]
  /\ result  = [d \in Drivers |-> NoResult]
  /\ c2      = [c \in Cells |-> [pc |-> "off", stdout |-> "none", tmp |-> "none", trace |-> "none"]]
  /\ crashes = 0
  /\ unguarded = FALSE

Goes(d, from, to) == pc[d] = from /\ pc' = [pc EXCEPT ![d] = to]

-----------------------------------------------------------------------------
(* run_sym.py: gen_collective_cms() and restore_collective_cms() around    *)
(* the loop over the cells.                                                *)

Start(d) ==
  /\ Goes(d, "off", IF d \in Prep THEN "backup" ELSE "visit")
  /\ result' = [result EXCEPT ![d] = NoResult]
  /\ UNCHANGED <<matrix, backup, at, scratch, out, c2, crashes, unguarded>>

(* The loops over COLLECTIVE_CMS take one file after another.              *)
NextFile(d, from, to) ==
  /\ pc[d] = from
  /\ IF at[d] < NFiles
       THEN at' = [at EXCEPT ![d] = @ + 1] /\ pc' = pc
       ELSE at' = [at EXCEPT ![d] = 1] /\ pc' = [pc EXCEPT ![d] = to]
  /\ UNCHANGED <<scratch, out, result, c2, crashes, unguarded>>

BackupForgotten(d) == NextFile(d, "backup", "gen") /\ UNCHANGED <<matrix, backup>>

(* A copy of what is there, over any copy that an earlier run left.        *)
Backup(d) ==
  /\ NextFile(d, "backup", "gen")
  /\ backup' = [backup EXCEPT ![at[d]] = matrix[at[d]]]
  /\ UNCHANGED matrix

(* gen_files.py ignores the status of the generators it calls, so a file   *)
(* need not be new when it goes on.                                        *)
Generate(d) ==
  /\ NextFile(d, "gen", "visit")
  /\ matrix' \in {matrix, [matrix EXCEPT ![at[d]] = 128]}
  /\ UNCHANGED backup

RestoreNothing(d) == NextFile(d, "restore", "off") /\ UNCHANGED <<matrix, backup>>

(* A copy is renamed to the file; a file without one is passed over.       *)
Restore(d) ==
  /\ NextFile(d, "restore", "off")
  /\ matrix' = IF backup[at[d]] = 0 THEN matrix ELSE [matrix EXCEPT ![at[d]] = backup[at[d]]]
  /\ backup' = [backup EXCEPT ![at[d]] = 0]

-----------------------------------------------------------------------------
(* run_one(): skip, or run htsim into a scratch file and move it.          *)

Expected(d) == IF d \in Prep THEN 128 ELSE 32

(* cm_nodes_check() on an output that has the banner of the matrix.        *)
Warns(d, o) == o.nodes # Expected(d)

Ended(d) == IF d \in Prep THEN "restore" ELSE "off"

HasSome(o) == o.text = "flows"
HasResults(o) == o.text \in {"flows", "full"}

SkipQuietly(d) ==
  /\ HasResults(out[d])
  /\ Goes(d, "visit", Ended(d))
  /\ result' = [result EXCEPT ![d] = [status |-> "skip", warn |-> FALSE]]
  /\ UNCHANGED <<matrix, backup, at, scratch, out, c2, crashes, unguarded>>

Skip(d) ==
  /\ HasResults(out[d])
  /\ Goes(d, "visit", Ended(d))
  /\ result' = [result EXCEPT ![d] = [status |-> "skip", warn |-> Warns(d, out[d])]]
  /\ UNCHANGED <<matrix, backup, at, scratch, out, c2, crashes, unguarded>>

(* An output without results is deleted before htsim starts; htsim reads   *)
(* the matrix of the cell once.                                            *)
Launch(d) ==
  /\ ~HasResults(out[d])
  /\ Goes(d, "visit", "sim")
  /\ out' = [out EXCEPT ![d] = NoFile]
  /\ \E f \in File : scratch' = [scratch EXCEPT ![d] = [nodes |-> matrix[f], text |-> "cut"]]
  /\ UNCHANGED <<matrix, backup, at, result, c2, crashes, unguarded>>

(* htsim ends: done, at -end with flows to go, or by a failure.            *)
SimEnds(d, text) ==
  /\ Goes(d, "sim", "move")
  /\ scratch' = [scratch EXCEPT ![d].text = text]
  /\ UNCHANGED <<matrix, backup, at, out, result, c2, crashes, unguarded>>

(* shutil.move() between file systems copies, so the outfile grows ...     *)
MoveBegins(d, text) ==
  /\ pc[d] = "move" /\ out[d] = NoFile
  /\ text = "cut" \/ (text = "flows" /\ HasResults(scratch[d]))
  /\ out' = [out EXCEPT ![d] = [scratch[d] EXCEPT !.text = text]]
  /\ UNCHANGED <<matrix, backup, pc, at, scratch, result, c2, crashes, unguarded>>

(* ... and is complete in the end.                                         *)
MoveEnds(d) ==
  /\ out[d] # NoFile
  /\ Goes(d, "move", "report")
  /\ out' = [out EXCEPT ![d] = scratch[d]]
  /\ scratch' = [scratch EXCEPT ![d] = NoFile]
  /\ UNCHANGED <<matrix, backup, at, result, c2, crashes, unguarded>>

(* rc is 0 if every flow finished, or may be if htsim stopped at -end.  An *)
(* output that was cut may end before the banner.                          *)
Report(d) ==
  /\ Goes(d, "report", Ended(d))
  /\ \E status \in {"ok", "FAIL"}, warn \in BOOLEAN :
       /\ out[d].text = "cut"  => status = "FAIL" /\ (warn => Warns(d, out[d]))
       /\ out[d].text = "full" => status = "ok"
       /\ HasResults(out[d])   => warn = Warns(d, out[d])
       /\ result' = [result EXCEPT ![d] = [status |-> status, warn |-> warn]]
  /\ UNCHANGED <<matrix, backup, at, scratch, out, c2, crashes, unguarded>>

-----------------------------------------------------------------------------
(* run_cell() of run_c2.py, which runs the cells on a pool of threads.     *)

C2Goes(c, from, to, files) ==
  /\ c2[c].pc = from
  /\ c2' = [c2 EXCEPT ![c] = [files EXCEPT !.pc = to]]
  /\ UNCHANGED <<matrix, backup, pc, at, scratch, out, result, crashes, unguarded>>

C2SkipsOnStdout(c) == c2[c].stdout # "none"   \* as run_sol_cell() does
C2Skips(c) == c2[c].stdout # "none" /\ c2[c].trace # "none"

(* A cell is started, and is not skipped; htsim has run and write_text()   *)
(* has begun.  (A cell that is skipped stays as it is.)                    *)
C2Runs(c) == ~C2Skips(c) /\ C2Goes(c, "off", "write", [c2[c] EXCEPT !.stdout = "part"])

C2Writes(c, ok) ==
  C2Goes(c, "write", IF ok THEN "zip" ELSE "off",
         [c2[c] EXCEPT !.stdout = IF ok THEN "good" ELSE "failed",
                       !.tmp    = IF ok THEN "part" ELSE @])

C2ZipsInPlace(c) == C2Goes(c, "zip", "rename", [c2[c] EXCEPT !.trace = "part"])
C2Zips(c) == C2Goes(c, "zip", "rename", [c2[c] EXCEPT !.tmp = "good"])

C2Renames(c) == C2Goes(c, "rename", "off", [c2[c] EXCEPT !.trace = c2[c].tmp, !.tmp = "none"])

-----------------------------------------------------------------------------
(* An interrupt or a failing gen_files.py: run_sym.py restores only from   *)
(* inside its try block, and a second Ctrl-C ends the restore as well.     *)
Interrupt(d) ==
  /\ pc[d] # "off"
  /\ pc' = [pc EXCEPT ![d] = IF @ \in {"backup", "gen", "restore"} THEN "off" ELSE Ended(d)]
  /\ at' = [at EXCEPT ![d] = 1]
  /\ scratch' = [scratch EXCEPT ![d] = NoFile]
  /\ unguarded' = (unguarded \/ pc[d] \in {"gen", "restore"})
  /\ UNCHANGED <<matrix, backup, out, result, c2, crashes>>

(* The machine goes down.                                                  *)
Crash ==
  /\ crashes < MaxCrashes
  /\ crashes' = crashes + 1
  /\ pc'      = [d \in Drivers |-> "off"]
  /\ at'      = [d \in Drivers |-> 1]
  /\ scratch' = [d \in Drivers |-> NoFile]
  /\ result'  = [d \in Drivers |-> NoResult]
  /\ c2'      = [c \in Cells |-> [c2[c] EXCEPT !.pc = "off"]]
  /\ UNCHANGED <<matrix, backup, out, unguarded>>

C2Next(c) ==
  \/ C2Runs(c) \/ C2Zips(c) \/ C2Renames(c)
  \/ \E ok \in BOOLEAN : C2Writes(c, ok)

Next ==
  \/ \E d \in Drivers :
       \/ Start(d) \/ Backup(d) \/ Generate(d) \/ Restore(d)
       \/ Skip(d) \/ Launch(d) \/ MoveEnds(d) \/ Report(d) \/ Interrupt(d)
       \/ \E text \in Text : SimEnds(d, text) \/ MoveBegins(d, text)
  \/ \E c \in Cells : C2Next(c)
  \/ Crash

Spec == Init /\ [][Next]_vars

(* The program of a batch is started again until it has nothing to do, and *)
(* a simulation that is repeated succeeds some time.                       *)
ResumedSpec ==
  /\ Spec
  /\ \A c \in Cells : WF_vars(C2Next(c)) /\ SF_vars(C2Writes(c, TRUE))

-----------------------------------------------------------------------------
(* A cell whose results come from a matrix of the wrong size is reported   *)
(* by every pass that reaches it, whether it runs or skips the cell, and   *)
(* however the results came to lie there.                                  *)
WrongMatrixReported ==
  \A d \in Drivers :
    result[d].status # "none" /\ HasResults(out[d]) /\ out[d].nodes # Expected(d)
      => result[d].warn

(* A finished run is never lost or run again, whatever is interrupted.     *)
ResultsKept == [][\A d \in Drivers : out[d].text = "full" => out'[d] = out[d]]_vars

(* run_sym.py puts the matrices back, unless the machine went down, or it  *)
(* ended before its try block or within its finally clause.                *)
TreeRestored ==
  crashes = 0 /\ ~unguarded /\ (\A d \in Prep : pc[d] \in {"off", "backup"})
     => \A f \in File : matrix[f] = 32

(* Each 32-rank matrix is in the tree or in its backup until a backup is   *)
(* made of the file that has replaced it: no generator, crash, interrupt   *)
(* or restore cut in two loses one.                                        *)
OldLostByBackup ==
  [][\A f \in File :
       32 \in {matrix[f], backup[f]} /\ 32 \notin {matrix'[f], backup'[f]}
         => \E d \in Prep : Backup(d) /\ at[d] = f]_vars

(* A trace of run_c2.py is whole, and its output is that of a run that     *)
(* succeeded.                                                              *)
TraceIsWhole ==
  \A c \in Cells : c2[c].trace # "none" => c2[c].trace = "good" /\ c2[c].stdout = "good"

(* A cell of run_c2.py that is run again often enough gets its trace.      *)
C2Completes == \A c \in Cells : <>(c2[c].trace = "good")
=============================================================================
