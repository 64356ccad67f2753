------------------------------- MODULE QsSync -------------------------------
(***************************************************************************)
(* Runs of scripts/qs-sync against one data directory: the lock file, the  *)
(* connection, the analysis and the clean-up that precedes the transfers,  *)
(* with signals at any point.                                              *)
(*                                                                         *)
(* flock locks an open file: the lock lives as long as any process has the *)
(* file open, a child of a killed run included, unless that child is ssh,  *)
(* which closes what it inherits above the standard error when it starts.  *)
(*                                                                         *)
(* What a run is asked for, and its configuration, are fixed before it     *)
(* begins and each option is read once: it is chosen where it is read.     *)
(***************************************************************************)
EXTENDS Naturals

CONSTANTS Runs,    \* processes
          Signals, \* signals that may come, a subset of {"kill", "term"}
          Backups, \* conflict backups past their age
          Batches, \* trash batches past their age
          Files,   \* files with their size, time and content
          MaxRemovals \* bound on the removals of the lock file

ASSUME SignalsAssumption == Signals \subseteq {"kill", "term"}
ASSUME RemovalsAssumption == MaxRemovals \in Nat

VARIABLES pc,      \* pc[r]: what run r does next, or how it ended
          fd,      \* fd[r]: its descriptor of the lock file
          file,    \* file[r]: the lock file it opened last
          lockFile, \* the lock file that the path names, or will when opened
          orphan,  \* orphan[r]: the child of r that outlives it, see Children
          pidFile, \* the run whose PID the current lock file begins with
          old,     \* conflict backups past their age
          trash,   \* trash batches past their age
          found,   \* found[r]: what its rm, while it runs, is to delete
          cleans,  \* cleans[r]: the clean-ups its configuration had it begin
          local,   \* files of the local tree
          remote,  \* files of the remote tree
          base,    \* files of the saved base state
          scanned, \* scanned[r]: STATE_LOCAL and STATE_REMOTE of the run
          termed   \* history: runs whose trap ran on a signal

vars == <<pc, fd, file, lockFile, orphan, pidFile, old, trash, found, cleans, local, remote,
          base, scanned, termed>>

lockFileVars == <<file, lockFile, pidFile>>

Nothing == "nothing"

LockedSteps == {"write_pid", "connect", "scan", "detect", "preview", "find_backup",
                "rm_backup", "clean_remote", "find_batch", "rm_batch", "save"}
LiveSteps == {"open", "flock"} \cup LockedSteps
Ends      == {"ok", "shown", "busy", "failed", "killed"}

(* ENABLE_CONFLICT_CLEANUP and ENABLE_TRASH_CLEANUP *)
Cleanups == {"conflicts", "trash"}

(* What the run waits for in a step that may take long: a process of this  *)
(* machine (wget, find, rm, the loop that reads from a pipe, the subshell  *)
(* of a command substitution), which has the lock file open, or an ssh,    *)
(* which has not, and whose command goes on at the other end.              *)
Children(step) ==
    CASE step \in {"connect", "clean_remote"} -> {"local", "ssh"}
      [] step \in {"scan", "find_backup", "rm_backup", "find_batch", "rm_batch"} -> {"local"}
      [] OTHER -> {}

Orphans == {"none", "local", "ssh"}

TypeOK ==
    /\ pc \in [Runs -> {"idle"} \cup LiveSteps \cup Ends]
    /\ fd \in [Runs -> {"none", "open", "locked"}]
    /\ lockFile \in 0..MaxRemovals /\ file \in [Runs -> 0..lockFile]
    /\ orphan \in [Runs -> Orphans]
    /\ pidFile \in Runs \cup {Nothing}
    /\ old \subseteq Backups /\ trash \subseteq Batches
    /\ local \subseteq Files /\ remote \subseteq Files /\ base \subseteq Files
    /\ scanned \in [Runs -> [local : SUBSET Files, remote : SUBSET Files]]
    /\ cleans \in [Runs -> SUBSET Cleanups]
    /\ found \in [Runs -> Backups \cup Batches \cup {Nothing}]
    /\ \A r \in Runs : /\ pc[r] = "rm_backup" => found[r] \in Backups
                       /\ pc[r] = "rm_batch" => found[r] \in Batches
    /\ termed \subseteq Runs

Init ==
    /\ pc = [r \in Runs |-> "idle"]
    /\ fd = [r \in Runs |-> "none"]
    /\ file = [r \in Runs |-> 0] /\ lockFile = 0
    /\ orphan = [r \in Runs |-> "none"]
    /\ pidFile = Nothing
    /\ old \in SUBSET Backups /\ trash \in SUBSET Batches
    /\ found = [r \in Runs |-> Nothing] /\ cleans = [r \in Runs |-> {}]
    /\ local \in SUBSET Files /\ remote \in SUBSET Files /\ base = {}
    /\ scanned = [r \in Runs |-> [local |-> {}, remote |-> {}]]
    /\ termed = {}

cleanVars == <<old, trash, found, cleans>>
stateVars == <<local, remote, base, scanned>>
dataVars  == <<cleanVars, stateVars>>

Goto(r, s) == pc' = [pc EXCEPT ![r] = s] /\ UNCHANGED <<orphan, termed>>
SetFd(r, s) == fd' = [fd EXCEPT ![r] = s]

(* The script ends; the EXIT trap, release_lock, closes the lock file.     *)
Quit(r, s) == Goto(r, s) /\ SetFd(r, "none")

-----------------------------------------------------------------------------
(* main, up to and including acquire_lock *)

(* Configuration or dependencies may be missing. *)
Start(r) ==
    /\ pc[r] = "idle"
    /\ \E s \in {"open", "failed"} : Goto(r, s)
    /\ UNCHANGED <<fd, lockFileVars, dataVars>>

(* Opening the file for writing creates or empties it, whoever holds the   *)
(* lock.                                                                   *)
OpenLock(r) ==
    /\ pc[r] = "open"
    /\ \/ /\ Goto(r, "flock") /\ SetFd(r, "open")
          /\ file' = [file EXCEPT ![r] = lockFile] /\ pidFile' = Nothing
       \/ Quit(r, "failed") /\ UNCHANGED <<file, pidFile>>
    /\ UNCHANGED <<lockFile, dataVars>>

(* The lock is on the file that was opened, not on its path. *)
LockTaken(r) == \E q \in Runs : fd[q] = "locked" /\ file[q] = file[r]

TakeLock(r) ==
    /\ pc[r] = "flock" /\ fd[r] = "open" /\ ~LockTaken(r)
    /\ Goto(r, "write_pid") /\ SetFd(r, "locked")
    /\ UNCHANGED <<lockFileVars, dataVars>>

(* Mutant: the lock is advisory, a busy one is only reported. *)
LockBusyGoesOn(r) ==
    /\ pc[r] = "flock" /\ (fd[r] = "none" \/ LockTaken(r))
    /\ Goto(r, "write_pid")
    /\ UNCHANGED <<fd, lockFileVars, dataVars>>

(* Without LOCK_TIMEOUT the script ends gracefully at once, with it flock  *)
(* gives up and the script fails.  A closed descriptor looks the same.     *)
LockBusy(r) ==
    /\ pc[r] = "flock" /\ (fd[r] = "none" \/ LockTaken(r))
    /\ \E s \in {"busy", "failed"} : Quit(r, s)
    /\ UNCHANGED <<lockFileVars, dataVars>>

(* Mutant: the PID is appended to the file. *)
WritePidAppends(r) ==
    /\ pc[r] = "write_pid"
    /\ IF fd[r] # "none"
       THEN /\ Goto(r, "connect") /\ UNCHANGED fd
            /\ pidFile' = IF file[r] = lockFile /\ pidFile = Nothing THEN r ELSE pidFile
       ELSE Quit(r, "failed") /\ UNCHANGED pidFile
    /\ UNCHANGED <<file, lockFile, dataVars>>

(* The PID overwrites what a run before left in the file.  On a closed     *)
(* descriptor the command fails, and set -e ends the script.               *)
WritePid(r) ==
    /\ pc[r] = "write_pid"
    /\ IF fd[r] # "none"
       THEN /\ Goto(r, "connect") /\ UNCHANGED fd
            /\ pidFile' = IF file[r] = lockFile THEN r ELSE pidFile
       ELSE Quit(r, "failed") /\ UNCHANGED pidFile
    /\ UNCHANGED <<file, lockFile, dataVars>>

-----------------------------------------------------------------------------
(* select_connection_mode and sync_analyze *)

(* SSH, HTTP or nothing answers.  Conflict and schedule commands and the   *)
(* status end here, whichever it was; a sync, pull, push or dry run goes   *)
(* on, and without SSH cannot scan the remote tree.                        *)
Connect(r) ==
    /\ pc[r] = "connect"
    /\ \/ Quit(r, "failed")
       \/ Quit(r, "shown")
       \/ Goto(r, "scan") /\ UNCHANGED fd
    /\ UNCHANGED <<lockFileVars, dataVars>>

(* A loop at the end of a pipeline runs in a subshell: what it stores in   *)
(* an array is gone when the pipeline is done.                             *)
AfterPipeline(before, stored) == before

(* The local directory may be missing; a remote scan that breaks off is    *)
(* not noticed.                                                            *)
Scan(r) ==
    /\ pc[r] = "scan"
    /\ \/ Quit(r, "failed") /\ UNCHANGED scanned
       \/ /\ Goto(r, "detect") /\ UNCHANGED fd
          /\ \E part \in SUBSET remote :
                scanned' = [scanned EXCEPT ![r] = [local  |-> AfterPipeline({}, local),
                                                   remote |-> AfterPipeline({}, part)]]
    /\ UNCHANGED <<lockFileVars, cleanVars, local, remote, base>>

(* Added, modified and deleted files. *)
DetectChanges(from, current) == (current \ from) \cup (from \ current)

Pending(r) == DetectChanges(base, scanned[r].local) \cup DetectChanges(base, scanned[r].remote)

(* sync_analyze returns 1 or 2 when there is something to do, which main   *)
(* takes for a failure.  A dry run only shows what it would do.            *)
Detect(r) ==
    /\ pc[r] = "detect"
    /\ \/ Pending(r) # {} /\ Quit(r, "failed")
       \/ /\ Pending(r) = {} /\ UNCHANGED fd
          /\ \E s \in {"preview", "find_backup"} : Goto(r, s)
    /\ UNCHANGED <<lockFileVars, dataVars>>

(* sync_preview prints the changes, of which there are none. *)
Preview(r) ==
    /\ pc[r] = "preview"
    /\ Quit(r, "shown")
    /\ UNCHANGED <<lockFileVars, dataVars>>

-----------------------------------------------------------------------------
(* sync_execute *)

(* r deletes b next. *)
Deletes(r, s, b) == Goto(r, s) /\ found' = [found EXCEPT ![r] = b]

(* r begins a clean-up, unless its configuration skips it. *)
Begins(r, c) == cleans' = [cleans EXCEPT ![r] = @ \cup {c}]

(* Backups are cleaned up here and then at the other end. *)
FindBackup(r) ==
    /\ pc[r] = "find_backup"
    /\ \/ Goto(r, "find_batch") /\ UNCHANGED <<found, cleans>>
       \/ /\ Begins(r, "conflicts")
          /\ \/ old = {} /\ Goto(r, "clean_remote") /\ UNCHANGED found
             \/ \E b \in old : Deletes(r, "rm_backup", b)
    /\ UNCHANGED <<fd, lockFileVars, old, trash, stateVars>>

RmDone(r) == found' = [found EXCEPT ![r] = Nothing]

(* Mutant: the clean-up counts its first deletion and goes on to the next  *)
(* phase.                                                                  *)
RemoveBackupOnce(r) ==
    /\ pc[r] = "rm_backup"
    /\ old' = old \ {found[r]} /\ RmDone(r)
    /\ Goto(r, "clean_remote") /\ UNCHANGED fd
    /\ UNCHANGED <<lockFileVars, trash, cleans, stateVars>>

(* ((count++)) is a failure when count was 0, and set -e ends the script:  *)
(* one backup is deleted per run.                                          *)
RemoveBackup(r) ==
    /\ pc[r] = "rm_backup"
    /\ old' = old \ {found[r]} /\ RmDone(r)
    /\ Quit(r, "failed")
    /\ UNCHANGED <<lockFileVars, trash, cleans, stateVars>>

(* The remote clean-up is one ssh command, which may fail or be disabled. *)
CleanRemote(r) ==
    /\ pc[r] = "clean_remote"
    /\ \/ Goto(r, "find_batch") /\ UNCHANGED fd
       \/ Quit(r, "failed")
    /\ UNCHANGED <<lockFileVars, dataVars>>

(* Mutant: find lists the trash directory itself. *)
FindBatchTop(r) ==
    /\ pc[r] = "find_batch"
    /\ \/ Goto(r, "save") /\ UNCHANGED <<found, cleans>>
       \/ /\ Begins(r, "trash")
          /\ \/ trash = {} /\ Goto(r, "save") /\ UNCHANGED found
             \/ trash # {} /\ Deletes(r, "rm_batch", "trash directory")
    /\ UNCHANGED <<fd, lockFileVars, old, trash, stateVars>>

FindBatch(r) ==
    /\ pc[r] = "find_batch"
    /\ \/ Goto(r, "save") /\ UNCHANGED <<found, cleans>>
       \/ /\ Begins(r, "trash")
          /\ \/ trash = {} /\ Goto(r, "save") /\ UNCHANGED found
             \/ \E b \in trash : Deletes(r, "rm_batch", b)
    /\ UNCHANGED <<fd, lockFileVars, old, trash, stateVars>>

(* As RemoveBackup. *)
RemoveBatch(r) ==
    /\ pc[r] = "rm_batch"
    /\ trash' = trash \ {found[r]} /\ RmDone(r)
    /\ Quit(r, "failed")
    /\ UNCHANGED <<lockFileVars, old, cleans, stateVars>>

(* Without changes nothing is transferred; the base state is replaced by   *)
(* what was scanned, and the run succeeds unless that fails.               *)
Save(r) ==
    /\ pc[r] = "save"
    /\ \/ Quit(r, "ok") /\ base' = scanned[r].local \cup scanned[r].remote
       \/ Quit(r, "failed") /\ UNCHANGED base
    /\ UNCHANGED <<lockFileVars, cleanVars, local, remote, scanned>>

RunStep(r) ==
    \/ Start(r) \/ OpenLock(r) \/ TakeLock(r) \/ LockBusy(r) \/ WritePid(r)
    \/ Connect(r) \/ Scan(r) \/ Detect(r) \/ Preview(r) \/ FindBackup(r) \/ RemoveBackup(r)
    \/ CleanRemote(r) \/ FindBatch(r) \/ RemoveBatch(r) \/ Save(r)

-----------------------------------------------------------------------------
(* Signals *)

(* No trap runs on SIGKILL, and a child goes on: with its copy of the      *)
(* lock, unless it is ssh.                                                 *)
Kill(r) ==
    /\ "kill" \in Signals /\ pc[r] \in LiveSteps
    /\ pc' = [pc EXCEPT ![r] = "killed"]
    /\ \E left \in Children(pc[r]) \cup {"none"} :
          /\ orphan' = [orphan EXCEPT ![r] = left]
          /\ SetFd(r, IF left = "local" THEN fd[r] ELSE "none")
          /\ found' = [found EXCEPT ![r] = IF left = "local" THEN @ ELSE Nothing]
    /\ UNCHANGED <<lockFileVars, old, trash, cleans, stateVars, termed>>

(* An rm that was left behind still deletes what it was called for. *)
OrphanEnds(r) ==
    /\ orphan[r] # "none"
    /\ orphan' = [orphan EXCEPT ![r] = "none"]
    /\ SetFd(r, "none")
    /\ old' = old \ {found[r]} /\ trash' = trash \ {found[r]} /\ RmDone(r)
    /\ UNCHANGED <<pc, lockFileVars, cleans, stateVars, termed>>

(* The trap on INT and TERM, run between two commands: it closes the lock  *)
(* file and returns to the script, which goes on.                          *)
Term(r) ==
    /\ "term" \in Signals /\ pc[r] \in LiveSteps /\ fd[r] # "none"
    /\ SetFd(r, "none")
    /\ termed' = termed \cup {r}
    /\ UNCHANGED <<pc, orphan, lockFileVars, dataVars>>

(* A user follows the advice that a losing run prints, whether or not the  *)
(* lock is stale: the next run opens a new file.                           *)
RemoveLock ==
    /\ lockFile < MaxRemovals
    /\ lockFile' = lockFile + 1
    /\ pidFile' = Nothing
    /\ UNCHANGED <<pc, fd, file, orphan, dataVars, termed>>

Next ==
    \/ \E r \in Runs : RunStep(r) \/ Kill(r) \/ OrphanEnds(r) \/ Term(r)
    \/ RemoveLock

Spec == Init /\ [][Next]_vars

-----------------------------------------------------------------------------
(* Properties *)

(* A run works once it holds the lock and has written its PID; so does     *)
(* what it leaves behind.                                                  *)
Working(r) == pc[r] \in LockedSteps \ {"write_pid"} \/ orphan[r] # "none"
Overlap(r, q) == r # q /\ Working(r) /\ Working(q)

(* acquire_lock is there "to prevent concurrent sync runs" (qs-sync:285):  *)
(* no two runs, nor what a killed run left behind, work at the same time.  *)
MutualExclusion == \A r, q \in Runs : ~Overlap(r, q)

(* There are three ways for two runs, or what is left of them, to work at  *)
(* the same time (qs-sync:296-337): the trap of one of them ran on a       *)
(* signal, the lock file was removed between their openings of it, as a    *)
(* losing run advises (307), or one of them was killed and left an ssh     *)
(* behind, whose command goes on while the lock is free (195, 879).        *)
(* Losing runs, failures, and kills that leave a find, an rm or a subshell *)
(* behind are not among them.                                              *)
OverlapExplained ==
    \A r, q \in Runs : Overlap(r, q) =>
        \/ {r, q} \cap termed # {}
        \/ file[r] # file[q]
        \/ "ssh" \in {orphan[r], orphan[q]}

(* Once the holder of the lock has written its PID, a losing run may empty *)
(* the lock file, but the file never names a run that does not hold the    *)
(* lock (qs-sync:296, 320), however many waited, lost, or were killed, and *)
(* whoever still holds a file that was removed.                            *)
PidNamesHolder ==
    \A r \in Runs :
       fd[r] = "locked" /\ file[r] = lockFile /\ pc[r] # "write_pid" => pidFile \in {r, Nothing}

(* A sync that succeeds left nothing behind that is past its age and that  *)
(* its configuration asks it to clean up, though each run deletes one      *)
(* thing at most, and several, or what is left of them, may clean up at    *)
(* once (qs-sync:870-873, 1044-1047, 1375-1383).                           *)
DoneMeansClean ==
    \A r \in Runs : pc[r] = "ok" =>
        /\ "conflicts" \in cleans[r] => old = {}
        /\ "trash" \in cleans[r] => trash = {}

(* "sync: Bidirectional synchronization (default)" (qs-sync:1541): after a *)
(* sync that reports success the trees agree.                              *)
SuccessMeansSynced ==
    \A r \in Runs : pc[r] = "ok" => local = remote

=============================================================================
