---------------------------- MODULE QsSyncProofs ----------------------------
(***************************************************************************)
(* Mutual exclusion of qs-sync runs short of a trapped signal or of the    *)
(* removal of the lock file, what that file says, and what a run that      *)
(* succeeds has cleaned up, for any number of runs.                        *)
(***************************************************************************)
EXTENDS QsSync, TLAPS

(* The parts of TypeOK that the lock depends on. *)
LockTypeOK ==
    /\ pc \in [Runs -> {"idle"} \cup LiveSteps \cup Ends]
    /\ fd \in [Runs -> {"none", "open", "locked"}]
    /\ lockFile \in Nat /\ file \in [Runs -> Nat]
    /\ orphan \in [Runs -> Orphans]
    /\ termed \subseteq Runs

(* An open descriptor without the lock belongs to a run that waits for it. *)
OpenOnlyWaits(r) == fd[r] = "open" => pc[r] = "flock" /\ orphan[r] = "none"

(* A run without its descriptor works only after a trapped signal, or is   *)
(* an ssh that a killed run left behind.                                   *)
WorkerHolds(r) == Working(r) => fd[r] = "locked" \/ r \in termed \/ orphan[r] = "ssh"

(* A run that holds the lock is past flock, or has left a child behind. *)
HolderWorks(r) == fd[r] = "locked" => Working(r) \/ pc[r] = "write_pid"

(* Only a killed run has a child that outlives it. *)
OrphanIsKilled(r) == orphan[r] # "none" => pc[r] = "killed"

RunOK(r) == OpenOnlyWaits(r) /\ WorkerHolds(r) /\ HolderWorks(r) /\ OrphanIsKilled(r)

(* A lock file, removed or not, is locked by one run at most. *)
Holds(r, n) == fd[r] = "locked" /\ file[r] = n
OneHolder   == \A r, q \in Runs : Holds(r, file[r]) /\ Holds(q, file[r]) => r = q

IInv == LockTypeOK /\ OneHolder /\ (\A r \in Runs : RunOK(r)) /\ PidNamesHolder

PCs == {"idle"} \cup LiveSteps \cup Ends
FDs == {"none", "open", "locked"}

(* Nobody has the lock file open at the start. *)
LEMMA InitInv == Init => IInv
<1> SUFFICES ASSUME Init PROVE IInv
  OBVIOUS
<1> USE DEF Init
<1>1. LockTypeOK
  BY DEF LockTypeOK, Orphans
<1>2. \A r \in Runs : RunOK(r)
  BY DEF RunOK, OpenOnlyWaits, WorkerHolds, HolderWorks, OrphanIsKilled, Working, LockedSteps, Orphans
<1>3. OneHolder /\ PidNamesHolder
  BY DEF OneHolder, Holds, PidNamesHolder
<1> QED
  BY <1>1, <1>2, <1>3 DEF IInv

(* What every step of a run has in common: it changes the entries of that  *)
(* run only, takes the lock only when it is free, and touches the lock     *)
(* file of the path only to empty it or, as its holder, to write its PID.  *)
LEMMA StepInv ==
    ASSUME IInv, NEW r \in Runs, NEW s \in PCs, NEW f \in FDs, NEW o \in Orphans,
           NEW n \in Nat, file' = [file EXCEPT ![r] = n], lockFile' = lockFile,
           pc' = [pc EXCEPT ![r] = s], fd' = [fd EXCEPT ![r] = f],
           orphan' = [orphan EXCEPT ![r] = o],
           termed \subseteq termed', termed' \subseteq Runs,
           f = "locked" => /\ n = file[r]
                           /\ fd[r] = "locked" \/ \A q \in Runs : ~Holds(q, n),
           RunOK(r)',
           \/ /\ pidFile' = pidFile
              /\ f = "locked" /\ n = lockFile =>
                    s = "write_pid" \/ (fd[r] = "locked" /\ pc[r] # "write_pid")
           \/ pidFile' = Nothing
           \/ pidFile' = r /\ f = "locked" /\ n = lockFile
    PROVE  IInv'
<1> USE DEF IInv, LockTypeOK
<1>1. LockTypeOK'
  BY DEF PCs, FDs
<1>2. ASSUME NEW q \in Runs PROVE RunOK(q)'
  <2>1. CASE q = r
    BY <2>1
  <2>2. CASE q # r
    <3>1. pc'[q] = pc[q] /\ fd'[q] = fd[q] /\ orphan'[q] = orphan[q]
      BY <2>2
    <3>2. RunOK(q)
      OBVIOUS
    <3> QED
      BY <3>1, <3>2 DEF RunOK, OpenOnlyWaits, WorkerHolds, HolderWorks, OrphanIsKilled, Working
  <2> QED
    BY <2>1, <2>2
<1>3. OneHolder'
  <2> SUFFICES ASSUME NEW p \in Runs, NEW q \in Runs, fd'[p] = "locked", fd'[q] = "locked",
                      file'[p] = file'[q], p # q
               PROVE  FALSE
    BY DEF OneHolder, Holds
  <2>1. \A x \in Runs \ {r} : fd'[x] = fd[x] /\ file'[x] = file[x]
    OBVIOUS
  <2>2. ASSUME NEW x \in Runs \ {r}, fd'[x] = "locked", fd'[r] = "locked", file'[x] = file'[r]
        PROVE  FALSE
    <3>1. f = "locked" /\ n = file[r] /\ Holds(x, n)
      BY <2>1, <2>2 DEF Holds
    <3>2. Holds(r, file[r]) /\ Holds(x, file[r])
      BY <3>1 DEF Holds
    <3> QED
      BY <3>2 DEF OneHolder
  <2>3. CASE p # r /\ q # r
    <3>1. Holds(p, file[p]) /\ Holds(q, file[p])
      BY <2>1, <2>3 DEF Holds
    <3> QED
      BY <3>1 DEF OneHolder
  <2> QED
    BY <2>2, <2>3
<1>4. PidNamesHolder'
  <2> SUFFICES ASSUME NEW q \in Runs, fd'[q] = "locked", file'[q] = lockFile, pc'[q] # "write_pid"
               PROVE  pidFile' \in {q, Nothing}
    BY DEF PidNamesHolder
  <2>1. CASE pidFile' = Nothing
    BY <2>1
  <2>2. CASE pidFile' = r /\ f = "locked" /\ n = lockFile
    <3>1. fd'[r] = "locked" /\ file'[r] = lockFile
      BY <2>2
    <3>2. q = r
      BY <1>3, <3>1 DEF OneHolder, Holds
    <3> QED
      BY <2>2, <3>2
  <2>3. CASE /\ pidFile' = pidFile
             /\ f = "locked" /\ n = lockFile =>
                   s = "write_pid" \/ (fd[r] = "locked" /\ pc[r] # "write_pid")
    <3>1. CASE q # r
      BY <2>3, <3>1 DEF PidNamesHolder
    <3>2. CASE q = r
      BY <2>3, <3>2 DEF PidNamesHolder
    <3> QED
      BY <3>1, <3>2
  <2> QED
    BY <2>1, <2>2, <2>3
<1> QED
  BY <1>1, <1>2, <1>3, <1>4

(* A run that ends, by itself, closes the lock file. *)
LEMMA QuitInv ==
    ASSUME IInv, NEW r \in Runs, pc[r] # "killed",
           NEW s \in {"ok", "shown", "busy", "failed"}, Quit(r, s), UNCHANGED lockFileVars
    PROVE  IInv'
<1> USE DEF IInv, LockTypeOK
<1>1. orphan[r] = "none"
  BY DEF RunOK, OrphanIsKilled
<1>2. /\ pc' = [pc EXCEPT ![r] = s] /\ fd' = [fd EXCEPT ![r] = "none"]
      /\ orphan' = [orphan EXCEPT ![r] = "none"] /\ termed' = termed
      /\ file' = [file EXCEPT ![r] = file[r]] /\ lockFile' = lockFile /\ pidFile' = pidFile
  BY <1>1 DEF Quit, Goto, SetFd, lockFileVars
<1>3. RunOK(r)'
  BY <1>2 DEF RunOK, OpenOnlyWaits, WorkerHolds, HolderWorks, OrphanIsKilled, Working, LockedSteps, Orphans
<1> QED
  BY <1>2, <1>3, StepInv DEF PCs, FDs, Ends, Orphans

(* A run that works goes on with what it has. *)
LEMMA GoOnInv ==
    ASSUME IInv, NEW r \in Runs, pc[r] \in LockedSteps \ {"write_pid"},
           NEW s \in LockedSteps \ {"write_pid"}, Goto(r, s),
           fd' = fd, UNCHANGED lockFileVars
    PROVE  IInv'
<1> USE DEF IInv, LockTypeOK
<1>1. RunOK(r) /\ Working(r)
  BY DEF Working
<1>2. /\ pc' = [pc EXCEPT ![r] = s] /\ fd' = [fd EXCEPT ![r] = fd[r]]
      /\ orphan' = [orphan EXCEPT ![r] = orphan[r]] /\ termed' = termed
      /\ file' = [file EXCEPT ![r] = file[r]] /\ lockFile' = lockFile /\ pidFile' = pidFile
  BY DEF Goto, lockFileVars
<1>3. RunOK(r)'
  BY <1>1, <1>2 DEF RunOK, OpenOnlyWaits, WorkerHolds, HolderWorks, OrphanIsKilled, Working, LockedSteps, Orphans
<1> QED
  BY <1>2, <1>3, StepInv DEF PCs, FDs, LiveSteps

(* A run begins with the lock file closed. *)
LEMMA StartInv ==
    ASSUME IInv, NEW r \in Runs, Start(r)
    PROVE  IInv'
<1> USE DEF IInv, LockTypeOK
<1>1. PICK s \in {"open", "failed"} : Goto(r, s)
  BY DEF Start
<1>2. /\ pc' = [pc EXCEPT ![r] = s] /\ fd' = [fd EXCEPT ![r] = fd[r]]
      /\ orphan' = [orphan EXCEPT ![r] = orphan[r]]
      /\ file' = [file EXCEPT ![r] = file[r]] /\ lockFile' = lockFile
      /\ termed' = termed /\ pidFile' = pidFile
  BY <1>1 DEF Start, Goto, lockFileVars
<1>3. RunOK(r) /\ pc[r] = "idle"
  BY DEF Start
<1>4. fd[r] = "none" /\ orphan[r] = "none"
  BY <1>3 DEF RunOK, OpenOnlyWaits, HolderWorks, OrphanIsKilled, Working, LockedSteps, Orphans
<1>5. RunOK(r)'
  BY <1>2, <1>4 DEF RunOK, OpenOnlyWaits, WorkerHolds, HolderWorks, OrphanIsKilled, Working, LockedSteps, Orphans
<1> QED
  BY <1>2, <1>4, <1>5, StepInv DEF PCs, FDs, LiveSteps, Ends

(* Opening the lock file empties it and does not lock it. *)
LEMMA OpenLockInv ==
    ASSUME IInv, NEW r \in Runs, OpenLock(r)
    PROVE  IInv'
<1> USE DEF IInv, LockTypeOK
<1>1. CASE Quit(r, "failed") /\ UNCHANGED <<file, pidFile>>
  BY <1>1, QuitInv DEF OpenLock, lockFileVars
<1>2. CASE /\ Goto(r, "flock") /\ SetFd(r, "open")
           /\ file' = [file EXCEPT ![r] = lockFile] /\ pidFile' = Nothing
  <2>1. RunOK(r) /\ pc[r] = "open"
    BY DEF OpenLock
  <2>2. orphan[r] = "none"
    BY <2>1 DEF RunOK, OrphanIsKilled
  <2>3. /\ pc' = [pc EXCEPT ![r] = "flock"] /\ fd' = [fd EXCEPT ![r] = "open"]
        /\ orphan' = [orphan EXCEPT ![r] = "none"] /\ termed' = termed
        /\ lockFile' = lockFile
    BY <1>2, <2>2 DEF Goto, SetFd, OpenLock
  <2>4. RunOK(r)'
    BY <2>3 DEF RunOK, OpenOnlyWaits, WorkerHolds, HolderWorks, OrphanIsKilled, Working, LockedSteps, Orphans
  <2> QED
    BY <1>2, <2>3, <2>4, StepInv DEF PCs, FDs, LiveSteps, Orphans
<1> QED
  BY <1>1, <1>2 DEF OpenLock

(* A run takes the lock when nobody, child or run, has it on that file. *)
LEMMA TakeLockInv ==
    ASSUME IInv, NEW r \in Runs, TakeLock(r)
    PROVE  IInv'
<1> USE DEF IInv, LockTypeOK
<1>1. orphan[r] = "none" /\ \A q \in Runs : ~Holds(q, file[r])
  BY DEF TakeLock, LockTaken, Holds, RunOK, OrphanIsKilled
<1>2. /\ pc' = [pc EXCEPT ![r] = "write_pid"] /\ fd' = [fd EXCEPT ![r] = "locked"]
      /\ orphan' = [orphan EXCEPT ![r] = "none"]
      /\ file' = [file EXCEPT ![r] = file[r]] /\ lockFile' = lockFile
      /\ termed' = termed /\ pidFile' = pidFile
  BY <1>1 DEF TakeLock, Goto, SetFd, lockFileVars
<1>3. RunOK(r)'
  BY <1>2 DEF RunOK, OpenOnlyWaits, WorkerHolds, HolderWorks, OrphanIsKilled, Working, LockedSteps, Orphans
<1>4. "write_pid" \in PCs /\ "locked" \in FDs
  BY DEF PCs, FDs, LiveSteps, LockedSteps
<1> QED
  BY <1>1, <1>2, <1>3, <1>4, StepInv

(* Only the holder of the lock gets to write its PID. *)
LEMMA WritePidInv ==
    ASSUME IInv, NEW r \in Runs, WritePid(r)
    PROVE  IInv'
<1> USE DEF IInv, LockTypeOK
<1>1. CASE fd[r] = "none"
  BY <1>1, QuitInv DEF WritePid, lockFileVars
<1>2. CASE fd[r] # "none"
  <2>1. RunOK(r) /\ pc[r] = "write_pid"
    BY DEF WritePid
  <2>2. fd[r] = "locked" /\ orphan[r] = "none"
    BY <1>2, <2>1 DEF RunOK, OpenOnlyWaits, OrphanIsKilled
  <2>3. /\ pc' = [pc EXCEPT ![r] = "connect"] /\ fd' = [fd EXCEPT ![r] = "locked"]
        /\ orphan' = [orphan EXCEPT ![r] = "none"]
        /\ file' = [file EXCEPT ![r] = file[r]] /\ lockFile' = lockFile
        /\ termed' = termed /\ pidFile' = IF file[r] = lockFile THEN r ELSE pidFile
    BY <1>2, <2>2 DEF WritePid, Goto
  <2>4. RunOK(r)'
    BY <2>3 DEF RunOK, OpenOnlyWaits, WorkerHolds, HolderWorks, OrphanIsKilled, Working, LockedSteps, Orphans
  <2> QED
    BY <2>2, <2>3, <2>4, StepInv DEF PCs, FDs, LiveSteps, LockedSteps
<1> QED
  BY <1>1, <1>2

(* The steps of a run that holds the lock file, or has lost it to a trap:  *)
(* it goes on or ends.                                                     *)
LEMMA WorkInv ==
    ASSUME IInv, NEW r \in Runs,
           \/ Connect(r) \/ Scan(r) \/ Detect(r) \/ Preview(r) \/ FindBackup(r)
           \/ RemoveBackup(r) \/ CleanRemote(r) \/ FindBatch(r) \/ RemoveBatch(r) \/ Save(r)
    PROVE  IInv'
<1>1. pc[r] \in LockedSteps \ {"write_pid"} /\ pc[r] # "killed" /\ UNCHANGED lockFileVars
  BY DEF Connect, Scan, Detect, Preview, FindBackup, RemoveBackup, CleanRemote,
         FindBatch, RemoveBatch, Save, LockedSteps
<1>2. \/ \E s \in {"ok", "shown", "busy", "failed"} : Quit(r, s)
      \/ \E s \in LockedSteps \ {"write_pid"} : Goto(r, s) /\ fd' = fd
  <2> USE DEF LockedSteps
  <2>1. CASE Connect(r) \/ Scan(r) \/ Detect(r) \/ Preview(r)
    BY <2>1 DEF Connect, Scan, Detect, Preview
  <2>2. CASE FindBackup(r) \/ FindBatch(r)
    BY <2>2 DEF FindBackup, FindBatch, Deletes
  <2>3. CASE RemoveBackup(r) \/ CleanRemote(r) \/ RemoveBatch(r) \/ Save(r)
    BY <2>3 DEF RemoveBackup, CleanRemote, RemoveBatch, Save
  <2> QED
    BY <2>1, <2>2, <2>3
<1> QED
  BY <1>1, <1>2, QuitInv, GoOnInv

(* A run that does not get the lock ends. *)
LEMMA LockBusyInv ==
    ASSUME IInv, NEW r \in Runs, LockBusy(r)
    PROVE  IInv'
BY QuitInv DEF LockBusy

(* A kill releases the lock unless a child that holds it is left behind. *)
LEMMA KillInv ==
    ASSUME IInv, NEW r \in Runs, Kill(r)
    PROVE  IInv'
<1> USE DEF IInv, LockTypeOK
<1>1. PICK left \in Orphans :
         /\ left # "none" => pc[r] \in {"connect", "scan", "find_backup", "rm_backup",
                                       "clean_remote", "find_batch", "rm_batch"}
         /\ orphan' = [orphan EXCEPT ![r] = left]
         /\ SetFd(r, IF left = "local" THEN fd[r] ELSE "none")
  BY DEF Kill, Children, Orphans
<1> DEFINE f == IF left = "local" THEN fd[r] ELSE "none"
<1>2. /\ pc' = [pc EXCEPT ![r] = "killed"] /\ fd' = [fd EXCEPT ![r] = f]
      /\ file' = [file EXCEPT ![r] = file[r]] /\ lockFile' = lockFile
      /\ termed' = termed /\ pidFile' = pidFile
  BY <1>1 DEF Kill, SetFd, lockFileVars
<1>3. RunOK(r)
  OBVIOUS
<1>4. left # "none" => Working(r) /\ pc[r] # "flock" /\ pc[r] # "write_pid"
  BY <1>1 DEF Working, LockedSteps
<1>5. RunOK(r)'
  BY <1>1, <1>2, <1>3, <1>4
     DEF RunOK, OpenOnlyWaits, WorkerHolds, HolderWorks, OrphanIsKilled, Working, LockedSteps, Orphans
<1>6. "killed" \in PCs /\ f \in FDs
  BY DEF PCs, FDs, Ends
<1>7. f = "locked" => fd[r] = "locked" /\ pc[r] # "write_pid"
  BY <1>4
<1> HIDE DEF f
<1> QED
  BY <1>1, <1>2, <1>3, <1>5, <1>6, <1>7, StepInv

(* The lock a killed run left behind goes with its last child. *)
LEMMA OrphanEndsInv ==
    ASSUME IInv, NEW r \in Runs, OrphanEnds(r)
    PROVE  IInv'
<1> USE DEF IInv, LockTypeOK
<1>1. RunOK(r) /\ pc[r] = "killed"
  BY DEF OrphanEnds, RunOK, OrphanIsKilled
<1>2. /\ pc' = [pc EXCEPT ![r] = pc[r]] /\ fd' = [fd EXCEPT ![r] = "none"]
      /\ orphan' = [orphan EXCEPT ![r] = "none"]
      /\ file' = [file EXCEPT ![r] = file[r]] /\ lockFile' = lockFile
      /\ termed' = termed /\ pidFile' = pidFile
  BY DEF OrphanEnds, SetFd, lockFileVars
<1>3. RunOK(r)'
  BY <1>1, <1>2 DEF RunOK, OpenOnlyWaits, WorkerHolds, HolderWorks, OrphanIsKilled, Working, LockedSteps, Orphans
<1> QED
  BY <1>2, <1>3, StepInv DEF PCs, FDs, Orphans

(* The trap makes its run one of those that may overlap. *)
LEMMA TermInv ==
    ASSUME IInv, NEW r \in Runs, Term(r)
    PROVE  IInv'
<1> USE DEF IInv, LockTypeOK
<1>1. RunOK(r)
  OBVIOUS
<1>2. /\ pc' = [pc EXCEPT ![r] = pc[r]] /\ fd' = [fd EXCEPT ![r] = "none"]
      /\ orphan' = [orphan EXCEPT ![r] = orphan[r]]
      /\ file' = [file EXCEPT ![r] = file[r]] /\ lockFile' = lockFile
      /\ termed' = termed \cup {r} /\ pidFile' = pidFile
  BY DEF Term, SetFd, lockFileVars
<1>3. RunOK(r)'
  BY <1>1, <1>2 DEF RunOK, OpenOnlyWaits, WorkerHolds, HolderWorks, OrphanIsKilled, Working, LockedSteps, Orphans
<1> QED
  BY <1>2, <1>3, StepInv DEF PCs, FDs

(* A removed file stays locked, and the next one is new. *)
LEMMA RemoveLockInv ==
    ASSUME IInv, RemoveLock
    PROVE  IInv'
BY DEF RemoveLock, IInv, LockTypeOK, OneHolder, Holds, RunOK, OpenOnlyWaits, WorkerHolds,
       HolderWorks, OrphanIsKilled, Working, PidNamesHolder

(* Every step keeps the invariant. *)
LEMMA NextInv == IInv /\ [Next]_vars => IInv'
<1> SUFFICES ASSUME IInv, [Next]_vars PROVE IInv'
  OBVIOUS
<1>1. ASSUME NEW r \in Runs, RunStep(r) PROVE IInv'
  BY <1>1, StartInv, OpenLockInv, TakeLockInv, LockBusyInv, WritePidInv, WorkInv DEF RunStep
<1>2. ASSUME NEW r \in Runs, Kill(r) \/ OrphanEnds(r) \/ Term(r) PROVE IInv'
  BY <1>2, KillInv, OrphanEndsInv, TermInv
<1>3. CASE UNCHANGED vars
  BY <1>3 DEF vars, IInv, LockTypeOK, OneHolder, Holds, RunOK, OpenOnlyWaits, WorkerHolds,
              HolderWorks, OrphanIsKilled, Working, PidNamesHolder
<1> QED
  BY <1>1, <1>2, <1>3, RemoveLockInv DEF Next

(* The inductive invariant holds in every reachable state. *)
LEMMA Invariant == Spec => []IInv
BY InitInv, NextInv, PTL DEF Spec

(* Two runs, or what is left of them, work at the same time only if the    *)
(* trap of one of them ran on a signal, or the lock file was removed       *)
(* between their openings of it, or a kill of one of them left an ssh      *)
(* behind (qs-sync:195, 296-337, 879): never because a run lost, failed,   *)
(* or was killed with nothing or a local child left.                       *)
THEOREM OverlapOnlySignalled == Spec => []OverlapExplained
<1>1. IInv => OverlapExplained
  BY DEF IInv, OneHolder, Holds, RunOK, WorkerHolds, OverlapExplained, Overlap
<1> QED
  BY <1>1, Invariant, PTL

(* Once the holder of the lock has written its PID, the lock file is empty *)
(* or begins with that PID (qs-sync:296, 320).                             *)
THEOREM LockFileNamesHolder == Spec => []PidNamesHolder
<1>1. IInv => PidNamesHolder
  BY DEF IInv
<1> QED
  BY <1>1, Invariant, PTL

-----------------------------------------------------------------------------
(* Types, and what a run that succeeds has cleaned up *)

(* What is about to be deleted was found. *)
FoundOK(r) == /\ pc[r] = "rm_backup" => found[r] \in Backups
              /\ pc[r] = "rm_batch" => found[r] \in Batches

(* What the steps of a run do to the variables it has an entry in. *)
LEMMA StepType ==
    ASSUME TypeOK, NEW r \in Runs, NEW s \in PCs, NEW f \in FDs, NEW o \in Orphans,
           NEW x \in Backups \cup Batches \cup {Nothing},
           pc' = [pc EXCEPT ![r] = s], fd' = [fd EXCEPT ![r] = f],
           orphan' = [orphan EXCEPT ![r] = o], found' = [found EXCEPT ![r] = x],
           lockFile' = lockFile, file' \in [Runs -> 0..lockFile], pidFile' \in Runs \cup {Nothing},
           cleans' \in [Runs -> SUBSET Cleanups], termed' \subseteq Runs,
           s = "rm_backup" => x \in Backups, s = "rm_batch" => x \in Batches,
           old' \subseteq old, trash' \subseteq trash,
           local' = local, remote' = remote, base' \subseteq Files,
           scanned' \in [Runs -> [local : SUBSET Files, remote : SUBSET Files]]
    PROVE  TypeOK'
<1> USE DEF TypeOK
<1>1. /\ pc' \in [Runs -> {"idle"} \cup LiveSteps \cup Ends]
      /\ fd' \in [Runs -> {"none", "open", "locked"}]
      /\ orphan' \in [Runs -> Orphans] /\ cleans' \in [Runs -> SUBSET Cleanups]
      /\ found' \in [Runs -> Backups \cup Batches \cup {Nothing}]
  BY DEF PCs, FDs
<1>2. /\ lockFile' \in 0..MaxRemovals /\ file' \in [Runs -> 0..lockFile']
      /\ pidFile' \in Runs \cup {Nothing} /\ termed' \subseteq Runs
  OBVIOUS
<1>3. /\ old' \subseteq Backups /\ trash' \subseteq Batches
      /\ local' \subseteq Files /\ remote' \subseteq Files /\ base' \subseteq Files
      /\ scanned' \in [Runs -> [local : SUBSET Files, remote : SUBSET Files]]
  OBVIOUS
<1>4. \A q \in Runs : FoundOK(q)'
  BY DEF FoundOK
<1> QED
  BY <1>1, <1>2, <1>3, <1>4 DEF FoundOK

(* A step that goes on or ends, and changes nothing of its own but what    *)
(* was found, scanned, deleted or saved.                                   *)
LEMMA MoveType ==
    ASSUME TypeOK, NEW r \in Runs, NEW s \in PCs, NEW f \in FDs, Goto(r, s), SetFd(r, f),
           UNCHANGED <<lockFileVars, local, remote>>,
           NEW x \in Backups \cup Batches \cup {Nothing}, found' = [found EXCEPT ![r] = x],
           s = "rm_backup" => x \in Backups, s = "rm_batch" => x \in Batches,
           cleans' \in [Runs -> SUBSET Cleanups],
           old' \subseteq old, trash' \subseteq trash, base' \subseteq Files,
           scanned' \in [Runs -> [local : SUBSET Files, remote : SUBSET Files]]
    PROVE  TypeOK'
<1>1. orphan' = [orphan EXCEPT ![r] = orphan[r]] /\ orphan[r] \in Orphans
  BY DEF TypeOK, Goto
<1>2. /\ pc' = [pc EXCEPT ![r] = s] /\ fd' = [fd EXCEPT ![r] = f]
      /\ termed' \subseteq Runs /\ lockFile' = lockFile
      /\ file' \in [Runs -> 0..lockFile] /\ pidFile' \in Runs \cup {Nothing}
      /\ local' = local /\ remote' = remote
  BY DEF TypeOK, Goto, SetFd, lockFileVars
<1> QED
  BY <1>1, <1>2, StepType

(* The same when the data are left alone. *)
LEMMA PlainType ==
    ASSUME TypeOK, NEW r \in Runs,
           NEW s \in PCs \ {"rm_backup", "rm_batch"}, NEW f \in FDs, Goto(r, s), SetFd(r, f),
           UNCHANGED <<lockFileVars, dataVars>>
    PROVE  TypeOK'
<1>1. /\ found' = [found EXCEPT ![r] = found[r]]
      /\ found[r] \in Backups \cup Batches \cup {Nothing}
      /\ UNCHANGED <<lockFileVars, local, remote, old, trash, base, scanned, cleans>>
      /\ scanned \in [Runs -> [local : SUBSET Files, remote : SUBSET Files]]
      /\ base \subseteq Files /\ cleans \in [Runs -> SUBSET Cleanups]
  BY DEF TypeOK, dataVars, cleanVars, stateVars
<1> QED
  BY <1>1, MoveType

(* A descriptor that is left alone is set to what it was. *)
LEMMA SameFd ==
    ASSUME TypeOK, NEW r \in Runs, fd' = fd
    PROVE  SetFd(r, fd[r]) /\ fd[r] \in FDs
BY DEF TypeOK, SetFd, FDs

(* The steps up to the lock. *)
LEMMA LockStepType ==
    ASSUME TypeOK, NEW r \in Runs,
           \/ Start(r) \/ OpenLock(r) \/ TakeLock(r) \/ LockBusy(r) \/ WritePid(r)
    PROVE  TypeOK'
<1> USE DEF PCs, FDs, LiveSteps, LockedSteps, Ends
<1>1. CASE Start(r)
  <2>1. PICK s \in {"open", "failed"} : Goto(r, s)
    BY <1>1 DEF Start
  <2> QED
    BY <1>1, <2>1, SameFd, PlainType DEF Start
<1>2. ASSUME NEW s \in {"ok", "shown", "busy", "failed"}, Quit(r, s), UNCHANGED <<lockFileVars, dataVars>>
      PROVE  TypeOK'
  BY <1>2, PlainType DEF Quit
<1>3. CASE OpenLock(r)
  <2>1. CASE Quit(r, "failed") /\ UNCHANGED <<file, pidFile>>
    BY <1>2, <1>3, <2>1 DEF OpenLock, lockFileVars
  <2>2. CASE /\ Goto(r, "flock") /\ SetFd(r, "open")
             /\ file' = [file EXCEPT ![r] = lockFile] /\ pidFile' = Nothing
    <3>1. /\ pc' = [pc EXCEPT ![r] = "flock"] /\ fd' = [fd EXCEPT ![r] = "open"]
          /\ orphan' = [orphan EXCEPT ![r] = orphan[r]] /\ orphan[r] \in Orphans
          /\ termed' \subseteq Runs
      BY <2>2 DEF TypeOK, Goto, SetFd
    <3>2. lockFile \in 0..lockFile
      BY RemovalsAssumption DEF TypeOK
    <3>3. lockFile' = lockFile /\ file' \in [Runs -> 0..lockFile]
      BY <1>3, <2>2, <3>2 DEF TypeOK, OpenLock
    <3>4. /\ found' = [found EXCEPT ![r] = found[r]]
          /\ found[r] \in Backups \cup Batches \cup {Nothing}
          /\ old' = old /\ trash' = trash /\ local' = local /\ remote' = remote
          /\ base' \subseteq Files /\ cleans' \in [Runs -> SUBSET Cleanups]
          /\ scanned' \in [Runs -> [local : SUBSET Files, remote : SUBSET Files]]
      BY <1>3 DEF TypeOK, OpenLock, dataVars, cleanVars, stateVars
    <3> QED
      BY <2>2, <3>1, <3>3, <3>4, StepType
  <2> QED
    BY <1>3, <2>1, <2>2 DEF OpenLock
<1>4. CASE TakeLock(r)
  BY <1>4, PlainType DEF TakeLock
<1>5. CASE LockBusy(r)
  BY <1>2, <1>5 DEF LockBusy
<1>6. CASE WritePid(r)
  <2>1. CASE fd[r] = "none"
    BY <1>2, <1>6, <2>1 DEF WritePid, lockFileVars
  <2>2. CASE fd[r] # "none"
    <3>1. /\ pc' = [pc EXCEPT ![r] = "connect"] /\ fd' = [fd EXCEPT ![r] = fd[r]]
          /\ fd[r] \in FDs
          /\ orphan' = [orphan EXCEPT ![r] = orphan[r]] /\ orphan[r] \in Orphans
          /\ termed' \subseteq Runs
          /\ lockFile' = lockFile /\ file' \in [Runs -> 0..lockFile]
          /\ pidFile' \in Runs \cup {Nothing}
      BY <1>6, <2>2 DEF TypeOK, Goto, WritePid
    <3>2. /\ found' = [found EXCEPT ![r] = found[r]]
          /\ found[r] \in Backups \cup Batches \cup {Nothing}
          /\ old' = old /\ trash' = trash /\ local' = local /\ remote' = remote
          /\ base' \subseteq Files /\ cleans' \in [Runs -> SUBSET Cleanups]
          /\ scanned' \in [Runs -> [local : SUBSET Files, remote : SUBSET Files]]
      BY <1>6 DEF TypeOK, WritePid, dataVars, cleanVars, stateVars
    <3> QED
      BY <3>1, <3>2, StepType
  <2> QED
    BY <2>1, <2>2
<1> QED
  BY <1>1, <1>3, <1>4, <1>5, <1>6

(* The steps behind the lock that change no data. *)
LEMMA PlainStepType ==
    ASSUME TypeOK, NEW r \in Runs,
           \/ Connect(r) \/ Detect(r) \/ Preview(r) \/ CleanRemote(r)
    PROVE  TypeOK'
<1>1. UNCHANGED <<lockFileVars, dataVars>>
  BY DEF Connect, Detect, Preview, CleanRemote
<1>2. \/ \E s \in {"shown", "failed"} : Goto(r, s) /\ SetFd(r, "none")
      \/ \E s \in {"scan", "preview", "find_backup", "find_batch"} : Goto(r, s) /\ fd' = fd
  BY DEF Connect, Detect, Preview, CleanRemote, Quit
<1> QED
  BY <1>1, <1>2, SameFd, PlainType DEF PCs, FDs, LiveSteps, LockedSteps, Ends

(* The steps that find, delete, scan and save. *)
LEMMA DataStepType ==
    ASSUME TypeOK, NEW r \in Runs,
           \/ Scan(r) \/ FindBackup(r) \/ RemoveBackup(r)
           \/ FindBatch(r) \/ RemoveBatch(r) \/ Save(r)
    PROVE  TypeOK'
<1> DEFINE Scans == [Runs -> [local : SUBSET Files, remote : SUBSET Files]]
           Moves ==
             \E s \in PCs, f \in FDs, x \in Backups \cup Batches \cup {Nothing} :
                /\ Goto(r, s) /\ SetFd(r, f) /\ found' = [found EXCEPT ![r] = x]
                /\ s = "rm_backup" => x \in Backups
                /\ s = "rm_batch" => x \in Batches
<1>1. /\ UNCHANGED <<lockFileVars, local, remote>>
      /\ old' \subseteq old /\ trash' \subseteq trash
  BY DEF Scan, FindBackup, RemoveBackup, FindBatch, RemoveBatch, Save, cleanVars, stateVars
<1>4. cleans' \in [Runs -> SUBSET Cleanups]
  BY DEF TypeOK, Scan, FindBackup, RemoveBackup, FindBatch, RemoveBatch, Save, cleanVars,
         Begins, Cleanups
<1>2. scanned' \in Scans /\ base' \subseteq Files
  <2>1. CASE scanned' = scanned /\ base' = base
    BY <2>1 DEF TypeOK
  <2>2. CASE Scan(r)
    BY <2>2 DEF TypeOK, Scan, AfterPipeline
  <2>3. CASE Save(r)
    <3>1. scanned[r].local \subseteq Files /\ scanned[r].remote \subseteq Files
      BY DEF TypeOK
    <3> QED
      BY <2>3, <3>1 DEF TypeOK, Save
  <2> QED
    BY <2>1, <2>2, <2>3 DEF FindBackup, RemoveBackup, FindBatch, RemoveBatch, stateVars
<1>3. Moves
  <2> USE DEF PCs, FDs, LiveSteps, LockedSteps, Ends
  <2>1. /\ found = [found EXCEPT ![r] = found[r]] /\ fd = [fd EXCEPT ![r] = fd[r]]
        /\ found[r] \in Backups \cup Batches \cup {Nothing} /\ fd[r] \in FDs
        /\ old \subseteq Backups /\ trash \subseteq Batches
        /\ Nothing \in Backups \cup Batches \cup {Nothing}
    BY DEF TypeOK
  <2>2. CASE Scan(r)
    BY <2>1, <2>2 DEF Scan, Quit, SetFd, cleanVars
  <2>3. CASE FindBackup(r)
    <3>1. ASSUME NEW s \in {"clean_remote", "find_batch"}, Goto(r, s), UNCHANGED found
          PROVE  Moves
      BY <2>1, <2>3, <3>1 DEF FindBackup, SetFd
    <3>2. ASSUME NEW b \in old, Deletes(r, "rm_backup", b)
          PROVE  Moves
      BY <2>1, <2>3, <3>2 DEF FindBackup, SetFd, Deletes
    <3> QED
      BY <2>3, <3>1, <3>2 DEF FindBackup
  <2>4. CASE RemoveBackup(r) \/ RemoveBatch(r) \/ Save(r)
    BY <2>1, <2>4 DEF RemoveBackup, RemoveBatch, Save, Quit, RmDone, cleanVars
  <2>5. CASE FindBatch(r)
    <3>1. CASE Goto(r, "save") /\ UNCHANGED found
      BY <2>1, <2>5, <3>1 DEF FindBatch, SetFd
    <3>2. ASSUME NEW b \in trash, Deletes(r, "rm_batch", b)
          PROVE  Moves
      BY <2>1, <2>5, <3>2 DEF FindBatch, SetFd, Deletes
    <3> QED
      BY <2>5, <3>1, <3>2 DEF FindBatch
  <2> QED
    BY <2>2, <2>3, <2>4, <2>5
<1> QED
  BY <1>1, <1>2, <1>3, <1>4, MoveType

(* Signals, and the end of what they leave behind. *)
LEMMA SignalType ==
    ASSUME TypeOK, NEW r \in Runs, OrphanIsKilled(r), Kill(r) \/ OrphanEnds(r) \/ Term(r)
    PROVE  TypeOK'
<1> USE DEF PCs, FDs, Ends
<1>1. /\ old' \subseteq old /\ trash' \subseteq trash
      /\ UNCHANGED <<lockFile, file, pidFile, local, remote, base, scanned, cleans>>
      /\ file' \in [Runs -> 0..lockFile] /\ pidFile' \in Runs \cup {Nothing}
      /\ base' \subseteq Files /\ cleans' \in [Runs -> SUBSET Cleanups]
      /\ scanned' \in [Runs -> [local : SUBSET Files, remote : SUBSET Files]]
      /\ found[r] \in Backups \cup Batches \cup {Nothing}
      /\ Nothing \in Backups \cup Batches \cup {Nothing}
      /\ pc[r] \in PCs /\ fd[r] \in FDs /\ orphan[r] \in Orphans
  BY DEF TypeOK, Kill, OrphanEnds, Term, lockFileVars, dataVars, cleanVars, stateVars
<1>2. CASE Kill(r)
  <2>1. PICK left \in Orphans :
           /\ orphan' = [orphan EXCEPT ![r] = left]
           /\ SetFd(r, IF left = "local" THEN fd[r] ELSE "none")
           /\ found' = [found EXCEPT ![r] = IF left = "local" THEN @ ELSE Nothing]
    BY <1>2 DEF Kill, Children, Orphans
  <2> DEFINE f == IF left = "local" THEN fd[r] ELSE "none"
             x == IF left = "local" THEN found[r] ELSE Nothing
  <2>2. /\ pc' = [pc EXCEPT ![r] = "killed"] /\ termed' \subseteq Runs
        /\ fd' = [fd EXCEPT ![r] = f] /\ f \in FDs
        /\ found' = [found EXCEPT ![r] = x] /\ x \in Backups \cup Batches \cup {Nothing}
    BY <1>1, <1>2, <2>1 DEF TypeOK, Kill, SetFd
  <2> HIDE DEF f, x
  <2> QED
    BY <1>1, <2>1, <2>2, StepType
<1>3. CASE OrphanEnds(r)
  <2>1. /\ orphan' = [orphan EXCEPT ![r] = "none"] /\ "none" \in Orphans
        /\ pc' = [pc EXCEPT ![r] = pc[r]] /\ fd' = [fd EXCEPT ![r] = "none"]
        /\ found' = [found EXCEPT ![r] = Nothing] /\ termed' \subseteq Runs
    BY <1>3 DEF TypeOK, OrphanEnds, SetFd, RmDone, Orphans
  <2>2. pc[r] = "killed"
    BY <1>3 DEF OrphanEnds, OrphanIsKilled
  <2> QED
    BY <1>1, <2>1, <2>2, StepType
<1>4. CASE Term(r)
  <2>1. /\ orphan' = [orphan EXCEPT ![r] = orphan[r]]
        /\ pc' = [pc EXCEPT ![r] = pc[r]] /\ fd' = [fd EXCEPT ![r] = "none"]
        /\ found' = [found EXCEPT ![r] = found[r]] /\ termed' \subseteq Runs
        /\ pc[r] = "rm_backup" => found[r] \in Backups
        /\ pc[r] = "rm_batch" => found[r] \in Batches
    BY <1>4 DEF TypeOK, Term, SetFd, dataVars, cleanVars
  <2> QED
    BY <1>1, <2>1, StepType
<1> QED
  BY <1>2, <1>3, <1>4

(* The state of every run stays well typed: what is about to be deleted is *)
(* a backup or a batch, never what holds them.                             *)
THEOREM SyncTypeCorrect == Spec => []TypeOK
<1>1. Init => TypeOK
  <2> SUFFICES ASSUME Init PROVE TypeOK
    OBVIOUS
  <2>1. /\ pc \in [Runs -> {"idle"} \cup LiveSteps \cup Ends]
        /\ fd \in [Runs -> {"none", "open", "locked"}] /\ orphan \in [Runs -> Orphans]
        /\ \A r \in Runs : pc[r] = "idle"
    BY DEF Init, Orphans
  <2>2. cleans \in [Runs -> SUBSET Cleanups]
    BY DEF Init
  <2>3. lockFile \in 0..MaxRemovals /\ file \in [Runs -> 0..lockFile]
    BY RemovalsAssumption DEF Init
  <2>4. /\ pidFile \in Runs \cup {Nothing} /\ termed \subseteq Runs
        /\ old \subseteq Backups /\ trash \subseteq Batches
        /\ local \subseteq Files /\ remote \subseteq Files /\ base \subseteq Files
        /\ found \in [Runs -> Backups \cup Batches \cup {Nothing}]
    BY DEF Init
  <2>5. scanned \in [Runs -> [local : SUBSET Files, remote : SUBSET Files]]
    BY DEF Init
  <2> QED
    BY <2>1, <2>2, <2>3, <2>4, <2>5 DEF TypeOK
<1>2. TypeOK /\ IInv /\ [Next]_vars => TypeOK'
  <2> SUFFICES ASSUME TypeOK, IInv, [Next]_vars PROVE TypeOK'
    OBVIOUS
  <2>1. ASSUME NEW r \in Runs, RunStep(r) PROVE TypeOK'
    BY <2>1, LockStepType, PlainStepType, DataStepType DEF RunStep
  <2>2. ASSUME NEW r \in Runs, Kill(r) \/ OrphanEnds(r) \/ Term(r) PROVE TypeOK'
    BY <2>2, SignalType DEF IInv, RunOK
  <2>3. CASE RemoveLock
    <3>1. lockFile' \in 0..MaxRemovals /\ file' \in [Runs -> 0..lockFile']
      BY <2>3, RemovalsAssumption DEF TypeOK, RemoveLock
    <3> QED
      BY <2>3, <3>1 DEF TypeOK, RemoveLock, dataVars, cleanVars, stateVars
  <2>4. CASE UNCHANGED vars
    BY <2>4 DEF TypeOK, vars
  <2> QED
    BY <2>1, <2>2, <2>3, <2>4 DEF Next
<1> QED
  BY <1>1, <1>2, Invariant, PTL DEF Spec

(* Where a run is in its clean-up says what it has begun, and what is gone *)
(* and stays gone.                                                         *)
CleanSoFar(r) ==
    /\ pc[r] \in {"clean_remote", "find_batch", "rm_batch", "save", "ok"} =>
          ("conflicts" \in cleans[r] => old = {})
    /\ pc[r] \in {"save", "ok"} => ("trash" \in cleans[r] => trash = {})
    /\ cleans[r] # {} => pc[r] \in Ends \cup {"rm_backup", "clean_remote", "find_batch",
                                              "rm_batch", "save"}
    /\ "trash" \in cleans[r] => pc[r] \in Ends \cup {"rm_batch", "save"}

(* A run's own steps, and what it leaves behind.                           *)
LEMMA CleanStep ==
    ASSUME TypeOK, NEW r \in Runs, CleanSoFar(r), OrphanIsKilled(r),
           RunStep(r) \/ Kill(r) \/ OrphanEnds(r) \/ Term(r)
    PROVE  CleanSoFar(r)'
<1> USE DEF CleanSoFar, TypeOK, Quit, Goto, LockedSteps, LiveSteps, Ends, dataVars, cleanVars
<1>1. CASE Start(r) \/ OpenLock(r) \/ TakeLock(r) \/ LockBusy(r) \/ WritePid(r)
  BY <1>1 DEF Start, OpenLock, TakeLock, LockBusy, WritePid
<1>2. CASE Connect(r) \/ Scan(r) \/ Detect(r) \/ Preview(r)
  BY <1>2 DEF Connect, Scan, Detect, Preview
<1>3. CASE FindBackup(r)
  BY <1>3 DEF FindBackup, Begins, Deletes
<1>4. CASE RemoveBackup(r) \/ CleanRemote(r) \/ RemoveBatch(r) \/ Save(r)
  BY <1>4 DEF RemoveBackup, CleanRemote, RemoveBatch, Save
<1>5. CASE FindBatch(r)
  BY <1>5 DEF FindBatch, Begins, Deletes
<1>6. CASE Kill(r)
  BY <1>6 DEF Kill
<1>7. CASE OrphanEnds(r)
  BY <1>7 DEF OrphanEnds
<1>8. CASE Term(r)
  BY <1>8 DEF Term
<1> QED
  BY <1>1, <1>2, <1>3, <1>4, <1>5, <1>6, <1>7, <1>8 DEF RunStep

(* A sync that succeeds left nothing past its age behind that its          *)
(* configuration asked it to clean up, however many runs, and local        *)
(* children of killed runs, clean up at once (qs-sync:870-873, 1044-1047,  *)
(* 1375-1383).                                                             *)
THEOREM SuccessIsClean == Spec => []DoneMeansClean
<1> DEFINE Clean == \A r \in Runs : CleanSoFar(r)
<1>1. Init => Clean
  BY DEF Init, CleanSoFar
<1>2. TypeOK /\ IInv /\ Clean /\ [Next]_vars => Clean'
  <2> SUFFICES ASSUME TypeOK, IInv, Clean, [Next]_vars PROVE Clean'
    OBVIOUS
  <2>1. ASSUME NEW r \in Runs, RunStep(r) \/ Kill(r) \/ OrphanEnds(r) \/ Term(r)
        PROVE  Clean'
    <3>1. /\ old' \subseteq old /\ trash' \subseteq trash
          /\ \A q \in Runs \ {r} : pc'[q] = pc[q] /\ cleans'[q] = cleans[q]
      BY <2>1 DEF TypeOK, RunStep, Start, OpenLock, TakeLock, LockBusy, WritePid, Connect, Scan,
         Detect, Preview, FindBackup, RemoveBackup, CleanRemote, FindBatch, RemoveBatch, Save,
         Kill, OrphanEnds, Term, Quit, Goto, Begins, Deletes, dataVars, cleanVars
    <3>2. CleanSoFar(r)'
      BY <2>1, <3>1, CleanStep DEF IInv, RunOK
    <3>3. ASSUME NEW q \in Runs \ {r} PROVE CleanSoFar(q)'
      BY <3>1 DEF CleanSoFar
    <3> QED
      BY <3>2, <3>3
  <2>2. CASE RemoveLock \/ UNCHANGED vars
    BY <2>2 DEF RemoveLock, vars, CleanSoFar, dataVars, cleanVars
  <2> QED
    BY <2>1, <2>2 DEF Next
<1>3. Clean => DoneMeansClean
  BY DEF CleanSoFar, DoneMeansClean
<1> HIDE DEF Clean
<1> QED
  BY <1>1, <1>2, <1>3, SyncTypeCorrect, Invariant, PTL DEF Spec

=============================================================================
