----------------------------- MODULE RunLifecycle -----------------------------
(***************************************************************************)
(* What a workspace's dataflow runs look like to whoever asks the state    *)
(* store and the dataflow lock: a run is one process's at a time, a yield  *)
(* or a crash leaves it running for another to resume, and it ends once.   *)
(* A process that yielded the run may yet cancel it, without the lock.     *)
(* Module Dataflow is shown to implement this.                             *)
(***************************************************************************)
CONSTANTS Procs, NoProc

VARIABLES
  holder,  \* the process that holds the dataflow lock
  run,     \* the run the store holds, named by the process that started it
  status,  \* the status the store holds of it
  parted   \* the runs a process has yielded

vars == <<holder, run, status, parted>>

Init == holder = NoProc /\ run = NoProc /\ status = "none" /\ parted = {}

StartRun(p) ==
  /\ holder = NoProc /\ run # p
  /\ holder' = p /\ run' = p /\ status' = "running"
  /\ UNCHANGED parted

ResumeRun(p) ==
  /\ holder = NoProc /\ status = "running"
  /\ holder' = p
  /\ UNCHANGED <<run, status, parted>>

\* A cancel records the end before what runs has stopped; any other end is
\* recorded as the run lets the workspace go.
EndRun(p, end) ==
  /\ holder = p /\ status = "running"
  /\ status' = end
  /\ holder' \in (IF end = "cancelled" THEN {p} ELSE {NoProc})
  /\ UNCHANGED <<run, parted>>

\* A checkpoint, which its process may still cancel.
YieldRun(p) ==
  /\ holder = p /\ status = "running"
  /\ parted' = parted \union {run}
  /\ UNCHANGED <<holder, run, status>>

CancelLate ==
  /\ run \in parted /\ status = "running"
  /\ status' = "cancelled"
  /\ UNCHANGED <<holder, run, parted>>

LetGo(p) ==
  /\ holder = p
  /\ holder' = NoProc
  /\ UNCHANGED <<run, status, parted>>

Next ==
  \/ CancelLate
  \/ \E p \in Procs :
    \/ StartRun(p) \/ ResumeRun(p) \/ YieldRun(p) \/ LetGo(p)
    \/ \E end \in {"completed", "failed", "cancelled"} : EndRun(p, end)

Spec == Init /\ [][Next]_vars
=============================================================================
