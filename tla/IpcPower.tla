------------------------------- MODULE IpcPower -------------------------------
(***************************************************************************)
(* Power management of a DSP (packages/ti/pm/IpcPowerDsp_dra7xx.c) and the *)
(* messages by which the host asks it to hibernate (packages/ti/ipc/       *)
(* family/vayu/VirtQueue.c, VirtQueue_isr).  A task of the highest         *)
(* priority waits for a request, calls the users' functions, hibernates,   *)
(* and calls them again; hibernation locks refuse a request, wake locks    *)
(* keep the processor from deep sleep.  The users' functions may block, so *)
(* other tasks run between the steps.                                      *)
(* The calls of init and exit come one after the other (startup code); the *)
(* list of the users' functions is left out.                               *)
(***************************************************************************)
EXTENDS Naturals, FiniteSets

CONSTANTS
    Tasks,         \* tasks that take locks
    MaxInit,       \* bound: calls of init in effect
    MaxRequests    \* bound: requests that wait

VARIABLES
    curInit,
    created,       \* the task and the two semaphores exist
    task,          \* where suspendTaskFxn stands
    semSuspend, semExit,
    exiting,       \* exit waits for the task to end
    hibLock, refWakeLockCnt,
    hibHeld, wakeHeld,   \* the tasks that hold a lock
    sleep          \* the SLEEP bit: idling is deep sleep

life  == <<curInit, created, exiting>>
sems  == <<semSuspend, semExit>>
locks == <<hibLock, refWakeLockCnt, hibHeld, wakeHeld, sleep>>
powerVars == <<life, task, sems, locks>>

PowerInit ==
    /\ curInit = 0 /\ created = FALSE /\ exiting = FALSE
    /\ task = "none"
    /\ semSuspend = 0 /\ semExit = 0
    /\ hibLock = 0 /\ refWakeLockCnt = 0 /\ hibHeld = {} /\ wakeHeld = {}
    /\ sleep = FALSE

-----------------------------------------------------------------------------
(* IpcPower_init: the first call creates everything. *)
InitFirst ==
    /\ curInit = 0 /\ ~exiting
    /\ curInit' = 1
    /\ hibLock' = 0 /\ refWakeLockCnt' = 0 /\ sleep' = TRUE
    /\ semSuspend' = 0 /\ semExit' = 0
    /\ created' = TRUE
    /\ task' = "loop"
    /\ UNCHANGED <<exiting, hibHeld, wakeHeld>>

InitAgain ==
    /\ curInit \in 1 .. MaxInit - 1
    /\ curInit' = curInit + 1
    /\ UNCHANGED <<created, exiting, task, sems, locks>>

(* IpcPower_exit: the last call, when nobody holds a lock, wakes the task   *)
(* and waits for its end.                                                  *)
Exit ==
    /\ curInit > 0
    /\ curInit = 1 => hibHeld = {} /\ wakeHeld = {}
    /\ curInit' = curInit - 1
    /\ exiting' = (curInit = 1)
    /\ semSuspend' = IF curInit = 1 THEN semSuspend + 1 ELSE semSuspend
    /\ UNCHANGED <<created, task, semExit, locks>>

\* Mutant: exit does not wait for the task to end.
ExitDeleteNow ==
    /\ exiting
    /\ exiting' = FALSE /\ created' = FALSE
    /\ UNCHANGED <<curInit, task, sems, locks>>

ExitDelete ==
    /\ exiting
    /\ semExit > 0
    /\ semExit' = semExit - 1
    /\ exiting' = FALSE /\ created' = FALSE
    /\ task' = "none"
    /\ UNCHANGED <<curInit, semSuspend, locks>>

-----------------------------------------------------------------------------
(* VirtQueue_isr: the host's requests.  A refused one changes nothing.     *)

CanHibernate == hibLock = 0

Suspend ==
    /\ curInit > 0
    /\ semSuspend < MaxRequests
    /\ semSuspend' = semSuspend + 1
    /\ UNCHANGED <<life, task, semExit, locks>>

Hibernation      == CanHibernate /\ Suspend
HibernationForce == Suspend

-----------------------------------------------------------------------------
(* suspendTaskFxn *)

TaskGoto(from, to) == task = from /\ task' = to

TaskLoop ==
    /\ task = "loop"
    /\ task' = IF curInit > 0 THEN "pend" ELSE "end"
    /\ UNCHANGED <<life, sems, locks>>

TaskPend ==
    /\ task = "pend"
    /\ semSuspend > 0
    /\ semSuspend' = semSuspend - 1
    /\ task' = IF curInit > 0 THEN "preSuspend" ELSE "loop"
    /\ UNCHANGED <<life, semExit, locks>>

PreSuspend  == TaskGoto("preSuspend", "hibernate") /\ UNCHANGED <<life, sems, locks>>
Hibernate   == TaskGoto("hibernate", "postResume") /\ UNCHANGED <<life, sems, locks>>
PostResume  == TaskGoto("postResume", "loop") /\ UNCHANGED <<life, sems, locks>>

TaskEnd ==
    /\ TaskGoto("end", "ended")
    /\ semExit' = semExit + 1
    /\ UNCHANGED <<life, semSuspend, locks>>

-----------------------------------------------------------------------------
(* The locks. *)

HibernateLock(t) ==
    /\ curInit > 0 /\ t \notin hibHeld
    /\ hibHeld' = hibHeld \cup {t}
    /\ hibLock' = hibLock + 1
    /\ UNCHANGED <<life, task, sems, refWakeLockCnt, wakeHeld, sleep>>

HibernateUnlock(t) ==
    /\ t \in hibHeld
    /\ hibHeld' = hibHeld \ {t}
    /\ hibLock' = IF hibLock > 0 THEN hibLock - 1 ELSE hibLock
    /\ UNCHANGED <<life, task, sems, refWakeLockCnt, wakeHeld, sleep>>

WakeLock(t) ==
    /\ curInit > 0 /\ t \notin wakeHeld
    /\ wakeHeld' = wakeHeld \cup {t}
    /\ refWakeLockCnt' = refWakeLockCnt + 1
    /\ sleep' = FALSE
    /\ UNCHANGED <<life, task, sems, hibLock, hibHeld>>

WakeUnlock(t) ==
    /\ t \in wakeHeld
    /\ wakeHeld' = wakeHeld \ {t}
    /\ refWakeLockCnt' = IF refWakeLockCnt > 0 THEN refWakeLockCnt - 1 ELSE refWakeLockCnt
    /\ sleep' = (sleep \/ refWakeLockCnt' = 0)
    /\ UNCHANGED <<life, task, sems, hibLock, hibHeld>>

-----------------------------------------------------------------------------
TaskStep == TaskLoop \/ TaskPend \/ PreSuspend \/ Hibernate \/ PostResume \/ TaskEnd

PowerNext ==
    \/ InitFirst \/ InitAgain \/ Exit \/ ExitDelete
    \/ Hibernation \/ HibernationForce
    \/ TaskStep
    \/ \E t \in Tasks : \/ HibernateLock(t) \/ HibernateUnlock(t)
                        \/ WakeLock(t) \/ WakeUnlock(t)

PowerSpec == PowerInit /\ [][PowerNext]_powerVars

-----------------------------------------------------------------------------
(***************************************************************************)
(* exit ends the task and not its semaphores under it: the task waits on a *)
(* semaphore and posts one only while they exist, whatever request or user *)
(* function it is busy with when exit is called, and the two never wait    *)
(* for each other.                                                         *)
(***************************************************************************)
TaskHasSemaphores ==
    /\ task \in {"pend", "end"} => created
    /\ ~(exiting /\ task = "pend" /\ semSuspend = 0)

(* A task that holds a wake lock keeps the processor from deep sleep, and  *)
(* one that holds a hibernation lock refuses the requests that come.       *)
LocksHold ==
    /\ wakeHeld # {} => ~sleep
    /\ hibHeld # {} => ~CanHibernate

(* The suspend task has its semaphores and the locks hold, whatever order  *)
(* the host's requests, the locks and the calls of init and exit come in.  *)
PowerIsSafe == TaskHasSemaphores /\ LocksHold
=============================================================================
