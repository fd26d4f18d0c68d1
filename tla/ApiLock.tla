------------------------------- MODULE ApiLock -------------------------------
(***************************************************************************)
(* The API lock of libpqos (lib/cap.c): a lockf(3) record lock on          *)
(* /var/lock/libpqos taken before, and dropped before, a pthread mutex of  *)
(* the process.                                                            *)
(*                                                                         *)
(* A record lock belongs to a process, not to a thread: F_LOCK succeeds at *)
(* once in a process that already owns it, and one F_ULOCK drops it for    *)
(* the whole process.  The kernel drops it when the process dies.          *)
(***************************************************************************)
CONSTANTS Procs,        \* processes linked with the library
          Threads,      \* all their threads
          ProcOf,       \* the process of a thread
          NoProc,       \* nobody owns the record lock
          NoThread      \* nobody owns a mutex

ASSUME ProcOfType == ProcOf \in [Threads -> Procs]
ASSUME NoProcIsNone == NoProc \notin Procs
ASSUME NoThreadIsNone == NoThread \notin Threads

VARIABLES pc,           \* where each thread is in an API call
          fileOwner,    \* the process that owns the record lock
          mutexOwner    \* per process, the thread that owns m_apilock_mutex

lockVars == <<pc, fileOwner, mutexOwner>>

Steps == {"idle", "lockf", "mutex", "api", "unlock", "dead"}

Transition(t, from, to) == /\ pc[t] = from
                           /\ pc' = [pc EXCEPT ![t] = to]

LockInit == /\ pc = [t \in Threads |-> "idle"]
            /\ fileOwner = NoProc
            /\ mutexOwner = [p \in Procs |-> NoThread]

(* An application thread calls a function of the API. *)
Call(t) == /\ Transition(t, "idle", "lockf")
           /\ UNCHANGED <<fileOwner, mutexOwner>>

(* Variants of the steps below, each a slip the code could have had. *)
LockFileUnconditional(t) == /\ Transition(t, "lockf", "mutex")
                            /\ fileOwner' = ProcOf[t]
                            /\ UNCHANGED mutexOwner

UnlockMutexForgotten(t) == /\ Transition(t, "unlock", "idle")
                           /\ UNCHANGED <<fileOwner, mutexOwner>>

(* _pqos_api_lock, first half: lockf(m_apilock, F_LOCK, 0). *)
LockFile(t) == /\ Transition(t, "lockf", "mutex")
               /\ fileOwner \in {NoProc, ProcOf[t]}
               /\ fileOwner' = ProcOf[t]
               /\ UNCHANGED mutexOwner

(* _pqos_api_lock, second half: pthread_mutex_lock. *)
LockMutex(t) == /\ Transition(t, "mutex", "api")
                /\ mutexOwner[ProcOf[t]] = NoThread
                /\ mutexOwner' = [mutexOwner EXCEPT ![ProcOf[t]] = t]
                /\ UNCHANGED fileOwner

(* _pqos_api_unlock, first half: lockf(m_apilock, F_ULOCK, 0), which does  *)
(* nothing when the process no longer owns the record lock.                *)
UnlockFile(t) == /\ Transition(t, "api", "unlock")
                 /\ fileOwner' = IF fileOwner = ProcOf[t] THEN NoProc ELSE fileOwner
                 /\ UNCHANGED mutexOwner

(* _pqos_api_unlock, second half: pthread_mutex_unlock. *)
UnlockMutex(t) == /\ Transition(t, "unlock", "idle")
                  /\ mutexOwner' = [mutexOwner EXCEPT ![ProcOf[t]] = NoThread]
                  /\ UNCHANGED fileOwner

(* A process is killed wherever its threads are. *)
Kill(p) == /\ \E t \in Threads : ProcOf[t] = p /\ pc[t] # "dead"
           /\ pc' = [t \in Threads |-> IF ProcOf[t] = p THEN "dead" ELSE pc[t]]
           /\ fileOwner' = IF fileOwner = p THEN NoProc ELSE fileOwner
           /\ mutexOwner' = [mutexOwner EXCEPT ![p] = NoThread]

LockStep(t) == LockFile(t) \/ LockMutex(t) \/ UnlockFile(t) \/ UnlockMutex(t)

Next == \/ \E t \in Threads : Call(t) \/ LockStep(t)
        \/ \E p \in Procs : Kill(p)

Spec == LockInit /\ [][Next]_lockVars

(* A thread that can take or release a lock does so: the body of an API    *)
(* call has no unbounded wait of its own, and the kernel serves lock       *)
(* requests.  Nothing obliges an application to call, or to die.           *)
FairSpec == Spec /\ \A t \in Threads : WF_lockVars(LockStep(t))

-----------------------------------------------------------------------------
TypeOK == /\ pc \in [Threads -> Steps]
          /\ fileOwner \in Procs \union {NoProc}
          /\ mutexOwner \in [Procs -> Threads \union {NoThread}]

Inside == {t \in Threads : pc[t] = "api"}

(* Two threads of one process never run API bodies at the same time: this  *)
(* is what the mutex of _pqos_api_lock adds to the record lock.            *)
ThreadExclusion == \A t, u \in Inside : ProcOf[t] = ProcOf[u] => t = u

(* No two threads at all run API bodies at the same time, which lib/cap.c  *)
(* and pqos/README promise ("thread/process safe access").                 *)
ProcessExclusion == \A t, u \in Inside : t = u

Waiting == {t \in Threads : pc[t] \in {"lockf", "mutex"}}

(* The lock never wedges: while some thread waits for it, some thread gets *)
(* in, unless every waiter is killed.  Neither the order of the two locks  *)
(* nor a process that dies holding them can stop all the others.           *)
SomeoneGetsIn == (Waiting # {}) ~> (Inside # {} \/ Waiting = {})

(* Threads that have their process to themselves, as in the programs of    *)
(* the repository.                                                         *)
Lone == {t \in Threads : \A u \in Threads : ProcOf[u] = ProcOf[t] => u = t}

(* Among those threads the lock implements the abstract one, also next to  *)
(* processes of several threads.                                           *)
Mutex == INSTANCE ApiMutex WITH Threads <- Lone, inside <- Inside \intersect Lone
ImplementsMutex == Mutex!Spec
=============================================================================
