---------------------------- MODULE ApiLockProofs ----------------------------
(***************************************************************************)
(* What the API lock guarantees for any number of processes and threads,   *)
(* and what it does for the registers and files they share.                *)
(***************************************************************************)
EXTENDS SharedRegister, TLAPS

(* The mutex of a process belongs to its thread between pthread_mutex_lock *)
(* and pthread_mutex_unlock, and to nobody else.                           *)
MutexInv == \A t \in Threads : pc[t] \in {"api", "unlock"} => mutexOwner[ProcOf[t]] = t

(* A lone thread past lockf(F_LOCK) runs in the process that owns the      *)
(* record lock: it has no sibling that could drop it.                      *)
FileInv == \A t \in Lone : pc[t] \in {"mutex", "api"} => fileOwner = ProcOf[t]

-----------------------------------------------------------------------------
(* The variables of the lock keep their types: a step of a thread moves its *)
(* pc along lib/cap.c and hands a lock to its own process or thread.        *)
THEOREM TypeCorrect == Spec => []TypeOK
<1> USE ProcOfType DEF TypeOK, Steps
<1>1. LockInit => TypeOK
  BY DEF LockInit
<1>2. TypeOK /\ [Next]_lockVars => TypeOK'
  <2> SUFFICES ASSUME TypeOK, [Next]_lockVars
               PROVE  TypeOK'
    OBVIOUS
  <2>1. ASSUME NEW t \in Threads, Call(t) \/ LockStep(t)
        PROVE  TypeOK'
    BY <2>1 DEF Call, LockStep, LockFile, LockMutex, UnlockFile, UnlockMutex, Transition
  <2>2. ASSUME NEW p \in Procs, Kill(p)
        PROVE  TypeOK'
    BY <2>2 DEF Kill
  <2>3. CASE UNCHANGED lockVars
    BY <2>3 DEF lockVars
  <2>4. QED
    BY <2>1, <2>2, <2>3 DEF Next
<1>3. QED
  BY <1>1, <1>2, PTL DEF Spec

-----------------------------------------------------------------------------
LEMMA MutexInvStep == TypeOK /\ MutexInv /\ [Next]_lockVars => MutexInv'
<1> USE ProcOfType DEF TypeOK, Steps, MutexInv
<1> SUFFICES ASSUME TypeOK, MutexInv, [Next]_lockVars
             PROVE  MutexInv'
  OBVIOUS
<1>1. ASSUME NEW t \in Threads, Call(t) \/ LockFile(t) \/ UnlockFile(t)
      PROVE  MutexInv'
  BY <1>1 DEF Call, LockFile, UnlockFile, Transition
<1>2. ASSUME NEW t \in Threads, LockMutex(t)
      PROVE  MutexInv'
  <2>1. mutexOwner[ProcOf[t]] = NoThread
    BY <1>2 DEF LockMutex
  <2>2. ASSUME NEW u \in Threads, u # t, pc[u] \in {"api", "unlock"}
        PROVE  ProcOf[u] # ProcOf[t]
    BY <2>1, <2>2, NoThreadIsNone
  <2>3. QED
    BY <1>2, <2>2 DEF LockMutex, Transition
<1>3. ASSUME NEW t \in Threads, UnlockMutex(t)
      PROVE  MutexInv'
  <2>1. pc[t] = "unlock" /\ mutexOwner[ProcOf[t]] = t
    BY <1>3 DEF UnlockMutex, Transition
  <2>2. ASSUME NEW u \in Threads, u # t, pc[u] \in {"api", "unlock"}
        PROVE  ProcOf[u] # ProcOf[t]
    BY <2>1, <2>2
  <2>3. QED
    BY <1>3, <2>2 DEF UnlockMutex, Transition
<1>4. ASSUME NEW p \in Procs, Kill(p)
      PROVE  MutexInv'
  BY <1>4 DEF Kill
<1>5. CASE UNCHANGED lockVars
  BY <1>5 DEF lockVars
<1>6. QED
  BY <1>1, <1>2, <1>3, <1>4, <1>5 DEF Next, LockStep

(* Whatever the mix of processes and threads, the mutex of _pqos_api_lock  *)
(* keeps the threads of one process out of each other's API calls.         *)
THEOREM ThreadExclusionHolds == Spec => []ThreadExclusion
<1>1. LockInit => MutexInv
  BY DEF LockInit, MutexInv
<1>2. MutexInv => ThreadExclusion
  BY DEF MutexInv, ThreadExclusion, Inside
<1>3. QED
  BY <1>1, <1>2, MutexInvStep, TypeCorrect, PTL DEF Spec

-----------------------------------------------------------------------------
LEMMA FileInvStep == TypeOK /\ FileInv /\ [Next]_lockVars => FileInv'
<1> USE ProcOfType, NoProcIsNone DEF TypeOK, Steps, FileInv, Lone
<1> SUFFICES ASSUME TypeOK, FileInv, [Next]_lockVars
             PROVE  FileInv'
  OBVIOUS
<1>1. ASSUME NEW t \in Threads, Call(t) \/ LockMutex(t) \/ UnlockMutex(t)
      PROVE  FileInv'
  BY <1>1 DEF Call, LockMutex, UnlockMutex, Transition
<1>2. ASSUME NEW t \in Threads, LockFile(t)
      PROVE  FileInv'
  BY <1>2 DEF LockFile, Transition
<1>3. ASSUME NEW t \in Threads, UnlockFile(t)
      PROVE  FileInv'
  <2>1. /\ pc' = [pc EXCEPT ![t] = "unlock"]
        /\ fileOwner' = IF fileOwner = ProcOf[t] THEN NoProc ELSE fileOwner
    BY <1>3 DEF UnlockFile, Transition
  <2>2. ASSUME NEW u \in Lone, pc'[u] \in {"mutex", "api"}
        PROVE  fileOwner' = ProcOf[u]
    <3>1. u # t /\ pc[u] = pc'[u]
      BY <2>1, <2>2
    <3>2. fileOwner = ProcOf[u] /\ ProcOf[u] # ProcOf[t]
      BY <2>2, <3>1
    <3>3. QED
      BY <2>1, <3>2
  <2>3. QED
    BY <2>2
<1>4. ASSUME NEW p \in Procs, Kill(p)
      PROVE  FileInv'
  BY <1>4 DEF Kill
<1>5. CASE UNCHANGED lockVars
  BY <1>5 DEF lockVars
<1>6. QED
  BY <1>1, <1>2, <1>3, <1>4, <1>5 DEF Next, LockStep

LEMMA FileInvHolds == Spec => []FileInv
<1>1. LockInit => FileInv
  BY DEF LockInit, FileInv, Lone
<1>2. QED
  BY <1>1, FileInvStep, TypeCorrect, PTL DEF Spec

(* Among lone threads the record lock and the mutex together implement     *)
(* ApiMutex: pthread_mutex_lock is the step that enters, lockf(F_ULOCK),   *)
(* or the death of the process, the step that leaves.                      *)
THEOREM LockImplementsMutex == Spec => ImplementsMutex
<1> DEFINE in == Inside \intersect Lone
<1>1. LockInit => Mutex!Init
  BY DEF LockInit, Mutex!Init, Inside
<1>2. TypeOK /\ FileInv /\ [Next]_lockVars => [Mutex!Next]_in
  <2> USE ProcOfType DEF TypeOK, Steps, Inside
  <2> SUFFICES ASSUME TypeOK, FileInv, [Next]_lockVars
               PROVE  [Mutex!Next]_in
    OBVIOUS
  <2>1. ASSUME NEW t \in Threads, Call(t) \/ LockFile(t) \/ UnlockMutex(t)
        PROVE  in' = in
    BY <2>1 DEF Call, LockFile, UnlockMutex, Transition, Lone
  <2>2. ASSUME NEW t \in Threads, LockMutex(t)
        PROVE  in' = in \/ (t \in Lone /\ Mutex!Enter(t))
    <3>1. pc[t] = "mutex" /\ pc' = [pc EXCEPT ![t] = "api"]
      BY <2>2 DEF LockMutex, Transition
    <3>2. CASE t \notin Lone
      BY <3>1, <3>2 DEF Lone
    <3>3. CASE t \in Lone
      <4>1. in = {}
        BY <3>1, <3>3 DEF FileInv, Lone
      <4>2. in' = {t}
        BY <3>1, <3>3, <4>1 DEF Lone
      <4>3. QED
        BY <3>3, <4>1, <4>2 DEF Mutex!Enter
    <3>4. QED
      BY <3>2, <3>3
  <2>3. ASSUME NEW t \in Threads, UnlockFile(t)
        PROVE  in' = in \/ (t \in Lone /\ Mutex!Leave(t))
    BY <2>3 DEF UnlockFile, Transition, Mutex!Leave, Lone
  <2>4. ASSUME NEW p \in Procs, Kill(p)
        PROVE  in' = in \/ \E t \in Lone : Mutex!Leave(t)
    <3>1. CASE \E t \in in : ProcOf[t] = p
      <4>1. PICK t \in in : ProcOf[t] = p
        BY <3>1
      <4>2. in' = in \ {t}
        BY <2>4, <4>1 DEF Kill, Lone
      <4>3. QED
        BY <4>1, <4>2 DEF Mutex!Leave
    <3>2. CASE \A t \in in : ProcOf[t] # p
      BY <2>4, <3>2 DEF Kill, Lone
    <3>3. QED
      BY <3>1, <3>2
  <2>5. CASE UNCHANGED lockVars
    BY <2>5 DEF lockVars
  <2>6. QED
    BY <2>1, <2>2, <2>3, <2>4, <2>5 DEF Next, LockStep, Mutex!Next
<1>3. QED
  BY <1>1, <1>2, TypeCorrect, FileInvHolds, PTL DEF Spec, ImplementsMutex, Mutex!Spec

(* When every thread is a lone one, as in pqos, Muses and rdtset, at most  *)
(* one API body runs on the machine.                                       *)
THEOREM ProcessExclusionHolds == ASSUME Threads = Lone
                                 PROVE  Spec => []ProcessExclusion
<1>1. FileInv => ProcessExclusion
  BY Threads = Lone DEF FileInv, ProcessExclusion, Inside, Lone
<1>2. QED
  BY <1>1, FileInvHolds, PTL

-----------------------------------------------------------------------------
(* Every word has its fields, as do the copies that were read of it.       *)
Shaped(r) == /\ r \in [Words -> UNION {Contents(w) : w \in Words}]
             /\ \A w \in Words : r[w] \in Contents(w)

SharedType == /\ Shaped(reg)
              /\ Shaped(asked)
              /\ update \in [Threads -> SUBSET Updates]
              /\ evtsel \in [Cores -> Values]
              /\ reading \in [Threads -> SUBSET Readings]

(* Between its read and its write a thread is inside, and the word it      *)
(* read, if guarded, has not changed.                                      *)
UpdateInv == \A t \in Threads : \A u \in update[t] :
               /\ pc[t] = "api"
               /\ t \in SetBy[u.word]
               /\ u.word \in Guarded => u.was = reg[u.word]

(* So is a thread between its selection and its read of the counter.       *)
ReadingInv == \A t \in Threads : \A r \in reading[t] :
                /\ pc[t] = "api"
                /\ t \in SetBy[r.core]
                /\ r.core \in Guarded => evtsel[r.core] = r.sel

(* A step on the registers is a step of the lock, or none.                 *)
LEMMA SharedStepIsLockStep == [SharedNext]_sharedVars => [Next]_lockVars
<1> SUFFICES ASSUME [SharedNext]_sharedVars
             PROVE  [Next]_lockVars
  OBVIOUS
<1>1. ASSUME NEW t \in Threads,
             ReadWord(t) \/ WriteWord(t) \/ WriteFails(t) \/ Select(t) \/ ReadCounter(t)
      PROVE  UNCHANGED lockVars
  BY <1>1 DEF ReadWord, WriteWord, WriteFails, Select, ReadCounter
<1>2. ASSUME NEW t \in Threads, EnterOrLeave(t)
      PROVE  Next
  BY <1>2 DEF EnterOrLeave, Next
<1>3. ASSUME NEW p \in Procs, KillAnywhere(p)
      PROVE  Next
  BY <1>3 DEF KillAnywhere, Next
<1>4. CASE UNCHANGED sharedVars
  BY <1>4 DEF sharedVars
<1>5. QED
  BY <1>1, <1>2, <1>3, <1>4 DEF SharedNext

(* Entering or leaving moves one thread.                                   *)
LEMMA OthersStay == ASSUME TypeOK, NEW t \in Threads, Call(t) \/ LockStep(t),
                           NEW s \in Threads, s # t
                    PROVE  pc'[s] = pc[s]
BY DEF Call, LockStep, LockFile, LockMutex, UnlockFile, UnlockMutex, Transition, TypeOK

(* The lock keeps two threads out of a guarded word.                       *)
LEMMA GuardedExclusion == ASSUME MutexInv, FileInv,
                                 NEW w \in Guarded, NEW t \in SetBy[w], NEW u \in SetBy[w],
                                 pc[t] = "api", pc[u] = "api"
                          PROVE  t = u
<1>1. w \in Words /\ t \in Threads /\ u \in Threads
  BY SetByType DEF Guarded
<1>2. ProcOf[t] = ProcOf[u] => t = u
  BY <1>1 DEF MutexInv
<1>3. SetBy[w] \subseteq Lone => t = u
  BY <1>1, <1>2 DEF FileInv
<1>4. QED
  BY <1>1, <1>2, <1>3 DEF Guarded

(* What an update is made of.                                              *)
LEMMA UpdateParts == ASSUME NEW u \in Updates
                     PROVE  /\ u.word \in Words
                            /\ u.part \in PartsOf(u.word)
                            /\ u.val \in Values
                            /\ u.was \in Contents(u.word)
BY DEF Updates

LEMMA UpdateMade == ASSUME NEW w \in Words, NEW P \in PartsOf(w), NEW v \in Values,
                           NEW old \in Contents(w)
                    PROVE  [word |-> w, part |-> P, val |-> v, was |-> old] \in Updates
BY DEF Updates

(* The fields of the files "cpus" are the cores.                           *)
LEMMA CpusFields == FieldsOf(CpusFiles) = Cpus
BY WordsApart DEF FieldsOf, PartsOf

(* The write of an update leaves a word with the fields it had, and, when  *)
(* nobody has changed it since it was read, with no field changed but      *)
(* those that were asked for.                                              *)
LEMMA MergedKeepsShape == ASSUME SharedType, NEW u \in Updates
                          PROVE  /\ Merged(u) \in Contents(u.word)
                                 /\ Changed(asked[u.word], u) \in Contents(u.word)
<1>1. /\ u.word \in Words /\ u.val \in Values /\ u.was \in Contents(u.word)
      /\ reg[u.word] \in Contents(u.word) /\ asked[u.word] \in Contents(u.word)
  BY UpdateParts DEF SharedType, Shaped
<1>2. ASSUME NEW old \in Contents(u.word)
      PROVE  Changed(old, u) \in Contents(u.word)
  BY <1>1 DEF Changed, Contents
<1>3. CASE u.word = CpusFiles
  BY <1>1, <1>2, <1>3, CpusFields, COS0Type DEF Merged, Moved, Contents
<1>4. CASE u.word # CpusFiles
  BY <1>1, <1>2, <1>4 DEF Merged
<1>5. QED
  BY <1>1, <1>2, <1>3, <1>4

LEMMA MergedIsChanged == ASSUME SharedType, NEW u \in Updates, u.was = reg[u.word]
                         PROVE  Merged(u) = Changed(reg[u.word], u)
<1>1. u.word \in Words /\ reg[u.word] \in Contents(u.word)
  BY UpdateParts DEF SharedType, Shaped
<1>2. CASE u.word = CpusFiles
  <2>1. DOMAIN reg[u.word] = Cpus
    BY <1>1, <1>2, CpusFields DEF Contents
  <2>2. \A c \in Cpus : (IF c \in u.part \/ u.was[c] = u.val THEN u.val
                         ELSE IF reg[u.word][c] = u.val THEN COS0 ELSE reg[u.word][c])
                        = IF c \in u.part THEN u.val ELSE reg[u.word][c]
    OBVIOUS
  <2>3. Moved(u) = Changed(reg[u.word], u)
    BY <2>1, <2>2 DEF Moved, Changed
  <2>4. QED
    BY <1>2, <2>3 DEF Merged
<1>3. CASE u.word # CpusFiles
  BY <1>3 DEF Merged
<1>4. QED
  BY <1>2, <1>3

LEMMA SharedTypeStep == SharedType /\ [SharedNext]_sharedVars => SharedType'
<1> SUFFICES ASSUME SharedType, [SharedNext]_sharedVars
             PROVE  SharedType'
  OBVIOUS
<1>1. ASSUME NEW t \in Threads, ReadWord(t)
      PROVE  SharedType'
  <2>1. PICK w \in Words, v \in Values : \E P \in PartsOf(w) :
          update' = [update EXCEPT ![t] = {[word |-> w, part |-> P, val |-> v, was |-> reg[w]]}]
    BY <1>1 DEF ReadWord
  <2>2. \A P \in PartsOf(w) : [word |-> w, part |-> P, val |-> v, was |-> reg[w]] \in Updates
    BY UpdateMade DEF SharedType, Shaped
  <2>3. UNCHANGED <<reg, asked, evtsel, reading>>
    BY <1>1 DEF ReadWord
  <2>4. QED
    BY <2>1, <2>2, <2>3 DEF SharedType, Shaped
<1>2. ASSUME NEW t \in Threads, WriteWord(t)
      PROVE  SharedType'
  <2>1. PICK u \in update[t] :
          /\ reg' = [reg EXCEPT ![u.word] = Merged(u)]
          /\ asked' = [asked EXCEPT ![u.word] = Changed(@, u)]
          /\ update' = [update EXCEPT ![t] = Nothing]
          /\ UNCHANGED <<evtsel, reading>>
    BY <1>2 DEF WriteWord
  <2>2. u \in Updates
    BY DEF SharedType
  <2>3. u.word \in Words
    BY <2>2, UpdateParts
  <2>4. Merged(u) \in Contents(u.word) /\ Changed(asked[u.word], u) \in Contents(u.word)
    BY <2>2, MergedKeepsShape
  <2>5. Shaped(reg)'
    BY <2>1, <2>3, <2>4 DEF SharedType, Shaped
  <2>6. Shaped(asked)'
    BY <2>1, <2>3, <2>4 DEF SharedType, Shaped
  <2>7. QED
    BY <2>1, <2>5, <2>6 DEF SharedType, Nothing
<1>3. ASSUME NEW t \in Threads, WriteFails(t) \/ EnterOrLeave(t) \/ ReadCounter(t)
      PROVE  SharedType'
  BY <1>3 DEF WriteFails, EnterOrLeave, ReadCounter, Nothing, SharedType, Shaped
<1>4. ASSUME NEW t \in Threads, Select(t)
      PROVE  SharedType'
  BY <1>4 DEF Select, Readings, SharedType, Shaped
<1>5. ASSUME NEW p \in Procs, KillAnywhere(p)
      PROVE  SharedType'
  BY <1>5 DEF KillAnywhere, Forgotten, Nothing, SharedType, Shaped
<1>6. CASE UNCHANGED sharedVars
  BY <1>6 DEF sharedVars, SharedType, Shaped
<1>7. QED
  BY <1>1, <1>2, <1>3, <1>4, <1>5, <1>6 DEF SharedNext

(* What has been read, or selected, in a guarded word stays so.            *)
LEMMA UpdateInvStep == /\ TypeOK /\ MutexInv /\ FileInv
                       /\ SharedType /\ UpdateInv /\ NoUpdateLost
                       /\ [SharedNext]_sharedVars
                       => UpdateInv' /\ NoUpdateLost'
<1> SUFFICES ASSUME TypeOK, MutexInv, FileInv, SharedType, UpdateInv, NoUpdateLost,
                    [SharedNext]_sharedVars
             PROVE  UpdateInv' /\ NoUpdateLost'
  OBVIOUS
<1> Guarded' = Guarded
  BY DEF Guarded
<1>1. ASSUME NEW t \in Threads, ReadWord(t)
      PROVE  UpdateInv' /\ NoUpdateLost'
  <2>1. UNCHANGED <<lockVars, reg, asked>>
    BY <1>1 DEF ReadWord
  <2>2. PICK w \in Words, v \in Values : \E P \in PartsOf(w) :
          /\ t \in SetBy[w]
          /\ update' = [update EXCEPT ![t] = {[word |-> w, part |-> P, val |-> v, was |-> reg[w]]}]
    BY <1>1 DEF ReadWord
  <2>3. pc[t] = "api"
    BY <1>1 DEF ReadWord
  <2>4. UpdateInv'
    BY <2>1, <2>2, <2>3 DEF UpdateInv, SharedType, lockVars
  <2>5. QED
    BY <2>1, <2>4 DEF NoUpdateLost
<1>2. ASSUME NEW t \in Threads, WriteWord(t)
      PROVE  UpdateInv' /\ NoUpdateLost'
  <2>1. PICK u \in update[t] :
          /\ reg' = [reg EXCEPT ![u.word] = Merged(u)]
          /\ asked' = [asked EXCEPT ![u.word] = Changed(@, u)]
          /\ update' = [update EXCEPT ![t] = Nothing]
    BY <1>2 DEF WriteWord
  <2>2. UNCHANGED lockVars
    BY <1>2 DEF WriteWord
  <2>3. /\ u \in Updates /\ u.word \in Words
        /\ pc[t] = "api" /\ t \in SetBy[u.word]
        /\ u.word \in Guarded => u.was = reg[u.word]
    BY UpdateParts DEF SharedType, UpdateInv
  <2>4. NoUpdateLost'
    <3>1. ASSUME NEW w \in Guarded, w # u.word
          PROVE  reg'[w] = asked'[w]
      BY <2>1, <3>1 DEF NoUpdateLost, SharedType, Shaped, Guarded
    <3>2. ASSUME u.word \in Guarded
          PROVE  reg'[u.word] = asked'[u.word]
      <4>1. Merged(u) = Changed(reg[u.word], u)
        BY <2>3, <3>2, MergedIsChanged
      <4>2. reg[u.word] = asked[u.word]
        BY <3>2 DEF NoUpdateLost
      <4>3. QED
        BY <2>1, <2>3, <4>1, <4>2 DEF SharedType, Shaped
    <3>3. QED
      BY <3>1, <3>2 DEF NoUpdateLost
  <2>5. ASSUME NEW s \in Threads, NEW x \in update'[s]
        PROVE  /\ pc'[s] = "api" /\ s \in SetBy[x.word]
               /\ x.word \in Guarded => x.was = reg'[x.word]
    <3>1. s # t /\ x \in update[s]
      BY <2>1, <2>5 DEF SharedType, Nothing
    <3>2. /\ pc[s] = "api" /\ s \in SetBy[x.word]
          /\ x.word \in Guarded => x.was = reg[x.word]
      BY <3>1 DEF UpdateInv
    <3>3. x.word \in Guarded => x.word # u.word
      BY <2>3, <3>1, <3>2, GuardedExclusion
    <3>4. x.word \in Words
      BY <3>1, UpdateParts DEF SharedType
    <3>5. QED
      BY <2>1, <2>2, <3>2, <3>3, <3>4 DEF SharedType, Shaped, lockVars
  <2>6. QED
    BY <2>4, <2>5 DEF UpdateInv
<1>3. ASSUME NEW t \in Threads, WriteFails(t)
      PROVE  UpdateInv' /\ NoUpdateLost'
  BY <1>3 DEF WriteFails, UpdateInv, NoUpdateLost, Nothing, SharedType, lockVars
<1>4. ASSUME NEW t \in Threads, Select(t) \/ ReadCounter(t)
      PROVE  UpdateInv' /\ NoUpdateLost'
  BY <1>4 DEF Select, ReadCounter, UpdateInv, NoUpdateLost, lockVars
<1>5. ASSUME NEW t \in Threads, EnterOrLeave(t)
      PROVE  UpdateInv' /\ NoUpdateLost'
  <2>1. update[t] = {} /\ UNCHANGED <<reg, update, asked>>
    BY <1>5 DEF EnterOrLeave, Busy, Nothing
  <2>2. \A s \in Threads : s # t => pc'[s] = pc[s]
    BY <1>5, OthersStay DEF EnterOrLeave
  <2>3. QED
    BY <2>1, <2>2 DEF UpdateInv, NoUpdateLost
<1>6. ASSUME NEW p \in Procs, KillAnywhere(p)
      PROVE  UpdateInv' /\ NoUpdateLost'
  <2>1. UNCHANGED <<reg, asked>>
    BY <1>6 DEF KillAnywhere
  <2>2. ASSUME NEW s \in Threads, NEW x \in update'[s]
        PROVE  x \in update[s] /\ pc'[s] = pc[s]
    BY <1>6, <2>2 DEF KillAnywhere, Kill, Forgotten, Nothing, TypeOK
  <2>3. QED
    BY <2>1, <2>2 DEF UpdateInv, NoUpdateLost
<1>7. CASE UNCHANGED sharedVars
  BY <1>7 DEF sharedVars, lockVars, UpdateInv, NoUpdateLost
<1>8. QED
  BY <1>1, <1>2, <1>3, <1>4, <1>5, <1>6, <1>7 DEF SharedNext

LEMMA ReadingInvStep == /\ TypeOK /\ MutexInv /\ FileInv
                        /\ SharedType /\ ReadingInv
                        /\ [SharedNext]_sharedVars
                        => ReadingInv'
<1> SUFFICES ASSUME TypeOK, MutexInv, FileInv, SharedType, ReadingInv, [SharedNext]_sharedVars
             PROVE  ReadingInv'
  OBVIOUS
<1> Guarded' = Guarded
  BY DEF Guarded
<1>1. ASSUME NEW t \in Threads, Select(t)
      PROVE  ReadingInv'
  <2>1. PICK c \in Cores, v \in Values :
          /\ t \in SetBy[c]
          /\ evtsel' = [evtsel EXCEPT ![c] = v]
          /\ reading' = [reading EXCEPT ![t] = {[core |-> c, sel |-> v]}]
    BY <1>1 DEF Select
  <2>2. pc[t] = "api" /\ UNCHANGED lockVars
    BY <1>1 DEF Select
  <2>3. ASSUME NEW s \in Threads, s # t, NEW r \in reading'[s]
        PROVE  /\ pc'[s] = "api" /\ s \in SetBy[r.core]
               /\ r.core \in Guarded => evtsel'[r.core] = r.sel
    <3>1. r \in reading[s]
      BY <2>1, <2>3 DEF SharedType
    <3>2. /\ pc[s] = "api" /\ s \in SetBy[r.core]
          /\ r.core \in Guarded => evtsel[r.core] = r.sel
      BY <3>1 DEF ReadingInv
    <3>3. r.core \in Guarded => r.core # c
      BY <2>1, <2>2, <2>3, <3>2, GuardedExclusion
    <3>4. QED
      BY <2>1, <2>2, <3>1, <3>2, <3>3 DEF SharedType, Readings, lockVars
  <2>4. ASSUME NEW r \in reading'[t]
        PROVE  pc'[t] = "api" /\ t \in SetBy[r.core] /\ evtsel'[r.core] = r.sel
    BY <2>1, <2>2, <2>4 DEF SharedType, lockVars
  <2>5. QED
    BY <2>3, <2>4 DEF ReadingInv
<1>2. ASSUME NEW t \in Threads, ReadCounter(t)
      PROVE  ReadingInv'
  BY <1>2 DEF ReadCounter, ReadingInv, Nothing, SharedType, lockVars
<1>3. ASSUME NEW t \in Threads, ReadWord(t) \/ WriteWord(t) \/ WriteFails(t)
      PROVE  ReadingInv'
  BY <1>3 DEF ReadWord, WriteWord, WriteFails, ReadingInv, lockVars
<1>4. ASSUME NEW t \in Threads, EnterOrLeave(t)
      PROVE  ReadingInv'
  <2>1. reading[t] = {} /\ UNCHANGED <<evtsel, reading>>
    BY <1>4 DEF EnterOrLeave, Busy, Nothing
  <2>2. \A s \in Threads : s # t => pc'[s] = pc[s]
    BY <1>4, OthersStay DEF EnterOrLeave
  <2>3. QED
    BY <2>1, <2>2 DEF ReadingInv
<1>5. ASSUME NEW p \in Procs, KillAnywhere(p)
      PROVE  ReadingInv'
  <2>1. UNCHANGED evtsel
    BY <1>5 DEF KillAnywhere
  <2>2. ASSUME NEW s \in Threads, NEW r \in reading'[s]
        PROVE  r \in reading[s] /\ pc'[s] = pc[s]
    BY <1>5, <2>2 DEF KillAnywhere, Kill, Forgotten, Nothing, TypeOK
  <2>3. QED
    BY <2>1, <2>2 DEF ReadingInv
<1>6. CASE UNCHANGED sharedVars
  BY <1>6 DEF sharedVars, lockVars, ReadingInv
<1>7. QED
  BY <1>1, <1>2, <1>3, <1>4, <1>5, <1>6 DEF SharedNext

LEMMA SharedSpecIsSpec == SharedSpec => Spec /\ []MutexInv
<1>1. SharedInit => LockInit
  BY DEF SharedInit
<1>2. LockInit => MutexInv
  BY DEF LockInit, MutexInv
<1>3. SharedSpec => Spec
  BY <1>1, SharedStepIsLockStep, PTL DEF SharedSpec, Spec
<1>4. QED
  BY <1>2, <1>3, MutexInvStep, TypeCorrect, PTL DEF Spec

LEMMA SharedTypeHolds == SharedSpec => []SharedType
<1>1. SharedInit => SharedType
  BY DEF SharedInit, SharedType, Shaped, Nothing
<1>2. QED
  BY <1>1, SharedTypeStep, PTL DEF SharedSpec

(* No field is ever lost to a change of another one of the same word: not  *)
(* the class of a core to its RMID (cos_assoc_set, mon_assoc_set), not a   *)
(* mask to another resource of the class (os_l3ca_set, os_mba_set), not a  *)
(* core's move to that of another (os_alloc_assoc_set), for words that     *)
(* only single-threaded processes, or only the threads of one, change.     *)
THEOREM NoUpdateLostHolds == SharedSpec => []NoUpdateLost
<1>1. SharedInit => UpdateInv /\ NoUpdateLost
  BY DEF SharedInit, UpdateInv, NoUpdateLost, Nothing
<1>2. QED
  BY <1>1, UpdateInvStep, SharedTypeHolds, SharedSpecIsSpec, TypeCorrect, FileInvHolds,
     PTL DEF SharedSpec

(* Between the selection of a counter and its read (mon_read) nobody else  *)
(* selects on a core that only single-threaded processes, or only the      *)
(* threads of one process, use.                                            *)
THEOREM ReadsItsOwnCounterHolds == SharedSpec => []ReadsItsOwnCounter
<1>1. SharedInit => ReadingInv
  BY DEF SharedInit, ReadingInv, Nothing
<1>2. ReadingInv => ReadsItsOwnCounter
  BY DEF ReadingInv, ReadsItsOwnCounter
<1>3. QED
  BY <1>1, <1>2, ReadingInvStep, SharedTypeHolds, SharedSpecIsSpec, TypeCorrect, FileInvHolds,
     PTL DEF SharedSpec

=============================================================================
