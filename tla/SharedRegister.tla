--------------------------- MODULE SharedRegister ---------------------------
(***************************************************************************)
(* What calls of the library read and write back while other calls may     *)
(* change it: the association register of a core, whose two halves belong  *)
(* to allocation and to monitoring (cos_assoc_set, mon_assoc_set); the     *)
(* schemata of a class, with a line for each resource, of which os_l3ca_set *)
(* and the like change one part; the cpus of a class, a mask to which      *)
(* os_alloc_assoc_set adds a core.  A counter is read by a selection in    *)
(* one register and a read of another (mon_read).  It is the API lock      *)
(* (ApiLock) that keeps the calls from undoing each other.                 *)
(***************************************************************************)
EXTENDS ApiLock

CONSTANTS Cores,        \* logical cores, by their association registers
          Files,        \* schemata, one per class of resctrl
          Parts,        \* the settings that one call changes in them together
          CpusFiles,    \* the files "cpus" of all classes
          Cpus,         \* the logical cores in them
          COS0,         \* the class of resctrl's root
          Values,       \* classes, RMIDs, masks, what can be selected
          SetBy         \* the threads that change a word, or select on a core

Words == Cores \union Files \union {CpusFiles}

ASSUME WordsApart == /\ Cores \intersect Files = {}
                     /\ CpusFiles \notin Cores \union Files
ASSUME COS0Type == COS0 \in Values
ASSUME SetByType == SetBy \in [Words -> SUBSET Threads]

VARIABLES reg,          \* contents of each word, field by field
          update,       \* per thread, the updates it has read for
          asked,        \* history: what was asked for last, field by field
          evtsel,       \* QM_EVTSEL of each core: RMID and event
          reading       \* per thread, the counter it has selected to read

sharedVars == <<lockVars, reg, update, asked, evtsel, reading>>

(* What one call sets in a word: a half of the register, lines of the      *)
(* schemata (code and data of a socket together), the class of a core.     *)
PartsOf(w) == IF w \in Cores THEN {{"cos"}, {"rmid"}}
              ELSE IF w \in Files THEN Parts
              ELSE {{c} : c \in Cpus}
FieldsOf(w) == UNION PartsOf(w)
Contents(w) == [FieldsOf(w) -> Values]

Nothing == {}
Updates == UNION {[word : {w}, part : PartsOf(w), val : Values, was : Contents(w)] : w \in Words}
Readings == [core : Cores, sel : Values]

SharedInit == /\ LockInit
              /\ reg \in [Words -> UNION {Contents(w) : w \in Words}]
              /\ \A w \in Words : reg[w] \in Contents(w)
              /\ update = [t \in Threads |-> Nothing]
              /\ asked = reg
              /\ evtsel \in [Cores -> Values]
              /\ reading = [t \in Threads |-> Nothing]

-----------------------------------------------------------------------------
Busy(t) == update[t] # Nothing \/ reading[t] # Nothing

(* msr_read, resctrl_alloc_schemata_read, resctrl_alloc_cpumask_read: the  *)
(* body of a call takes what a word holds, to set a part of it.            *)
ReadWord(t) ==
  /\ pc[t] = "api"
  /\ ~Busy(t)
  /\ \E w \in Words, v \in Values : \E P \in PartsOf(w) :
       /\ t \in SetBy[w]
       /\ update' = [update EXCEPT ![t] = {[word |-> w, part |-> P, val |-> v, was |-> reg[w]]}]
  /\ UNCHANGED <<lockVars, reg, asked, evtsel, reading>>

Changed(old, u) == [f \in DOMAIN old |-> IF f \in u.part THEN u.val ELSE old[f]]

(* The file of class u.val gets the cores it had, and the new one; a core  *)
(* that has since come to it falls back to the root.                       *)
Moved(u) ==
  [c \in Cpus |-> IF c \in u.part \/ u.was[c] = u.val THEN u.val
                  ELSE IF reg[u.word][c] = u.val THEN COS0 ELSE reg[u.word][c]]

(* What the write leaves: all else as it was read.  A variant sets the     *)
(* whole.                                                                  *)
MergedAll(u) == [f \in FieldsOf(u.word) |-> u.val]
Merged(u) == IF u.word = CpusFiles THEN Moved(u) ELSE Changed(u.was, u)

(* msr_write, resctrl_alloc_schemata_write, resctrl_alloc_cpumask_write,   *)
(* and their failure: the kernel takes all lines or none.                  *)
WriteWord(t) ==
  \E u \in update[t] :
    /\ reg' = [reg EXCEPT ![u.word] = Merged(u)]
    /\ asked' = [asked EXCEPT ![u.word] = Changed(@, u)]
    /\ update' = [update EXCEPT ![t] = Nothing]
    /\ UNCHANGED <<lockVars, evtsel, reading>>

WriteFails(t) ==
  /\ update[t] # Nothing
  /\ update' = [update EXCEPT ![t] = Nothing]
  /\ UNCHANGED <<lockVars, reg, asked, evtsel, reading>>

(* mon_read: an RMID and an event are selected, then the counter is read,  *)
(* up to three times.                                                      *)
Select(t) ==
  /\ pc[t] = "api"
  /\ ~Busy(t)
  /\ \E c \in Cores, s \in Values :
       /\ t \in SetBy[c]
       /\ evtsel' = [evtsel EXCEPT ![c] = s]
       /\ reading' = [reading EXCEPT ![t] = {[core |-> c, sel |-> s]}]
  /\ UNCHANGED <<lockVars, reg, update, asked>>

ReadCounter(t) ==
  /\ reading[t] # Nothing
  /\ reading' = [reading EXCEPT ![t] = Nothing]
  /\ UNCHANGED <<lockVars, reg, update, asked, evtsel>>

(* The lock around the body. *)
EnterOrLeave(t) == /\ Call(t) \/ LockStep(t)
                   /\ ~Busy(t)
                   /\ UNCHANGED <<reg, update, asked, evtsel, reading>>

Forgotten(f, p) == [t \in Threads |-> IF ProcOf[t] = p THEN Nothing ELSE f[t]]

KillAnywhere(p) ==
  /\ Kill(p)
  /\ update' = Forgotten(update, p)
  /\ reading' = Forgotten(reading, p)
  /\ UNCHANGED <<reg, asked, evtsel>>

SharedNext == \/ \E t \in Threads : \/ ReadWord(t) \/ WriteWord(t) \/ WriteFails(t)
                                    \/ Select(t) \/ ReadCounter(t)
                                    \/ EnterOrLeave(t)
              \/ \E p \in Procs : KillAnywhere(p)

SharedSpec == SharedInit /\ [][SharedNext]_sharedVars

(* As in ApiLock; a body that has begun goes on. *)
FairSharedSpec ==
  /\ SharedSpec
  /\ \A t \in Threads : /\ WF_sharedVars(LockStep(t) /\ EnterOrLeave(t))
                        /\ WF_sharedVars(WriteWord(t) \/ WriteFails(t) \/ ReadCounter(t))

-----------------------------------------------------------------------------
(* Words that are changed by single-threaded processes only, as the        *)
(* programs of the repository are, or by threads of one process.           *)
Guarded == {w \in Words : \/ SetBy[w] \subseteq Lone
                          \/ \A t, u \in SetBy[w] : ProcOf[t] = ProcOf[u]}

(* A class is never lost to a change of the RMID that was read before it,  *)
(* nor a mask to a change of another resource, nor the move of a core to   *)
(* that of another, also when a process is killed between its read and its *)
(* write: each field holds what was asked for it last.                     *)
NoUpdateLost == \A w \in Guarded : reg[w] = asked[w]

(* The counter a thread reads is the one it selected, not the one another  *)
(* poll on the same core has selected since.                               *)
ReadsItsOwnCounter ==
  \A t \in Threads : \A r \in reading[t] : r.core \in Guarded => evtsel[r.core] = r.sel
=============================================================================
