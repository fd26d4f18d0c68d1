---------------------------- MODULE MsrMonitoring ----------------------------
(***************************************************************************)
(* Monitoring groups over the MSR interface (lib/monitoring.c, called by   *)
(* lib/api.c): how RMIDs are handed to groups of cores and taken back.     *)
(*                                                                         *)
(* The library keeps no table of RMIDs.  An RMID is in use because some    *)
(* core's PQOS_MSR_ASSOC register holds it, so groups of different         *)
(* processes meet only in the registers.  A call is one action: the API    *)
(* lock (ApiLock) keeps calls apart.  Steps inside a call that can fail    *)
(* half way, and a process that dies, are part of the actions.             *)
(***************************************************************************)
EXTENDS Naturals, FiniteSets

CONSTANTS MonCores,     \* logical cores
          Clusters,     \* L3 clusters, which number their RMIDs apart
          ClusterOf,    \* the cluster of a core
          Groups,       \* struct pqos_mon_data of all the processes
          Events,       \* CMT/MBM events the platform supports
          MaxRmid,      \* max_rmid of each event
          RmidMax       \* m_rmid_max, max_rmid of the whole capability

ASSUME ClusterOfType == ClusterOf \in [MonCores -> Clusters]
ASSUME RmidMaxType == RmidMax \in Nat \ {0}
ASSUME MaxRmidType == MaxRmid \in [Events -> Nat]

VARIABLES assoc,        \* RMID field of each core's PQOS_MSR_ASSOC
          group,        \* contents of each group structure
          leaked,       \* history: cores left with an RMID by a failed or
                        \*   dead caller
          hijacked      \* history: running groups whose registers a reset, or
                        \*   the stop of a hijacked group, took

monVars == <<assoc, group, leaked, hijacked>>

Rmids == 0 .. RmidMax - 1

RMID0 == 0

CoresOf(k) == {c \in MonCores : ClusterOf[c] = k}
ClustersOf(cs) == {ClusterOf[c] : c \in cs}

Group == [cores : SUBSET MonCores, rmid : [Clusters -> Rmids], events : SUBSET Events]

(* A zeroed structure: not started, or stopped. *)
NoGroup == [cores |-> {}, rmid |-> [k \in Clusters |-> RMID0], events |-> {}]

Valid(g) == group[g].cores # {}
Running == {g \in Groups : Valid(g)}

-----------------------------------------------------------------------------
(* rmid_alloc: an RMID is usable when every requested event knows it, and  *)
(* free when no core of the cluster holds it.                              *)
Usable(r, E) == \A e \in E : r < MaxRmid[e]

FreeAmongRunning(k, E) ==
  {r \in Rmids \ {RMID0} : Usable(r, E) /\ \A g \in Running : r # group[g].rmid[k]}

Free(k, E) == {r \in Rmids : Usable(r, E) /\ \A c \in CoresOf(k) : assoc[c] # r}

(* rmid_alloc returns the highest one and keeps the low ones for events    *)
(* with a small range.                                                     *)
IsAllocated(r, k, E) == r \in Free(k, E) /\ \A s \in Free(k, E) : s <= r

(* hw_mon_start: the RMIDs of the poll contexts, one per cluster touched.  *)
PollContexts(cs, E) ==
  {rmid \in [Clusters -> Rmids] :
     \A k \in Clusters : IF k \in ClustersOf(cs) THEN IsAllocated(rmid[k], k, E)
                                                 ELSE rmid[k] = RMID0}

(* Checks of pqos_mon_start on the structure and on the request. *)
Accepts(g, cs, E) == ~Valid(g) /\ cs # {} /\ E # {}

(* hw_mon_start refuses a core somebody monitors. *)
NotChecked(cs) == TRUE
NotMonitored(cs) == \A c \in cs : assoc[c] = RMID0

(* mon_assoc_set on the cores of cs, each with the RMID of its cluster. *)
Associated(cs, rmid) == [c \in MonCores |-> IF c \in cs THEN rmid[ClusterOf[c]] ELSE assoc[c]]

(* mon_assoc_set(core, RMID0) on the cores of cs. *)
Released(cs) == [c \in MonCores |-> IF c \in cs THEN RMID0 ELSE assoc[c]]

MonInit == /\ assoc = [c \in MonCores |-> RMID0]
           /\ group = [g \in Groups |-> NoGroup]
           /\ leaked = {}
           /\ hijacked = {}

Start(g, cs, E) ==
  /\ Accepts(g, cs, E)
  /\ NotMonitored(cs)
  /\ \E rmid \in PollContexts(cs, E) :
       /\ assoc' = Associated(cs, rmid)
       /\ group' = [group EXCEPT ![g] = [cores |-> cs, rmid |-> rmid, events |-> E]]
  /\ UNCHANGED <<leaked, hijacked>>

(* A start that does not end well: after an MSR write failed the cores go  *)
(* back to RMID0 one by one, and those whose write fails again, or all     *)
(* those written when the process dies first, keep the new RMID.           *)
StartCutShort(g, cs, E) ==
  /\ Accepts(g, cs, E)
  /\ NotMonitored(cs)
  /\ \E rmid \in PollContexts(cs, E), stuck \in SUBSET cs :
       /\ assoc' = Associated(stuck, rmid)
       /\ leaked' = leaked \union stuck
  /\ UNCHANGED <<group, hijacked>>

(* A stop that releases the cores of the poll contexts only. *)
StopPolledCore(g) ==
  /\ Valid(g)
  /\ \E c \in group[g].cores : assoc' = Released({c})
  /\ group' = [group EXCEPT ![g] = NoGroup]
  /\ leaked' = leaked \ group[g].cores
  /\ hijacked' = hijacked \ {g}

(* hw_mon_stop: all cores of the group go back to RMID0, even those that   *)
(* another group took meanwhile (the code only warns).  The structure is   *)
(* cleared also when some of the writes fail.                              *)
Stop(g) ==
  /\ Valid(g)
  /\ \E failed \in SUBSET group[g].cores :
       LET done == group[g].cores \ failed IN
         /\ assoc' = Released(done)
         /\ leaked' = (leaked \ done) \union failed
         /\ hijacked' = (hijacked \union {h \in Running : group[h].cores \intersect done # {}})
                          \ {g}
  /\ group' = [group EXCEPT ![g] = NoGroup]

(* hw_mon_reset: all cores of the machine, whoever monitors them. *)
MonReset ==
  \E failed \in SUBSET MonCores :
    /\ assoc' = Released(MonCores \ failed)
    /\ leaked' = leaked \intersect failed
    /\ hijacked' = Running
    /\ UNCHANGED group

(* The process of a group ends without stopping it. *)
Exit(g) ==
  /\ Valid(g)
  /\ group' = [group EXCEPT ![g] = NoGroup]
  /\ leaked' = leaked \union group[g].cores
  /\ hijacked' = hijacked \ {g}
  /\ UNCHANGED assoc

MonNext ==
  \/ \E g \in Groups, cs \in SUBSET MonCores, E \in SUBSET Events :
       Start(g, cs, E) \/ StartCutShort(g, cs, E)
  \/ \E g \in Groups : Stop(g) \/ Exit(g)
  \/ MonReset

MonSpec == MonInit /\ [][MonNext]_monVars

-----------------------------------------------------------------------------
MonTypeOK == /\ assoc \in [MonCores -> Rmids]
             /\ group \in [Groups -> Group]
             /\ leaked \subseteq MonCores
             /\ hijacked \subseteq Groups

(* A group that no reset disturbed counts its own cores and only those: in *)
(* each cluster it polls, the cores whose register holds the group's RMID  *)
(* are its cores.  Two groups therefore never share an RMID of a cluster,  *)
(* although nothing but the registers records which RMIDs are taken.       *)
CountsExactlyItsCores ==
  \A g \in Running \ hijacked : \A k \in ClustersOf(group[g].cores) :
    {c \in CoresOf(k) : assoc[c] = group[g].rmid[k]} = group[g].cores \intersect CoresOf(k)

(* The RMID of a running group is one that all its events can count and is *)
(* never RMID0, the RMID of every core nobody monitors.                    *)
RmidFitsEvents ==
  \A g \in Running : \A k \in ClustersOf(group[g].cores) :
    group[g].rmid[k] # RMID0 /\ Usable(group[g].rmid[k], group[g].events)

(* A core is refused to new groups (its RMID is not RMID0) only because a  *)
(* running group monitors it or because a call failed or a process died on *)
(* it: no other path of start, stop and reset loses a core.                *)
EveryRmidAccounted ==
  \A c \in MonCores : assoc[c] # RMID0 =>
    c \in leaked \/ \E g \in Running : c \in group[g].cores

(* Who takes the registers of the groups that a step disturbs. *)
ResetIsTheCause ==
  \A g \in hijacked' \ hijacked :
    hijacked' = Running \/ \E h \in hijacked : group[h].cores \intersect group[g].cores # {}

(* Disturbance starts with a reset and nothing else: a group is hijacked   *)
(* either when a reset takes all the running groups, or by the stop of a   *)
(* group that was hijacked itself.                                         *)
HijackOnlyByReset == [][ResetIsTheCause]_monVars
=============================================================================
