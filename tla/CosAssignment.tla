---------------------------- MODULE CosAssignment ----------------------------
(***************************************************************************)
(* Handing out classes of service (COS) over the MSR interface:            *)
(* pqos_alloc_assign and pqos_alloc_release of lib/allocation.c, and the   *)
(* calls that move cores between classes behind an application's back.     *)
(*                                                                         *)
(* As with RMIDs there is no table: a class is in use because some core's  *)
(* PQOS_MSR_ASSOC register holds it.  Which cores are looked at depends on *)
(* the technologies an application asks for.  A call is one action; calls  *)
(* are kept apart by the API lock (ApiLock).                               *)
(***************************************************************************)
EXTENDS Naturals, FiniteSets

CONSTANTS Cores,        \* logical cores
          Sockets,      \* sockets, which share L3 cache and memory bandwidth
          SocketOf,     \* the socket of a core
          L2Ids,        \* L2 clusters, which share L2 cache
          L2Of,         \* the L2 cluster of a core
          Apps,         \* applications that assign classes
          NumCos,       \* classes of each technology, 0 when it is absent
          Requests      \* sets of technologies that applications ask for

Technologies == {"l3ca", "l2ca", "mba"}

ASSUME SocketOfType == SocketOf \in [Cores -> Sockets]
ASSUME L2OfType == L2Of \in [Cores -> L2Ids]
ASSUME L2InSocket == \A c, d \in Cores : L2Of[c] = L2Of[d] => SocketOf[c] = SocketOf[d]
ASSUME NumCosType == NumCos \in [Technologies -> Nat]
ASSUME RequestsType == Requests \subseteq (SUBSET Technologies) \ {{}}

VARIABLES cos,          \* COS field of each core's PQOS_MSR_ASSOC
          held,         \* what each application believes it was assigned
          stray,        \* history: cores left in a class by a failed call or
                        \*   a dead application, or put there by hand
          meddled,      \* history: applications one of whose cores somebody
                        \*   moved, or whose class was set on another core by
                        \*   hand
          narrow        \* history: cores in a class that was searched for in
                        \*   one L2 cluster only

vars == <<cos, held, stray, meddled, narrow>>

COS0 == 0

Classes == {COS0} \union (UNION {0 .. NumCos[t] - 1 : t \in Technologies})

Assignment == [cores : SUBSET Cores, class : Classes, tech : SUBSET Technologies]
Nothing == [cores |-> {}, class |-> COS0, tech |-> {}]

Holders == {a \in Apps : held[a].cores # {}}
HoldersOf(cs) == {a \in Holders : held[a].cores \intersect cs # {}}

-----------------------------------------------------------------------------
(* get_hi_cos_id: classes that all the requested technologies have. *)
CommonTo(tech) == {k \in Classes : \A t \in tech : k < NumCos[t]}

Peers(c, tech) == IF "l2ca" \in tech THEN {d \in Cores : L2Of[d] = L2Of[c]}
                                     ELSE {d \in Cores : SocketOf[d] = SocketOf[c]}

(* hw_alloc_assign: the cores have to be of one L2 cluster when L2 CAT is  *)
(* asked for, of one socket otherwise.                                     *)
OneEntity(cs, tech) == \A c, d \in cs : d \in Peers(c, tech)

(* get_unused_cos looks only at the requested classes' entity. *)
Domain(cs, tech) == UNION {Peers(c, tech) : c \in cs}

UnusedByHolders(cs, tech) ==
  {k \in CommonTo(tech) \ {COS0} : \A a \in Holders : held[a].class # k}

Unused(cs, tech) ==
  {k \in CommonTo(tech) \ {COS0} : \A c \in Domain(cs, tech) : cos[c] # k}

(* get_unused_cos returns the highest one. *)
IsFirstUnused(k, cs, tech) == k \in Unused(cs, tech) /\ \A j \in Unused(cs, tech) : j <= k

(* cos_assoc_set on the cores of cs. *)
Associated(cs, k) == [c \in Cores |-> IF c \in cs THEN k ELSE cos[c]]

Init == /\ cos = [c \in Cores |-> COS0]
        /\ held = [a \in Apps |-> Nothing]
        /\ stray = {}
        /\ meddled = {}
        /\ narrow = {}

Narrowed(cs, tech) == IF "l2ca" \in tech THEN narrow \union cs ELSE narrow \ cs

Accepts(a, cs, tech) == /\ a \notin Holders
                        /\ cs # {}
                        /\ \A t \in tech : NumCos[t] > 0
                        /\ OneEntity(cs, tech)

Assign(a, cs, tech) ==
  /\ Accepts(a, cs, tech)
  /\ \E k \in Classes :
       /\ IsFirstUnused(k, cs, tech)
       /\ cos' = Associated(cs, k)
       /\ held' = [held EXCEPT ![a] = [cores |-> cs, class |-> k, tech |-> tech]]
  /\ stray' = stray \ cs
  /\ meddled' = meddled \union HoldersOf(cs)
  /\ narrow' = Narrowed(cs, tech)

(* hw_alloc_assign stops at the first core whose MSR fails, and leaves the *)
(* cores before it in the new class; so does a caller that dies.           *)
AssignCutShort(a, cs, tech) ==
  /\ Accepts(a, cs, tech)
  /\ \E k \in Classes, done \in SUBSET cs :
       /\ IsFirstUnused(k, cs, tech)
       /\ cos' = Associated(done, k)
       /\ stray' = stray \union done
       /\ meddled' = meddled \union HoldersOf(done)
       /\ narrow' = Narrowed(done, tech)
  /\ UNCHANGED held

(* A release that forgets the cores it could not put back. *)
ReleaseFirstCore(a) ==
  /\ a \in Holders
  /\ \E c \in held[a].cores : cos' = Associated({c}, COS0)
  /\ held' = [held EXCEPT ![a] = Nothing]
  /\ meddled' = (meddled \union HoldersOf(held[a].cores)) \ {a}
  /\ stray' = stray \ held[a].cores
  /\ narrow' = narrow \ held[a].cores

(* hw_alloc_release goes on after a failure, and puts back to COS0 also    *)
(* the cores that somebody else has moved meanwhile.                       *)
Release(a) ==
  /\ a \in Holders
  /\ \E failed \in SUBSET held[a].cores :
       /\ cos' = Associated(held[a].cores \ failed, COS0)
       /\ stray' = (stray \ held[a].cores) \union failed
       /\ meddled' = (meddled \union HoldersOf(held[a].cores \ failed)) \ {a}
       /\ narrow' = narrow \ (held[a].cores \ failed)
  /\ held' = [held EXCEPT ![a] = Nothing]

(* An application ends and leaves its cores where they are. *)
Exit(a) ==
  /\ a \in Holders
  /\ stray' = stray \union held[a].cores
  /\ held' = [held EXCEPT ![a] = Nothing]
  /\ meddled' = meddled \ {a}
  /\ UNCHANGED <<cos, narrow>>

(* pqos_alloc_assoc_set, as pqos -a and the Muses controller use it.  The  *)
(* class has to exist for L3 or for L2 CAT.                                *)
AssocSet(c, k) ==
  /\ k < NumCos["l3ca"] \/ k < NumCos["l2ca"]
  /\ cos' = Associated({c}, k)
  /\ stray' = stray \union {c}
  /\ meddled' = meddled \union HoldersOf({c}) \union {a \in Holders : held[a].class = k}
  /\ narrow' = narrow \ {c}
  /\ UNCHANGED held

(* alloc_assoc_reset at the end of pqos_alloc_reset: every core, whoever   *)
(* uses it; a core whose MSR fails stays where it is.                      *)
Reset ==
  /\ \E failed \in SUBSET Cores :
       /\ cos' = Associated(Cores \ failed, COS0)
       /\ stray' = stray \intersect failed
       /\ meddled' = meddled \union HoldersOf(Cores \ failed)
       /\ narrow' = narrow \intersect failed
  /\ UNCHANGED held

Next ==
  \/ \E a \in Apps, cs \in SUBSET Cores, tech \in Requests :
       Assign(a, cs, tech) \/ AssignCutShort(a, cs, tech)
  \/ \E a \in Apps : Release(a) \/ Exit(a)
  \/ \E c \in Cores, k \in Classes : AssocSet(c, k)
  \/ Reset

Spec == Init /\ [][Next]_vars

-----------------------------------------------------------------------------
TypeOK == /\ cos \in [Cores -> Classes]
          /\ held \in [Apps -> Assignment]
          /\ stray \subseteq Cores
          /\ meddled \subseteq Apps
          /\ narrow \subseteq Cores

(* The cores of somebody else in an area that have the class of a. *)
Intruders(a, area) == {c \in area \ held[a].cores : cos[c] = held[a].class}

(* In the L2 clusters it has cores in, an application has its class to     *)
(* itself, so nobody's change of that class or use of that partition       *)
(* reaches its cores, as long as nobody moves its cores or puts others in  *)
(* its class by hand.  Mixed kinds of request, failed assigns and releases *)
(* and dead applications do not break it.                                  *)
ClassIsOursInCluster ==
  \A a \in Holders \ meddled :
    Intruders(a, UNION {Peers(c, {"l2ca"}) : c \in held[a].cores}) = {}

(* On the rest of its socket, an application that asked for L3 CAT or MBA  *)
(* shares its class with no core but those whose class was searched for in *)
(* one L2 cluster, for a request that includes L2 CAT.                     *)
ClassIsSharedOnlyWithL2 ==
  \A a \in Holders \ meddled : Intruders(a, Domain(held[a].cores, held[a].tech)) \subseteq narrow

(* The class handed out can be programmed for every technology that was    *)
(* asked for, and is never the default one.                                *)
ClassFitsRequest ==
  \A a \in Holders : /\ held[a].class # COS0
                     /\ \A t \in held[a].tech : held[a].class < NumCos[t]

(* A class is lost to the others (a core has it) only because an           *)
(* application holds it or because of a failed or dead caller or of a      *)
(* setting by hand: release gives back what assign took.                   *)
EveryClassAccounted ==
  \A c \in Cores : cos[c] # COS0 => c \in stray \/ \E a \in Holders : c \in held[a].cores
=============================================================================
