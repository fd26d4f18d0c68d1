------------------------- MODULE CosAssignmentProofs -------------------------
(***************************************************************************)
(* The search for an unused class gives an application a class of its own, *)
(* for any topology, any technologies and any number of applications.      *)
(***************************************************************************)
EXTENDS CosAssignment, TLAPS

Unmeddled == Holders \ meddled

(* With the registers m, and the cores w in a class searched for in one    *)
(* cluster only, the cores cs have class k, other cores of their L2        *)
(* clusters do not, and unless L2 CAT was asked for neither do other cores *)
(* of the socket, save for those of w.                                     *)
Apart(cs, k, tech, m, w) ==
  /\ \A c \in cs : m[c] = k
  /\ \A c \in cs, d \in Cores \ cs : L2Of[d] = L2Of[c] => m[d] # k
  /\ "l2ca" \notin tech =>
       \A c \in cs, d \in (Cores \ cs) \ w : SocketOf[d] = SocketOf[c] => m[d] # k

ApartInv ==
  \A a \in Unmeddled : Apart(held[a].cores, held[a].class, held[a].tech, cos, narrow)

IInv == TypeOK /\ ClassFitsRequest /\ ApartInv

-----------------------------------------------------------------------------
(* What a search for an unused class guarantees of the cores around.       *)
LEMMA UnusedAround ==
  ASSUME NEW cs \in SUBSET Cores, NEW tech \in Requests, NEW k \in Unused(cs, tech),
         NEW c \in cs, NEW d \in Cores
  PROVE  /\ L2Of[d] = L2Of[c] => cos[d] # k
         /\ "l2ca" \notin tech /\ SocketOf[d] = SocketOf[c] => cos[d] # k
<1>1. L2Of[d] = L2Of[c] => d \in Peers(c, tech)
  BY L2InSocket DEF Peers
<1>2. "l2ca" \notin tech /\ SocketOf[d] = SocketOf[c] => d \in Peers(c, tech)
  BY DEF Peers
<1>3. d \in Peers(c, tech) => cos[d] # k
  BY DEF Unused, Domain
<1>4. QED
  BY <1>1, <1>2, <1>3

(* Moving the cores done to a class unused around them keeps every set of  *)
(* cores apart that they do not belong to.                                 *)
LEMMA MoveKeepsOthers ==
  ASSUME NEW cs \in SUBSET Cores, NEW tech \in Requests, NEW k \in Unused(cs, tech),
         NEW done \in SUBSET cs,
         NEW own \in SUBSET Cores, NEW j, NEW t, own \intersect done = {},
         Apart(own, j, t, cos, narrow)
  PROVE  Apart(own, j, t, Associated(done, k), Narrowed(done, tech))
<1> DEFINE m == Associated(done, k)
           w == Narrowed(done, tech)
<1>1. \A c \in Cores : m[c] = IF c \in done THEN k ELSE cos[c]
  BY DEF Associated
<1>2. \A c \in own : m[c] = j /\ cos[c] = j
  BY <1>1 DEF Apart
<1>3. ASSUME NEW c \in own, NEW d \in Cores \ own, L2Of[d] = L2Of[c]
      PROVE  m[d] # j
  <2>1. CASE d \in done
    <3>1. cos[c] # k
      BY <1>3, <2>1, UnusedAround
    <3>2. QED
      BY <1>1, <1>2, <2>1, <3>1
  <2>2. CASE d \notin done
    BY <1>1, <1>3, <2>2 DEF Apart
  <2>3. QED
    BY <2>1, <2>2
<1>4. ASSUME "l2ca" \notin t,
             NEW c \in own, NEW d \in (Cores \ own) \ w, SocketOf[d] = SocketOf[c]
      PROVE  m[d] # j
  <2>1. CASE d \in done
    <3>1. "l2ca" \notin tech
      BY <1>4, <2>1 DEF Narrowed
    <3>2. cos[c] # k
      BY <1>4, <2>1, <3>1, UnusedAround
    <3>3. QED
      BY <1>1, <1>2, <2>1, <3>2
  <2>2. CASE d \notin done
    <3>1. d \notin narrow
      BY <1>4, <2>2 DEF Narrowed
    <3>2. QED
      BY <1>1, <1>4, <2>2, <3>1 DEF Apart
  <2>3. QED
    BY <2>1, <2>2
<1>5. QED
  BY <1>2, <1>3, <1>4 DEF Apart

LEMMA AssignInv ==
  ASSUME IInv, NEW a \in Apps, NEW cs \in SUBSET Cores, NEW tech \in Requests,
         Assign(a, cs, tech)
  PROVE  IInv'
<1>1. PICK k \in Classes :
        /\ IsFirstUnused(k, cs, tech)
        /\ cos' = Associated(cs, k)
        /\ held' = [held EXCEPT ![a] = [cores |-> cs, class |-> k, tech |-> tech]]
  BY DEF Assign
<1>2. /\ stray' = stray \ cs /\ meddled' = meddled \union HoldersOf(cs)
      /\ narrow' = Narrowed(cs, tech)
      /\ a \notin Holders /\ cs # {}
  BY DEF Assign, Accepts
<1>3. k \in Unused(cs, tech)
  BY <1>1 DEF IsFirstUnused
<1>4. k # COS0 /\ \A t \in tech : k < NumCos[t]
  BY <1>3 DEF Unused, CommonTo
<1>5. /\ held'[a] = [cores |-> cs, class |-> k, tech |-> tech]
      /\ \A b \in Apps \ {a} : held'[b] = held[b]
      /\ Holders' = Holders \union {a}
  BY <1>1, <1>2 DEF IInv, TypeOK, Holders
<1>6. TypeOK'
  <2>1. cos' \in [Cores -> Classes]
    BY <1>1 DEF IInv, TypeOK, Associated
  <2>2. held' \in [Apps -> Assignment]
    BY <1>1, RequestsType DEF IInv, TypeOK, Assignment
  <2>3. stray' \subseteq Cores /\ meddled' \subseteq Apps /\ narrow' \subseteq Cores
    BY <1>2 DEF IInv, TypeOK, HoldersOf, Holders, Narrowed
  <2>4. QED
    BY <2>1, <2>2, <2>3 DEF TypeOK
<1>7. ClassFitsRequest'
  BY <1>4, <1>5 DEF IInv, ClassFitsRequest, Holders
<1>8. ASSUME NEW b \in Unmeddled'
      PROVE  Apart(held'[b].cores, held'[b].class, held'[b].tech, cos', narrow')
  <2>1. CASE b = a
    <3>1. \A c \in Cores : cos'[c] = IF c \in cs THEN k ELSE cos[c]
      BY <1>1 DEF Associated
    <3>2. Apart(cs, k, tech, cos', narrow')
      BY <1>3, <3>1, UnusedAround DEF Apart
    <3>3. QED
      BY <1>5, <2>1, <3>2
  <2>2. CASE b # a
    <3>1. b \in Unmeddled /\ held[b].cores \intersect cs = {} /\ held'[b] = held[b]
      BY <1>2, <1>5, <2>2 DEF Unmeddled, HoldersOf, Holders
    <3>2. held[b].cores \in SUBSET Cores
      BY <3>1 DEF Unmeddled, Holders, IInv, TypeOK, Assignment
    <3>3. Apart(held[b].cores, held[b].class, held[b].tech, cos, narrow)
      BY <3>1 DEF IInv, ApartInv
    <3>4. Apart(held[b].cores, held[b].class, held[b].tech, Associated(cs, k), Narrowed(cs, tech))
      BY <1>3, <3>1, <3>2, <3>3, MoveKeepsOthers
    <3>5. QED
      BY <1>1, <1>2, <3>1, <3>4
  <2>3. QED
    BY <2>1, <2>2
<1>9. QED
  BY <1>6, <1>7, <1>8 DEF IInv, ApartInv

LEMMA AssignCutShortInv ==
  ASSUME IInv, NEW a \in Apps, NEW cs \in SUBSET Cores, NEW tech \in Requests,
         AssignCutShort(a, cs, tech)
  PROVE  IInv'
<1>1. PICK k \in Classes, done \in SUBSET cs :
        /\ IsFirstUnused(k, cs, tech)
        /\ cos' = Associated(done, k)
        /\ stray' = stray \union done
        /\ meddled' = meddled \union HoldersOf(done)
        /\ narrow' = Narrowed(done, tech)
  BY DEF AssignCutShort
<1>2. held' = held /\ k \in Unused(cs, tech)
  BY <1>1 DEF AssignCutShort, IsFirstUnused
<1>3. TypeOK'
  BY <1>1, <1>2 DEF IInv, TypeOK, Associated, HoldersOf, Holders, Narrowed
<1>4. ASSUME NEW b \in Unmeddled'
      PROVE  Apart(held'[b].cores, held'[b].class, held'[b].tech, cos', narrow')
  <2>1. b \in Unmeddled /\ held[b].cores \intersect done = {} /\ held'[b] = held[b]
    BY <1>1, <1>2 DEF Unmeddled, HoldersOf, Holders
  <2>2. held[b].cores \in SUBSET Cores
    BY <2>1 DEF Unmeddled, Holders, IInv, TypeOK, Assignment
  <2>3. Apart(held[b].cores, held[b].class, held[b].tech, cos, narrow)
    BY <2>1 DEF IInv, ApartInv
  <2>4. Apart(held[b].cores, held[b].class, held[b].tech, Associated(done, k), Narrowed(done, tech))
    BY <1>2, <2>1, <2>2, <2>3, MoveKeepsOthers
  <2>5. QED
    BY <1>1, <2>1, <2>4
<1>5. ApartInv'
  BY <1>4 DEF ApartInv
<1>6. ClassFitsRequest'
  BY <1>2 DEF IInv, ClassFitsRequest, Holders
<1>7. QED
  BY <1>3, <1>5, <1>6 DEF IInv

(* Putting cores back to COS0 harms nobody they do not belong to, since    *)
(* nobody is given COS0.                                                   *)
LEMMA ClearInv ==
  ASSUME IInv, NEW done \in SUBSET Cores,
         cos' = Associated(done, COS0), narrow' = narrow \ done,
         TypeOK', Holders' \subseteq Holders, \A b \in Holders' : held'[b] = held[b],
         \A b \in Unmeddled' : b \in Unmeddled /\ held[b].cores \intersect done = {}
  PROVE  IInv'
<1>1. \A c \in Cores : cos'[c] = IF c \in done THEN COS0 ELSE cos[c]
  BY DEF Associated
<1>2. ASSUME NEW b \in Unmeddled'
      PROVE  Apart(held'[b].cores, held'[b].class, held'[b].tech, cos', narrow')
  <2>1. /\ held'[b] = held[b] /\ b \in Unmeddled
        /\ held[b].class # COS0 /\ held[b].cores \in SUBSET Cores
        /\ held[b].cores \intersect done = {}
    BY DEF Unmeddled, Holders, IInv, TypeOK, Assignment, ClassFitsRequest
  <2>2. Apart(held[b].cores, held[b].class, held[b].tech, cos, narrow)
    BY <2>1 DEF IInv, ApartInv
  <2>3. Apart(held[b].cores, held[b].class, held[b].tech, cos', narrow')
    BY <1>1, <2>1, <2>2 DEF Apart
  <2>4. QED
    BY <2>1, <2>3
<1>3. ClassFitsRequest'
  BY DEF IInv, ClassFitsRequest
<1>4. QED
  BY <1>2, <1>3 DEF IInv, ApartInv

LEMMA ReleaseInv ==
  ASSUME IInv, NEW a \in Apps, Release(a) \/ Exit(a)
  PROVE  IInv'
<1>1. PICK done \in SUBSET held[a].cores :
        /\ cos' = Associated(done, COS0)
        /\ narrow' = narrow \ done
        /\ meddled' = (meddled \union HoldersOf(done)) \ {a}
        /\ stray' \subseteq Cores
  <2>1. CASE Release(a)
    <3>1. PICK failed \in SUBSET held[a].cores :
            /\ cos' = Associated(held[a].cores \ failed, COS0)
            /\ stray' = (stray \ held[a].cores) \union failed
            /\ meddled' = (meddled \union HoldersOf(held[a].cores \ failed)) \ {a}
            /\ narrow' = narrow \ (held[a].cores \ failed)
      BY <2>1 DEF Release
    <3>2. QED
      BY <3>1 DEF IInv, TypeOK, Assignment
  <2>2. CASE Exit(a)
    <3>1. cos' = Associated({}, COS0) /\ HoldersOf({}) = {} /\ narrow' = narrow \ {}
      BY <2>2 DEF Exit, Associated, HoldersOf, IInv, TypeOK
    <3>2. QED
      BY <2>2, <3>1 DEF Exit, IInv, TypeOK, Assignment
  <2>3. QED
    BY <2>1, <2>2
<1>2. held' = [held EXCEPT ![a] = Nothing]
  BY DEF Release, Exit
<1>3. done \in SUBSET Cores
  BY DEF IInv, TypeOK, Assignment
<1>4. Nothing \in Assignment /\ Nothing.cores = {} /\ COS0 \in Classes
  BY NumCosType DEF Nothing, Assignment, Classes, COS0, Technologies
<1>5. TypeOK'
  BY <1>1, <1>2, <1>3, <1>4 DEF IInv, TypeOK, Associated, HoldersOf, Holders
<1>6. Holders' \subseteq Holders \ {a} /\ \A b \in Holders' : held'[b] = held[b]
  BY <1>2, <1>4 DEF IInv, TypeOK, Holders
<1>7. \A b \in Unmeddled' : b \in Unmeddled /\ held[b].cores \intersect done = {}
  BY <1>1, <1>6 DEF Unmeddled, HoldersOf
<1>8. QED
  BY <1>1, <1>3, <1>5, <1>6, <1>7, ClearInv

LEMMA ResetInv ==
  ASSUME IInv, Reset
  PROVE  IInv'
<1>1. PICK failed \in SUBSET Cores :
        /\ cos' = Associated(Cores \ failed, COS0)
        /\ stray' = stray \intersect failed
        /\ meddled' = meddled \union HoldersOf(Cores \ failed)
        /\ narrow' = narrow \intersect failed
  BY DEF Reset
<1>2. held' = held /\ COS0 \in Classes /\ narrow' = narrow \ (Cores \ failed)
  BY <1>1, NumCosType DEF Reset, Classes, COS0, Technologies, IInv, TypeOK
<1>3. TypeOK'
  BY <1>1, <1>2 DEF IInv, TypeOK, Associated, HoldersOf, Holders
<1>4. /\ Holders' \subseteq Holders /\ \A b \in Holders' : held'[b] = held[b]
      /\ \A b \in Unmeddled' : b \in Unmeddled /\ held[b].cores \intersect (Cores \ failed) = {}
  BY <1>1, <1>2 DEF Unmeddled, HoldersOf, Holders
<1>5. QED
  BY <1>1, <1>2, <1>3, <1>4, ClearInv

LEMMA AssocSetInv ==
  ASSUME IInv, NEW c \in Cores, NEW k \in Classes, AssocSet(c, k)
  PROVE  IInv'
<1>1. /\ cos' = Associated({c}, k) /\ stray' = stray \union {c} /\ held' = held
      /\ meddled' = meddled \union HoldersOf({c}) \union {a \in Holders : held[a].class = k}
      /\ narrow' = narrow \ {c}
  BY DEF AssocSet
<1>2. TypeOK'
  BY <1>1 DEF IInv, TypeOK, Associated, HoldersOf, Holders
<1>3. \A d \in Cores : cos'[d] = IF d = c THEN k ELSE cos[d]
  BY <1>1 DEF Associated
<1>4. ASSUME NEW b \in Unmeddled'
      PROVE  Apart(held'[b].cores, held'[b].class, held'[b].tech, cos', narrow')
  <2>1. /\ b \in Unmeddled /\ held'[b] = held[b]
        /\ c \notin held[b].cores /\ held[b].class # k
        /\ held[b].cores \in SUBSET Cores
    BY <1>1 DEF Unmeddled, HoldersOf, Holders, IInv, TypeOK, Assignment
  <2>2. Apart(held[b].cores, held[b].class, held[b].tech, cos, narrow)
    BY <2>1 DEF IInv, ApartInv
  <2>3. Apart(held[b].cores, held[b].class, held[b].tech, cos', narrow')
    BY <1>1, <1>3, <2>1, <2>2 DEF Apart
  <2>4. QED
    BY <2>1, <2>3
<1>5. ClassFitsRequest'
  BY <1>1 DEF IInv, ClassFitsRequest, Holders
<1>6. QED
  BY <1>2, <1>4, <1>5 DEF IInv, ApartInv

LEMMA InvHolds == Spec => []IInv
<1>1. Init => IInv
  <2> SUFFICES ASSUME Init
               PROVE  IInv
    OBVIOUS
  <2>1. Nothing \in Assignment /\ COS0 \in Classes
    BY NumCosType DEF Nothing, Assignment, Classes, COS0, Technologies
  <2>2. TypeOK /\ Holders = {}
    BY <2>1 DEF Init, TypeOK, Holders, Nothing
  <2>3. QED
    BY <2>2 DEF IInv, ClassFitsRequest, ApartInv, Unmeddled
<1>2. IInv /\ Next => IInv'
  BY AssignInv, AssignCutShortInv, ReleaseInv, AssocSetInv, ResetInv DEF Next
<1>3. IInv /\ UNCHANGED vars => IInv'
  BY DEF IInv, TypeOK, ClassFitsRequest, ApartInv, Unmeddled, Holders, Apart, vars
<1>4. QED
  BY <1>1, <1>2, <1>3, PTL DEF Spec

-----------------------------------------------------------------------------
(* Registers and assignments keep their types. *)
THEOREM TypeCorrect == Spec => []TypeOK
<1>1. IInv => TypeOK
  BY DEF IInv
<1>2. QED
  BY <1>1, InvHolds, PTL

(* pqos_alloc_assign gives an application a class nobody else uses in its  *)
(* L2 clusters, whatever technologies the others ask for.                  *)
THEOREM ClassIsOursInClusterHolds == Spec => []ClassIsOursInCluster
<1>1. IInv => ClassIsOursInCluster
  <2> SUFFICES ASSUME IInv, NEW a \in Unmeddled,
                      NEW c \in held[a].cores, NEW d \in Peers(c, {"l2ca"}) \ held[a].cores
               PROVE  cos[d] # held[a].class
    BY DEF ClassIsOursInCluster, Intruders, Unmeddled
  <2>1. d \in Cores /\ L2Of[d] = L2Of[c]
    BY DEF Peers
  <2>2. QED
    BY <2>1 DEF IInv, ApartInv, Apart
<1>2. QED
  BY <1>1, InvHolds, PTL

(* On the whole socket, it shares the class of a request without L2 CAT    *)
(* only with cores of requests with L2 CAT.                                *)
THEOREM ClassIsSharedOnlyWithL2Holds == Spec => []ClassIsSharedOnlyWithL2
<1>1. IInv => ClassIsSharedOnlyWithL2
  <2> SUFFICES ASSUME IInv, NEW a \in Unmeddled,
                      NEW c \in held[a].cores,
                      NEW d \in (Peers(c, held[a].tech) \ held[a].cores) \ narrow
               PROVE  cos[d] # held[a].class
    BY DEF ClassIsSharedOnlyWithL2, Intruders, Domain, Unmeddled
  <2>1. Apart(held[a].cores, held[a].class, held[a].tech, cos, narrow)
    BY DEF IInv, ApartInv
  <2>2. CASE "l2ca" \in held[a].tech
    BY <2>1, <2>2 DEF Peers, Apart
  <2>3. CASE "l2ca" \notin held[a].tech
    BY <2>1, <2>3 DEF Peers, Apart
  <2>4. QED
    BY <2>2, <2>3
<1>2. QED
  BY <1>1, InvHolds, PTL

(* The class of an application exists for all its technologies. *)
THEOREM ClassFitsRequestHolds == Spec => []ClassFitsRequest
<1>1. IInv => ClassFitsRequest
  BY DEF IInv
<1>2. QED
  BY <1>1, InvHolds, PTL

(* pqos_alloc_release gives back what pqos_alloc_assign took: a core that  *)
(* keeps a class taken belongs to the application that holds it, or was    *)
(* left there by a failed or dead caller or put there by hand.             *)
THEOREM EveryClassAccountedHolds == Spec => []EveryClassAccounted
<1> USE DEF EveryClassAccounted, Holders
<1>1. Init => EveryClassAccounted
  BY DEF Init
<1>2. IInv /\ EveryClassAccounted /\ [Next]_vars => EveryClassAccounted'
  <2> SUFFICES ASSUME IInv, EveryClassAccounted, [Next]_vars,
                      NEW c \in Cores, cos'[c] # COS0
               PROVE  c \in stray' \/ \E b \in Holders' : c \in held'[b].cores
    OBVIOUS
  <2> USE DEF IInv, TypeOK
  <2>1. ASSUME NEW a \in Apps, NEW cs \in SUBSET Cores, NEW tech \in Requests,
               Assign(a, cs, tech)
        PROVE  c \in stray' \/ \E b \in Holders' : c \in held'[b].cores
    <3>1. PICK k \in Classes :
            /\ cos' = Associated(cs, k)
            /\ held' = [held EXCEPT ![a] = [cores |-> cs, class |-> k, tech |-> tech]]
      BY <2>1 DEF Assign
    <3>2. held'[a].cores = cs /\ a \notin Holders /\ stray' = stray \ cs
      BY <2>1, <3>1 DEF Assign, Accepts
    <3>3. c \notin cs => cos[c] # COS0
      BY <3>1 DEF Associated
    <3>4. \A b \in Holders : held'[b] = held[b]
      BY <3>1, <3>2
    <3>5. QED
      BY <3>2, <3>3, <3>4
  <2>2. ASSUME NEW a \in Apps, NEW cs \in SUBSET Cores, NEW tech \in Requests,
               AssignCutShort(a, cs, tech)
        PROVE  c \in stray' \/ \E b \in Holders' : c \in held'[b].cores
    BY <2>2 DEF AssignCutShort, Associated
  <2>3. ASSUME NEW a \in Apps, Release(a)
        PROVE  c \in stray' \/ \E b \in Holders' : c \in held'[b].cores
    <3>1. PICK failed \in SUBSET held[a].cores :
            /\ cos' = Associated(held[a].cores \ failed, COS0)
            /\ stray' = (stray \ held[a].cores) \union failed
      BY <2>3 DEF Release
    <3>2. cos[c] # COS0 /\ c \notin held[a].cores \ failed
      BY <3>1 DEF Associated
    <3>3. \A b \in Holders \ {a} : held'[b] = held[b]
      BY <2>3 DEF Release
    <3>4. QED
      BY <3>1, <3>2, <3>3
  <2>4. ASSUME NEW a \in Apps, Exit(a)
        PROVE  c \in stray' \/ \E b \in Holders' : c \in held'[b].cores
    <3>1. cos' = cos /\ stray' = stray \union held[a].cores
      BY <2>4 DEF Exit
    <3>2. \A b \in Holders \ {a} : held'[b] = held[b]
      BY <2>4 DEF Exit
    <3>3. QED
      BY <3>1, <3>2
  <2>5. ASSUME NEW d \in Cores, NEW k \in Classes, AssocSet(d, k)
        PROVE  c \in stray' \/ \E b \in Holders' : c \in held'[b].cores
    BY <2>5 DEF AssocSet, Associated
  <2>6. CASE Reset
    BY <2>6 DEF Reset, Associated
  <2>7. CASE UNCHANGED vars
    BY <2>7 DEF vars
  <2>8. QED
    BY <2>1, <2>2, <2>3, <2>4, <2>5, <2>6, <2>7 DEF Next
<1>3. QED
  BY <1>1, <1>2, InvHolds, PTL DEF Spec
=============================================================================
