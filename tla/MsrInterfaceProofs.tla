-------------------------- MODULE MsrInterfaceProofs --------------------------
(***************************************************************************)
(* The two halves of the MSR interface.  Allocation (MsrAllocation), for   *)
(* any numbers of processes, sockets, registers and classes: a reset       *)
(* restores the defaults and gives the CDP that was asked for, a class is  *)
(* defined as it was asked.  Monitoring (MsrMonitoring), for any cores,    *)
(* clusters, groups, events and RMIDs: RMID allocation through the         *)
(* registers is right, whatever fails.                                     *)
(***************************************************************************)
EXTENDS MsrAllocation, MsrMonitoring, SequenceTheorems, TLAPS

(* What a process believes accounts for every mask register: it counts all *)
(* the registers, or the pairs of them.                                    *)
CapCountsRegs ==
  \A p \in Using :
    cap[p].num_classes = IF cap[p].cdp_on THEN NumRegs \div 2 ELSE NumRegs

Inv == TypeOK /\ CapCountsRegs

-----------------------------------------------------------------------------
(* The groups that hw_alloc_reset goes through hold settings only. *)
LEMMA ResetOrderType ==
  ASSUME TypeOK, CapCountsRegs, NEW p \in Using
  PROVE  /\ Covered(p) = Regs
         /\ ResetOrder(p) \in Seq(SUBSET Settings)
         /\ Len(ResetOrder(p)) = NumSockets + NumL2Ids + NumSockets + 1
         /\ \A s \in Sockets : ResetOrder(p)[s] = L3Settings(s, Regs)
         /\ \A i \in L2Ids : ResetOrder(p)[NumSockets + i] = L2Settings(i)
         /\ \A s \in Sockets : ResetOrder(p)[NumSockets + NumL2Ids + s] = MbaSettings(s)
         /\ ResetOrder(p)[NumSockets + NumL2Ids + NumSockets + 1] = AssocSettings
  <1> USE NumSocketsType, NumRegsType, NumL2IdsType
  <1>1. Covered(p) = Regs
    <2>1. p \in Procs /\ cap[p] \in [cdp_on : BOOLEAN, num_classes : 0 .. NumRegs]
      BY DEF TypeOK, Using
    <2>2. CASE cap[p].cdp_on
      BY <2>1, <2>2 DEF CapCountsRegs, Covered, Regs
    <2>3. CASE ~cap[p].cdp_on
      BY <2>1, <2>3 DEF CapCountsRegs, Covered, Regs
    <2> QED BY <2>2, <2>3
  <1> DEFINE L3 == [s \in Sockets |-> L3Settings(s, Covered(p))]
             L2 == [i \in L2Ids |-> L2Settings(i)]
             Mba == [s \in Sockets |-> MbaSettings(s)]
             Cos == <<AssocSettings>>
  <1>2. L3 \in Seq(SUBSET Settings) /\ Len(L3) = NumSockets
    <2>1. \A s \in Sockets : L3Settings(s, Covered(p)) \in SUBSET Settings
      BY <1>1 DEF Settings
    <2> QED BY <2>1 DEF Sockets
  <1>3. L2 \in Seq(SUBSET Settings) /\ Len(L2) = NumL2Ids
    <2>1. \A i \in L2Ids : L2Settings(i) \in SUBSET Settings
      BY DEF Settings
    <2> QED BY <2>1 DEF L2Ids
  <1>4. Mba \in Seq(SUBSET Settings) /\ Len(Mba) = NumSockets
    <2>1. \A s \in Sockets : MbaSettings(s) \in SUBSET Settings
      BY DEF Settings
    <2> QED BY <2>1 DEF Sockets
  <1>5. Cos \in Seq(SUBSET Settings) /\ Len(Cos) = 1 /\ Cos[1] = AssocSettings
    <2>1. AssocSettings \in SUBSET Settings
      BY DEF Settings
    <2> QED BY <2>1
  <1>6. ResetOrder(p) = ((L3 \o L2) \o Mba) \o Cos
    BY DEF ResetOrder
  <1> DEFINE A == L3 \o L2
             B == A \o Mba
             n1 == NumSockets + NumL2Ids
             n2 == n1 + NumSockets
  <1> HIDE DEF L3, L2, Mba, Cos
  <1>7. /\ A \in Seq(SUBSET Settings)
        /\ Len(A) = n1
        /\ \A n \in 1 .. n1 : A[n] = IF n <= NumSockets THEN L3[n] ELSE L2[n - NumSockets]
    BY <1>2, <1>3, ConcatProperties
  <1> HIDE DEF A
  <1>8. /\ B \in Seq(SUBSET Settings)
        /\ Len(B) = n2
        /\ \A n \in 1 .. n2 : B[n] = IF n <= n1 THEN A[n] ELSE Mba[n - n1]
    <2>1. /\ B \in Seq(SUBSET Settings)
          /\ Len(B) = Len(A) + Len(Mba)
          /\ \A n \in 1 .. Len(A) + Len(Mba) :
               B[n] = IF n <= Len(A) THEN A[n] ELSE Mba[n - Len(A)]
      BY <1>4, <1>7, ConcatProperties
    <2> QED BY <2>1, <1>4, <1>7
  <1> HIDE DEF B
  <1>9. /\ B \o Cos \in Seq(SUBSET Settings)
        /\ Len(B \o Cos) = n2 + 1
        /\ \A n \in 1 .. n2 + 1 : (B \o Cos)[n] = IF n <= n2 THEN B[n] ELSE Cos[n - n2]
    <2>1. /\ B \o Cos \in Seq(SUBSET Settings)
          /\ Len(B \o Cos) = Len(B) + Len(Cos)
          /\ \A n \in 1 .. Len(B) + Len(Cos) :
               (B \o Cos)[n] = IF n <= Len(B) THEN B[n] ELSE Cos[n - Len(B)]
      BY <1>5, <1>8, ConcatProperties
    <2> QED BY <2>1, <1>5, <1>8
  <1>10. ResetOrder(p) = B \o Cos
    BY <1>6 DEF A, B
  <1>11. \A s \in Sockets : ResetOrder(p)[s] = L3[s]
    BY <1>7, <1>8, <1>9, <1>10 DEF Sockets
  <1>12. \A i \in L2Ids : ResetOrder(p)[NumSockets + i] = L2[i]
    BY <1>7, <1>8, <1>9, <1>10 DEF L2Ids
  <1>13. \A s \in Sockets : ResetOrder(p)[n1 + s] = Mba[s]
    BY <1>8, <1>9, <1>10 DEF Sockets
  <1>14. ResetOrder(p)[n2 + 1] = AssocSettings
    <2>1. n2 + 1 \in 1 .. n2 + 1 /\ ~(n2 + 1 <= n2) /\ (n2 + 1) - n2 = 1
      OBVIOUS
    <2> QED BY <2>1, <1>5, <1>9, <1>10
  <1> QED BY <1>1, <1>9, <1>10, <1>11, <1>12, <1>13, <1>14 DEF L3, L2, Mba

(* A reset that gets to its end has written every setting. *)
LEMMA AllIsReset ==
  ASSUME TypeOK, CapCountsRegs, NEW p \in Using
  PROVE  Settings \subseteq AllReset(p)
  <1> USE NumSocketsType, NumL2IdsType
  <1> DEFINE last == NumSockets + NumL2Ids + NumSockets + 1
  <1>1. \A n \in 1 .. last : ResetOrder(p)[n] \subseteq AllReset(p)
    <2>1. Len(ResetOrder(p)) = last
      BY ResetOrderType
    <2> QED BY <2>1 DEF AllReset, ResetBefore
  <1>2. \A s \in Sockets : L3Settings(s, Regs) \subseteq AllReset(p)
    <2> SUFFICES ASSUME NEW s \in Sockets PROVE L3Settings(s, Regs) \subseteq AllReset(p)
      OBVIOUS
    <2>1. s \in 1 .. last BY DEF Sockets
    <2>2. ResetOrder(p)[s] = L3Settings(s, Regs) BY ResetOrderType
    <2> QED BY <1>1, <2>1, <2>2
  <1>3. \A i \in L2Ids : L2Settings(i) \subseteq AllReset(p)
    <2> SUFFICES ASSUME NEW i \in L2Ids PROVE L2Settings(i) \subseteq AllReset(p)
      OBVIOUS
    <2>1. NumSockets + i \in 1 .. last BY DEF L2Ids
    <2>2. ResetOrder(p)[NumSockets + i] = L2Settings(i) BY ResetOrderType
    <2> QED BY <1>1, <2>1, <2>2
  <1>4. \A s \in Sockets : MbaSettings(s) \subseteq AllReset(p)
    <2> SUFFICES ASSUME NEW s \in Sockets PROVE MbaSettings(s) \subseteq AllReset(p)
      OBVIOUS
    <2>1. NumSockets + NumL2Ids + s \in 1 .. last BY DEF Sockets
    <2>2. ResetOrder(p)[NumSockets + NumL2Ids + s] = MbaSettings(s) BY ResetOrderType
    <2> QED BY <1>1, <2>1, <2>2
  <1>5. AssocSettings \subseteq AllReset(p)
    <2>1. last \in 1 .. last OBVIOUS
    <2>2. ResetOrder(p)[last] = AssocSettings BY ResetOrderType
    <2> QED BY <1>1, <2>1, <2>2
  <1> QED BY <1>2, <1>3, <1>4, <1>5 DEF Settings

-----------------------------------------------------------------------------
(* Turning CDP on or off keeps the count of registers. *)
LEMMA CapAfterCdpCounts ==
  ASSUME TypeOK, CapCountsRegs, NEW p \in Using, NEW on \in BOOLEAN
  PROVE  /\ CapAfterCdp(cap[p], on) \in [cdp_on : BOOLEAN, num_classes : 0 .. NumRegs]
         /\ CapAfterCdp(cap[p], on).cdp_on = on
         /\ CapAfterCdp(cap[p], on).num_classes = IF on THEN NumRegs \div 2 ELSE NumRegs
  <1> USE NumRegsType
  <1>1. cap[p] \in [cdp_on : BOOLEAN, num_classes : 0 .. NumRegs]
    BY DEF TypeOK, Using
  <1>2. cap[p].num_classes = IF cap[p].cdp_on THEN NumRegs \div 2 ELSE NumRegs
    BY DEF CapCountsRegs
  <1>3. NumRegs \div 2 \in 0 .. NumRegs /\ (NumRegs \div 2) * 2 = NumRegs
    OBVIOUS
  <1>4. CASE on
    BY <1>1, <1>2, <1>3, <1>4 DEF CapAfterCdp
  <1>5. CASE ~on
    BY <1>1, <1>2, <1>3, <1>5 DEF CapAfterCdp
  <1> QED BY <1>4, <1>5

(* L3 settings of existing registers are settings. *)
LEMMA RestrictingIsSettings ==
  ASSUME NEW s \in Sockets, NEW r \in Regs, NEW restrict
  PROVE  Restricting(s, r, restrict) \subseteq Settings
  BY DEF Restricting, Settings, L3Settings

LEMMA InitInv == Init => Inv
  BY NumRegsType DEF Init, Inv, TypeOK, CapCountsRegs, Using, NoCap, Returns

LEMMA StepInv == Inv /\ [Next]_vars => Inv'
  <1> SUFFICES ASSUME Inv, [Next]_vars PROVE Inv'
    OBVIOUS
  <1> USE NumRegsType
  <1>0. TypeOK /\ CapCountsRegs
    BY DEF Inv
  <1>u. Using \subseteq Procs
    BY DEF Using
  <1>1. CASE Reboot
    <2>1. TypeOK'
      BY <1>0, <1>1 DEF Reboot, TypeOK, NoCap, Returns
    <2>2. CapCountsRegs'
      BY <1>1 DEF Reboot, CapCountsRegs, Using
    <2> QED BY <2>1, <2>2 DEF Inv
  <1>2. ASSUME NEW p \in Procs, NEW cfg \in CdpConfigs, Reset(p, cfg)
        PROVE  Inv'
    <2>0. p \in Using BY <1>2 DEF Reset
    <2>1. TypeOK'
      <3>1. changed' \subseteq Settings /\ returned' \in Returns /\ unsure' \subseteq Procs
        BY <1>0, <1>u, <1>2 DEF Reset, TypeOK, Returns, ResetOk
      <3>2. cdp' \in [Sockets -> BOOLEAN]
        BY <1>0, <1>2 DEF Reset, TypeOK, CdpWritten
      <3>3. cap' \in [Procs -> [cdp_on : BOOLEAN, num_classes : 0 .. NumRegs]]
        BY <1>0, <1>2, <2>0, CapAfterCdpCounts DEF Reset, TypeOK
      <3> QED BY <3>1, <3>2, <3>3 DEF TypeOK
    <2>2. CapCountsRegs'
      <3> SUFFICES ASSUME NEW q \in Using'
                   PROVE  cap'[q].num_classes = IF cap'[q].cdp_on THEN NumRegs \div 2 ELSE NumRegs
        BY DEF CapCountsRegs
      <3>1. CASE q = p /\ ChangesCdp(p, cfg)
        <4>1. cap'[q] = CapAfterCdp(cap[p], cfg = "on")
          BY <1>0, <1>2, <3>1 DEF Reset, TypeOK
        <4> QED BY <1>0, <2>0, <4>1, CapAfterCdpCounts
      <3>2. CASE ~(q = p /\ ChangesCdp(p, cfg))
        <4>1. q \in Procs /\ cap'[q] = cap[q]
          BY <1>0, <1>2, <3>2 DEF Reset, TypeOK, Using
        <4>2. q \in Using
          BY <4>1 DEF Using
        <4> QED BY <1>0, <4>1, <4>2 DEF CapCountsRegs
      <3> QED BY <3>1, <3>2
    <2> QED BY <2>1, <2>2 DEF Inv
  <1>3. ASSUME NEW p \in Procs, NEW cfg \in CdpConfigs, CdpCutShort(p, cfg)
        PROVE  Inv'
    <2>1. TypeOK'
      <3>1. /\ changed' \subseteq Settings /\ cap' = cap /\ returned' \in Returns
            /\ unsure' \subseteq Procs
        BY <1>0, <1>u, <1>3 DEF CdpCutShort, TypeOK, Returns
      <3>2. cdp' \in [Sockets -> BOOLEAN]
        BY <1>0, <1>3 DEF CdpCutShort, TypeOK, CdpWritten
      <3> QED BY <1>0, <3>1, <3>2 DEF TypeOK
    <2>2. CapCountsRegs'
      BY <1>0, <1>3 DEF CdpCutShort, CapCountsRegs, Using
    <2> QED BY <2>1, <2>2 DEF Inv
  <1>4. ASSUME NEW p \in Procs, ResetCutShort(p) \/ ResetNoTable(p)
        PROVE  Inv'
    <2>1. TypeOK'
      BY <1>0, <1>4 DEF ResetCutShort, ResetNoTable, ResetEarly, TypeOK, Returns
    <2>2. CapCountsRegs'
      BY <1>0, <1>4 DEF ResetCutShort, ResetNoTable, CapCountsRegs, Using
    <2> QED BY <2>1, <2>2 DEF Inv
  <1>5. ASSUME NEW p \in Procs, PqosInit(p)
        PROVE  Inv'
    <2> PICK on \in BOOLEAN :
          cap' = [cap EXCEPT ![p] = [cdp_on |-> on, num_classes |-> ClassesFound(on)]]
      BY <1>5 DEF PqosInit
    <2>1. TypeOK'
      <3>1. ClassesFound(on) \in 0 .. NumRegs
        BY DEF ClassesFound
      <3>2. [cdp_on |-> on, num_classes |-> ClassesFound(on)]
              \in [cdp_on : BOOLEAN, num_classes : 0 .. NumRegs]
        BY <3>1
      <3>3. cap' \in [Procs -> [cdp_on : BOOLEAN, num_classes : 0 .. NumRegs]]
        BY <1>0, <3>2 DEF TypeOK
      <3> QED BY <1>0, <1>5, <3>3 DEF PqosInit, TypeOK, Returns
    <2>2. CapCountsRegs'
      <3> SUFFICES ASSUME NEW q \in Using'
                   PROVE  cap'[q].num_classes = IF cap'[q].cdp_on THEN NumRegs \div 2 ELSE NumRegs
        BY DEF CapCountsRegs
      <3>1. CASE q = p
        BY <1>0, <3>1 DEF TypeOK, ClassesFound
      <3>2. CASE q # p
        BY <1>0, <3>2 DEF TypeOK, Using, CapCountsRegs
      <3> QED BY <3>1, <3>2
    <2> QED BY <2>1, <2>2 DEF Inv
  <1>6. ASSUME NEW p \in Procs, PqosFini(p)
        PROVE  Inv'
    <2>1. TypeOK'
      BY <1>0, <1>6 DEF PqosFini, TypeOK, NoCap, Returns
    <2>2. CapCountsRegs'
      <3> SUFFICES ASSUME NEW q \in Using'
                   PROVE  cap'[q].num_classes = IF cap'[q].cdp_on THEN NumRegs \div 2 ELSE NumRegs
        BY DEF CapCountsRegs
      <3>1. q # p /\ q \in Using /\ cap'[q] = cap[q]
        BY <1>0, <1>6 DEF PqosFini, TypeOK, Using
      <3> QED BY <1>0, <3>1 DEF CapCountsRegs
    <2> QED BY <2>1, <2>2 DEF Inv
  <1>7. ASSUME NEW p \in Procs, NEW s \in Sockets, NEW k \in Regs,
               NEW data \in BOOLEAN, NEW code \in BOOLEAN, L3caSet(p, s, k, data, code)
        PROVE  Inv'
    <2>1. TypeOK'
      <3>1. changed' \subseteq Settings
        BY <1>0, <1>7, RestrictingIsSettings DEF L3caSet, TypeOK
      <3> QED BY <1>0, <1>7, <3>1 DEF L3caSet, TypeOK, Returns
    <2>2. CapCountsRegs'
      BY <1>0, <1>7 DEF L3caSet, CapCountsRegs, Using
    <2> QED BY <2>1, <2>2 DEF Inv
  <1>8. ASSUME NEW p \in Procs, NEW s \in Sockets, NEW k \in Regs,
               NEW data \in BOOLEAN, L3caSetCutShort(p, s, k, data)
        PROVE  Inv'
    <2>1. TypeOK'
      <3>1. changed' \subseteq Settings
        BY <1>0, <1>8, RestrictingIsSettings DEF L3caSetCutShort, TypeOK
      <3> QED BY <1>0, <1>8, <3>1 DEF L3caSetCutShort, TypeOK, Returns
    <2>2. CapCountsRegs'
      BY <1>0, <1>8 DEF L3caSetCutShort, CapCountsRegs, Using
    <2> QED BY <2>1, <2>2 DEF Inv
  <1>9. ASSUME NEW p \in Procs, NEW setting \in Settings, NEW restrict \in BOOLEAN,
               OtherSet(p, setting, restrict)
        PROVE  Inv'
    <2>1. TypeOK'
      BY <1>0, <1>9 DEF OtherSet, TypeOK, Returns
    <2>2. CapCountsRegs'
      BY <1>0, <1>9 DEF OtherSet, CapCountsRegs, Using
    <2> QED BY <2>1, <2>2 DEF Inv
  <1>10. CASE UNCHANGED vars
    <2>1. TypeOK'
      BY <1>0, <1>10 DEF vars, TypeOK
    <2>2. CapCountsRegs'
      BY <1>0, <1>10 DEF vars, CapCountsRegs, Using
    <2> QED BY <2>1, <2>2 DEF Inv
  <1> QED
    BY <1>1, <1>2, <1>3, <1>4, <1>5, <1>6, <1>7, <1>8, <1>9, <1>10 DEF Next

LEMMA InvHolds == Spec => []Inv
  BY InitInv, StepInv, PTL DEF Spec

(* Every variable keeps its type. *)
THEOREM TypeCorrect == Spec => []TypeOK
  <1>1. Inv => TypeOK
    BY DEF Inv
  <1> QED BY <1>1, InvHolds, PTL

(* Only a reset that reports success returns as one. *)
LEMMA OnlyResetReturnsReset ==
  ASSUME Next, returned' # Other
  PROVE  \/ \E p \in Procs, cfg \in CdpConfigs : Reset(p, cfg)
         \/ \E p \in Procs : ResetNoTable(p)
  <1>1. ~Reboot
    BY DEF Reboot
  <1>2. ASSUME NEW p \in Procs
        PROVE  ~PqosInit(p) /\ ~PqosFini(p) /\ ~ResetCutShort(p)
    BY DEF PqosInit, PqosFini, ResetCutShort
  <1>3. ASSUME NEW p \in Procs, NEW cfg \in CdpConfigs
        PROVE  ~CdpCutShort(p, cfg)
    BY DEF CdpCutShort
  <1>4. ASSUME NEW p \in Procs, NEW s \in Sockets, NEW k \in Regs,
               NEW data \in BOOLEAN, NEW code \in BOOLEAN
        PROVE  ~L3caSet(p, s, k, data, code) /\ ~L3caSetCutShort(p, s, k, data)
    BY DEF L3caSet, L3caSetCutShort
  <1>5. ASSUME NEW p \in Procs, NEW setting \in Settings, NEW restrict \in BOOLEAN
        PROVE  ~OtherSet(p, setting, restrict)
    BY DEF OtherSet
  <1> QED BY <1>1, <1>2, <1>3, <1>4, <1>5 DEF Next

(* The reset that finds no table of L2 clusters has written every L3 mask  *)
(* register there is.                                                      *)
LEMMA L3IsReset ==
  ASSUME TypeOK, CapCountsRegs, NEW p \in Using
  PROVE  UNION {L3Settings(s, Regs) : s \in Sockets} \subseteq ResetBefore(p, NumSockets + 1)
  <1> USE NumSocketsType
  <1>1. \A s \in Sockets : ResetOrder(p)[s] = L3Settings(s, Regs)
    BY ResetOrderType
  <1>2. \A s \in Sockets : s \in 1 .. NumSockets + 1 - 1
    BY DEF Sockets
  <1> QED BY <1>1, <1>2 DEF ResetBefore

(* A reset that reports success has cleared what it had the tables for,    *)
(* the whole machine if it had both (hw_alloc_reset, lib/allocation.c),    *)
(* whatever the caller and other processes did before.                     *)
THEOREM ResetRestoresDefaultsHolds == Spec => []ResetRestoresDefaults
  <1>1. Init => ResetRestoresDefaults
    BY DEF Init, ResetRestoresDefaults, Other, ResetEarly
  <1>2. Inv /\ ResetRestoresDefaults /\ [Next]_vars => ResetRestoresDefaults'
    <2> SUFFICES ASSUME Inv, ResetRestoresDefaults, [Next]_vars PROVE ResetRestoresDefaults'
      OBVIOUS
    <2>0. TypeOK /\ CapCountsRegs /\ changed \subseteq Settings
      BY DEF Inv, TypeOK
    <2>1. CASE UNCHANGED vars
      BY <2>1 DEF vars, ResetRestoresDefaults, L3Restricted
    <2>2. CASE returned' = Other
      BY <2>2 DEF ResetRestoresDefaults, Other, ResetEarly
    <2>3. ASSUME NEW p \in Procs, NEW cfg \in CdpConfigs, Reset(p, cfg)
          PROVE  ResetRestoresDefaults'
      <3>1. p \in Using /\ changed' = changed \ AllReset(p)
        BY <2>3 DEF Reset
      <3>2. changed' = {}
        BY <2>0, <3>1, AllIsReset
      <3> QED BY <3>2 DEF ResetRestoresDefaults, L3Restricted
    <2>4. ASSUME NEW p \in Procs, ResetNoTable(p)
          PROVE  ResetRestoresDefaults'
      <3>1. p \in Using /\ returned'.call = "reset_early"
        BY <2>4 DEF ResetNoTable, ResetEarly
      <3>2. CASE returned' = ResetEarly("none")
        BY <3>1, <3>2 DEF ResetRestoresDefaults, ResetEarly
      <3>3. CASE changed' = changed \ ResetBefore(p, NumSockets + 1)
        <4>1. L3Restricted' = {}
          BY <2>0, <3>1, <3>3, L3IsReset DEF L3Restricted
        <4> QED BY <3>1, <4>1 DEF ResetRestoresDefaults
      <3> QED BY <2>4, <3>2, <3>3 DEF ResetNoTable
    <2> QED BY <2>1, <2>2, <2>3, <2>4, OnlyResetReturnsReset
  <1> QED BY <1>1, <1>2, InvHolds, PTL DEF Spec

-----------------------------------------------------------------------------
(* A process that is not unsure is right about CDP. *)
KnowsCdp == \A p \in Using \ unsure : \A s \in Sockets : cdp[s] = cap[p].cdp_on

CdpInv == Inv /\ KnowsCdp /\ ResetGivesRequestedCdp

LEMMA InitCdpInv == Init => CdpInv
  <1> SUFFICES ASSUME Init PROVE KnowsCdp /\ ResetGivesRequestedCdp
    BY InitInv DEF CdpInv
  <1>1. KnowsCdp
    BY DEF Init, KnowsCdp, Using
  <1>2. ResetGivesRequestedCdp
    BY DEF Init, ResetGivesRequestedCdp, Other
  <1> QED BY <1>1, <1>2

(* A reset gives a process that knows CDP what it asks for, and makes      *)
(* every process unsure but the caller when it changes CDP.                *)
LEMMA ResetSetsCdp ==
  ASSUME CdpInv, NEW p \in Procs, NEW cfg \in CdpConfigs, Reset(p, cfg)
  PROVE  KnowsCdp' /\ ResetGivesRequestedCdp'
  <1> USE NumSocketsType
  <1>0. TypeOK /\ p \in Using
    BY DEF CdpInv, Inv, Reset
  <1>1. /\ returned'.cdp = cfg
        /\ returned'.sure => p \notin unsure
    BY DEF Reset, ResetOk
  <1>2. CASE ChangesCdp(p, cfg)
    <2>1. /\ cdp' = CdpWritten(cfg, NumSockets) /\ unsure' = Using \ {p}
          /\ cap' = [cap EXCEPT ![p] = CapAfterCdp(cap[p], cfg = "on")]
      BY <1>2 DEF Reset
    <2>2. \A s \in Sockets : cdp'[s] = (cfg = "on")
      BY <2>1 DEF CdpWritten, Sockets
    <2>3. cap'[p].cdp_on = (cfg = "on")
      BY <1>0, <2>1 DEF CapAfterCdp, TypeOK
    <2>4. \A q \in Using' \ unsure' : q = p
      BY <1>0, <2>1 DEF TypeOK, Using
    <2>5. KnowsCdp'
      BY <2>2, <2>3, <2>4 DEF KnowsCdp
    <2>6. ResetGivesRequestedCdp'
      BY <1>1, <2>2 DEF ResetGivesRequestedCdp
    <2> QED BY <2>5, <2>6
  <1>3. CASE ~ChangesCdp(p, cfg)
    <2>1. cdp' = cdp /\ cap' = cap /\ unsure' = unsure
      BY <1>3 DEF Reset
    <2>2. KnowsCdp'
      BY <2>1 DEF CdpInv, KnowsCdp, Using
    <2>3. cfg # "any" => cap[p].cdp_on = (cfg = "on")
      <3>1. cap[p].cdp_on \in BOOLEAN
        BY <1>0 DEF TypeOK
      <3> QED BY <1>3, <3>1 DEF ChangesCdp, CdpConfigs
    <2>4. p \notin unsure => \A s \in Sockets : cdp[s] = cap[p].cdp_on
      BY <1>0 DEF CdpInv, KnowsCdp
    <2>5. ResetGivesRequestedCdp'
      BY <1>1, <2>1, <2>3, <2>4 DEF ResetGivesRequestedCdp
    <2> QED BY <2>2, <2>5
  <1> QED BY <1>2, <1>3

LEMMA StepCdpInv == CdpInv /\ [Next]_vars => CdpInv'
  <1> SUFFICES ASSUME CdpInv, [Next]_vars PROVE CdpInv'
    OBVIOUS
  <1>0. Inv' /\ TypeOK
    BY StepInv DEF CdpInv, Inv
  <1> SUFFICES KnowsCdp' /\ ResetGivesRequestedCdp'
    BY <1>0 DEF CdpInv
  <1>1. returned' = Other => ResetGivesRequestedCdp'
    BY DEF ResetGivesRequestedCdp, Other
  <1>2. cdp' = cdp /\ cap' = cap /\ unsure' = unsure => KnowsCdp'
    BY DEF CdpInv, KnowsCdp, Using
  <1>3. CASE Reboot
    <2>1. KnowsCdp'
      BY <1>3 DEF Reboot, KnowsCdp, Using
    <2> QED BY <1>1, <1>3, <2>1 DEF Reboot
  <1>4. ASSUME NEW p \in Procs, NEW cfg \in CdpConfigs, Reset(p, cfg)
        PROVE  KnowsCdp' /\ ResetGivesRequestedCdp'
    BY <1>4, ResetSetsCdp
  <1>5. ASSUME NEW p \in Procs, NEW cfg \in CdpConfigs, CdpCutShort(p, cfg)
        PROVE  KnowsCdp' /\ ResetGivesRequestedCdp'
    <2>1. KnowsCdp'
      BY <1>5 DEF CdpCutShort, KnowsCdp, Using
    <2> QED BY <1>1, <1>5, <2>1 DEF CdpCutShort
  <1>6. ASSUME NEW p \in Procs, ResetCutShort(p) \/ ResetNoTable(p)
        PROVE  KnowsCdp' /\ ResetGivesRequestedCdp'
    <2>1. returned'.call # "reset"
      BY <1>6 DEF ResetCutShort, ResetNoTable, ResetEarly, Other
    <2>2. ResetGivesRequestedCdp'
      BY <2>1 DEF ResetGivesRequestedCdp
    <2> QED BY <1>2, <1>6, <2>2 DEF ResetCutShort, ResetNoTable
  <1>7. ASSUME NEW p \in Procs, PqosInit(p)
        PROVE  KnowsCdp' /\ ResetGivesRequestedCdp'
    <2>1. PICK on \in BOOLEAN :
            /\ \A s \in Sockets : cdp[s] = on
            /\ cap' = [cap EXCEPT ![p] = [cdp_on |-> on, num_classes |-> ClassesFound(on)]]
      BY <1>7 DEF PqosInit
    <2>2. cdp' = cdp /\ unsure' = unsure \ {p}
      BY <1>7 DEF PqosInit
    <2>3. ASSUME NEW q \in Using' \ unsure', NEW s \in Sockets
          PROVE  cdp'[s] = cap'[q].cdp_on
      <3>1. q \in Procs
        BY DEF Using
      <3>2. CASE q = p
        BY <1>0, <2>1, <2>2, <3>1, <3>2 DEF TypeOK
      <3>3. CASE q # p
        <4>1. cap'[q] = cap[q] /\ q \in Using \ unsure
          BY <1>0, <2>1, <2>2, <2>3, <3>1, <3>3 DEF TypeOK, Using
        <4> QED BY <2>2, <4>1 DEF CdpInv, KnowsCdp
      <3> QED BY <3>2, <3>3
    <2>4. KnowsCdp'
      BY <2>3 DEF KnowsCdp
    <2> QED BY <1>1, <1>7, <2>4 DEF PqosInit
  <1>8. ASSUME NEW p \in Procs, PqosFini(p)
        PROVE  KnowsCdp' /\ ResetGivesRequestedCdp'
    <2>1. cdp' = cdp /\ unsure' = unsure \ {p} /\ cap' = [cap EXCEPT ![p] = NoCap]
      BY <1>8 DEF PqosFini
    <2>2. ASSUME NEW q \in Using' \ unsure'
          PROVE  cap'[q] = cap[q] /\ q \in Using \ unsure
      BY <1>0, <2>1 DEF TypeOK, Using
    <2>3. KnowsCdp'
      BY <2>1, <2>2 DEF CdpInv, KnowsCdp
    <2> QED BY <1>1, <1>8, <2>3 DEF PqosFini
  <1>9. ASSUME NEW p \in Procs, NEW s \in Sockets, NEW k \in Regs,
               NEW data \in BOOLEAN, NEW code \in BOOLEAN, L3caSet(p, s, k, data, code)
        PROVE  KnowsCdp' /\ ResetGivesRequestedCdp'
    BY <1>1, <1>2, <1>9 DEF L3caSet
  <1>10. ASSUME NEW p \in Procs, NEW s \in Sockets, NEW k \in Regs,
                NEW data \in BOOLEAN, L3caSetCutShort(p, s, k, data)
         PROVE  KnowsCdp' /\ ResetGivesRequestedCdp'
    BY <1>1, <1>2, <1>10 DEF L3caSetCutShort
  <1>11. ASSUME NEW p \in Procs, NEW setting \in Settings, NEW restrict \in BOOLEAN,
                OtherSet(p, setting, restrict)
         PROVE  KnowsCdp' /\ ResetGivesRequestedCdp'
    BY <1>1, <1>2, <1>11 DEF OtherSet
  <1>12. CASE UNCHANGED vars
    <2>1. ResetGivesRequestedCdp'
      BY <1>12 DEF vars, CdpInv, ResetGivesRequestedCdp
    <2> QED BY <1>2, <1>12, <2>1 DEF vars
  <1> QED
    BY <1>3, <1>4, <1>5, <1>6, <1>7, <1>8, <1>9, <1>10, <1>11, <1>12 DEF Next

(* A reset that reports success from its end (hw_alloc_reset,              *)
(* lib/allocation.c) gives the CDP setting asked for, to a caller nobody   *)
(* changed CDP behind the back of.                                         *)
THEOREM ResetGivesRequestedCdpHolds == Spec => []ResetGivesRequestedCdp
  <1>1. CdpInv => ResetGivesRequestedCdp
    BY DEF CdpInv
  <1> QED BY <1>1, StepCdpInv, InitCdpInv, PTL DEF Spec

-----------------------------------------------------------------------------
LEMMA InL3Settings ==
  ASSUME NEW t, NEW r, NEW s, NEW rs
  PROVE  <<"l3", t, r>> \in L3Settings(s, rs) <=> t = s /\ r \in rs
  BY DEF L3Settings

(* The mask registers after a set. *)
LEMMA L3caSetWrites ==
  ASSUME NEW p, NEW s \in Sockets, NEW k \in Regs,
         NEW data \in BOOLEAN, NEW code \in BOOLEAN, L3caSet(p, s, k, data, code)
  PROVE  /\ (<<"l3", s, DataReg(p, k)>> \in changed') = data
         /\ (<<"l3", s, CodeReg(p, k)>> \in changed') = code
         /\ \A t, r : t # s \/ (r # DataReg(p, k) /\ r # CodeReg(p, k)) =>
              (<<"l3", t, r>> \in changed' <=> <<"l3", t, r>> \in changed)
  <1> DEFINE D == DataReg(p, k)
             C == CodeReg(p, k)
  <1>1. D = C => data = code
    <2>1. cap[p].cdp_on => D # C
      BY DEF DataReg, CodeReg, Regs
    <2> QED BY <2>1 DEF L3caSet
  <1>2. changed' = (changed \ L3Settings(s, {D, C})) \union Restricting(s, D, data)
                     \union Restricting(s, C, code)
    BY DEF L3caSet
  <1> HIDE DEF D, C
  <1>3. \A t, r : <<"l3", t, r>> \in changed' <=>
          \/ <<"l3", t, r>> \in changed /\ ~(t = s /\ r \in {D, C})
          \/ data /\ t = s /\ r = D
          \/ code /\ t = s /\ r = C
    <2> TAKE t, r
    <2>1. <<"l3", t, r>> \in L3Settings(s, {D, C}) <=> t = s /\ r \in {D, C}
      BY InL3Settings
    <2>2. <<"l3", t, r>> \in Restricting(s, D, data) <=> data /\ t = s /\ r = D
      BY InL3Settings DEF Restricting
    <2>3. <<"l3", t, r>> \in Restricting(s, C, code) <=> code /\ t = s /\ r = C
      BY InL3Settings DEF Restricting
    <2> QED BY <1>2, <2>1, <2>2, <2>3
  <1>4. <<"l3", s, D>> \in changed' <=> data
    BY <1>1, <1>3
  <1>5. <<"l3", s, C>> \in changed' <=> code
    BY <1>1, <1>3
  <1>6. \A t, r : t # s \/ (r # D /\ r # C) =>
          (<<"l3", t, r>> \in changed' <=> <<"l3", t, r>> \in changed)
    BY <1>3
  <1> QED BY <1>4, <1>5, <1>6 DEF D, C

LEMMA SetDefines ==
  ASSUME CdpInv, NEW p \in Using \ unsure, NEW s \in Sockets, NEW k \in Regs,
         NEW data \in BOOLEAN, NEW code \in BOOLEAN, L3caSet(p, s, k, data, code)
  PROVE  DefinesClass(s, k, data, code)
  <1> USE NumRegsType
  <1>1. cdp' = cdp
    BY DEF L3caSet
  <1>2. \A t \in Sockets : cdp[t] = cap[p].cdp_on
    BY DEF CdpInv, KnowsCdp
  <1>3. Effective(s, k)' = <<<<"l3", s, DataReg(p, k)>> \in changed',
                             <<"l3", s, CodeReg(p, k)>> \in changed'>>
    BY <1>1, <1>2 DEF Effective, DataReg, CodeReg
  <1>4. Effective(s, k)' = <<data, code>>
    BY <1>3, L3caSetWrites
  <1>5. \A t, r : t # s \/ (r # DataReg(p, k) /\ r # CodeReg(p, k)) =>
          (<<"l3", t, r>> \in changed' <=> <<"l3", t, r>> \in changed)
    <2>1. /\ (<<"l3", s, DataReg(p, k)>> \in changed') = data
          /\ (<<"l3", s, CodeReg(p, k)>> \in changed') = code
          /\ \A t, r : t # s \/ (r # DataReg(p, k) /\ r # CodeReg(p, k)) =>
               (<<"l3", t, r>> \in changed' <=> <<"l3", t, r>> \in changed)
      BY L3caSetWrites
    <2> QED BY <2>1
  <1>6. ASSUME NEW t \in Sockets, NEW j \in ClassesOf(t), <<t, j>> # <<s, k>>
        PROVE  Effective(t, j)' = Effective(t, j)
    <2>1. j \in Int /\ k \in Int
      BY DEF ClassesOf, Regs
    <2>2. \/ t # s
          \/ /\ DataReg(p, j) # DataReg(p, k) /\ DataReg(p, j) # CodeReg(p, k)
             /\ CodeReg(p, j) # DataReg(p, k) /\ CodeReg(p, j) # CodeReg(p, k)
      BY <1>6, <2>1 DEF DataReg, CodeReg
    <2>3. <<"l3", t, DataReg(p, j)>> \in changed' <=> <<"l3", t, DataReg(p, j)>> \in changed
      BY <1>5, <2>2
    <2>4. <<"l3", t, CodeReg(p, j)>> \in changed' <=> <<"l3", t, CodeReg(p, j)>> \in changed
      BY <1>5, <2>2
    <2>5. Effective(t, j) = <<<<"l3", t, DataReg(p, j)>> \in changed,
                              <<"l3", t, CodeReg(p, j)>> \in changed>>
      BY <1>2 DEF Effective, DataReg, CodeReg
    <2>6. Effective(t, j)' = <<<<"l3", t, DataReg(p, j)>> \in changed',
                               <<"l3", t, CodeReg(p, j)>> \in changed'>>
      BY <1>1, <1>2 DEF Effective, DataReg, CodeReg
    <2> QED BY <2>3, <2>4, <2>5, <2>6
  <1> QED BY <1>4, <1>6 DEF DefinesClass

(* A set defines the class it names, and no other. *)
THEOREM SetDefinesItsClassHolds == Spec => SetDefinesItsClass
  <1>1. CdpInv /\ [Next]_vars => [SetDefinesClass]_vars
    <2> SUFFICES ASSUME CdpInv, NEW p \in Using \ unsure, NEW s \in Sockets, NEW k \in Regs,
                        NEW data \in BOOLEAN, NEW code \in BOOLEAN,
                        L3caSet(p, s, k, data, code)
                 PROVE  DefinesClass(s, k, data, code)
      BY DEF SetDefinesClass
    <2> QED BY SetDefines
  <1> QED BY <1>1, StepCdpInv, InitCdpInv, PTL DEF Spec, SetDefinesItsClass

-----------------------------------------------------------------------------
(* The registers of an undisturbed group: its cores carry its RMID, which  *)
(* is not RMID0, and no other core of those clusters does.                 *)
OwnsRegisters(g) ==
  /\ \A c \in group[g].cores : /\ assoc[c] = group[g].rmid[ClusterOf[c]]
                               /\ assoc[c] # RMID0
  /\ \A c \in MonCores \ group[g].cores :
       ClusterOf[c] \in ClustersOf(group[g].cores) =>
         assoc[c] # group[g].rmid[ClusterOf[c]]

RegistersInv == \A g \in Running \ hijacked : OwnsRegisters(g)

(* Undisturbed groups share no core: a core with an RMID is refused. *)
DisjointInv == \A g, h \in Running \ hijacked :
                 g # h => group[g].cores \intersect group[h].cores = {}

IInv == MonTypeOK /\ hijacked \subseteq Running /\ RegistersInv /\ DisjointInv

-----------------------------------------------------------------------------
LEMMA StartInv ==
  ASSUME IInv, NEW g \in Groups, NEW cs \in SUBSET MonCores, NEW E \in SUBSET Events,
         Start(g, cs, E)
  PROVE  IInv'
<1> USE ClusterOfType, RmidMaxType DEF IInv, MonTypeOK, Running, Valid
<1>1. PICK rmid \in PollContexts(cs, E) :
        /\ assoc' = Associated(cs, rmid)
        /\ group' = [group EXCEPT ![g] = [cores |-> cs, rmid |-> rmid, events |-> E]]
  BY DEF Start
<1>2. /\ cs # {} /\ group[g].cores = {}
      /\ \A c \in cs : assoc[c] = RMID0
      /\ UNCHANGED <<leaked, hijacked>>
  BY DEF Start, Accepts, NotMonitored
<1>3. rmid \in [Clusters -> Rmids]
  BY DEF PollContexts
<1>4. ASSUME NEW c \in cs
      PROVE  \A d \in MonCores : ClusterOf[d] = ClusterOf[c] => assoc[d] # rmid[ClusterOf[c]]
  BY <1>4 DEF PollContexts, IsAllocated, Free, CoresOf, ClustersOf
<1>5. MonTypeOK'
  BY <1>1, <1>2, <1>3 DEF Associated, Group
<1>6. Running' = Running \union {g} /\ g \notin Running /\ g \notin hijacked
  BY <1>1, <1>2
<1>7. \A c \in cs : rmid[ClusterOf[c]] # RMID0
  BY <1>2, <1>4
<1>8. group'[g].cores = cs /\ group'[g].rmid = rmid
  BY <1>1
<1>9. \A h \in Running : group'[h] = group[h] /\ group[h].cores \in SUBSET MonCores
  BY <1>1, <1>6 DEF Group
<1>10. \A c \in MonCores : assoc'[c] = IF c \in cs THEN rmid[ClusterOf[c]] ELSE assoc[c]
  BY <1>1 DEF Associated
<1>11. ASSUME NEW h \in Running \ hijacked
       PROVE  OwnsRegisters(h)' /\ group[h].cores \intersect cs = {}
  <2>1. OwnsRegisters(h)
    BY DEF RegistersInv
  <2>2. group[h].cores \intersect cs = {}
    BY <2>1, <1>2 DEF OwnsRegisters
  <2>3. ASSUME NEW c \in group[h].cores
        PROVE  assoc'[c] = group[h].rmid[ClusterOf[c]] /\ assoc'[c] # RMID0
    BY <2>1, <2>2, <1>9, <1>10 DEF OwnsRegisters
  <2>4. ASSUME NEW c \in MonCores \ group[h].cores, ClusterOf[c] \in ClustersOf(group[h].cores)
        PROVE  assoc'[c] # group[h].rmid[ClusterOf[c]]
    <3>1. PICK d \in group[h].cores : ClusterOf[d] = ClusterOf[c]
      BY <2>4 DEF ClustersOf
    <3>2. assoc[d] = group[h].rmid[ClusterOf[c]] /\ d \in MonCores
      BY <2>1, <3>1, <1>9 DEF OwnsRegisters
    <3>3. CASE c \in cs
      BY <3>1, <3>2, <3>3, <1>4, <1>10
    <3>4. CASE c \notin cs
      BY <2>1, <2>4, <3>4, <1>10 DEF OwnsRegisters
    <3>5. QED
      BY <3>3, <3>4
  <2>5. QED
    BY <2>2, <2>3, <2>4, <1>9 DEF OwnsRegisters, ClustersOf
<1>12. OwnsRegisters(g)'
  <2>1. ASSUME NEW c \in MonCores \ cs, ClusterOf[c] \in ClustersOf(cs)
        PROVE  assoc'[c] # rmid[ClusterOf[c]]
    BY <2>1, <1>4, <1>10 DEF ClustersOf
  <2>2. QED
    BY <2>1, <1>7, <1>8, <1>10 DEF OwnsRegisters, ClustersOf
<1>13. RegistersInv'
  BY <1>2, <1>6, <1>11, <1>12 DEF RegistersInv
<1>14. DisjointInv'
  BY <1>2, <1>6, <1>8, <1>9, <1>11 DEF DisjointInv
<1>15. QED
  BY <1>2, <1>5, <1>6, <1>13, <1>14

LEMMA StartCutShortInv ==
  ASSUME IInv, NEW g \in Groups, NEW cs \in SUBSET MonCores, NEW E \in SUBSET Events,
         StartCutShort(g, cs, E)
  PROVE  IInv'
<1> USE ClusterOfType, RmidMaxType DEF IInv, MonTypeOK, Running, Valid
<1>1. PICK rmid \in PollContexts(cs, E), stuck \in SUBSET cs :
        assoc' = Associated(stuck, rmid) /\ leaked' = leaked \union stuck
  BY DEF StartCutShort
<1>2. /\ \A c \in cs : assoc[c] = RMID0
      /\ UNCHANGED <<group, hijacked>>
  BY DEF StartCutShort, NotMonitored
<1>3. rmid \in [Clusters -> Rmids]
  BY DEF PollContexts
<1>4. ASSUME NEW c \in cs
      PROVE  \A d \in MonCores : ClusterOf[d] = ClusterOf[c] => assoc[d] # rmid[ClusterOf[c]]
  BY <1>4 DEF PollContexts, IsAllocated, Free, CoresOf, ClustersOf
<1>5. MonTypeOK'
  BY <1>1, <1>2, <1>3 DEF Associated, Group
<1>6. \A c \in MonCores : assoc'[c] = IF c \in stuck THEN rmid[ClusterOf[c]] ELSE assoc[c]
  BY <1>1 DEF Associated
<1>7. ASSUME NEW h \in Running \ hijacked
      PROVE  OwnsRegisters(h)'
  <2>1. OwnsRegisters(h) /\ group[h].cores \in SUBSET MonCores
    BY DEF RegistersInv, Group
  <2>2. group[h].cores \intersect cs = {}
    BY <2>1, <1>2 DEF OwnsRegisters
  <2>3. ASSUME NEW c \in MonCores \ group[h].cores, ClusterOf[c] \in ClustersOf(group[h].cores)
        PROVE  assoc'[c] # group[h].rmid[ClusterOf[c]]
    <3>1. PICK d \in group[h].cores : ClusterOf[d] = ClusterOf[c]
      BY <2>3 DEF ClustersOf
    <3>2. assoc[d] = group[h].rmid[ClusterOf[c]]
      BY <2>1, <3>1 DEF OwnsRegisters
    <3>3. CASE c \in stuck
      BY <3>1, <3>2, <3>3, <2>1, <1>4, <1>6
    <3>4. CASE c \notin stuck
      BY <2>1, <2>3, <3>4, <1>6 DEF OwnsRegisters
    <3>5. QED
      BY <3>3, <3>4
  <2>4. QED
    BY <2>1, <2>2, <2>3, <1>1, <1>2, <1>6 DEF OwnsRegisters, ClustersOf
<1>8. RegistersInv' /\ DisjointInv'
  BY <1>2, <1>7 DEF RegistersInv, DisjointInv
<1>9. QED
  BY <1>2, <1>5, <1>8

LEMMA StopInv ==
  ASSUME IInv, NEW g \in Groups, Stop(g)
  PROVE  IInv'
<1> USE ClusterOfType, RmidMaxType DEF IInv, MonTypeOK, Running, Valid
<1> DEFINE cores == group[g].cores
<1>1. PICK failed \in SUBSET cores :
        /\ assoc' = Released(cores \ failed)
        /\ leaked' = (leaked \ (cores \ failed)) \union failed
        /\ hijacked' = (hijacked \union
                          {h \in Running : group[h].cores \intersect (cores \ failed) # {}}) \ {g}
  BY DEF Stop
<1>2. group' = [group EXCEPT ![g] = NoGroup]
  BY DEF Stop
<1>3. NoGroup \in Group /\ NoGroup.cores = {} /\ RMID0 \in Rmids
  BY DEF NoGroup, Group, Rmids, RMID0
<1>4. cores \in SUBSET MonCores
  BY DEF Group
<1>5. MonTypeOK'
  BY <1>1, <1>2, <1>3, <1>4 DEF Released
<1>6. Running' = Running \ {g} /\ \A h \in Groups \ {g} : group'[h] = group[h]
  BY <1>2, <1>3
<1>7. hijacked' \subseteq Running'
  BY <1>1, <1>6
<1>8. ASSUME NEW h \in Running' \ hijacked'
      PROVE  /\ h \in Running \ hijacked /\ h # g
             /\ group[h].cores \intersect (cores \ failed) = {}
  BY <1>1, <1>6, <1>8
<1>9. ASSUME NEW h \in Running' \ hijacked'
      PROVE  OwnsRegisters(h)'
  <2>1. OwnsRegisters(h) /\ group[h].cores \in SUBSET MonCores /\ group'[h] = group[h]
    BY <1>6, <1>8 DEF RegistersInv, Group
  <2>2. \A c \in MonCores : assoc'[c] = IF c \in cores \ failed THEN RMID0 ELSE assoc[c]
    BY <1>1 DEF Released
  <2>3. ASSUME NEW c \in MonCores \ group[h].cores, ClusterOf[c] \in ClustersOf(group[h].cores)
        PROVE  assoc'[c] # group[h].rmid[ClusterOf[c]]
    <3>1. PICK d \in group[h].cores : ClusterOf[d] = ClusterOf[c]
      BY <2>3 DEF ClustersOf
    <3>2. group[h].rmid[ClusterOf[c]] # RMID0
      BY <2>1, <3>1 DEF OwnsRegisters
    <3>3. QED
      BY <2>1, <2>2, <2>3, <3>2 DEF OwnsRegisters
  <2>4. QED
    BY <2>1, <2>2, <2>3, <1>8 DEF OwnsRegisters, ClustersOf
<1>10. RegistersInv' /\ DisjointInv'
  BY <1>6, <1>8, <1>9 DEF RegistersInv, DisjointInv
<1>11. QED
  BY <1>5, <1>7, <1>10

LEMMA ResetInv == IInv /\ MonReset => IInv'
<1> USE RmidMaxType DEF IInv, MonTypeOK, Running, Valid
<1> SUFFICES ASSUME IInv, MonReset
             PROVE  IInv'
  OBVIOUS
<1>1. RMID0 \in Rmids
  BY DEF Rmids, RMID0
<1>2. MonTypeOK' /\ hijacked' = Running'
  BY <1>1 DEF MonReset, Released
<1>3. QED
  BY <1>2 DEF RegistersInv, DisjointInv

LEMMA ExitInv ==
  ASSUME IInv, NEW g \in Groups, Exit(g)
  PROVE  IInv'
<1> USE RmidMaxType DEF IInv, MonTypeOK, Running, Valid
<1>1. NoGroup \in Group /\ NoGroup.cores = {}
  BY DEF NoGroup, Group, Rmids, RMID0
<1>2. /\ group' = [group EXCEPT ![g] = NoGroup] /\ assoc' = assoc
      /\ leaked' = leaked \union group[g].cores /\ hijacked' = hijacked \ {g}
  BY DEF Exit
<1>3. MonTypeOK'
  BY <1>1, <1>2 DEF Group
<1>4. Running' = Running \ {g} /\ \A h \in Groups \ {g} : group'[h] = group[h]
  BY <1>1, <1>2
<1>5. RegistersInv'
  BY <1>2, <1>4 DEF RegistersInv, OwnsRegisters, ClustersOf
<1>6. DisjointInv'
  BY <1>2, <1>4 DEF DisjointInv
<1>7. QED
  BY <1>2, <1>3, <1>4, <1>5, <1>6

LEMMA MonInitInv == MonInit => IInv
  BY RmidMaxType DEF MonInit, IInv, MonTypeOK, RegistersInv, DisjointInv, Running, Valid, NoGroup,
                     Group, Rmids, RMID0

LEMMA NextInv == IInv /\ [MonNext]_monVars => IInv'
<1> SUFFICES ASSUME IInv, [MonNext]_monVars
             PROVE  IInv'
  OBVIOUS
<1>1. CASE UNCHANGED monVars
  BY <1>1 DEF IInv, MonTypeOK, RegistersInv, DisjointInv, OwnsRegisters, Running, Valid,
              ClustersOf, monVars
<1>2. CASE MonNext
  BY <1>2, StartInv, StartCutShortInv, StopInv, ResetInv, ExitInv DEF MonNext
<1>3. QED
  BY <1>1, <1>2

LEMMA MonInvHolds == MonSpec => []IInv
  BY MonInitInv, NextInv, PTL DEF MonSpec

-----------------------------------------------------------------------------
(* Registers, group structures and the two history sets keep their types.  *)
THEOREM MonTypeCorrect == MonSpec => []MonTypeOK
<1>1. IInv => MonTypeOK
  BY DEF IInv
<1>2. QED
  BY <1>1, MonInvHolds, PTL

(* Every group that no reset disturbed counts its own cores and only those *)
(* (rmid_alloc, hw_mon_start and hw_mon_stop of lib/monitoring.c), however *)
(* many starts and stops fail half way or processes die.                   *)
THEOREM CountsExactlyItsCoresHolds == MonSpec => []CountsExactlyItsCores
<1>1. IInv => CountsExactlyItsCores
  <2> SUFFICES ASSUME IInv, NEW g \in Running \ hijacked, NEW k \in ClustersOf(group[g].cores)
               PROVE  {c \in CoresOf(k) : assoc[c] = group[g].rmid[k]}
                        = group[g].cores \intersect CoresOf(k)
    BY DEF CountsExactlyItsCores
  <2>1. OwnsRegisters(g) /\ group[g].cores \in SUBSET MonCores
    BY DEF IInv, RegistersInv, MonTypeOK, Group, Running
  <2>2. QED
    BY <2>1 DEF OwnsRegisters, CoresOf
<1>2. QED
  BY <1>1, MonInvHolds, PTL

(* The first group to be disturbed is disturbed by a reset: a stop can     *)
(* only release a core of another running group when its own group has     *)
(* been hijacked before, since undisturbed groups share no core.           *)
THEOREM HijackOnlyByResetHolds == MonSpec => HijackOnlyByReset
<1>1. IInv /\ [MonNext]_monVars => [ResetIsTheCause]_monVars
  <2> SUFFICES ASSUME IInv, MonNext, NEW g \in hijacked' \ hijacked, hijacked' # Running
               PROVE  \E h \in hijacked : group[h].cores \intersect group[g].cores # {}
    BY DEF ResetIsTheCause
  <2>1. PICK h \in Groups : Stop(h)
    BY DEF MonNext, Start, StartCutShort, Exit, MonReset
  <2>2. /\ h \in Running /\ g \in Running /\ g # h
        /\ group[h].cores \intersect group[g].cores # {}
    BY <2>1 DEF Stop, Running
  <2>3. h \in hijacked
    BY <2>2 DEF IInv, DisjointInv
  <2>4. QED
    BY <2>2, <2>3
<1>2. QED
  BY <1>1, MonInvHolds, PTL DEF MonSpec, HijackOnlyByReset

(* What a group measures keeps fitting its events: the RMID handed out by  *)
(* hw_mon_start is inductive by itself, since a core accepted for          *)
(* monitoring holds RMID0 and so RMID0 is not free in its cluster.         *)
THEOREM RmidFitsEventsHolds == MonSpec => []RmidFitsEvents
<1> USE DEF RmidFitsEvents, Running, Valid
<1>1. MonInit => RmidFitsEvents
  BY DEF MonInit, NoGroup
<1>2. IInv /\ RmidFitsEvents /\ [MonNext]_monVars => RmidFitsEvents'
  <2> SUFFICES ASSUME IInv, RmidFitsEvents, [MonNext]_monVars,
                      NEW g \in Running', NEW k \in ClustersOf(group'[g].cores)
               PROVE  group'[g].rmid[k] # RMID0 /\ Usable(group'[g].rmid[k], group'[g].events)
    BY DEF ClustersOf, Usable
  <2> USE DEF IInv, MonTypeOK
  <2>1. CASE group'[g] = group[g]
    BY <2>1
  <2>2. ASSUME NEW h \in Groups, NEW cs \in SUBSET MonCores, NEW E \in SUBSET Events,
               Start(h, cs, E), group'[g] # group[g]
        PROVE  group'[g].rmid[k] # RMID0 /\ Usable(group'[g].rmid[k], group'[g].events)
    <3>1. PICK rmid \in PollContexts(cs, E) :
            group' = [group EXCEPT ![h] = [cores |-> cs, rmid |-> rmid, events |-> E]]
      BY <2>2 DEF Start
    <3>2. g = h /\ group'[g] = [cores |-> cs, rmid |-> rmid, events |-> E]
      BY <2>2, <3>1
    <3>3. PICK c \in cs : k = ClusterOf[c]
      BY <3>2 DEF ClustersOf
    <3>4. IsAllocated(rmid[k], k, E) /\ k \in Clusters
      BY <3>3, ClusterOfType DEF PollContexts, ClustersOf
    <3>5. assoc[c] = RMID0 /\ c \in CoresOf(k)
      BY <2>2, <3>3 DEF Start, NotMonitored, CoresOf
    <3>6. QED
      BY <3>2, <3>4, <3>5 DEF IsAllocated, Free
  <2>3. ASSUME NEW h \in Groups, Stop(h) \/ Exit(h), group'[g] # group[g]
        PROVE  FALSE
    BY <2>3 DEF Stop, Exit, NoGroup
  <2>4. CASE UNCHANGED monVars \/ group' = group
    BY <2>1, <2>4 DEF monVars
  <2>5. QED
    BY <2>1, <2>2, <2>3, <2>4 DEF MonNext, StartCutShort, MonReset
<1>3. QED
  BY <1>1, <1>2, MonInvHolds, PTL DEF MonSpec

(* No path of pqos_mon_start, pqos_mon_stop and pqos_mon_reset loses a     *)
(* core: one that new groups are refused belongs to a running group or was *)
(* left by a call that failed or a process that died.                      *)
THEOREM EveryRmidAccountedHolds == MonSpec => []EveryRmidAccounted
<1> USE DEF EveryRmidAccounted, Running, Valid
<1>1. MonInit => EveryRmidAccounted
  BY DEF MonInit
<1>2. IInv /\ EveryRmidAccounted /\ [MonNext]_monVars => EveryRmidAccounted'
  <2> SUFFICES ASSUME IInv, EveryRmidAccounted, [MonNext]_monVars,
                      NEW c \in MonCores, assoc'[c] # RMID0
               PROVE  c \in leaked' \/ \E h \in Running' : c \in group'[h].cores
    OBVIOUS
  <2> USE DEF IInv, MonTypeOK
  <2>1. ASSUME NEW g \in Groups, NEW cs \in SUBSET MonCores, NEW E \in SUBSET Events,
               Start(g, cs, E)
        PROVE  c \in leaked' \/ \E h \in Running' : c \in group'[h].cores
    <3>1. PICK rmid : /\ assoc' = Associated(cs, rmid)
                      /\ group' = [group EXCEPT ![g] = [cores |-> cs, rmid |-> rmid, events |-> E]]
      BY <2>1 DEF Start
    <3>2. group'[g].cores = cs /\ group[g].cores = {} /\ leaked' = leaked
      BY <2>1, <3>1 DEF Start, Accepts
    <3>3. c \notin cs => assoc[c] # RMID0
      BY <3>1 DEF Associated
    <3>4. \A h \in Running : group'[h] = group[h]
      BY <3>1, <3>2
    <3>5. QED
      BY <3>2, <3>3, <3>4
  <2>2. ASSUME NEW g \in Groups, NEW cs \in SUBSET MonCores, NEW E \in SUBSET Events,
               StartCutShort(g, cs, E)
        PROVE  c \in leaked' \/ \E h \in Running' : c \in group'[h].cores
    BY <2>2 DEF StartCutShort, Associated
  <2>3. ASSUME NEW g \in Groups, Stop(g)
        PROVE  c \in leaked' \/ \E h \in Running' : c \in group'[h].cores
    <3>1. PICK failed \in SUBSET group[g].cores :
            /\ assoc' = Released(group[g].cores \ failed)
            /\ leaked' = (leaked \ (group[g].cores \ failed)) \union failed
      BY <2>3 DEF Stop
    <3>2. assoc[c] # RMID0 /\ c \notin group[g].cores \ failed
      BY <3>1 DEF Released
    <3>3. \A h \in Running \ {g} : group'[h] = group[h]
      BY <2>3 DEF Stop
    <3>4. QED
      BY <3>1, <3>2, <3>3
  <2>4. CASE MonReset
    BY <2>4 DEF MonReset, Released
  <2>5. ASSUME NEW g \in Groups, Exit(g)
        PROVE  c \in leaked' \/ \E h \in Running' : c \in group'[h].cores
    <3>1. assoc' = assoc /\ leaked' = leaked \union group[g].cores
      BY <2>5 DEF Exit
    <3>2. \A h \in Running \ {g} : group'[h] = group[h]
      BY <2>5 DEF Exit
    <3>3. QED
      BY <3>1, <3>2
  <2>6. CASE UNCHANGED monVars
    BY <2>6 DEF monVars
  <2>7. QED
    BY <2>1, <2>2, <2>3, <2>4, <2>5, <2>6 DEF MonNext
<1>3. QED
  BY <1>1, <1>2, MonInvHolds, PTL DEF MonSpec
=============================================================================
