---------------------------- MODULE MsrAllocation ----------------------------
(***************************************************************************)
(* Class definitions, code/data prioritisation (CDP) and reset over the    *)
(* MSR interface (lib/allocation.c), on a machine with L3 CAT and CDP.     *)
(*                                                                         *)
(* With CDP on, the hardware reads the L3 mask registers in pairs, data    *)
(* and code of a class.  Every process learns whether CDP is on when it    *)
(* initialises the library, and from its own changes of it only.           *)
(*                                                                         *)
(* A setting is a register: it either has its value after a machine reset  *)
(* or it restricts something.  A call that defines several classes is as   *)
(* many calls that define one.                                             *)
(***************************************************************************)
EXTENDS Integers, Sequences

CONSTANTS Procs,        \* processes that use the library
          NumSockets,   \* sockets
          NumRegs,      \* L3 mask registers of a socket
          NumL2Ids,     \* L2 clusters
          NumL2Cos,     \* L2 classes, 0 without L2 CAT
          NumMbaCos,    \* MBA classes, 0 without MBA
          Cores         \* logical cores

ASSUME NumSocketsType == NumSockets \in Nat \ {0}
ASSUME NumRegsType == NumRegs \in Nat /\ NumRegs % 2 = 0
ASSUME NumL2IdsType == NumL2Ids \in Nat
ASSUME NumClassesType == NumL2Cos \in Nat /\ NumMbaCos \in Nat

Sockets == 1 .. NumSockets
L2Ids == 1 .. NumL2Ids
Regs == 0 .. NumRegs - 1

L3Settings(s, rs) == {<<"l3", s, r>> : r \in rs}
L2Settings(i) == {"l2"} \X {i} \X (0 .. NumL2Cos - 1)
MbaSettings(s) == {"mba"} \X {s} \X (0 .. NumMbaCos - 1)
AssocSettings == {"cos"} \X Cores \X {0}

Settings == (UNION {L3Settings(s, Regs) \union MbaSettings(s) : s \in Sockets})
              \union (UNION {L2Settings(i) : i \in L2Ids})
              \union AssocSettings

VARIABLES changed,      \* settings that are not at their value after reset
          cdp,          \* PQOS_MSR_L3_QOS_CFG_CDP_EN of each socket
          cap,          \* l3_cap of each process: cdp_on and num_classes
          unsure,       \* history: processes that may be wrong about CDP,
                        \*   since another one changed it or a write failed
          returned      \* the reset that has just returned PQOS_RETVAL_OK,
                        \*   whole, or cut short for want of a table of ids

vars == <<changed, cdp, cap, unsure, returned>>

Other == [call |-> "other"]
ResetOk(p, cfg) == [call |-> "reset", cdp |-> cfg, sure |-> p \notin unsure]
ResetEarly(tables) == [call |-> "reset_early", tables |-> tables]

(* A process that has not initialised the library. *)
NoCap == [cdp_on |-> FALSE, num_classes |-> 0]
Using == {p \in Procs : cap[p] # NoCap}

-----------------------------------------------------------------------------
(* Variants of some definitions below, each a slip the code could have had. *)
DataRegPlain(p, k) == k
CoveredSingle(p) == 0 .. cap[p].num_classes - 1

(* discover_alloc_l3_cpuid: half the classes when CDP is on. *)
ClassesFound(on) == IF on THEN NumRegs \div 2 ELSE NumRegs

(* _pqos_cap_l3cdp_change *)
CapAfterCdp(c, on) ==
  [cdp_on |-> on,
   num_classes |-> CASE on /\ ~c.cdp_on -> c.num_classes \div 2
                     [] ~on /\ c.cdp_on -> c.num_classes * 2
                     [] OTHER -> c.num_classes]

Init == /\ changed = {}
        /\ cdp = [s \in Sockets |-> FALSE]
        /\ cap = [p \in Procs |-> NoCap]
        /\ unsure = {}
        /\ returned = Other

(* pqos_init: an error when the sockets differ in CDP. *)
PqosInit(p) ==
  /\ p \notin Using
  /\ \E on \in BOOLEAN :
       /\ \A s \in Sockets : cdp[s] = on
       /\ cap' = [cap EXCEPT ![p] = [cdp_on |-> on, num_classes |-> ClassesFound(on)]]
  /\ unsure' = unsure \ {p}
  /\ UNCHANGED <<changed, cdp>>
  /\ returned' = Other

(* pqos_fini, or the end of the process. *)
PqosFini(p) ==
  /\ p \in Using
  /\ cap' = [cap EXCEPT ![p] = NoCap]
  /\ unsure' = unsure \ {p}
  /\ UNCHANGED <<changed, cdp>>
  /\ returned' = Other

(* Registers that get the data and the code mask of a class. *)
DataReg(p, k) == IF cap[p].cdp_on THEN 2 * k ELSE k
CodeReg(p, k) == IF cap[p].cdp_on THEN 2 * k + 1 ELSE k

Restricting(s, r, restrict) == IF restrict THEN {<<"l3", s, r>>} ELSE {}

(* hw_l3ca_set: data and code tell whether the two masks restrict the      *)
(* class.  Class ids are not checked against num_classes; the write of a   *)
(* register that does not exist fails.  Two masks need CDP.                *)
L3caSet(p, s, k, data, code) ==
  /\ p \in Using
  /\ cap[p].cdp_on \/ data = code
  /\ {DataReg(p, k), CodeReg(p, k)} \subseteq Regs
  /\ returned' = Other
  /\ changed' = (changed \ L3Settings(s, {DataReg(p, k), CodeReg(p, k)}))
                  \union Restricting(s, DataReg(p, k), data)
                  \union Restricting(s, CodeReg(p, k), code)
  /\ UNCHANGED <<cdp, cap, unsure>>

(* The write of the code mask fails after that of the data mask. *)
L3caSetCutShort(p, s, k, data) ==
  /\ p \in Using
  /\ cap[p].cdp_on
  /\ DataReg(p, k) \in Regs
  /\ changed' = (changed \ L3Settings(s, {DataReg(p, k)})) \union Restricting(s, DataReg(p, k), data)
  /\ UNCHANGED <<cdp, cap, unsure>>
  /\ returned' = Other

(* hw_l2ca_set, hw_mba_set and hw_alloc_assoc_set, whose class ids are     *)
(* checked, and the calls that move cores between classes (CosAssignment). *)
OtherSet(p, setting, restrict) ==
  /\ p \in Using
  /\ changed' = IF restrict THEN changed \union {setting} ELSE changed \ {setting}
  /\ UNCHANGED <<cdp, cap, unsure>>
  /\ returned' = Other

-----------------------------------------------------------------------------
(* hw_alloc_reset resets what the process believes there is, ... *)
Covered(p) == 0 .. (IF cap[p].cdp_on THEN cap[p].num_classes * 2 ELSE cap[p].num_classes) - 1

(* ... group after group. *)
ResetOrder(p) == [s \in Sockets |-> L3Settings(s, Covered(p))]
                   \o [i \in L2Ids |-> L2Settings(i)]
                   \o [s \in Sockets |-> MbaSettings(s)]
                   \o <<AssocSettings>>

ResetBefore(p, n) == UNION {ResetOrder(p)[m] : m \in 1 .. n - 1}
AllReset(p) == ResetBefore(p, Len(ResetOrder(p)) + 1)

CdpConfigs == {"on", "off", "any"}

(* CDP is written only when the process believes that it has to change. *)
ChangesCdp(p, cfg) == \/ cfg = "on" /\ ~cap[p].cdp_on
                      \/ cfg = "off" /\ cap[p].cdp_on

CdpWritten(cfg, upto) == [s \in Sockets |-> IF s <= upto THEN cfg = "on" ELSE cdp[s]]

(* A reset that returns PQOS_RETVAL_OK from its end. *)
Reset(p, cfg) ==
  /\ p \in Using
  /\ changed' = changed \ AllReset(p)
  /\ IF ChangesCdp(p, cfg)
     THEN /\ cdp' = CdpWritten(cfg, NumSockets)
          /\ cap' = [cap EXCEPT ![p] = CapAfterCdp(cap[p], cfg = "on")]
          /\ unsure' = Using \ {p}
     ELSE UNCHANGED <<cdp, cap, unsure>>
  /\ returned' = ResetOk(p, cfg)

(* pqos_cpu_get_sockets, or after the L3 classes pqos_cpu_get_l2ids, has   *)
(* no memory for its table: the reset goes to its exit, where ret is still *)
(* PQOS_RETVAL_OK.                                                         *)
ResetNoTable(p) ==
  /\ p \in Using
  /\ \/ UNCHANGED changed /\ returned' = ResetEarly("none")
     \/ /\ NumL2Cos > 0
        /\ changed' = changed \ ResetBefore(p, NumSockets + 1)
        /\ returned' = ResetEarly("sockets")
  /\ UNCHANGED <<cdp, cap, unsure>>

(* A reset some of whose writes fail goes on to the end of their group and *)
(* returns an error.                                                       *)
ResetCutShort(p) ==
  /\ p \in Using
  /\ \E n \in 1 .. Len(ResetOrder(p)) : \E failed \in SUBSET ResetOrder(p)[n] :
       changed' = changed \ (ResetBefore(p, n) \union (ResetOrder(p)[n] \ failed))
  /\ UNCHANGED <<cdp, cap, unsure>>
  /\ returned' = Other

(* cdp_enable stops at the first socket it cannot write. *)
CdpCutShort(p, cfg) ==
  /\ p \in Using
  /\ ChangesCdp(p, cfg)
  /\ changed' = changed \ AllReset(p)
  /\ \E failed \in Sockets : cdp' = CdpWritten(cfg, failed - 1)
  /\ unsure' = Using
  /\ UNCHANGED cap
  /\ returned' = Other

(* The machine reboots, the hardware's way back to the initial state. *)
Reboot == /\ changed' = {}
          /\ cdp' = [s \in Sockets |-> FALSE]
          /\ cap' = [p \in Procs |-> NoCap]
          /\ unsure' = {}
          /\ returned' = Other

Next ==
  \/ Reboot
  \/ \E p \in Procs :
       \/ \E cfg \in CdpConfigs : Reset(p, cfg) \/ CdpCutShort(p, cfg)
       \/ ResetNoTable(p) \/ ResetCutShort(p)
       \/ PqosInit(p) \/ PqosFini(p)
       \/ \E s \in Sockets, k \in Regs, data, code \in BOOLEAN : L3caSet(p, s, k, data, code)
       \/ \E s \in Sockets, k \in Regs, data \in BOOLEAN : L3caSetCutShort(p, s, k, data)
       \/ \E setting \in Settings, restrict \in BOOLEAN :
            setting[1] # "l3" /\ OtherSet(p, setting, restrict)

Spec == Init /\ [][Next]_vars

-----------------------------------------------------------------------------
Returns == {Other} \union [call : {"reset"}, cdp : CdpConfigs, sure : BOOLEAN]
                   \union [call : {"reset_early"}, tables : {"none", "sockets"}]

TypeOK == /\ changed \subseteq Settings
          /\ cdp \in [Sockets -> BOOLEAN]
          /\ cap \in [Procs -> [cdp_on : BOOLEAN, num_classes : 0 .. NumRegs]]
          /\ unsure \subseteq Procs
          /\ returned \in Returns

L3Restricted == changed \intersect UNION {L3Settings(s, Regs) : s \in Sockets}

(* A reset that reports success and could allocate its tables leaves       *)
(* nothing restricted on the whole machine, also when the caller's idea of *)
(* CDP, and so of the number of classes, is out of date.  Without memory   *)
(* for the table of L2 clusters it reports success having cleared every L3 *)
(* class, again whatever the caller takes CDP for, and only those; without *)
(* that of the sockets it reports success having done nothing.             *)
ResetRestoresDefaults ==
  /\ returned.call = "reset" => changed = {}
  /\ returned = ResetEarly("sockets") => L3Restricted = {}

(* A reset that reports success leaves CDP on every socket as it was       *)
(* asked for (pqos -R l3cdp-on "sets L3 CDP on", l3cdp-off "sets L3 CDP    *)
(* off", pqos/pqos.8), unless another process changed CDP since this one   *)
(* was initialised, a write of it failed, or a table of ids could not be   *)
(* allocated: the reset that reports success early never gets to CDP.      *)
ResetGivesRequestedCdp ==
  returned.call = "reset" /\ returned.sure /\ returned.cdp # "any" =>
    \A s \in Sockets : cdp[s] = (returned.cdp = "on")

(* What class k of socket s restricts, as the hardware reads the masks. *)
Effective(s, k) ==
  LET data == IF cdp[s] THEN 2 * k ELSE k
      code == IF cdp[s] THEN 2 * k + 1 ELSE k
  IN  <<<<"l3", s, data>> \in changed, <<"l3", s, code>> \in changed>>

ClassesOf(s) == 0 .. ClassesFound(cdp[s]) - 1

(* The step defines class k of socket s, and no other class. *)
DefinesClass(s, k, data, code) ==
  /\ Effective(s, k)' = <<data, code>>
  /\ \A t \in Sockets : \A j \in ClassesOf(t) :
       <<t, j>> # <<s, k>> => Effective(t, j)' = Effective(t, j)

(* Defining an L3 class of a socket gives that class what was asked for    *)
(* and leaves the classes of the other cores as they were, through any     *)
(* sequence of resets that turn CDP on and off, inits and finis: unless    *)
(* another process changed CDP or a write of it failed, the process counts *)
(* classes as the hardware does.                                           *)
SetDefinesClass ==
  \A p \in Using \ unsure, s \in Sockets, k \in Regs, data, code \in BOOLEAN :
    L3caSet(p, s, k, data, code) => DefinesClass(s, k, data, code)
SetDefinesItsClass == [][SetDefinesClass]_vars
=============================================================================
