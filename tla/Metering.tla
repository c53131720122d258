------------------------------ MODULE Metering ------------------------------
(***************************************************************************)
(* The metering thread of the engine (_meter_loop of kladosd.py) beside    *)
(* the handlers of Engine: every Interval it samples LIVE, looks up the    *)
(* project of each instance, and adds the nominal interval to the usage    *)
(* rows in one transaction.  It competes with forks for SQLite's write     *)
(* lock, races with boots and destroys, and dies with the daemon.  Time is *)
(* counted by the tick Pass.                                               *)
(***************************************************************************)
EXTENDS Engine, FiniteSetsExt

CONSTANTS Interval,  \* seconds between two ticks, and what a tick charges
          MaxUp      \* bound on the time an instance is in LIVE

ASSUME MeteringAssumption ==
  /\ Interval \in Nat \ {0} /\ MaxUp \in Nat
  /\ IsFiniteSet(Insts)   \* _id: twelve hexadecimal digits

VARIABLES
  meter,    \* the metering thread: asleep, or inside _meter_tick
  sleep,    \* time it still sleeps
  sample,   \* list(LIVE.keys()), not looked up yet
  seen,     \* instances of the sample that had a row
  accr,     \* accr of _meter_tick: seconds per project
  usage,    \* table usage: vcpu_s of a project
  up,       \* history: time an instance has been in LIVE
  charged,  \* history: time charged for an instance
  late,     \* history: of that, time charged while its row was DESTROYED
  early     \* history: instances destroyed before their boot had ended

thread == <<meter, sleep, sample, seen, accr>>
billing == <<usage, charged, late>>
meterVars == <<thread, billing, up, early>>

MeterOK ==
  /\ TypeOK
  /\ meter \in {"asleep", "tick"}
  /\ sleep \in 0..Interval
  /\ sample \subseteq Insts /\ seen \subseteq Insts
  /\ accr \in [Projects -> Nat] /\ usage \in [Projects -> Nat]
  /\ up \in [Insts -> Nat] /\ charged \in [Insts -> Nat]
  /\ late \in [Insts -> Nat] /\ early \subseteq Insts

Nobody == [p \in Projects |-> 0]

MeterInit ==
  /\ Init
  /\ meter = "asleep" /\ sleep = Interval
  /\ sample = {} /\ seen = {}
  /\ accr = Nobody /\ usage = Nobody
  /\ up = [i \in Insts |-> 0] /\ charged = up /\ late = up
  /\ early = {}

-----------------------------------------------------------------------------
(* A second passes. *)
Pass ==
  /\ live # {} \/ sleep > 0
  /\ \A i \in live : up[i] < MaxUp
  /\ up' = [i \in Insts |-> IF i \in live THEN up[i] + 1 ELSE up[i]]
  /\ sleep' = IF sleep > 0 THEN sleep - 1 ELSE 0
  /\ UNCHANGED <<vars, meter, sample, seen, accr, billing, early>>

(* time.sleep is over: a tick starts and samples LIVE. *)
Sample ==
  /\ meter = "asleep" /\ sleep = 0
  /\ meter' = "tick"
  /\ sample' = live
  /\ UNCHANGED <<vars, sleep, seen, accr, billing, up, early>>

(* The project of an instance of the sample; one without a committed row   *)
(* is skipped.  Meanwhile the handlers go on.                              *)
Lookup(i) ==
  /\ meter = "tick" /\ i \in sample
  /\ sample' = sample \ {i}
  /\ IF instRun[i] = None
       THEN UNCHANGED <<seen, accr>>
       ELSE /\ seen' = seen \cup {i}
            /\ accr' = [accr EXCEPT ![runs[instRun[i]]] = @ + Interval]
  /\ UNCHANGED <<vars, meter, sleep, billing, up, early>>

(* _meter_loop: whatever became of the tick, sleep again.  The locals of   *)
(* _meter_tick are gone.                                                   *)
SleepAgain ==
  /\ meter' = "asleep" /\ sleep' = Interval
  /\ sample' = {} /\ seen' = {} /\ accr' = Nobody

Due == meter = "tick" /\ sample = {}
Owed == {p \in Projects : accr[p] > 0}

(* An interval more for some instances. *)
AddInterval(f, S) == [i \in Insts |-> f[i] + IF i \in S THEN Interval ELSE 0]

(* Mutant: the next tick starts at once. *)
CommitNoSleep ==
  /\ Due /\ (lock = None \/ Owed = {})
  /\ usage' = [p \in Projects |-> usage[p] + accr[p]]
  /\ charged' = AddInterval(charged, seen)
  /\ late' = AddInterval(late, {i \in seen : instState[i] = "DESTROYED"})
  /\ meter' = "asleep" /\ seen' = {} /\ accr' = Nobody /\ UNCHANGED <<sleep, sample>>
  /\ UNCHANGED <<vars, up, early>>

(* The upserts and their commit; with nothing owed no lock is needed.  The *)
(* instances charged are those of the sample, whatever became of them      *)
(* since: the state of their rows is not read.                             *)
Commit ==
  /\ Due /\ (lock = None \/ Owed = {})
  /\ usage' = [p \in Projects |-> usage[p] + accr[p]]
  /\ charged' = AddInterval(charged, seen)
  /\ late' = AddInterval(late, {i \in seen : instState[i] = "DESTROYED"})
  /\ SleepAgain
  /\ UNCHANGED <<vars, up, early>>

(* Mutant: what a lost tick had accrued is kept for the next one. *)
TickLostKeepsAccr ==
  /\ Due /\ lock # None /\ Owed # {}
  /\ meter' = "asleep" /\ sleep' = Interval /\ seen' = {}
  /\ UNCHANGED <<vars, sample, accr, billing, up, early>>

(* A fork has held the write lock for 30 s: the exception is swallowed and *)
(* the tick is lost.                                                       *)
TickLost ==
  /\ Due /\ lock # None /\ Owed # {}
  /\ SleepAgain
  /\ UNCHANGED <<vars, billing, up, early>>

-----------------------------------------------------------------------------
(* A handler's step.  A destroy whose LIVE.pop finds nothing goes straight *)
(* to its UPDATE, also when the boot has yet to put the VM into LIVE.      *)
Handle ==
  /\ \E r \in Reqs : (\E p \in Projects : Start(r, p)) \/ Step(r)
  /\ early' = early \cup {i \in Insts : /\ vm[i] = "none"
                                        /\ \E r \in Reqs : /\ At(r, "idle")
                                                          /\ req'[r].op = "update"
                                                          /\ req'[r].iid = i}
  /\ UNCHANGED <<thread, billing, up>>

(* A VM that exits by itself is charged as before. *)
Exit(i) == VmExits(i) /\ UNCHANGED meterVars

(* The daemon is killed and restarted: the usage rows stay. *)
Restart(killed) ==
  /\ Crash(killed)
  /\ SleepAgain
  /\ UNCHANGED <<billing, up, early>>

MeterNext ==
  \/ Pass \/ Sample \/ Commit \/ TickLost
  \/ \E i \in Insts : Lookup(i) \/ Exit(i)
  \/ Handle
  \/ \E killed \in BOOLEAN : Restart(killed)

allVars == <<vars, meterVars>>

MeterSpec == MeterInit /\ [][MeterNext]_allVars

-----------------------------------------------------------------------------
(* Properties. *)

(***************************************************************************)
(* No instance is charged for more than the time the daemon held its VM,   *)
(* but for the one interval in which it was sampled: a late tick, a lost   *)
(* tick or a restart never charges time twice, although every tick charges *)
(* the nominal interval.                                                   *)
(***************************************************************************)
ChargedForUptime == \A i \in Insts : charged[i] <= up[i] + Interval

(* The instances of a project. *)
Own(p) == {i \in Insts : instRun[i] # None /\ runs[instRun[i]] = p}

(***************************************************************************)
(* A project's bill is what its own instances were charged: a tick that is *)
(* lost leaves nothing for the next one, and an instance destroyed or a    *)
(* daemon killed between the sample and the commit moves no charge.        *)
(***************************************************************************)
BillIsCharges == \A p \in Projects : usage[p] = SumFunctionOnSet(charged, Own(p))

(***************************************************************************)
(* A destroy ends the charges.  _meter_tick says "for each RUNNING         *)
(* instance" and never reads the state: it charges what was in LIVE when   *)
(* it sampled.  So an instance is charged at most once after its row has   *)
(* become DESTROYED, by the tick that had sampled it before; unless its    *)
(* destroy came before its boot had put it into LIVE, where it then stays. *)
(***************************************************************************)
DestroyEndsCharges == \A i \in Insts \ early : late[i] <= Interval
=============================================================================
