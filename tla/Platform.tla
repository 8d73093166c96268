------------------------------ MODULE Platform ------------------------------
(***************************************************************************)
(* What the library asks of the processor (include/__platform): which CPU  *)
(* this is and how many there are, how long to back off, and that no       *)
(* interrupt comes between two steps.  Registers are external: they read   *)
(* what the architecture says.                                             *)
(***************************************************************************)
EXTENDS Integers, Sequences, SequencesExt, FiniteSets, FiniteSetsExt

CONSTANTS
    Machines,           \* [multithreaded, cores]; a core is <<cluster, core>>, each below 256
    Topologies,         \* what CPUID says: [maxLeaf, levels, logical]; a level is <<type, count>>
    MaxNesting          \* bound: guards and handlers inside each other

Bytes == 0 .. 255

MachinesAssumption ==
    /\ \A m \in Machines : m.multithreaded \in BOOLEAN /\ m.cores \subseteq Bytes \X Bytes
    /\ \A t \in Topologies :
          t.maxLeaf \in Nat /\ t.levels \in Seq(Nat \X Nat) /\ t.logical \in Nat

VARIABLES
    machine, topology,
    enabled,            \* the processor takes interrupts
    frames,             \* guards alive and handlers running, outermost first: [kind, saved]
    startedEnabled      \* history

vars == <<machine, topology, enabled, frames, startedEnabled>>

-----------------------------------------------------------------------------
(* CPU numbers                                                             *)

\* MPIDR_EL1 of hardware thread t of a core.  Where cores have threads, these come first.
Mpidr(m, core, t) ==
    IF m.multithreaded THEN 16777216 + core[1] * 65536 + core[2] * 256 + t
    ELSE core[1] * 256 + core[2]

\* The bits above a power of two, and the byte there.
Byte(word, power) == (word \div power) % 256

CpuIdFromMpidr(mpidr) ==
    LET multithreaded == (mpidr \div 16777216) % 2 # 0         \* bit 24
        core == IF multithreaded THEN Byte(mpidr, 256) ELSE Byte(mpidr, 1)
        cluster == IF multithreaded THEN Byte(mpidr, 65536) ELSE Byte(mpidr, 256)
    IN  core + cluster * 256

-----------------------------------------------------------------------------
(* How many                                                                *)

\* The first level that is the core level, unless the levels end or eight were asked.
CoreLevel(levels) ==
    {i \in 1..Min({8, Len(levels)}) : levels[i][1] = 2 /\ \A j \in 1..i : levels[j][1] # 0}

GetCpuCount(t) ==
    LET core == CoreLevel(t.levels)
        count == IF core = {} THEN 0 ELSE t.levels[Min(core)][2]
    IN  IF t.maxLeaf >= 11 /\ count # 0 THEN count
        ELSE IF t.maxLeaf >= 1 /\ t.logical # 0 THEN t.logical ELSE 1

-----------------------------------------------------------------------------
(* Backing off: more the more often it has failed, up to a bound           *)

SpinCount(retries, unit) == unit + Min({retries, 256}) * unit

-----------------------------------------------------------------------------
(* Interrupts                                                              *)

Init ==
    /\ machine \in Machines /\ topology \in Topologies
    /\ enabled \in BOOLEAN /\ startedEnabled = enabled
    /\ frames = <<>>

Opens(kind) ==
    /\ Len(frames) < MaxNesting
    /\ frames' = Append(frames, [kind |-> kind, saved |-> enabled])
    /\ enabled' = FALSE
    /\ UNCHANGED <<machine, topology, startedEnabled>>

\* Mutant: interrupts are on again after every guard.
RestoreInterruptsOn(saved) == TRUE

\* The state before goes back, which need not be "enabled".
RestoreInterrupts(saved) == saved

Closes(kind) ==
    /\ frames # <<>> /\ Last(frames).kind = kind
    /\ enabled' = RestoreInterrupts(Last(frames).saved)
    /\ frames' = Front(frames)
    /\ UNCHANGED <<machine, topology, startedEnabled>>

\* The constructor and the destructor of basic_interrupt_guard.
DisableInterrupts == Opens("guard")
DestroyGuard == Closes("guard")

\* A handler starts with interrupts off, and its return puts the flags back.
TakeInterrupt == enabled /\ Opens("handler")
ReturnFromHandler == Closes("handler")

Next == DisableInterrupts \/ DestroyGuard \/ TakeInterrupt \/ ReturnFromHandler

Spec == Init /\ [][Next]_vars

-----------------------------------------------------------------------------
Frames == [kind : {"guard", "handler"}, saved : BOOLEAN]

TypeOK ==
    /\ machine \in Machines /\ topology \in Topologies
    /\ enabled \in BOOLEAN /\ startedEnabled \in BOOLEAN /\ frames \in Seq(Frames)

\* Cores have different numbers, threads of one core the same, and there is at least one CPU:
\* the core-level count where the processor gives one (get_cpu_id, get_cpu_count).
CpusAreTold ==
    /\ \A c, d \in machine.cores : \A t, u \in (IF machine.multithreaded THEN {0, 1} ELSE {0}) :
          (CpuIdFromMpidr(Mpidr(machine, c, t)) = CpuIdFromMpidr(Mpidr(machine, d, u))) = (c = d)
    /\ GetCpuCount(topology) >= 1
    /\ \A unit \in {2, 32}, r \in {0, 1, 255, 256, 257, 100000} :
          SpinCount(r, unit) \in unit..SpinCount(r + 1, unit) /\ SpinCount(r, unit) <= 257 * unit

\* No interrupt is taken while a guard lives, in whatever order guards and handlers nest, and
\* in the end they are on again just if they were before (basic_interrupt_guard).
GuardsHold ==
    /\ (\E i \in DOMAIN frames : frames[i].kind = "guard") => ~enabled
    /\ frames = <<>> => enabled = startedEnabled
=============================================================================
