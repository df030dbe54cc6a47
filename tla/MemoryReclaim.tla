--------------------------- MODULE MemoryReclaim ---------------------------
(***************************************************************************)
(* The thread that ConfigureMemoryReduction starts in mini_init            *)
(* (linux/init/main.cpp): every 30 s it reads how much CPU time the VM has *)
(* used, gives memory back to the host when the VM was idle for a whole    *)
(* window, and compacts memory.                                            *)
(*                                                                         *)
(* Time is counted in cycles of 30 s, CPU time in ticks, and starts, mems  *)
(* and events record what was read and done in each cycle.                 *)
(***************************************************************************)
EXTENDS Integers, Sequences

CONSTANTS Window,         \* ReclaimWindowLength: 20, or 6 for the gradual mode
          Threshold,      \* ReclaimThreshold: 0.5 % of a cycle
          IdleThreshold,  \* ticks per second that count as idle
          Usage,          \* ticks a cycle may use
          Burst,          \* ticks used while the thread sleeps one second
          Low, High,      \* MemoryLow, MemoryHigh
          Memory,         \* memory in use at a reading
          MaxCycles

\* LLONG_MIN: less than any difference the thread computes.
Never == -1000

ASSUME ReclaimAssumption ==
    /\ Window \in Nat /\ Window >= 2 /\ Threshold * (Window + 1) <= -Never
    /\ Threshold \in Nat /\ IdleThreshold \in Nat
    /\ Usage \subseteq Nat /\ Burst \subseteq Nat

VARIABLES rcPc,      \* where the thread is
          rcMode,    \* LX_MINI_INIT_MEMORY_RECLAIM_MODE
          order,     \* PageReportingOrder is not 0
          cpu,       \* GetUserCpuTime
          ring,      \* ReclaimWindow
          index,     \* ReclaimIndex
          idling,    \* ReclaimIdling
          starts,    \* CPU time at the start of each cycle
          mems,      \* memory in use at the start of each cycle
          events,    \* what was done, and in which cycle
          stops      \* CPU time at the last reading of each cycle

rcVars == <<rcPc, rcMode, order, cpu, ring, index, idling, starts, mems, events, stops>>

\* The thread is not started when there is nothing for it to do.  ReclaimIdling
\* has no initial value.
RcInit ==
    /\ rcPc = "check"
    /\ rcMode \in {"disabled", "gradual", "dropcache"} /\ order \in BOOLEAN
    /\ order \/ rcMode # "disabled"
    /\ cpu = 0
    /\ ring = [i \in 0..Window - 1 |-> IF i = 0 THEN 0 ELSE Never]
    /\ index = 0
    /\ idling = "unset"
    /\ starts = <<0>> /\ stops = <<0>> /\ mems = <<Low>>
    /\ events = {}

-----------------------------------------------------------------------------

\* Slip: the entry that is overwritten is not the oldest.
WindowIdle_Newest(start) == /\ ring[index] > start - Threshold * (Window + 1)
                            /\ ring[index] > start - Threshold

\* The utilization test, on the ring as it is before this cycle's entry.
LastIndex == (index + 1) % Window
WindowIdle(start) == /\ ring[LastIndex] > start - Threshold * (Window + 1)
                     /\ ring[index] > start - Threshold

Event(what) == events \cup {[what |-> what, cycle |-> Len(starts) + 1, idling |-> idling]}

\* Gradual: 3 % of the memory in use goes back, until it is below MemoryLow; then
\* none until it is above MemoryHigh.
GradualReclaim(mem) ==
    LET reset == IF mem > High THEN "no" ELSE idling
        frees == reset # "yes" /\ mem > Low
    IN /\ idling' = IF frees /\ (mem * 97) \div 100 < Low THEN "yes" ELSE reset
       /\ events' = IF frees THEN Event("gradual") ELSE events

\* DropCache: once, when the VM becomes idle.
DropCache == IF idling # "yes" THEN idling' = "yes" /\ events' = Event("drop")
                               ELSE UNCHANGED <<idling, events>>

\* The part of a cycle that reclaims.
Reclaims ==
    /\ rcPc = "check" /\ Len(starts) <= MaxCycles
    /\ \E used \in Usage, mem \in (IF rcMode = "gradual" THEN Memory ELSE {Low}) :
         LET start == IF Len(starts) = 1 THEN used ELSE stops[Len(stops)] + used
         IN /\ cpu' = start
            /\ IF rcMode = "disabled"
               THEN UNCHANGED <<ring, index, idling, events>>
               ELSE /\ IF ~WindowIdle(start) THEN idling' = "no" /\ UNCHANGED events
                       ELSE IF rcMode = "gradual" THEN GradualReclaim(mem)
                       ELSE DropCache
                    /\ index' = LastIndex
                    /\ ring' = [ring EXCEPT ![LastIndex] = start]
            /\ starts' = Append(starts, start) /\ mems' = Append(mems, mem)
    /\ rcPc' = "compact"
    /\ UNCHANGED <<rcMode, order, stops>>

\* The part that compacts.  The Stop of the condition is the one of the
\* enclosing scope, which is 0 and stays it; the reading is kept in another.
Stop == 0
Compacts ==
    /\ rcPc = "compact"
    /\ IF order /\ cpu - Stop > IdleThreshold
       THEN \E used \in Burst :
              /\ cpu' = cpu + used
              /\ events' = IF used < IdleThreshold
                           THEN events \cup {[what |-> "compact", cycle |-> Len(starts), idling |-> idling]}
                           ELSE events
       ELSE UNCHANGED <<cpu, events>>
    /\ stops' = Append(stops, cpu')
    /\ rcPc' = "check"
    /\ UNCHANGED <<rcMode, order, ring, index, idling, starts, mems>>

\* A reading of /proc or a write fails: the thread logs it and ends.
RcFails ==
    /\ rcPc \in {"check", "compact"}
    /\ rcPc' = "ended"
    /\ UNCHANGED <<rcMode, order, cpu, ring, index, idling, starts, mems, events, stops>>

RcNext == Reclaims \/ Compacts \/ RcFails
RcSpec == RcInit /\ [][RcNext]_rcVars
-----------------------------------------------------------------------------

(* Type invariant: ReclaimIndex stays in ReclaimWindow, and ReclaimIdling  *)
(* is never read before the first cycle has set it.                        *)
RcTypeOK ==
    /\ rcPc \in {"check", "compact", "ended"}
    /\ index \in 0..Window - 1 /\ cpu \in Nat
    /\ \A e \in events : e.what # "compact" => e.idling # "unset"

\* CPU time used in the k cycles before the reading of cycle c.
Used(c, k) == starts[c] - starts[c - k]

\* "utilization is below 0.5% from the last 30 seconds, and last n minutes".
BelowHalfPercent(c) ==
    /\ c > Window
    /\ Used(c, 1) < Threshold /\ Used(c, Window) < Threshold * Window

Reclaiming == {e \in events : e.what \in {"gradual", "drop"}}

(* Memory is reclaimed only in a cycle whose last 30 s are below 0.5 %, a  *)
(* whole window after the start though the ring starts half filled, and    *)
(* over the window the VM has used at most one cycle's share more than     *)
(* 0.5 %: the circular buffer compares with the reading of Window cycles   *)
(* ago and no other.                                                       *)
ReclaimOnlyIdle ==
    \A e \in Reclaiming :
        /\ e.cycle > Window /\ Used(e.cycle, 1) < Threshold
        /\ Used(e.cycle, Window) - Threshold * Window < Threshold

(* "Ensure that utilization is below 0.5% from the last 30 seconds, and    *)
(* last n minutes, of usage".  It does not hold of every cycle that        *)
(* reclaims: the window is allowed the share of Window + 1 cycles.         *)
ReclaimBelowHalfPercent == \A e \in Reclaiming : BelowHalfPercent(e.cycle)

(* The page cache is dropped once when the VM becomes idle, and again only *)
(* after its utilization was not below 0.5 %; memory that went below       *)
(* MemoryLow is left alone until then, or until it is above MemoryHigh.    *)
NoThrashing ==
    \A e, f \in Reclaiming :
        /\ e.what = f.what /\ e.cycle < f.cycle
        /\ e.what = "gradual" => (mems[e.cycle] * 97) \div 100 < Low
        => \E c \in (e.cycle + 1)..f.cycle :
               ~BelowHalfPercent(c) \/ (e.what = "gradual" /\ mems[c] > High)

(* "Memory compaction will occur if [...] the CPU time since the last      *)
(* check is greater than the idle threshold": an idle VM is left alone.    *)
CompactNeedsWork ==
    \A e \in events : e.what = "compact" => starts[e.cycle] - stops[e.cycle - 1] > IdleThreshold

(* What the reclaim thread promises: memory is taken only from an idle     *)
(* machine, and the cache is not dropped again and again.                  *)
ReclaimSafe == RcTypeOK /\ ReclaimOnlyIdle /\ NoThrashing
=============================================================================
