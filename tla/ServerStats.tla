----------------------------- MODULE ServerStats -----------------------------
(***************************************************************************)
(* One request for the server's figures (internal/stats/stats.go): two      *)
(* readings of the CPU counters some time apart, one of memory and one of   *)
(* the disk.  Counters and sizes are unsigned and wrap at Word.             *)
(***************************************************************************)
EXTENDS Integers

CONSTANTS Word,       \* 2^64 in the code
          MaxTicks,   \* steps of the kernel between the readings
          Sizes       \* sizes of memory and disk, small against Word

(* A fifth of a second is too short for a counter to come round.            *)
ASSUME StatsAssumption ==
  /\ Word \in Nat \ {0, 1} /\ MaxTicks \in Nat /\ MaxTicks < Word
  /\ Sizes \subseteq 0..Word - 1

VARIABLES busy, idle, iowait, \* the kernel's counters
          first,      \* readCPUStat before the pause
          cpu,        \* what cpuPercent divides: [busy, total]
          mem, disk,  \* used and total, in the snapshot
          stage, ticks,
          gained      \* history: what idle and iowait have gained since `first`
statsVars == <<busy, idle, iowait, first, cpu, mem, disk, stage, ticks, gained>>

Counter == 0..Word - 1
Minus(a, b) == (a - b) % Word
Plus(a, b)  == (a + b) % Word
Nothing == [used |-> 0, total |-> 0]

StatsTypeOK ==
  /\ busy \in Counter /\ idle \in Counter /\ iowait \in Counter
  /\ first \in [total : Counter, idle : Counter]
  /\ cpu.total \in Counter
  /\ mem \in [used : Counter, total : Counter] /\ disk \in [used : Counter, total : Counter]
  /\ stage \in {"ask", "pause", "mem", "disk", "shown", "failed"}
  /\ ticks \in 0..MaxTicks

StatsInit ==
  /\ busy \in Counter /\ idle \in Counter /\ iowait \in {0, 1}
  /\ first = [total |-> 0, idle |-> 0] /\ cpu = Nothing
  /\ mem = Nothing /\ disk = Nothing
  /\ stage = "ask" /\ ticks = 0 /\ gained = 0

(* readCPUStat.                                                             *)
Reading == [total |-> Plus(busy, Plus(idle, iowait)), idle |-> Plus(idle, iowait)]

(* One more tick for one counter.  The kernel takes iowait back at times.   *)
Tick ==
  /\ stage = "pause" /\ ticks < MaxTicks /\ ticks' = ticks + 1
  /\ \/ busy' = Plus(busy, 1) /\ UNCHANGED <<idle, iowait, gained>>
     \/ idle' = Plus(idle, 1) /\ gained' = gained + 1 /\ UNCHANGED <<busy, iowait>>
     \/ iowait' = Plus(iowait, 1) /\ gained' = gained + 1 /\ UNCHANGED <<busy, idle>>
     \/ /\ iowait > 0 /\ iowait' = iowait - 1 /\ gained' = gained - 1
        /\ UNCHANGED <<busy, idle>>
  /\ UNCHANGED <<first, cpu, mem, disk, stage>>

ReadFirst ==
  /\ stage = "ask"
  /\ first' = Reading /\ stage' = "pause" /\ gained' = 0
  /\ UNCHANGED <<busy, idle, iowait, cpu, mem, disk, ticks>>

(* Slip: the difference is taken after the conversion to float.             *)
SampleAsFloat(second) ==
  LET total == second.total - first.total  rest == second.idle - first.idle
  IN  [used |-> total - rest, total |-> total]

(* (1 - idleDelta / totalDelta) * 100, or 0 when nothing has moved.         *)
Sample(second) ==
  LET total == Minus(second.total, first.total)  rest == Minus(second.idle, first.idle)
  IN  IF total = 0 THEN Nothing ELSE [used |-> total - rest, total |-> total]

ReadSecond ==
  /\ stage = "pause"
  /\ cpu' = Sample(Reading) /\ stage' = "mem"
  /\ UNCHANGED <<busy, idle, iowait, first, mem, disk, ticks, gained>>

(* Without /proc/stat the figure is 0 and the request goes on.              *)
NoCPU ==
  /\ stage \in {"ask", "pause"}
  /\ cpu' = Nothing /\ stage' = "mem"
  /\ UNCHANGED <<busy, idle, iowait, first, mem, disk, ticks, gained>>

(* Slip: the sum for old kernels is taken off as well.                      *)
UsedMemoryTwice(total, available, unused) == Minus(total, Plus(available, unused))

(* An old kernel has no MemAvailable; free, buffers and cached stand for it. *)
UsedMemory(total, available, unused) ==
  Minus(total, IF available = 0 THEN unused ELSE available)

(* What the kernel says is available or unused is part of the total.        *)
MemInfo ==
  /\ stage = "mem"
  /\ \E total \in Sizes : \E available, unused \in 0..total :
       mem' = [used |-> UsedMemory(total, available, unused), total |-> total]
  /\ stage' = "disk"
  /\ UNCHANGED <<busy, idle, iowait, first, cpu, disk, ticks, gained>>

DiskInfo ==
  /\ stage = "disk"
  /\ \E total \in Sizes : \E free \in 0..total :
       disk' = [used |-> Minus(total, free), total |-> total]
  /\ stage' = "shown"
  /\ UNCHANGED <<busy, idle, iowait, first, cpu, mem, ticks, gained>>

(* Either fails and the whole request with it.                              *)
CollectFails ==
  /\ stage \in {"mem", "disk"}
  /\ stage' = "failed"
  /\ UNCHANGED <<busy, idle, iowait, first, cpu, mem, disk, ticks, gained>>

StatsNext ==
  ReadFirst \/ Tick \/ ReadSecond \/ NoCPU \/ MemInfo \/ DiskInfo \/ CollectFails

StatsSpec == StatsInit /\ [][StatsNext]_statsVars

-----------------------------------------------------------------------------
(* "percent used 0-100": between nothing and everything, even across a      *)
(* counter's wrap, unless the kernel has taken back more iowait than it has *)
(* added to idle between the readings.                                      *)
PercentagesInRange ==
  /\ stage \in {"mem", "disk", "shown"} /\ gained >= 0 => cpu.used \in 0..cpu.total
  /\ mem.used \in 0..mem.total
  /\ disk.used \in 0..disk.total
=============================================================================
