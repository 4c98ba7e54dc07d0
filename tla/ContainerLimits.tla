--------------------------- MODULE ContainerLimits ---------------------------
(***************************************************************************)
(* What the process metrics are set from, pkg/runtime, pkg/cgroups and     *)
(* pkg/cgroups/cgroupsv2: the CPU quota, the memory quota and the memory   *)
(* used, of a container's control groups or of the host.                   *)
(*                                                                         *)
(* A machine is a record of what is read: "dockerEnv", the lines of        *)
(* /proc/self/cgroup and /proc/self/mountinfo, the first lines of files,   *)
(* and "cpus", "total" and "used" of the host. An absolute path is the     *)
(* sequence of its components, a first line is [kind, value], where only   *)
(* kind "number" has a value. A line of mountinfo is known by its number   *)
(* of fields and the place of its first "-" from the seventh field on.     *)
(***************************************************************************)
EXTENDS Integers, SequencesExt

CONSTANT UnlimitedSizes     \* the limits that v1 shows for no limit

ASSUME SizesAssumption == UnlimitedSizes \subseteq Nat \ {0}

-----------------------------------------------------------------------------
(* /proc/self/cgroup and /proc/self/mountinfo. Both packages parse them    *)
(* alike, and give up at a line they do not understand.                    *)

NewCGroupSubsysFromLine(line) == line.fields = 3 /\ line.idOk

\* Subsystem -> name; of two lines with a subsystem the later counts.
parseCGroupSubsystems(lines) ==
    [s \in UNION {lines[i].subsystems : i \in DOMAIN lines} |->
        lines[CHOOSE i \in DOMAIN lines : /\ s \in lines[i].subsystems
                                          /\ \A j \in DOMAIN lines : s \in lines[j].subsystems => j <= i].name]

NewMountPointFromLine(line) ==
    line.fields >= 10 /\ line.idsOk /\ line.dash >= 7 /\ line.fields = line.dash + 3

Parsed(machine) ==
    /\ \A i \in DOMAIN machine.cgroup : NewCGroupSubsysFromLine(machine.cgroup[i])
    /\ \A i \in DOMAIN machine.mountinfo : NewMountPointFromLine(machine.mountinfo[i])

-----------------------------------------------------------------------------
(* Paths.                                                                  *)

\* filepath.Rel of two absolute paths: so many times "..", then the rest.
Rel(base, path) ==
    LET common == Len(LongestCommonPrefix({base, path}))
    IN [up |-> Len(base) - common, down |-> SubSeq(path, common + 1, Len(path))]

\* filepath.Join: ".." of "/" is "/".
Join(path, rel) ==
    SubSeq(path, 1, IF rel.up > Len(path) THEN 0 ELSE Len(path) - rel.up) \o rel.down

\* MountPoint.Translate of pkg/cgroups takes any path, that of cgroupsv2 only one below
\* the root of the mount.
Translate(mount, path) == Join(mount.mountPoint, Rel(mount.root, path))
BelowRoot(mount, path) == Rel(mount.root, path).up = 0

\* NewCGroups: subsystem -> path; of two mounts with a subsystem the later counts.
NewCGroups(machine, strict) ==
    LET named == parseCGroupSubsystems(machine.cgroup)
        has(i, s) == machine.mountinfo[i].fsType = "cgroup" /\ s \in machine.mountinfo[i].superOptions
        mounts(s) == {i \in DOMAIN machine.mountinfo : has(i, s)}
        found == {s \in DOMAIN named : mounts(s) # {}}
        lastOf(s) == CHOOSE i \in mounts(s) : \A j \in mounts(s) : j <= i
        ok == Parsed(machine) /\ (strict => \A s \in found : \A i \in mounts(s) :
                                               BelowRoot(machine.mountinfo[i], named[s]))
    IN [ ok    |-> ok,
         paths |-> IF ok THEN [s \in found |-> Translate(machine.mountinfo[lastOf(s)], named[s])] ELSE <<>> ]

-----------------------------------------------------------------------------
(* Values: [ok, defined, value].                                           *)

Known(v) == [ok |-> TRUE, defined |-> TRUE, value |-> v]
Undefined == [ok |-> TRUE, defined |-> FALSE, value |-> -1]
Failed == [ok |-> FALSE, defined |-> FALSE, value |-> -1]

\* readInt and readDecimal of a file's first line; an error without file or line.
readInt(machine, path) ==
    IF path \in DOMAIN machine.files /\ machine.files[path].kind = "number"
    THEN Known(machine.files[path].value) ELSE Failed

\* A parameter of a subsystem, defined when it is positive.
Positive(machine, cgroups, subsystem, param) ==
    IF ~cgroups.ok THEN Failed
    ELSE IF subsystem \notin DOMAIN cgroups.paths THEN Undefined
    ELSE LET read == readInt(machine, Append(cgroups.paths[subsystem], param))
         IN IF read.ok /\ read.value <= 0 THEN Undefined ELSE read

\* MemoryQuota of cgroupsv2 for v1.
MemoryQuotaV1(machine) ==
    LET limit == Positive(machine, NewCGroups(machine, TRUE), "memory", "memory.limit_in_bytes")
    IN IF limit.defined /\ limit.value \in UnlimitedSizes THEN Undefined ELSE limit

\* cpu.cfs_quota_us and cpu.cfs_period_us of pkg/cgroups.
CGroupCPUQuota(machine) ==
    LET cgroups == NewCGroups(machine, FALSE)
        quota   == Positive(machine, cgroups, "cpu", "cpu.cfs_quota_us")
        period  == readInt(machine, Append(cgroups.paths["cpu"], "cpu.cfs_period_us"))
    IN IF ~quota.defined THEN quota
       ELSE IF ~period.ok THEN Failed ELSE Known(<<quota.value, period.value>>)

IsCGroupV2(machine) ==
    \E i \in DOMAIN machine.mountinfo :
        machine.mountinfo[i].fsType = "cgroup2" /\ machine.mountinfo[i].mountPoint = <<"sys", "fs", "cgroup">>

\* Of the mount's own directory, whatever the name of the process's group.
MemoryQuotaV2(machine) ==
    LET file == <<"sys", "fs", "cgroup", "memory.max">>
    IN IF file \notin DOMAIN machine.files \/ machine.files[file].kind = "max" THEN Undefined
       ELSE readInt(machine, file)

-----------------------------------------------------------------------------
(* pkg/runtime.                                                            *)

ProcessInContainer(machine) ==
    machine.dockerEnv \/ \E i \in DOMAIN machine.cgroup :
                            /\ Len(machine.cgroup[i].name) > 1
                            /\ machine.cgroup[i].name[1] \in {"docker", "kubepods"}

MemoryQuota(machine) ==
    LET mountsOk == \A i \in DOMAIN machine.mountinfo : NewMountPointFromLine(machine.mountinfo[i])
        quota == IF IsCGroupV2(machine) THEN MemoryQuotaV2(machine) ELSE MemoryQuotaV1(machine)
    IN IF ~mountsOk \/ ~quota.ok THEN [ok |-> FALSE, value |-> 0]
       ELSE [ok |-> TRUE, value |-> IF quota.defined THEN quota.value ELSE machine.total]

\* <<quota, period>>; the number of CPUs of the host is <<n, 1>>.
CPUQuota(machine) ==
    LET quota == CGroupCPUQuota(machine)
    IN IF ProcessInContainer(machine) /\ quota.defined
       THEN [ok |-> TRUE, value |-> quota.value]
       ELSE [ok |-> ~ProcessInContainer(machine) \/ quota.ok, value |-> <<machine.cpus, 1>>]

MemoryUsage(machine) ==
    LET usage == Positive(machine, NewCGroups(machine, FALSE), "memory", "memory.usage_in_bytes")
    IN IF ~ProcessInContainer(machine) THEN [ok |-> TRUE, value |-> machine.used]
       ELSE [ok |-> usage.ok, value |-> IF usage.defined THEN usage.value ELSE 0]

\* The gauges; errors are dropped.
ProcessMetrics(machine) ==
    [ cpuCores |-> CPUQuota(machine).value, memoryQuota |-> MemoryQuota(machine).value,
      memoryUsage |-> MemoryUsage(machine).value ]

-----------------------------------------------------------------------------
(* Machines.                                                               *)

IsList(lines) == Len(lines) \in Nat /\ DOMAIN lines = 1..Len(lines)

IsMachine(machine) ==
    /\ IsList(machine.cgroup) /\ IsList(machine.mountinfo)
    /\ machine.cpus > 0 /\ machine.total > 0 /\ machine.used > 0
    /\ {machine.cpus, machine.total, machine.used} \subseteq Nat
    /\ \A file \in DOMAIN machine.files : machine.files[file].value \in Int

Holds(machine, file, value) ==
    file \in DOMAIN machine.files /\ machine.files[file] = [kind |-> "number", value |-> value]

\* A container with v1 groups at the path group, which the mounts show, and the process
\* in sub below it.
LimitedV1(machine, limit, group, sub) ==
    LET mounts == {i \in DOMAIN machine.mountinfo : machine.mountinfo[i].fsType = "cgroup"}
        of(s)  == {i \in mounts : s \in machine.mountinfo[i].superOptions}
        file(s, name) == Append(<<"sys", "fs", "cgroup", s>> \o sub, name)
    IN /\ ~IsCGroupV2(machine) /\ group \in Seq(STRING) /\ sub \in Seq(STRING)
       /\ \A i \in DOMAIN machine.cgroup : machine.cgroup[i].name = group \o sub
       /\ \A i \in mounts : machine.mountinfo[i].root = group
       /\ \A s \in {"cpu", "memory"} :
             /\ of(s) # {} /\ \E i \in DOMAIN machine.cgroup : s \in machine.cgroup[i].subsystems
             /\ \A i \in of(s) : machine.mountinfo[i].mountPoint = <<"sys", "fs", "cgroup", s>>
       /\ Holds(machine, file("cpu", "cpu.cfs_quota_us"), limit.quota)
       /\ Holds(machine, file("cpu", "cpu.cfs_period_us"), limit.period)
       /\ \/ Holds(machine, file("memory", "memory.limit_in_bytes"), limit.memory)
          \/ /\ limit.memory = 0
             /\ \E v \in UnlimitedSizes : Holds(machine, file("memory", "memory.limit_in_bytes"), v)

\* One with v2 groups, seen from a namespace of its own.
LimitedV2(machine, limit) ==
    LET file == <<"sys", "fs", "cgroup", "memory.max">>
    IN /\ IsCGroupV2(machine)
       /\ \A i \in DOMAIN machine.mountinfo : machine.mountinfo[i].fsType # "cgroup"
       /\ \/ Holds(machine, file, limit.memory) /\ limit.memory > 0
          \/ file \in DOMAIN machine.files /\ machine.files[file].kind = "max" /\ limit.memory = 0

Limited(machine, limit, group, sub) ==
    /\ Parsed(machine) /\ ProcessInContainer(machine)
    /\ {limit.memory, limit.quota, limit.period} \subseteq Int /\ limit.memory \notin UnlimitedSizes
    /\ LimitedV1(machine, limit, group, sub) \/ LimitedV2(machine, limit)

-----------------------------------------------------------------------------
(* Properties.                                                             *)

\* Whatever the files say the gauges are plausible: some CPU, no memory limit of a value
\* that means none, and a quota of zero only after an error or from memory.max itself. A
\* memory usage of zero without an error is the mark of a container that has no v1 memory
\* group, as under cgroup v2 (total_memory_linux.go:81).
GaugesPlausible(machine) ==
    LET groups  == NewCGroups(machine, FALSE)
        metrics == ProcessMetrics(machine)
    IN /\ metrics.cpuCores[1] > 0
       /\ (~IsCGroupV2(machine) /\ metrics.memoryQuota # machine.total) => metrics.memoryQuota \notin UnlimitedSizes
       /\ metrics.memoryQuota <= 0 => ~MemoryQuota(machine).ok \/ IsCGroupV2(machine)
       /\ (metrics.memoryUsage = 0 /\ MemoryUsage(machine).ok)
              => ProcessInContainer(machine) /\ ~Positive(machine, groups, "memory", "memory.usage_in_bytes").defined

\* What limits a container is what is read of it, wherever in the hierarchy its group
\* and the process in it are: the memory under v1 and v2, the CPU under v1 alone, for
\* under v2 it is the host's; both packages find the same files
\* (mountpoint.go:148; cgroupsv2/mountpoint.go:121; total_cpu_linux.go:28).
LimitsRead(machine, limit) ==
    /\ MemoryQuota(machine) = [ok |-> TRUE, value |-> IF limit.memory > 0 THEN limit.memory ELSE machine.total]
    /\ CPUQuota(machine) = [ ok    |-> TRUE,
                             value |-> IF limit.quota > 0 /\ ~IsCGroupV2(machine)
                                       THEN <<limit.quota, limit.period>> ELSE <<machine.cpus, 1>> ]
    /\ NewCGroups(machine, TRUE) = NewCGroups(machine, FALSE)
=============================================================================
