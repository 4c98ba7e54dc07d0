------------------------------ MODULE MCControl ------------------------------
(* Small instances of Control for TLC. *)
EXTENDS Control

\* The metric set-ups: with the registration, with a push, with neither, refused, off.
Registering == Setup(<< <<"Enabled", TRUE>>, <<"RegistryEndpoints", {"etcd"}>>,
                        <<"Instance", [TenantID |-> "t", Addr |-> "a", KeySuffix |-> "", Key |-> ""]>> >>)
Pushing(interval) == Setup(<< <<"Enabled", TRUE>>, <<"EnabledRegister", FALSE>>,
                              <<"PrometheusPush", [NoPrometheusPush EXCEPT !.Enabled = TRUE, !.Interval = interval]>> >>)
\* A configuration that was not made from options.
Unticked == [Pushing(0) EXCEPT !.PrometheusPush.Interval = 0]
Configs == { Registering, [Registering EXCEPT !.RegistryEndpoints = {}], [Registering EXCEPT !.Enabled = FALSE],
             Pushing(0), Unticked, [Pushing(0) EXCEPT !.PrometheusPush.Enabled = FALSE] }

Host(scheme) == [scheme |-> scheme, host |-> "collector:12520"]
Addrs == {Host(""), Host("http://"), Host("https://")}
HeaderMaps == {{}, {<<"x", "1">>}, {<<"tenant", "of the map">>, <<"x", "2">>}}
Lists == { <<>>, <<Option("WithLogEnabled", TRUE), Option("WithMetricEnabled", TRUE)>> }

\* All orders of up to three options that touch the headers, among others.
HeaderOptions(names) == {Option(n, h) : n \in names, h \in HeaderMaps}
TenantOptions == {Option("WithTenantID", t) : t \in {"t1", "t2"}}
Sequences(S) == UNION {[1..n -> S] : n \in 0..3}
ExporterSettings ==
    {[of |-> "exporter", options |-> l] :
        l \in Sequences(HeaderOptions({"WithHeaders"}) \union TenantOptions
                          \union {Option("WorkerCount", 0), Option("WithAddress", "a"), [opt |-> "WithInsecure"],
                                  Option("WithRetryConfig", "default")})}
FacadeSettings ==
    {[of |-> "facade", addr |-> a, options |-> l] :
        a \in Addrs, l \in Sequences(HeaderOptions({"WithHeader"}) \union TenantOptions
                                       \union {Option("WithHTTPEnabled", TRUE)})}
ModeSettings == {[of |-> "mode", mode |-> m, text |-> t] :
                    m \in {"default", "oneline", "disable", "multiline"},
                    t \in {"disable", "verbose", "", "multiline", "oneline", "no mode"}}
PushSettings ==
    {[of |-> "push", push |-> [NoPrometheusPush EXCEPT !.Enabled = e, !.Job = j, !.Interval = i, !.URL = u]] :
        e \in BOOLEAN, j \in {"", "job"}, i \in {-1, 0, 5}, u \in {"", "url"}}
BucketSettings ==
    {[of |-> "buckets", default |-> <<1, 2>>, buckets |-> b] :
        b \in Sequences({0, 1, 3, Inf}) \union {[i \in 1..n |-> i] : n \in {10, 11}}}
PluginSettings ==
    {[ of |-> "plugin",
       config |-> PluginConfig([ addr |-> a, tenantID |-> "t1", headers |-> h, registryEndpoints |-> e,
                                 enabledRegister |-> r, zPage |-> z, metricsEnabled |-> z \/ r,
                                 push |-> [NoPrometheusPush EXCEPT !.Enabled = ~r],
                                 specialFractions |-> <<[name |-> "s", fraction |-> 1,
                                                         methods |-> <<[name |-> "m", fraction |-> 0]>>]>>,
                                 exportConfig |-> {<<"WithMaxQueueSize", 0>>, <<"WithMaxPacketSize", 5>>} ]),
       framework |-> [adminPort |-> p, fileLocalIP |-> ip, fileAdminPort |-> 1] ] :
        a \in Addrs, h \in HeaderMaps, e \in {{}, {"etcd"}}, r \in BOOLEAN, z \in BOOLEAN, p \in {0, 1},
        ip \in {"", "ip"}}
\* A container whose group is at the path group and the process in sub below it; v1 mounts
\* show the group, v2 has a namespace of its own.
Group(subsystems, name) == [fields |-> 3, idOk |-> TRUE, subsystems |-> subsystems, name |-> name]
Mount(fsType, root, place, super) ==
    [fields |-> 11, idsOk |-> TRUE, dash |-> 8, root |-> root, mountPoint |-> place, fsType |-> fsType, superOptions |-> super]
Under(sub, file) == <<"sys", "fs", "cgroup">> \o sub \o <<file>>
Number(n) == [kind |-> "number", value |-> n]
Host1 == [dockerEnv |-> FALSE, cgroup |-> <<>>, mountinfo |-> <<Mount("ext4", <<>>, <<>>, {"rw"})>>,
          files |-> <<>>, cpus |-> 8, total |-> 64, used |-> 7]
V1(group, sub, memory, quota) ==
    [Host1 EXCEPT
        !.cgroup = <<Group({"cpu", "cpuacct"}, group \o sub), Group({"memory"}, group \o sub)>>,
        !.mountinfo = @ \o <<Mount("cgroup", group, <<"sys", "fs", "cgroup", "cpu">>, {"rw", "cpu", "cpuacct"}),
                            Mount("cgroup", group, <<"sys", "fs", "cgroup", "memory">>, {"rw", "memory"})>>,
        !.files = Under(<<"memory">> \o sub, "memory.limit_in_bytes") :> Number(memory)
                    @@ Under(<<"memory">> \o sub, "memory.usage_in_bytes") :> Number(3)
                    @@ Under(<<"cpu">> \o sub, "cpu.cfs_quota_us") :> Number(quota)
                    @@ Under(<<"cpu">> \o sub, "cpu.cfs_period_us") :> Number(2)]
V2(max) ==
    [Host1 EXCEPT !.dockerEnv = TRUE, !.cgroup = <<Group({""}, <<>>)>>,
                  !.mountinfo = @ \o <<Mount("cgroup2", <<>>, <<"sys", "fs", "cgroup">>, {"rw"})>>,
                  !.files = Under(<<>>, "memory.max") :> max]
Groups == {<<"docker", "id">>, <<"kubepods", "pod", "id">>}
ContainerSettings ==
    {[of |-> "container", limit |-> [memory |-> IF m < 90 THEN m ELSE 0, quota |-> q, period |-> 2],
      group |-> g, sub |-> s, machine |-> V1(g, s, m, q)] : g \in Groups, s \in {<<>>, <<"sub">>}, m \in {4, 90, 91, 92}, q \in {-1, 3}}
    \union {[of |-> "container", limit |-> [memory |-> IF max.kind = "max" THEN 0 ELSE max.value, quota |-> 3, period |-> 2],
             group |-> <<>>, sub |-> <<>>, machine |-> V2(max)] : max \in {Number(4), [kind |-> "max", value |-> 0]}}
\* Lines that are refused, files that are missing or hold something else, another root.
Odd(machine) ==
    {machine, [machine EXCEPT !.dockerEnv = ~@], [machine EXCEPT !.files = <<>>],
     [machine EXCEPT !.files = [f \in DOMAIN @ |-> [kind |-> "empty", value |-> 0]]],
     [machine EXCEPT !.files = [f \in DOMAIN @ |-> Number(0)]],
     [machine EXCEPT !.cgroup[1].fields = 4], [machine EXCEPT !.cgroup[1].idOk = FALSE],
     [machine EXCEPT !.cgroup[1].name = <<"system.slice">>], [machine EXCEPT !.mountinfo = <<>>],
     [machine EXCEPT !.mountinfo[2].fields = 9], [machine EXCEPT !.mountinfo[2].dash = 0],
     [machine EXCEPT !.mountinfo[2].idsOk = FALSE], [machine EXCEPT !.mountinfo[2].fields = 12],
     [machine EXCEPT !.mountinfo[2].root = <<"elsewhere", "deep">>]}
MachineSettings ==
    {[of |-> "machine", machine |-> m] :
        m \in UNION {Odd(o) : o \in {V1(<<"docker", "id">>, s, l, q) : s \in {<<>>, <<"sub">>}, l \in {-1, 4, 90}, q \in {-1, 3}}
                                        \union {V2(Number(4)), V2(Number(0))}}}
AllSettings == UNION {ExporterSettings, FacadeSettings, ModeSettings, PushSettings,
                      BucketSettings, PluginSettings, ContainerSettings, MachineSettings}

\* Records: names whose hashes agree, names converted to one, labels in two orders, a
\* histogram with and without labels, the name of the plain counter, and no report.
Item(name, policy, value) == [name |-> name, policy |-> policy, value |-> value]
Rec(name, dims, metrics) == [name |-> <<name>>, dims |-> dims, metrics |-> metrics, noSink |-> FALSE]
Dim(name, value) == << <<name>>, <<value>> >>
X == Dim("x", "1")
Y == Dim("y", "2")
Recs == <<
    Rec("r", <<Dim("c", "1")>>, <<Item(<<"a", "b">>, "SUM", 1), Item(<<"a", ".">>, "Timer", 3)>>),
    Rec("s", << << <<"b", "c">>, <<"1">> >> >>, <<Item(<<"a">>, "SUM", 2), Item(<<"a">>, "Histogram", 3)>>),
    Rec("r", <<>>, <<Item(<<"a">>, "SUM", 1), Item(<<"a">>, "Timer", 2)>>),
    Rec("r", <<X, Y>>, <<Item(<<"total">>, "SUM", 1), Item(<<"h">>, "SET", 2)>>),
    Rec("r", <<Y, X>>, <<Item(<<"total">>, "SUM", 1), Item(<<"h">>, "MAX", 3)>>),
    [Rec("r", <<>>, <<Item(<<"a">>, "SUM", 1)>>) EXCEPT !.noSink = TRUE] >>
Assignments == {[r \in Reporters |-> Recs[t[r]]] :
                   t \in {<<1, 1, 2>>, <<2, 2, 3>>, <<3, 3, 6>>, <<4, 4, 5>>, <<1, 3, 5>>, <<4, 4, 4>>}}

\* What a single report may do wrong: labels that are no names, twice the same, those of
\* the name or of the buckets; names, kinds and values that are no text or negative; and
\* names that are another with the suffix of a histogram, or that hash alike.
Wrong == {
    Rec("r", <<Dim(".", "1")>>, <<Item(<<"a">>, "SUM", 1), Item(<<"a">>, "Timer", 1)>>),
    Rec("r", <<X, X>>, <<Item(<<"a">>, "SET", 1), Item(<<"a">>, "Timer", 1)>>),
    Rec("r", <<Dim("_name", "1")>>, <<Item(<<"a">>, "SUM", 1), Item(<<"a">>, "Timer", 1)>>),
    Rec("r", <<Dim("le", "1")>>, <<Item(<<"a">>, "SUM", 1), Item(<<"a">>, "Histogram", 1)>>),
    Rec("r", <<Dim("x", "|")>>, <<Item(<<"a">>, "SUM", 1)>>),
    Rec("|", <<X>>, <<Item(<<"a">>, "SET", 1)>>),
    Rec("|", <<>>, <<Item(<<"a", "|">>, "SUM", 1), Item(<<"a", "|">>, "Timer", 1)>>),
    Rec("r", <<X>>, <<Item(<<"h">>, "Timer", 1), Item(<<"h", "_", "count">>, "Timer", 1)>>),
    Rec("r", <<X, Y>>, <<Item(<<>>, "SUM", 1), Item(<<"h">>, "SET", -1)>>),
    Rec("r", <<Y>>, <<Item(<<"x", "|">>, "SUM", 1), Item(<<"h">>, "SUM", -1)>>) }
WrongAssignments ==
    {[r \in Reporters |-> IF r = 1 THEN w ELSE IF r = 2 THEN v ELSE Recs[6]] : w, v \in Wrong}
AllAssignments == Assignments \union WrongAssignments
Readings == "han" :> "pin"

\* A total above the collector's limit, a metric limit below it, and the user's labels
\* with two set-ups.
Deployment(c, m, t, extra, busy, adds, setUpCalls) ==
    [collector |-> c, metric |-> m, total |-> t, extra |-> extra, busy |-> busy, adds |-> adds, setUps |-> setUpCalls]
AllDeployments ==
    { Deployment(1, 0, 2, 0, {"clientHandledCounter", "trpc_counter"}, 2, 1),
      Deployment(2, 1, 0, 0, {"clientHandledCounter", "clientStreamMsgSent"}, 2, 1),
      Deployment(1, 2, 1, 1, {"clientHandledCounter", "serverStartedCounter"}, 1, 2) }
Vectors == <<"clientHandledCounter", "clientStreamMsgSent", "serverStartedCounter", "trpc_counter">>
=============================================================================
