---------------------------- MODULE RemoteConfig ----------------------------
(***************************************************************************)
(* The remote configurator of sdk/remote and the two functions the plugin  *)
(* registers with it: the return codes (config/codes) and the owner in the *)
(* server's metadata (sdk/metric). A daemon asks the service over and over *)
(* and applies every answer to the registered functions under mu; a        *)
(* function registered later is applied to the last answer at once. The     *)
(* codes are registered by the plugin's Setup, the owner by a goroutine    *)
(* that it starts before, when metrics are on, and that sets them up.      *)
(***************************************************************************)
EXTENDS CodeMapping

CONSTANTS Operations,   \* Operations[v]: [codes, owners] the service answers at version v
          ServerOwner   \* the owner of the local configuration, "none" for none

\* The service has a configuration from the start.
ASSUME OperationsAssumption ==
    Operations \in Seq([codes : Seq(Code), owners : STRING]) /\ Operations # <<>>

VARIABLES
    served,             \* version the service has
    fetched,            \* the answer the daemon holds, 0 for none
    lastConfig,         \* version applied last, 0 for nil
    applyFuncs,         \* configApplyFuncList
    mu,                 \* holder of mu: "free", "daemon", or the function being registered
    todo,               \* functions the holder has yet to call
    codes,              \* CodeConverter.codes, sorted in place
    codeMapping,        \* atomicCodeMapping: the list behind the map
    owner,              \* the owner serverMetadata shows, "none" for none or when it was reset
    setup,              \* what the plugin's Setup does next: "codes", "mapper" or "done"
    metricSetup,        \* what metric.Setup does next: "owner", "register" or "done"; "off"
    configured          \* the codes of the local configuration, as given

remoteVars == <<served, fetched, lastConfig, applyFuncs, mu, todo, codes, codeMapping, owner, setup, metricSetup, configured>>

\* When prometheus.Setup has returned, or was not called.
NewRemoteConfigurator(localCodes, metrics) ==
    /\ served = 1 /\ fetched = 0 /\ lastConfig = 0
    /\ applyFuncs = <<>> /\ mu = "free" /\ todo = <<>>
    /\ configured = localCodes /\ codes = localCodes /\ codeMapping = <<>>
    /\ owner = "none" /\ setup = "codes" /\ metricSetup = IF metrics THEN "owner" ELSE "off"

\* The service's configuration changes.
Publish ==
    /\ served + 1 \in DOMAIN Operations
    /\ served' = served + 1
    /\ UNCHANGED <<fetched, lastConfig, applyFuncs, mu, todo, codes, codeMapping, owner, setup, metricSetup, configured>>

-----------------------------------------------------------------------------
(* The daemon.                                                             *)

\* sync: an answer; an error is no step.
Fetch ==
    /\ fetched = 0 /\ mu # "daemon"
    /\ fetched' = served
    /\ UNCHANGED <<served, lastConfig, applyFuncs, mu, todo, codes, codeMapping, owner, setup, metricSetup, configured>>

LockAndApply ==
    /\ fetched # 0 /\ mu = "free"
    /\ mu' = "daemon" /\ todo' = applyFuncs
    /\ lastConfig' = fetched /\ fetched' = 0
    /\ UNCHANGED <<served, applyFuncs, codes, codeMapping, owner, setup, metricSetup, configured>>

-----------------------------------------------------------------------------
(* The registered functions, called while mu is held.                      *)

Called == todo' = Tail(todo)

ApplyCodes ==
    /\ mu # "free" /\ todo # <<>> /\ Head(todo) = "codes"
    /\ codes' = SortSlice(codes)
    /\ codeMapping' = ApplyConfig(codes', Operations[lastConfig].codes)
    /\ Called
    /\ UNCHANGED <<served, fetched, lastConfig, applyFuncs, mu, owner, setup, metricSetup, configured>>

\* updateServerMetadata: Reset, then Set.
ResetOwner ==
    /\ mu # "free" /\ todo # <<>> /\ Head(todo) = "owners"
    /\ Operations[lastConfig].owners # "none" /\ owner # "none"
    /\ owner' = "none"
    /\ UNCHANGED <<served, fetched, lastConfig, applyFuncs, mu, todo, codes, codeMapping, setup, metricSetup, configured>>

ApplyOwners ==
    /\ mu # "free" /\ todo # <<>> /\ Head(todo) = "owners"
    /\ Operations[lastConfig].owners # "none" => owner = "none"
    /\ owner' = IF Operations[lastConfig].owners = "none" THEN owner ELSE Operations[lastConfig].owners
    /\ Called
    /\ UNCHANGED <<served, fetched, lastConfig, applyFuncs, mu, codes, codeMapping, setup, metricSetup, configured>>

Unlock ==
    /\ mu # "free" /\ todo = <<>>
    /\ mu' = "free"
    /\ UNCHANGED <<served, fetched, lastConfig, applyFuncs, todo, codes, codeMapping, owner, setup, metricSetup, configured>>

-----------------------------------------------------------------------------
(* Setup: codes.New registers the codes and SetMapper puts the converter   *)
(* in force; meanwhile SetupByConfig registers the owners.                 *)

\* Mutant: a function registered late waits for the next answer.
RegisterForNext(fn) ==
    /\ mu = "free"
    /\ applyFuncs' = Append(applyFuncs, fn)
    /\ UNCHANGED <<mu, todo>>
RegisterConfigApplyFunc(fn) ==
    /\ mu = "free"
    /\ applyFuncs' = Append(applyFuncs, fn)
    /\ IF lastConfig # 0 THEN mu' = fn /\ todo' = <<fn>> ELSE UNCHANGED <<mu, todo>>

SetServerOwner ==
    /\ metricSetup = "owner" /\ metricSetup' = "register"
    /\ owner' = IF ServerOwner # "none" THEN ServerOwner ELSE owner
    /\ UNCHANGED <<served, fetched, lastConfig, applyFuncs, mu, todo, codes, codeMapping, setup, configured>>

RegisterOwners ==
    /\ metricSetup = "register" /\ metricSetup' = "done"
    /\ RegisterConfigApplyFunc("owners")
    /\ UNCHANGED <<served, fetched, lastConfig, codes, codeMapping, owner, setup, configured>>

\* New: the configured codes are stored before the function is registered.
SetupCodes ==
    /\ setup = "codes" /\ setup' = "mapper"
    /\ codes' = SortSlice(codes) /\ codeMapping' = codes'
    /\ RegisterConfigApplyFunc("codes")
    /\ UNCHANGED <<served, fetched, lastConfig, owner, metricSetup, configured>>

\* New returns when its registration has; then SetMapper.
SetMapper ==
    /\ setup = "mapper" /\ mu # "codes" /\ setup' = "done"
    /\ UNCHANGED <<served, fetched, lastConfig, applyFuncs, mu, todo, codes, codeMapping, owner, metricSetup, configured>>

RemoteNext ==
    \/ Publish \/ Fetch \/ LockAndApply \/ ApplyCodes \/ ResetOwner \/ ApplyOwners \/ Unlock
    \/ SetServerOwner \/ RegisterOwners \/ SetupCodes \/ SetMapper

\* codes.CodeMapping: the default converter until SetMapper.
CodeType(code, service, method) ==
    IF setup = "done" THEN Mapping(codeMapping, code, service, method) ELSE defaultCodeType(code)

-----------------------------------------------------------------------------
(* Properties.                                                             *)

\* Whenever no function is being applied, each registered one has been applied to the last
\* answer, in whatever order and however late the two were registered
\* (configurator.go:117-126, 133-136; trpc_admin.go:81): the owner is the one the answer
\* names, and the codes in force are the configured ones and the answer's after them. How
\* often the list was refreshed changes nothing but the order between codes that name only
\* a service and codes that name only a method (code_mapping.go:149, 162).
MappingCurrent ==
    mu = "free" =>
       /\ lastConfig # 0 /\ "owners" \in ToSet(applyFuncs) => Operations[lastConfig].owners \in {"none", owner}
       /\ "codes" \in ToSet(applyFuncs) =>
             LET local  == SubSeq(codeMapping, 1, Len(configured))
                 remote == IF lastConfig = 0 THEN <<>> ELSE ApplyConfig(<<>>, Operations[lastConfig].codes)
             IN codeMapping = local \o remote /\ Prioritised(local, configured)
=============================================================================
