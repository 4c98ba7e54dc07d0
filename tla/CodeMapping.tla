----------------------------- MODULE CodeMapping -----------------------------
(***************************************************************************)
(* Meaning of return codes, config/codes: a list of configured codes and   *)
(* those the remote configuration adds decide whether a code is a success. *)
(* A Code is [code, type, service, method]; "" stands for not given. The   *)
(* list is sorted in place, again with every remote configuration: its     *)
(* comparator is no order when a code names only a service and another     *)
(* only a method, so a refresh may then change what a call is. Lists have  *)
(* at most twelve codes, which sort.Slice sorts by insertion (Go 1.19).    *)
(***************************************************************************)
EXTENDS Naturals, Sequences, SequencesExt, FiniteSetsExt

Code == [code : STRING, type : STRING, service : STRING, method : STRING]

\* NewCode: an unknown type is a success.
NewCode(code, type, service, method) ==
    [ code |-> code, type |-> IF type \in {"success", "exception", "timeout"} THEN type ELSE "success",
      service |-> service, method |-> method ]

\* ConvertMetricsCodes: the deprecated mapping, completed by the defaults, is appended;
\* the order comes from a map.
DefaultTypes == [c \in {"0", "", "101", "21"} |-> IF c \in {"0", ""} THEN "success" ELSE "timeout"]
ConvertMetricsCodes(codeTypeMapping, codes, order) ==
    LET merged == codeTypeMapping @@ DefaultTypes IN
    codes \o [i \in DOMAIN order |-> NewCode(order[i], merged[order[i]], "", "")]

\* The comparator, and the insertion sort that sort.Slice is for up to twelve elements.
Less(a, b) == \/ a.service # "" /\ b.service = ""
              \/ a.method # "" /\ b.method = ""
Insert(sorted, x) ==
    InsertAt(sorted, Max({0} \cup {i \in DOMAIN sorted : ~Less(x, sorted[i])}) + 1, x)
SortSlice(codes) ==
    LET sorted[n \in 0..Len(codes)] == IF n = 0 THEN <<>> ELSE Insert(sorted[n - 1], codes[n])
    IN sorted[Len(codes)]

\* covertCodesToMapping: codes[] of a number, in the order of the sorted list.
OfCode(codes, code) == SelectSeq(codes, LAMBDA c : c.code = code)

\* genConfigApplyFunc appends what the remote configuration has.
ApplyConfig(sorted, remote) == sorted \o [i \in DOMAIN remote |-> NewCode(remote[i].code, remote[i].type,
                                                            remote[i].service, remote[i].method)]

\* matchCode: the first that has the service or the method, or names neither.
Matches(c, service, method) ==
    \/ c.service = service \/ c.method = method
    \/ c.service = "" /\ c.method = ""

defaultCodeType(code) == IF code \in {"0", ""} THEN "success" ELSE "exception"

Mapping(codes, code, service, method) ==
    LET matching == SelectSeq(OfCode(codes, code), LAMBDA c : Matches(c, service, method))
    IN IF matching = <<>> THEN defaultCodeType(code) ELSE matching[1].type

\* How many of service and method a code leaves open.
Open(c) == (IF c.service = "" THEN 1 ELSE 0) + (IF c.method = "" THEN 1 ELSE 0)
SameNames(a, b) == (a.service = "" <=> b.service = "") /\ (a.method = "" <=> b.method = "")

\* a comes before every b of a list.
Precedes(list, a, b) == \E i \in DOMAIN list : list[i] = a /\ \A j \in 1 .. i : list[j] # b

\* The list has the configured codes, those that name more first, and those that name the
\* same in the order they are configured in.
Prioritised(list, configured) ==
    /\ Len(list) = Len(configured) /\ ToSet(list) = ToSet(configured)
    /\ \A i, j \in DOMAIN list : i < j => Open(list[i]) <= Open(list[j])
    /\ \A a, b \in ToSet(configured) :
           SameNames(a, b) /\ Precedes(configured, a, b) => Precedes(list, a, b)
=============================================================================
