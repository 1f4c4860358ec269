---------------------------- MODULE DispatchAudit ----------------------------
(***************************************************************************)
(* The audit of a finished discovery (recompiler/src/dispatch_audit.c):    *)
(* it walks the code once more, from the scan roots, and records every     *)
(* call and jump with whether its target has a function.  A build with     *)
(* --fail-on-dispatch-gaps stops when it has found a gap.                  *)
(*                                                                         *)
(* The lists of sites and of addresses seen are as long as the list of     *)
(* candidates (NG_DISPATCH_AUDIT_MAX_SITES and _MAX_SEEN).                 *)
(***************************************************************************)
EXTENDS FunctionDiscovery

CONSTANT External   \* addresses that are not in the program ROM's regions

ASSUME ExternalAssumption == External \cap Addrs = {}

VARIABLES audit,  \* NgDispatchAudit, the sites as [kind, node]
          seen,   \* the nodes recorded
          walk    \* [root, on, pc, n]: the root walked from, and how far

auditVars == <<audit, seen, walk>>
allVars == <<discoveryVars, auditVars>>

AuditInit ==
    /\ Init
    /\ audit = [sites |-> <<>>, missing |-> 0, computed |-> 0, unresolved |-> 0,
                truncated |-> FALSE]
    /\ seen = {}
    /\ walk = [root |-> 0, on |-> FALSE, pc |-> 0, n |-> 0]

-----------------------------------------------------------------------------
(* ng_dispatch_audit_build_with_config                                     *)

\* main does not go on with a truncated list.
Auditing == phase = "done" /\ ~truncated

\* Roots only, where there are any.
Walked(k) == list[k].root \/ \A j \in DOMAIN list : ~list[j].root

NextRoots == {k \in DOMAIN list : k > walk.root /\ Walked(k)}

PickRoot ==
    /\ Auditing /\ ~walk.on
    /\ \E k \in NextRoots :
          /\ \A j \in NextRoots : k <= j
          /\ walk' = [root |-> k, on |-> TRUE, pc |-> list[k].addr, n |-> 0]
    /\ UNCHANGED <<audit, seen>>

AuditDone ==
    /\ Auditing /\ ~walk.on
    /\ walk.root <= Len(list) /\ NextRoots = {}
    /\ walk' = [root |-> Len(list) + 1, on |-> FALSE, pc |-> 0, n |-> 0]
    /\ UNCHANGED <<audit, seen>>

View == ViewOf(rom, list[walk.root].bank)
Here == <<walk.pc, BankFor(View, walk.pc)>>

\* ng_function_discovery_contains_for_rom
contains_for_rom(addr) == \E k \in DOMAIN list : Holds(list[k], addr, BankFor(View, addr))

-----------------------------------------------------------------------------
(* What a site adds to the report.                                         *)

audit_append(a, kind) ==
    IF Len(a.sites) >= MaxCandidates THEN [a EXCEPT !.truncated = TRUE]
    ELSE [a EXCEPT !.sites = Append(@, [kind |-> kind, node |-> Here])]

HasRoom(a) == Len(a.sites) < MaxCandidates

audit_record_direct(a, i) ==
    LET b == audit_append(a, "direct")
    IN  IF ~HasRoom(a) \/ i.target \in External \/ contains_for_rom(i.target) THEN b
        ELSE [b EXCEPT !.missing = @ + 1]

audit_record_computed(a, allowed) ==
    LET b == audit_append(a, IF allowed THEN "runtime" ELSE "computed")
    IN  IF HasRoom(a) /\ allowed THEN b ELSE [b EXCEPT !.computed = @ + 1]

\* An entry that is not code is passed over.
audit_record_jump_table(a, entries) ==
    LET b == audit_append(a, "table")
        lost == {k \in DOMAIN entries : Probable(rom, View, entries[k])
                                        /\ ~contains_for_rom(entries[k])}
    IN  IF ~HasRoom(a) THEN b ELSE [b EXCEPT !.unresolved = @ + Cardinality(lost)]

\* Which shape a computed transfer has, and whether the configuration allows
\* it, goes by the instructions before it.  The first of three JMPs in a row
\* passes for a table: that the JMPs themselves have functions is looked up,
\* and where the first one goes is not.
Reports(a, i) ==
    CASE RepeatedDirect(rom, View, walk.pc) ->
            {audit_record_jump_table(a, RepeatedEntries(rom, View, walk.pc))}
      [] i.op \in {"call", "jmp"} /\ ~RepeatedDirect(rom, View, walk.pc) ->
            {audit_record_direct(a, i)}
      [] i.op \in {"icall", "ijmp"} ->
            {audit_record_computed(a, allowed) : allowed \in BOOLEAN}
               \cup (IF i.table = <<>> THEN {} ELSE {audit_record_jump_table(a, i.table)})
      [] OTHER -> {a}

-----------------------------------------------------------------------------
(* audit_scan_from, one instruction at a time.                             *)

\* Mutation: what was seen in one bank counts for all.
SeenInAnyBank == \E n \in seen : n[1] = walk.pc

Seen == Here \in seen

ScanOne ==
    LET i == Code(rom, View, walk.pc)
    IN  /\ Auditing /\ walk.on /\ walk.n < ScanLimit /\ i.op # "bad"
        /\ IF Seen THEN UNCHANGED <<audit, seen>>
           ELSE LET room == Cardinality(seen) < MaxCandidates
                    a == IF room THEN audit ELSE [audit EXCEPT !.truncated = TRUE]
                IN  /\ seen' = IF room THEN seen \cup {Here} ELSE seen
                    /\ audit' \in Reports(a, i)
        /\ walk' = IF i.op \in EndsScan THEN [walk EXCEPT !.on = FALSE]
                   ELSE [walk EXCEPT !.pc = @ + i.len, !.n = @ + 1]

\* The end of the loop, or something that does not decode.
ScanEnds ==
    /\ Auditing /\ walk.on
    /\ walk.n = ScanLimit \/ Code(rom, View, walk.pc).op = "bad"
    /\ walk' = [walk EXCEPT !.on = FALSE]
    /\ UNCHANGED <<audit, seen>>

\* ng_dispatch_audit_has_gaps
HasGaps == \/ audit.missing # 0 \/ audit.computed # 0 \/ audit.unresolved # 0
           \/ audit.truncated

AuditNext ==
    \/ DiscoveryNext /\ UNCHANGED auditVars
    \/ (PickRoot \/ AuditDone \/ ScanOne \/ ScanEnds) /\ UNCHANGED discoveryVars

AuditSpec == AuditInit /\ [][AuditNext]_allVars

FairAuditSpec == AuditSpec /\ WF_allVars(AuditNext)

-----------------------------------------------------------------------------
(* Properties.                                                             *)

Dispatches == {n \in Found : Code(rom, RunsIn(n), n[1]).op
                                \in {"call", "jmp", "icall", "ijmp"}}

\* The direct calls and jumps into the program ROM whose target has no
\* function, but for the first of three JMPs in a row.
Missing == {n \in Dispatches :
               LET i == Code(rom, RunsIn(n), n[1])
               IN  /\ i.op \in {"call", "jmp"} /\ i.target \notin External
                   /\ ~RepeatedDirect(rom, RunsIn(n), n[1])
                   /\ Node(RunsIn(n), i.target) \notin Found}

\* The audit has seen everything: walking from the roots alone, each cut off
\* at the scan limit, it reports every call and jump of the generated code
\* once, in its bank, never runs out of room, and counts as missing exactly
\* the direct ones whose target nobody translated, save that the target of a
\* JMP with two more of its length behind it is not asked for.  A build that
\* passes --fail-on-dispatch-gaps thus has a function for every direct
\* transfer but these.
AuditExact ==
    Auditing /\ walk.root > Len(list) =>
        /\ ~audit.truncated
        /\ Len(audit.sites) = Cardinality(Dispatches)
        /\ {audit.sites[k].node : k \in DOMAIN audit.sites} = Dispatches
        /\ audit.missing = Cardinality(Missing)
        /\ ~HasGaps => Missing = {}

=============================================================================
