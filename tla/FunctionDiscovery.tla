-------------------------- MODULE FunctionDiscovery --------------------------
(***************************************************************************)
(* The work list that finds the code in a program ROM                      *)
(* (recompiler/src/function_discovery.c,                                   *)
(* ng_function_discover_from_game_config_limited).                         *)
(*                                                                         *)
(* A candidate is an address with its bank.  Scan roots are scanned from   *)
(* their address to the end of the function; every other candidate is only *)
(* a label inside a function already scanned, until something promotes it. *)
(* Each call of ng_function_discovery_add* is a step of its own: `todo'    *)
(* holds the calls an instruction makes, in order.                         *)
(***************************************************************************)
EXTENDS ProgramRom

CONSTANTS Roms,           \* the programs considered
          MaxCandidates,  \* capacity of the candidate list
          ScanLimit       \* NG_FUNCTION_DISCOVERY_MAX_INSTRUCTIONS

ASSUME LimitAssumption == MaxCandidates \in Nat \ {0} /\ ScanLimit \in Nat \ {0}

\* Seeds are addresses in a bank there is.
ASSUME RomAssumption ==
    \A r \in Roms : /\ WellFormed(r)
                    /\ r.seeds \in Seq([view : Banks, addr : Nat])
                    /\ r.scripts \in Seq(Nat)

VARIABLES rom,        \* the program
          list,       \* candidates: [addr, bank, entry, root]
          truncated,  \* a candidate was turned away for lack of room
          todo,       \* additions still to make
          scanned,    \* indices already scanned
          cursor,     \* next index to look at
          scan,       \* the scan in progress, or Idle
          script,     \* the script-stream pass: "due", "running" or "done"
          before,     \* length of the list when that pass began
          phase       \* "seed", "work", "done" or "failed"

discoveryVars == <<rom, list, truncated, todo, scanned, cursor, scan, script,
                   before, phase>>

Idle == [on |-> FALSE, view |-> NoBank, start |-> 0, pc |-> 0, n |-> 0]

Request(addr, view, entry, root) ==
    [addr |-> addr, view |-> view, entry |-> entry, root |-> root]

\* ng_function_discovery_add, _add_label and _add_scan_root.
AddEntry(view, addr) == Request(addr, view, TRUE, TRUE)
AddLabel(view, addr) == Request(addr, view, FALSE, FALSE)
AddScanRoot(view, addr) == Request(addr, view, FALSE, TRUE)

EntriesFor(view, addrs) == [k \in 1..Len(addrs) |-> AddEntry(view, addrs[k])]

Init ==
    /\ rom \in Roms
    /\ list = <<>> /\ truncated = FALSE
    /\ todo = [k \in DOMAIN rom.seeds |->
                  AddEntry(rom.seeds[k].view, rom.seeds[k].addr)]
    /\ scanned = {} /\ cursor = 1 /\ scan = Idle
    /\ script = "due" /\ before = 0
    /\ phase = "seed"

-----------------------------------------------------------------------------
(* ng_function_discovery_add_with_flags, one call.                         *)

Holds(c, addr, bank) == c.addr = addr /\ c.bank = bank

\* The candidate that an addition asks for is there already.
Known(r) == \E k \in DOMAIN list :
                Holds(list[k], r.addr, BankFor(r.view, r.addr))

Adding(r) ==
    /\ todo # <<>> /\ r = Head(todo)
    /\ todo' = Tail(todo)
    /\ UNCHANGED <<rom, scanned, cursor, scan, script, before, phase>>

\* Not an instruction: nothing is added.
Reject(r) ==
    /\ Adding(r)
    /\ ~Probable(rom, r.view, r.addr)
    /\ UNCHANGED <<list, truncated>>

\* Known: the flags can only be raised.
Promote(r) ==
    /\ Adding(r)
    /\ Probable(rom, r.view, r.addr) /\ Known(r)
    /\ list' = [k \in DOMAIN list |->
                   IF Holds(list[k], r.addr, BankFor(r.view, r.addr))
                   THEN [list[k] EXCEPT !.entry = @ \/ r.entry,
                                        !.root = @ \/ r.root]
                   ELSE list[k]]
    /\ UNCHANGED truncated

\* New, and there is no room.
Refuse(r) ==
    /\ Adding(r)
    /\ Probable(rom, r.view, r.addr) /\ ~Known(r)
    /\ Len(list) >= MaxCandidates
    /\ truncated' = TRUE
    /\ UNCHANGED list

Candidate(r) == [addr |-> r.addr, bank |-> BankFor(r.view, r.addr),
                 entry |-> r.entry, root |-> r.root]

\* New, and there is room.
Record(r) ==
    /\ Adding(r)
    /\ Probable(rom, r.view, r.addr) /\ ~Known(r)
    /\ Len(list) < MaxCandidates
    /\ list' = Append(list, Candidate(r))
    /\ UNCHANGED truncated

AddNext ==
    /\ todo # <<>>
    /\ LET r == Head(todo)
       IN  Reject(r) \/ Promote(r) \/ Refuse(r) \/ Record(r)

-----------------------------------------------------------------------------
(* scan_function_candidate, one instruction at a time.                     *)

Scanning == phase = "work" /\ todo = <<>> /\ scan.on

\* Calls and STOP are continued after: what they return to is an entry.
ContinuesAfter == {"call", "icall", "stop"}

\* A pointer that fixed code goes through is followed in every bank
\* (add_abs_pointer_indirect_targets, add_static_areg_indirect_target); one
\* that lies in the fixed region itself counts among the table's entries.
InEveryBank == scan.start \notin Window /\ Cardinality(Banks) > 1

BankEntries(pointers) ==
    LET banks == Len(BankOrder)
        InBank(p, view) == AddEntry(view, p[view])
    IN  IF InEveryBank
        THEN [k \in 1..(Len(pointers) * banks) |->
                 InBank(pointers[((k - 1) \div banks) + 1],
                        BankOrder[((k - 1) % banks) + 1])]
        ELSE [k \in 1..Len(pointers) |-> InBank(pointers[k], scan.view)]

\* What an instruction finds besides itself: the targets its tables yield,
\* the row of JMPs it heads, its static target, what its pointers lead to,
\* and its continuation.
FindRequests(i, tables, pointers) ==
    EntriesFor(scan.view, tables \o RepeatedEntries(rom, scan.view, scan.pc)
                                 \o StaticTargets(i))
        \o BankEntries(pointers)
        \o (IF i.op \in ContinuesAfter
            THEN <<AddEntry(scan.view, scan.pc + i.len)>> ELSE <<>>)

\* Mutation: instruction starts inside a function are not recorded.
ScanRequestsNoLabels(i, tables, pointers) == FindRequests(i, tables, pointers)

\* The additions one instruction makes, itself as a label first.
ScanRequests(i, tables, pointers) ==
    (IF scan.pc = scan.start THEN <<>> ELSE <<AddLabel(scan.view, scan.pc)>>)
        \o FindRequests(i, tables, pointers)

\* Whether a table or a pointer is recognised depends on the register values
\* the scan has tracked since its start.
ScanInstruction ==
    LET i == Code(rom, scan.view, scan.pc)
    IN  /\ Scanning
        /\ scan.n < ScanLimit /\ i.op # "bad"
        /\ \E tables \in {<<>>, i.table}, pointers \in {<<>>, i.pointers} :
              todo' = ScanRequests(i, tables, pointers)
        /\ scan' = IF i.op \in EndsScan
                   THEN Idle
                   ELSE [scan EXCEPT !.pc = @ + i.len, !.n = @ + 1]
        /\ UNCHANGED <<rom, list, truncated, scanned, cursor, script, before,
                       phase>>

ScanMeetsBadCode ==
    /\ Scanning
    /\ scan.n < ScanLimit /\ Code(rom, scan.view, scan.pc).op = "bad"
    /\ scan' = Idle
    /\ UNCHANGED <<rom, list, truncated, todo, scanned, cursor, script,
                   before, phase>>

\* A scan that reaches its limit simply ends.
ScanLimitForgets ==
    /\ Scanning
    /\ scan.n = ScanLimit
    /\ scan' = Idle
    /\ UNCHANGED <<rom, list, truncated, todo, scanned, cursor, script,
                   before, phase>>

\* The scan has used up its instructions: it goes on as a scan root.
ScanLimitReached ==
    /\ Scanning
    /\ scan.n = ScanLimit
    /\ todo' = <<AddScanRoot(scan.view, scan.pc)>>
    /\ scan' = Idle
    /\ UNCHANGED <<rom, list, truncated, scanned, cursor, script, before,
                   phase>>

-----------------------------------------------------------------------------
(* The work list itself.                                                   *)

SeedsDone ==
    /\ phase = "seed" /\ todo = <<>>
    /\ phase' = IF list = <<>> THEN "failed" ELSE "work"
    /\ UNCHANGED <<rom, list, truncated, todo, scanned, cursor, scan, script,
                   before>>

Choosing == phase = "work" /\ todo = <<>> /\ ~scan.on /\ script # "running"

Unscanned == {k \in DOMAIN list : list[k].root /\ k \notin scanned}

Ahead == {k \in Unscanned : k >= cursor}

\* Looked at only once the cursor has reached the end of the list.
Behind == {k \in Unscanned : k < cursor}

NoneLeft == Ahead = {} /\ Behind = {}

\* A scanned root is not marked.
StartScanUnmarked(k) ==
    /\ UNCHANGED scanned
    /\ scan' = [on |-> TRUE, view |-> ViewOf(rom, list[k].bank),
                start |-> list[k].addr, pc |-> list[k].addr, n |-> 0]
    /\ UNCHANGED <<rom, list, truncated, todo, script, before, phase>>

StartScan(k) ==
    /\ scanned' = scanned \cup {k}
    /\ scan' = [on |-> TRUE, view |-> ViewOf(rom, list[k].bank),
                start |-> list[k].addr, pc |-> list[k].addr, n |-> 0]
    /\ UNCHANGED <<rom, list, truncated, todo, script, before, phase>>

\* The next root at or after the cursor.
PickAhead ==
    /\ Choosing
    /\ \E k \in Ahead :
          /\ \A j \in Ahead : k <= j
          /\ cursor' = k + 1
          /\ StartScan(k)

\* No root ahead, but a label behind the cursor has become one.
PickBehind ==
    /\ Choosing
    /\ Ahead = {}
    /\ \E k \in Behind :
          /\ \A j \in Behind : k <= j
          /\ cursor' = Len(list) + 1
          /\ StartScan(k)

\* No root is left: the script-stream pass runs, once.
ScriptPass ==
    /\ Choosing /\ NoneLeft /\ script = "due"
    /\ script' = "running" /\ before' = Len(list)
    /\ \E found \in {<<>>, rom.scripts}, view \in Banks :
          todo' = EntriesFor(view, found)
    /\ cursor' = Len(list) + 1
    /\ UNCHANGED <<rom, list, truncated, scanned, scan, phase>>

\* It starts the search over when it has made the list longer; a label it
\* has only promoted does not count.
ScriptPassDone ==
    /\ phase = "work" /\ script = "running" /\ todo = <<>>
    /\ script' = "done"
    /\ IF Len(list) > before
       THEN cursor' = 1 /\ UNCHANGED phase
       ELSE phase' = "done" /\ UNCHANGED cursor
    /\ UNCHANGED <<rom, list, truncated, todo, scanned, scan, before>>

Finish ==
    /\ Choosing /\ NoneLeft /\ script = "done"
    /\ phase' = "done"
    /\ UNCHANGED <<rom, list, truncated, todo, scanned, cursor, scan, script,
                   before>>

DiscoveryNext ==
    \/ AddNext
    \/ ScanInstruction \/ ScanMeetsBadCode \/ ScanLimitReached
    \/ SeedsDone
    \/ PickAhead \/ PickBehind
    \/ ScriptPass \/ ScriptPassDone \/ Finish

Spec == Init /\ [][DiscoveryNext]_discoveryVars

FairSpec == Spec /\ WF_discoveryVars(DiscoveryNext)

-----------------------------------------------------------------------------
(* Properties.                                                             *)

(***************************************************************************)
(* The reference: nodes are addresses with their bank, and an instruction  *)
(* leads to the next one unless control never passes it, and to its static *)
(* target.                                                                 *)
(***************************************************************************)
Node(view, addr) == <<addr, BankFor(view, addr)>>

Found == {<<list[k].addr, list[k].bank>> : k \in DOMAIN list}

Entries == {<<list[k].addr, list[k].bank>> : k \in {j \in DOMAIN list :
                                                      list[j].entry}}

Lands(view, addrs) == {Node(view, a) : a \in {b \in addrs :
                                                Probable(rom, view, b)}}

Next(i, addr) == IF i.op \in {"bra", "jmp", "ijmp", "ret", "rte", "bad"}
                 THEN {} ELSE {addr + i.len}

JumpsTo(i) == IF i.op \in {"cond", "bra", "jmp", "call"} THEN {i.target} ELSE {}

RowAt(view, addr) ==
    LET entries == RepeatedEntries(rom, view, addr)
    IN  {entries[k] : k \in DOMAIN entries}

\* The bank that is selected when the code at node n runs.
RunsIn(n) == IF n[2] = NoBank THEN rom.active ELSE n[2]

\* The banks a pointer is followed in from node n: code in the fixed region
\* does not say which one is in.
FollowedIn(n) == IF n[1] \in Window THEN {RunsIn(n)} ELSE Banks

\* What node n leads to; with tables, through every table and pointer it may
\* use.
Leads(n, tables) ==
    LET view == RunsIn(n)
        i == Code(rom, view, n[1])
    IN  Lands(view, Next(i, n[1]) \cup JumpsTo(i) \cup RowAt(view, n[1]))
           \cup (IF tables
                 THEN Lands(view, TableOf(i))
                         \cup UNION {Lands(b, Pointed(i, b)) : b \in FollowedIn(n)}
                 ELSE {})

SeedNodes == UNION {Lands(rom.seeds[k].view, {rom.seeds[k].addr}) :
                       k \in DOMAIN rom.seeds}

ScriptNodes == UNION {Lands(view, {rom.scripts[k] : k \in DOMAIN rom.scripts}) :
                         view \in Banks}

Nodes == Addrs \X (Banks \cup {NoBank})

\* The least set of nodes that holds the given ones and what they lead to.
Closure(from) ==
    LET Grown[n \in 0..Cardinality(Nodes)] ==
            IF n = 0 THEN from
            ELSE LET g == Grown[n - 1] IN g \cup UNION {Leads(m, TRUE) : m \in g}
    IN  Grown[Cardinality(Nodes)]

\* When discovery ends without running out of room, its list is closed: it
\* holds every seed that is code and, for each candidate, the following
\* instruction, the static target and the rest of a row of JMPs, in the bank
\* they are reached in, and static targets, the JMPs of a row and the
\* addresses calls return to are entries, also when they were first met as
\* labels inside a function.  Every place the
\* generated code can be interrupted at, or hand over to by a static
\* transfer, is then a candidate (the work list of
\* ng_function_discover_from_game_config_limited; promotion in
\* add_with_flags).
Closed ==
    phase = "done" /\ ~truncated =>
        /\ SeedNodes \subseteq Found
        /\ \A n \in Found :
              LET view == RunsIn(n)
                  i == Code(rom, view, n[1])
                  after == IF i.op \in {"call", "icall", "stop"}
                           THEN Next(i, n[1]) ELSE {}
              IN  /\ Leads(n, FALSE) \subseteq Found
                  /\ Lands(view, JumpsTo(i) \cup after \cup RowAt(view, n[1]))
                        \subseteq Entries

\* Nothing else gets into the list, and nothing twice: each candidate can be
\* reached from a seed or a script callback along instructions, transfers,
\* tables and pointers, and in another bank than the one it is met in only
\* from the fixed region through a pointer, so data behind an RTS or a JMP is
\* never taken for code on its own, and no address is there twice for one
\* bank, for the emitter makes a C function of each entry, named after
\* address and bank (the duplicate test in add_with_flags).
NothingInvented ==
    /\ \A j, k \in DOMAIN list :
          Holds(list[j], list[k].addr, list[k].bank) => j = k
    /\ phase \in {"done", "failed"} =>
          Found \subseteq Closure(SeedNodes \cup ScriptNodes)

\* The search ends: every program is discovered, or found to have no code.
Terminates == <>(phase \in {"done", "failed"})

=============================================================================
