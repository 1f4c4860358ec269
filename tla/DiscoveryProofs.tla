--------------------------- MODULE DiscoveryProofs ---------------------------
(***************************************************************************)
(* Proofs about function discovery and the audit of its result: the list   *)
(* that discovery ends with is closed, holds nothing twice and nothing     *)
(* that cannot be reached, and the audit sees all of it.                   *)
(*                                                                         *)
(* The work list keeps what it still owes in four places: the additions    *)
(* not made yet, the scan in progress, the roots not scanned, and, during  *)
(* the script pass, the rows that pass has added.  WorkInv says that what  *)
(* a candidate leads to is in the list or in one of them.  LabelInv says   *)
(* that every candidate lies on the scan of a root, within the scan limit, *)
(* which is why the audit, walking from the roots alone, meets them all.   *)
(***************************************************************************)
EXTENDS DispatchAudit, TLAPS, FiniteSetTheorems, WellFoundedInduction

-----------------------------------------------------------------------------
(* Types.                                                                  *)

Row == [addr : Addrs, bank : Banks \cup {NoBank}, entry : BOOLEAN,
        root : BOOLEAN]

Ask == [addr : Nat, view : Banks, entry : BOOLEAN, root : BOOLEAN]

Scans == [on : BOOLEAN, view : Banks \cup {NoBank}, start : Nat, pc : Nat,
          n : 0..ScanLimit]

TypeInv ==
    /\ rom \in Roms
    /\ list \in Seq(Row) /\ Len(list) <= MaxCandidates
    /\ truncated \in BOOLEAN
    /\ todo \in Seq(Ask)
    /\ scanned \subseteq DOMAIN list /\ cursor \in Nat
    /\ scan \in Scans
    /\ script \in {"due", "running", "done"} /\ before \in Nat
    /\ phase \in {"seed", "work", "done", "failed"}

\* The node of a row.
At(k) == <<list[k].addr, list[k].bank>>

\* A row is read in the bank it is run in, and is code there; no two rows
\* have one node.
RowInv ==
    /\ \A k \in DOMAIN list :
          /\ Probable(rom, RunsIn(At(k)), list[k].addr)
          /\ At(k) = Node(RunsIn(At(k)), list[k].addr)
    /\ \A j, k \in DOMAIN list : At(j) = At(k) => j = k

\* A scan stays in the region and in the bank it began in, and only its
\* first instruction is the function's own.
ScanInv ==
    /\ phase = "seed" => script = "due"
    /\ script = "running" => phase = "work"
    /\ scan.on =>
          /\ phase = "work" /\ script # "running"
          /\ scan.view \in Banks
          /\ scan.pc \in Addrs =>
                /\ RunsIn(Node(scan.view, scan.pc)) = scan.view
                /\ scan.pc \in Window <=> scan.start \in Window
          /\ scan.n = 0 =>
                /\ scan.pc = scan.start
                /\ \E k \in DOMAIN list : At(k) = Node(scan.view, scan.pc)
          /\ scan.n # 0 => scan.pc > scan.start

-----------------------------------------------------------------------------
(* What the work list owes.                                                *)

Elems(s) == {s[k] : k \in DOMAIN s}

\* The additions not made yet that ask for code.
Owed == {r \in Elems(todo) : Probable(rom, r.view, r.addr)}

NodeOf(r) == Node(r.view, r.addr)

\* n is a candidate, or will become one; in the second case as an entry.
Due(n) == \/ n \in Found
          \/ \E r \in Owed : NodeOf(r) = n
          \/ scan.on /\ n = Node(scan.view, scan.pc)

DueEntry(n) == n \in Entries \/ \E r \in Owed : r.entry /\ NodeOf(r) = n

ReturnsTo(i, addr) == IF i.op \in ContinuesAfter THEN Next(i, addr) ELSE {}

Covered(n) ==
    LET view == RunsIn(n)
        i == Code(rom, view, n[1])
    IN  /\ \A m \in Lands(view, Next(i, n[1])) : Due(m)
        /\ \A m \in Lands(view, JumpsTo(i) \cup ReturnsTo(i, n[1]) \cup RowAt(view, n[1])) :
              DueEntry(m)

\* The scan has still to look at node n, which begins its function.
Beginning(n) == scan.on /\ scan.n = 0 /\ n = Node(scan.view, scan.pc)

WorkInv ==
    /\ \A n \in SeedNodes : DueEntry(n)
    /\ \A r \in Owed : r.root \/ Covered(NodeOf(r))
    /\ \A k \in DOMAIN list : \/ Covered(At(k)) \/ Beginning(At(k))
                              \/ list[k].root /\ k \notin scanned
    /\ script = "running" =>
          before <= Len(list) /\ \A k \in 1..before : Covered(At(k))
    /\ phase = "done" => /\ todo = <<>> /\ ~scan.on
                         /\ \A k \in DOMAIN list : Covered(At(k))

DiscoveryInv == TypeInv /\ RowInv /\ ScanInv /\ (truncated \/ WorkInv)

-----------------------------------------------------------------------------
(* Lemmas about nodes and views.                                           *)

\* Only what lies in a region can be code.
LEMMA CodeInRegion ==
  ASSUME NEW r, NEW v, NEW a, Probable(r, v, a)
  PROVE  a \in Addrs
  BY DEF Probable, Code, NoInstr, Instr, Addrs

\* Where no more than one bank can be selected, it is the active one.
LEMMA OnlyBank ==
  ASSUME NEW v \in Banks, NEW w \in Banks, ~(Cardinality(Banks) > 1)
  PROVE  v = w
<1> SUFFICES ASSUME v # w PROVE FALSE
  OBVIOUS
<1>1. IsFiniteSet(Banks)
  BY RegionAssumption
<1>2. IsFiniteSet({v}) /\ Cardinality({v}) = 1
  BY FS_Singleton
<1>3. Cardinality({v} \cup {w}) = 2
  BY <1>2, FS_AddElement
<1>4. Cardinality({v} \cup {w}) <= Cardinality(Banks)
  BY <1>1, FS_Subset
<1>5. Cardinality(Banks) \in Nat
  BY <1>1, FS_CardinalityType
<1> QED BY <1>3, <1>4, <1>5

\* A node keeps what its view says: the bank it is run in reads the same
\* instruction, and reaches the same node.
LEMMA NodeView ==
  ASSUME rom \in Roms, NEW v \in Banks, NEW a \in Addrs
  PROVE  /\ RunsIn(Node(v, a)) \in Banks
         /\ Code(rom, RunsIn(Node(v, a)), a) = Code(rom, v, a)
         /\ Node(RunsIn(Node(v, a)), a) = Node(v, a)
         /\ Node(v, a)[1] = a
<1>1. rom.active \in Banks
  BY RomAssumption DEF WellFormed
<1>2. v # NoBank /\ Fixed \cap Window = {}
  BY RegionAssumption
<1>3. CASE Cardinality(Banks) > 1 /\ a \in Window
  <2>1. BankFor(v, a) = v
    BY <1>3 DEF BankFor
  <2>2. RunsIn(Node(v, a)) = v
    BY <2>1, <1>2 DEF RunsIn, Node
  <2> QED BY <2>2 DEF Node
<1>4. CASE ~(Cardinality(Banks) > 1 /\ a \in Window)
  <2>1. \A w : BankFor(w, a) = NoBank
    BY <1>4 DEF BankFor
  <2>2. RunsIn(Node(v, a)) = rom.active
    BY <2>1 DEF RunsIn, Node
  <2>3. CASE a \in Window
    <3>1. v = rom.active
      BY <1>1, <2>3, <1>4, OnlyBank
    <3> QED BY <3>1, <2>2, <1>1 DEF Node
  <2>4. CASE a \in Fixed
    BY <2>1, <2>2, <2>4, <1>1 DEF Node, Code
  <2> QED BY <2>3, <2>4 DEF Addrs
<1> QED BY <1>3, <1>4

\* A bank that can stand in a row, or in the view it is read with.
LEMMA BankType ==
  ASSUME NEW v \in Banks, NEW a
  PROVE  BankFor(v, a) \in Banks \cup {NoBank}
  BY DEF BankFor

LEMMA ViewType ==
  ASSUME rom \in Roms, NEW b \in Banks \cup {NoBank}, NEW a
  PROVE  ViewOf(rom, b) \in Banks /\ RunsIn(<<a, b>>) = ViewOf(rom, b)
  BY RomAssumption DEF WellFormed, ViewOf, RunsIn

\* What an instruction holds.
LEMMA CodeType ==
  ASSUME rom \in Roms, NEW v \in Banks, NEW a, Probable(rom, v, a)
  PROVE  LET i == Code(rom, v, a)
         IN  /\ a \in Addrs /\ a \in Nat
             /\ i.op \in Ops /\ i.len \in Nat \ {0} /\ i.target \in Nat
             /\ i.table \in Seq(Nat) /\ i.pointers \in Seq([Banks -> Nat])
             /\ a \in Fixed => a + i.len \notin Window
             /\ a \in Window => a + i.len \notin Fixed
  BY CodeInRegion, RomAssumption, RegionAssumption DEF WellFormed, Addrs

-----------------------------------------------------------------------------
(* Types are kept.                                                         *)

LEMMA EntriesType ==
  ASSUME NEW v \in Banks, NEW s \in Seq(Nat)
  PROVE  EntriesFor(v, s) \in Seq(Ask)
  BY DEF EntriesFor, AddEntry, Request, Ask

\* A row of JMPs is a sequence of addresses.
LEMMA RepeatedType ==
  ASSUME rom \in Roms, NEW v \in Banks, NEW a, Probable(rom, v, a)
  PROVE  RepeatedEntries(rom, v, a) \in Seq(Nat)
<1> DEFINE len == Code(rom, v, a).len
           run == {k \in 1..RowLimit :
                     \A j \in 1..k : DirectDispatch(rom, v, a + (j - 1) * len, len)}
           N == Cardinality(run)
<1>1. a \in Nat /\ len \in Nat
  BY CodeType
<1>2. N \in Nat
  <2>1. IsFiniteSet(1..RowLimit) /\ run \subseteq 1..RowLimit
    BY RegionAssumption, FS_Interval
  <2> HIDE DEF run
  <2> QED BY <2>1, FS_Subset, FS_CardinalityType
<1>3. RepeatedEntries(rom, v, a) = IF RepeatedDirect(rom, v, a)
                                   THEN [k \in 1..N |-> a + (k - 1) * len] ELSE <<>>
  BY DEF RepeatedEntries
<1> HIDE DEF len, N
<1>4. ASSUME NEW k \in 1..N PROVE a + (k - 1) * len \in Nat
  <2>1. k - 1 \in Nat
    BY <1>2
  <2>2. (k - 1) * len \in Nat
    BY <1>1, <2>1
  <2> QED BY <1>1, <2>2
<1>5. [k \in 1..N |-> a + (k - 1) * len] \in Seq(Nat)
  BY <1>2, <1>4
<1> QED BY <1>3, <1>5

\* The quotient that numbers the pointers stays among them.
LEMMA Quotient ==
  ASSUME NEW m \in Nat, NEW n \in Nat \ {0}, NEW k \in 1..(m * n)
  PROVE  /\ ((k - 1) \div n) + 1 \in 1..m
         /\ ((k - 1) % n) + 1 \in 1..n
<1> DEFINE q == (k - 1) \div n
           r == (k - 1) % n
<1>1. m * n \in Nat
  OBVIOUS
<1>2. k - 1 \in Nat /\ k - 1 < m * n
  BY <1>1
<1>3. q \in Nat /\ r \in 0..(n - 1) /\ k - 1 = n * q + r
  BY <1>2
<1> HIDE DEF q, r
<1>4. q < m
  <2> SUFFICES ASSUME q >= m PROVE FALSE
    BY <1>3
  <2>1. PICK d \in Nat : q = m + d
    <3>1. q - m \in Nat /\ q = m + (q - m)
      BY <1>3
    <3> QED BY <3>1
  <2>2. n * q = m * n + n * d /\ n * d \in Nat
    BY <2>1
  <2> QED BY <1>1, <1>2, <1>3, <2>2
<1> QED BY <1>3, <1>4 DEF q, r

\* The banks that a scan follows pointers in.
ScannedBanks == IF InEveryBank THEN Banks ELSE {scan.view}

LEMMA BankEntriesType ==
  ASSUME scan.view \in Banks, NEW ps \in Seq([Banks -> Nat])
  PROVE  /\ BankEntries(ps) \in Seq(Ask)
         /\ \A k \in DOMAIN BankEntries(ps) : \E j \in DOMAIN ps, b \in ScannedBanks :
               BankEntries(ps)[k] = AddEntry(b, ps[j][b])
<1> DEFINE n == Len(BankOrder)
           N == Len(ps) * n
<1>1. /\ BankOrder \in Seq(Banks) /\ n \in Nat /\ DOMAIN BankOrder = 1..n
      /\ Len(ps) \in Nat /\ DOMAIN ps = 1..Len(ps)
  BY RegionAssumption
<1>2. n # 0
  BY <1>1, RegionAssumption
<1>3. N \in Nat
  BY <1>1
<1>4. ASSUME NEW j \in DOMAIN ps, NEW b \in Banks
      PROVE  AddEntry(b, ps[j][b]) \in Ask
  <2>1. ps[j] \in [Banks -> Nat]
    BY <1>1
  <2>2. ps[j][b] \in Nat
    BY <2>1
  <2> QED BY <2>2 DEF AddEntry, Request, Ask
<1>5. CASE InEveryBank
  <2> DEFINE q(k) == ((k - 1) \div n) + 1
             r(k) == ((k - 1) % n) + 1
  <2>1. BankEntries(ps) = [k \in 1..N |-> AddEntry(BankOrder[r(k)], ps[q(k)][BankOrder[r(k)]])]
    BY <1>5 DEF BankEntries
  <2>2. ASSUME NEW k \in 1..N PROVE q(k) \in DOMAIN ps /\ BankOrder[r(k)] \in Banks
    <3>1. q(k) \in 1..Len(ps) /\ r(k) \in 1..n
      <4> HIDE DEF n
      <4> QED BY <1>1, <1>2, <2>2, Quotient
    <3> HIDE DEF q, r
    <3> QED BY <1>1, <3>1
  <2>3. ScannedBanks = Banks
    BY <1>5 DEF ScannedBanks
  <2> HIDE DEF q, r, n, N
  <2>4. ASSUME NEW k \in 1..N
        PROVE  AddEntry(BankOrder[r(k)], ps[q(k)][BankOrder[r(k)]]) \in Ask
    BY <1>4, <2>2
  <2>5. BankEntries(ps) \in Seq(Ask) /\ DOMAIN BankEntries(ps) = 1..N
    BY <1>3, <2>1, <2>4
  <2>6. \A k \in 1..N : \E j \in DOMAIN ps, b \in ScannedBanks :
               BankEntries(ps)[k] = AddEntry(b, ps[j][b])
    BY <2>1, <2>2, <2>3
  <2> QED BY <2>5, <2>6
<1>6. CASE ~InEveryBank
  <2>1. BankEntries(ps) = [k \in 1..Len(ps) |-> AddEntry(scan.view, ps[k][scan.view])]
    BY <1>6 DEF BankEntries
  <2>2. ScannedBanks = {scan.view}
    BY <1>6 DEF ScannedBanks
  <2>3. ASSUME NEW k \in 1..Len(ps) PROVE AddEntry(scan.view, ps[k][scan.view]) \in Ask
    BY <1>1, <1>4
  <2>4. BankEntries(ps) \in Seq(Ask) /\ DOMAIN BankEntries(ps) = 1..Len(ps)
    BY <1>1, <2>1, <2>3
  <2>5. \A k \in 1..Len(ps) : \E j \in DOMAIN ps, b \in ScannedBanks :
               BankEntries(ps)[k] = AddEntry(b, ps[j][b])
    BY <1>1, <2>1, <2>2
  <2> QED BY <2>4, <2>5
<1> QED BY <1>5, <1>6

\* The addresses an instruction finds in the bank it is scanned in.
LEMMA NamedType ==
  ASSUME TypeInv, scan.view \in Banks, Probable(rom, scan.view, scan.pc),
         NEW i, i = Code(rom, scan.view, scan.pc), NEW tables \in {<<>>, i.table}
  PROVE  /\ tables \in Seq(Nat) /\ StaticTargets(i) \in Seq(Nat)
         /\ RepeatedEntries(rom, scan.view, scan.pc) \in Seq(Nat)
         /\ scan.pc \in Nat /\ i.len \in Nat /\ i.target \in Nat
         /\ i.pointers \in Seq([Banks -> Nat])
<1>1. /\ scan.pc \in Nat /\ i.len \in Nat /\ i.target \in Nat
      /\ i.table \in Seq(Nat) /\ i.pointers \in Seq([Banks -> Nat]) /\ rom \in Roms
  BY CodeType DEF TypeInv, Scans
<1>2. tables \in Seq(Nat)
  <2>1. CASE tables = <<>>
    BY <2>1
  <2>2. CASE tables = i.table
    BY <2>2, <1>1
  <2> QED BY <2>1, <2>2
<1>3. StaticTargets(i) \in Seq(Nat)
  BY <1>1 DEF StaticTargets
<1>4. RepeatedEntries(rom, scan.view, scan.pc) \in Seq(Nat)
  BY <1>1, RepeatedType
<1> QED BY <1>1, <1>2, <1>3, <1>4

LEMMA PointersType ==
  ASSUME NEW q, q \in Seq([Banks -> Nat]), NEW pointers \in {<<>>, q}
  PROVE  pointers \in Seq([Banks -> Nat]) /\ DOMAIN pointers \subseteq DOMAIN q
         /\ \A j \in DOMAIN pointers : pointers[j] = q[j]
<1>1. CASE pointers = <<>>
  BY <1>1
<1>2. CASE pointers = q
  BY <1>2
<1> QED BY <1>1, <1>2

LEMMA RequestsType ==
  ASSUME TypeInv, scan.view \in Banks,
         Probable(rom, scan.view, scan.pc),
         NEW tables \in {<<>>, Code(rom, scan.view, scan.pc).table},
         NEW pointers \in {<<>>, Code(rom, scan.view, scan.pc).pointers}
  PROVE  ScanRequests(Code(rom, scan.view, scan.pc), tables, pointers) \in Seq(Ask)
<1> DEFINE i == Code(rom, scan.view, scan.pc)
           named == tables \o RepeatedEntries(rom, scan.view, scan.pc) \o StaticTargets(i)
<1>1. /\ tables \in Seq(Nat) /\ StaticTargets(i) \in Seq(Nat)
      /\ RepeatedEntries(rom, scan.view, scan.pc) \in Seq(Nat)
      /\ scan.pc \in Nat /\ i.len \in Nat
      /\ i.pointers \in Seq([Banks -> Nat])
  BY NamedType
<1>2. pointers \in Seq([Banks -> Nat])
  BY <1>1, PointersType
<1> HIDE DEF i
<1>3. named \in Seq(Nat)
  BY <1>1
<1> HIDE DEF named
<1>4. EntriesFor(scan.view, named) \in Seq(Ask) /\ BankEntries(pointers) \in Seq(Ask)
  BY <1>2, <1>3, EntriesType, BankEntriesType
<1>5. AddLabel(scan.view, scan.pc) \in Ask /\ AddEntry(scan.view, scan.pc + i.len) \in Ask
  BY <1>1 DEF AddLabel, AddEntry, Request, Ask
<1>6. /\ (IF scan.pc = scan.start THEN <<>> ELSE <<AddLabel(scan.view, scan.pc)>>) \in Seq(Ask)
      /\ (IF i.op \in ContinuesAfter
          THEN <<AddEntry(scan.view, scan.pc + i.len)>> ELSE <<>>) \in Seq(Ask)
  BY <1>5
<1>7. FindRequests(i, tables, pointers) \in Seq(Ask)
  BY <1>4, <1>6 DEF FindRequests, named
<1>8. ScanRequests(i, tables, pointers) \in Seq(Ask)
  BY <1>6, <1>7 DEF ScanRequests
<1> QED BY <1>8 DEF i

LEMMA CandidateType ==
  ASSUME TypeInv, NEW r \in Ask, Probable(rom, r.view, r.addr)
  PROVE  Candidate(r) \in Row
<1>1. r.addr \in Addrs
  BY CodeInRegion
<1>2. BankFor(r.view, r.addr) \in Banks \cup {NoBank}
  BY BankType DEF Ask
<1> QED BY <1>1, <1>2 DEF Candidate, Row, Ask

\* Making an addition changes rows at most in their flags, or adds one.
LEMMA PromotedRows ==
  ASSUME TypeInv, NEW r \in Ask, Promote(r)
  PROVE  /\ list' \in Seq(Row) /\ Len(list') = Len(list)
         /\ DOMAIN list' = DOMAIN list
         /\ \A k \in DOMAIN list :
               /\ list'[k].addr = list[k].addr /\ list'[k].bank = list[k].bank
               /\ list[k].entry => list'[k].entry
               /\ list[k].root => list'[k].root
               /\ At(k) = Node(r.view, r.addr) =>
                     /\ r.entry => list'[k].entry
                     /\ r.root => list'[k].root
<1>1. list \in Seq(Row) /\ DOMAIN list = 1..Len(list) /\ Len(list) \in Nat
  BY DEF TypeInv
<1>2. DOMAIN list' = DOMAIN list
  BY DEF Promote
<1>3. ASSUME NEW k \in DOMAIN list
      PROVE  /\ list'[k] \in Row
             /\ list'[k].addr = list[k].addr /\ list'[k].bank = list[k].bank
             /\ list[k].entry => list'[k].entry
             /\ list[k].root => list'[k].root
             /\ At(k) = Node(r.view, r.addr) =>
                   /\ r.entry => list'[k].entry
                   /\ r.root => list'[k].root
  <2>1. list[k] \in Row
    BY <1>1
  <2>2. CASE Holds(list[k], r.addr, BankFor(r.view, r.addr))
    <3> DEFINE new == [list[k] EXCEPT !.entry = @ \/ r.entry, !.root = @ \/ r.root]
    <3>1. list'[k] = new
      BY <2>2 DEF Promote
    <3>2. /\ new.addr = list[k].addr /\ new.bank = list[k].bank
          /\ new.entry = (list[k].entry \/ r.entry)
          /\ new.root = (list[k].root \/ r.root)
          /\ new \in Row
      BY <2>1 DEF Row, Ask
    <3> QED BY <3>1, <3>2
  <2>3. CASE ~Holds(list[k], r.addr, BankFor(r.view, r.addr))
    <3>1. list'[k] = list[k]
      BY <2>3 DEF Promote
    <3>2. At(k) # Node(r.view, r.addr)
      BY <2>3 DEF Holds, At, Node
    <3> QED BY <3>1, <3>2, <2>1
  <2> QED BY <2>2, <2>3
<1>4. list' = [k \in 1..Len(list) |-> list'[k]]
  BY <1>1 DEF Promote
<1>5. list' \in Seq(Row) /\ Len(list') = Len(list)
  BY <1>1, <1>3, <1>4
<1> QED BY <1>2, <1>3, <1>5

LEMMA TypeAdd ==
  ASSUME TypeInv, AddNext
  PROVE  TypeInv'
<1> DEFINE r == Head(todo)
<1>1. todo # <<>> /\ r \in Ask /\ todo \in Seq(Ask)
  BY DEF AddNext, TypeInv
<1>2. Reject(r) \/ Promote(r) \/ Refuse(r) \/ Record(r)
  BY DEF AddNext
<1> HIDE DEF r
<1>3. /\ todo' = Tail(todo) /\ todo' \in Seq(Ask)
      /\ UNCHANGED <<rom, scanned, cursor, scan, script, before, phase>>
  <2>1. Adding(r)
    BY <1>2 DEF Reject, Promote, Refuse, Record
  <2>2. Tail(todo) \in Seq(Ask)
    BY <1>1
  <2> QED BY <2>1, <2>2 DEF Adding
<1>4. list' \in Seq(Row) /\ Len(list') <= MaxCandidates /\ DOMAIN list \subseteq DOMAIN list'
  <2>0. list \in Seq(Row) /\ Len(list) <= MaxCandidates /\ MaxCandidates \in Nat
    BY LimitAssumption DEF TypeInv
  <2>1. CASE Reject(r) \/ Refuse(r)
    BY <2>0, <2>1 DEF Reject, Refuse
  <2>2. CASE Promote(r)
    BY <2>0, <2>2, <1>1, PromotedRows
  <2>3. CASE Record(r)
    <3>1. Candidate(r) \in Row
      BY <2>3, <1>1, CandidateType DEF Record
    <3>2. list' = Append(list, Candidate(r)) /\ Len(list) < MaxCandidates
      BY <2>3 DEF Record
    <3> QED BY <3>1, <3>2, <2>0
  <2> QED BY <1>2, <2>1, <2>2, <2>3
<1>5. truncated' \in BOOLEAN
  BY <1>2 DEF TypeInv, Reject, Promote, Refuse, Record
<1> QED BY <1>3, <1>4, <1>5 DEF TypeInv

LEMMA TypeStep ==
  ASSUME TypeInv, ScanInv, [DiscoveryNext]_discoveryVars
  PROVE  TypeInv'
<1>1. CASE AddNext
  BY <1>1, TypeAdd
<1>2. CASE ScanInstruction
  <2> DEFINE i == Code(rom, scan.view, scan.pc)
  <2>1. scan.on /\ scan.view \in Banks /\ Probable(rom, scan.view, scan.pc)
    BY <1>2 DEF ScanInstruction, Scanning, ScanInv, Probable
  <2>2. todo' \in Seq(Ask)
    BY <1>2, <2>1, RequestsType DEF ScanInstruction
  <2>3. scan' \in Scans
    <3>1. i.len \in Nat /\ scan \in Scans
      BY <2>1, CodeType DEF TypeInv
    <3>2. scan' = Idle \/ scan' = [scan EXCEPT !.pc = @ + i.len, !.n = @ + 1]
      BY <1>2 DEF ScanInstruction
    <3>3. scan.n < ScanLimit
      BY <1>2 DEF ScanInstruction
    <3> HIDE DEF i
    <3>4. Idle \in Scans
      BY LimitAssumption DEF Idle, Scans
    <3>5. scan.pc + i.len \in Nat /\ scan.n + 1 \in 0..ScanLimit
      BY <3>1, <3>3, LimitAssumption DEF Scans
    <3>6. [scan EXCEPT !.pc = @ + i.len, !.n = @ + 1] \in Scans
      BY <3>1, <3>5 DEF Scans
    <3> QED BY <3>2, <3>4, <3>6
  <2> QED BY <1>2, <2>2, <2>3 DEF ScanInstruction, TypeInv
<1>3. CASE ScanMeetsBadCode
  BY <1>3, LimitAssumption DEF ScanMeetsBadCode, TypeInv, Scans, Idle
<1>4. CASE ScanLimitReached
  <2>1. AddScanRoot(scan.view, scan.pc) \in Ask
    BY <1>4 DEF ScanLimitReached, Scanning, ScanInv, TypeInv, Scans, Ask,
                AddScanRoot, Request
  <2>2. Idle \in Scans
    BY LimitAssumption DEF Idle, Scans
  <2> QED BY <1>4, <2>1, <2>2 DEF ScanLimitReached, TypeInv
<1>5. CASE SeedsDone
  BY <1>5 DEF SeedsDone, TypeInv
<1>6. CASE PickAhead \/ PickBehind
  <2>1. PICK k \in DOMAIN list : StartScan(k) /\ cursor' \in {k + 1, Len(list) + 1}
    BY <1>6 DEF PickAhead, PickBehind, Ahead, Behind, Unscanned
  <2>2. list[k] \in Row /\ cursor' \in Nat
    BY <2>1 DEF TypeInv
  <2>3. ViewOf(rom, list[k].bank) \in Banks
    BY <2>2, ViewType DEF Row, TypeInv
  <2>4. list[k].addr \in Nat
    BY <2>2, RegionAssumption DEF Row, Addrs
  <2>5. scan' \in Scans
    BY <2>1, <2>3, <2>4, LimitAssumption DEF StartScan, Scans
  <2> QED BY <2>1, <2>2, <2>5 DEF StartScan, TypeInv
<1>7. CASE ScriptPass
  <2>1. rom.scripts \in Seq(Nat)
    BY RomAssumption DEF TypeInv
  <2>2. PICK found \in {<<>>, rom.scripts}, v \in Banks : todo' = EntriesFor(v, found)
    BY <1>7 DEF ScriptPass
  <2>3. found \in Seq(Nat)
    <3>1. CASE found = <<>>
      BY <3>1
    <3>2. CASE found = rom.scripts
      BY <3>2, <2>1
    <3> QED BY <3>1, <3>2
  <2>4. todo' \in Seq(Ask)
    BY <2>2, <2>3, EntriesType
  <2> QED BY <1>7, <2>4 DEF ScriptPass, TypeInv
<1>8. CASE ScriptPassDone
  BY <1>8 DEF ScriptPassDone, TypeInv
<1>9. CASE Finish
  BY <1>9 DEF Finish, TypeInv
<1>10. CASE UNCHANGED discoveryVars
  BY <1>10 DEF discoveryVars, TypeInv
<1> QED BY <1>1, <1>2, <1>3, <1>4, <1>5, <1>6, <1>7, <1>8, <1>9, <1>10
        DEF DiscoveryNext

-----------------------------------------------------------------------------
(* Rows and scans.                                                         *)

\* A step of discovery changes the list only by making an addition.
LEMMA ListKept ==
  ASSUME [DiscoveryNext]_discoveryVars, ~AddNext
  PROVE  UNCHANGED <<rom, list, truncated>>
  BY DEF DiscoveryNext, discoveryVars, ScanInstruction, ScanMeetsBadCode,
         ScanLimitReached, SeedsDone, PickAhead, PickBehind, StartScan,
         ScriptPass, ScriptPassDone, Finish

\* What an addition does to the list.
LEMMA Addition ==
  ASSUME TypeInv, AddNext
  PROVE  LET r == Head(todo)
         IN  /\ r \in Ask /\ todo # <<>> /\ todo' = Tail(todo)
             /\ UNCHANGED <<rom, scanned, cursor, scan, script, before, phase>>
             /\ Reject(r) \/ Promote(r) \/ Refuse(r) \/ Record(r)
<1> DEFINE r == Head(todo)
<1>1. todo # <<>> /\ (Reject(r) \/ Promote(r) \/ Refuse(r) \/ Record(r))
  BY DEF AddNext
<1>2. r \in Ask
  BY <1>1 DEF TypeInv
<1> HIDE DEF r
<1>3. Adding(r)
  BY <1>1 DEF Reject, Promote, Refuse, Record
<1>4. /\ todo' = Tail(todo)
      /\ UNCHANGED <<rom, scanned, cursor, scan, script, before, phase>>
  BY <1>3 DEF Adding
<1> QED BY <1>1, <1>2, <1>4 DEF r

LEMMA RowStep ==
  ASSUME TypeInv, RowInv, [DiscoveryNext]_discoveryVars
  PROVE  RowInv'
<1>1. CASE ~AddNext
  BY <1>1, ListKept DEF RowInv, At, RunsIn, Node
<1>2. CASE AddNext
  <2> DEFINE r == Head(todo)
  <2>1. /\ r \in Ask /\ rom' = rom
        /\ Reject(r) \/ Promote(r) \/ Refuse(r) \/ Record(r)
    BY <1>2, Addition
  <2> HIDE DEF r
  <2>2. CASE Reject(r) \/ Refuse(r)
    BY <2>1, <2>2 DEF Reject, Refuse, RowInv, At, RunsIn, Node
  <2>3. CASE Promote(r)
    <3>1. DOMAIN list' = DOMAIN list /\ \A k \in DOMAIN list : At(k)' = At(k)
      BY <2>1, <2>3, PromotedRows DEF At
    <3>2. \A k \in DOMAIN list : list'[k].addr = list[k].addr
      BY <2>1, <2>3, PromotedRows
    <3> QED BY <2>1, <3>1, <3>2 DEF RowInv, RunsIn, Node
  <2>4. CASE Record(r)
    <3>0. PICK new \in Nat : new = Len(list) + 1
      BY DEF TypeInv
    <3>1. /\ list' = Append(list, Candidate(r)) /\ list \in Seq(Row)
          /\ Probable(rom, r.view, r.addr) /\ ~Known(r)
      BY <2>4 DEF Record, TypeInv
    <3>2. Candidate(r) \in Row
      BY <2>1, <3>1, CandidateType
    <3>3. /\ DOMAIN list' = DOMAIN list \cup {new} /\ new \notin DOMAIN list
          /\ list'[new] = Candidate(r)
          /\ \A k \in DOMAIN list : list'[k] = list[k]
      BY <3>0, <3>1, <3>2
    <3>4. At(new)' = Node(r.view, r.addr) /\ list'[new].addr = r.addr
      BY <3>3 DEF At, Candidate, Node
    <3>5. r.addr \in Addrs /\ r.view \in Banks
      BY <2>1, <3>1, CodeInRegion DEF Ask
    <3>6. /\ Probable(rom, RunsIn(At(new)'), r.addr)
          /\ At(new)' = Node(RunsIn(At(new)'), r.addr)
      BY <3>1, <3>4, <3>5, NodeView DEF Probable, TypeInv
    <3>7. \A k \in DOMAIN list : At(k)' = At(k) /\ At(k) # At(new)'
      BY <3>1, <3>3, <3>4 DEF At, Known, Holds, Node
    <3>8. \A k \in DOMAIN list' :
             /\ Probable(rom, RunsIn(At(k)'), list'[k].addr)
             /\ At(k)' = Node(RunsIn(At(k)'), list'[k].addr)
      BY <3>3, <3>4, <3>6, <3>7 DEF RowInv
    <3>9. \A j, k \in DOMAIN list' : At(j)' = At(k)' => j = k
      BY <3>3, <3>7 DEF RowInv
    <3> QED BY <2>1, <3>8, <3>9 DEF RowInv, RunsIn, Node
  <2> QED BY <2>1, <2>2, <2>3, <2>4
<1> QED BY <1>1, <1>2

\* A run of instructions stays in the bank it runs in.
LEMMA RunGoesOn ==
  ASSUME rom \in Roms, NEW v \in Banks, NEW a, Probable(rom, v, a),
         RunsIn(Node(v, a)) = v,
         NEW b, b = a + Code(rom, v, a).len, b \in Addrs
  PROVE  RunsIn(Node(v, b)) = v
<1>1. /\ a \in Addrs
      /\ a \in Fixed => b \notin Window
      /\ a \in Window => b \notin Fixed
  BY CodeType
<1>2. a \in Window <=> b \in Window
  BY <1>1, RegionAssumption DEF Addrs
<1>3. BankFor(v, a) = BankFor(v, b)
  BY <1>2 DEF BankFor
<1> QED BY <1>3 DEF RunsIn, Node

LEMMA ScanStep ==
  ASSUME TypeInv, RowInv, ScanInv, [DiscoveryNext]_discoveryVars
  PROVE  ScanInv'
<1>1. CASE AddNext
  <2>1. UNCHANGED <<rom, scan, script, phase>>
    BY <1>1, Addition
  <2>2. ASSUME NEW k \in DOMAIN list
        PROVE  k \in DOMAIN list' /\ At(k)' = At(k)
    <3> DEFINE r == Head(todo)
    <3>1. r \in Ask /\ (Reject(r) \/ Promote(r) \/ Refuse(r) \/ Record(r))
      BY <1>1, Addition
    <3> HIDE DEF r
    <3>2. CASE Reject(r) \/ Refuse(r)
      BY <3>2 DEF Reject, Refuse, At
    <3>3. CASE Promote(r)
      BY <3>1, <3>3, PromotedRows DEF At
    <3>4. CASE Record(r)
      BY <3>4 DEF Record, TypeInv, At
    <3> QED BY <3>1, <3>2, <3>3, <3>4
  <2> QED BY <2>1, <2>2 DEF ScanInv, RunsIn, Node
<1>2. CASE ScanInstruction
  <2> DEFINE i == Code(rom, scan.view, scan.pc)
  <2>1. scan.on /\ scan.view \in Banks /\ Probable(rom, scan.view, scan.pc)
    BY <1>2 DEF ScanInstruction, Scanning, ScanInv, Probable
  <2>2. i.len \in Nat \ {0} /\ scan \in Scans
    BY <2>1, CodeType DEF TypeInv
  <2>3. UNCHANGED <<rom, list, script, phase>>
    BY <1>2 DEF ScanInstruction
  <2>4. CASE scan' = Idle
    BY <2>3, <2>4 DEF ScanInv, Idle
  <2>5. CASE scan' = [scan EXCEPT !.pc = @ + i.len, !.n = @ + 1]
    <3>1. /\ scan'.on = scan.on /\ scan'.view = scan.view /\ scan'.start = scan.start
          /\ scan'.pc = scan.pc + i.len /\ scan'.n = scan.n + 1
      BY <2>2, <2>5 DEF Scans
    <3>4. scan'.pc \in Addrs => (scan'.pc \in Window <=> scan'.start \in Window)
      <4>1. /\ scan.pc \in Addrs /\ (scan.pc \in Window <=> scan.start \in Window)
            /\ scan.pc \in Fixed => scan.pc + i.len \notin Window
            /\ scan.pc \in Window => scan.pc + i.len \notin Fixed
        BY <2>1, CodeType DEF ScanInv, TypeInv
      <4> HIDE DEF i
      <4> QED BY <3>1, <4>1, RegionAssumption DEF Addrs
    <3>2. scan'.pc \in Addrs => RunsIn(Node(scan'.view, scan'.pc)) = scan'.view
      <4>1. RunsIn(Node(scan.view, scan.pc)) = scan.view /\ rom \in Roms
        BY <2>1, CodeInRegion DEF ScanInv, TypeInv
      <4> QED BY <2>1, <3>1, <4>1, RunGoesOn
    <3>3. scan'.n # 0 /\ scan'.pc > scan'.start
      <4>1. scan.n \in Nat /\ scan.pc \in Nat /\ scan.start \in Nat /\ scan.pc >= scan.start
        BY <2>1, <2>2, LimitAssumption DEF Scans, ScanInv
      <4> HIDE DEF i
      <4> QED BY <4>1, <2>2, <3>1
    <3> QED BY <2>1, <2>3, <3>1, <3>2, <3>3, <3>4 DEF ScanInv, RunsIn, Node
  <2> QED BY <1>2, <2>4, <2>5 DEF ScanInstruction
<1>3. CASE ScanMeetsBadCode \/ ScanLimitReached
  BY <1>3 DEF ScanMeetsBadCode, ScanLimitReached, ScanInv, Idle
<1>4. CASE SeedsDone
  BY <1>4 DEF SeedsDone, ScanInv
<1>5. CASE PickAhead \/ PickBehind
  <2>1. PICK k \in DOMAIN list : StartScan(k)
    BY <1>5 DEF PickAhead, PickBehind, Ahead, Behind, Unscanned
  <2>2. phase = "work" /\ script # "running"
    BY <1>5 DEF PickAhead, PickBehind, Choosing
  <2>3. list[k] \in Row
    BY DEF TypeInv
  <2>4. ViewOf(rom, list[k].bank) \in Banks /\ RunsIn(At(k)) = ViewOf(rom, list[k].bank)
    BY <2>3, ViewType DEF Row, TypeInv, At
  <2>5. Node(ViewOf(rom, list[k].bank), list[k].addr) = At(k)
    BY <2>4 DEF RowInv
  <2>6. /\ scan'.on /\ scan'.view = ViewOf(rom, list[k].bank)
        /\ scan'.pc = list[k].addr /\ scan'.start = list[k].addr /\ scan'.n = 0
        /\ UNCHANGED <<rom, list, script, phase>>
    BY <2>1 DEF StartScan
  <2> QED BY <2>2, <2>4, <2>5, <2>6 DEF ScanInv, RunsIn, Node, At
<1>6. CASE ScriptPass
  BY <1>6 DEF ScriptPass, Choosing, ScanInv
<1>7. CASE ScriptPassDone
  BY <1>7 DEF ScriptPassDone, ScanInv
<1>8. CASE Finish
  BY <1>8 DEF Finish, Choosing, ScanInv
<1>9. CASE UNCHANGED discoveryVars
  BY <1>9 DEF discoveryVars, ScanInv, RunsIn, Node, At
<1> QED BY <1>1, <1>2, <1>3, <1>4, <1>5, <1>6, <1>7, <1>8, <1>9 DEF DiscoveryNext

-----------------------------------------------------------------------------
(* Requests as sets.                                                       *)

LEMMA ElemsConcat ==
  ASSUME NEW C, NEW s \in Seq(C), NEW t \in Seq(C)
  PROVE  Elems(s \o t) = Elems(s) \cup Elems(t)
<1> DEFINE u == s \o t
<1>1. /\ u \in Seq(C) /\ Len(u) = Len(s) + Len(t)
      /\ \A k \in 1..Len(s) : u[k] = s[k]
      /\ \A k \in 1..Len(t) : u[k + Len(s)] = t[k]
  OBVIOUS
<1>2. DOMAIN s = 1..Len(s) /\ DOMAIN t = 1..Len(t) /\ DOMAIN u = 1..Len(u)
      /\ Len(s) \in Nat /\ Len(t) \in Nat
  BY <1>1
<1> HIDE DEF u
<1>3. ASSUME NEW k \in DOMAIN u PROVE u[k] \in Elems(s) \cup Elems(t)
  <2>1. CASE k <= Len(s)
    BY <2>1, <1>1, <1>2 DEF Elems
  <2>2. CASE k > Len(s)
    <3>1. k - Len(s) \in DOMAIN t /\ u[k] = t[k - Len(s)]
      <4>1. k - Len(s) \in 1..Len(t) /\ (k - Len(s)) + Len(s) = k
        BY <2>2, <1>1, <1>2
      <4> QED BY <4>1, <1>1, <1>2
    <3> QED BY <3>1 DEF Elems
  <2> QED BY <2>1, <2>2, <1>2
<1>4. ASSUME NEW k \in DOMAIN s PROVE s[k] \in Elems(u)
  BY <1>1, <1>2 DEF Elems
<1>5. ASSUME NEW k \in DOMAIN t PROVE t[k] \in Elems(u)
  <2>1. k + Len(s) \in DOMAIN u /\ u[k + Len(s)] = t[k]
    BY <1>1, <1>2
  <2> QED BY <2>1 DEF Elems
<1>6. Elems(u) = Elems(s) \cup Elems(t)
  BY <1>3, <1>4, <1>5 DEF Elems
<1> QED BY <1>6 DEF u

LEMMA ElemsTail ==
  ASSUME NEW C, NEW s \in Seq(C), s # <<>>
  PROVE  Elems(s) = {Head(s)} \cup Elems(Tail(s))
<1>1. /\ Tail(s) \in Seq(C) /\ Len(Tail(s)) = Len(s) - 1 /\ Len(s) \in Nat \ {0}
      /\ Head(s) = s[1] /\ \A k \in 1..(Len(s) - 1) : Tail(s)[k] = s[k + 1]
  OBVIOUS
<1>2. DOMAIN s = 1..Len(s) /\ DOMAIN Tail(s) = 1..(Len(s) - 1)
  BY <1>1
<1>3. ASSUME NEW k \in DOMAIN s PROVE s[k] \in {Head(s)} \cup Elems(Tail(s))
  <2>1. CASE k = 1
    BY <2>1, <1>1
  <2>2. CASE k # 1
    <3>1. k - 1 \in DOMAIN Tail(s) /\ (k - 1) + 1 = k
      BY <2>2, <1>1, <1>2
    <3>2. Tail(s)[k - 1] = s[k]
      BY <3>1, <1>1, <1>2
    <3> QED BY <3>1, <3>2 DEF Elems
  <2> QED BY <2>1, <2>2
<1>4. ASSUME NEW k \in DOMAIN Tail(s) PROVE Tail(s)[k] \in Elems(s)
  BY <1>1, <1>2 DEF Elems
<1>5. Head(s) \in Elems(s)
  BY <1>1, <1>2 DEF Elems
<1> QED BY <1>3, <1>4, <1>5 DEF Elems

LEMMA ElemsEntries ==
  ASSUME NEW v, NEW s \in Seq(Nat)
  PROVE  Elems(EntriesFor(v, s)) = {AddEntry(v, a) : a \in Elems(s)}
  BY DEF Elems, EntriesFor

LEMMA ElemsNone ==
  Elems(<<>>) = {}
  BY DEF Elems

LEMMA ElemsOne ==
  ASSUME NEW x
  PROVE  Elems(<<x>>) = {x}
  BY DEF Elems

LEMMA ElemsNamed ==
  ASSUME NEW v, NEW s \in Seq(Nat), NEW t \in Seq(Nat), NEW u \in Seq(Nat)
  PROVE  \A r : r \in Elems(EntriesFor(v, s \o t \o u)) <=>
               \E a \in Elems(s) \cup Elems(t) \cup Elems(u) : r = AddEntry(v, a)
<1>1. s \o t \in Seq(Nat) /\ Elems(s \o t) = Elems(s) \cup Elems(t)
  BY ElemsConcat
<1>2. PICK st \in Seq(Nat) : st = s \o t
  BY <1>1
<1>3. st \o u \in Seq(Nat) /\ Elems(st \o u) = Elems(st) \cup Elems(u)
  BY ElemsConcat
<1>4. Elems(EntriesFor(v, st \o u)) = {AddEntry(v, a) : a \in Elems(st \o u)}
  BY <1>3, ElemsEntries
<1> QED BY <1>1, <1>2, <1>3, <1>4

\* What an instruction asks for.
LEMMA RequestsElems ==
  ASSUME TypeInv, scan.view \in Banks,
         Probable(rom, scan.view, scan.pc), NEW i, i = Code(rom, scan.view, scan.pc),
         NEW tables \in {<<>>, i.table}, NEW pointers \in {<<>>, i.pointers}
  PROVE  Elems(ScanRequests(i, tables, pointers)) =
            (IF scan.pc = scan.start THEN {} ELSE {AddLabel(scan.view, scan.pc)})
              \cup {AddEntry(scan.view, a) :
                       a \in Elems(tables) \cup RowAt(scan.view, scan.pc) \cup JumpsTo(i)}
              \cup Elems(BankEntries(pointers))
              \cup (IF i.op \in ContinuesAfter
                    THEN {AddEntry(scan.view, scan.pc + i.len)} ELSE {})
<1> DEFINE row == RepeatedEntries(rom, scan.view, scan.pc)
<1>1. /\ tables \in Seq(Nat) /\ StaticTargets(i) \in Seq(Nat) /\ row \in Seq(Nat)
      /\ scan.pc \in Nat /\ i.len \in Nat /\ i.pointers \in Seq([Banks -> Nat])
  BY NamedType
<1>2. pointers \in Seq([Banks -> Nat])
  BY <1>1, PointersType
<1>3. Elems(StaticTargets(i)) = JumpsTo(i)
  <2>1. CASE i.op \in {"cond", "bra", "jmp", "call"}
    BY <2>1, <1>1, ElemsOne DEF StaticTargets, JumpsTo
  <2>2. CASE i.op \notin {"cond", "bra", "jmp", "call"}
    <3>1. StaticTargets(i) = <<>> /\ JumpsTo(i) = {}
      BY <2>2 DEF StaticTargets, JumpsTo
    <3> QED BY <3>1, ElemsNone
  <2> QED BY <2>1, <2>2
<1>10. Elems(row) = RowAt(scan.view, scan.pc)
  BY DEF Elems, RowAt
<1> DEFINE p == IF scan.pc = scan.start THEN <<>> ELSE <<AddLabel(scan.view, scan.pc)>>
           q == EntriesFor(scan.view, tables \o row \o StaticTargets(i))
           t == BankEntries(pointers)
           u == IF i.op \in ContinuesAfter
                THEN <<AddEntry(scan.view, scan.pc + i.len)>> ELSE <<>>
<1>4. AddLabel(scan.view, scan.pc) \in Ask /\ AddEntry(scan.view, scan.pc + i.len) \in Ask
  BY <1>1 DEF AddLabel, AddEntry, Request, Ask
<1>5. /\ p \in Seq(Ask)
      /\ Elems(p) = IF scan.pc = scan.start THEN {} ELSE {AddLabel(scan.view, scan.pc)}
  <2>1. CASE scan.pc = scan.start
    <3>1. p = <<>>
      BY <2>1
    <3> HIDE DEF p
    <3> QED BY <2>1, <3>1, ElemsNone
  <2>2. CASE scan.pc # scan.start
    BY <2>2, <1>4, ElemsOne
  <2> QED BY <2>1, <2>2
<1>6. /\ u \in Seq(Ask)
      /\ Elems(u) = IF i.op \in ContinuesAfter
                    THEN {AddEntry(scan.view, scan.pc + i.len)} ELSE {}
  <2>1. CASE i.op \notin ContinuesAfter
    <3>1. u = <<>>
      BY <2>1
    <3> HIDE DEF u
    <3> QED BY <2>1, <3>1, ElemsNone
  <2>2. CASE i.op \in ContinuesAfter
    BY <2>2, <1>4, ElemsOne
  <2> QED BY <2>1, <2>2
<1>7. /\ q \in Seq(Ask)
      /\ Elems(q) = {AddEntry(scan.view, a) :
                       a \in Elems(tables) \cup RowAt(scan.view, scan.pc) \cup JumpsTo(i)}
      /\ t \in Seq(Ask)
  <2> HIDE DEF row
  <2>1. tables \o row \o StaticTargets(i) \in Seq(Nat)
    BY <1>1
  <2>2. q \in Seq(Ask) /\ t \in Seq(Ask)
    BY <1>2, <2>1, EntriesType, BankEntriesType
  <2>3. Elems(q) = {AddEntry(scan.view, a) :
                       a \in Elems(tables) \cup Elems(row) \cup Elems(StaticTargets(i))}
    <3> DEFINE targets == StaticTargets(i)
    <3>1. targets \in Seq(Nat) /\ tables \in Seq(Nat) /\ row \in Seq(Nat)
      BY <1>1
    <3> HIDE DEF targets
    <3>2. \A r : r \in Elems(EntriesFor(scan.view, tables \o row \o targets)) <=>
                 \E a \in Elems(tables) \cup Elems(row) \cup Elems(targets) :
                    r = AddEntry(scan.view, a)
      BY <3>1, ElemsNamed, Zenon
    <3>3. \A r : r \in Elems(q) <=>
                 \E a \in Elems(tables) \cup Elems(row) \cup Elems(StaticTargets(i)) :
                    r = AddEntry(scan.view, a)
      BY <3>2, Zenon DEF targets
    <3> HIDE DEF q
    <3> QED BY <3>3
  <2>4. Elems(tables) \cup Elems(row) \cup Elems(StaticTargets(i))
          = Elems(tables) \cup RowAt(scan.view, scan.pc) \cup JumpsTo(i)
    BY <1>3, <1>10
  <2> HIDE DEF q, t
  <2> QED BY <2>2, <2>3, <2>4
<1>8. ScanRequests(i, tables, pointers) = p \o (q \o t \o u)
  BY DEF ScanRequests, FindRequests
<1> HIDE DEF p, q, t, u, row
<1>9. Elems(p \o (q \o t \o u)) = Elems(p) \cup Elems(q) \cup Elems(t) \cup Elems(u)
  <2> DEFINE qt == q \o t
             qtu == qt \o u
  <2>1. Elems(qt) = Elems(q) \cup Elems(t) /\ qt \in Seq(Ask)
    BY <1>7, ElemsConcat
  <2> HIDE DEF qt
  <2>2. Elems(qtu) = Elems(qt) \cup Elems(u) /\ qtu \in Seq(Ask)
    BY <2>1, <1>6, ElemsConcat
  <2> HIDE DEF qtu
  <2>3. Elems(p \o qtu) = Elems(p) \cup Elems(qtu)
    BY <2>2, <1>5, ElemsConcat
  <2> QED BY <2>1, <2>2, <2>3 DEF qt, qtu
<1> QED BY <1>5, <1>6, <1>7, <1>8, <1>9 DEF t

-----------------------------------------------------------------------------
(* What is owed stays owed until it is in the list.                        *)

LEMMA FoundAt ==
  /\ Found = {At(k) : k \in DOMAIN list}
  /\ Entries = {At(k) : k \in {j \in DOMAIN list : list[j].entry}}
  BY DEF Found, Entries, At

LEMMA FoundAtNext ==
  /\ Found' = {At(k)' : k \in DOMAIN list'}
  /\ Entries' = {At(k)' : k \in {j \in DOMAIN list' : list'[j].entry}}
  BY DEF Found, Entries, At

LEMMA CoveredKept ==
  ASSUME rom' = rom, \A m : Due(m) => Due(m)',
         \A m : DueEntry(m) => DueEntry(m)', NEW n, Covered(n)
  PROVE  Covered(n)'
<1> DEFINE view == RunsIn(n)
           i == Code(rom, view, n[1])
<1>1. RunsIn(n)' = view
  BY DEF RunsIn
<1>2. \A v, S : Lands(v, S)' = Lands(v, S)
  BY DEF Lands
<1>3. /\ \A m \in Lands(view, Next(i, n[1])) : Due(m)'
      /\ \A m \in Lands(view, JumpsTo(i) \cup ReturnsTo(i, n[1]) \cup RowAt(view, n[1])) :
            DueEntry(m)'
  BY DEF Covered
<1>4. \A v, a : RowAt(v, a)' = RowAt(v, a)
  BY DEF RowAt
<1> QED BY <1>1, <1>2, <1>3, <1>4 DEF Covered, Lands

\* The list only grows, and its rows keep their nodes and their flags.
LEMMA ListGrows ==
  ASSUME TypeInv, AddNext, NEW k \in DOMAIN list
  PROVE  /\ k \in DOMAIN list' /\ At(k)' = At(k)
         /\ list[k].entry => list'[k].entry
         /\ list[k].root => list'[k].root
<1> DEFINE r == Head(todo)
<1>1. r \in Ask /\ (Reject(r) \/ Promote(r) \/ Refuse(r) \/ Record(r))
  BY Addition
<1> HIDE DEF r
<1>2. CASE Reject(r) \/ Refuse(r)
  BY <1>2 DEF Reject, Refuse, At
<1>3. CASE Promote(r)
  BY <1>1, <1>3, PromotedRows DEF At
<1>4. CASE Record(r)
  BY <1>4 DEF Record, TypeInv, At
<1> QED BY <1>1, <1>2, <1>3, <1>4

\* An addition that asks for code, and finds room, leaves it in the list.
LEMMA AddedRow ==
  ASSUME TypeInv, AddNext, ~truncated', NEW r, r = Head(todo),
         Probable(rom, r.view, r.addr)
  PROVE  \E k \in DOMAIN list' : At(k)' = NodeOf(r) /\ (r.entry => list'[k].entry)
<1>1. r \in Ask /\ (Promote(r) \/ Record(r))
  BY Addition DEF Reject, Refuse
<1>2. CASE Promote(r)
  <2>1. PICK k \in DOMAIN list : At(k) = NodeOf(r)
    BY <1>2 DEF Promote, Known, Holds, At, NodeOf, Node
  <2>2. k \in DOMAIN list' /\ At(k)' = At(k) /\ (r.entry => list'[k].entry)
    BY <1>1, <1>2, <2>1, PromotedRows DEF NodeOf, At
  <2> QED BY <2>1, <2>2
<1>3. CASE Record(r)
  <2>1. PICK k \in Nat : k = Len(list) + 1
    BY DEF TypeInv
  <2>2. k \in DOMAIN list' /\ list'[k] = Candidate(r)
    BY <1>3, <2>1 DEF Record, TypeInv
  <2>3. At(k)' = NodeOf(r) /\ (r.entry => list'[k].entry)
    BY <2>2 DEF At, Candidate, NodeOf, Node
  <2> QED BY <2>2, <2>3
<1> QED BY <1>1, <1>2, <1>3

\* A row an addition makes is the one it asks for.
LEMMA NewRow ==
  ASSUME TypeInv, AddNext, NEW k \in DOMAIN list', k \notin DOMAIN list,
         NEW r, r = Head(todo)
  PROVE  /\ Probable(rom, r.view, r.addr) /\ At(k)' = NodeOf(r)
         /\ r.root => list'[k].root
         /\ k = Len(list) + 1
<1>1. r \in Ask /\ (Reject(r) \/ Promote(r) \/ Refuse(r) \/ Record(r))
  BY Addition
<1>2. ~Reject(r) /\ ~Refuse(r)
  BY DEF Reject, Refuse
<1>3. ~Promote(r)
  BY <1>1, PromotedRows
<1>4. /\ Record(r) /\ list \in Seq(Row) /\ list' = Append(list, Candidate(r))
  BY <1>1, <1>2, <1>3 DEF Record, TypeInv
<1>5. k = Len(list) + 1 /\ list'[k] = Candidate(r)
  BY <1>4
<1> QED BY <1>4, <1>5 DEF Record, At, Candidate, NodeOf, Node

LEMMA OwedTail ==
  ASSUME TypeInv, AddNext
  PROVE  \A r : r \in Owed <=> \/ r \in Owed'
                               \/ r = Head(todo) /\ Probable(rom, r.view, r.addr)
<1>1. todo \in Seq(Ask) /\ todo # <<>> /\ todo' = Tail(todo) /\ rom' = rom
  BY Addition DEF TypeInv
<1>2. Elems(todo) = {Head(todo)} \cup Elems(todo')
  BY <1>1, ElemsTail
<1> QED BY <1>1, <1>2 DEF Owed

LEMMA AddDue ==
  ASSUME TypeInv, AddNext, ~truncated'
  PROVE  /\ \A n : Due(n) => Due(n)'
         /\ \A n : DueEntry(n) => DueEntry(n)'
<1>1. rom' = rom /\ scan' = scan
  BY Addition
<1>2. ASSUME NEW n \in Found PROVE n \in Found'
  BY <1>2, FoundAt, FoundAtNext, ListGrows
<1>3. ASSUME NEW n \in Entries PROVE n \in Entries'
  BY <1>3, FoundAt, FoundAtNext, ListGrows
<1>4. ASSUME NEW r \in Owed PROVE \/ r \in Owed'
                                  \/ /\ NodeOf(r) \in Found'
                                     /\ r.entry => NodeOf(r) \in Entries'
  <2>1. CASE r \in Owed'
    BY <2>1
  <2>2. CASE r = Head(todo) /\ Probable(rom, r.view, r.addr)
    <3>1. PICK k \in DOMAIN list' : At(k)' = NodeOf(r) /\ (r.entry => list'[k].entry)
      BY <2>2, AddedRow
    <3> QED BY <3>1, FoundAtNext
  <2> QED BY <2>1, <2>2, OwedTail
<1>5. ASSUME NEW n, Due(n) PROVE Due(n)'
  BY <1>1, <1>2, <1>4, <1>5 DEF Due, NodeOf, Node
<1>6. ASSUME NEW n, DueEntry(n) PROVE DueEntry(n)'
  BY <1>1, <1>3, <1>4, <1>6 DEF DueEntry, NodeOf, Node
<1> QED BY <1>5, <1>6

LEMMA SeedsKept ==
  ASSUME rom' = rom
  PROVE  SeedNodes' = SeedNodes
  BY DEF SeedNodes, Lands

LEMMA WorkAdd ==
  ASSUME TypeInv, WorkInv, AddNext, ~truncated'
  PROVE  WorkInv'
<1>1. /\ UNCHANGED <<rom, scanned, scan, script, before, phase>> /\ todo # <<>>
  BY Addition
<1>2. /\ \A m : Due(m) => Due(m)'
      /\ \A m : DueEntry(m) => DueEntry(m)'
  BY AddDue
<1>3. ASSUME NEW m, Covered(m) PROVE Covered(m)'
  BY <1>1, <1>2, <1>3, CoveredKept
<1>4. ASSUME NEW m, Beginning(m) PROVE Beginning(m)'
  BY <1>1, <1>4 DEF Beginning, Node
<1>5. \A n \in SeedNodes' : DueEntry(n)'
  BY <1>1, <1>2, SeedsKept DEF WorkInv
<1>6. ASSUME NEW r \in Owed' PROVE r.root \/ Covered(NodeOf(r))'
  <2>1. r \in Owed
    BY <1>6, OwedTail
  <2>2. PICK m : m = NodeOf(r)
    OBVIOUS
  <2>3. r.root \/ Covered(m)'
    BY <2>1, <2>2, <1>3 DEF WorkInv
  <2> QED BY <2>2, <2>3 DEF Covered, NodeOf
<1>7. ASSUME NEW k \in DOMAIN list'
      PROVE  Covered(At(k))' \/ Beginning(At(k))' \/ (list'[k].root /\ k \notin scanned')
  <2>1. PICK m : m = At(k)'
    OBVIOUS
  <2>2. Covered(m)' \/ Beginning(m)' \/ (list'[k].root /\ k \notin scanned)
    <3>1. CASE k \in DOMAIN list
      BY <3>1, <2>1, <1>3, <1>4, ListGrows DEF WorkInv
    <3>2. CASE k \notin DOMAIN list
      <4>1. PICK r : r = Head(todo)
        OBVIOUS
      <4>2. /\ Probable(rom, r.view, r.addr) /\ m = NodeOf(r)
            /\ r.root => list'[k].root
        BY <3>2, <4>1, <2>1, NewRow
      <4>3. r \in Owed /\ k \notin scanned
        BY <3>2, <4>1, <4>2, OwedTail DEF TypeInv
      <4> QED BY <4>2, <4>3, <1>3 DEF WorkInv
    <3> QED BY <3>1, <3>2
  <2> QED BY <1>1, <2>1, <2>2 DEF Covered, Beginning
<1>8. ASSUME script' = "running"
      PROVE  before' <= Len(list') /\ \A k \in 1..before' : Covered(At(k))'
  <2>1. /\ before <= Len(list) /\ \A k \in 1..before : Covered(At(k))
        /\ before \in Nat /\ list \in Seq(Row)
    BY <1>1, <1>8 DEF WorkInv, TypeInv
  <2>2. list' \in Seq(Row) /\ \A k \in DOMAIN list : k \in DOMAIN list' /\ At(k)' = At(k)
    BY TypeAdd, ListGrows DEF TypeInv
  <2>3. Len(list) <= Len(list')
    <3>1. CASE Len(list) = 0
      BY <3>1, <2>1, <2>2
    <3>2. CASE Len(list) # 0
      <4>1. Len(list) \in DOMAIN list
        BY <3>2, <2>1
      <4> QED BY <4>1, <2>2, <2>1
    <3> QED BY <3>1, <3>2
  <2>4. ASSUME NEW k \in 1..before PROVE Covered(At(k))'
    <3>1. PICK m : m = At(k)
      OBVIOUS
    <3>2. k \in DOMAIN list /\ Covered(m)
      BY <2>1, <3>1
    <3>3. Covered(m)' /\ At(k)' = m
      BY <3>1, <3>2, <2>2, <1>3
    <3> QED BY <3>3 DEF Covered
  <2> QED BY <1>1, <2>1, <2>2, <2>3, <2>4
<1>9. phase' # "done"
  BY <1>1 DEF WorkInv
<1> QED BY <1>5, <1>6, <1>7, <1>8, <1>9 DEF WorkInv

\* The scan of instruction i may ask for r.
Askable(i, r) ==
    \/ \E a \in TableOf(i) \cup JumpsTo(i) \cup Next(i, scan.pc)
                 \cup RowAt(scan.view, scan.pc) : r = AddEntry(scan.view, a)
    \/ \E b \in ScannedBanks : \E a \in Pointed(i, b) : r = AddEntry(b, a)
    \/ r = AddLabel(scan.view, scan.pc)

\* Scanning an instruction, the additions made before having been made.
LEMMA ScannedInstr ==
  ASSUME TypeInv, ScanInv, ScanInstruction
  PROVE  LET i == Code(rom, scan.view, scan.pc)
         IN  /\ scan.on /\ scan.view \in Banks /\ Probable(rom, scan.view, scan.pc)
             /\ scan.pc \in Addrs /\ scan.pc \in Nat /\ i.len \in Nat
             /\ RunsIn(Node(scan.view, scan.pc)) = scan.view
             /\ ScannedBanks \subseteq FollowedIn(Node(scan.view, scan.pc))
             /\ todo = <<>> /\ UNCHANGED <<rom, list, truncated, scanned, script, before, phase>>
             /\ (scan.pc # scan.start => AddLabel(scan.view, scan.pc) \in Elems(todo'))
             /\ \A a \in JumpsTo(i) \cup ReturnsTo(i, scan.pc) \cup RowAt(scan.view, scan.pc) :
                   AddEntry(scan.view, a) \in Elems(todo')
             /\ \A r \in Elems(todo') : Askable(i, r)
             /\ \A a \in Next(i, scan.pc) :
                   scan'.on /\ scan'.view = scan.view /\ scan'.pc = a
             /\ scan'.on => scan'.pc \in Next(i, scan.pc) /\ scan'.view = scan.view /\ scan'.n # 0
<1> DEFINE i == Code(rom, scan.view, scan.pc)
<1>1. scan.on /\ scan.view \in Banks /\ i.op # "bad" /\ Probable(rom, scan.view, scan.pc)
  BY DEF ScanInstruction, Scanning, ScanInv, Probable
<1>2. /\ scan.pc \in Addrs /\ scan.pc \in Nat /\ i.len \in Nat /\ i.op \in Ops
      /\ i.pointers \in Seq([Banks -> Nat])
  BY <1>1, CodeType DEF TypeInv
<1>3. RunsIn(Node(scan.view, scan.pc)) = scan.view
  BY <1>1, <1>2 DEF ScanInv
<1>15. ScannedBanks \subseteq FollowedIn(Node(scan.view, scan.pc))
  <2>1. scan.pc \in Window <=> scan.start \in Window
    BY <1>1, <1>2 DEF ScanInv
  <2>2. Node(scan.view, scan.pc)[1] = scan.pc
    BY DEF Node
  <2> QED BY <1>1, <1>3, <2>1, <2>2 DEF ScannedBanks, InEveryBank, FollowedIn
<1>4. todo = <<>> /\ UNCHANGED <<rom, list, truncated, scanned, script, before, phase>>
  BY DEF ScanInstruction, Scanning
<1>5. PICK tables \in {<<>>, i.table}, pointers \in {<<>>, i.pointers} :
         todo' = ScanRequests(i, tables, pointers)
  BY DEF ScanInstruction
<1>6. Elems(todo') =
            (IF scan.pc = scan.start THEN {} ELSE {AddLabel(scan.view, scan.pc)})
              \cup {AddEntry(scan.view, a) :
                       a \in Elems(tables) \cup RowAt(scan.view, scan.pc) \cup JumpsTo(i)}
              \cup Elems(BankEntries(pointers))
              \cup (IF i.op \in ContinuesAfter
                    THEN {AddEntry(scan.view, scan.pc + i.len)} ELSE {})
  BY <1>1, <1>5, RequestsElems
<1>7. Elems(tables) \subseteq TableOf(i)
  BY <1>5, ElemsNone DEF Elems, TableOf
<1>16. \A r \in Elems(BankEntries(pointers)) :
          \E b \in ScannedBanks : \E a \in Pointed(i, b) : r = AddEntry(b, a)
  <2>1. /\ pointers \in Seq([Banks -> Nat]) /\ DOMAIN pointers \subseteq DOMAIN i.pointers
        /\ \A j \in DOMAIN pointers : pointers[j] = i.pointers[j]
    <3> HIDE DEF i
    <3> QED BY <1>2, <1>5, PointersType
  <2>2. ASSUME NEW k \in DOMAIN BankEntries(pointers)
        PROVE  \E b \in ScannedBanks : \E a \in Pointed(i, b) :
                  BankEntries(pointers)[k] = AddEntry(b, a)
    <3>1. PICK j \in DOMAIN pointers, b \in ScannedBanks :
               BankEntries(pointers)[k] = AddEntry(b, pointers[j][b])
      BY <1>1, <2>1, BankEntriesType
    <3> HIDE DEF i
    <3>2. pointers[j][b] \in Pointed(i, b)
      BY <2>1 DEF Pointed
    <3> QED BY <3>1, <3>2
  <2> HIDE DEF i
  <2> QED BY <2>2 DEF Elems
<1>8. scan' = IF i.op \in EndsScan THEN Idle
              ELSE [scan EXCEPT !.pc = @ + i.len, !.n = @ + 1]
  BY DEF ScanInstruction
<1>9. scan \in Scans
  BY DEF TypeInv
<1> HIDE DEF i
<1>10. Next(i, scan.pc) = IF i.op \in EndsScan THEN {} ELSE {scan.pc + i.len}
  BY <1>1 DEF Next, EndsScan
<1>11. ReturnsTo(i, scan.pc) = IF i.op \in ContinuesAfter THEN {scan.pc + i.len} ELSE {}
  BY <1>10 DEF ReturnsTo, ContinuesAfter, EndsScan
<1>12. i.op \in ContinuesAfter => i.op \notin EndsScan
  BY DEF ContinuesAfter, EndsScan
<1>13. CASE i.op \in EndsScan
  <2>1. ~scan'.on
    BY <1>13, <1>8 DEF Idle
  <2>2. Next(i, scan.pc) = {} /\ ReturnsTo(i, scan.pc) = {}
    BY <1>13, <1>10, <1>11, <1>12
  <2>3. \A a \in JumpsTo(i) \cup ReturnsTo(i, scan.pc) \cup RowAt(scan.view, scan.pc) :
                   AddEntry(scan.view, a) \in Elems(todo')
    BY <1>6, <2>2
  <2>4. \A r \in Elems(todo') : Askable(i, r)
    <3> SUFFICES ASSUME NEW r \in Elems(todo') PROVE Askable(i, r)
      OBVIOUS
    <3>1. \/ r = AddLabel(scan.view, scan.pc)
          \/ \E a \in Elems(tables) \cup RowAt(scan.view, scan.pc) \cup JumpsTo(i) :
                r = AddEntry(scan.view, a)
          \/ r \in Elems(BankEntries(pointers))
      BY <1>6, <1>12, <1>13
    <3> QED BY <1>7, <1>16, <3>1 DEF Askable
  <2> QED BY <1>1, <1>2, <1>3, <1>4, <1>6, <1>15, <2>1, <2>2, <2>3, <2>4 DEF i
<1>14. CASE i.op \notin EndsScan
  <2>1. scan'.on /\ scan'.view = scan.view /\ scan'.pc = scan.pc + i.len /\ scan'.n = scan.n + 1
    BY <1>1, <1>8, <1>9, <1>14 DEF Scans
  <2>2. scan'.n # 0
    BY <1>9, <2>1, LimitAssumption DEF Scans
  <2>3. Next(i, scan.pc) = {scan.pc + i.len}
    BY <1>10, <1>14
  <2>4. \A a \in JumpsTo(i) \cup ReturnsTo(i, scan.pc) \cup RowAt(scan.view, scan.pc) :
                   AddEntry(scan.view, a) \in Elems(todo')
    BY <1>6, <1>11
  <2>5. \A r \in Elems(todo') : Askable(i, r)
    <3> SUFFICES ASSUME NEW r \in Elems(todo') PROVE Askable(i, r)
      OBVIOUS
    <3>1. \/ r = AddLabel(scan.view, scan.pc)
          \/ \E a \in Elems(tables) \cup RowAt(scan.view, scan.pc) \cup JumpsTo(i)
                      \cup {scan.pc + i.len} : r = AddEntry(scan.view, a)
          \/ r \in Elems(BankEntries(pointers))
      BY <1>6
    <3> QED BY <1>7, <1>16, <2>3, <3>1 DEF Askable
  <2> QED BY <1>1, <1>2, <1>3, <1>4, <1>6, <1>15, <2>1, <2>2, <2>3, <2>4, <2>5 DEF i
<1> QED BY <1>13, <1>14

\* What the instruction leads to is owed after it.
LEMMA ScanCovers ==
  ASSUME TypeInv, ScanInv, ScanInstruction, NEW n, n = Node(scan.view, scan.pc)
  PROVE  Covered(n)'
<1> DEFINE i == Code(rom, scan.view, scan.pc)
<1>1. /\ RunsIn(n) = scan.view /\ n[1] = scan.pc /\ rom' = rom /\ scan.view \in Banks
      /\ \A a \in Next(i, scan.pc) : scan'.on /\ scan'.view = scan.view /\ scan'.pc = a
      /\ \A a \in JumpsTo(i) \cup ReturnsTo(i, scan.pc) \cup RowAt(scan.view, scan.pc) :
                   AddEntry(scan.view, a) \in Elems(todo')
  BY ScannedInstr DEF Node
<1> HIDE DEF i
<1>2. RunsIn(n)' = scan.view
  BY <1>1 DEF RunsIn
<1>3. ASSUME NEW m \in Lands(scan.view, Next(i, scan.pc)) PROVE Due(m)'
  BY <1>1, <1>3 DEF Lands, Due, Node
<1>4. ASSUME NEW m \in Lands(scan.view, JumpsTo(i) \cup ReturnsTo(i, scan.pc)
                                              \cup RowAt(scan.view, scan.pc))
      PROVE  DueEntry(m)'
  <2>1. PICK a \in JumpsTo(i) \cup ReturnsTo(i, scan.pc) \cup RowAt(scan.view, scan.pc) :
              m = Node(scan.view, a) /\ Probable(rom, scan.view, a)
    BY <1>4 DEF Lands
  <2>2. PICK r : r = AddEntry(scan.view, a)
    OBVIOUS
  <2>3. r.view = scan.view /\ r.addr = a /\ r.entry
    BY <2>2 DEF AddEntry, Request
  <2>4. r \in Owed'
    BY <1>1, <2>1, <2>2, <2>3 DEF Owed
  <2> QED BY <2>1, <2>3, <2>4 DEF DueEntry, NodeOf, Node
<1>5. \A v, a : RowAt(v, a)' = RowAt(v, a)
  BY <1>1 DEF RowAt
<1> QED BY <1>1, <1>2, <1>3, <1>4, <1>5 DEF Covered, Lands, i

LEMMA WorkScan ==
  ASSUME TypeInv, ScanInv, WorkInv, ScanInstruction
  PROVE  WorkInv'
<1> DEFINE i == Code(rom, scan.view, scan.pc)
<1>1. /\ scan.on /\ Probable(rom, scan.view, scan.pc)
      /\ todo = <<>> /\ UNCHANGED <<rom, list, scanned, script, before, phase>>
      /\ scan.pc # scan.start => AddLabel(scan.view, scan.pc) \in Elems(todo')
      /\ \A r \in Elems(todo') : r.root \/ r = AddLabel(scan.view, scan.pc)
  BY ScannedInstr DEF Askable, AddEntry, Request
<1>2. Owed = {}
  BY <1>1, ElemsNone DEF Owed
<1>3. Found' = Found /\ Entries' = Entries
  BY <1>1 DEF Found, Entries
<1>4. PICK n : n = Node(scan.view, scan.pc)
  OBVIOUS
<1>5. Due(n)'
  <2>1. CASE scan.pc = scan.start
    <3>1. scan.n = 0
      BY <1>1, <2>1 DEF ScanInv, TypeInv, Scans
    <3>2. n \in Found
      BY <1>1, <1>4, <3>1, FoundAt DEF ScanInv
    <3> QED BY <3>2, <1>3 DEF Due
  <2>2. CASE scan.pc # scan.start
    <3>1. PICK r : r = AddLabel(scan.view, scan.pc)
      OBVIOUS
    <3>2. r.view = scan.view /\ r.addr = scan.pc
      BY <3>1 DEF AddLabel, Request
    <3>3. r \in Owed'
      BY <1>1, <2>2, <3>1, <3>2 DEF Owed
    <3> QED BY <1>4, <3>2, <3>3 DEF Due, NodeOf
  <2> QED BY <2>1, <2>2
<1>6. \A m : Due(m) => Due(m)'
  BY <1>2, <1>3, <1>4, <1>5 DEF Due
<1>7. \A m : DueEntry(m) => DueEntry(m)'
  BY <1>2, <1>3 DEF DueEntry
<1>8. ASSUME NEW m, Covered(m) PROVE Covered(m)'
  BY <1>1, <1>6, <1>7, <1>8, CoveredKept
<1>9. Covered(n)'
  BY <1>4, ScanCovers
<1>10. \A m \in SeedNodes' : DueEntry(m)'
  BY <1>1, <1>7, SeedsKept DEF WorkInv
<1>11. ASSUME NEW r \in Owed' PROVE r.root \/ Covered(NodeOf(r))'
  <2>1. CASE r = AddLabel(scan.view, scan.pc)
    <3>1. NodeOf(r) = n
      BY <2>1, <1>4 DEF NodeOf, AddLabel, Request
    <3> QED BY <3>1, <1>9 DEF Covered, NodeOf
  <2> QED BY <2>1, <1>1 DEF Owed
<1>12. ASSUME NEW k \in DOMAIN list'
       PROVE  Covered(At(k))' \/ (list'[k].root /\ k \notin scanned')
  <2>1. PICK m : m = At(k) /\ m = At(k)'
    BY <1>1 DEF At
  <2>2. Covered(m) \/ m = n \/ (list[k].root /\ k \notin scanned)
    BY <1>1, <1>4, <2>1 DEF WorkInv, Beginning
  <2>3. Covered(m)' \/ (list[k].root /\ k \notin scanned)
    BY <2>2, <1>8, <1>9
  <2> QED BY <1>1, <2>1, <2>3 DEF Covered
<1>13. script' # "running" /\ phase' # "done"
  BY <1>1 DEF ScanInv
<1> QED BY <1>10, <1>11, <1>12, <1>13 DEF WorkInv

\* Ending a scan owes nothing new: what it was at is not code, or has
\* become a root to scan.
LEMMA WorkScanEnds ==
  ASSUME TypeInv, RowInv, ScanInv, WorkInv, ScanMeetsBadCode \/ ScanLimitReached
  PROVE  WorkInv'
<1>1. /\ scan.on /\ todo = <<>> /\ ~scan'.on /\ scan.view \in Banks
      /\ UNCHANGED <<rom, list, scanned, script, before, phase>>
  BY DEF ScanMeetsBadCode, ScanLimitReached, Scanning, Idle, ScanInv
<1>2. Owed = {}
  BY <1>1, ElemsNone DEF Owed
<1>3. Found' = Found /\ Entries' = Entries
  BY <1>1 DEF Found, Entries
<1>4. PICK n : n = Node(scan.view, scan.pc)
  OBVIOUS
<1>5. Probable(rom, scan.view, scan.pc) => Due(n)' /\ \A r \in Owed' : r.root
  <2> SUFFICES ASSUME Probable(rom, scan.view, scan.pc)
               PROVE  Due(n)' /\ \A r \in Owed' : r.root
    OBVIOUS
  <2>1. todo' = <<AddScanRoot(scan.view, scan.pc)>>
    BY DEF ScanMeetsBadCode, ScanLimitReached, Probable
  <2>2. PICK r : r = AddScanRoot(scan.view, scan.pc)
    OBVIOUS
  <2>3. Elems(todo') = {r}
    BY <2>1, <2>2, ElemsOne
  <2>4. r.view = scan.view /\ r.addr = scan.pc /\ r.root
    BY <2>2 DEF AddScanRoot, Request
  <2>5. Owed' = {r}
    BY <1>1, <2>3, <2>4 DEF Owed
  <2> QED BY <1>4, <2>4, <2>5 DEF Due, NodeOf
<1>6. ~Probable(rom, scan.view, scan.pc) => Owed' = {}
  <2>1. CASE ScanMeetsBadCode
    BY <2>1, <1>1, ElemsNone DEF ScanMeetsBadCode, Owed
  <2>2. CASE ScanLimitReached
    <3>1. Elems(todo') = {AddScanRoot(scan.view, scan.pc)}
      BY <2>2, ElemsOne DEF ScanLimitReached
    <3> QED BY <1>1, <3>1 DEF Owed, AddScanRoot, Request
  <2> QED BY <2>1, <2>2
<1>7. scan.n # 0
  <2> SUFFICES ASSUME scan.n = 0 PROVE FALSE
    OBVIOUS
  <2>1. PICK k \in DOMAIN list : At(k) = Node(scan.view, scan.pc)
    BY <1>1 DEF ScanInv
  <2>2. Probable(rom, scan.view, scan.pc)
    <3>1. list[k].addr = scan.pc /\ list[k] \in Row
      BY <2>1 DEF At, Node, TypeInv
    <3>2. scan.pc \in Addrs
      BY <3>1 DEF Row
    <3>3. RunsIn(At(k)) = scan.view
      BY <1>1, <2>1, <3>2 DEF ScanInv
    <3> QED BY <3>1, <3>3 DEF RowInv
  <2>3. scan.n = ScanLimit
    BY <2>2 DEF ScanMeetsBadCode, ScanLimitReached, Probable
  <2> QED BY <2>3, LimitAssumption
<1>8. ASSUME NEW k \in DOMAIN list, Covered(At(k)) PROVE Covered(At(k))'
  <2>0. PICK m : m = At(k)
    OBVIOUS
  <2> DEFINE view == RunsIn(m)
             i == Code(rom, view, m[1])
  <2>1. RunsIn(m)' = view /\ \A v, S : Lands(v, S)' = Lands(v, S)
    BY <1>1 DEF RunsIn, Lands
  <2>2. ASSUME NEW x \in Lands(view, Next(i, m[1])) PROVE Due(x)'
    <3>1. Due(x)
      BY <1>8, <2>0 DEF Covered
    <3>2. CASE x \in Found
      BY <3>2, <1>3 DEF Due
    <3>3. CASE x = n
      <4>1. PICK a \in Next(i, m[1]) : x = Node(view, a) /\ Probable(rom, view, a)
        BY <2>2 DEF Lands
      <4>2. a \in Addrs /\ a = scan.pc
        <5>1. a \in Addrs
          BY <4>1, CodeInRegion
        <5>2. Node(view, a) = Node(scan.view, scan.pc)
          BY <3>3, <4>1, <1>4
        <5> QED BY <5>1, <5>2 DEF Node
      <4>3. view \in Banks /\ rom \in Roms
        <5>1. list[k] \in Row /\ rom \in Roms
          BY DEF TypeInv
        <5>2. list[k].bank \in Banks \cup {NoBank}
          BY <5>1 DEF Row
        <5> QED BY <5>1, <5>2, <2>0, ViewType DEF At
      <4>4. Code(rom, RunsIn(x), a) = Code(rom, view, a)
        BY <4>1, <4>2, <4>3, NodeView
      <4>5. RunsIn(x) = scan.view
        BY <1>1, <1>4, <3>3, <4>2 DEF ScanInv
      <4>6. Probable(rom, scan.view, scan.pc)
        BY <4>1, <4>2, <4>4, <4>5 DEF Probable
      <4> QED BY <4>6, <3>3, <1>5
    <3> QED BY <3>1, <3>2, <3>3, <1>2, <1>4 DEF Due
  <2>3. ASSUME NEW x \in Lands(view, JumpsTo(i) \cup ReturnsTo(i, m[1]) \cup RowAt(view, m[1]))
        PROVE  DueEntry(x)'
    BY <1>8, <2>0, <1>2, <1>3 DEF Covered, DueEntry
  <2>6. \A v, a : RowAt(v, a)' = RowAt(v, a)
    BY <1>1 DEF RowAt
  <2>4. Covered(m)'
    BY <1>1, <2>1, <2>2, <2>3, <2>6 DEF Covered, Lands
  <2>5. At(k)' = m
    BY <1>1, <2>0 DEF At
  <2> QED BY <2>4, <2>5 DEF Covered
<1>9. \A m \in SeedNodes' : DueEntry(m)'
  BY <1>1, <1>2, <1>3, SeedsKept DEF WorkInv, DueEntry
<1>10. \A r \in Owed' : r.root
  BY <1>5, <1>6
<1>11. \A k \in DOMAIN list' : Covered(At(k))' \/ (list'[k].root /\ k \notin scanned')
  BY <1>1, <1>7, <1>8 DEF WorkInv, Beginning
<1>12. script' # "running" /\ phase' # "done"
  BY <1>1 DEF ScanInv
<1> QED BY <1>9, <1>10, <1>11, <1>12 DEF WorkInv

\* A step that makes no addition and does not end a scan keeps what is owed.
LEMMA StillDue ==
  ASSUME UNCHANGED <<rom, list>>, \A r \in Owed : r \in Owed',
         ~scan.on \/ scan' = scan
  PROVE  /\ \A m : Due(m) => Due(m)'
         /\ \A m : DueEntry(m) => DueEntry(m)'
         /\ \A m : Covered(m) => Covered(m)'
         /\ \A k : At(k)' = At(k)
<1>1. Found' = Found /\ Entries' = Entries /\ \A k : At(k)' = At(k)
  BY DEF Found, Entries, At
<1>2. ASSUME NEW m, Due(m) PROVE Due(m)'
  BY <1>1, <1>2 DEF Due, NodeOf, Node
<1>3. ASSUME NEW m, DueEntry(m) PROVE DueEntry(m)'
  BY <1>1, <1>3 DEF DueEntry, NodeOf, Node
<1>4. ASSUME NEW m, Covered(m) PROVE Covered(m)'
  BY <1>2, <1>3, <1>4, CoveredKept
<1> QED BY <1>1, <1>2, <1>3, <1>4

LEMMA WorkPick ==
  ASSUME TypeInv, RowInv, WorkInv, PickAhead \/ PickBehind
  PROVE  WorkInv'
<1>1. PICK k \in DOMAIN list : StartScan(k)
  BY DEF PickAhead, PickBehind, Ahead, Behind, Unscanned
<1>2. phase = "work" /\ script # "running" /\ ~scan.on
  BY DEF PickAhead, PickBehind, Choosing
<1>3. /\ UNCHANGED <<rom, list, todo, script, before, phase>>
      /\ scanned' = scanned \cup {k}
      /\ scan' = [on |-> TRUE, view |-> ViewOf(rom, list[k].bank),
                start |-> list[k].addr, pc |-> list[k].addr, n |-> 0]
  BY <1>1 DEF StartScan
<1>4. Owed' = Owed
  BY <1>3 DEF Owed
<1>5. /\ \A m : DueEntry(m) => DueEntry(m)'
      /\ \A m : Covered(m) => Covered(m)'
      /\ \A j : At(j)' = At(j)
  BY <1>2, <1>3, <1>4, StillDue
<1>6. Beginning(At(k))'
  <2>1. list[k] \in Row /\ rom \in Roms
    BY DEF TypeInv
  <2>2. RunsIn(At(k)) = ViewOf(rom, list[k].bank)
    BY <2>1, ViewType DEF Row, At
  <2>3. At(k) = Node(ViewOf(rom, list[k].bank), list[k].addr)
    BY <2>2 DEF RowInv
  <2> QED BY <1>3, <1>5, <2>3 DEF Beginning, At, Node
<1>7. \A m \in SeedNodes' : DueEntry(m)'
  BY <1>3, <1>5, SeedsKept DEF WorkInv
<1>8. ASSUME NEW r \in Owed' PROVE r.root \/ Covered(NodeOf(r))'
  <2>1. PICK m : m = NodeOf(r)
    OBVIOUS
  <2>2. r.root \/ Covered(m)'
    BY <1>4, <1>5, <2>1 DEF WorkInv
  <2> QED BY <2>1, <2>2 DEF Covered, NodeOf
<1>9. ASSUME NEW j \in DOMAIN list'
      PROVE  Covered(At(j))' \/ Beginning(At(j))' \/ (list'[j].root /\ j \notin scanned')
  <2>1. CASE j = k
    BY <1>6, <2>1
  <2>2. CASE j # k
    <3>1. PICK m : m = At(j)
      OBVIOUS
    <3>2. Covered(m) \/ (list[j].root /\ j \notin scanned)
      BY <1>2, <1>3, <3>1 DEF WorkInv, Beginning
    <3>3. Covered(m)' \/ (list'[j].root /\ j \notin scanned')
      BY <1>3, <1>5, <2>2, <3>2
    <3> QED BY <1>5, <3>1, <3>3 DEF Covered
  <2> QED BY <2>1, <2>2
<1> QED BY <1>2, <1>3, <1>7, <1>8, <1>9 DEF WorkInv

\* The steps at which no scan runs and no addition is waiting.
LEMMA WorkRest ==
  ASSUME TypeInv, ScanInv, WorkInv,
         SeedsDone \/ ScriptPass \/ ScriptPassDone \/ Finish
  PROVE  WorkInv'
<1>1. /\ UNCHANGED <<rom, list, scanned, scan>> /\ todo = <<>> /\ ~scan.on
      /\ (todo' = todo \/ ScriptPass)
  BY DEF SeedsDone, ScriptPass, ScriptPassDone, Finish, Choosing, ScanInv
<1>2. Owed = {}
  BY <1>1, ElemsNone DEF Owed
<1>3. /\ \A m : DueEntry(m) => DueEntry(m)'
      /\ \A m : Covered(m) => Covered(m)'
      /\ \A k : At(k)' = At(k)
  BY <1>1, <1>2, StillDue
<1>4. ASSUME NEW k, Covered(At(k)) PROVE Covered(At(k))'
  <2>1. PICK m : m = At(k)
    OBVIOUS
  <2> QED BY <1>3, <1>4, <2>1 DEF Covered
<1>5. \A m \in SeedNodes' : DueEntry(m)'
  BY <1>1, <1>3, SeedsKept DEF WorkInv
<1>6. \A r \in Owed' : r.root
  <2>1. CASE todo' = todo
    BY <1>1, <2>1, ElemsNone DEF Owed
  <2>2. CASE ScriptPass
    <3>1. PICK found \in {<<>>, rom.scripts}, v \in Banks : todo' = EntriesFor(v, found)
      BY <2>2 DEF ScriptPass
    <3>2. rom.scripts \in Seq(Nat)
      BY RomAssumption DEF TypeInv
    <3>3. found \in Seq(Nat)
      <4>1. CASE found = <<>>
        BY <4>1
      <4> QED BY <4>1, <3>2
    <3>4. Elems(todo') = {AddEntry(v, a) : a \in Elems(found)}
      BY <3>1, <3>3, ElemsEntries
    <3> QED BY <3>4 DEF Owed, AddEntry, Request
  <2> QED BY <1>1, <2>1, <2>2
<1>7. \A k \in DOMAIN list : Covered(At(k)) \/ k \in Unscanned
  BY <1>1 DEF WorkInv, Unscanned, Beginning
<1>8. ASSUME NEW k \in DOMAIN list'
      PROVE  Covered(At(k))' \/ (list'[k].root /\ k \notin scanned')
  BY <1>1, <1>4, <1>7 DEF Unscanned
<1>9. ASSUME NoneLeft, NEW k \in DOMAIN list PROVE Covered(At(k))
  BY <1>7, <1>9 DEF NoneLeft, Ahead, Behind, TypeInv, Unscanned
<1>10. ASSUME script' = "running"
       PROVE  before' <= Len(list') /\ \A k \in 1..before' : Covered(At(k))'
  <2>1. CASE ScriptPass
    <3>1. before' = Len(list) /\ NoneLeft
      BY <2>1 DEF ScriptPass
    <3>2. Len(list) \in Nat /\ DOMAIN list = 1..Len(list)
      BY DEF TypeInv
    <3> QED BY <1>1, <1>4, <1>9, <3>1, <3>2
  <2>2. CASE SeedsDone \/ Finish
    BY <1>10, <2>2 DEF SeedsDone, Finish, Choosing, ScanInv
  <2>3. CASE ScriptPassDone
    BY <1>10, <2>3 DEF ScriptPassDone
  <2> QED BY <2>1, <2>2, <2>3
<1>11. ASSUME phase' = "done"
       PROVE  /\ todo' = <<>> /\ ~scan'.on
              /\ \A k \in DOMAIN list' : Covered(At(k))'
  <2>1. CASE SeedsDone
    BY <2>1, <1>11 DEF SeedsDone
  <2>2. CASE ScriptPass
    BY <2>2, <1>11 DEF ScriptPass, Choosing
  <2>3. CASE ScriptPassDone
    <3>1. todo' = <<>> /\ script = "running" /\ ~(Len(list) > before)
      BY <1>11, <2>3 DEF ScriptPassDone
    <3>2. \A k \in DOMAIN list : Covered(At(k))
      BY <3>1 DEF WorkInv, TypeInv
    <3> QED BY <1>1, <1>4, <3>1, <3>2
  <2>4. CASE Finish
    <3>1. todo' = <<>> /\ NoneLeft
      BY <2>4, <1>1 DEF Finish
    <3> QED BY <1>1, <1>4, <1>9, <3>1
  <2> QED BY <2>1, <2>2, <2>3, <2>4
<1> QED BY <1>5, <1>6, <1>8, <1>10, <1>11 DEF WorkInv

LEMMA DiscoveryInit ==
  ASSUME Init
  PROVE  DiscoveryInv
<1>1. rom \in Roms /\ rom.seeds \in Seq([view : Banks, addr : Nat])
  BY RomAssumption DEF Init
<1>2. todo = [k \in 1..Len(rom.seeds) |-> AddEntry(rom.seeds[k].view, rom.seeds[k].addr)]
  BY <1>1 DEF Init
<1>3. todo \in Seq(Ask)
  <2>1. \A k \in 1..Len(rom.seeds) : AddEntry(rom.seeds[k].view, rom.seeds[k].addr) \in Ask
    <3>1. \A k \in 1..Len(rom.seeds) : rom.seeds[k].view \in Banks /\ rom.seeds[k].addr \in Nat
      <4> DEFINE s == rom.seeds
                 S == [view : Banks, addr : Nat]
      <4>1. s \in Seq(S)
        BY <1>1
      <4>2. \A x \in S : x.view \in Banks /\ x.addr \in Nat
        OBVIOUS
      <4> HIDE DEF s, S
      <4>3. \A k \in 1..Len(s) : s[k] \in S
        BY <4>1
      <4> QED BY <4>2, <4>3 DEF s
    <3> QED BY <3>1 DEF AddEntry, Request, Ask
  <2> QED BY <1>1, <1>2, <2>1
<1>4. TypeInv
  <2>1. Idle \in Scans
    BY LimitAssumption DEF Idle, Scans
  <2>2. list \in Seq(Row) /\ Len(list) = 0 /\ Len(list) <= MaxCandidates
    BY LimitAssumption DEF Init
  <2> QED BY <1>1, <1>3, <2>1, <2>2 DEF Init, TypeInv
<1>5. list = <<>> /\ DOMAIN list = {} /\ ~scan.on
  BY DEF Init, Idle
<1>6. RowInv
  BY <1>5 DEF RowInv
<1>7. ScanInv
  BY <1>5 DEF Init, ScanInv
<1>8. ASSUME NEW n \in SeedNodes PROVE DueEntry(n)
  <2>1. PICK k \in DOMAIN rom.seeds :
           /\ n = Node(rom.seeds[k].view, rom.seeds[k].addr)
           /\ Probable(rom, rom.seeds[k].view, rom.seeds[k].addr)
    BY <1>8 DEF SeedNodes, Lands
  <2>2. PICK r : r = todo[k]
    OBVIOUS
  <2>3. r.view = rom.seeds[k].view /\ r.addr = rom.seeds[k].addr /\ r.entry
    BY <1>1, <1>2, <2>1, <2>2 DEF AddEntry, Request
  <2>4. r \in Elems(todo)
    BY <1>1, <1>2, <2>1, <2>2 DEF Elems
  <2> QED BY <2>1, <2>3, <2>4 DEF DueEntry, Owed, NodeOf
<1>9. \A r \in Owed : r.root
  BY <1>2 DEF Owed, Elems, AddEntry, Request
<1>10. WorkInv
  BY <1>5, <1>8, <1>9 DEF WorkInv, Init
<1> QED BY <1>4, <1>6, <1>7, <1>10 DEF DiscoveryInv

LEMMA DiscoveryStep ==
  ASSUME DiscoveryInv, [DiscoveryNext]_discoveryVars
  PROVE  DiscoveryInv'
<1>1. TypeInv /\ RowInv /\ ScanInv /\ (truncated \/ WorkInv)
  BY DEF DiscoveryInv
<1>2. TypeInv' /\ RowInv' /\ ScanInv'
  BY <1>1, TypeStep, RowStep, ScanStep
<1>3. ASSUME ~truncated' PROVE WorkInv'
  <2>1. ~truncated
    <3>1. CASE AddNext
      <4>1. Head(todo) \in Ask /\ \/ Reject(Head(todo)) \/ Promote(Head(todo))
                                  \/ Refuse(Head(todo)) \/ Record(Head(todo))
        BY <1>1, <3>1, Addition
      <4> QED BY <1>3, <4>1 DEF Reject, Promote, Refuse, Record
    <3> QED BY <1>3, <3>1, ListKept
  <2>2. WorkInv
    BY <1>1, <2>1
  <2>3. CASE AddNext
    BY <1>1, <1>3, <2>2, <2>3, WorkAdd
  <2>4. CASE ScanInstruction
    BY <1>1, <2>2, <2>4, WorkScan
  <2>5. CASE ScanMeetsBadCode \/ ScanLimitReached
    BY <1>1, <2>2, <2>5, WorkScanEnds
  <2>6. CASE PickAhead \/ PickBehind
    BY <1>1, <2>2, <2>6, WorkPick
  <2>7. CASE SeedsDone \/ ScriptPass \/ ScriptPassDone \/ Finish
    BY <1>1, <2>2, <2>7, WorkRest
  <2>8. CASE UNCHANGED discoveryVars
    <3>1. UNCHANGED <<rom, list, todo, scanned, scan, script, before, phase>>
      BY <2>8 DEF discoveryVars
    <3>2. SeedNodes' = SeedNodes /\ Found' = Found /\ Entries' = Entries /\ Owed' = Owed
      BY <3>1 DEF SeedNodes, Lands, Found, Entries, Owed
    <3>3. \A n : /\ Due(n)' <=> Due(n)
                 /\ DueEntry(n)' <=> DueEntry(n)
                 /\ Beginning(n)' <=> Beginning(n)
      BY <3>1, <3>2 DEF Due, DueEntry, NodeOf, Beginning
    <3>4. \A n : Covered(n)' <=> Covered(n)
      BY <3>1, <3>3 DEF Covered, Lands, RunsIn, RowAt
    <3>5. \A k : At(k)' = At(k)
      BY <3>1 DEF At
    <3> QED BY <2>2, <3>1, <3>2, <3>3, <3>4, <3>5 DEF WorkInv, NodeOf
  <2> QED BY <2>3, <2>4, <2>5, <2>6, <2>7, <2>8 DEF DiscoveryNext
<1> QED BY <1>2, <1>3 DEF DiscoveryInv

LEMMA DiscoveryInvariant == Spec => []DiscoveryInv
<1>1. Init => DiscoveryInv
  BY DiscoveryInit
<1>2. DiscoveryInv /\ [DiscoveryNext]_discoveryVars => DiscoveryInv'
  BY DiscoveryStep
<1> QED BY <1>1, <1>2, PTL DEF Spec

LEMMA ClosedWhenDone ==
  ASSUME DiscoveryInv
  PROVE  Closed
<1> SUFFICES ASSUME phase = "done", ~truncated
             PROVE  Closed
  BY DEF Closed
<1>1. /\ \A n \in SeedNodes : DueEntry(n)
      /\ \A k \in DOMAIN list : Covered(At(k)) 
      /\ todo = <<>> /\ ~scan.on
  BY DEF DiscoveryInv, WorkInv
<1>2. Owed = {}
  BY <1>1, ElemsNone DEF Owed
<1>3. \A n : (Due(n) => n \in Found) /\ (DueEntry(n) => n \in Entries)
  BY <1>1, <1>2 DEF Due, DueEntry
<1>4. Entries \subseteq Found
  BY FoundAt
<1>5. ASSUME NEW n \in Found
      PROVE  LET view == RunsIn(n)
                 i == Code(rom, view, n[1])
                 after == IF i.op \in {"call", "icall", "stop"}
                          THEN Next(i, n[1]) ELSE {}
             IN  /\ Leads(n, FALSE) \subseteq Found
                 /\ Lands(view, JumpsTo(i) \cup after \cup RowAt(view, n[1]))
                       \subseteq Entries
  <2> DEFINE view == RunsIn(n)
             i == Code(rom, view, n[1])
  <2>1. Covered(n)
    BY <1>1, FoundAt
  <2>2. /\ \A m \in Lands(view, Next(i, n[1])) : m \in Found
        /\ \A m \in Lands(view, JumpsTo(i) \cup ReturnsTo(i, n[1]) \cup RowAt(view, n[1])) :
              m \in Entries
    BY <2>1, <1>3 DEF Covered
  <2>3. Leads(n, FALSE) \subseteq Found
    BY <2>2, <1>4 DEF Leads, Lands
  <2> QED BY <2>2, <2>3 DEF ReturnsTo, ContinuesAfter
<1> QED BY <1>1, <1>3, <1>4, <1>5 DEF Closed

\* Discovery that ends without running out of room has found everything its
\* candidates lead to, for every program, capacity and scan limit.
THEOREM DiscoveryCloses == Spec => []Closed
<1>1. DiscoveryInv => Closed
  BY ClosedWhenDone
<1> QED BY <1>1, DiscoveryInvariant, PTL

-----------------------------------------------------------------------------
(* Nothing is invented: whatever set holds the seeds and the script        *)
(* callbacks, and with a node all it leads to, holds the list.             *)

Holding(C) ==
    /\ SeedNodes \cup ScriptNodes \subseteq C
    /\ \A n \in C : Leads(n, TRUE) \subseteq C

Within(C) ==
    /\ Found \subseteq C
    /\ \A r \in Owed : NodeOf(r) \in C
    /\ scan.on /\ Probable(rom, scan.view, scan.pc) => Node(scan.view, scan.pc) \in C

ReachInv == \A C : Holding(C) => Within(C)

LEMMA WithinStep ==
  ASSUME TypeInv, RowInv, ScanInv, [DiscoveryNext]_discoveryVars,
         NEW C, Holding(C), Within(C)
  PROVE  Within(C)'
<1>1. CASE AddNext
  <2>1. rom' = rom /\ scan' = scan
    BY <1>1, Addition
  <2>2. ASSUME NEW k \in DOMAIN list' PROVE At(k)' \in C
    <3>1. CASE k \in DOMAIN list
      BY <1>1, <3>1, ListGrows, FoundAt DEF Within
    <3>2. CASE k \notin DOMAIN list
      <4>1. PICK r : r = Head(todo)
        OBVIOUS
      <4>2. Probable(rom, r.view, r.addr) /\ At(k)' = NodeOf(r)
        BY <1>1, <3>2, <4>1, NewRow
      <4>3. r \in Owed
        BY <1>1, <4>1, <4>2, OwedTail
      <4> QED BY <4>2, <4>3 DEF Within
    <3> QED BY <3>1, <3>2
  <2>3. \A r \in Owed' : r \in Owed
    BY <1>1, OwedTail
  <2> QED BY <2>1, <2>2, <2>3, FoundAtNext DEF Within, NodeOf, Node
<1>2. CASE ScanInstruction
  <2> DEFINE i == Code(rom, scan.view, scan.pc)
             n == Node(scan.view, scan.pc)
  <2>1. /\ scan.on /\ Probable(rom, scan.view, scan.pc) /\ RunsIn(n) = scan.view
        /\ UNCHANGED <<rom, list>>
        /\ ScannedBanks \subseteq FollowedIn(n)
        /\ \A r \in Elems(todo') : Askable(i, r)
        /\ scan'.on => scan'.pc \in Next(i, scan.pc) /\ scan'.view = scan.view
    BY <1>2, ScannedInstr
  <2>2. n \in C /\ n[1] = scan.pc
    BY <2>1 DEF Within, Node
  <2>3. Leads(n, TRUE) = Lands(scan.view, Next(i, scan.pc) \cup JumpsTo(i)
                                             \cup RowAt(scan.view, scan.pc))
                            \cup Lands(scan.view, TableOf(i))
                            \cup UNION {Lands(b, Pointed(i, b)) : b \in FollowedIn(n)}
    BY <2>1, <2>2 DEF Leads
  <2> HIDE DEF i, n
  <2>4. \A a \in Next(i, scan.pc) \cup JumpsTo(i) \cup TableOf(i) \cup RowAt(scan.view, scan.pc) :
           Probable(rom, scan.view, a) => Node(scan.view, a) \in C
    BY <2>2, <2>3 DEF Holding, Lands
  <2>7. ASSUME NEW b \in FollowedIn(n), NEW a \in Pointed(i, b), Probable(rom, b, a)
        PROVE  Node(b, a) \in C
    <3>1. Node(b, a) \in Lands(b, Pointed(i, b))
      BY <2>7 DEF Lands
    <3>2. Node(b, a) \in Leads(n, TRUE)
      BY <2>3, <3>1
    <3> QED BY <2>2, <3>2 DEF Holding
  <2>5. ASSUME NEW r \in Owed' PROVE NodeOf(r) \in C
    <3>1. r \in Elems(todo') /\ Probable(rom, r.view, r.addr)
      BY <2>1, <2>5 DEF Owed
    <3>2. CASE r = AddLabel(scan.view, scan.pc)
      BY <3>2, <2>2 DEF NodeOf, AddLabel, Request, n
    <3>3. CASE \E a \in TableOf(i) \cup JumpsTo(i) \cup Next(i, scan.pc)
                                 \cup RowAt(scan.view, scan.pc) :
                  r = AddEntry(scan.view, a)
      BY <3>1, <3>3, <2>4 DEF NodeOf, AddEntry, Request
    <3>4. CASE \E b \in ScannedBanks : \E a \in Pointed(i, b) : r = AddEntry(b, a)
      <4>1. PICK b \in ScannedBanks : \E a \in Pointed(i, b) : r = AddEntry(b, a)
        BY <3>4
      <4>2. PICK a \in Pointed(i, b) : r = AddEntry(b, a)
        BY <4>1
      <4>3. r.view = b /\ r.addr = a /\ b \in FollowedIn(n)
        BY <2>1, <4>2 DEF AddEntry, Request
      <4> QED BY <2>7, <3>1, <4>3 DEF NodeOf
    <3> QED BY <2>1, <3>1, <3>2, <3>3, <3>4 DEF Askable
  <2>6. Found' = Found
    BY <2>1 DEF Found
  <2> QED BY <2>1, <2>4, <2>5, <2>6 DEF Within, NodeOf, Node
<1>3. CASE ScanMeetsBadCode \/ ScanLimitReached
  <2>1. /\ ~scan'.on /\ UNCHANGED <<rom, list>> /\ scan.on /\ todo = <<>>
        /\ todo' \in {<<>>, <<AddScanRoot(scan.view, scan.pc)>>}
    BY <1>3 DEF ScanMeetsBadCode, ScanLimitReached, Scanning, Idle
  <2>2. Elems(todo') \subseteq {AddScanRoot(scan.view, scan.pc)}
    BY <2>1, ElemsNone, ElemsOne
  <2>3. ASSUME NEW r \in Owed' PROVE NodeOf(r) \in C
    BY <2>1, <2>2, <2>3 DEF Owed, Within, NodeOf, AddScanRoot, Request
  <2>4. Found' = Found
    BY <2>1 DEF Found
  <2> QED BY <2>1, <2>3, <2>4 DEF Within, NodeOf, Node
<1>4. CASE PickAhead \/ PickBehind
  <2>1. PICK k \in DOMAIN list : StartScan(k)
    BY <1>4 DEF PickAhead, PickBehind, Ahead, Behind, Unscanned
  <2>2. /\ UNCHANGED <<rom, list, todo>>
        /\ scan'.view = ViewOf(rom, list[k].bank) /\ scan'.pc = list[k].addr
    BY <2>1 DEF StartScan
  <2>3. list[k] \in Row /\ rom \in Roms
    BY DEF TypeInv
  <2>4. RunsIn(At(k)) = ViewOf(rom, list[k].bank)
    BY <2>3, ViewType DEF Row, At
  <2>5. Node(scan'.view, scan'.pc) \in C
    BY <2>2, <2>4, FoundAt DEF RowInv, Within
  <2>6. Found' = Found /\ Owed' = Owed
    BY <2>2 DEF Found, Owed
  <2> QED BY <2>5, <2>6 DEF Within, NodeOf, Node
<1>5. CASE ScriptPass
  <2>1. PICK found \in {<<>>, rom.scripts}, v \in Banks : todo' = EntriesFor(v, found)
    BY <1>5 DEF ScriptPass
  <2>2. UNCHANGED <<rom, list, scan>> /\ rom.scripts \in Seq(Nat)
    BY <1>5, RomAssumption DEF ScriptPass, TypeInv
  <2>3. found \in Seq(Nat) /\ Elems(found) \subseteq Elems(rom.scripts)
    <3>1. CASE found = <<>>
      BY <3>1, ElemsNone
    <3> QED BY <3>1, <2>2
  <2>4. Elems(todo') = {AddEntry(v, a) : a \in Elems(found)}
    BY <2>1, <2>3, ElemsEntries
  <2>5. \A a \in Elems(rom.scripts) : Probable(rom, v, a) => Node(v, a) \in ScriptNodes
    BY DEF ScriptNodes, Lands, Elems
  <2>6. ASSUME NEW r \in Owed' PROVE NodeOf(r) \in C
    <3>1. PICK a \in Elems(found) : r = AddEntry(v, a) /\ Probable(rom, r.view, r.addr)
      BY <2>2, <2>4, <2>6 DEF Owed
    <3>2. r.view = v /\ r.addr = a
      BY <3>1 DEF AddEntry, Request
    <3> QED BY <3>1, <3>2, <2>3, <2>5 DEF NodeOf, Holding
  <2>7. Found' = Found
    BY <2>2 DEF Found
  <2> QED BY <2>2, <2>6, <2>7 DEF Within, NodeOf, Node
<1>6. CASE SeedsDone \/ ScriptPassDone \/ Finish \/ UNCHANGED discoveryVars
  <2>1. UNCHANGED <<rom, list, todo, scan>>
    BY <1>6 DEF SeedsDone, ScriptPassDone, Finish, discoveryVars
  <2>2. Found' = Found /\ Owed' = Owed
    BY <2>1 DEF Found, Owed
  <2> QED BY <2>1, <2>2 DEF Within, NodeOf, Node
<1> QED BY <1>1, <1>2, <1>3, <1>4, <1>5, <1>6 DEF DiscoveryNext

LEMMA ReachStep ==
  ASSUME TypeInv, RowInv, ScanInv, ReachInv, [DiscoveryNext]_discoveryVars
  PROVE  ReachInv'
<1> SUFFICES ASSUME NEW C, Holding(C)' PROVE Within(C)'
  BY DEF ReachInv
<1>1. rom' = rom
  BY ListKept, Addition
<1>2. Holding(C)
  BY <1>1 DEF Holding, SeedNodes, ScriptNodes, Lands, Leads, RunsIn, RowAt, FollowedIn
<1> QED BY <1>2, WithinStep DEF ReachInv

LEMMA ReachInit ==
  ASSUME Init
  PROVE  ReachInv
<1> SUFFICES ASSUME NEW C, Holding(C) PROVE Within(C)
  BY DEF ReachInv
<1>1. /\ todo = [k \in DOMAIN rom.seeds |->
                   AddEntry(rom.seeds[k].view, rom.seeds[k].addr)]
      /\ Found = {} /\ ~scan.on
  BY DEF Init, Found, Idle
<1>2. ASSUME NEW r \in Owed PROVE NodeOf(r) \in C
  <2>1. PICK k \in DOMAIN rom.seeds :
            r = AddEntry(rom.seeds[k].view, rom.seeds[k].addr)
    BY <1>1, <1>2 DEF Owed, Elems
  <2>2. /\ r.view = rom.seeds[k].view /\ r.addr = rom.seeds[k].addr
        /\ Probable(rom, r.view, r.addr)
    BY <2>1, <1>2 DEF Owed, AddEntry, Request
  <2>3. NodeOf(r) \in SeedNodes
    BY <2>2 DEF NodeOf, SeedNodes, Lands
  <2> QED BY <2>3 DEF Holding
<1> QED BY <1>1, <1>2 DEF Within

-----------------------------------------------------------------------------
(* Closure(from) is such a set: the recursion that defines it reaches its  *)
(* fixed point within as many steps as there are nodes.                    *)

\* Induction on the naturals, as the existence of a least counterexample.
LEMMA LeastNat ==
  ASSUME NEW T, T \subseteq Nat, T # {}
  PROVE  \E x \in T : \A y \in T : x <= y
<1> DEFINE R == OpToRel(<, Nat)
<1>1. IsWellFoundedOn(R, Nat)
  BY NatLessThanWellFounded
<1> HIDE DEF R
<1>2. PICK x \in T : \A y \in T : ~(<<y, x>> \in R)
  BY <1>1, WFMin, Zenon
<1>3. \A y \in T : ~(y < x)
  BY <1>2 DEF R, OpToRel
<1> QED BY <1>3

Grow(g) == g \cup UNION {Leads(m, TRUE) : m \in g}

\* f is the first N + 1 terms of the recursion.
Grows(f, from, N) == f = [n \in 0..N |-> IF n = 0 THEN from ELSE Grow(f[n - 1])]

LEMMA GrowsExists ==
  ASSUME NEW from, NEW N \in Nat
  PROVE  \E f : Grows(f, from, N)
<1> DEFINE T == {m \in Nat : ~ \E f : Grows(f, from, m)}
<1> SUFFICES ASSUME T # {} PROVE FALSE
  OBVIOUS
<1>1. PICK m \in T : \A y \in T : m <= y
  BY LeastNat
<1>2. m \in Nat /\ ~ \E f : Grows(f, from, m)
  OBVIOUS
<1>3. CASE m = 0
  <2> DEFINE f == [n \in 0..0 |-> from]
  <2>1. Grows(f, from, 0)
    BY DEF Grows
  <2> QED BY <1>2, <1>3, <2>1
<1>4. CASE m # 0
  <2>1. m - 1 \in Nat /\ m - 1 \notin T
    BY <1>1, <1>2, <1>4
  <2>2. PICK f : Grows(f, from, m - 1)
    BY <2>1
  <2> DEFINE g == [n \in 0..m |-> IF n = m THEN Grow(f[m - 1]) ELSE f[n]]
  <2>3. \A n \in 0..(m - 1) : g[n] = f[n] /\ f[n] = IF n = 0 THEN from ELSE Grow(f[n - 1])
    BY <1>2, <2>1, <2>2 DEF Grows
  <2>4. \A n \in 0..m : g[n] = IF n = 0 THEN from ELSE Grow(g[n - 1])
    <3> SUFFICES ASSUME NEW n \in 0..m PROVE g[n] = IF n = 0 THEN from ELSE Grow(g[n - 1])
      OBVIOUS
    <3>1. g[m] = Grow(f[m - 1])
      BY <1>2
    <3> HIDE DEF g
    <3>2. CASE n = m
      <4>1. m - 1 \in 0..(m - 1)
        BY <2>1, <1>2
      <4> QED BY <3>1, <3>2, <4>1, <2>3, <1>4
    <3>3. CASE n # m
      <4>1. n \in 0..(m - 1)
        BY <1>2, <3>3
      <4>2. n # 0 => n - 1 \in 0..(m - 1)
        BY <1>2, <3>3
      <4> QED BY <4>1, <4>2, <2>3
    <3> QED BY <3>2, <3>3
  <2>5. g = [n \in 0..m |-> g[n]]
    OBVIOUS
  <2> HIDE DEF g
  <2>6. Grows(g, from, m)
    BY <2>4, <2>5 DEF Grows
  <2> QED BY <1>2, <2>6
<1> QED BY <1>3, <1>4

\* What a set of nodes leads to are nodes.
LEMMA LeadsAreNodes ==
  ASSUME rom \in Roms, NEW n \in Nodes
  PROVE  Leads(n, TRUE) \subseteq Nodes
<1>1. n[2] \in Banks \cup {NoBank}
  BY DEF Nodes
<1>2. RunsIn(n) \in Banks
  BY <1>1, RomAssumption DEF RunsIn, WellFormed
<1>3. ASSUME NEW v \in Banks, NEW S, NEW m \in Lands(v, S) PROVE m \in Nodes
  <2>1. PICK a \in S : m = Node(v, a) /\ Probable(rom, v, a)
    BY <1>3 DEF Lands
  <2>2. a \in Addrs
    BY <2>1, CodeInRegion
  <2>3. BankFor(v, a) \in Banks \cup {NoBank}
    BY BankType
  <2> QED BY <2>1, <2>2, <2>3 DEF Node, Nodes
<1>4. FollowedIn(n) \subseteq Banks
  BY <1>2 DEF FollowedIn
<1> QED BY <1>2, <1>3, <1>4 DEF Leads

LEMMA NodesFinite == IsFiniteSet(Nodes)
<1>1. IsFiniteSet(Addrs)
  BY RegionAssumption, FS_Union DEF Addrs
<1>2. IsFiniteSet(Banks \cup {NoBank})
  BY RegionAssumption, FS_AddElement
<1> QED BY <1>1, <1>2, FS_Product DEF Nodes

LEMMA ClosureHolds ==
  ASSUME rom \in Roms, NEW from, from \subseteq Nodes
  PROVE  /\ from \subseteq Closure(from)
         /\ \A n \in Closure(from) : Leads(n, TRUE) \subseteq Closure(from)
<1>0. PICK N : N = Cardinality(Nodes)
  OBVIOUS
<1>1. N \in Nat
  BY <1>0, NodesFinite, FS_CardinalityType
<1> DEFINE Grown[n \in 0..N] ==
            IF n = 0 THEN from
            ELSE LET g == Grown[n - 1] IN g \cup UNION {Leads(m, TRUE) : m \in g}
<1>2. Closure(from) = Grown[N]
  BY <1>0 DEF Closure
<1>3. Grown = [n \in 0..N |-> IF n = 0 THEN from ELSE Grow(Grown[n - 1])]
  <2>1. \E f : f = [n \in 0..N |-> IF n = 0 THEN from
                      ELSE LET g == f[n - 1] IN g \cup UNION {Leads(m, TRUE) : m \in g}]
    <3>1. PICK f : Grows(f, from, N)
      BY <1>1, GrowsExists
    <3>2. f = [n \in 0..N |-> IF n = 0 THEN from
                 ELSE LET g == f[n - 1] IN g \cup UNION {Leads(m, TRUE) : m \in g}]
      BY <3>1, Zenon DEF Grows, Grow
    <3> QED BY <3>2, Zenon
  <2> QED BY <2>1 DEF Grow
<1> HIDE DEF Grown
<1>4. /\ Grown[0] = from
      /\ \A n \in 0..N : n # N => Grown[n + 1] = Grow(Grown[n])
  BY <1>1, <1>3
<1> DEFINE Good(n) ==
       /\ from \subseteq Grown[n] /\ Grown[n] \subseteq Nodes
       /\ (Grow(Grown[n]) = Grown[n] \/ Cardinality(Grown[n]) >= n)
<1>5. Good(0)
  <2>1. Cardinality(from) \in Nat
    BY NodesFinite, FS_Subset, FS_CardinalityType
  <2> QED BY <1>4, <2>1
<1>6. ASSUME NEW n \in 0..N, n # N, Good(n) PROVE Good(n + 1)
  <2>1. Grown[n + 1] = Grow(Grown[n])
    BY <1>4, <1>6
  <2>2. Grow(Grown[n]) \subseteq Nodes
    BY <1>6, LeadsAreNodes DEF Grow
  <2>3. CASE Grow(Grown[n]) = Grown[n]
    BY <1>6, <2>1, <2>2, <2>3
  <2>4. CASE Grow(Grown[n]) # Grown[n]
    <3> DEFINE A == Grown[n]
               B == Grow(Grown[n])
    <3>1. A \subseteq B /\ A # B /\ IsFiniteSet(B) /\ Cardinality(A) >= n
      BY <1>6, <2>2, <2>4, NodesFinite, FS_Subset DEF Grow
    <3>2. /\ IsFiniteSet(A) /\ Cardinality(A) <= Cardinality(B)
          /\ Cardinality(A) # Cardinality(B)
      <4> HIDE DEF A, B
      <4> QED BY <3>1, FS_Subset
    <3>3. Cardinality(A) \in Nat /\ Cardinality(B) \in Nat
      BY <3>1, <3>2, FS_CardinalityType
    <3>4. Cardinality(B) >= n + 1
      <4> HIDE DEF A, B
      <4> QED BY <3>1, <3>2, <3>3, <1>1
    <3> QED BY <1>6, <2>1, <2>2, <3>1, <3>4
  <2> QED BY <2>3, <2>4
<1> HIDE DEF Good
<1>7. Good(N)
  <2> DEFINE T == {n \in Nat : n <= N /\ ~Good(n)}
  <2>1. CASE T = {}
    BY <1>1, <2>1
  <2>2. CASE T # {}
    <3>1. PICK m \in T : \A y \in T : m <= y
      BY <2>2, LeastNat
    <3>2. m # 0
      BY <1>5
    <3>3. m - 1 \in 0..N /\ m - 1 # N /\ Good(m - 1)
      BY <1>1, <3>1, <3>2
    <3>4. Good((m - 1) + 1)
      BY <3>3, <1>6
    <3> QED BY <3>4
  <2> QED BY <2>1, <2>2
<1>8. Grow(Grown[N]) = Grown[N]
  <2> SUFFICES ASSUME Cardinality(Grown[N]) >= N, Grown[N] \subseteq Nodes
               PROVE  Grow(Grown[N]) = Grown[N]
    BY <1>7 DEF Good
  <2>1. Grown[N] = Nodes
    <3> DEFINE A == Grown[N]
    <3>1. A \subseteq Nodes /\ Cardinality(A) >= Cardinality(Nodes)
      BY <1>0
    <3>2. Cardinality(Nodes) \in Nat /\ Cardinality(A) \in Nat
      BY <3>1, NodesFinite, FS_Subset, FS_CardinalityType
    <3> HIDE DEF A
    <3>3. A = Nodes
      BY <3>1, <3>2, NodesFinite, FS_Subset
    <3> QED BY <3>3 DEF A
  <2>2. Grow(Nodes) \subseteq Nodes
    BY LeadsAreNodes DEF Grow
  <2> QED BY <2>1, <2>2 DEF Grow
<1>9. from \subseteq Grown[N]
  BY <1>7 DEF Good
<1> QED BY <1>2, <1>8, <1>9 DEF Grow

\* Every candidate can be reached from a seed or a script callback, and none
\* is in the list twice, for every program, capacity and scan limit.
THEOREM DiscoveryInventsNothing == Spec => []NothingInvented
<1> DEFINE Inv == DiscoveryInv /\ ReachInv
<1>1. Init => Inv
  BY DiscoveryInit, ReachInit
<1>2. Inv /\ [DiscoveryNext]_discoveryVars => Inv'
  BY DiscoveryStep, ReachStep DEF DiscoveryInv
<1>3. Inv => NothingInvented
  <2> SUFFICES ASSUME Inv PROVE NothingInvented
    OBVIOUS
  <2>1. TypeInv /\ RowInv
    BY DEF DiscoveryInv
  <2>2. \A j, k \in DOMAIN list : Holds(list[j], list[k].addr, list[k].bank) => j = k
    BY <2>1 DEF RowInv, Holds, At
  <2>3. rom \in Roms /\ rom.seeds \in Seq([view : Banks, addr : Nat])
    BY <2>1, RomAssumption DEF TypeInv
  <2>4. ASSUME NEW v \in Banks, NEW S, NEW n \in Lands(v, S) PROVE n \in Nodes
    <3>1. PICK a \in S : n = Node(v, a) /\ Probable(rom, v, a)
      BY <2>4 DEF Lands
    <3>2. a \in Addrs /\ BankFor(v, a) \in Banks \cup {NoBank}
      BY <3>1, CodeInRegion, BankType
    <3> QED BY <3>1, <3>2 DEF Node, Nodes
  <2>5. \A k \in DOMAIN rom.seeds : rom.seeds[k].view \in Banks
    <3> DEFINE s == rom.seeds
               S == [view : Banks, addr : Nat]
    <3>1. s \in Seq(S) /\ \A x \in S : x.view \in Banks
      BY <2>3
    <3> HIDE DEF s, S
    <3>2. \A k \in DOMAIN s : s[k] \in S
      BY <3>1
    <3> QED BY <3>1, <3>2 DEF s
  <2> DEFINE from == SeedNodes \cup ScriptNodes
  <2>6. from \subseteq Nodes
    <3>1. ASSUME NEW n \in SeedNodes PROVE n \in Nodes
      <4>1. PICK k \in DOMAIN rom.seeds : n \in Lands(rom.seeds[k].view, {rom.seeds[k].addr})
        BY <3>1 DEF SeedNodes
      <4> QED BY <4>1, <2>4, <2>5
    <3>2. ASSUME NEW n \in ScriptNodes PROVE n \in Nodes
      <4>1. PICK v \in Banks : n \in Lands(v, {rom.scripts[k] : k \in DOMAIN rom.scripts})
        BY <3>2 DEF ScriptNodes
      <4> QED BY <4>1, <2>4
    <3> QED BY <3>1, <3>2
  <2> HIDE DEF from
  <2>7. /\ from \subseteq Closure(from)
        /\ \A n \in Closure(from) : Leads(n, TRUE) \subseteq Closure(from)
    BY <2>3, <2>6, ClosureHolds
  <2>8. Holding(Closure(from))
    BY <2>7 DEF Holding, from
  <2>9. Found \subseteq Closure(from)
    BY <2>8 DEF ReachInv, Within
  <2> QED BY <2>2, <2>9 DEF NothingInvented, from
<1> HIDE DEF Inv
<1> QED BY <1>1, <1>2, <1>3, PTL DEF Spec

-----------------------------------------------------------------------------
(* The audit.  Every row lies on the scan of some root, within the limit,  *)
(* so walking the roots once more meets every row.                         *)

RowView(k) == ViewOf(rom, list[k].bank)

\* p holds the addresses a scan of row k goes through in its first m steps.
Path(k, m, p) ==
    /\ p[0] = list[k].addr
    /\ \A j \in 0..(m - 1) :
          LET i == Code(rom, RowView(k), p[j])
          IN  i.op # "bad" /\ i.op \notin EndsScan /\ p[j + 1] = p[j] + i.len

OnPath(k, m, a) == \E p : Path(k, m, p) /\ p[m] = a

Reached(n) ==
    \E k \in DOMAIN list, m \in 0..(ScanLimit - 1) :
       list[k].root /\ OnPath(k, m, n[1]) /\ n = Node(RowView(k), n[1])

LabelInv ==
    /\ \A k \in DOMAIN list : Reached(At(k))
    /\ \A r \in Owed : r.root \/ Reached(NodeOf(r))
    /\ scan.on => \E k \in DOMAIN list : /\ list[k].root /\ scan.view = RowView(k)
                                         /\ OnPath(k, scan.n, scan.pc)

\* One more step of a path.
LEMMA PathGrows ==
  ASSUME NEW k, NEW m \in Nat, NEW p, Path(k, m, p),
         NEW i, i = Code(rom, RowView(k), p[m]), i.op # "bad", i.op \notin EndsScan
  PROVE  \E q : /\ Path(k, m + 1, q) /\ q[m + 1] = p[m] + i.len
                /\ \A j \in 0..m : q[j] = p[j]
<1> DEFINE q == [j \in 0..(m + 1) |-> IF j = m + 1 THEN p[m] + i.len ELSE p[j]]
<1>1. q[m + 1] = p[m] + i.len /\ \A j \in 0..m : q[j] = p[j]
  OBVIOUS
<1> HIDE DEF q
<1>2. q[0] = list[k].addr
  BY <1>1 DEF Path
<1>3. ASSUME NEW j \in 0..((m + 1) - 1)
      PROVE  LET c == Code(rom, RowView(k), q[j])
             IN  c.op # "bad" /\ c.op \notin EndsScan /\ q[j + 1] = q[j] + c.len
  <2>1. CASE j = m
    BY <1>1, <2>1
  <2>2. CASE j # m
    <3>1. j \in 0..(m - 1) /\ j \in 0..m /\ j + 1 \in 0..m
      BY <2>2
    <3>2. q[j] = p[j] /\ q[j + 1] = p[j + 1]
      BY <1>1, <3>1
    <3> QED BY <3>1, <3>2 DEF Path
  <2> QED BY <2>1, <2>2
<1>4. Path(k, m + 1, q)
  BY <1>2, <1>3 DEF Path
<1> QED BY <1>1, <1>4

\* A scan has no choice: two paths of one row agree.
LEMMA PathsAgree ==
  ASSUME NEW k, NEW m \in Nat, NEW n \in Nat, NEW p, NEW q,
         Path(k, m, p), Path(k, n, q)
  PROVE  \A j \in Nat : j <= m /\ j <= n => p[j] = q[j]
<1> DEFINE T == {x \in Nat : x <= m /\ x <= n /\ p[x] # q[x]}
<1> SUFFICES ASSUME T # {} PROVE FALSE
  OBVIOUS
<1>1. PICK x \in T : \A y \in T : x <= y
  BY LeastNat
<1>2. x \in Nat /\ x <= m /\ x <= n /\ p[x] # q[x]
  OBVIOUS
<1>3. x # 0
  BY <1>2 DEF Path
<1>4. PICK y \in Nat : x = y + 1
  <2>1. x - 1 \in Nat /\ x = (x - 1) + 1
    BY <1>2, <1>3
  <2> QED BY <2>1
<1>5. p[y] = q[y]
  BY <1>1, <1>2, <1>4
<1>6. y \in 0..(m - 1) /\ y \in 0..(n - 1)
  BY <1>2, <1>4
<1>7. p[y + 1] = q[y + 1]
  BY <1>5, <1>6 DEF Path
<1> QED BY <1>2, <1>4, <1>7

LEMMA RootReached ==
  ASSUME TypeInv, RowInv, NEW k \in DOMAIN list, list[k].root
  PROVE  Reached(At(k))
<1>1. list[k] \in Row /\ rom \in Roms
  BY DEF TypeInv
<1>2. At(k) = Node(RowView(k), list[k].addr) /\ At(k)[1] = list[k].addr
  BY <1>1, ViewType DEF Row, At, RowInv, RowView
<1> DEFINE p == [j \in 0..0 |-> list[k].addr]
<1>3. Path(k, 0, p) /\ p[0] = list[k].addr
  BY DEF Path
<1>4. 0 \in 0..(ScanLimit - 1)
  BY LimitAssumption
<1> QED BY <1>2, <1>3, <1>4 DEF Reached, OnPath

RootsReached == \A k \in DOMAIN list : list[k].root => Reached(At(k))

LEMMA RootReachedNext == TypeInv' /\ RowInv' => RootsReached'
<1>1. TypeInv /\ RowInv => RootsReached
  BY RootReached DEF RootsReached
<1> QED BY <1>1, PTL

LEMMA ReachedKept ==
  ASSUME rom' = rom,
         \A k \in DOMAIN list : /\ k \in DOMAIN list' /\ At(k)' = At(k)
                                /\ list[k].root => list'[k].root
  PROVE  /\ \A k \in DOMAIN list : RowView(k)' = RowView(k)
         /\ \A k \in DOMAIN list : \A m, a : OnPath(k, m, a) => OnPath(k, m, a)'
         /\ \A n : Reached(n) => Reached(n)'
<1>1. ASSUME NEW k \in DOMAIN list
      PROVE  list'[k].addr = list[k].addr /\ RowView(k)' = RowView(k)
  BY DEF At, RowView
<1>2. ASSUME NEW k \in DOMAIN list, NEW m, NEW p, Path(k, m, p)
      PROVE  Path(k, m, p)'
  BY <1>1, <1>2 DEF Path
<1>3. ASSUME NEW k \in DOMAIN list, NEW m, NEW a, OnPath(k, m, a)
      PROVE  OnPath(k, m, a)'
  BY <1>2, <1>3 DEF OnPath
<1>4. ASSUME NEW n, Reached(n) PROVE Reached(n)'
  <2>1. PICK k \in DOMAIN list, m \in 0..(ScanLimit - 1) :
           list[k].root /\ OnPath(k, m, n[1]) /\ n = Node(RowView(k), n[1])
    BY <1>4 DEF Reached
  <2>2. k \in DOMAIN list' /\ list'[k].root /\ OnPath(k, m, n[1])' /\ RowView(k)' = RowView(k)
    BY <1>1, <1>3, <2>1
  <2> QED BY <2>1, <2>2 DEF Reached, Node
<1> QED BY <1>1, <1>3, <1>4

LEMMA LabelStep ==
  ASSUME TypeInv, RowInv, ScanInv, LabelInv, [DiscoveryNext]_discoveryVars
  PROVE  LabelInv'
<1>1. TypeInv' /\ RowInv'
  BY TypeStep, RowStep
<1>2. rom' = rom
  BY ListKept, Addition
<1>3. \A k \in DOMAIN list : /\ k \in DOMAIN list' /\ At(k)' = At(k)
                             /\ list[k].root => list'[k].root
  <2>1. CASE AddNext
    BY <2>1, ListGrows
  <2>2. CASE ~AddNext
    BY <2>2, ListKept DEF At
  <2> QED BY <2>1, <2>2
<1>4. /\ \A k \in DOMAIN list : RowView(k)' = RowView(k)
      /\ \A k \in DOMAIN list : \A m, a : OnPath(k, m, a) => OnPath(k, m, a)'
      /\ \A n : Reached(n) => Reached(n)'
  BY <1>2, <1>3, ReachedKept
<1>5. ASSUME NEW k \in DOMAIN list' PROVE Reached(At(k))'
  <2>1. CASE k \in DOMAIN list
    <3>1. PICK n : n = At(k)
      OBVIOUS
    <3>2. Reached(n)' /\ At(k)' = n
      BY <1>3, <1>4, <2>1, <3>1 DEF LabelInv
    <3> QED BY <3>2 DEF Reached
  <2>2. CASE k \notin DOMAIN list
    <3>1. AddNext
      BY <2>2, ListKept
    <3>2. PICK r : r = Head(todo)
      OBVIOUS
    <3>3. Probable(rom, r.view, r.addr) /\ At(k)' = NodeOf(r) /\ (r.root => list'[k].root)
      BY <2>2, <3>1, <3>2, NewRow
    <3>4. r \in Owed
      BY <3>1, <3>2, <3>3, OwedTail
    <3>5. CASE r.root
      BY <1>1, <3>3, <3>5, RootReachedNext DEF RootsReached
    <3>6. CASE Reached(NodeOf(r))
      <4>1. PICK n : n = NodeOf(r)
        OBVIOUS
      <4>2. Reached(n)' /\ At(k)' = n
        BY <1>4, <3>3, <3>6, <4>1
      <4> QED BY <4>2 DEF Reached
    <3> QED BY <3>4, <3>5, <3>6 DEF LabelInv
  <2> QED BY <2>1, <2>2
<1>6. ASSUME NEW r \in Owed' PROVE r.root \/ Reached(NodeOf(r))'
  <2> SUFFICES ASSUME NEW n, n = NodeOf(r), ~r.root PROVE Reached(n)'
    BY DEF Reached, NodeOf
  <2>1. CASE AddNext
    <3>1. r \in Owed
      BY <1>6, <2>1, OwedTail
    <3> QED BY <1>4, <3>1 DEF LabelInv
  <2>2. CASE ScanInstruction
    <3>1. /\ Askable(Code(rom, scan.view, scan.pc), r)
          /\ scan.on /\ scan.n < ScanLimit
      BY <1>6, <2>2, ScannedInstr DEF Owed, ScanInstruction
    <3>2. r = AddLabel(scan.view, scan.pc)
      BY <3>1 DEF Askable, AddEntry, Request
    <3>3. n = Node(scan.view, scan.pc) /\ n[1] = scan.pc
      BY <3>2 DEF NodeOf, Node, AddLabel, Request
    <3>4. scan.n \in 0..(ScanLimit - 1)
      BY <3>1, LimitAssumption DEF TypeInv, Scans
    <3>5. Reached(n)
      BY <3>1, <3>3, <3>4 DEF LabelInv, Reached
    <3> QED BY <1>4, <3>5
  <2>3. CASE ScanMeetsBadCode \/ ScanLimitReached
    <3>1. todo' \in {<<>>, <<AddScanRoot(scan.view, scan.pc)>>}
      BY <2>3 DEF ScanMeetsBadCode, ScanLimitReached, Scanning
    <3>2. r = AddScanRoot(scan.view, scan.pc)
      BY <1>6, <3>1, ElemsNone, ElemsOne DEF Owed
    <3> QED BY <3>2 DEF AddScanRoot, Request
  <2>4. CASE ScriptPass
    <3>1. PICK found \in {<<>>, rom.scripts}, v \in Banks : todo' = EntriesFor(v, found)
      BY <2>4 DEF ScriptPass
    <3>2. rom.scripts \in Seq(Nat)
      BY RomAssumption DEF TypeInv
    <3>3. found \in Seq(Nat)
      <4>1. CASE found = <<>>
        BY <4>1
      <4> QED BY <4>1, <3>2
    <3>4. Elems(todo') = {AddEntry(v, a) : a \in Elems(found)}
      BY <3>1, <3>3, ElemsEntries
    <3> QED BY <1>6, <3>4 DEF Owed, AddEntry, Request
  <2>5. CASE UNCHANGED todo
    <3>1. r \in Owed
      BY <1>2, <1>6, <2>5 DEF Owed
    <3> QED BY <1>4, <3>1 DEF LabelInv
  <2> QED BY <2>1, <2>2, <2>3, <2>4, <2>5 DEF DiscoveryNext, discoveryVars,
               SeedsDone, PickAhead, PickBehind, StartScan, ScriptPassDone, Finish
<1>7. ASSUME scan'.on
      PROVE  \E k \in DOMAIN list' : /\ list'[k].root /\ scan'.view = RowView(k)'
                                     /\ OnPath(k, scan.n, scan.pc)'
  <2>1. CASE scan' = scan
    <3>1. PICK k \in DOMAIN list : /\ list[k].root /\ scan.view = RowView(k)
                                   /\ OnPath(k, scan.n, scan.pc)
      BY <1>7, <2>1 DEF LabelInv
    <3>2. PICK m, a : m = scan.n /\ a = scan.pc
      OBVIOUS
    <3>3. OnPath(k, m, a)' /\ m = scan'.n /\ a = scan'.pc
      BY <1>4, <2>1, <3>1, <3>2
    <3>4. OnPath(k, scan.n, scan.pc)'
      BY <3>3 DEF OnPath
    <3> QED BY <1>3, <1>4, <2>1, <3>1, <3>4
  <2>2. CASE ScanInstruction
    <3>1. PICK k \in DOMAIN list : /\ list[k].root /\ scan.view = RowView(k)
                                   /\ OnPath(k, scan.n, scan.pc)
      BY <2>2, ScannedInstr DEF LabelInv
    <3>2. PICK p : Path(k, scan.n, p) /\ p[scan.n] = scan.pc
      BY <3>1 DEF OnPath
    <3>3. PICK i : i = Code(rom, scan.view, scan.pc)
      OBVIOUS
    <3>4. /\ i.op # "bad" /\ i.op \notin EndsScan
          /\ scan' = [scan EXCEPT !.pc = @ + i.len, !.n = @ + 1]
      BY <1>7, <2>2, <3>3 DEF ScanInstruction, Idle
    <3>5. /\ scan'.pc = scan.pc + i.len /\ scan'.n = scan.n + 1 /\ scan'.view = scan.view
          /\ scan.n \in Nat
      BY <3>4, LimitAssumption DEF TypeInv, Scans
    <3>6. PICK q : Path(k, scan.n + 1, q) /\ q[scan.n + 1] = scan.pc + i.len
      BY <3>1, <3>2, <3>3, <3>4, <3>5, PathGrows
    <3>7. PICK m, a : m = scan'.n /\ a = scan'.pc
      OBVIOUS
    <3>8. OnPath(k, m, a)
      BY <3>5, <3>6, <3>7 DEF OnPath
    <3>9. OnPath(k, m, a)'
      BY <1>4, <3>8
    <3>10. OnPath(k, scan.n, scan.pc)'
      BY <3>7, <3>9 DEF OnPath
    <3> QED BY <1>3, <1>4, <3>1, <3>5, <3>10
  <2>3. CASE PickAhead \/ PickBehind
    <3>1. PICK k \in DOMAIN list : StartScan(k) /\ list[k].root
      BY <2>3 DEF PickAhead, PickBehind, Ahead, Behind, Unscanned
    <3>2. /\ scan'.view = RowView(k) /\ scan'.pc = list[k].addr /\ scan'.n = 0
          /\ list' = list
      BY <3>1 DEF StartScan, RowView
    <3>3. PICK p : p = [j \in 0..0 |-> list[k].addr]
      OBVIOUS
    <3>4. Path(k, 0, p)' /\ p[0] = list'[k].addr
      BY <3>2, <3>3 DEF Path
    <3>5. OnPath(k, scan.n, scan.pc)'
      BY <3>2, <3>4 DEF OnPath, Path
    <3> QED BY <1>4, <3>1, <3>2, <3>5
  <2>4. CASE ScanMeetsBadCode \/ ScanLimitReached
    BY <1>7, <2>4 DEF ScanMeetsBadCode, ScanLimitReached, Idle
  <2>5. CASE AddNext
    BY <2>1, <2>5, Addition
  <2> QED BY <2>1, <2>2, <2>3, <2>4, <2>5 DEF DiscoveryNext, discoveryVars,
               SeedsDone, ScriptPass, ScriptPassDone, Finish
<1> QED BY <1>5, <1>6, <1>7 DEF LabelInv


-----------------------------------------------------------------------------
(* The audit's own invariant.                                              *)

Sites == [kind : {"direct", "runtime", "computed", "table"}, node : Nodes]

Audits == [sites : Seq(Sites), missing : Nat, computed : Nat,
           unresolved : Nat, truncated : BOOLEAN]

Walks == [root : Nat, on : BOOLEAN, pc : Nat, n : 0..ScanLimit]

NotBegun ==
    /\ audit = [sites |-> <<>>, missing |-> 0, computed |-> 0, unresolved |-> 0,
                truncated |-> FALSE]
    /\ seen = {}
    /\ walk = [root |-> 0, on |-> FALSE, pc |-> 0, n |-> 0]

\* The report is exactly about what has been seen.
ReportInv ==
    /\ audit \in Audits /\ ~audit.truncated
    /\ seen \subseteq Found
    /\ Len(audit.sites) = Cardinality(seen \cap Dispatches)
    /\ {audit.sites[k].node : k \in DOMAIN audit.sites} = seen \cap Dispatches
    /\ audit.missing = Cardinality(seen \cap Missing)

\* All of the scan of row k has been seen.
PathSeen(k) ==
    \A m \in 0..(ScanLimit - 1) : \A a :
       OnPath(k, m, a) /\ Probable(rom, RowView(k), a) => Node(RowView(k), a) \in seen

\* The walk is on the scan of its root, has seen what lies behind it, and
\* all of the roots before.
WalkInv ==
    /\ walk \in Walks
    /\ walk.on =>
          /\ walk.root \in DOMAIN list
          /\ walk.pc \in Addrs => RunsIn(Here) = View
          /\ Probable(rom, View, walk.pc) => Here \in Found
          /\ \E p : /\ Path(walk.root, walk.n, p) /\ p[walk.n] = walk.pc
                    /\ \A j \in 0..(walk.n - 1) : Node(View, p[j]) \in seen
    /\ \A k \in DOMAIN list :
          k <= walk.root /\ Walked(k) => PathSeen(k) \/ (walk.on /\ k = walk.root)

AuditInv == /\ DiscoveryInv /\ LabelInv
            /\ ReportInv /\ WalkInv
            /\ Auditing \/ NotBegun

LEMMA FoundFinite ==
  ASSUME TypeInv
  PROVE  IsFiniteSet(Found) /\ Cardinality(Found) <= Len(list) /\ Found \subseteq Nodes
<1>1. Len(list) \in Nat /\ DOMAIN list = 1..Len(list) /\ \A k \in DOMAIN list : list[k] \in Row
  BY DEF TypeInv
<1> DEFINE f == [k \in 1..Len(list) |-> At(k)]
<1>2. f \in Surjection(1..Len(list), Found)
  BY <1>1, FoundAt DEF Surjection
<1>3. IsFiniteSet(1..Len(list)) /\ Cardinality(1..Len(list)) = Len(list)
  BY <1>1, FS_Interval
<1>4. Found \subseteq Nodes
  BY <1>1, FoundAt DEF At, Row, Nodes
<1> QED BY <1>2, <1>3, <1>4, FS_Surjection

\* Before the audit, its part of the invariant says nothing.
LEMMA NotBegunFits ==
  ASSUME TypeInv, NotBegun
  PROVE  ReportInv /\ WalkInv
<1>1. /\ audit.sites = <<>> /\ audit.missing = 0 /\ audit.truncated = FALSE
      /\ seen = {} /\ ~walk.on /\ walk.root = 0
  BY DEF NotBegun
<1>2. audit \in Audits
  BY DEF NotBegun, Audits
<1>3. walk \in Walks
  BY LimitAssumption DEF NotBegun, Walks
<1>4. seen \cap Dispatches = {} /\ seen \cap Missing = {} /\ Cardinality({}) = 0
  BY <1>1, FS_EmptySet
<1>5. DOMAIN audit.sites = {} /\ Len(audit.sites) = 0
  BY <1>1
<1>6. ReportInv
  BY <1>1, <1>2, <1>4, <1>5 DEF ReportInv
<1>7. \A k \in DOMAIN list : ~(k <= walk.root)
  BY <1>1 DEF TypeInv
<1> QED BY <1>1, <1>3, <1>6, <1>7 DEF WalkInv

LEMMA NotBegunFitsNext == TypeInv' /\ NotBegun' => (ReportInv /\ WalkInv)'
<1>1. TypeInv /\ NotBegun => ReportInv /\ WalkInv
  BY NotBegunFits
<1> QED BY <1>1, PTL

\* Discovery has stopped when the audit runs.
LEMMA AuditAfterDiscovery ==
  ASSUME DiscoveryInv, Auditing
  PROVE  ~DiscoveryNext
<1>1. todo = <<>> /\ phase = "done" /\ script # "running"
  BY DEF DiscoveryInv, WorkInv, Auditing, ScanInv
<1> QED BY <1>1 DEF DiscoveryNext, AddNext, ScanInstruction, ScanMeetsBadCode,
        ScanLimitReached, Scanning, SeedsDone, PickAhead, PickBehind, Choosing,
        ScriptPass, ScriptPassDone, Finish

\* What one instruction adds to the report.
LEMMA ReportAdds ==
  ASSUME audit \in Audits, Len(audit.sites) < MaxCandidates, Here \in Nodes,
         NEW i, i = Code(rom, View, walk.pc), i.table \in Seq(Nat),
         RepeatedEntries(rom, View, walk.pc) \in Seq(Nat), NEW b \in Reports(audit, i)
  PROVE  /\ b \in Audits /\ b.truncated = audit.truncated
         /\ i.op \notin {"call", "jmp", "icall", "ijmp"} => b = audit
         /\ i.op \in {"call", "jmp", "icall", "ijmp"} =>
               \E s \in Sites : s.node = Here /\ b.sites = Append(audit.sites, s)
         /\ b.missing = IF i.op \in {"call", "jmp"} /\ i.target \notin External
                              /\ ~RepeatedDirect(rom, View, walk.pc)
                              /\ ~contains_for_rom(i.target)
                        THEN audit.missing + 1 ELSE audit.missing
<1> DEFINE add(kind) == [audit EXCEPT !.sites = Append(@, [kind |-> kind, node |-> Here])]
<1>1. ~(Len(audit.sites) >= MaxCandidates) /\ HasRoom(audit)
  BY LimitAssumption DEF HasRoom, Audits
<1>2. \A kind : audit_append(audit, kind) = add(kind)
  BY <1>1 DEF audit_append
<1>3. ASSUME NEW kind \in {"direct", "runtime", "computed", "table"}
      PROVE  /\ add(kind) \in Audits /\ add(kind).truncated = audit.truncated
             /\ add(kind).missing = audit.missing
             /\ add(kind).computed = audit.computed
             /\ add(kind).unresolved = audit.unresolved
             /\ \E s \in Sites : s.node = Here /\ add(kind).sites = Append(audit.sites, s)
  <2> DEFINE s == [kind |-> kind, node |-> Here]
  <2>1. s \in Sites /\ s.node = Here
    BY DEF Sites
  <2>2. add(kind) = [audit EXCEPT !.sites = Append(@, s)]
    OBVIOUS
  <2> HIDE DEF s, add
  <2>3. Append(audit.sites, s) \in Seq(Sites)
    BY <2>1 DEF Audits
  <2>4. add(kind) \in Audits
    BY <2>2, <2>3 DEF Audits
  <2>5. /\ add(kind).truncated = audit.truncated
        /\ add(kind).missing = audit.missing
        /\ add(kind).computed = audit.computed
        /\ add(kind).unresolved = audit.unresolved
        /\ add(kind).sites = Append(audit.sites, s)
    BY <2>2 DEF Audits
  <2> QED BY <2>1, <2>4, <2>5
<1> HIDE DEF add
<1>7. RepeatedDirect(rom, View, walk.pc) => i.op = "jmp"
  <2> SUFFICES ASSUME RepeatedDirect(rom, View, walk.pc) PROVE i.op = "jmp"
    OBVIOUS
  <2>1. DirectDispatch(rom, View, walk.pc, i.len)
    BY DEF RepeatedDirect
  <2> QED BY <2>1 DEF DirectDispatch
<1>8. ASSUME NEW entries \in Seq(Nat), b = audit_record_jump_table(audit, entries)
      PROVE  /\ b \in Audits /\ b.truncated = audit.truncated /\ b.missing = audit.missing
             /\ \E s \in Sites : s.node = Here /\ b.sites = Append(audit.sites, s)
  <2> DEFINE d == add("table")
             lost == {k \in DOMAIN entries : Probable(rom, View, entries[k])
                                        /\ ~contains_for_rom(entries[k])}
  <2>1. /\ d \in Audits /\ d.truncated = audit.truncated /\ d.missing = audit.missing
        /\ \E s \in Sites : s.node = Here /\ d.sites = Append(audit.sites, s)
    BY <1>3
  <2>2. b = [d EXCEPT !.unresolved = @ + Cardinality(lost)]
    BY <1>1, <1>2, <1>8 DEF audit_record_jump_table
  <2>3. lost \subseteq 1..Len(entries) /\ Len(entries) \in Nat
    OBVIOUS
  <2> HIDE DEF d, lost
  <2>4. Cardinality(lost) \in Nat
    <3>1. IsFiniteSet(1..Len(entries))
      BY <2>3, FS_Interval
    <3>2. IsFiniteSet(lost)
      BY <2>3, <3>1, FS_Subset
    <3> QED BY <3>2, FS_CardinalityType
  <2>5. d.unresolved + Cardinality(lost) \in Nat
    BY <2>1, <2>4 DEF Audits
  <2>6. b \in Audits /\ b.truncated = d.truncated /\ b.sites = d.sites /\ b.missing = d.missing
    BY <2>1, <2>2, <2>5 DEF Audits
  <2> QED BY <2>1, <2>6
<1>9. CASE RepeatedDirect(rom, View, walk.pc)
  <2>1. b = audit_record_jump_table(audit, RepeatedEntries(rom, View, walk.pc))
    BY <1>7, <1>9 DEF Reports
  <2> QED BY <1>7, <1>8, <1>9, <2>1
<1>4. CASE i.op \in {"call", "jmp"} /\ ~RepeatedDirect(rom, View, walk.pc)
  <2>1. b = audit_record_direct(audit, i)
    BY <1>4 DEF Reports
  <2>2. b = IF i.target \in External \/ contains_for_rom(i.target) THEN add("direct")
            ELSE [add("direct") EXCEPT !.missing = @ + 1]
    BY <1>1, <1>2, <2>1 DEF audit_record_direct
  <2>3. CASE i.target \in External \/ contains_for_rom(i.target)
    BY <1>3, <1>4, <2>2, <2>3
  <2>4. CASE ~(i.target \in External \/ contains_for_rom(i.target))
    <3> DEFINE d == add("direct")
    <3>1. /\ d \in Audits /\ d.truncated = audit.truncated /\ d.missing = audit.missing
          /\ \E s \in Sites : s.node = Here /\ d.sites = Append(audit.sites, s)
      BY <1>3
    <3>2. b = [d EXCEPT !.missing = @ + 1]
      BY <2>2, <2>4
    <3> HIDE DEF d
    <3>3. d.missing + 1 \in Nat
      BY <3>1 DEF Audits
    <3>4. b \in Audits /\ b.truncated = d.truncated /\ b.sites = d.sites /\ b.missing = d.missing + 1
      BY <3>1, <3>2, <3>3 DEF Audits
    <3> QED BY <1>4, <2>4, <3>1, <3>4
  <2> QED BY <2>3, <2>4
<1>5. CASE i.op \in {"icall", "ijmp"}
  <2>1. CASE \E allowed \in BOOLEAN : b = audit_record_computed(audit, allowed)
    <3>1. PICK allowed \in BOOLEAN : b = audit_record_computed(audit, allowed)
      BY <2>1
    <3>2. PICK kind \in {"runtime", "computed"} :
             b = add(kind) \/ b = [add(kind) EXCEPT !.computed = @ + 1]
      BY <1>2, <3>1 DEF audit_record_computed
    <3> DEFINE d == add(kind)
    <3>3. /\ d \in Audits /\ d.truncated = audit.truncated /\ d.missing = audit.missing
          /\ \E s \in Sites : s.node = Here /\ d.sites = Append(audit.sites, s)
      BY <1>3
    <3>4. b = d \/ b = [d EXCEPT !.computed = @ + 1]
      BY <3>2
    <3> HIDE DEF d
    <3>5. d.computed + 1 \in Nat
      BY <3>3 DEF Audits
    <3>6. b \in Audits /\ b.truncated = d.truncated /\ b.sites = d.sites /\ b.missing = d.missing
      BY <3>3, <3>4, <3>5 DEF Audits
    <3> QED BY <1>5, <3>3, <3>6
  <2>2. CASE b = audit_record_jump_table(audit, i.table)
    BY <1>5, <1>8, <2>2
  <2> QED BY <1>5, <1>7, <2>1, <2>2 DEF Reports
<1>6. CASE i.op \notin {"call", "jmp", "icall", "ijmp"}
  BY <1>6, <1>7 DEF Reports
<1> QED BY <1>4, <1>5, <1>6, <1>9

LEMMA SameReport ==
  ASSUME UNCHANGED <<rom, list>>
  PROVE  /\ Found' = Found /\ Dispatches' = Dispatches /\ Missing' = Missing
         /\ \A k : RowView(k)' = RowView(k) /\ (Walked(k)' <=> Walked(k))
         /\ \A k, m, p : Path(k, m, p)' <=> Path(k, m, p)
         /\ \A k, m, a : OnPath(k, m, a)' <=> OnPath(k, m, a)
         /\ \A n : RunsIn(n)' = RunsIn(n)
<1>1. Found' = Found /\ (\A n : RunsIn(n)' = RunsIn(n)) /\ \A k : RowView(k)' = RowView(k)
  BY DEF Found, RunsIn, RowView
<1>2. Dispatches' = Dispatches
  BY <1>1 DEF Dispatches
<1>3. Missing' = Missing
  BY <1>1, <1>2 DEF Missing
<1>4. \A k : Walked(k)' <=> Walked(k)
  BY DEF Walked
<1>5. \A k, m, p : Path(k, m, p)' <=> Path(k, m, p)
  BY <1>1 DEF Path
<1>6. \A k, m, a : OnPath(k, m, a)' <=> OnPath(k, m, a)
  BY <1>5 DEF OnPath
<1> QED BY <1>1, <1>2, <1>3, <1>4, <1>5, <1>6

\* What has been seen stays seen.
LEMMA PathSeenKept ==
  ASSUME UNCHANGED <<rom, list>>, seen \subseteq seen', NEW k, PathSeen(k)
  PROVE  PathSeen(k)'
  BY SameReport DEF PathSeen

\* Where the walk is at code, it is at a row.
LEMMA WalkAt ==
  ASSUME AuditInv, walk.on, Probable(rom, View, walk.pc)
  PROVE  /\ View \in Banks /\ View = RowView(walk.root) /\ rom \in Roms
         /\ Here \in Found /\ Here \in Nodes /\ Here = Node(View, walk.pc)
         /\ Here[1] = walk.pc /\ RunsIn(Here) = View
         /\ walk.pc \in Addrs
         /\ Code(rom, View, walk.pc).table \in Seq(Nat)
         /\ RepeatedEntries(rom, View, walk.pc) \in Seq(Nat)
<1>1. walk.root \in DOMAIN list /\ TypeInv
  BY DEF AuditInv, WalkInv, DiscoveryInv
<1>2. list[walk.root] \in Row /\ rom \in Roms
  BY <1>1 DEF TypeInv
<1>3. View \in Banks
  BY <1>2, ViewType DEF View, Row
<1>4. /\ walk.pc \in Addrs /\ Code(rom, View, walk.pc).table \in Seq(Nat)
      /\ RepeatedEntries(rom, View, walk.pc) \in Seq(Nat)
  BY <1>2, <1>3, CodeType, RepeatedType
<1>5. Here \in Found /\ RunsIn(Here) = View
  BY <1>4 DEF AuditInv, WalkInv
<1> QED BY <1>1, <1>2, <1>3, <1>4, <1>5, FoundFinite DEF RowView, View, Here, Node

LEMMA ReportStep ==
  ASSUME AuditInv, ScanOne, UNCHANGED discoveryVars
  PROVE  /\ ReportInv' /\ seen' = seen \cup {Here}
<1> DEFINE i == Code(rom, View, walk.pc)
<1>1. walk.on /\ i.op # "bad" /\ Probable(rom, View, walk.pc)
  BY DEF ScanOne, Probable
<1>2. /\ Here \in Found /\ Here \in Nodes /\ Here = Node(View, walk.pc) /\ Here[1] = walk.pc
      /\ RunsIn(Here) = View /\ i.table \in Seq(Nat)
      /\ RepeatedEntries(rom, View, walk.pc) \in Seq(Nat)
  BY <1>1, WalkAt
<1>3. TypeInv /\ ReportInv /\ UNCHANGED <<rom, list>>
  BY DEF AuditInv, DiscoveryInv, discoveryVars
<1>4. Found' = Found /\ Dispatches' = Dispatches /\ Missing' = Missing
  BY <1>3, SameReport
<1>5. CASE Here \in seen
  <2>1. UNCHANGED <<audit, seen>>
    BY <1>5 DEF ScanOne, Seen
  <2>2. ReportInv'
    BY <1>3, <1>4, <2>1 DEF ReportInv
  <2> QED BY <1>5, <2>1, <2>2
<1>6. CASE Here \notin seen
  <2>1. /\ IsFiniteSet(seen) /\ Cardinality(seen) \in Nat
        /\ Cardinality(seen) < MaxCandidates
    <3>1. IsFiniteSet(Found) /\ Cardinality(Found) <= Len(list) /\ Len(list) <= MaxCandidates
      BY <1>3, FoundFinite DEF TypeInv
    <3>2. Len(list) \in Nat /\ MaxCandidates \in Nat /\ Cardinality(Found) \in Nat
      BY <1>3, <3>1, LimitAssumption, FS_CardinalityType DEF TypeInv
    <3>3. IsFiniteSet(Found \ {Here}) /\ Cardinality(Found \ {Here}) = Cardinality(Found) - 1
      BY <1>2, <3>1, FS_RemoveElement
    <3>4. seen \subseteq Found \ {Here}
      BY <1>3, <1>6 DEF ReportInv
    <3>5. IsFiniteSet(seen) /\ Cardinality(seen) <= Cardinality(Found \ {Here})
      BY <3>3, <3>4, FS_Subset
    <3>6. Cardinality(seen) \in Nat
      BY <3>5, FS_CardinalityType
    <3> QED BY <3>1, <3>2, <3>3, <3>5, <3>6
  <2>2. seen' = seen \cup {Here} /\ audit' \in Reports(audit, i)
    BY <1>6, <2>1 DEF ScanOne, Seen
  <2>3. /\ IsFiniteSet(seen \cap Dispatches) /\ IsFiniteSet(seen \cap Missing)
        /\ Cardinality(seen \cap Dispatches) <= Cardinality(seen)
        /\ Cardinality(seen \cap Dispatches) \in Nat
        /\ Cardinality(seen \cap Missing) \in Nat
    BY <2>1, FS_Subset, FS_CardinalityType
  <2>4. audit \in Audits /\ Len(audit.sites) < MaxCandidates
    BY <1>3, <2>1, <2>3, LimitAssumption DEF ReportInv
  <2>5. /\ audit' \in Audits /\ audit'.truncated = audit.truncated
        /\ i.op \notin {"call", "jmp", "icall", "ijmp"} => audit' = audit
        /\ i.op \in {"call", "jmp", "icall", "ijmp"} =>
             \E s \in Sites : s.node = Here /\ audit'.sites = Append(audit.sites, s)
        /\ audit'.missing = IF i.op \in {"call", "jmp"} /\ i.target \notin External
                               /\ ~RepeatedDirect(rom, View, walk.pc)
                               /\ ~contains_for_rom(i.target)
                            THEN audit.missing + 1 ELSE audit.missing
    <3>0. PICK j : j = i
      OBVIOUS
    <3>1. PICK b : b = audit' /\ b \in Reports(audit, j)
      BY <2>2, <3>0
    <3>2. j = Code(rom, View, walk.pc)
      BY <3>0
    <3> HIDE DEF i
    <3> QED BY <1>2, <2>4, <3>0, <3>1, <3>2, ReportAdds
  <2>6. Here \in Dispatches <=> i.op \in {"call", "jmp", "icall", "ijmp"}
    BY <1>2 DEF Dispatches
  <2>7. contains_for_rom(i.target) <=> Node(View, i.target) \in Found
    BY DEF contains_for_rom, Holds, Node, Found
  <2>8. Here \in Missing <=> /\ i.op \in {"call", "jmp"} /\ i.target \notin External
                             /\ ~RepeatedDirect(rom, View, walk.pc)
                             /\ ~contains_for_rom(i.target)
    BY <1>2, <2>6, <2>7 DEF Missing
  <2> HIDE DEF i
  <2>9. audit'.missing = Cardinality(seen' \cap Missing)
    <3>1. CASE Here \in Missing
      <4>1. seen' \cap Missing = (seen \cap Missing) \cup {Here}
        BY <2>2, <3>1
      <4>2. Cardinality(seen' \cap Missing) = Cardinality(seen \cap Missing) + 1
        BY <1>6, <2>3, <4>1, FS_AddElement
      <4> QED BY <1>3, <2>5, <2>8, <3>1, <4>2 DEF ReportInv
    <3>2. CASE Here \notin Missing
      <4>1. seen' \cap Missing = seen \cap Missing
        BY <2>2, <3>2
      <4> QED BY <1>3, <2>5, <2>8, <3>2, <4>1 DEF ReportInv
    <3> QED BY <3>1, <3>2
  <2>10. /\ Len(audit'.sites) = Cardinality(seen' \cap Dispatches)
         /\ {audit'.sites[k].node : k \in DOMAIN audit'.sites} = seen' \cap Dispatches
    <3>1. CASE Here \in Dispatches
      <4>1. seen' \cap Dispatches = (seen \cap Dispatches) \cup {Here}
        BY <2>2, <3>1
      <4>2. Cardinality(seen' \cap Dispatches) = Cardinality(seen \cap Dispatches) + 1
        BY <1>6, <2>3, <4>1, FS_AddElement
      <4>3. PICK s \in Sites : s.node = Here /\ audit'.sites = Append(audit.sites, s)
        BY <2>5, <2>6, <3>1
      <4> DEFINE old == audit.sites
                 new == audit'.sites
      <4>4. old \in Seq(Sites) /\ new = Append(old, s)
        BY <2>4, <4>3 DEF Audits
      <4>5. /\ Len(old) = Cardinality(seen \cap Dispatches)
            /\ {old[k].node : k \in DOMAIN old} = seen \cap Dispatches
        BY <1>3 DEF ReportInv
      <4> HIDE DEF old, new
      <4>6. /\ Len(new) = Len(old) + 1 /\ DOMAIN new = DOMAIN old \cup {Len(old) + 1}
            /\ new[Len(old) + 1] = s /\ \A k \in DOMAIN old : new[k] = old[k]
        BY <4>4
      <4>7. {new[k].node : k \in DOMAIN new} = {old[k].node : k \in DOMAIN old} \cup {s.node}
        BY <4>6
      <4> QED BY <4>1, <4>2, <4>3, <4>5, <4>6, <4>7 DEF new
    <3>2. CASE Here \notin Dispatches
      <4>1. seen' \cap Dispatches = seen \cap Dispatches
        BY <2>2, <3>2
      <4> QED BY <1>3, <2>5, <2>6, <3>2, <4>1 DEF ReportInv
    <3> QED BY <3>1, <3>2
  <2>11. ReportInv'
    BY <1>2, <1>3, <1>4, <2>2, <2>5, <2>9, <2>10 DEF ReportInv
  <2> QED BY <2>2, <2>11
<1> QED BY <1>5, <1>6

\* The walk of a root ends where its scan does, with all of it seen.
LEMMA WalkEnds ==
  ASSUME AuditInv, walk.on, UNCHANGED <<rom, list>>,
         NEW k, k = walk.root,
         \/ walk.n = ScanLimit /\ seen \subseteq seen'
         \/ Code(rom, View, walk.pc).op = "bad" /\ seen \subseteq seen'
         \/ /\ Code(rom, View, walk.pc).op \in EndsScan
            /\ seen' = seen \cup {Here}
  PROVE  PathSeen(k)'
<1>1. walk.n \in Nat /\ ScanLimit \in Nat
  BY LimitAssumption DEF AuditInv, WalkInv, Walks
<1>2. PICK p : /\ Path(k, walk.n, p) /\ p[walk.n] = walk.pc
               /\ \A j \in 0..(walk.n - 1) : Node(View, p[j]) \in seen
  BY DEF AuditInv, WalkInv
<1>3. View = RowView(k) /\ Here = Node(RowView(k), walk.pc)
  BY DEF View, RowView, Here, Node
<1> SUFFICES ASSUME NEW m \in 0..(ScanLimit - 1), NEW a,
                    OnPath(k, m, a), Probable(rom, RowView(k), a)
             PROVE  Node(RowView(k), a) \in seen'
  BY SameReport DEF PathSeen
<1>4. PICK q : Path(k, m, q) /\ q[m] = a
  BY DEF OnPath
<1>5. m \in Nat /\ m < ScanLimit
  BY <1>1
<1>6. \A j \in Nat : j <= walk.n /\ j <= m => p[j] = q[j]
  <2>1. Path(k, walk.n, p) /\ Path(k, m, q)
    BY <1>2, <1>4
  <2> QED BY <1>1, <1>5, <2>1, PathsAgree
<1>7. CASE m < walk.n
  <2>1. p[m] = q[m]
    <3>1. m <= walk.n /\ m <= m
      BY <1>1, <1>5, <1>7
    <3> QED BY <1>5, <1>6, <3>1
  <2>2. m \in 0..(walk.n - 1)
    BY <1>1, <1>5, <1>7
  <2> QED BY <1>2, <1>3, <1>4, <2>1, <2>2
<1>8. CASE m >= walk.n
  <2>1. p[walk.n] = q[walk.n]
    <3>1. walk.n <= walk.n /\ walk.n <= m
      BY <1>1, <1>5, <1>8
    <3> QED BY <1>1, <1>6, <3>1
  <2>2. walk.n # ScanLimit
    BY <1>1, <1>5, <1>8
  <2>3. CASE m = walk.n
    BY <1>2, <1>3, <1>4, <2>1, <2>2, <2>3 DEF Probable
  <2>4. CASE m # walk.n
    <3>1. walk.n \in 0..(m - 1)
      BY <1>1, <1>5, <1>8, <2>4
    <3>2. /\ Code(rom, RowView(k), q[walk.n]).op # "bad"
          /\ Code(rom, RowView(k), q[walk.n]).op \notin EndsScan
      BY <1>4, <3>1 DEF Path
    <3> QED BY <1>2, <1>3, <2>1, <2>2, <3>2
  <2> QED BY <2>3, <2>4
<1> QED BY <1>1, <1>5, <1>7, <1>8

LEMMA WalkStep ==
  ASSUME AuditInv, PickRoot \/ AuditDone \/ ScanOne \/ ScanEnds,
         UNCHANGED discoveryVars
  PROVE  WalkInv'
<1>1. /\ UNCHANGED <<rom, list>> /\ TypeInv /\ RowInv /\ WalkInv /\ Auditing
      /\ walk \in Walks /\ Closed
  BY ClosedWhenDone DEF AuditInv, DiscoveryInv, discoveryVars, WalkInv, PickRoot,
     AuditDone, ScanOne, ScanEnds
<1>2. /\ Found' = Found
      /\ \A k : RowView(k)' = RowView(k) /\ (Walked(k)' <=> Walked(k))
      /\ \A k, m, p : Path(k, m, p)' <=> Path(k, m, p)
      /\ \A n : RunsIn(n)' = RunsIn(n)
  BY <1>1, SameReport
<1>3. walk.root \in Nat /\ walk.n \in Nat /\ walk.pc \in Nat /\ Len(list) \in Nat
      /\ DOMAIN list = 1..Len(list)
  BY <1>1, LimitAssumption DEF Walks, TypeInv
<1>4. CASE PickRoot
  <2>1. PICK k \in NextRoots :
          /\ \A j \in NextRoots : k <= j
          /\ walk' = [root |-> k, on |-> TRUE, pc |-> list[k].addr, n |-> 0]
    BY <1>4 DEF PickRoot
  <2>2. k \in DOMAIN list /\ k > walk.root /\ ~walk.on /\ seen' = seen
    BY <1>4 DEF PickRoot, NextRoots
  <2>3. list[k] \in Row /\ list[k].addr \in Addrs /\ list[k].addr \in Nat /\ rom \in Roms
    <3>1. list[k] \in Row /\ rom \in Roms
      BY <1>1, <2>2 DEF TypeInv
    <3>2. list[k].addr \in Addrs
      BY <3>1 DEF Row
    <3> QED BY <3>1, <3>2, RegionAssumption DEF Addrs
  <2>4. walk' \in Walks /\ walk'.root = k /\ walk'.on /\ walk'.pc = list[k].addr /\ walk'.n = 0
    BY <1>3, <2>1, <2>2, <2>3, LimitAssumption DEF Walks
  <2>5. RunsIn(At(k)) = RowView(k) /\ At(k) = Node(RowView(k), list[k].addr)
    BY <1>1, <2>2, <2>3, ViewType DEF Row, At, RowInv, RowView
  <2>6. View' = RowView(k) /\ Here' = At(k)
    <3>1. View' = RowView(k)
      BY <1>1, <2>4 DEF View, RowView
    <3> QED BY <2>4, <2>5, <3>1 DEF Here, Node
  <2>7. At(k) \in Found
    BY <2>2, FoundAt
  <2>8. RunsIn(Here)' = View'
    BY <1>1, <2>5, <2>6 DEF RunsIn
  <2>9. PICK p : p = [j \in 0..0 |-> list[k].addr]
    OBVIOUS
  <2>10. Path(k, 0, p) /\ p[0] = list[k].addr
    BY <2>9 DEF Path
  <2>11. Path(walk.root, walk.n, p)'
    <3>1. PICK m : m = 0
      OBVIOUS
    <3>2. Path(k, m, p)'
      BY <1>2, <2>10, <3>1
    <3> QED BY <2>4, <3>1, <3>2 DEF Path
  <2>12. ASSUME NEW j \in DOMAIN list, j <= k, Walked(j), j # k
         PROVE  PathSeen(j)'
    <3>1. j <= walk.root
      BY <1>3, <2>1, <2>2, <2>12 DEF NextRoots
    <3>2. PathSeen(j)
      BY <1>1, <2>2, <2>12, <3>1 DEF WalkInv
    <3> QED BY <1>1, <2>2, <3>2, PathSeenKept
  <2>13. \A j \in 0..(walk'.n - 1) : FALSE
    BY <2>4
  <2> QED BY <1>1, <1>2, <2>2, <2>4, <2>6, <2>7, <2>8, <2>10, <2>11, <2>12, <2>13 DEF WalkInv
<1>5. CASE AuditDone
  <2>1. /\ walk' = [root |-> Len(list) + 1, on |-> FALSE, pc |-> 0, n |-> 0]
        /\ ~walk.on /\ NextRoots = {} /\ seen' = seen
    BY <1>5 DEF AuditDone
  <2>2. walk' \in Walks /\ ~walk'.on
    BY <1>3, <2>1, LimitAssumption DEF Walks
  <2>3. ASSUME NEW j \in DOMAIN list, Walked(j) PROVE PathSeen(j)'
    <3>1. j <= walk.root
      BY <1>3, <2>1, <2>3 DEF NextRoots
    <3>2. PathSeen(j)
      BY <1>1, <2>1, <2>3, <3>1 DEF WalkInv
    <3> QED BY <1>1, <2>1, <3>2, PathSeenKept
  <2> QED BY <1>1, <1>2, <2>2, <2>3 DEF WalkInv
<1>6. CASE ScanEnds
  <2>1. /\ walk.on /\ walk' = [walk EXCEPT !.on = FALSE] /\ seen' = seen
        /\ walk.n = ScanLimit \/ Code(rom, View, walk.pc).op = "bad"
    BY <1>6 DEF ScanEnds
  <2>2. walk' \in Walks /\ ~walk'.on /\ walk'.root = walk.root
    BY <1>1, <2>1 DEF Walks
  <2>3. ASSUME NEW j \in DOMAIN list, j <= walk.root, Walked(j) PROVE PathSeen(j)'
    <3>1. CASE j = walk.root
      BY <1>1, <2>1, <3>1, WalkEnds
    <3>2. CASE j # walk.root
      <4>1. PathSeen(j)
        BY <1>1, <2>3, <3>2 DEF WalkInv
      <4> QED BY <1>1, <2>1, <4>1, PathSeenKept
    <3> QED BY <3>1, <3>2
  <2> QED BY <1>1, <1>2, <2>2, <2>3 DEF WalkInv
<1>7. CASE ScanOne
  <2>1. PICK i : i = Code(rom, View, walk.pc)
    OBVIOUS
  <2>2. /\ walk.on /\ walk.n < ScanLimit /\ i.op # "bad"
        /\ walk' = IF i.op \in EndsScan THEN [walk EXCEPT !.on = FALSE]
                   ELSE [walk EXCEPT !.pc = @ + i.len, !.n = @ + 1]
    BY <1>7, <2>1 DEF ScanOne
  <2>3. seen' = seen \cup {Here}
    BY <1>7, ReportStep
  <2>4. Probable(rom, View, walk.pc)
    BY <2>1, <2>2 DEF Probable
  <2>5. /\ View \in Banks /\ View = RowView(walk.root) /\ rom \in Roms
        /\ Here \in Found /\ Here = Node(View, walk.pc)
        /\ Here[1] = walk.pc /\ RunsIn(Here) = View /\ walk.pc \in Addrs
    BY <2>2, <2>4, WalkAt
  <2>6. ASSUME NEW j \in DOMAIN list, j <= walk.root, Walked(j), j # walk.root
        PROVE  PathSeen(j)'
    <3>1. PathSeen(j)
      BY <1>1, <2>6 DEF WalkInv
    <3> QED BY <1>1, <2>3, <3>1, PathSeenKept
  <2>7. CASE i.op \in EndsScan
    <3>1. walk' \in Walks /\ ~walk'.on /\ walk'.root = walk.root
      BY <1>1, <2>2, <2>7 DEF Walks
    <3>2. ASSUME NEW j \in DOMAIN list, j = walk.root PROVE PathSeen(j)'
      BY <1>1, <2>1, <2>2, <2>3, <2>7, <3>2, WalkEnds
    <3> QED BY <1>1, <1>2, <2>6, <3>1, <3>2 DEF WalkInv
  <2>8. CASE i.op \notin EndsScan
    <3>1. i.len \in Nat
      BY <2>1, <2>4, <2>5, CodeType
    <3>2. /\ walk'.on /\ walk'.root = walk.root /\ walk'.pc = walk.pc + i.len
          /\ walk'.n = walk.n + 1 /\ walk' \in Walks
      <4>1. walk.pc + i.len \in Nat /\ walk.n + 1 \in 0..ScanLimit
        BY <1>3, <2>2, <3>1, LimitAssumption
      <4>2. walk' = [walk EXCEPT !.pc = walk.pc + i.len, !.n = walk.n + 1]
        BY <2>2, <2>8
      <4> QED BY <1>1, <2>2, <4>1, <4>2 DEF Walks
    <3>3. View' = View
      BY <1>1, <3>2 DEF View
    <3>4. Here' = Node(View, walk.pc + i.len)
      BY <3>2, <3>3 DEF Here, Node
    <3>5. walk'.pc \in Addrs => RunsIn(Here)' = View'
      <4> SUFFICES ASSUME walk.pc + i.len \in Addrs PROVE RunsIn(Here)' = View'
        BY <3>2
      <4>1. RunsIn(Node(View, walk.pc + i.len)) = View
        BY <2>1, <2>4, <2>5, RunGoesOn
      <4> QED BY <1>1, <3>3, <3>4, <4>1 DEF RunsIn
    <3>6. Probable(rom, View, walk.pc + i.len) => Here' \in Found
      <4> SUFFICES ASSUME Probable(rom, View, walk.pc + i.len)
                   PROVE  Node(View, walk.pc + i.len) \in Found
        BY <3>4
      <4>1. Leads(Here, FALSE) \subseteq Found
        BY <1>1, <2>5 DEF Closed, Auditing
      <4>2. Next(i, walk.pc) = {walk.pc + i.len}
        BY <2>2, <2>8 DEF Next, EndsScan
      <4>3. Node(View, walk.pc + i.len) \in Leads(Here, FALSE)
        BY <2>1, <2>5, <4>2 DEF Leads, Lands
      <4> QED BY <4>1, <4>3
    <3>7. PICK p : /\ Path(walk.root, walk.n, p) /\ p[walk.n] = walk.pc
                   /\ \A j \in 0..(walk.n - 1) : Node(View, p[j]) \in seen
      BY <1>1, <2>2 DEF WalkInv
    <3>8. PICK q : /\ Path(walk.root, walk.n + 1, q) /\ q[walk.n + 1] = walk.pc + i.len
                   /\ \A j \in 0..walk.n : q[j] = p[j]
      BY <1>3, <2>1, <2>2, <2>5, <2>8, <3>7, PathGrows, SMTT(60)
    <3>9. \A j \in 0..walk.n : Node(View, q[j]) \in seen'
      <4> SUFFICES ASSUME NEW j \in 0..walk.n PROVE Node(View, p[j]) \in seen'
        BY <3>8
      <4>1. CASE j = walk.n
        BY <2>3, <2>5, <3>7, <4>1
      <4>2. CASE j # walk.n
        <5>1. j \in 0..(walk.n - 1)
          BY <1>3, <4>2
        <5> QED BY <2>3, <3>7, <5>1
      <4> QED BY <4>1, <4>2
    <3>10. Path(walk.root, walk.n, q)'
      <4>1. PICK k, m : k = walk.root /\ m = walk.n + 1
        OBVIOUS
      <4>2. Path(k, m, q)'
        BY <1>2, <3>8, <4>1
      <4> QED BY <3>2, <4>1, <4>2 DEF Path
    <3>11. \A j \in 0..(walk'.n - 1) : Node(View', q[j]) \in seen'
      BY <1>3, <3>2, <3>3, <3>9
    <3>12. q[walk'.n] = walk'.pc /\ walk'.root \in DOMAIN list'
      BY <1>1, <2>2, <3>2, <3>8 DEF WalkInv
    <3> QED BY <1>1, <1>2, <2>6, <3>2, <3>3, <3>5, <3>6, <3>10, <3>11, <3>12 DEF WalkInv
  <2> QED BY <2>7, <2>8
<1> QED BY <1>4, <1>5, <1>6, <1>7

LEMMA AuditStep ==
  ASSUME AuditInv, [AuditNext]_allVars
  PROVE  AuditInv'
<1>1. DiscoveryInv /\ TypeInv /\ RowInv /\ ScanInv /\ LabelInv
  BY DEF AuditInv, DiscoveryInv
<1>2. [DiscoveryNext]_discoveryVars
  BY DEF AuditNext, allVars
<1>3. DiscoveryInv' /\ LabelInv'
  BY <1>1, <1>2, DiscoveryStep, LabelStep
<1>4. CASE DiscoveryNext /\ UNCHANGED auditVars
  <2>1. NotBegun
    BY <1>1, <1>4, AuditAfterDiscovery DEF AuditInv
  <2>2. NotBegun'
    BY <1>4, <2>1 DEF NotBegun, auditVars
  <2>3. TypeInv'
    BY <1>3 DEF DiscoveryInv
  <2>4. (ReportInv /\ WalkInv)'
    BY <2>2, <2>3, NotBegunFitsNext
  <2> QED BY <1>3, <2>2, <2>4 DEF AuditInv
<1>5. CASE UNCHANGED discoveryVars /\ (PickRoot \/ AuditDone \/ ScanOne \/ ScanEnds)
  <2>1. Auditing /\ Auditing' /\ UNCHANGED <<rom, list>>
    BY <1>5 DEF PickRoot, AuditDone, ScanOne, ScanEnds, Auditing, discoveryVars
  <2>2. WalkInv'
    BY <1>5, WalkStep
  <2>3. ReportInv'
    <3>1. CASE ScanOne
      BY <1>5, <3>1, ReportStep
    <3>2. CASE ~ScanOne
      <4>1. UNCHANGED <<audit, seen>>
        BY <1>5, <3>2 DEF PickRoot, AuditDone, ScanEnds
      <4> QED BY <2>1, <4>1, SameReport DEF AuditInv, ReportInv
    <3> QED BY <3>1, <3>2
  <2> QED BY <1>3, <2>1, <2>2, <2>3 DEF AuditInv
<1>6. CASE UNCHANGED allVars
  <2>1. UNCHANGED <<rom, list, audit, seen, walk, phase, truncated>>
    BY <1>6 DEF allVars, discoveryVars, auditVars
  <2>2. ReportInv'
    BY <2>1, SameReport DEF AuditInv, ReportInv
  <2>3. Auditing' \/ NotBegun'
    BY <2>1 DEF AuditInv, Auditing, NotBegun
  <2>4. WalkInv'
    <3>1. /\ Found' = Found
          /\ \A k : RowView(k)' = RowView(k) /\ (Walked(k)' <=> Walked(k))
          /\ \A k, m, p : Path(k, m, p)' <=> Path(k, m, p)
          /\ \A k, m, a : OnPath(k, m, a)' <=> OnPath(k, m, a)
      BY <2>1, SameReport
    <3>2. View' = View /\ Here' = Here /\ RunsIn(Here)' = RunsIn(Here)
      BY <2>1 DEF View, Here, RunsIn
    <3>3. \A k : PathSeen(k) => PathSeen(k)'
      BY <2>1, PathSeenKept
    <3>4. walk.on =>
              \E p : /\ Path(walk.root, walk.n, p)' /\ p[walk'.n] = walk'.pc
                     /\ \A j \in 0..(walk'.n - 1) : Node(View', p[j]) \in seen'
      BY <2>1, <3>2 DEF AuditInv, WalkInv, Path, RowView
    <3> QED BY <2>1, <3>1, <3>2, <3>3, <3>4 DEF AuditInv, WalkInv
  <2> QED BY <1>3, <2>2, <2>3, <2>4 DEF AuditInv
<1> QED BY <1>4, <1>5, <1>6 DEF AuditNext

LEMMA AuditStart ==
  ASSUME AuditInit
  PROVE  AuditInv
<1>1. DiscoveryInv /\ TypeInv
  BY DiscoveryInit DEF AuditInit, DiscoveryInv
<1>2. NotBegun
  BY DEF AuditInit, NotBegun
<1>3. LabelInv
  <2>1. /\ todo = [k \in DOMAIN rom.seeds |->
                     AddEntry(rom.seeds[k].view, rom.seeds[k].addr)]
        /\ DOMAIN list = {} /\ ~scan.on
    BY DEF AuditInit, Init, Idle
  <2>2. \A r \in Owed : r.root
    BY <2>1 DEF Owed, Elems, AddEntry, Request
  <2> QED BY <2>1, <2>2 DEF LabelInv
<1> QED BY <1>1, <1>2, <1>3, NotBegunFits DEF AuditInv

\* Every row has been seen once the audit is through its roots.
LEMMA AllSeen ==
  ASSUME AuditInv, walk.root > Len(list)
  PROVE  seen = Found
<1>1. TypeInv /\ LabelInv /\ WalkInv /\ RowInv
  BY DEF AuditInv, DiscoveryInv
<1>2. walk.root \in Nat /\ Len(list) \in Nat /\ DOMAIN list = 1..Len(list)
  BY <1>1 DEF WalkInv, Walks, TypeInv
<1>3. ~walk.on
  BY <1>1, <1>2 DEF WalkInv
<1>4. ASSUME NEW n \in Found PROVE n \in seen
  <2>1. PICK j \in DOMAIN list : n = At(j)
    BY <1>4, FoundAt
  <2>2. PICK k \in DOMAIN list, m \in 0..(ScanLimit - 1) :
           list[k].root /\ OnPath(k, m, n[1]) /\ n = Node(RowView(k), n[1])
    BY <1>1, <2>1 DEF LabelInv, Reached
  <2>3. PathSeen(k)
    BY <1>1, <1>2, <1>3, <2>2 DEF WalkInv, Walked
  <2>4. list[j] \in Row /\ list[k] \in Row /\ rom \in Roms /\ n[1] = list[j].addr
    BY <1>1, <2>1 DEF TypeInv, At
  <2>5. RowView(k) \in Banks /\ list[j].addr \in Addrs
    BY <2>4, ViewType DEF Row, RowView
  <2>6. Code(rom, RunsIn(n), n[1]) = Code(rom, RowView(k), n[1])
    BY <2>2, <2>4, <2>5, NodeView
  <2>7. Probable(rom, RunsIn(n), n[1])
    BY <1>1, <2>1, <2>4 DEF RowInv
  <2>8. Probable(rom, RowView(k), n[1])
    BY <2>6, <2>7 DEF Probable
  <2> QED BY <2>2, <2>3, <2>8 DEF PathSeen
<1> QED BY <1>4 DEF AuditInv, ReportInv

\* The audit reports every call and jump of the generated code, once, and
\* counts as missing those without a function, for every program, capacity
\* and scan limit.
THEOREM AuditIsExact == AuditSpec => []AuditExact
<1>1. AuditInit => AuditInv
  BY AuditStart
<1>2. AuditInv /\ [AuditNext]_allVars => AuditInv'
  BY AuditStep
<1>3. AuditInv => AuditExact
  <2> SUFFICES ASSUME AuditInv, Auditing, walk.root > Len(list) PROVE AuditExact
    BY DEF AuditExact
  <2>1. seen = Found /\ ReportInv /\ TypeInv
    BY AllSeen DEF AuditInv, DiscoveryInv
  <2>2. Dispatches \subseteq Found /\ Missing \subseteq Found
    BY DEF Dispatches, Missing
  <2>3. seen \cap Dispatches = Dispatches /\ seen \cap Missing = Missing
    BY <2>1, <2>2
  <2>4. ~HasGaps => Missing = {}
    <3> SUFFICES ASSUME audit.missing = 0 PROVE Missing = {}
      BY DEF HasGaps
    <3>1. Cardinality(Missing) = 0
      BY <2>1, <2>3 DEF ReportInv
    <3>2. IsFiniteSet(Missing)
      BY <2>1, <2>2, FoundFinite, FS_Subset
    <3> QED BY <3>1, <3>2, FS_EmptySet
  <2> QED BY <2>1, <2>3, <2>4 DEF AuditExact, ReportInv
<1> QED BY <1>1, <1>2, <1>3, PTL DEF AuditSpec

\* The audit takes no part in discovery: what is proved of discovery alone
\* holds when the audit follows it.
LEMMA AuditKeepsDiscovery == AuditSpec => Spec
<1>1. AuditInit => Init
  BY DEF AuditInit
<1>2. [AuditNext]_allVars => [DiscoveryNext]_discoveryVars
  BY DEF AuditNext, allVars
<1> QED BY <1>1, <1>2, PTL DEF AuditSpec, Spec

=============================================================================
