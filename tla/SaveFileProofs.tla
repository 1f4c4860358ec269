---------------------------- MODULE SaveFileProofs ----------------------------
(***************************************************************************)
(* Save files: proofs for any number of builds with any layouts, of slices *)
(* run and of saves and loads, cut short anywhere.                         *)
(***************************************************************************)
EXTENDS SaveFile, TLAPS

Taints == {"refused", "patched"}

LoadPhases == {"load", "runtime", "audio", "smoke", "host", "finish"}

Source == [machine : Machine, build : Builds, sound : BOOLEAN,
           taint : SUBSET Taints]

AnyBlock ==
  {<<>>} \cup [runtime : Moment, reply : Moment]
         \cup [z80 : Moment, ym : [ym : Moment]]
         \cup [smoke : Moment] \cup [pacing : Moment, last : Moment]

AnyChunk == [id : {"header", "runtime", "audio", "smoke", "host"},
             build : Builds, block : AnyBlock]

TypeOK ==
  /\ phase \in {"down", "run", "save"} \cup LoadPhases
  /\ build \in Builds /\ sound \in BOOLEAN /\ starting \in BOOLEAN
  /\ live \in Machine /\ file \in Seq(AnyChunk) /\ saves \in Nat
  /\ source \in Source
  /\ outcome \in {"none", "saved", "loaded", "refused"}
  /\ taint \in SUBSET Taints

\* The file holds what the last save has written of its pieces, in order.
FileInv ==
  /\ Len(file) <= Len(Pieces(source))
  /\ \A k \in 1..Len(file) : file[k] = Pieces(source)[k]

\* A machine m whose parts belong together as far as its history t allows.
DispatcherWith(m, t) ==
  "refused" \notin t => m.smoke = m.runtime /\ m.last <= m.runtime

SoundWith(m, t, s) ==
  s /\ t = {} => m.z80 = m.last /\ m.ym = m.last /\ m.pacing = m.last

Coherent(m, t, s) == DispatcherWith(m, t) /\ SoundWith(m, t, s)

\* The machine that runs, and the one in the file.
StepInv ==
  /\ phase \in {"run", "save", "load", "runtime"} => Coherent(live, taint, sound)
  /\ Coherent(source.machine, source.taint, source.sound)

\* What a load has put in place when it has come to a phase.
RuntimeIn == Len(file) >= 2 /\ live.runtime = source.machine.runtime

SoundIn ==
  sound /\ Found("audio") =>
    live.z80 = source.machine.z80 /\ live.ym = source.machine.ym

SmokeIn == Found("smoke") /\ live.smoke = source.machine.smoke

HostIn == Found("host") => live.pacing = source.machine.pacing
                           /\ live.last = source.machine.last

LoadInv ==
  /\ phase \in {"audio", "smoke", "host", "finish"} => RuntimeIn
  /\ phase \in {"smoke", "host", "finish"} => SoundIn
  /\ phase \in {"host", "finish"} => SmokeIn
  /\ phase = "finish" => HostIn

\* What the last load has said.
LoadedInv ==
  outcome = "loaded" =>
    /\ phase = "run" /\ RuntimeIn /\ SoundIn /\ SmokeIn
    /\ Found("host") => live.pacing = source.machine.pacing
    /\ Found("host") /\ source.machine.last <= source.machine.runtime =>
         live.last = source.machine.last
    /\ sound => live.reply = live.z80

RefusedInv ==
  outcome = "refused" =>
    /\ phase \in {"run", "down"}
    /\ ~(Len(file) = Len(Pieces(source)) /\ SameLayout)

SaveInv == TypeOK /\ FileInv /\ StepInv /\ LoadInv /\ LoadedInv /\ RefusedInv

-----------------------------------------------------------------------------
(* The file.                                                               *)

LEMMA BlockTypes ==
  ASSUME NEW m \in Machine, NEW b \in Builds
  PROVE  /\ Chunk("header", b, <<>>) \in AnyChunk
         /\ Chunk("runtime", b, RuntimeBlock(m)) \in AnyChunk
         /\ Chunk("audio", b, AudioBlock(m)) \in AnyChunk
         /\ Chunk("smoke", b, SmokeBlock(m)) \in AnyChunk
         /\ Chunk("host", b, HostBlock(m)) \in AnyChunk
  <1>1. RuntimeBlock(m) \in AnyBlock /\ SmokeBlock(m) \in AnyBlock
        /\ HostBlock(m) \in AnyBlock /\ <<>> \in AnyBlock
    BY DEF AnyBlock, Machine, RuntimeBlock, SmokeBlock, HostBlock
  <1>2. AudioBlock(m) \in AnyBlock
    BY DEF AnyBlock, Machine, AudioBlock, YmBlock
  <1> QED
    BY <1>1, <1>2 DEF AnyChunk, Chunk

LEMMA FivePieces ==
  ASSUME NEW C, NEW h \in C, NEW r \in C, NEW a \in C, NEW k \in C, NEW o \in C
  PROVE  LET q == (<<h, r>> \o <<a>>) \o <<k, o>>
         IN  /\ q \in Seq(C) /\ Len(q) = 5
             /\ q[1] = h /\ q[2] = r /\ q[3] = a /\ q[4] = k /\ q[5] = o
  <1> DEFINE x == <<h, r>> \o <<a>>
  <1>1. x \in Seq(C) /\ Len(x) = 3 /\ x[1] = h /\ x[2] = r /\ x[3] = a
    OBVIOUS
  <1> HIDE DEF x
  <1>2. <<k, o>> \in Seq(C) /\ Len(<<k, o>>) = 2
    OBVIOUS
  <1> QED
    BY <1>1, <1>2 DEF x

LEMMA FourPieces ==
  ASSUME NEW C, NEW h \in C, NEW r \in C, NEW k \in C, NEW o \in C
  PROVE  LET q == (<<h, r>> \o <<>>) \o <<k, o>>
         IN  /\ q \in Seq(C) /\ Len(q) = 4
             /\ q[1] = h /\ q[2] = r /\ q[3] = k /\ q[4] = o
  <1> DEFINE x == <<h, r>> \o <<>>
  <1>1. x \in Seq(C) /\ Len(x) = 2 /\ x[1] = h /\ x[2] = r
    OBVIOUS
  <1> HIDE DEF x
  <1>2. <<k, o>> \in Seq(C) /\ Len(<<k, o>>) = 2
    OBVIOUS
  <1> QED
    BY <1>1, <1>2 DEF x

LEMMA PiecesOf ==
  ASSUME NEW s \in Source
  PROVE  LET p == Pieces(s)
             n == IF s.sound THEN 1 ELSE 0
         IN  /\ p \in Seq(AnyChunk) /\ Len(p) = 4 + n
             /\ p[1] = Chunk("header", s.build, <<>>)
             /\ p[2] = Chunk("runtime", s.build, RuntimeBlock(s.machine))
             /\ s.sound => p[3] = Chunk("audio", s.build, AudioBlock(s.machine))
             /\ p[3 + n] = Chunk("smoke", s.build, SmokeBlock(s.machine))
             /\ p[4 + n] = Chunk("host", s.build, HostBlock(s.machine))
  <1> DEFINE h == Chunk("header", s.build, <<>>)
             r == Chunk("runtime", s.build, RuntimeBlock(s.machine))
             a == Chunk("audio", s.build, AudioBlock(s.machine))
             k == Chunk("smoke", s.build, SmokeBlock(s.machine))
             o == Chunk("host", s.build, HostBlock(s.machine))
  <1>1. s.machine \in Machine /\ s.build \in Builds /\ s.sound \in BOOLEAN
    BY DEF Source
  <1>2. h \in AnyChunk /\ r \in AnyChunk /\ a \in AnyChunk /\ k \in AnyChunk
        /\ o \in AnyChunk
    BY <1>1, BlockTypes
  <1>3. Pieces(s) = <<h, r>> \o (IF s.sound THEN <<a>> ELSE <<>>) \o <<k, o>>
    BY Zenon DEF Pieces
  <1> HIDE DEF h, r, a, k, o
  <1>4. CASE s.sound
    <2>1. Pieces(s) = (<<h, r>> \o <<a>>) \o <<k, o>>
      BY <1>3, <1>4, Zenon
    <2>2. /\ Pieces(s) \in Seq(AnyChunk) /\ Len(Pieces(s)) = 5
          /\ Pieces(s)[1] = h /\ Pieces(s)[2] = r /\ Pieces(s)[3] = a
          /\ Pieces(s)[4] = k /\ Pieces(s)[5] = o
      BY <1>2, <2>1, FivePieces
    <2> QED
      BY <1>4, <2>2 DEF h, r, a, k, o
  <1>5. CASE ~s.sound
    <2>1. Pieces(s) = (<<h, r>> \o <<>>) \o <<k, o>>
      BY <1>3, <1>5, Zenon
    <2>2. /\ Pieces(s) \in Seq(AnyChunk) /\ Len(Pieces(s)) = 4
          /\ Pieces(s)[1] = h /\ Pieces(s)[2] = r
          /\ Pieces(s)[3] = k /\ Pieces(s)[4] = o
      BY <1>2, <2>1, FourPieces
    <2> QED
      BY <1>5, <2>2 DEF h, r, a, k, o
  <1> QED
    BY <1>4, <1>5

\* live_find_state_chunk, where the chunk asked for can only be the k-th.
LEMMA FoundAt ==
  ASSUME NEW id, NEW k \in Nat, k >= 1, Len(file) \in Nat,
         \A j \in 1..Len(file) : file[j].id = id <=> j = k
  PROVE  /\ Found(id) <=> Len(file) >= k
         /\ Found(id) => Find(id) = file[k]
  <1>1. Found(id) <=> Len(file) >= k
    BY DEF Found
  <1>2. ASSUME Found(id) PROVE Find(id) = file[k]
    <2> DEFINE at == CHOOSE i \in 1..Len(file) : file[i].id = id
    <2>1. at \in 1..Len(file) /\ file[at].id = id
      BY <1>2, Zenon DEF Found
    <2>2. Find(id) = file[at]
      BY Zenon DEF Find
    <2> QED
      BY <2>1, <2>2
  <1> QED
    BY <1>1, <1>2

\* What a file can hold: the chunks of one save, up to some point.
LEMMA InFile ==
  ASSUME TypeOK, FileInv
  PROVE  LET n == IF source.sound THEN 1 ELSE 0
             m == source.machine
         IN  /\ Len(file) \in Nat /\ Len(Pieces(source)) = 4 + n
             /\ Len(file) <= 4 + n
             /\ Found("header") <=> Len(file) >= 1
             /\ Found("runtime") <=> Len(file) >= 2
             /\ Found("audio") <=> source.sound /\ Len(file) >= 3
             /\ Found("smoke") <=> Len(file) >= 3 + n
             /\ Found("host") <=> Len(file) >= 4 + n
             /\ Found("runtime") =>
                  /\ Find("runtime").build = source.build
                  /\ Find("runtime").block.runtime = m.runtime
                  /\ Find("runtime").block.reply = m.reply
             /\ Found("audio") =>
                  /\ Find("audio").build = source.build
                  /\ Find("audio").block.z80 = m.z80
                  /\ Find("audio").block.ym.ym = m.ym
             /\ Found("smoke") =>
                  /\ Find("smoke").build = source.build
                  /\ Find("smoke").block.smoke = m.smoke
             /\ Found("host") =>
                  /\ Find("host").build = source.build
                  /\ Find("host").block.pacing = m.pacing
                  /\ Find("host").block.last = m.last
  <1> DEFINE n == IF source.sound THEN 1 ELSE 0
             m == source.machine
             b == source.build
  <1>1. /\ Len(Pieces(source)) = 4 + n
        /\ Pieces(source)[1] = Chunk("header", b, <<>>)
        /\ Pieces(source)[2] = Chunk("runtime", b, RuntimeBlock(m))
        /\ source.sound => Pieces(source)[3] = Chunk("audio", b, AudioBlock(m))
        /\ Pieces(source)[3 + n] = Chunk("smoke", b, SmokeBlock(m))
        /\ Pieces(source)[4 + n] = Chunk("host", b, HostBlock(m))
    BY PiecesOf DEF TypeOK
  <1>2. n \in 0..1 /\ (source.sound <=> n = 1)
    BY DEF TypeOK, Source
  <1>3. Len(file) \in Nat
    BY DEF TypeOK
  <1>4. /\ Len(file) <= 4 + n
        /\ \A j \in 1..Len(file) : file[j] = Pieces(source)[j]
    BY <1>1 DEF FileInv
  <1> HIDE DEF n, m, b
  <1>5. \A j \in 1..Len(file) :
          /\ file[j].id = "header" <=> j = 1
          /\ file[j].id = "runtime" <=> j = 2
          /\ file[j].id = "audio" <=> source.sound /\ j = 3
          /\ file[j].id = "smoke" <=> j = 3 + n
          /\ file[j].id = "host" <=> j = 4 + n
    <2> SUFFICES ASSUME NEW j \in 1..Len(file)
                 PROVE  /\ file[j].id = "header" <=> j = 1
                        /\ file[j].id = "runtime" <=> j = 2
                        /\ file[j].id = "audio" <=> source.sound /\ j = 3
                        /\ file[j].id = "smoke" <=> j = 3 + n
                        /\ file[j].id = "host" <=> j = 4 + n
      OBVIOUS
    <2>1. j = 1 \/ j = 2 \/ (n = 1 /\ j = 3) \/ j = 3 + n \/ j = 4 + n
      BY <1>2, <1>3, <1>4
    <2> QED
      BY <1>1, <1>2, <1>4, <2>1 DEF Chunk
  <1>6. /\ Found("header") <=> Len(file) >= 1
        /\ Found("runtime") <=> Len(file) >= 2
        /\ Found("runtime") => Find("runtime") = file[2]
    BY <1>3, <1>5, FoundAt
  <1>7. /\ Found("smoke") <=> Len(file) >= 3 + n
        /\ Found("smoke") => Find("smoke") = file[3 + n]
    BY <1>2, <1>3, <1>5, FoundAt
  <1>8. /\ Found("host") <=> Len(file) >= 4 + n
        /\ Found("host") => Find("host") = file[4 + n]
    BY <1>2, <1>3, <1>5, FoundAt
  <1>9. /\ Found("audio") <=> source.sound /\ Len(file) >= 3
        /\ Found("audio") => Find("audio") = file[3]
    <2>1. CASE source.sound
      BY <1>3, <1>5, <2>1, FoundAt
    <2>2. CASE ~source.sound
      BY <1>5, <2>2 DEF Found
    <2> QED
      BY <2>1, <2>2
  <1>10. Found("runtime") =>
           /\ Find("runtime").build = b
           /\ Find("runtime").block.runtime = m.runtime
           /\ Find("runtime").block.reply = m.reply
    BY <1>1, <1>3, <1>4, <1>6 DEF Chunk, RuntimeBlock
  <1>11. Found("audio") =>
           /\ Find("audio").build = b
           /\ Find("audio").block.z80 = m.z80
           /\ Find("audio").block.ym.ym = m.ym
    BY <1>1, <1>3, <1>4, <1>9 DEF Chunk, AudioBlock, YmBlock
  <1>12. Found("smoke") =>
           Find("smoke").build = b /\ Find("smoke").block.smoke = m.smoke
    BY <1>1, <1>2, <1>3, <1>4, <1>7 DEF Chunk, SmokeBlock
  <1>13. Found("host") =>
           /\ Find("host").build = b
           /\ Find("host").block.pacing = m.pacing
           /\ Find("host").block.last = m.last
    BY <1>1, <1>2, <1>3, <1>4, <1>8 DEF Chunk, HostBlock
  <1> QED
    BY <1>1, <1>3, <1>4, <1>6, <1>7, <1>8, <1>9, <1>10, <1>11, <1>12, <1>13
    DEF n, m, b

-----------------------------------------------------------------------------
(* Steps outside a load.                                                   *)

\* A step that leaves the file and the last save alone.
LEMMA FileKept ==
  ASSUME FileInv, file' = file, source' = source
  PROVE  /\ FileInv'
         /\ Found("audio")' <=> Found("audio")
         /\ Found("smoke")' <=> Found("smoke")
         /\ Found("host")' <=> Found("host")
  BY DEF FileInv, Found

LEMMA MachineTypes ==
  /\ PowerOn \in Machine
  /\ \A t, s : Coherent(PowerOn, t, s)
  BY SaveAssumption
  DEF PowerOn, Machine, Moment, Coherent, DispatcherWith, SoundWith

LEMMA StartKeeps ==
  ASSUME SaveInv, NEW b \in Builds, NEW s \in BOOLEAN, NEW load \in BOOLEAN,
         Start(b, s, load)
  PROVE  SaveInv'
  <1>1. FileInv'
    BY FileKept DEF SaveInv, Start
  <1>2. TypeOK'
    BY MachineTypes DEF SaveInv, TypeOK, Start, LoadPhases
  <1>3. StepInv'
    BY MachineTypes DEF SaveInv, StepInv, Start
  <1> QED
    BY <1>1, <1>2, <1>3
    DEF SaveInv, Start, LoadInv, LoadedInv, RefusedInv

LEMMA DieKeeps ==
  ASSUME SaveInv, Die
  PROVE  SaveInv'
  <1>1. FileInv'
    BY FileKept DEF SaveInv, Die
  <1>2. TypeOK'
    BY MachineTypes DEF SaveInv, TypeOK, Die
  <1>3. StepInv'
    BY DEF SaveInv, StepInv, Die
  <1> QED
    BY <1>1, <1>2, <1>3 DEF SaveInv, Die, LoadInv, LoadedInv, RefusedInv

LEMMA RunSliceKeeps ==
  ASSUME SaveInv, RunSlice
  PROVE  SaveInv'
  <1>1. FileInv'
    BY FileKept DEF SaveInv, RunSlice
  <1>2. TypeOK'
    <2>0. live \in Machine /\ live.runtime + 1 \in Moment
          /\ live.smoke + 1 \in Moment
      BY SaveAssumption DEF SaveInv, TypeOK, RunSlice, Machine, Moment
    <2>1. live' \in Machine
      BY <2>0 DEF RunSlice, Machine
    <2> QED
      BY <2>1 DEF SaveInv, TypeOK, RunSlice
  <1>3. Coherent(live, taint, sound)'
    BY SaveAssumption DEF SaveInv, TypeOK, StepInv, RunSlice, Machine, Moment,
                          Coherent, DispatcherWith, SoundWith
  <1>4. StepInv'
    BY <1>3 DEF SaveInv, StepInv, RunSlice
  <1> QED
    BY <1>1, <1>2, <1>4 DEF SaveInv, RunSlice, LoadInv, LoadedInv, RefusedInv

LEMMA AudioSyncKeeps ==
  ASSUME SaveInv, AudioSync
  PROVE  SaveInv'
  <1>1. FileInv'
    BY FileKept DEF SaveInv, AudioSync
  <1> DEFINE lag == IF live.runtime > live.last
                    THEN live.runtime - live.last ELSE 0
  <1>2. live \in Machine /\ lag \in Nat
    BY DEF SaveInv, TypeOK, Machine, Moment
  <1>3. /\ live.z80 + lag <= MaxMoment /\ live.ym + lag <= MaxMoment
        /\ live.pacing + lag <= MaxMoment
        /\ live' = [runtime |-> live.runtime, smoke |-> live.smoke,
                    z80 |-> live.z80 + lag, ym |-> live.ym + lag,
                    pacing |-> live.pacing + lag, last |-> live.last + lag,
                    reply |-> live.z80 + lag]
    BY DEF AudioSync
  <1>4. live.last + lag \in Moment
        /\ (live.last <= live.runtime => live.last + lag <= live.runtime)
    BY <1>2, SaveAssumption DEF Machine, Moment
  <1> HIDE DEF lag
  <1>5. live' \in Machine
    BY <1>2, <1>3, <1>4, SaveAssumption DEF Machine, Moment
  <1>6. TypeOK'
    BY <1>5 DEF SaveInv, TypeOK, AudioSync
  <1>7. Coherent(live, taint, sound)
        /\ sound' = sound /\ taint' = taint
    BY DEF SaveInv, StepInv, AudioSync
  <1>8. Coherent(live, taint, sound)'
    BY <1>3, <1>4, <1>7 DEF Coherent, DispatcherWith, SoundWith
  <1>9. StepInv'
    BY <1>8 DEF SaveInv, StepInv, AudioSync
  <1> QED
    BY <1>1, <1>6, <1>9 DEF SaveInv, AudioSync, LoadInv, LoadedInv, RefusedInv

LEMMA BeginSaveKeeps ==
  ASSUME SaveInv, BeginSave
  PROVE  SaveInv'
  <1>1. file' = <<>> /\ source' \in Source
    BY DEF SaveInv, TypeOK, BeginSave, Source
  <1>2. FileInv'
    <2>1. Len(Pieces(source')) \in Nat
      BY <1>1, PiecesOf
    <2> QED
      BY <1>1, <2>1 DEF FileInv
  <1>3. TypeOK'
    BY <1>1 DEF SaveInv, TypeOK, BeginSave
  <1>4. StepInv'
    BY DEF SaveInv, StepInv, BeginSave
  <1> QED
    BY <1>2, <1>3, <1>4
    DEF SaveInv, BeginSave, LoadInv, LoadedInv, RefusedInv

LEMMA WritePieceKeeps ==
  ASSUME SaveInv, WritePiece
  PROVE  SaveInv'
  <1> DEFINE p == Pieces(source)
             new == p[Len(file) + 1]
  <1>1. /\ file \in Seq(AnyChunk) /\ Len(file) < Len(p)
        /\ file' = Append(file, new) /\ source' = source
    BY DEF SaveInv, TypeOK, WritePiece
  <1>2. p \in Seq(AnyChunk) /\ new \in AnyChunk
    BY <1>1, PiecesOf DEF SaveInv, TypeOK
  <1>3. FileInv'
    BY <1>1, <1>2 DEF SaveInv, FileInv
  <1>4. TypeOK'
    BY <1>1, <1>2 DEF SaveInv, TypeOK, WritePiece
  <1>5. StepInv'
    BY DEF SaveInv, StepInv, WritePiece
  <1> QED
    BY <1>3, <1>4, <1>5 DEF SaveInv, WritePiece, LoadInv, LoadedInv, RefusedInv

LEMMA SaveEndsKeeps ==
  ASSUME SaveInv, SaveFails \/ SaveDone \/ BeginLoad
  PROVE  SaveInv'
  <1>1. FileInv'
    BY FileKept DEF SaveInv, SaveFails, SaveDone, BeginLoad
  <1>2. TypeOK'
    BY DEF SaveInv, TypeOK, SaveFails, SaveDone, BeginLoad, LoadPhases
  <1>3. StepInv'
    BY DEF SaveInv, StepInv, SaveFails, SaveDone, BeginLoad
  <1> QED
    BY <1>1, <1>2, <1>3
    DEF SaveInv, SaveFails, SaveDone, BeginLoad, LoadInv, LoadedInv, RefusedInv

-----------------------------------------------------------------------------
(* Steps of a load.                                                        *)

\* A block of a complete file fits a build of the same layout.
LEMMA FitsOwn ==
  ASSUME TypeOK, SameLayout, NEW c, c.build = source.build, NEW x \in Blocks
  PROVE  Fits(c, x)
  BY DEF Fits, SameLayout

LEMMA RefusedKeeps ==
  ASSUME SaveInv, Refused, live' \in Machine,
         ~(Len(file) = Len(Pieces(source)) /\ SameLayout)
  PROVE  SaveInv'
  <1>1. FileInv'
    BY FileKept DEF SaveInv, Refused
  <1>2. TypeOK'
    BY DEF SaveInv, TypeOK, Refused, Taints
  <1>3. StepInv'
    <2>1. "refused" \in taint' /\ source' = source
      BY DEF Refused
    <2>2. Coherent(live', taint', sound')
      BY <2>1 DEF Coherent, DispatcherWith, SoundWith
    <2> QED
      BY <2>1, <2>2 DEF SaveInv, StepInv
  <1>4. RefusedInv'
    BY DEF Refused, RefusedInv, SameLayout
  <1> QED
    BY <1>1, <1>2, <1>3, <1>4 DEF SaveInv, Refused, LoadInv, LoadedInv

\* The load goes on to a phase where the machine may be out of step.
LEMMA ContinueKeeps ==
  ASSUME SaveInv, phase \in LoadPhases, live' \in Machine,
         NEW next \in {"audio", "smoke", "host", "finish"}, Continue(next)
  PROVE  LoadInv' => SaveInv'
  <1>1. FileInv'
    BY FileKept DEF SaveInv, Continue
  <1>2. TypeOK'
    BY DEF SaveInv, TypeOK, Continue, LoadPhases
  <1>3. StepInv'
    BY DEF SaveInv, StepInv, Continue
  <1>4. outcome' = outcome /\ outcome \notin {"loaded", "refused"}
    BY DEF SaveInv, Continue, LoadedInv, RefusedInv, LoadPhases
  <1> QED
    BY <1>1, <1>2, <1>3, <1>4 DEF SaveInv, LoadedInv, RefusedInv

LEMMA LoadHeaderKeeps ==
  ASSUME SaveInv, LoadHeader
  PROVE  SaveInv'
  <1>1. TypeOK /\ FileInv /\ live' \in Machine
    BY DEF SaveInv, TypeOK, LoadHeader
  <1>2. CASE ~Found("header")
    <2>1. Refused
      BY <1>2 DEF LoadHeader
    <2>2. Len(file) # Len(Pieces(source))
      BY <1>1, <1>2, InFile
    <2> QED
      BY <1>1, <2>1, <2>2, RefusedKeeps
  <1>3. CASE Found("header")
    <2>1. Continue("runtime") /\ live' = live /\ phase = "load"
      BY <1>3 DEF LoadHeader
    <2>2. FileInv'
      BY <2>1, FileKept DEF SaveInv, Continue
    <2>3. TypeOK'
      BY <2>1 DEF SaveInv, TypeOK, Continue, LoadPhases
    <2>4. StepInv'
      BY <2>1 DEF SaveInv, StepInv, Continue
    <2> QED
      BY <2>1, <2>2, <2>3, <2>4
      DEF SaveInv, Continue, LoadInv, LoadedInv, RefusedInv
  <1> QED
    BY <1>2, <1>3

LEMMA LoadRuntimeKeeps ==
  ASSUME SaveInv, LoadRuntime
  PROVE  SaveInv'
  <1>1. TypeOK /\ FileInv /\ live \in Machine /\ source.machine \in Machine
        /\ phase = "runtime"
    BY DEF SaveInv, TypeOK, LoadRuntime, Source
  <1>2. CASE Found("runtime") /\ Fits(Find("runtime"), "runtime")
    <2>1. /\ live' = [live EXCEPT !.runtime = Find("runtime").block.runtime,
                                  !.reply = Find("runtime").block.reply]
          /\ Continue("audio")
      BY <1>2 DEF LoadRuntime
    <2>2. /\ Find("runtime").block.runtime = source.machine.runtime
          /\ Find("runtime").block.reply = source.machine.reply
          /\ Len(file) >= 2
      BY <1>1, <1>2, InFile
    <2>3. live' \in Machine /\ live'.runtime = source.machine.runtime
      BY <1>1, <2>1, <2>2 DEF Machine
    <2>4. LoadInv'
      BY <2>1, <2>2, <2>3 DEF Continue, LoadInv, RuntimeIn
    <2> QED
      BY <1>1, <2>1, <2>3, <2>4, ContinueKeeps DEF LoadPhases
  <1>3. CASE ~(Found("runtime") /\ Fits(Find("runtime"), "runtime"))
    <2>1. Refused /\ live' \in Machine
      BY <1>1, <1>3 DEF LoadRuntime
    <2>2. ASSUME Len(file) = Len(Pieces(source)), SameLayout PROVE FALSE
      <3>1. Found("runtime") /\ Find("runtime").build = source.build
        BY <1>1, <2>2, InFile
      <3> QED
        BY <1>1, <1>3, <2>2, <3>1, FitsOwn DEF Blocks
    <2> QED
      BY <2>1, <2>2, RefusedKeeps
  <1> QED
    BY <1>2, <1>3

LEMMA LoadAudioKeeps ==
  ASSUME SaveInv, LoadAudio
  PROVE  SaveInv'
  <1>1. TypeOK /\ FileInv /\ live \in Machine /\ source.machine \in Machine
        /\ phase = "audio" /\ RuntimeIn
    BY DEF SaveInv, TypeOK, LoadAudio, Source, LoadInv
  <1>2. CASE ~(sound /\ Found("audio"))
    <2>1. Continue("smoke") /\ live' = live
      BY <1>2 DEF LoadAudio
    <2>2. LoadInv'
      BY <1>1, <1>2, <2>1, FileKept DEF Continue, LoadInv, RuntimeIn, SoundIn
    <2> QED
      BY <1>1, <2>1, <2>2, ContinueKeeps DEF LoadPhases
  <1>3. CASE sound /\ Found("audio")
    <2> DEFINE c == Find("audio")
    <2>1. c.block.z80 = source.machine.z80 /\ c.block.ym.ym = source.machine.ym
          /\ c.build = source.build
      BY <1>1, <1>3, InFile
    <2>2. CASE Fits(c, "z80") /\ Fits(c, "ym")
      <3>1. /\ live' = [live EXCEPT !.z80 = c.block.z80, !.ym = c.block.ym.ym]
            /\ Continue("smoke")
        BY <1>3, <2>2 DEF LoadAudio
      <3>2. /\ live' \in Machine /\ live'.runtime = live.runtime
            /\ live'.z80 = source.machine.z80 /\ live'.ym = source.machine.ym
        BY <1>1, <2>1, <3>1 DEF Machine
      <3>3. LoadInv'
        BY <1>1, <3>1, <3>2 DEF Continue, LoadInv, RuntimeIn, SoundIn
      <3> QED
        BY <1>1, <3>1, <3>2, <3>3, ContinueKeeps DEF LoadPhases
    <2>3. CASE ~(Fits(c, "z80") /\ Fits(c, "ym"))
      <3>1. Refused /\ live' \in Machine
        BY <1>1, <1>3, <2>1, <2>3 DEF LoadAudio, Machine
      <3>2. ~SameLayout
        BY <1>1, <2>1, <2>3, FitsOwn DEF Blocks
      <3> QED
        BY <3>1, <3>2, RefusedKeeps
    <2> QED
      BY <2>2, <2>3
  <1> QED
    BY <1>2, <1>3

LEMMA LoadSmokeKeeps ==
  ASSUME SaveInv, LoadSmoke
  PROVE  SaveInv'
  <1>1. TypeOK /\ FileInv /\ live \in Machine /\ source.machine \in Machine
        /\ phase = "smoke" /\ RuntimeIn /\ SoundIn
    BY DEF SaveInv, TypeOK, LoadSmoke, Source, LoadInv
  <1>2. CASE Found("smoke") /\ Fits(Find("smoke"), "smoke")
    <2>1. /\ live' = [live EXCEPT !.smoke = Find("smoke").block.smoke]
          /\ Continue("host")
      BY <1>2 DEF LoadSmoke
    <2>2. Find("smoke").block.smoke = source.machine.smoke
      BY <1>1, <1>2, InFile
    <2>3. /\ live' \in Machine /\ live'.smoke = source.machine.smoke
          /\ live'.runtime = live.runtime /\ live'.z80 = live.z80
          /\ live'.ym = live.ym
      BY <1>1, <2>1, <2>2 DEF Machine
    <2>4. LoadInv'
      BY <1>1, <1>2, <2>1, <2>3, FileKept
      DEF Continue, LoadInv, RuntimeIn, SoundIn, SmokeIn
    <2> QED
      BY <1>1, <2>1, <2>3, <2>4, ContinueKeeps DEF LoadPhases
  <1>3. CASE ~(Found("smoke") /\ Fits(Find("smoke"), "smoke"))
    <2>1. Refused /\ live' \in Machine
      BY <1>1, <1>3 DEF LoadSmoke
    <2>2. ASSUME Len(file) = Len(Pieces(source)), SameLayout PROVE FALSE
      <3>1. Found("smoke") /\ Find("smoke").build = source.build
        BY <1>1, <2>2, InFile
      <3> QED
        BY <1>1, <1>3, <2>2, <3>1, FitsOwn DEF Blocks
    <2> QED
      BY <2>1, <2>2, RefusedKeeps
  <1> QED
    BY <1>2, <1>3

LEMMA LoadHostKeeps ==
  ASSUME SaveInv, LoadHost
  PROVE  SaveInv'
  <1>1. TypeOK /\ FileInv /\ live \in Machine /\ source.machine \in Machine
        /\ phase = "host" /\ RuntimeIn /\ SoundIn /\ SmokeIn
    BY DEF SaveInv, TypeOK, LoadHost, Source, LoadInv
  <1>2. CASE ~Found("host")
    <2>1. Continue("finish") /\ live' = live
      BY <1>2 DEF LoadHost
    <2>2. LoadInv'
      BY <1>1, <1>2, <2>1, FileKept
      DEF Continue, LoadInv, RuntimeIn, SoundIn, SmokeIn, HostIn
    <2> QED
      BY <1>1, <2>1, <2>2, ContinueKeeps DEF LoadPhases
  <1>3. CASE Found("host") /\ Fits(Find("host"), "host")
    <2>1. /\ live' = [live EXCEPT !.pacing = Find("host").block.pacing,
                                  !.last = Find("host").block.last]
          /\ Continue("finish")
      BY <1>3 DEF LoadHost
    <2>2. /\ Find("host").block.pacing = source.machine.pacing
          /\ Find("host").block.last = source.machine.last
      BY <1>1, <1>3, InFile
    <2>3. /\ live' \in Machine
          /\ live'.pacing = source.machine.pacing
          /\ live'.last = source.machine.last
          /\ live'.runtime = live.runtime /\ live'.z80 = live.z80
          /\ live'.ym = live.ym /\ live'.smoke = live.smoke
      BY <1>1, <2>1, <2>2 DEF Machine
    <2>4. LoadInv'
      BY <1>1, <1>3, <2>1, <2>3, FileKept
      DEF Continue, LoadInv, RuntimeIn, SoundIn, SmokeIn, HostIn
    <2> QED
      BY <1>1, <2>1, <2>3, <2>4, ContinueKeeps DEF LoadPhases
  <1>4. CASE Found("host") /\ ~Fits(Find("host"), "host")
    <2>1. Refused /\ live' \in Machine
      BY <1>1, <1>4 DEF LoadHost
    <2>2. ~SameLayout
      BY <1>1, <1>4, InFile, FitsOwn DEF Blocks
    <2> QED
      BY <2>1, <2>2, RefusedKeeps
  <1> QED
    BY <1>2, <1>3, <1>4

LEMMA LoadFinishKeeps ==
  ASSUME SaveInv, LoadFinish
  PROVE  SaveInv'
  <1>1. TypeOK /\ FileInv /\ live \in Machine /\ source.machine \in Machine
        /\ phase = "finish" /\ RuntimeIn /\ SoundIn /\ SmokeIn /\ HostIn
    BY DEF SaveInv, TypeOK, LoadFinish, Source, LoadInv
  <1>2. /\ phase' = "run" /\ starting' = FALSE /\ outcome' = "loaded"
        /\ build' = build /\ sound' = sound /\ file' = file /\ saves' = saves
        /\ source' = source
        /\ taint' = taint \cup source.taint \cup (IF Whole THEN {} ELSE {"patched"})
    BY DEF LoadFinish, Accepted
  <1>3. /\ live' \in Machine
        /\ live'.runtime = live.runtime /\ live'.smoke = live.smoke
        /\ live'.z80 = live.z80 /\ live'.ym = live.ym
        /\ live'.pacing = live.pacing
        /\ live'.last <= live'.runtime
        /\ live.last <= live.runtime => live'.last = live.last
        /\ sound => live'.reply = live.z80
    <2> DEFINE l == IF live.last > live.runtime THEN live.runtime ELSE live.last
               r == IF sound THEN live.z80 ELSE live.reply
    <2>1. live' = [live EXCEPT !.last = l, !.reply = r]
      BY DEF LoadFinish
    <2>2. /\ l \in Moment /\ r \in Moment /\ l <= live.runtime
          /\ live.last <= live.runtime => l = live.last
          /\ sound => r = live.z80
      BY <1>1, SaveAssumption DEF Machine, Moment
    <2> HIDE DEF l, r
    <2> QED
      BY <1>1, <2>1, <2>2 DEF Machine
  <1>4. FileInv'
    BY <1>1, <1>2, FileKept
  <1>5. TypeOK'
    BY <1>1, <1>2, <1>3 DEF TypeOK, Source, Taints
  <1>6. Coherent(source.machine, source.taint, source.sound)
    BY DEF SaveInv, StepInv
  <1>7. DispatcherWith(live', taint')
    <2>1. "refused" \notin taint' => source.machine.smoke = source.machine.runtime
      BY <1>2, <1>6 DEF Coherent, DispatcherWith
    <2> QED
      BY <1>1, <1>3, <2>1 DEF DispatcherWith, RuntimeIn, SmokeIn
  <1>8. SoundWith(live', taint', sound')
    <2> SUFFICES ASSUME sound, taint' = {}
                 PROVE  live'.z80 = live'.last /\ live'.ym = live'.last
                        /\ live'.pacing = live'.last
      BY <1>2 DEF SoundWith
    <2>1. source.taint = {} /\ Whole
      BY <1>2
    <2>2. Found("host") /\ Found("audio") /\ source.sound
      BY <1>1, <2>1, InFile DEF Whole
    <2>3. /\ source.machine.z80 = source.machine.last
          /\ source.machine.ym = source.machine.last
          /\ source.machine.pacing = source.machine.last
          /\ source.machine.last <= source.machine.runtime
      BY <1>6, <2>1, <2>2 DEF Coherent, DispatcherWith, SoundWith
    <2> QED
      BY <1>1, <1>3, <2>2, <2>3 DEF RuntimeIn, SoundIn, HostIn
  <1>9. StepInv'
    BY <1>2, <1>6, <1>7, <1>8 DEF StepInv, Coherent
  <1>10. LoadedInv'
    BY <1>1, <1>2, <1>3, FileKept
    DEF LoadedInv, RuntimeIn, SoundIn, SmokeIn, HostIn
  <1> QED
    BY <1>2, <1>4, <1>5, <1>9, <1>10 DEF SaveInv, LoadInv, RefusedInv

-----------------------------------------------------------------------------
(* The invariant.                                                          *)

LEMMA SaveInvariant == Spec => []SaveInv
  <1>1. Init => SaveInv
    <2> SUFFICES ASSUME Init PROVE SaveInv
      OBVIOUS
    <2>1. source \in Source /\ <<>> \in Seq(AnyChunk)
      BY MachineTypes DEF Init, Source
    <2>2. TypeOK
      BY <2>1, MachineTypes DEF Init, TypeOK
    <2>3. FileInv
      <3>1. Len(Pieces(source)) \in Nat
        BY <2>1, PiecesOf
      <3> QED
        BY <3>1 DEF Init, FileInv
    <2>4. StepInv
      BY MachineTypes DEF Init, StepInv
    <2> QED
      BY <2>2, <2>3, <2>4 DEF Init, SaveInv, LoadInv, LoadedInv, RefusedInv
  <1>2. SaveInv /\ [Next]_vars => SaveInv'
    <2> SUFFICES ASSUME SaveInv, [Next]_vars PROVE SaveInv'
      OBVIOUS
    <2>1. CASE \E b \in Builds, s, load \in BOOLEAN : Start(b, s, load)
      BY <2>1, StartKeeps
    <2>2. CASE RunSlice \/ AudioSync \/ Die
      BY <2>2, RunSliceKeeps, AudioSyncKeeps, DieKeeps
    <2>3. CASE Save
      BY <2>3, BeginSaveKeeps, WritePieceKeeps, SaveEndsKeeps DEF Save
    <2>4. CASE Load
      BY <2>4, SaveEndsKeeps, LoadHeaderKeeps, LoadRuntimeKeeps, LoadAudioKeeps,
         LoadSmokeKeeps, LoadHostKeeps, LoadFinishKeeps DEF Load
    <2>5. CASE UNCHANGED vars
      <3>1. FileInv'
        BY <2>5, FileKept DEF SaveInv, vars
      <3> QED
        BY <2>5, <3>1, FileKept
        DEF vars, SaveInv, TypeOK, StepInv, LoadInv, LoadedInv, RefusedInv,
            RuntimeIn, SoundIn, SmokeIn, HostIn, SameLayout
    <2> QED
      BY <2>1, <2>2, <2>3, <2>4, <2>5 DEF Next
  <1> QED
    BY <1>1, <1>2, PTL DEF Spec

-----------------------------------------------------------------------------
(* Theorems.                                                               *)

\* A load that is reported as successful has put the 68000, the dispatcher
\* and the sound CPU in the state of one save, for every way the file was cut
\* short and every pair of builds (live_load_savestate).
THEOREM LoadsAreWhole == Spec => []AcceptedIsOneSave
  <1>1. SaveInv => AcceptedIsOneSave
    <2> SUFFICES ASSUME SaveInv, outcome = "loaded"
                 PROVE  AcceptedIsOneSave
      BY DEF AcceptedIsOneSave
    <2>1. RuntimeIn /\ SmokeIn /\ SoundIn
      BY DEF SaveInv, LoadedInv
    <2>2. source.sound => Found("audio")
      BY <2>1, InFile DEF SaveInv, SmokeIn
    <2> QED
      BY <2>1, <2>2 DEF AcceptedIsOneSave, RuntimeIn, SmokeIn, SoundIn
  <1> QED
    BY <1>1, SaveInvariant, PTL

\* A completed save is never refused by a build of the same layouts, and
\* brings the whole machine back (live_save_savestate, live_load_savestate).
THEOREM CompleteRestores == Spec => []CompleteFileRestores
  <1>1. SaveInv => CompleteFileRestores
    <2> SUFFICES ASSUME SaveInv, Complete, SameLayout
                 PROVE  CompleteFileRestores
      BY DEF CompleteFileRestores
    <2>1. outcome # "refused"
      BY DEF SaveInv, RefusedInv, Complete
    <2>2. ASSUME outcome = "loaded", sound, source.sound,
                 source.machine.last <= source.machine.runtime
          PROVE  live = [source.machine EXCEPT !.reply = source.machine.z80]
      <3>0. TypeOK /\ FileInv /\ Len(file) = Len(Pieces(source))
        BY DEF SaveInv, Complete
      <3>1. Found("host") /\ Found("audio")
        <4> DEFINE n == IF source.sound THEN 1 ELSE 0
        <4>1. /\ Len(file) \in Nat /\ Len(Pieces(source)) = 4 + n
              /\ Found("audio") <=> source.sound /\ Len(file) >= 3
              /\ Found("host") <=> Len(file) >= 4 + n
          BY <3>0, InFile
        <4>2. n \in {0, 1}
          OBVIOUS
        <4> HIDE DEF n
        <4> QED
          BY <2>2, <3>0, <4>1, <4>2
      <3>2. /\ live.runtime = source.machine.runtime
            /\ live.reply = source.machine.z80
            /\ live.z80 = source.machine.z80 /\ live.ym = source.machine.ym
            /\ live.smoke = source.machine.smoke
            /\ live.pacing = source.machine.pacing
            /\ live.last = source.machine.last
        BY <2>2, <3>1 DEF SaveInv, LoadedInv, RuntimeIn, SoundIn, SmokeIn
      <3>3. live \in Machine /\ source.machine \in Machine
        BY DEF SaveInv, TypeOK, Source
      <3> QED
        BY <3>2, <3>3 DEF Machine
    <2> QED
      BY <2>1, <2>2 DEF CompleteFileRestores
  <1> QED
    BY <1>1, SaveInvariant, PTL

\* The dispatcher goes on where the 68000 is and the audio's clock never
\* runs ahead, over any number of saves, loads and restarts, until a load is
\* refused (live_audio_sync_to_runtime takes an unsigned difference).
THEOREM MachineStaysInStep == Spec => []MachineInStep
  <1>1. SaveInv => MachineInStep
    BY DEF SaveInv, StepInv, Coherent, DispatcherWith, MachineInStep
  <1> QED
    BY <1>1, SaveInvariant, PTL

\* The Z80, the YM2610, the borrowed time and the audio's clock belong to one
\* moment as long as every load was of a whole file.
THEOREM SoundStaysInStep == Spec => []SoundInStep
  <1>1. SaveInv => SoundInStep
    BY DEF SaveInv, StepInv, Coherent, SoundWith, SoundInStep
  <1> QED
    BY <1>1, SaveInvariant, PTL
=============================================================================
