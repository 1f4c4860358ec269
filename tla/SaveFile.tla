------------------------------- MODULE SaveFile -------------------------------
(***************************************************************************)
(* Save states of tools/sdl_live_host.c (F5, F8, --load-state, autosave):  *)
(* one file of chunks, written in place, read back part by part into a     *)
(* machine that keeps running when a part is refused.                      *)
(*                                                                         *)
(* What a part of the machine holds is abstracted to the moment it belongs *)
(* to: a part whose value is m is in the state it had after m slices.  The *)
(* pacing part is the Z80 remainder and the borrowed time of NgLiveAudio,  *)
(* the last part its last_cpu_cycles, the reply part the sound reply latch *)
(* the 68000 reads.  A file is the sequence of the pieces that are whole:  *)
(* a piece that was cut short is one live_find_state_chunk does not find.  *)
(***************************************************************************)
EXTENDS Naturals, Sequences

CONSTANTS
  Builds,     \* builds of the program that read and write the file
  Layout,     \* Layout[b][p]: size and version of p's block in build b
  MaxMoment,  \* bound on the number of slices run
  MaxSaves    \* bound on the number of saves begun

Blocks == {"runtime", "z80", "ym", "smoke", "host"}

ASSUME SaveAssumption ==
  /\ Layout \in [Builds -> [Blocks -> Nat]]
  /\ MaxMoment \in Nat /\ MaxSaves \in Nat

VARIABLES
  phase,      \* down, run, save, or the next chunk a load looks for
  build,      \* of the running program
  sound,      \* this process has a sound CPU (audio->audio)
  starting,   \* the load under way is the one of --load-state
  live,       \* the machine: the moment each part belongs to
  file,       \* the pieces in the file
  saves,      \* saves begun
  source,     \* ghost: what the last save wrote from
  outcome,    \* ghost: none, saved, loaded, refused
  taint       \* ghost: how the machine came to be unlike any saved one

vars == <<phase, build, sound, starting, live, file, saves, source, outcome,
          taint>>

Moment == 0..MaxMoment

Machine == [runtime : Moment, reply : Moment, z80 : Moment, ym : Moment,
            smoke : Moment, pacing : Moment, last : Moment]

PowerOn == [runtime |-> 0, reply |-> 0, z80 |-> 0, ym |-> 0, smoke |-> 0,
            pacing |-> 0, last |-> 0]

Init ==
  /\ phase = "down" /\ build \in Builds /\ sound = FALSE /\ starting = FALSE
  /\ live = PowerOn
  /\ file = <<>> /\ saves = 0
  /\ source = [machine |-> PowerOn, build |-> build, sound |-> FALSE, taint |-> {}]
  /\ outcome = "none" /\ taint = {}

(***************************************************************************)
(* The program starts, runs slices, keeps the audio in step, dies.         *)
(***************************************************************************)
Start(b, s, load) ==
  /\ phase = "down"
  /\ build' = b /\ sound' = s /\ starting' = load
  /\ live' = PowerOn
  /\ phase' = IF load THEN "load" ELSE "run"
  /\ taint' = {} /\ outcome' = "none"
  /\ UNCHANGED <<file, saves, source>>

\* A slice of generated code; the audio is synced separately.
RunSlice ==
  /\ phase = "run" /\ live.runtime < MaxMoment /\ live.smoke < MaxMoment
  /\ live' = [live EXCEPT !.runtime = @ + 1, !.smoke = @ + 1]
  /\ outcome' = "none"
  /\ UNCHANGED <<phase, build, sound, starting, file, saves, source, taint>>

\* live_audio_sync_to_runtime: the audio runs for the 68000 time it has not
\* seen, and not at all if its own clock is ahead.
AudioSync ==
  /\ phase = "run" /\ sound
  /\ LET lag == IF live.runtime > live.last THEN live.runtime - live.last ELSE 0
     IN /\ live.z80 + lag <= MaxMoment /\ live.ym + lag <= MaxMoment
        /\ live.pacing + lag <= MaxMoment
        /\ live' = [runtime |-> live.runtime, smoke |-> live.smoke,
                    z80 |-> live.z80 + lag, ym |-> live.ym + lag,
                    pacing |-> live.pacing + lag, last |-> live.last + lag,
                    reply |-> live.z80 + lag]
  /\ outcome' = "none"
  /\ UNCHANGED <<phase, build, sound, starting, file, saves, source, taint>>

\* The program ends or is killed, in a save or a load too.
Die ==
  /\ phase # "down"
  /\ phase' = "down"
  /\ sound' = FALSE /\ starting' = FALSE /\ live' = PowerOn
  /\ outcome' = "none" /\ taint' = {}
  /\ UNCHANGED <<build, file, saves, source>>

(***************************************************************************)
(* live_save_savestate.                                                    *)
(***************************************************************************)
\* What each save function puts into its block.
RuntimeBlock(m) == [runtime |-> m.runtime, reply |-> m.reply]

YmBlock(m) == [ym |-> m.ym]

AudioBlock(m) == [z80 |-> m.z80, ym |-> YmBlock(m)]

SmokeBlock(m) == [smoke |-> m.smoke]

HostBlock(m) == [pacing |-> m.pacing, last |-> m.last]

Chunk(id, b, block) == [id |-> id, build |-> b, block |-> block]

\* Mutation: the dispatch state comes before the sound state.
PiecesSwapped(s) ==
  <<Chunk("header", s.build, <<>>),
    Chunk("runtime", s.build, RuntimeBlock(s.machine)),
    Chunk("smoke", s.build, SmokeBlock(s.machine))>>
    \o (IF s.sound THEN <<Chunk("audio", s.build, AudioBlock(s.machine))>>
                   ELSE <<>>)
    \o <<Chunk("host", s.build, HostBlock(s.machine))>>

\* The header and the chunks, in the order they are written.
Pieces(s) ==
  <<Chunk("header", s.build, <<>>),
    Chunk("runtime", s.build, RuntimeBlock(s.machine))>>
    \o (IF s.sound THEN <<Chunk("audio", s.build, AudioBlock(s.machine))>>
                   ELSE <<>>)
    \o <<Chunk("smoke", s.build, SmokeBlock(s.machine)),
         Chunk("host", s.build, HostBlock(s.machine))>>

\* All parts are captured, then fopen "wb" empties the file.
BeginSave ==
  /\ phase = "run" /\ saves < MaxSaves
  /\ source' = [machine |-> live, build |-> build, sound |-> sound, taint |-> taint]
  /\ file' = <<>> /\ saves' = saves + 1
  /\ phase' = "save" /\ outcome' = "none"
  /\ UNCHANGED <<build, sound, starting, live, taint>>

WritePiece ==
  /\ phase = "save" /\ Len(file) < Len(Pieces(source))
  /\ file' = Append(file, Pieces(source)[Len(file) + 1])
  /\ UNCHANGED <<phase, build, sound, starting, live, saves, source, outcome, taint>>

\* A write or fclose fails: what is in the file stays there.
SaveFails ==
  /\ phase = "save"
  /\ phase' = "run"
  /\ UNCHANGED <<build, sound, starting, live, file, saves, source, outcome, taint>>

SaveDone ==
  /\ phase = "save" /\ Len(file) = Len(Pieces(source))
  /\ phase' = "run" /\ outcome' = "saved"
  /\ UNCHANGED <<build, sound, starting, live, file, saves, source, taint>>

(***************************************************************************)
(* live_load_savestate.                                                    *)
(***************************************************************************)
\* Mutation: the count in the header is that of the first two chunks.
FoundFirstTwo(id) == \E i \in 1..Len(file) : i <= 3 /\ file[i].id = id

\* live_find_state_chunk.
Found(id) == \E i \in 1..Len(file) : file[i].id = id

Find(id) == file[CHOOSE i \in 1..Len(file) : file[i].id = id]

\* The block's magic, version and size checks.
Fits(c, block) == Layout[c.build][block] = Layout[build][block]

\* F8 is ignored and the machine runs on; --load-state ends the program.
Refused ==
  /\ phase' = IF starting THEN "down" ELSE "run"
  /\ outcome' = "refused"
  /\ taint' = taint \cup {"refused"}
  /\ starting' = FALSE
  /\ UNCHANGED <<build, sound, file, saves, source>>

Continue(next) ==
  /\ phase' = next
  /\ UNCHANGED <<build, sound, starting, file, saves, source, outcome, taint>>

\* F8.
BeginLoad ==
  /\ phase = "run"
  /\ phase' = "load" /\ outcome' = "none"
  /\ UNCHANGED <<build, sound, starting, live, file, saves, source, taint>>

\* No file, or a header that is cut short.
LoadHeader ==
  /\ phase = "load"
  /\ IF Found("header") THEN Continue("runtime") ELSE Refused
  /\ UNCHANGED live

LoadRuntime ==
  /\ phase = "runtime"
  /\ IF Found("runtime") /\ Fits(Find("runtime"), "runtime")
     THEN /\ LET m == Find("runtime").block
             IN live' = [live EXCEPT !.runtime = m.runtime, !.reply = m.reply]
          /\ Continue("audio")
     ELSE Refused /\ UNCHANGED live

\* ng_neogeo_audio_load_state: the YM2610 block is looked at after the Z80
\* part is in place.  No sound chunk, or no sound CPU: nothing to do.
LoadAudio ==
  /\ phase = "audio"
  /\ \/ /\ ~(sound /\ Found("audio"))
        /\ Continue("smoke") /\ UNCHANGED live
     \/ /\ sound /\ Found("audio")
        /\ LET c == Find("audio")
           IN \/ /\ ~Fits(c, "z80")
                 /\ Refused /\ UNCHANGED live
              \/ /\ Fits(c, "z80") /\ ~Fits(c, "ym")
                 /\ live' = [live EXCEPT !.z80 = c.block.z80]
                 /\ Refused
              \/ /\ Fits(c, "z80") /\ Fits(c, "ym")
                 /\ live' = [live EXCEPT !.z80 = c.block.z80, !.ym = c.block.ym.ym]
                 /\ Continue("smoke")

LoadSmoke ==
  /\ phase = "smoke"
  /\ IF Found("smoke") /\ Fits(Find("smoke"), "smoke")
     THEN /\ live' = [live EXCEPT !.smoke = Find("smoke").block.smoke]
          /\ Continue("host")
     ELSE Refused /\ UNCHANGED live

\* Mutation: the borrowed time is not restored.
LoadHostKeepsPacing ==
  /\ phase = "host"
  /\ \/ ~Found("host") /\ Continue("finish") /\ UNCHANGED live
     \/ /\ Found("host") /\ Fits(Find("host"), "host")
        /\ live' = [live EXCEPT !.last = Find("host").block.last]
        /\ Continue("finish")
     \/ /\ Found("host") /\ ~Fits(Find("host"), "host")
        /\ Refused /\ UNCHANGED live

\* A file that ends before the host chunk is accepted all the same.
LoadHost ==
  /\ phase = "host"
  /\ \/ ~Found("host") /\ Continue("finish") /\ UNCHANGED live
     \/ /\ Found("host") /\ Fits(Find("host"), "host")
        /\ LET m == Find("host").block
           IN live' = [live EXCEPT !.pacing = m.pacing, !.last = m.last]
        /\ Continue("finish")
     \/ /\ Found("host") /\ ~Fits(Find("host"), "host")
        /\ Refused /\ UNCHANGED live

Whole == Found("host") /\ (sound => Found("audio"))

\* The load returns 1; the machine inherits what was wrong with the file's.
Accepted ==
  /\ phase' = "run" /\ starting' = FALSE /\ outcome' = "loaded"
  /\ taint' = taint \cup source.taint \cup (IF Whole THEN {} ELSE {"patched"})
  /\ UNCHANGED <<build, sound, file, saves, source>>

\* Mutation: the audio's clock is left as it is.
LoadFinishUnclamped ==
  /\ phase = "finish"
  /\ live' = [live EXCEPT !.reply = IF sound THEN live.z80 ELSE @]
  /\ Accepted

\* The audio's clock is held back to the 68000's, the reply latch refreshed.
LoadFinish ==
  /\ phase = "finish"
  /\ live' = [live EXCEPT
       !.last = IF @ > live.runtime THEN live.runtime ELSE @,
       !.reply = IF sound THEN live.z80 ELSE @]
  /\ Accepted

Save == BeginSave \/ WritePiece \/ SaveFails \/ SaveDone

Load ==
  \/ BeginLoad \/ LoadHeader \/ LoadRuntime \/ LoadAudio \/ LoadSmoke
  \/ LoadHost \/ LoadFinish

Next ==
  \/ \E b \in Builds, s, load \in BOOLEAN : Start(b, s, load)
  \/ RunSlice \/ AudioSync \/ Save \/ Load \/ Die

Spec == Init /\ [][Next]_vars

(***************************************************************************)
(* Properties.                                                             *)
(***************************************************************************)
\* A load that live_load_savestate reports as successful has put the 68000,
\* the dispatcher and, if the file has one, the sound CPU in the state of one
\* and the same save, however the writing of the file ended: a torn file is
\* never half taken for a good one.
AcceptedIsOneSave ==
  outcome = "loaded" =>
    /\ live.runtime = source.machine.runtime
    /\ live.smoke = source.machine.smoke
    /\ sound /\ source.sound =>
         live.z80 = source.machine.z80 /\ live.ym = source.machine.ym

Complete == Len(file) = Len(Pieces(source)) /\ phase # "save"

SameLayout == Layout[build] = Layout[source.build]

\* A file whose save was completed is accepted by every later process of a
\* build with the same layouts and brings back the whole machine as it was,
\* also when the machine has been damaged by a refused load before.
CompleteFileRestores ==
  (Complete /\ SameLayout) =>
    /\ outcome # "refused"
    /\ outcome = "loaded" /\ sound /\ source.sound
         /\ source.machine.last <= source.machine.runtime =>
         live = [source.machine EXCEPT !.reply = source.machine.z80]

\* As long as no load has been refused, the dispatcher goes on where the
\* 68000 is, and the audio's clock is never ahead of the 68000's: the
\* unsigned difference the cycle observer takes does not wrap.
MachineInStep ==
  (phase = "run" /\ "refused" \notin taint) =>
    /\ live.smoke = live.runtime
    /\ live.last <= live.runtime

\* As long as every load was of a whole file and none was refused, the Z80,
\* the YM2610, the borrowed time and the audio's clock belong to one moment,
\* so no Z80 time is run twice or skipped after a load.
SoundInStep ==
  (phase = "run" /\ sound /\ taint = {}) =>
    /\ live.z80 = live.last /\ live.ym = live.last /\ live.pacing = live.last
=============================================================================
