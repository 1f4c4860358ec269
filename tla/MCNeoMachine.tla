---------------------------- MODULE MCNeoMachine ----------------------------
(***************************************************************************)
(* Values for the constants of NeoMachine that a cfg file cannot write.    *)
(***************************************************************************)
EXTENDS NeoMachine

\* The interesting combinations of the mode flags.
SomeModes == {{}, {"enable", "on_write"}, {"enable", "on_write", "on_zero"},
              {"enable", "on_frame"}}
EachSource == {{s} : s \in Sources}
AckPair    == {{"vblank"}, {"vblank", "timer"}}
=============================================================================
