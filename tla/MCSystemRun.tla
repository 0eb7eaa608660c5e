---------------------------- MODULE MCSystemRun ----------------------------
(* Small instances of SystemRun for TLC.                                    *)
EXTENDS SystemRun

\* A period function may go back before the item was created, stay, advance.
SomeFrames == {-2, 2}
=============================================================================
