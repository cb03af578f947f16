------------------------------ MODULE MCRelease ------------------------------
(* Release with small constants for TLC.                                   *)
EXTENDS Release, TLC

\* Two releases of one line, and a pre-release between them.
MCVersions == {<<1, 0, 0, 1>>, <<1, 1, 0, 0>>, <<1, 1, 0, 1>>}

\* Notes without a section, with one in the middle, and with its end lost.
MCBodies == {<<"intro">>, <<"intro", START, PACKAGES, END, "outro">>, <<START, "outro">>}
MCReleased == {<<1, 1, 0, 1>>}

CommitSymmetry == Permutations(Commits)
==============================================================================
