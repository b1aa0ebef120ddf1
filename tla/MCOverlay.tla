------------------------------ MODULE MCOverlay ------------------------------
(* Instances of Overlay for TLC. *)
EXTENDS Overlay

\* A chain of directories three deep, and a second top-level name that can be
\* renamed into it.
PathLoop == {<<"d">>, <<"d", "x">>, <<"d", "x", "x">>, <<"f">>}

\* Links lead back into the real home by an absolute name.  One at d/x leads
\* to a directory with an entry x, as `ln -s .. x' does.
IntoD == {<<"d">>}

\* Two directories of the same shape, so that one can be renamed to the other.
PathTwin == {<<"d">>, <<"d", "x">>, <<"e">>, <<"e", "x">>}

\* No permission bits at all.
NoBits == {{}}

\* What the real home has, and what clients ask for, under umask {"w"}.
ReadWrite == {{"r", "w"}}
Read == {{"r"}}
=============================================================================
