-------------------------------- MODULE MCAcl --------------------------------
(* An instance of Acl for TLC. *)
EXTENDS Acl

\* The granted directory, two levels below it, and a name outside.
Paths3 == {<<"g">>, <<"g", "d">>, <<"g", "d", "x">>, <<"g", "f">>, <<"o">>}
G == <<"g">>
=============================================================================
