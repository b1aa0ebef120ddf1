------------------------------ MODULE MCSession ------------------------------
(* Instances of Session for TLC. *)
EXTENDS Session, TLC

C(m, v, j, g) == [mode |-> m, via |-> v, jail |-> j, grant |-> g]

\* Two jails, one grant: sessions of one jail and of different ones run side by
\* side and one after the other.
TwoJails == {C("casual", "plain", "j", "g"), C("casual", "sudo", "k", "g"),
             C("strict", "setuid", "j", "g")}

\* Every mode and every way to be started.
Every == {C("casual", "plain", "j", "g"), C("casual", "sudo", "j", "g"),
          C("bare", "plain", "j", "g"),
          C("strict", "setuid", "j", "g"), C("strict", "plain", "j", "g")}

CasualOnly == {C("casual", "plain", "j", "g")}
StrictOnly == {C("strict", "setuid", "j", "g")}
BareOnly == {C("bare", "plain", "j", "g")}

Symmetry == Permutations(Session)
=============================================================================
