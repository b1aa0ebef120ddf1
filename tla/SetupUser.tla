------------------------------ MODULE SetupUser ------------------------------
(***************************************************************************)
(* `jaim --setup-user' and `--remove-user' (setup_user.cc): the _jaim      *)
(* account is built in the directory service one dscl(1) call at a time,   *)
(* any of which may fail, and the command may be killed between two of     *)
(* them.  Commands run one after the other.                                *)
(*                                                                         *)
(* dscl is external: `-create <record>' makes the record if it is not      *)
(* there and otherwise leaves it alone, `-create <record> <key> <value>'   *)
(* replaces the value.                                                     *)
(***************************************************************************)
EXTENDS Naturals, Sequences

CONSTANTS
    Ids,            \* the range scanned for a free gid
    MaxFaults,      \* bound: dscl calls and lookups that fail
    MaxRuns         \* bound: commands

ASSUME IdsAssumption == Ids \subseteq Nat

ASSUME BoundsAssumption == MaxFaults \in Nat /\ MaxRuns \in Nat

VARIABLES
    pc,         \* where the command is; "idle" between commands
    i,          \* the attribute to set next
    taken,      \* gids of other groups; they never change
    gid,        \* the gid the command has picked
    group,      \* attributes of /Groups/_jaim
    user,       \* attributes of /Users/_jaim
    groupGid,   \* the value of the group's PrimaryGroupID
    userGid,    \* the value of the user's PrimaryGroupID
    outcome,    \* how the last command ended
    left,       \* history: what the commands could not undo
    faults, runs

vars == <<pc, i, taken, gid, group, user, groupGid, userGid, outcome, left, faults, runs>>

records == <<group, user, groupGid, userGid>>

\* In the order they are set; "record" stands for the record itself.
GroupAttrs == <<"PrimaryGroupID", "RealName", "Password">>
UserAttrs == <<"UniqueID", "PrimaryGroupID", "NFSHomeDirectory", "UserShell", "RealName",
               "Password", "IsHidden">>

Full(attrs) == {"record"} \cup {attrs[n] : n \in DOMAIN attrs}

\* GrEnt::get_nam and PwEnt::get_nam (external): an entry needs its ids.
GrNam == "PrimaryGroupID" \in group
PwNam == {"UniqueID", "PrimaryGroupID"} \subseteq user

\* GrEnt::get_id finds nothing.
UnusedGids == Ids \ (taken \cup (IF GrNam THEN {groupGid} ELSE {}))

Pc == {"idle", "g_create", "g_attrs", "g_check", "u_create", "u_attrs", "u_check",
       "u_undo", "g_undo", "r_user", "r_group"}

End(o) == pc' = "idle" /\ outcome' = o

Fault == faults < MaxFaults /\ faults' = faults + 1

-----------------------------------------------------------------------------
(* setup_jaim_user. *)

Begin == pc = "idle" /\ runs < MaxRuns /\ runs' = runs + 1

\* The short-circuit: an account that resolves is not repaired.
SetupExists ==
    /\ Begin /\ PwNam
    /\ End("exists")
    /\ UNCHANGED <<i, taken, gid, records, left, faults>>

\* find_unused_gid: the lowest free one.
Setup ==
    /\ Begin /\ ~PwNam
    /\ gid' \in {g \in UnusedGids : \A h \in UnusedGids : g <= h}
    /\ pc' = "g_create" /\ outcome' = "none"
    /\ UNCHANGED <<i, taken, records, left, faults>>

SetupNoGid ==
    /\ Begin /\ ~PwNam /\ UnusedGids = {}
    /\ End("failed")
    /\ UNCHANGED <<i, taken, gid, records, left, faults>>

CreateGroup ==
    /\ pc = "g_create"
    /\ group' = group \cup {"record"}
    /\ pc' = "g_attrs" /\ i' = 1
    /\ UNCHANGED <<taken, gid, user, groupGid, userGid, outcome, left, faults, runs>>

\* Mutant of SetGroupAttr: a group that has a gid keeps it.
SetGroupAttrKeeps ==
    /\ pc = "g_attrs"
    /\ group' = group \cup {GroupAttrs[i]}
    /\ groupGid' = IF GroupAttrs[i] = "PrimaryGroupID" /\ ~GrNam THEN gid ELSE groupGid
    /\ i' = i + 1
    /\ pc' = IF i = Len(GroupAttrs) THEN "g_check" ELSE "g_attrs"
    /\ UNCHANGED <<taken, gid, user, userGid, outcome, left, faults, runs>>

SetGroupAttr ==
    /\ pc = "g_attrs"
    /\ group' = group \cup {GroupAttrs[i]}
    /\ groupGid' = IF GroupAttrs[i] = "PrimaryGroupID" THEN gid ELSE groupGid
    /\ i' = i + 1
    /\ pc' = IF i = Len(GroupAttrs) THEN "g_check" ELSE "g_attrs"
    /\ UNCHANGED <<taken, gid, user, userGid, outcome, left, faults, runs>>

\* The catch block.
SetGroupAttrFails ==
    /\ pc = "g_attrs" /\ Fault
    /\ pc' = "g_undo"
    /\ UNCHANGED <<i, taken, gid, records, outcome, left, runs>>

\* get_nam, then find_unused_uid.
CheckGroup ==
    /\ pc = "g_check" /\ GrNam
    /\ pc' = "u_create"
    /\ UNCHANGED <<i, taken, gid, records, outcome, left, faults, runs>>

CreateUser ==
    /\ pc = "u_create"
    /\ user' = user \cup {"record"}
    /\ pc' = "u_attrs" /\ i' = 1
    /\ UNCHANGED <<taken, gid, group, groupGid, userGid, outcome, left, faults, runs>>

SetUserAttr ==
    /\ pc = "u_attrs"
    /\ user' = user \cup {UserAttrs[i]}
    /\ userGid' = IF UserAttrs[i] = "PrimaryGroupID" THEN gid ELSE userGid
    /\ i' = i + 1
    /\ pc' = IF i = Len(UserAttrs) THEN "u_check" ELSE "u_attrs"
    /\ UNCHANGED <<taken, gid, group, groupGid, outcome, left, faults, runs>>

SetUserAttrFails ==
    /\ pc = "u_attrs" /\ Fault
    /\ pc' = "u_undo"
    /\ UNCHANGED <<i, taken, gid, records, outcome, left, runs>>

CheckUser ==
    /\ pc = "u_check" /\ PwNam
    /\ End("created") /\ left' = {}
    /\ UNCHANGED <<i, taken, gid, records, faults, runs>>

\* A dscl call or a lookup outside the try blocks: nothing is undone.
Throws ==
    /\ pc \in {"g_create", "g_check", "u_create", "u_check", "r_user", "r_group"} /\ Fault
    /\ End("failed")
    /\ UNCHANGED <<i, taken, gid, records, left, runs>>

\* dscl_delete_record, and what is left when it fails as well.
DeleteUser == user' = {} /\ UNCHANGED <<group, groupGid, userGid>>
DeleteGroup == group' = {} /\ UNCHANGED <<user, groupGid, userGid>>

UndoUser ==
    /\ pc = "u_undo"
    /\ pc' = "g_undo"
    /\ \/ DeleteUser /\ UNCHANGED <<left, faults>>
       \/ Fault /\ left' = left \cup {"user"} /\ UNCHANGED records
    /\ UNCHANGED <<i, taken, gid, outcome, runs>>

\* Mutant of UndoGroup: the group is kept for the next attempt.
UndoGroupNot ==
    /\ pc = "g_undo"
    /\ End("failed")
    /\ UNCHANGED <<i, taken, gid, records, left, faults, runs>>

UndoGroup ==
    /\ pc = "g_undo"
    /\ End("failed")
    /\ \/ DeleteGroup /\ UNCHANGED <<left, faults>>
       \/ Fault /\ left' = left \cup {"group"} /\ UNCHANGED records
    /\ UNCHANGED <<i, taken, gid, runs>>

-----------------------------------------------------------------------------
(* remove_jaim_user. *)

\* Mutants of Remove: the group first; no account, nothing to do.
RemoveGroupFirst ==
    /\ Begin
    /\ pc' = "r_group"
    /\ outcome' = "none"
    /\ UNCHANGED <<i, taken, gid, records, left, faults>>

RemoveUserOnly ==
    /\ Begin
    /\ pc' = IF PwNam THEN "r_user" ELSE "idle"
    /\ outcome' = IF PwNam THEN "none" ELSE "removed"
    /\ UNCHANGED <<i, taken, gid, records, left, faults>>

Remove ==
    /\ Begin
    /\ pc' = IF PwNam THEN "r_user" ELSE "r_group"
    /\ outcome' = "none"
    /\ UNCHANGED <<i, taken, gid, records, left, faults>>

RemoveUser ==
    /\ pc = "r_user"
    /\ DeleteUser
    /\ pc' = "r_group"
    /\ UNCHANGED <<i, taken, gid, outcome, left, faults, runs>>

RemoveGroup ==
    /\ pc = "r_group"
    /\ IF GrNam THEN DeleteGroup ELSE UNCHANGED records
    /\ End("removed")
    /\ UNCHANGED <<i, taken, gid, left, faults, runs>>

\* A signal between two calls.
Killed ==
    /\ pc # "idle"
    /\ End("killed") /\ left' = left \cup {"kill"}
    /\ UNCHANGED <<i, taken, gid, records, faults, runs>>

-----------------------------------------------------------------------------

Init == /\ pc = "idle" /\ i = 1 /\ gid = 0 /\ taken \in SUBSET Ids
        /\ group = {} /\ user = {} /\ groupGid = 0 /\ userGid = 0
        /\ outcome = "none" /\ left = {} /\ faults = 0 /\ runs = 0

Next == \/ Setup \/ SetupExists \/ SetupNoGid
        \/ CreateGroup \/ SetGroupAttr \/ SetGroupAttrFails \/ CheckGroup
        \/ CreateUser \/ SetUserAttr \/ SetUserAttrFails \/ CheckUser
        \/ Throws \/ UndoUser \/ UndoGroup
        \/ Remove \/ RemoveUser \/ RemoveGroup \/ Killed

Spec == Init /\ [][Next]_vars

-----------------------------------------------------------------------------
(* Properties. *)

Complete == /\ group = Full(GroupAttrs) /\ user = Full(UserAttrs)
            /\ groupGid = userGid /\ groupGid \notin taken

\* When --setup-user says "created", the whole account is there and its
\* primary group is the _jaim group, whatever earlier attempts, failed or
\* killed half-way, had left in the directory.
CreatedComplete == outcome = "created" => Complete

\* An account that resolves, so one that strict mode would drop to, belongs to
\* a group that exists: users go before their group in --remove-user and in
\* the rollback.  Only a rollback that could not delete the user breaks it.
UserHasGroup == PwNam /\ "user" \notin left => GrNam /\ userGid = groupGid

\* A failure leaves "a coherent state rather than a half-populated" record for
\* the next attempt, if no delete failed and nothing was killed.
FailureCoherent ==
    outcome = "failed" /\ left = {} => /\ group \in {{}, Full(GroupAttrs)}
                                       /\ user \in {{}, Full(UserAttrs)}
                                       /\ user # {} => group # {}

\* After --remove-user nothing is left, on the same condition.
RemovedGone == outcome = "removed" /\ left = {} => group = {} /\ user = {}
=============================================================================
