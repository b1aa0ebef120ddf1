--------------------------- MODULE SetupUserProofs ---------------------------
(***************************************************************************)
(* The account commands are safe for any range of ids, any number of       *)
(* commands and any number of failed calls.                                *)
(***************************************************************************)
EXTENDS SetupUser, TLAPS

-----------------------------------------------------------------------------
(* The inductive invariant. *)

\* The attributes set before number n.
SetBefore(attrs, n) == {"record"} \cup {attrs[m] : m \in 1..(n - 1)}

TypeInv ==
    /\ pc \in Pc /\ i \in Nat /\ taken \subseteq Ids
    /\ group \subseteq Full(GroupAttrs) /\ user \subseteq Full(UserAttrs)

\* How far the group and then the user have come.
GroupState ==
    /\ pc \in {"g_create", "g_attrs", "g_check", "u_create", "u_attrs", "u_check", "u_undo"} =>
         gid \notin taken
    /\ pc = "g_attrs" => i \in 1..3 /\ SetBefore(GroupAttrs, i) \subseteq group
                         /\ (i > 1 => groupGid = gid)
    /\ pc \in {"g_check", "u_create", "u_attrs", "u_check", "u_undo"} =>
         group = Full(GroupAttrs) /\ groupGid = gid

UserState ==
    /\ pc = "u_attrs" => i \in 1..7 /\ SetBefore(UserAttrs, i) \subseteq user
    /\ pc = "u_check" => user = Full(UserAttrs) /\ userGid = gid

\* When the account resolves, and what its primary group is then.  The order
\* of the attributes matters: one that resolves has its PrimaryGroupID from
\* the command that set it.
Resolving ==
    /\ "PrimaryGroupID" \in user => "UniqueID" \in user
    /\ pc \in {"g_create", "g_attrs", "g_check", "u_create", "r_group"} => ~PwNam
    /\ pc = "u_attrs" /\ i <= 2 => ~PwNam
    /\ pc = "u_attrs" /\ i > 2 => userGid = gid
    /\ pc = "u_undo" /\ PwNam => userGid = gid
    /\ pc = "g_undo" => ~PwNam \/ "user" \in left

Coherent == /\ group \in {{}, Full(GroupAttrs)} /\ user \in {{}, Full(UserAttrs)}
            /\ user # {} => group # {}

\* As long as every delete has worked and nothing was killed, commands begin
\* and end in a coherent state.
Tidy ==
    left = {} => /\ pc \in {"idle", "g_create", "r_user", "r_group"} => Coherent
                 /\ pc \in {"g_create", "g_attrs", "g_check", "u_create", "g_undo", "r_group"} =>
                      user = {}

Outcomes ==
    /\ outcome \in {"created", "failed", "removed"} => pc = "idle"
    /\ outcome = "created" => Complete
    /\ outcome = "removed" /\ left = {} => group = {} /\ user = {}

Inv == TypeInv /\ GroupState /\ UserState /\ Resolving /\ UserHasGroup /\ Tidy /\ Outcomes

-----------------------------------------------------------------------------
(* The attributes, by number. *)

LEMMA GroupAttributes ==
    /\ Len(GroupAttrs) = 3
    /\ GroupAttrs[1] = "PrimaryGroupID" /\ GroupAttrs[2] = "RealName" /\ GroupAttrs[3] = "Password"
    /\ Full(GroupAttrs) = {"record", "PrimaryGroupID", "RealName", "Password"}
BY DEF GroupAttrs, Full

LEMMA UserAttributes ==
    /\ Len(UserAttrs) = 7
    /\ UserAttrs[1] = "UniqueID" /\ UserAttrs[2] = "PrimaryGroupID"
    /\ UserAttrs[3] = "NFSHomeDirectory" /\ UserAttrs[4] = "UserShell"
    /\ UserAttrs[5] = "RealName" /\ UserAttrs[6] = "Password" /\ UserAttrs[7] = "IsHidden"
    /\ Full(UserAttrs) = {"record", "UniqueID", "PrimaryGroupID", "NFSHomeDirectory",
                          "UserShell", "RealName", "Password", "IsHidden"}
BY DEF UserAttrs, Full

\* The last attribute completes the record.
LEMMA GroupFilled == Full(GroupAttrs) = SetBefore(GroupAttrs, 3) \cup {GroupAttrs[3]}
BY GroupAttributes DEF SetBefore

LEMMA UserFilled == Full(UserAttrs) = SetBefore(UserAttrs, 7) \cup {UserAttrs[7]}
BY UserAttributes DEF SetBefore

LEMMA SetFirst == ASSUME NEW attrs PROVE SetBefore(attrs, 1) = {"record"}
BY DEF SetBefore

LEMMA SetNext ==
    ASSUME NEW attrs, NEW n \in Nat \ {0}
    PROVE  SetBefore(attrs, n + 1) = SetBefore(attrs, n) \cup {attrs[n]}
<1>1. 1..n = (1..(n - 1)) \cup {n}  OBVIOUS
<1> QED BY <1>1 DEF SetBefore

\* find_unused_gid picks a gid that no other group has.
LEMMA PickedGid == Setup => gid' \notin taken
BY DEF Setup, UnusedGids

-----------------------------------------------------------------------------

LEMMA InitInv == Init => Inv
BY DEF Init, Inv, TypeInv, GroupState, UserState, Resolving, UserHasGroup, Tidy, Outcomes, Pc,
       PwNam, GrNam, Coherent, Complete

LEMMA SetupInv == ASSUME Inv, Setup PROVE Inv'
<1> USE DEF Setup, Begin, records
<1>1. TypeInv'
  BY DEF Inv, TypeInv, Pc
<1>2. GroupState'
  BY PickedGid DEF Inv, GroupState
<1>3. UserState'
  BY DEF Inv, UserState
<1>4. Resolving'
  BY DEF Inv, Resolving, PwNam
<1>5. UserHasGroup'
  BY DEF Inv, UserHasGroup, PwNam, GrNam
<1>6. Tidy'
  BY GroupAttributes, UserAttributes DEF Inv, Tidy, Coherent, TypeInv, GroupState, UserState,
     PwNam, GrNam
<1>7. Outcomes'
  BY DEF Inv, Outcomes, Complete
<1> QED BY <1>1, <1>2, <1>3, <1>4, <1>5, <1>6, <1>7 DEF Inv

LEMMA SetupExistsInv == ASSUME Inv, SetupExists PROVE Inv'
<1> USE DEF SetupExists, Begin, End, records
<1>1. TypeInv'
  BY DEF Inv, TypeInv, Pc
<1>2. GroupState'
  BY DEF Inv, GroupState
<1>3. UserState'
  BY DEF Inv, UserState
<1>4. Resolving'
  BY DEF Inv, Resolving, PwNam
<1>5. UserHasGroup'
  BY DEF Inv, UserHasGroup, PwNam, GrNam
<1>6. Tidy'
  BY DEF Inv, Tidy, Coherent
<1>7. Outcomes'
  BY DEF Inv, Outcomes, Complete
<1> QED BY <1>1, <1>2, <1>3, <1>4, <1>5, <1>6, <1>7 DEF Inv

LEMMA SetupNoGidInv == ASSUME Inv, SetupNoGid PROVE Inv'
<1> USE DEF SetupNoGid, Begin, End, records
<1>1. TypeInv'
  BY DEF Inv, TypeInv, Pc
<1>2. GroupState'
  BY DEF Inv, GroupState
<1>3. UserState'
  BY DEF Inv, UserState
<1>4. Resolving'
  BY DEF Inv, Resolving, PwNam
<1>5. UserHasGroup'
  BY DEF Inv, UserHasGroup, PwNam, GrNam
<1>6. Tidy'
  BY DEF Inv, Tidy, Coherent
<1>7. Outcomes'
  BY DEF Inv, Outcomes, Complete
<1> QED BY <1>1, <1>2, <1>3, <1>4, <1>5, <1>6, <1>7 DEF Inv

LEMMA CreateGroupInv == ASSUME Inv, CreateGroup PROVE Inv'
<1> USE DEF CreateGroup
<1>1. TypeInv'
  BY GroupAttributes, UserAttributes DEF Inv, TypeInv, Pc
<1>2. GroupState'
  BY SetFirst DEF Inv, GroupState
<1>3. UserState'
  BY DEF Inv, UserState
<1>4. Resolving'
  BY DEF Inv, Resolving, PwNam
<1>5. UserHasGroup'
  BY DEF Inv, UserHasGroup, PwNam, GrNam
<1>6. Tidy'
  BY DEF Inv, Tidy, Coherent
<1>7. Outcomes'
  BY DEF Inv, Outcomes, Complete
<1> QED BY <1>1, <1>2, <1>3, <1>4, <1>5, <1>6, <1>7 DEF Inv

LEMMA SetGroupAttrInv == ASSUME Inv, SetGroupAttr PROVE Inv'
<1> USE DEF SetGroupAttr
<1>1. TypeInv'
  BY GroupAttributes, UserAttributes DEF Inv, TypeInv, Pc, GroupState, UserState, PwNam, GrNam
<1>2. GroupState'
  <2>1. i \in 1..3 /\ SetBefore(GroupAttrs, i + 1) \subseteq group' /\ groupGid' = gid
    BY SetNext, GroupAttributes, UserAttributes DEF Inv, TypeInv, GroupState, UserState
  <2>2. CASE i = 3
    <3>1. Full(GroupAttrs) \subseteq group'
      BY <2>1, <2>2, SetNext, GroupFilled
    <3> QED BY <1>1, <2>1, <2>2, <3>1, GroupAttributes, UserAttributes DEF Inv, TypeInv,
               GroupState, UserState
  <2>3. CASE i # 3
    BY <2>1, <2>3, GroupAttributes, UserAttributes DEF Inv, TypeInv, GroupState, UserState
  <2> QED BY <2>2, <2>3
<1>3. UserState'
  BY DEF Inv, UserState
<1>4. Resolving'
  BY DEF Inv, Resolving, PwNam
<1>5. UserHasGroup'
  BY DEF Inv, UserHasGroup, PwNam, GrNam, Resolving
<1>6. Tidy'
  BY DEF Inv, Tidy, Coherent
<1>7. Outcomes'
  BY DEF Inv, Outcomes, Complete
<1> QED BY <1>1, <1>2, <1>3, <1>4, <1>5, <1>6, <1>7 DEF Inv

LEMMA SetGroupAttrFailsInv == ASSUME Inv, SetGroupAttrFails PROVE Inv'
<1> USE DEF SetGroupAttrFails, Fault, records
<1>1. TypeInv'
  BY DEF Inv, TypeInv, Pc
<1>2. GroupState'
  BY DEF Inv, GroupState
<1>3. UserState'
  BY DEF Inv, UserState
<1>4. Resolving'
  BY DEF Inv, Resolving, PwNam
<1>5. UserHasGroup'
  BY DEF Inv, UserHasGroup, PwNam, GrNam
<1>6. Tidy'
  BY DEF Inv, Tidy, Coherent
<1>7. Outcomes'
  BY DEF Inv, Outcomes, Complete
<1> QED BY <1>1, <1>2, <1>3, <1>4, <1>5, <1>6, <1>7 DEF Inv

LEMMA CheckGroupInv == ASSUME Inv, CheckGroup PROVE Inv'
<1> USE DEF CheckGroup, records
<1>1. TypeInv'
  BY DEF Inv, TypeInv, Pc
<1>2. GroupState'
  BY DEF Inv, GroupState
<1>3. UserState'
  BY DEF Inv, UserState
<1>4. Resolving'
  BY DEF Inv, Resolving, PwNam
<1>5. UserHasGroup'
  BY DEF Inv, UserHasGroup, PwNam, GrNam
<1>6. Tidy'
  BY DEF Inv, Tidy, Coherent
<1>7. Outcomes'
  BY DEF Inv, Outcomes, Complete
<1> QED BY <1>1, <1>2, <1>3, <1>4, <1>5, <1>6, <1>7 DEF Inv

LEMMA CreateUserInv == ASSUME Inv, CreateUser PROVE Inv'
<1> USE DEF CreateUser
<1>1. TypeInv'
  BY GroupAttributes, UserAttributes DEF Inv, TypeInv, Pc
<1>2. GroupState'
  BY DEF Inv, GroupState
<1>3. UserState'
  BY SetFirst DEF Inv, UserState
<1>4. Resolving'
  BY DEF Inv, Resolving, PwNam
<1>5. UserHasGroup'
  BY DEF Inv, UserHasGroup, PwNam, GrNam
<1>6. Tidy'
  BY DEF Inv, Tidy, Coherent
<1>7. Outcomes'
  BY DEF Inv, Outcomes, Complete
<1> QED BY <1>1, <1>2, <1>3, <1>4, <1>5, <1>6, <1>7 DEF Inv

LEMMA SetUserAttrInv == ASSUME Inv, SetUserAttr PROVE Inv'
<1> USE DEF SetUserAttr
<1>1. TypeInv'
  BY GroupAttributes, UserAttributes DEF Inv, TypeInv, Pc, GroupState, UserState, PwNam, GrNam
<1>2. GroupState'
  BY DEF Inv, GroupState
<1>3. UserState'
  <2>1. i \in 1..7 /\ SetBefore(UserAttrs, i + 1) \subseteq user'
    BY SetNext DEF Inv, GroupState, UserState
  <2>2. CASE i = 7
    <3>1. Full(UserAttrs) \subseteq user'
      BY <2>1, <2>2, SetNext, UserFilled
    <3> QED BY <1>1, <2>1, <2>2, <3>1, GroupAttributes, UserAttributes DEF Inv, TypeInv,
               GroupState, UserState, Resolving, PwNam
  <2>3. CASE i # 7
    BY <2>1, <2>3, GroupAttributes, UserAttributes DEF Inv, TypeInv, GroupState, UserState
  <2> QED BY <2>2, <2>3
<1>4. Resolving'
  <2>1. i = 2 => "UniqueID" \in user
    BY SetNext, GroupAttributes, UserAttributes DEF Inv, TypeInv, GroupState, UserState
  <2>2. CASE i = 1
    BY <2>2, UserAttributes DEF Inv, Resolving, UserState, PwNam
  <2>3. CASE i = 2
    BY <2>1, <2>3, UserAttributes DEF Inv, Resolving, UserState, PwNam
  <2>4. CASE i > 2
    BY <2>4, UserAttributes DEF Inv, Resolving, UserState, PwNam
  <2> QED BY <2>2, <2>3, <2>4 DEF Inv, UserState
<1>5. UserHasGroup'
  BY GroupAttributes, UserAttributes DEF Inv, UserHasGroup, PwNam, GrNam, TypeInv, GroupState,
     UserState, Resolving
<1>6. Tidy'
  BY DEF Inv, Tidy, Coherent
<1>7. Outcomes'
  BY DEF Inv, Outcomes, Complete
<1> QED BY <1>1, <1>2, <1>3, <1>4, <1>5, <1>6, <1>7 DEF Inv

LEMMA SetUserAttrFailsInv == ASSUME Inv, SetUserAttrFails PROVE Inv'
<1> USE DEF SetUserAttrFails, Fault, records
<1>1. TypeInv'
  BY DEF Inv, TypeInv, Pc
<1>2. GroupState'
  BY DEF Inv, GroupState
<1>3. UserState'
  BY DEF Inv, UserState
<1>4. Resolving'
  BY GroupAttributes, UserAttributes DEF Inv, Resolving, PwNam, TypeInv, GroupState, UserState,
     GrNam
<1>5. UserHasGroup'
  BY DEF Inv, UserHasGroup, PwNam, GrNam
<1>6. Tidy'
  BY DEF Inv, Tidy, Coherent
<1>7. Outcomes'
  BY DEF Inv, Outcomes, Complete
<1> QED BY <1>1, <1>2, <1>3, <1>4, <1>5, <1>6, <1>7 DEF Inv

LEMMA CheckUserInv == ASSUME Inv, CheckUser PROVE Inv'
<1> USE DEF CheckUser, End, records
<1>1. TypeInv'
  BY DEF Inv, TypeInv, Pc
<1>2. GroupState'
  BY DEF Inv, GroupState
<1>3. UserState'
  BY DEF Inv, UserState
<1>4. Resolving'
  BY DEF Inv, Resolving, PwNam
<1>5. UserHasGroup'
  BY GroupAttributes, UserAttributes DEF Inv, UserHasGroup, PwNam, GrNam, TypeInv, GroupState,
     UserState
<1>6. Tidy'
  BY GroupAttributes, UserAttributes DEF Inv, Tidy, Coherent, TypeInv, GroupState, UserState,
     PwNam, GrNam
<1>7. Outcomes'
  BY GroupAttributes, UserAttributes DEF Inv, Outcomes, Complete, TypeInv, GroupState, UserState,
     PwNam, GrNam
<1> QED BY <1>1, <1>2, <1>3, <1>4, <1>5, <1>6, <1>7 DEF Inv

LEMMA ThrowsInv == ASSUME Inv, Throws PROVE Inv'
<1> USE DEF Throws, End, Fault, records
<1>1. TypeInv'
  BY DEF Inv, TypeInv, Pc
<1>2. GroupState'
  BY DEF Inv, GroupState
<1>3. UserState'
  BY DEF Inv, UserState
<1>4. Resolving'
  BY DEF Inv, Resolving, PwNam
<1>5. UserHasGroup'
  BY DEF Inv, UserHasGroup, PwNam, GrNam
<1>6. Tidy'
  BY GroupAttributes, UserAttributes DEF Inv, Tidy, Coherent, TypeInv, GroupState, UserState,
     PwNam, GrNam
<1>7. Outcomes'
  BY DEF Inv, Outcomes, Complete
<1> QED BY <1>1, <1>2, <1>3, <1>4, <1>5, <1>6, <1>7 DEF Inv

LEMMA UndoUserInv == ASSUME Inv, UndoUser PROVE Inv'
<1> USE DEF UndoUser, Fault, DeleteUser, records
<1>1. TypeInv'
  BY DEF Inv, TypeInv, Pc
<1>2. GroupState'
  BY DEF Inv, GroupState
<1>3. UserState'
  BY DEF Inv, UserState
<1>4. Resolving'
  BY DEF Inv, Resolving, PwNam
<1>5. UserHasGroup'
  BY DEF Inv, UserHasGroup, PwNam, GrNam
<1>6. Tidy'
  BY DEF Inv, Tidy, Coherent
<1>7. Outcomes'
  BY DEF Inv, Outcomes, Complete
<1> QED BY <1>1, <1>2, <1>3, <1>4, <1>5, <1>6, <1>7 DEF Inv

LEMMA UndoGroupInv == ASSUME Inv, UndoGroup PROVE Inv'
<1> USE DEF UndoGroup, End, Fault, DeleteGroup, records
<1>1. TypeInv'
  BY DEF Inv, TypeInv, Pc
<1>2. GroupState'
  BY DEF Inv, GroupState
<1>3. UserState'
  BY DEF Inv, UserState
<1>4. Resolving'
  BY DEF Inv, Resolving, PwNam
<1>5. UserHasGroup'
  BY DEF Inv, UserHasGroup, PwNam, GrNam, Resolving
<1>6. Tidy'
  BY DEF Inv, Tidy, Coherent
<1>7. Outcomes'
  BY DEF Inv, Outcomes, Complete
<1> QED BY <1>1, <1>2, <1>3, <1>4, <1>5, <1>6, <1>7 DEF Inv

LEMMA RemoveInv == ASSUME Inv, Remove PROVE Inv'
<1> USE DEF Remove, Begin, records
<1>1. TypeInv'
  BY DEF Inv, TypeInv, Pc
<1>2. GroupState'
  BY DEF Inv, GroupState
<1>3. UserState'
  BY DEF Inv, UserState
<1>4. Resolving'
  BY DEF Inv, Resolving, PwNam
<1>5. UserHasGroup'
  BY DEF Inv, UserHasGroup, PwNam, GrNam
<1>6. Tidy'
  BY GroupAttributes, UserAttributes DEF Inv, Tidy, Coherent, TypeInv, GroupState, UserState,
     PwNam, GrNam
<1>7. Outcomes'
  BY DEF Inv, Outcomes, Complete
<1> QED BY <1>1, <1>2, <1>3, <1>4, <1>5, <1>6, <1>7 DEF Inv

LEMMA RemoveUserInv == ASSUME Inv, RemoveUser PROVE Inv'
<1> USE DEF RemoveUser, DeleteUser
<1>1. TypeInv'
  BY DEF Inv, TypeInv, Pc
<1>2. GroupState'
  BY DEF Inv, GroupState
<1>3. UserState'
  BY DEF Inv, UserState
<1>4. Resolving'
  BY DEF Inv, Resolving, PwNam
<1>5. UserHasGroup'
  BY DEF Inv, UserHasGroup, PwNam, GrNam
<1>6. Tidy'
  BY DEF Inv, Tidy, Coherent
<1>7. Outcomes'
  BY DEF Inv, Outcomes, Complete
<1> QED BY <1>1, <1>2, <1>3, <1>4, <1>5, <1>6, <1>7 DEF Inv

LEMMA RemoveGroupInv == ASSUME Inv, RemoveGroup PROVE Inv'
<1> USE DEF RemoveGroup, End, DeleteGroup, records
<1>1. TypeInv'
  BY DEF Inv, TypeInv, Pc
<1>2. GroupState'
  BY DEF Inv, GroupState
<1>3. UserState'
  BY DEF Inv, UserState
<1>4. Resolving'
  BY DEF Inv, Resolving, PwNam
<1>5. UserHasGroup'
  BY DEF Inv, UserHasGroup, PwNam, GrNam, Resolving
<1>6. Tidy'
  BY DEF Inv, Tidy, Coherent
<1>7. Outcomes'
  BY GroupAttributes, UserAttributes DEF Inv, TypeInv, GroupState, UserState, Resolving,
     UserHasGroup, Tidy, Outcomes, Pc, PwNam, GrNam, Coherent, Complete
<1> QED BY <1>1, <1>2, <1>3, <1>4, <1>5, <1>6, <1>7 DEF Inv

LEMMA KilledInv == ASSUME Inv, Killed PROVE Inv'
<1> USE DEF Killed, End, records
<1>1. TypeInv'
  BY DEF Inv, TypeInv, Pc
<1>2. GroupState'
  BY DEF Inv, GroupState
<1>3. UserState'
  BY DEF Inv, UserState
<1>4. Resolving'
  BY DEF Inv, Resolving, PwNam
<1>5. UserHasGroup'
  BY DEF Inv, UserHasGroup, PwNam, GrNam
<1>6. Tidy'
  BY DEF Inv, Tidy, Coherent
<1>7. Outcomes'
  BY DEF Inv, Outcomes, Complete
<1> QED BY <1>1, <1>2, <1>3, <1>4, <1>5, <1>6, <1>7 DEF Inv

LEMMA NextInv == Inv /\ [Next]_vars => Inv'
<1> SUFFICES ASSUME Inv, [Next]_vars PROVE Inv'
  OBVIOUS
<1>1. CASE UNCHANGED vars
  BY <1>1 DEF vars, Inv, TypeInv, GroupState, UserState, Resolving, UserHasGroup, Tidy, Outcomes,
              PwNam, GrNam, Coherent, Complete
<1>2. CASE Next
  BY <1>2, SetupInv, SetupExistsInv, SetupNoGidInv, CreateGroupInv, SetGroupAttrInv, SetGroupAttrFailsInv, CheckGroupInv, CreateUserInv, SetUserAttrInv, SetUserAttrFailsInv, CheckUserInv, ThrowsInv, UndoUserInv, UndoGroupInv, RemoveInv, RemoveUserInv, RemoveGroupInv, KilledInv DEF Next
<1> QED BY <1>1, <1>2

LEMMA Invariant == Spec => []Inv
BY InitInv, NextInv, PTL DEF Spec

-----------------------------------------------------------------------------

\* When --setup-user says "created", the account and its group are complete
\* and belong together, whatever earlier commands had left behind.
THEOREM CreatedIsComplete == Spec => []CreatedComplete
<1>1. Inv => CreatedComplete  BY DEF Inv, Outcomes, CreatedComplete
<1> QED BY <1>1, Invariant, PTL

\* An account that resolves has the _jaim group as its primary group, unless
\* a rollback could not delete it (the order of creation and of deletion).
THEOREM ResolvesWithGroup == Spec => []UserHasGroup
<1>1. Inv => UserHasGroup  BY DEF Inv
<1> QED BY <1>1, Invariant, PTL

\* A failed command leaves whole records or none, unless a delete failed or a
\* command was killed (the catch blocks of setup_jaim_user).
THEOREM FailureIsCoherent == Spec => []FailureCoherent
<1>1. Inv => FailureCoherent
  BY DEF Inv, Outcomes, Tidy, Coherent, FailureCoherent
<1> QED BY <1>1, Invariant, PTL

\* --remove-user leaves nothing, on the same condition.
THEOREM RemovalIsComplete == Spec => []RemovedGone
<1>1. Inv => RemovedGone  BY DEF Inv, Outcomes, RemovedGone
<1> QED BY <1>1, Invariant, PTL
=============================================================================
