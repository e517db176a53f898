----------------------------- MODULE BsmpServer -----------------------------
(***************************************************************************)
(* The BSMP server (bsmp/src/server.c, server_priv.c): variables, groups   *)
(* of variables and functions that are registered with it, and the         *)
(* commands a host may send.  A command is executed whole, in the main     *)
(* loop, and leaves its answer.  The values of variables are one bit, on   *)
(* which the binary operations act as they do on every bit of the code's   *)
(* bytes.  No hook is registered in this firmware.                         *)
(*                                                                         *)
(* A payload is abstracted to the ids, values and masks in it and to       *)
(* whether its size is the one the command wants.                          *)
(***************************************************************************)
EXTENDS Naturals, SequencesExt

CONSTANTS
    Var,         \* variables the application may register
    Size,        \* Size[v]: var->info.size
    Writable,    \* the variables with var->info.writable
    Accepts,     \* Accepts[v]: the values value_ok lets pass
    Func,        \* functions the application may register
    MaxVars,     \* BSMP_MAX_VARIABLES, 128
    MaxFuncs,    \* BSMP_MAX_FUNCTIONS, 128
    MaxGroups,   \* BSMP_MAX_GROUPS, 8
    VarMaxSize,  \* BSMP_VAR_MAX_SIZE, 128
    Op,          \* the binary operations that hosts ask for
    Flag         \* WRITABLE_MASK, 128: sizes and counts share a byte with it

ASSUME ServerAssumption ==
    /\ Size \in [Var -> Nat]
    /\ Writable \subseteq Var
    /\ Accepts \in [Var -> SUBSET {0, 1}]
    /\ MaxVars \in Nat /\ MaxFuncs \in Nat /\ VarMaxSize \in Nat
    /\ MaxGroups \in Nat /\ MaxGroups >= 3
    /\ Op \subseteq {"A", "O", "X", "S", "C", "T"}
    /\ Flag \in Nat \ {0}

Value == {0, 1}

GROUP_ALL == 1
GROUP_READ == 2
GROUP_WRITE == 3

VARIABLES
    vars,      \* the registered variables; ids count from 0, sequences from 1
    groups,    \* the groups, the three standard ones first
    funcs,     \* the registered functions
    value,     \* what var->data points at
    answer     \* the answer to the last command: its code and its payload

server == <<vars, groups, funcs, value, answer>>

Group == [vars : Seq(Var), size : Nat, writable : BOOLEAN]

NoAnswer == [code |-> "none", payload |-> << >>]
Refuse(code) ==
    /\ answer' = [code |-> code, payload |-> << >>]
    /\ UNCHANGED value
Give(code, payload) ==
    /\ answer' = [code |-> code, payload |-> payload]
    /\ UNCHANGED value

TypeOK ==
    /\ vars \in Seq(Var) /\ Len(vars) <= MaxVars
    /\ groups \in Seq(Group) /\ Len(groups) \in 3 .. MaxGroups
    /\ funcs \in Seq(Func) /\ Len(funcs) <= MaxFuncs
    /\ value \in [Var -> Value]

EmptyGroup == [vars |-> << >>, size |-> 0, writable |-> TRUE]
StandardGroups == [i \in 1 .. 3 |-> EmptyGroup]

\* bsmp_server_init
Init ==
    /\ vars = << >>
    /\ groups = StandardGroups
    /\ funcs = << >>
    /\ value \in [Var -> Value]
    /\ answer = NoAnswer

-----------------------------------------------------------------------------
\* group_add_var
WithVar(g, v) ==
    [vars |-> Append(g.vars, v),
     size |-> g.size + Size[v],
     writable |-> g.writable /\ v \in Writable]

Registered(list) == {list[i] : i \in DOMAIN list}

\* What f gives for the members of a list, added up.
SumOf(f, list) ==
    LET upTo[n \in 0 .. Len(list)] == IF n = 0 THEN 0 ELSE upTo[n - 1] + f[list[n]]
    IN  upTo[Len(list)]

\* The standard groups after v has been registered.
Joined(list, v) ==
    LET kind == IF v \in Writable THEN GROUP_WRITE ELSE GROUP_READ IN
    [i \in DOMAIN list |-> IF i \in {GROUP_ALL, kind} THEN WithVar(list[i], v) ELSE list[i]]

\* bsmp_register_variable, with var_check
RegisterVariable(v) ==
    /\ Size[v] <= VarMaxSize
    /\ Len(vars) < MaxVars
    /\ v \notin Registered(vars)
    /\ vars' = Append(vars, v)
    /\ groups' = Joined(groups, v)
    /\ UNCHANGED <<funcs, value, answer>>

\* bsmp_register_function
RegisterFunction(f) ==
    /\ Len(funcs) < MaxFuncs
    /\ f \notin Registered(funcs)
    /\ funcs' = Append(funcs, f)
    /\ UNCHANGED <<vars, groups, value, answer>>

-----------------------------------------------------------------------------
\* The bytes by which the lists tell of a variable and of a group.
VarByte(v) == (Size[v] % Flag) + (IF v \in Writable THEN Flag ELSE 0)
\* Mutant of GroupByte: the size of the group instead of its number of variables.
GroupByteSize(g) == (g.size + (IF g.writable THEN Flag ELSE 0)) % (2 * Flag)

GroupByte(g) == (Len(g.vars) + (IF g.writable THEN Flag ELSE 0)) % (2 * Flag)

Ids(list) == 0 .. Len(list) - 1
\* The ids that hosts ask for go one beyond the last.
SomeVar == 0 .. Len(vars)
SomeGroup == 0 .. Len(groups)
IdOf(v) == (CHOOSE i \in DOMAIN vars : vars[i] = v) - 1

QueryVersion == Give("VERSION", << >>)

VarQueryList ==
    Give("VAR_LIST", [i \in DOMAIN vars |-> VarByte(vars[i])])

GroupQueryList ==
    Give("GROUP_LIST", [i \in DOMAIN groups |-> GroupByte(groups[i])])

FuncQueryList == Give("FUNC_LIST", funcs)

\* The refusals that all commands with an id, or with data, have in common.
BadId(list, id) == id \notin Ids(list) /\ Refuse("INVALID_ID")
BadSize(list, id) == id \in Ids(list) /\ Refuse("INVALID_PAYLOAD_SIZE")

GroupQuery(id) ==
    \/ BadId(groups, id)
    \/ /\ id \in Ids(groups)
       /\ LET g == groups[id + 1] IN
          Give("GROUP", [i \in DOMAIN g.vars |-> IdOf(g.vars[i])])

VarRead(id) ==
    \/ BadId(vars, id)
    \/ id \in Ids(vars) /\ Give("VAR_VALUE", <<value[vars[id + 1]]>>)

GroupRead(id) ==
    \/ BadId(groups, id)
    \/ /\ id \in Ids(groups)
       /\ LET g == groups[id + 1] IN
          Give("GROUP_VALUES", [i \in DOMAIN g.vars |-> value[g.vars[i]]])

\* Mutant of MayWrite: the value is checked, the permission is not.
MayWriteAny(v, x) == x \in Accepts[v]

MayWrite(v, x) == v \in Writable /\ x \in Accepts[v]

\* The two refusals that var_write and var_write_read have in common.
RefuseWrite(v, x) ==
    \/ v \notin Writable /\ Refuse("READ_ONLY")
    \/ v \in Writable /\ x \notin Accepts[v] /\ Refuse("INVALID_VALUE")

VarWrite(id) ==
    \/ BadId(vars, id) \/ BadSize(vars, id)
    \/ /\ id \in Ids(vars)
       /\ \E x \in Value : LET v == vars[id + 1] IN
          \/ ~MayWrite(v, x) /\ RefuseWrite(v, x)
          \/ /\ MayWrite(v, x)
             /\ value' = [value EXCEPT ![v] = x]
             /\ answer' = [code |-> "OK", payload |-> << >>]

\* Write one, then read another, possibly the same.
VarWriteRead(id, rd) ==
    \/ BadId(vars, id) \/ BadId(vars, rd)
    \/ rd \in Ids(vars) /\ BadSize(vars, id)
    \/ /\ {id, rd} \subseteq Ids(vars)
       /\ \E x \in Value : LET v == vars[id + 1] IN
          \/ ~MayWrite(v, x) /\ RefuseWrite(v, x)
          \/ /\ MayWrite(v, x)
             /\ value' = [value EXCEPT ![v] = x]
             /\ answer' = [code |-> "VAR_VALUE", payload |-> <<value'[vars[rd + 1]]>>]

\* bin_op[operation] on one bit; S and T do what O and X do.
BinOp(op, x, mask) ==
    CASE op = "A" -> IF x = 1 /\ mask = 1 THEN 1 ELSE 0
      [] op \in {"O", "S"} -> IF x = 1 \/ mask = 1 THEN 1 ELSE 0
      [] op \in {"X", "T"} -> IF x = mask THEN 0 ELSE 1
      [] op = "C" -> IF x = 1 /\ mask = 0 THEN 1 ELSE 0

\* Mutant of VarBinOp: the permission is not checked.
VarBinOpAny(id, op) ==
    \/ BadId(vars, id) \/ BadSize(vars, id)
    \/ /\ id \in Ids(vars)
       /\ \E mask \in Value :
             value' = [value EXCEPT ![vars[id + 1]] = BinOp(op, @, mask)]
       /\ answer' = [code |-> "OK", payload |-> << >>]

\* The value that results is not checked.
VarBinOp(id, op) ==
    \/ BadId(vars, id) \/ BadSize(vars, id)
    \/ /\ id \in Ids(vars)
       /\ LET v == vars[id + 1] IN
          \/ v \notin Writable /\ Refuse("READ_ONLY")
          \/ /\ v \in Writable
             /\ \E mask \in Value : value' = [value EXCEPT ![v] = BinOp(op, @, mask)]
             /\ answer' = [code |-> "OK", payload |-> << >>]

\* The values, or masks, of a group command, one for each of its variables.
Parcel(g) == [Registered(g.vars) -> Value]

\* The values with those of a parcel in their places.
With(xs) == [v \in Var |-> IF v \in DOMAIN xs THEN xs[v] ELSE value[v]]

\* Mutant of GroupWrite: every value is written, and the check of them only
\* decides on the answer.
GroupWriteUnchecked(id) ==
    \/ BadId(groups, id) \/ BadSize(groups, id)
    \/ /\ id \in Ids(groups)
       /\ LET g == groups[id + 1] IN
          \/ ~g.writable /\ Refuse("READ_ONLY")
          \/ /\ g.writable
             /\ \E xs \in Parcel(g) :
                /\ value' = With(xs)
                /\ answer' = [code |-> IF \A v \in DOMAIN xs : xs[v] \in Accepts[v]
                                       THEN "OK" ELSE "INVALID_VALUE",
                              payload |-> << >>]

\* The variables whose value passes its check are written, also when the
\* answer is that some value did not.  An empty group has no payload that
\* fits, for there has to be a byte of data.
GroupWrite(id) ==
    \/ BadId(groups, id) \/ BadSize(groups, id)
    \/ /\ id \in Ids(groups)
       /\ LET g == groups[id + 1] IN
          /\ g.size > 0
          /\ \/ ~g.writable /\ Refuse("READ_ONLY")
             \/ /\ g.writable
                /\ \E xs \in Parcel(g) :
                   LET bad == {v \in DOMAIN xs : xs[v] \notin Accepts[v]} IN
                   /\ value' = With([v \in DOMAIN xs \ bad |-> xs[v]])
                   /\ answer' = [code |-> IF bad = {} THEN "OK" ELSE "INVALID_VALUE",
                                 payload |-> << >>]

GroupBinOp(id, op) ==
    \/ BadId(groups, id) \/ BadSize(groups, id)
    \/ /\ id \in Ids(groups)
       /\ LET g == groups[id + 1] IN
          \/ ~g.writable /\ Refuse("READ_ONLY")
          \/ /\ g.writable
             /\ \E masks \in Parcel(g) :
                   value' = With([v \in DOMAIN masks |-> BinOp(op, value[v], masks[v])])
             /\ answer' = [code |-> "OK", payload |-> << >>]

\* Mutant of WellChosen: the ids need not be in order.
WellChosenAny(ids) == \A i \in DOMAIN ids : ids[i] \in Ids(vars)

WellChosen(ids) ==
    /\ \A i \in DOMAIN ids : ids[i] \in Ids(vars)
    /\ \A i \in 2 .. Len(ids) : ids[i - 1] < ids[i]

\* The group of the variables with these ids, added one after the other.
Collected(ids) ==
    LET upTo[n \in 0 .. Len(ids)] ==
            IF n = 0 THEN EmptyGroup ELSE WithVar(upTo[n - 1], vars[ids[n] + 1])
    IN  upTo[Len(ids)]

\* What a failed creation leaves in the slot behind the last group is not
\* seen: the next creation begins with group_init.
GroupCreate(ids) ==
    \/ Len(ids) \notin 1 .. Len(vars) /\ Refuse("INVALID_PAYLOAD_SIZE") /\ UNCHANGED groups
    \/ /\ Len(ids) \in 1 .. Len(vars) /\ Len(groups) = MaxGroups
       /\ Refuse("INSUFFICIENT_MEMORY") /\ UNCHANGED groups
    \/ /\ Len(ids) \in 1 .. Len(vars) /\ Len(groups) # MaxGroups
       /\ \/ ~WellChosen(ids) /\ Refuse("INVALID_ID") /\ UNCHANGED groups
          \/ /\ WellChosen(ids)
             /\ groups' = Append(groups, Collected(ids))
             /\ Give("OK", << >>)

GroupRemoveAll ==
    /\ groups' = SubSeq(groups, 1, 3)
    /\ Give("OK", << >>)

\* The function is the application's: ret is what it returns.
FuncExecute(id, ret) ==
    \/ BadId(funcs, id) \/ BadSize(funcs, id)
    \/ /\ id \in Ids(funcs)
       /\ IF ret # 0 THEN Give("FUNC_ERROR", <<ret>>)
          ELSE Give("FUNC_RETURN", <<funcs[id + 1]>>)

-----------------------------------------------------------------------------
\* The commands that leave the groups alone.
Queries ==
    \/ QueryVersion \/ VarQueryList \/ GroupQueryList \/ FuncQueryList
    \/ \E id \in SomeGroup : GroupQuery(id) \/ GroupRead(id)
    \/ \E id \in SomeVar : VarRead(id)
    \/ \E id \in 0 .. Len(funcs), ret \in {0, 1} : FuncExecute(id, ret)
    \/ Refuse("OP_NOT_SUPPORTED") \/ Refuse("MALFORMED_MESSAGE")

Writes ==
    \/ \E id \in SomeVar : VarWrite(id) \/ \E rd \in SomeVar : VarWriteRead(id, rd)
    \/ \E id \in SomeVar, op \in Op : VarBinOp(id, op)
    \/ \E id \in SomeGroup : GroupWrite(id) \/ \E op \in Op : GroupBinOp(id, op)

Command == (Queries \/ Writes) /\ UNCHANGED <<vars, groups, funcs>>

Rearrange ==
    /\ \/ \E n \in 0 .. Len(vars) : \E ids \in [1 .. n -> SomeVar] : GroupCreate(ids)
       \/ GroupRemoveAll
    /\ UNCHANGED <<vars, funcs>>

Next ==
    \/ \E v \in Var : RegisterVariable(v)
    \/ \E f \in Func : RegisterFunction(f)
    \/ Command
    \/ Rearrange

Spec == Init /\ [][Next]_server

-----------------------------------------------------------------------------
(***************************************************************************)
(* A group lists registered variables in the order of their ids, knows the *)
(* size of their values together, and is writable exactly when each of     *)
(* them is; the standard groups hold all, the read-only and the writable   *)
(* variables.  Groups made before a registration stay right.               *)
(***************************************************************************)
GroupsWellFormed ==
    /\ \A i \in DOMAIN groups :
        LET g == groups[i] IN
        /\ \A j \in DOMAIN g.vars : g.vars[j] \in Registered(vars)
        /\ \A j \in 2 .. Len(g.vars) : IdOf(g.vars[j - 1]) < IdOf(g.vars[j])
        /\ g.size = SumOf(Size, g.vars)
        /\ g.writable <=> Registered(g.vars) \subseteq Writable
    /\ Registered(groups[GROUP_ALL].vars) = Registered(vars)
    /\ Registered(groups[GROUP_READ].vars) = Registered(vars) \ Writable
    /\ Registered(groups[GROUP_WRITE].vars) = Registered(vars) \cap Writable

(***************************************************************************)
(* No command, through whatever group, changes a read-only variable or one *)
(* that is not registered.                                                 *)
(***************************************************************************)
ReadOnlyKept ==
    [][\A v \in Var : v \notin Writable \cap Registered(vars) => value'[v] = value[v]]_server

(***************************************************************************)
(* What a write stores passes its check, also in a group of which another  *)
(* value fails; and a refused command changes nothing else.                *)
(***************************************************************************)
RefusedIsHarmless ==
    [][answer'.code \notin {"OK", "VAR_VALUE"} =>
          \A v \in Var : value'[v] # value[v] =>
              answer'.code = "INVALID_VALUE" /\ value'[v] \in Accepts[v]]_server

(***************************************************************************)
(* A client that takes the bytes of the lists apart with the masks of      *)
(* client.c, where the size of a variable of the largest size reads as 0,  *)
(* learns the size and the permission of every variable, and the number of *)
(* variables and the permission of every group.                            *)
(***************************************************************************)
Low(byte) == byte % Flag
High(byte) == byte >= Flag

ListsTellTheTruth ==
    /\ \A v \in Registered(vars) :
        /\ Size[v] = IF Low(VarByte(v)) = 0 THEN VarMaxSize ELSE Low(VarByte(v))
        /\ v \in Writable <=> High(VarByte(v))
    /\ \A g \in Registered(groups) :
        Len(g.vars) = Low(GroupByte(g)) /\ (g.writable <=> High(GroupByte(g)))

=============================================================================
