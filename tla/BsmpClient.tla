----------------------------- MODULE BsmpClient -----------------------------
(***************************************************************************)
(* The BSMP client library (bsmp/src/client.c) and its server.  The client *)
(* keeps copies of the server's lists and checks what the application asks *)
(* for against them.  It loads the copies when it is opened and again, the *)
(* groups only, after it has created or removed groups.  That takes one    *)
(* command for the list and one for each group, between which the commands *)
(* of another host may be executed: the server has two links.  A request   *)
(* or its answer may get lost, which the client sees as an error of its    *)
(* send or recv function.                                                  *)
(*                                                                         *)
(* Alternatively there are any hosts without this library, which send      *)
(* whatever they like while the application registers its objects; or it   *)
(* is all about curves (BsmpCurves).                                       *)
(***************************************************************************)
EXTENDS BsmpServer

CONSTANTS
    Registration,   \* what is registered before the client is opened
    Choice          \* the lists of variables that groups are made of

ASSUME ClientAssumption ==
    /\ Registration \in Seq(Var) /\ Choice \subseteq Seq(Nat)

VARIABLES
    hosts,    \* who talks to the server: "any" hosts, a "client" and another
              \* host, or both about "curves"
    cache,    \* client->vars, groups and funcs
    job,      \* where the client is, the next group to ask for, and whether
              \* this is bsmp_client_init
    report,   \* what the application asks for in this step and is told
    removed   \* history: groups were removed since the list was loaded

client == <<cache, job, report, removed>>

NoLists == [vars |-> << >>, groups |-> << >>, funcs |-> << >>]
NoReport == [wrote |-> {}, read |-> << >>, got |-> << >>, err |-> FALSE]

ClientInit ==
    /\ cache = NoLists
    /\ job = [at |-> "closed", next |-> 0, opening |-> FALSE]
    /\ report = NoReport /\ removed = FALSE
    /\ Init /\ hosts \in {"any", "client", "curves"}
    /\ hosts # "any" => value = [v \in Var |-> 0]

\* The application registers its objects before the client is opened.
SetUp ==
    /\ hosts # "any"
    /\ \/ /\ Len(vars) < Len(Registration)
          /\ RegisterVariable(Registration[Len(vars) + 1])
       \/ \E f \in Func : RegisterFunction(f)
    /\ UNCHANGED <<hosts, client>>

Complete == Len(vars) = Len(Registration) /\ Registered(funcs) = Func

-----------------------------------------------------------------------------
\* command: the server executes Cmd and its answer arrives, or one of the two
\* is lost.
Exchange(Cmd, Answered, Failed) ==
    \/ Cmd /\ Answered
    \/ (Cmd \/ UNCHANGED server) /\ Failed

Got(code) == answer'.code = code
KeepLists == UNCHANGED <<vars, groups, funcs>>
Go(place, n) == job' = [job EXCEPT !.at = place, !.next = n]

\* The end of an update: bsmp_client_init goes on to what comes next, or
\* gives up; the other functions ignore a failure.
Done == Go(IF job.opening THEN "funcs" ELSE "idle", 0)
GiveUp == Go(IF job.opening THEN "closed" ELSE "idle", 0)

Open ==
    /\ job.at = "closed"
    /\ job' = [at |-> "version", next |-> 0, opening |-> TRUE]
    /\ cache' = NoLists
    /\ UNCHANGED <<server, removed>> /\ report' = NoReport

GetVersion ==
    /\ job.at = "version"
    /\ Exchange(QueryVersion /\ KeepLists, Go("vars", 0), GiveUp)
    /\ UNCHANGED <<cache, removed>> /\ report' = NoReport

SizeOf(byte) == IF Low(byte) = 0 THEN VarMaxSize ELSE Low(byte)

UpdateVars ==
    /\ job.at = "vars"
    /\ Exchange(VarQueryList /\ KeepLists,
                /\ cache' = [cache EXCEPT !.vars = [i \in DOMAIN answer'.payload |->
                       LET byte == answer'.payload[i] IN
                       [size |-> SizeOf(byte), writable |-> High(byte)]]]
                /\ Go("groups", 0),
                GiveUp /\ UNCHANGED cache)
    /\ UNCHANGED removed /\ report' = NoReport

\* The list of groups.  When this fails the old copy is kept.
ListGroups ==
    /\ job.at = "groups"
    /\ Exchange(GroupQueryList /\ KeepLists,
                /\ cache' = [cache EXCEPT !.groups = [i \in DOMAIN answer'.payload |->
                       LET byte == answer'.payload[i] IN
                       [vars |-> << >>, count |-> Low(byte), size |-> 0,
                        writable |-> High(byte)]]]
                /\ removed' = FALSE
                /\ Go("group", 0),
                GiveUp /\ UNCHANGED <<cache, removed>>)
    /\ report' = NoReport

Sum(ids) == SumOf([id \in Ids(cache.vars) |-> cache.vars[id + 1].size], ids)
Forget == cache' = [cache EXCEPT !.groups = << >>]

\* Mutant of QueryGroup: an error leaves the groups loaded so far.
QueryGroupKeep ==
    /\ job.at = "group"
    /\ Exchange(GroupQuery(job.next) /\ KeepLists,
                IF Got("GROUP")
                THEN LET ids == answer'.payload IN
                     /\ cache' = [cache EXCEPT !.groups[job.next + 1] =
                                     [@ EXCEPT !.vars = ids, !.size = Sum(ids)]]
                     /\ IF job.next + 1 = Len(cache.groups) THEN Done
                                                            ELSE Go("group", job.next + 1)
                ELSE GiveUp /\ UNCHANGED cache,
                GiveUp /\ UNCHANGED cache)
    /\ UNCHANGED removed /\ report' = NoReport

\* The variables of the next group.  When this fails no group is left.
QueryGroup ==
    /\ job.at = "group"
    /\ Exchange(GroupQuery(job.next) /\ KeepLists,
                IF Got("GROUP")
                THEN LET ids == answer'.payload IN
                     /\ cache' = [cache EXCEPT !.groups[job.next + 1] =
                                     [@ EXCEPT !.vars = ids, !.size = Sum(ids)]]
                     /\ IF job.next + 1 = Len(cache.groups) THEN Done
                                                            ELSE Go("group", job.next + 1)
                ELSE GiveUp /\ Forget,
                GiveUp /\ Forget)
    /\ UNCHANGED removed /\ report' = NoReport

UpdateFuncs ==
    /\ job.at = "funcs"
    /\ Exchange(FuncQueryList /\ KeepLists,
                /\ cache' = [cache EXCEPT !.funcs = answer'.payload]
                /\ job' = [at |-> "idle", next |-> 0, opening |-> FALSE],
                GiveUp /\ UNCHANGED cache)
    /\ UNCHANGED removed /\ report' = NoReport

-----------------------------------------------------------------------------
(***************************************************************************)
(* What the application asks for.  What it passes has to be in the copies. *)
(***************************************************************************)
Tell(wrote, read, codes) ==
    LET good == answer'.code \in codes IN
    report' = [wrote |-> wrote, read |-> read,
               got |-> IF good THEN answer'.payload ELSE << >>, err |-> ~good]
CommunicationFailed(wrote, read) ==
    report' = [wrote |-> wrote, read |-> read, got |-> << >>, err |-> TRUE]

Call(Cmd, wrote, read, codes) ==
    /\ job.at = "idle"
    /\ Exchange(Cmd /\ KeepLists, Tell(wrote, read, codes), CommunicationFailed(wrote, read))
    /\ UNCHANGED <<cache, job, removed>>

\* The server finds the size of the payload wrong when the copy of the size is.
Fits(right) == Got("INVALID_PAYLOAD_SIZE") <=> ~right
VarFits(id) == Fits(cache.vars[id + 1].size = Size[vars[id + 1]])
GroupFits(i) ==
    Fits(i \in Ids(groups) => cache.groups[i + 1].size = groups[i + 1].size)

\* The variables an id and a group of the copies stand for.
Named(id) == Registration[id + 1]
Members(i) == [j \in DOMAIN cache.groups[i + 1].vars |-> Named(cache.groups[i + 1].vars[j])]
WritableVars == {id \in Ids(cache.vars) : cache.vars[id + 1].writable}
WritableGroups == {i \in Ids(cache.groups) : cache.groups[i + 1].writable}

ReadVar(id) == Call(VarRead(id), {}, <<Named(id)>>, {"VAR_VALUE"})
WriteVar(id) ==
    id \in WritableVars /\ Call(VarWrite(id) /\ VarFits(id), {Named(id)}, << >>, {"OK"})
WriteReadVars(id, rd) ==
    /\ id \in WritableVars
    /\ Call(VarWriteRead(id, rd) /\ VarFits(id), {Named(id)}, <<Named(rd)>>, {"VAR_VALUE"})
BinOpVar(id, op) ==
    id \in WritableVars /\ Call(VarBinOp(id, op) /\ VarFits(id), {Named(id)}, << >>, {"OK"})

ReadGroup(i) == Call(GroupRead(i), {}, Members(i), {"GROUP_VALUES"})
WriteGroup(i) ==
    /\ i \in WritableGroups
    /\ Call(GroupWrite(i) /\ GroupFits(i), Registered(Members(i)), << >>, {"OK"})
BinOpGroup(i, op) ==
    /\ i \in WritableGroups
    /\ Call(GroupBinOp(i, op) /\ GroupFits(i), Registered(Members(i)), << >>, {"OK"})

ExecuteFunc(id) ==
    Call(\E ret \in {0, 1} : FuncExecute(id, ret) /\ Fits(TRUE), {}, << >>,
         {"FUNC_RETURN", "FUNC_ERROR"})

\* Groups are created and removed at the server; the copies follow.
Rearranged == removed' = (removed \/ Len(groups') < Len(groups))

Update(Cmd) ==
    /\ job.at = "idle"
    /\ Exchange(Cmd /\ UNCHANGED <<vars, funcs>>,
                /\ Tell({}, << >>, {"OK"})
                /\ IF Got("OK") THEN Go("groups", 0) ELSE UNCHANGED job,
                CommunicationFailed({}, << >>) /\ UNCHANGED job)
    /\ Rearranged
    /\ UNCHANGED cache

\* Mutant of CreateGroup: the copies get the group without asking the server.
CreateGroupLocally(ids) ==
    /\ job.at = "idle" /\ Registered(ids) \subseteq Ids(cache.vars)
    /\ Exchange(GroupCreate(ids) /\ UNCHANGED <<vars, funcs>>,
                /\ Tell({}, << >>, {"OK"})
                /\ IF Got("OK")
                   THEN cache' = [cache EXCEPT !.groups = Append(@,
                            [vars |-> ids, count |-> Len(ids), size |-> Sum(ids),
                             writable |-> \A id \in Registered(ids) : cache.vars[id + 1].writable])]
                   ELSE UNCHANGED cache,
                CommunicationFailed({}, << >>) /\ UNCHANGED cache)
    /\ Rearranged
    /\ UNCHANGED job

CreateGroup(ids) ==
    Registered(ids) \subseteq Ids(cache.vars) /\ Update(GroupCreate(ids))

RemoveAllGroups == Update(GroupRemoveAll)

Application ==
    \/ \E id \in Ids(cache.vars) :
           \/ ReadVar(id) \/ WriteVar(id)
           \/ \E rd \in Ids(cache.vars) : WriteReadVars(id, rd)
           \/ \E op \in Op : BinOpVar(id, op)
    \/ \E i \in Ids(cache.groups) :
           ReadGroup(i) \/ WriteGroup(i) \/ \E op \in Op : BinOpGroup(i, op)
    \/ \E id \in Ids(cache.funcs) : ExecuteFunc(id)
    \/ \E ids \in Choice : CreateGroup(ids)
    \/ RemoveAllGroups

Opening == Open \/ GetVersion \/ UpdateVars \/ ListGroups \/ QueryGroup \/ UpdateFuncs

OtherHost ==
    /\ GroupRemoveAll \/ \E ids \in Choice : GroupCreate(ids)
    /\ Rearranged /\ report' = NoReport
    /\ UNCHANGED <<vars, funcs, cache, job>>

AnyHosts == hosts = "any" /\ Next /\ UNCHANGED <<hosts, client>>
OneClient ==
    /\ hosts = "client" /\ Complete
    /\ Opening \/ Application \/ OtherHost
    /\ UNCHANGED hosts

ClientNext == AnyHosts \/ SetUp \/ OneClient

-----------------------------------------------------------------------------
(***************************************************************************)
(* As long as nobody has removed groups since the client asked for the     *)
(* list, every group of its copy is the group of the same id at the        *)
(* server: the same variables, size and permission, however the commands   *)
(* of its update and those of another host were interleaved, whatever was  *)
(* lost and whatever groups were created since.                            *)
(***************************************************************************)
CachedGroupsStand ==
    hosts = "client" /\ job.at = "idle" /\ ~removed =>
        \A i \in Ids(cache.groups) :
            LET copy == cache.groups[i + 1]
                group == groups[i + 1] IN
            /\ i \in Ids(groups)
            /\ Members(i) = group.vars /\ copy.count = Len(group.vars)
            /\ copy.size = group.size /\ (copy.writable <=> group.writable)

(***************************************************************************)
(* Under the same condition what a function of the client changes at the   *)
(* server are the variables the application meant, and what it returns     *)
(* are the values of those it asked for.                                   *)
(***************************************************************************)
MeantIsDone ==
    [][hosts = "client" /\ ~removed =>
          /\ \A v \in Var : value'[v] # value[v] => v \in report'.wrote
          /\ ~report'.err /\ report'.read # << >> =>
                 report'.got = [i \in DOMAIN report'.read |-> value'[report'.read[i]]]]_<<server, client>>

=============================================================================
