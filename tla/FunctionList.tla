---------------------------- MODULE FunctionList ----------------------------
(***************************************************************************)
(* Function tables and the packets that carry them and the arguments of    *)
(* calls (CMsvServerComm.cpp, PacketHead.h): one peer has registered       *)
(* functions, the other learns their list and calls them. A packet is its  *)
(* head and a data part of cells, values first and then images; the head   *)
(* counts both in unsigned chars. Assumed: functions are registered by one *)
(* thread while no list is copied, names and texts fit their fields.       *)
(***************************************************************************)
EXTENDS Integers, Sequences

CONSTANTS FunctionSet,    \* functions to register: a name and four numbers
          CountMod,       \* 256: values of an unsigned char
          ValueCounts,    \* numbers of values and of images passed in a call
          ImageCounts

VARIABLES vecfuncs,     \* m_socketLocal.m_vecfuncs of the peer
          answer,       \* the packet OnReturn_ASK_FUNLIST on its way, or none
          announced,    \* the table the list was made from that was learned last
          remotefuncs,  \* m_vecfuncs of the peer's entry in m_vecSocketRemote
          sentCall,     \* the arguments DoActionRemoteFun sent last
          gotCall       \* and what the function found

funVars == <<vecfuncs, answer, announced, remotefuncs, sentCall, gotCall>>

ASSUME CountAssumption ==
    CountMod \in Nat \ {0} /\ ValueCounts \subseteq Nat /\ ImageCounts \subseteq Nat
(* Callbackfunc, without its function pointer *)
ASSUME FunctionAssumption ==
    \A f \in FunctionSet : f = [name |-> f.name, nums |-> [k \in 1 .. 4 |-> f.nums[k]]]

Garbage == -1
NoAnswer == << >>

-----------------------------------------------------------------------------
(* Values and images as cells of the data part *)

HValue(type, v) == [type |-> type, v |-> v]
HImage(v) == [type |-> "image", v |-> v]

(* HValues and HImages of n members, told apart by their places *)
HValues(n) == [k \in 1 .. n |-> HValue("int", k)]
HImages(n) == [k \in 1 .. n |-> HImage(k)]

(* HValue::I and S: atoi finds no number in a text; past the end of a vector
   there is anything. *)
AsInt(values, k) ==
    IF k \notin DOMAIN values THEN Garbage
    ELSE IF values[k].type = "int" THEN values[k].v ELSE 0
AsText(values, k) == IF k \in DOMAIN values THEN values[k].v ELSE Garbage

(* SC_PackHead: int counts become unsigned chars *)
PackHead(params, images) == [params |-> params % CountMod, images |-> images % CountMod]

(* SC_PacketData(funcName, images, values): variables first, then images *)
PacketData(values, images) ==
    [head |-> PackHead(Len(values), Len(images)), data |-> values \o images]

(* Slip: images are read from the start of the data *)
AnasysFromStart(packet) ==
    [values |-> SubSeq(packet.data, 1, packet.head.params),
     images |-> [k \in 1 .. packet.head.images |->
                    IF packet.data[k].type = "image"
                    THEN packet.data[k] ELSE HImage(Garbage)]]

(* AnasysPacket: as many cells as the counts say; what is no image has no head,
   and no length, of an image *)
AnasysPacket(packet) ==
    [values |-> SubSeq(packet.data, 1, packet.head.params),
     images |-> [k \in 1 .. packet.head.images |->
                    IF packet.data[packet.head.params + k].type = "image"
                    THEN packet.data[packet.head.params + k] ELSE HImage(Garbage)]]

-----------------------------------------------------------------------------
FunInit ==
    /\ vecfuncs = << >> /\ answer = NoAnswer
    /\ announced = << >> /\ remotefuncs = << >>
    /\ sentCall = [values |-> << >>, images |-> << >>]
    /\ gotCall = sentCall

IsFuncNameExist_Local(name) == \E i \in DOMAIN vecfuncs : vecfuncs[i].name = name

(* RegisterActionFun_Local, of a program or of StartWork: a second function of a
   name is refused *)
RegisterActionFun_Local ==
    /\ \E f \in FunctionSet :
        ~IsFuncNameExist_Local(f.name) /\ vecfuncs' = Append(vecfuncs, f)
    /\ UNCHANGED <<answer, announced, remotefuncs, sentCall, gotCall>>

(* Five values for each function *)
Described(funclist) ==
    [k \in 1 .. 5 * Len(funclist) |->
        LET f == funclist[(k + 4) \div 5]
            j == (k - 1) % 5
        IN  IF j = 0 THEN HValue("string", f.name) ELSE HValue("int", f.nums[j])]

(* AskActionFunList_static, and the packet made of its outputs *)
AskActionFunList ==
    /\ answer = NoAnswer /\ vecfuncs # << >>
    /\ answer' = <<PacketData(Described(vecfuncs), << >>), vecfuncs>>
    /\ UNCHANGED <<vecfuncs, announced, remotefuncs, sentCall, gotCall>>

(* Slip: a function is taken to be four values *)
ParseByFour(values) ==
    [i \in 1 .. (Len(values) + 3) \div 4 |->
        [name |-> AsText(values, 4 * i - 3),
         nums |-> [k \in 1 .. 4 |-> AsInt(values, 4 * i - 3 + k)]]]

(* The loop of ParamThreadRecvProc: while a value is left a function is read,
   from beyond the last value if there are not five *)
ParseFuncList(values) ==
    [i \in 1 .. (Len(values) + 4) \div 5 |->
        [name |-> AsText(values, 5 * i - 4),
         nums |-> [k \in 1 .. 4 |-> AsInt(values, 5 * i - 4 + k)]]]

UpdataRemoteFuncList ==
    /\ answer # NoAnswer
    /\ remotefuncs' = ParseFuncList(AnasysPacket(answer[1]).values)
    /\ announced' = answer[2]
    /\ answer' = NoAnswer
    /\ UNCHANGED <<vecfuncs, sentCall, gotCall>>

(* DoActionRemoteFun finds the peer, a server by a name of its list and a client
   by address alone, and DoActionLocalFun there finds the function of that name
   (and leaves m_lockSocketSource, see MsvServerComm) *)
DoAction(name) ==
    /\ IsFuncNameExist_Local(name)
    /\ \E n \in ValueCounts, m \in ImageCounts :
        sentCall' = [values |-> HValues(n), images |-> HImages(m)]
    /\ gotCall' = AnasysPacket(PacketData(sentCall'.values, sentCall'.images))
    /\ UNCHANGED <<vecfuncs, answer, announced, remotefuncs>>

FunNames == {f.name : f \in FunctionSet}

FunNext ==
    \/ RegisterActionFun_Local \/ AskActionFunList \/ UpdataRemoteFuncList
    \/ \E name \in FunNames : DoAction(name)

FunSpec == FunInit /\ [][FunNext]_funVars

-----------------------------------------------------------------------------
(* Types; functions of a table have names of their own. *)
FunTypeOK ==
    /\ vecfuncs \in Seq(FunctionSet) /\ announced \in Seq(FunctionSet)
    /\ \A i, j \in DOMAIN vecfuncs : i # j => vecfuncs[i].name # vecfuncs[j].name
    /\ answer # NoAnswer => answer[1].head.params < CountMod /\ answer[2] \in Seq(FunctionSet)
    /\ \A i \in DOMAIN remotefuncs : Len(remotefuncs[i].nums) = 4

(* A list that was learned is the table it was made from as long as its values
   can be counted. A longer one loses its end; what is left of it starts as the
   table does and has names of the table only, though the numbers of the last
   function may be anything. *)
ListLearned ==
    /\ 5 * Len(announced) < CountMod => remotefuncs = announced
    /\ Len(remotefuncs) <= Len(announced)
    /\ \A i \in DOMAIN remotefuncs :
        /\ remotefuncs[i].name = announced[i].name
        /\ i = Len(remotefuncs) \/ remotefuncs[i] = announced[i]

(* A function finds the values and images it was called with, unless there are
   too many of a kind to be counted. *)
ArgumentsIntact ==
    Len(sentCall.values) < CountMod /\ Len(sentCall.images) < CountMod
        => gotCall = sentCall
=============================================================================
