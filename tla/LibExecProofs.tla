--------------------------- MODULE LibExecProofs ---------------------------
(* lib_exec's command runner, for every set of commands and every dependency *)
(* relation: it implements the abstract runner, and its result tells whether *)
(* everything went well.                                                     *)
EXTENDS LibExecProps, DagProofs, SequenceTheorems

\* What an action does to the heap.
Outcome(c) == IF c \in empty /\ ~fail_prereq[c] THEN {Ok} ELSE {Failed}

LEMMA StartCmdFacts ==
    ASSUME DagInv, NEW c \in Cmd, StartCmd(c)
    PROVE  /\ c \in heap /\ nprereq[c] = 0 /\ ~fail_prereq[c] /\ Fork(c)
           /\ Cardinality(Running) < maxjobs
BY DEF StartCmd, CanStart, Potential, FirstReady, First

LEMMA SettleCmdFacts ==
    ASSUME DagInv, NEW c \in Cmd, SettleCmd(c)
    PROVE  /\ c \in heap /\ nprereq[c] = 0 /\ heap' = heap \ {c} /\ proc' = proc
           /\ fail_prereq \in [Cmd -> BOOLEAN] /\ UNCHANGED execvars
           /\ \E st \in {Ok, Failed} :
                 /\ AdvanceDependent(c, st, fail_prereq)
                 /\ fail_prereq[c] => st = Failed
<1>1. PICK st \in Outcome(c) : AdvanceDependent(c, st, fail_prereq)
  BY DEF SettleCmd, Outcome
<1>2. st \in {Ok, Failed} /\ (fail_prereq[c] => st = Failed)
  BY DEF Outcome
<1> QED
  BY <1>1, <1>2 DEF SettleCmd, CanStart, Potential, FirstReady, First, DagInv, DagTypeOK

-----------------------------------------------------------------------------
(* The result. *)

\* A command that failed for a reason of its own: NFail counts it.
Counted(c) == c \in Done /\ status[c] # Ok /\ ~fail_prereq[c]
Blamed == \E c \in Cmd : Counted(c)

\* Whatever failed with its prerequisites goes back to a failure that counts.
CauseInv ==
    /\ (\E c \in Done : fail_prereq[c]) => Blamed
    /\ \A c \in Running : ~fail_prereq[c]
    /\ at = "returned" => heap = {} /\ Running = {}

\* The invariant of lib_exec's runner.
IInv == DagInv /\ CauseInv

LEMMA InitInv == Init => IInv
<1> SUFFICES ASSUME Init PROVE IInv
  OBVIOUS
<1>1. Running = {} /\ at = "step"
  BY DEF Init, DagInit, Running
<1>2. Done = {}
  BY <1>1 DEF Init, DagInit, Done
<1> QED
  BY <1>1, <1>2, DagInitInv DEF Init, IInv, CauseInv

\* Steps that complete nothing.
LEMMA OtherCause ==
    ASSUME CauseInv, Done' = Done, UNCHANGED <<status, fail_prereq>>,
           \A c \in Running' : ~fail_prereq[c],
           at' = "returned" => heap' = {} /\ Running' = {}
    PROVE  CauseInv'
BY DEF CauseInv, Blamed, Counted

LEMMA BlameStays ==
    ASSUME \A d \in Done : status'[d] = status[d] /\ fail_prereq'[d] = fail_prereq[d],
           Done \subseteq Done', Blamed
    PROVE  Blamed'
BY DEF Blamed, Counted

LEMMA SettleCause ==
    ASSUME IInv, NEW c \in Cmd, SettleCmd(c)
    PROVE  IInv'
<1>1. /\ c \in heap /\ nprereq[c] = 0 /\ heap' = heap \ {c} /\ proc' = proc
      /\ fail_prereq \in [Cmd -> BOOLEAN] /\ at' = at
  BY SettleCmdFacts DEF IInv, execvars
<1>2. PICK st \in {Ok, Failed} : AdvanceDependent(c, st, fail_prereq)
  BY SettleCmdFacts DEF IInv
<1>3. /\ DagInv' /\ Done' = Done \cup {c} /\ Running' = Running
      /\ prior[c] \subseteq Done
      /\ fail_prereq'[c] = fail_prereq[c]
      /\ \A d \in Done : status'[d] = status[d]
      /\ \A d \in Done \cup Running : fail_prereq'[d] = fail_prereq[d]
  BY <1>1, <1>2, SettleInv DEF IInv
<1>4. Blamed => Blamed'
  BY <1>3, BlameStays
<1>5. fail_prereq[c] => Blamed
  <2> SUFFICES ASSUME fail_prereq[c] PROVE Blamed
    OBVIOUS
  <2>1. PICK p \in prior[c] \cap Done : status[p] # Ok
    BY <1>1 DEF IInv, DagInv, PrereqsCounted
  <2>2. fail_prereq[p] => Blamed
    BY <2>1 DEF IInv, CauseInv
  <2>3. ~fail_prereq[p] => Blamed
    BY <2>1 DEF Blamed, Counted, Done
  <2> QED
    BY <2>2, <2>3
<1>6. (\E d \in Done' : fail_prereq'[d]) => Blamed'
  BY <1>3, <1>4, <1>5 DEF IInv, CauseInv
<1>7. \A d \in Running' : ~fail_prereq'[d]
  BY <1>3 DEF IInv, CauseInv
<1>8. at' # "returned"
  BY <1>1 DEF SettleCmd, execvars
<1> QED
  BY <1>3, <1>6, <1>7, <1>8 DEF IInv, CauseInv

LEMMA WaitCause ==
    ASSUME IInv, NEW c \in Cmd, WaitCmd(c)
    PROVE  IInv'
<1>1. /\ DagInv' /\ Done' = Done \cup {c} /\ Running' = Running \ {c}
      /\ c \in Running
      /\ \A d \in Done : status'[d] = status[d]
      /\ \A d \in Done \cup Running : fail_prereq'[d] = fail_prereq[d]
  BY ReapInv DEF WaitCmd, IInv
<1>2. ~fail_prereq'[c]
  BY <1>1 DEF IInv, CauseInv
<1>3. Blamed => Blamed'
  BY <1>1, BlameStays
<1>4. (\E d \in Done' : fail_prereq'[d]) => Blamed'
  BY <1>1, <1>2, <1>3 DEF IInv, CauseInv
<1>5. \A d \in Running' : ~fail_prereq'[d]
  BY <1>1 DEF IInv, CauseInv
<1>6. at' = "step"
  BY DEF WaitCmd
<1> QED
  BY <1>1, <1>4, <1>5, <1>6 DEF IInv, CauseInv

LEMMA NextInv ==
    ASSUME IInv, [Next]_vars
    PROVE  IInv'
<1>1. ASSUME UNCHANGED dagvars, at' \in {at, "step", "block"} \/ Return
      PROVE  IInv'
  <2>1. DagInv' /\ Done' = Done /\ Running' = Running /\ heap' = heap
    BY <1>1, UnchangedInv DEF dagvars, IInv
  <2>2. at' = "returned" => heap' = {} /\ Running' = {}
    BY <1>1, <2>1 DEF Return, Busy, IInv, CauseInv
  <2> QED
    BY <1>1, <2>1, <2>2, OtherCause DEF dagvars, IInv, CauseInv
<1>2. ASSUME NEW c \in Cmd, StartCmd(c) PROVE IInv'
  <2>1. DagInv' /\ Done' = Done /\ Running' = Running \cup {c} /\ ~fail_prereq[c]
    BY <1>2, StartCmdFacts, ForkInv DEF IInv
  <2>2. at' # "returned" /\ UNCHANGED <<status, fail_prereq>>
    BY <1>2 DEF StartCmd, Fork
  <2> QED
    BY <2>1, <2>2, OtherCause DEF IInv, CauseInv
<1>3. ASSUME NEW c \in Cmd, ProcessExits(c), UNCHANGED execvars PROVE IInv'
  <2>1. DagInv' /\ Done' = Done /\ Running' = Running
    BY <1>3, ExitsInv DEF IInv
  <2>2. UNCHANGED <<status, fail_prereq, heap, at>>
    BY <1>3 DEF ProcessExits, execvars
  <2> QED
    BY <2>1, <2>2, OtherCause DEF IInv, CauseInv
<1> QED
  BY <1>1, <1>2, <1>3, SettleCause, WaitCause
  DEF Next, Step, Kernel, StartNothing, WaitNothing, Return, vars, execvars

LEMMA InvHolds == Spec => []IInv
<1>1. Init => IInv
  BY InitInv
<1>2. IInv /\ [Next]_vars => IInv'
  BY NextInv
<1> QED
  BY <1>1, <1>2, PTL DEF Spec

\* When SyscmdExecute returns, its result is 0 for exactly the runs in which
\* every command completed and is CompletedOKQ, for any set of commands.
THEOREM ZeroMeansAllOkHolds == Spec => []ZeroMeansAllOk
<1>1. IInv => ZeroMeansAllOk
  <2> SUFFICES ASSUME IInv, at = "returned"
               PROVE  NFail = 0 <=> \A c \in Cmd : c \in Done /\ status[c] = Ok /\ ~fail_prereq[c]
    BY DEF ZeroMeansAllOk
  <2> DEFINE counted == {c \in Cmd : status[c] # Ok /\ ~fail_prereq[c]}
  <2>1. Done = Cmd
    BY DEF IInv, CauseInv, Done
  <2>2. IsFiniteSet(counted)
    BY CmdFinite
  <2>3. NFail = 0 <=> counted = {}
    BY <2>2, FS_EmptySet DEF NFail
  <2>4. counted = {} => \A c \in Cmd : status[c] = Ok /\ ~fail_prereq[c]
    <3> SUFFICES ASSUME counted = {} PROVE \A c \in Cmd : status[c] = Ok /\ ~fail_prereq[c]
      OBVIOUS
    <3>1. ~Blamed
      BY DEF Blamed, Counted
    <3>2. \A c \in Cmd : ~fail_prereq[c]
      BY <2>1, <3>1 DEF IInv, CauseInv
    <3> QED
      BY <3>2
  <2> QED
    BY <2>1, <2>3, <2>4
<1> QED
  BY <1>1, InvHolds, PTL

-----------------------------------------------------------------------------
(* lib_exec implements the abstract runner. *)

LEMMA NextMaps ==
    ASSUME IInv, [Next]_vars
    PROVE  [Dag!Next]_(Dag!vars)
<1>1. CASE UNCHANGED dagvars
  BY <1>1, UnchangedMaps DEF IInv
<1>2. ASSUME NEW c \in Cmd, StartCmd(c) PROVE Dag!Next
  BY <1>2, StartCmdFacts, ForkMaps DEF IInv, Dag!Next
<1>3. ASSUME NEW c \in Cmd, SettleCmd(c) PROVE Dag!Next
  <2>1. /\ c \in heap /\ nprereq[c] = 0 /\ heap' = heap \ {c} /\ proc' = proc
        /\ fail_prereq \in [Cmd -> BOOLEAN]
    BY <1>3, SettleCmdFacts DEF IInv
  <2>2. PICK st \in {Ok, Failed} :
           AdvanceDependent(c, st, fail_prereq) /\ (fail_prereq[c] => st = Failed)
    BY <1>3, SettleCmdFacts DEF IInv
  <2> QED
    BY <2>1, <2>2, SettleMaps DEF IInv, Dag!Next
<1>4. ASSUME NEW c \in Cmd, WaitCmd(c) PROVE Dag!Next
  BY <1>4, ReapMaps DEF WaitCmd, IInv, Dag!Next
<1>5. ASSUME NEW c \in Cmd, ProcessExits(c) PROVE UNCHANGED Dag!vars
  BY <1>5, ExitsMaps DEF IInv
<1> QED
  BY <1>1, <1>2, <1>3, <1>4, <1>5
  DEF Next, Step, Kernel, StartNothing, WaitNothing, Return, vars

\* lib_exec's runner is a runner of dependent commands as abt's is, whatever
\* order it shows the outputs in (SyscmdExecuteStep).
THEOREM DagSpecHolds == Spec => DagSpec
<1>1. Init => Dag!Init
  BY InitMaps DEF Init
<1>2. IInv /\ [Next]_vars => [Dag!Next]_(Dag!vars)
  BY NextMaps
<1> QED
  BY <1>1, <1>2, InvHolds, PTL DEF Spec, DagSpec, Dag!Spec
-----------------------------------------------------------------------------
(* What is shown, and what waits to be shown. *)

\* MarkStoppedInorder finds a place to stop.
LEMMA RetiredFacts ==
    ASSUME NEW list \in Seq(Cmd), NEW compl
    PROVE  /\ Retired(list, compl) \in 0 .. Len(list)
           /\ \A i \in 1 .. Retired(list, compl) : list[i] \in compl
<1> DEFINE Stops == {n \in 0 .. Len(list) : n < Len(list) => list[n + 1] \notin compl}
<1>1. Len(list) \in Nat
  OBVIOUS
<1>2. Stops \in SUBSET Nat /\ Stops # {}
  <2>1. Len(list) \in Stops
    BY <1>1
  <2> QED
    BY <2>1
<1>3. PICK n \in Stops : \A m \in Stops : n <= m
  BY <1>2, LeastNat
<1>4. ASSUME NEW i \in 1 .. n PROVE list[i] \in compl
  <2>1. i - 1 \in 0 .. Len(list) /\ i - 1 < Len(list) /\ i - 1 < n /\ (i - 1) + 1 = i
    BY <1>1
  <2>2. i - 1 \notin Stops
    BY <1>2, <1>3, <2>1
  <2> QED
    BY <2>1, <2>2
<1> QED
  BY <1>3, <1>4 DEF Retired

\* zd_started_Remove takes one entry out, and it is that of the command.
LEMMA RemoveFacts ==
    ASSUME NEW list \in Seq(Cmd), NEW c
    PROVE  /\ RemoveFirst(list, c) \in Seq(Cmd)
           /\ Len(RemoveFirst(list, c)) <= Len(list)
           /\ \A j \in 1 .. Len(list) : list[j] # c =>
                 \E k \in 1 .. Len(RemoveFirst(list, c)) : RemoveFirst(list, c)[k] = list[j]
<1> DEFINE at_c == {j \in 1 .. Len(list) : list[j] = c}
<1>1. CASE at_c = {}
  <2>1. RemoveFirst(list, c) = list
    BY <1>1 DEF RemoveFirst
  <2> QED
    BY <2>1
<1>2. CASE at_c # {}
  <2>1. \E n \in at_c : \A m \in at_c : n <= m
    <3>1. at_c \in SUBSET Nat
      OBVIOUS
    <3> QED
      BY <1>2, <3>1, LeastNat
  <2>2. Min(at_c) \in at_c
    BY <2>1 DEF Min
  <2>3. PICK i \in 1 .. Len(list) : list[i] = c /\ RemoveFirst(list, c) = RemoveAt(list, i)
    <3>1. SelectInSeq(list, LAMBDA v : v = c) = Min(at_c)
      BY <1>2 DEF SelectInSeq
    <3>2. RemoveFirst(list, c) = RemoveAt(list, Min(at_c))
      BY <1>2, <3>1 DEF RemoveFirst
    <3> QED
      BY <2>2, <3>2
  <2> DEFINE front == SubSeq(list, 1, i - 1)
             back == SubSeq(list, i + 1, Len(list))
  <2>4. Len(list) \in Nat /\ i \in Nat /\ 1 <= i /\ i <= Len(list)
    OBVIOUS
  <2>5. /\ front \in Seq(Cmd) /\ Len(front) = i - 1
        /\ \A k \in 1 .. i - 1 : front[k] = list[k]
    <3>1. \A k \in 1 .. i - 1 : list[k] \in Cmd
      BY <2>4, ElementOfSeq
    <3> QED
      BY <2>4, <3>1, SubSeqProperties
  <2>6. /\ back \in Seq(Cmd) /\ Len(back) = Len(list) - i
        /\ \A k \in 1 .. Len(list) - i : back[k] = list[k + i]
    <3>1. \A k \in i + 1 .. Len(list) : list[k] \in Cmd
      BY <2>4, ElementOfSeq
    <3> QED
      BY <2>4, <3>1, SubSeqProperties
  <2>7. /\ front \o back \in Seq(Cmd) /\ Len(front \o back) = Len(list) - 1
        /\ \A k \in 1 .. Len(list) - 1 :
              (front \o back)[k] = IF k <= i - 1 THEN front[k] ELSE back[k - (i - 1)]
    <3> HIDE DEF front, back
    <3>1. /\ front \o back \in Seq(Cmd)
          /\ Len(front \o back) = Len(front) + Len(back)
          /\ \A k \in 1 .. Len(front) + Len(back) :
                (front \o back)[k] = IF k <= Len(front) THEN front[k] ELSE back[k - Len(front)]
      BY <2>5, <2>6, ConcatProperties
    <3>2. Len(front) + Len(back) = Len(list) - 1
      BY <2>4, <2>5, <2>6
    <3> QED
      BY <2>5, <3>1, <3>2
  <2>8. RemoveFirst(list, c) = front \o back
    BY <2>3 DEF RemoveAt
  <2> HIDE DEF front, back
  <2>9. ASSUME NEW j \in 1 .. Len(list), list[j] # c
        PROVE  \E k \in 1 .. Len(list) - 1 : (front \o back)[k] = list[j]
    <3>1. CASE j < i
      BY <2>4, <2>5, <2>7, <3>1
    <3>2. CASE j > i
      <4>1. j - 1 \in 1 .. Len(list) - 1 /\ ~(j - 1 <= i - 1) /\ (j - 1) - (i - 1) = j - i
        BY <2>4, <3>2
      <4>2. back[j - i] = list[j]
        BY <2>4, <2>6, <3>2
      <4> QED
        BY <2>7, <4>1, <4>2
    <3>3. j # i /\ j \in Int /\ i \in Int
      BY <2>3, <2>4, <2>9
    <3>4. j < i \/ j > i
      BY <3>3
    <3> QED
      BY <3>1, <3>2, <3>4
  <2> QED
    BY <2>4, <2>7, <2>8, <2>9
<1> QED
  BY <1>1, <1>2
LEMMA ConcatAssoc == \A a, b, c \in Seq(Cmd) : (a \o b) \o c = a \o (b \o c)
BY ConcatAssociative

\* The invariant of the two lists.
ShowInv ==
    /\ started \in Seq(Cmd) /\ shown \in Seq(Cmd)
    /\ \A i \in 1 .. Len(shown) : shown[i] \in Done
    /\ Len(started) <= 2 * maxjobs + 2
    /\ \A c \in Running : \E i \in 1 .. Len(started) : started[i] = c

\* Cutting off the front of a list: the two parts, and what they add up to.
LEMMA CutFacts ==
    ASSUME NEW list \in Seq(Cmd), NEW n \in 0 .. Len(list)
    PROVE  /\ SubSeq(list, 1, n) \in Seq(Cmd) /\ Len(SubSeq(list, 1, n)) = n
           /\ \A i \in 1 .. n : SubSeq(list, 1, n)[i] = list[i]
           /\ SubSeq(list, n + 1, Len(list)) \in Seq(Cmd)
           /\ Len(SubSeq(list, n + 1, Len(list))) = Len(list) - n
           /\ \A i \in 1 .. Len(list) - n : SubSeq(list, n + 1, Len(list))[i] = list[i + n]
           /\ SubSeq(list, 1, n) \o SubSeq(list, n + 1, Len(list)) = list
<1>1. Len(list) \in Nat /\ n \in Nat /\ n <= Len(list)
  OBVIOUS
<1>2. \A i \in 1 .. n : list[i] \in Cmd
  BY <1>1, ElementOfSeq
<1>3. \A i \in n + 1 .. Len(list) : list[i] \in Cmd
  BY <1>1, ElementOfSeq
<1>4. /\ SubSeq(list, 1, n) \in Seq(Cmd) /\ Len(SubSeq(list, 1, n)) = n
      /\ \A i \in 1 .. n : SubSeq(list, 1, n)[i] = list[i]
  BY <1>1, <1>2, SubSeqProperties
<1>5. /\ SubSeq(list, n + 1, Len(list)) \in Seq(Cmd)
      /\ Len(SubSeq(list, n + 1, Len(list))) = Len(list) - n
      /\ \A i \in 1 .. Len(list) - n : SubSeq(list, n + 1, Len(list))[i] = list[i + n]
  BY <1>1, <1>3, SubSeqProperties
<1>6. SubSeq(list, 1, n) \o SubSeq(list, n + 1, Len(list)) = SubSeq(list, 1, Len(list))
  <2>1. 1 \in 1 .. Len(list) + 1 /\ n \in 1 - 1 .. Len(list) /\ Len(list) \in n .. Len(list)
    BY <1>1
  <2> QED
    BY <2>1, ConcatAdjacentSubSeq
<1>7. SubSeq(list, 1, Len(list)) = list
  BY SubSeqFull
<1> QED
  BY <1>4, <1>5, <1>6, <1>7

\* A command has completed, and what can be shown is shown.
LEMMA ShowFacts ==
    ASSUME ShowInv, DagTypeOK, NEW c \in Cmd, ShowCompleted(c),
           Done' = Done \cup {c}, Running' = Running \ {c}, maxjobs' = maxjobs
    PROVE  /\ ShowInv'
           /\ ~complooo => shown' \o started' = shown \o started
<1> DEFINE rest == IF complooo THEN RemoveFirst(started, c) ELSE started
           n == Retired(rest, Done \cup {c})
           new == IF complooo THEN Append(shown, c) ELSE shown
<1>1. /\ rest \in Seq(Cmd) /\ Len(rest) <= Len(started) /\ Len(rest) \in Nat
      /\ \A j \in 1 .. Len(started) : started[j] # c =>
            \E k \in 1 .. Len(rest) : rest[k] = started[j]
  <2>1. CASE complooo
    BY <2>1, RemoveFacts DEF ShowInv
  <2>2. CASE ~complooo
    BY <2>2 DEF ShowInv
  <2> QED
    BY <2>1, <2>2
<1>2. started' = SubSeq(rest, n + 1, Len(rest)) /\ shown' = new \o SubSeq(rest, 1, n)
  BY DEF ShowCompleted
<1>3. /\ new \in Seq(Cmd) /\ Len(new) \in Nat
      /\ \A i \in 1 .. Len(new) : new[i] \in Done'
  <2>1. CASE complooo
    <3>1. /\ Append(shown, c) \in Seq(Cmd) /\ Len(Append(shown, c)) = Len(shown) + 1
          /\ \A i \in 1 .. Len(shown) : Append(shown, c)[i] = shown[i]
          /\ Append(shown, c)[Len(shown) + 1] = c
          /\ Len(shown) \in Nat
      BY AppendProperties DEF ShowInv
    <3> QED
      BY <2>1, <3>1 DEF ShowInv
  <2>2. CASE ~complooo
    BY <2>2 DEF ShowInv
  <2> QED
    BY <2>1, <2>2
<1> HIDE DEF rest, new
<1>4. n \in 0 .. Len(rest) /\ \A i \in 1 .. n : rest[i] \in Done \cup {c}
  BY <1>1, RetiredFacts
<1> HIDE DEF n
<1> DEFINE front == SubSeq(rest, 1, n)
           back == SubSeq(rest, n + 1, Len(rest))
<1>5. /\ front \in Seq(Cmd) /\ Len(front) = n
      /\ \A i \in 1 .. n : front[i] = rest[i]
      /\ back \in Seq(Cmd) /\ Len(back) = Len(rest) - n
      /\ \A i \in 1 .. Len(rest) - n : back[i] = rest[i + n]
      /\ front \o back = rest
  BY <1>1, <1>4, CutFacts
<1> HIDE DEF front, back
<1>6. started' = back /\ shown' = new \o front
  BY <1>2 DEF front, back
<1>7. /\ shown' \in Seq(Cmd)
      /\ \A i \in 1 .. Len(shown') : shown'[i] \in Done'
  <2>1. /\ new \o front \in Seq(Cmd) /\ Len(new \o front) = Len(new) + n
        /\ \A i \in 1 .. Len(new) + n :
              (new \o front)[i] = IF i <= Len(new) THEN new[i] ELSE front[i - Len(new)]
    BY <1>3, <1>5, ConcatProperties
  <2>2. ASSUME NEW i \in 1 .. Len(new) + n PROVE (new \o front)[i] \in Done'
    <3>1. CASE i <= Len(new)
      BY <1>3, <2>1, <3>1
    <3>2. CASE ~(i <= Len(new))
      <4>1. i - Len(new) \in 1 .. n
        BY <1>1, <1>3, <1>4, <3>2
      <4> QED
        BY <1>4, <1>5, <2>1, <3>2, <4>1
    <3> QED
      BY <3>1, <3>2
  <2> QED
    BY <1>6, <2>1, <2>2
<1>8. started' \in Seq(Cmd) /\ Len(started') <= 2 * maxjobs' + 2
  <2>1. maxjobs \in Nat
    BY DEF DagTypeOK
  <2>2. Len(started) \in Nat /\ Len(started) <= 2 * maxjobs + 2
    BY DEF ShowInv
  <2>3. Len(back) <= Len(started)
    BY <1>1, <1>4, <1>5, <2>2
  <2> QED
    BY <1>5, <1>6, <2>1, <2>2, <2>3
<1>9. ASSUME NEW d \in Running' PROVE \E i \in 1 .. Len(started') : started'[i] = d
  <2>1. d \in Running /\ d # c /\ d \notin Done
    BY <1>9 DEF Done
  <2>2. PICK j \in 1 .. Len(started) : started[j] = d
    BY <2>1 DEF ShowInv
  <2>3. PICK k \in 1 .. Len(rest) : rest[k] = d
    BY <1>1, <2>1, <2>2
  <2>4. k \notin 1 .. n
    BY <1>4, <2>1, <2>3
  <2>5. k - n \in 1 .. Len(rest) - n /\ (k - n) + n = k
    BY <1>1, <1>4, <2>4
  <2> QED
    BY <1>5, <1>6, <2>3, <2>5
<1>10. ASSUME ~complooo PROVE shown' \o started' = shown \o started
  <2>1. rest = started /\ new = shown
    BY <1>10 DEF rest, new
  <2>2. (shown \o front) \o back = shown \o (front \o back)
    <3>1. shown \in Seq(Cmd) /\ front \in Seq(Cmd) /\ back \in Seq(Cmd)
      BY <1>5 DEF ShowInv
    <3> QED
      BY <3>1, ConcatAssoc
  <2> QED
    BY <1>5, <1>6, <2>1, <2>2
<1> QED
  BY <1>7, <1>8, <1>9, <1>10 DEF ShowInv
\* Steps that complete nothing and show nothing.
LEMMA OtherShow ==
    ASSUME ShowInv, UNCHANGED <<started, shown, maxjobs>>,
           Done \subseteq Done', Running' \subseteq Running
    PROVE  ShowInv'
BY DEF ShowInv

\* A command that is started waits to be shown.
LEMMA StartShow ==
    ASSUME ShowInv, DagTypeOK, NEW c \in Cmd, Potential(c),
           started' = Append(started, c), shown' = shown, maxjobs' = maxjobs,
           Done' = Done, Running' = Running \cup {c}
    PROVE  ShowInv' /\ shown' \o started' = Append(shown \o started, c)
<1>1. /\ started' \in Seq(Cmd) /\ Len(started') = Len(started) + 1
      /\ \A i \in 1 .. Len(started) : started'[i] = started[i]
      /\ started'[Len(started) + 1] = c
      /\ Len(started) \in Nat
  BY AppendProperties DEF ShowInv
<1>2. Len(started') <= 2 * maxjobs + 2
  <2>1. maxjobs \in Nat /\ Len(started) \div 2 <= maxjobs
    BY DEF Potential, DagTypeOK
  <2>2. Len(started) <= 2 * maxjobs + 1
    BY <1>1, <2>1
  <2> QED
    BY <1>1, <2>1, <2>2
<1>3. \A d \in Running' : \E i \in 1 .. Len(started') : started'[i] = d
  BY <1>1 DEF ShowInv
<1>4. shown \o Append(started, c) = Append(shown \o started, c)
  <2>1. started \in Seq(Cmd) /\ shown \in Seq(Cmd) /\ <<c>> \in Seq(Cmd)
    BY DEF ShowInv
  <2>2. Append(started, c) = started \o <<c>>
    BY <2>1, AppendIsConcat
  <2>3. shown \o started \in Seq(Cmd)
    BY <2>1, ConcatProperties
  <2>4. Append(shown \o started, c) = (shown \o started) \o <<c>>
    BY <2>3, AppendIsConcat
  <2>5. (shown \o started) \o <<c>> = shown \o (started \o <<c>>)
    BY <2>1, ConcatAssoc
  <2> QED
    BY <2>2, <2>4, <2>5
<1> QED
  BY <1>1, <1>2, <1>3, <1>4 DEF ShowInv

\* What is shown and what waits to be, one after the other, only grows.
Grows ==
    LET old == shown \o started
        new == shown' \o started'
    IN Len(old) <= Len(new) /\ SubSeq(new, 1, Len(old)) = old

LEMMA SameGrows ==
    ASSUME ShowInv, shown' \o started' = shown \o started
    PROVE  Grows
<1>1. shown \o started \in Seq(Cmd)
  BY ConcatProperties DEF ShowInv
<1> QED
  BY <1>1, SubSeqFull DEF Grows

LEMMA AppendGrows ==
    ASSUME ShowInv, NEW c \in Cmd, shown' \o started' = Append(shown \o started, c)
    PROVE  Grows
<1> DEFINE old == shown \o started
<1>1. old \in Seq(Cmd)
  BY ConcatProperties DEF ShowInv
<1> HIDE DEF old
<1>2. Len(old) \in Nat /\ <<c>> \in Seq(Cmd) /\ Len(<<c>>) = 1
  BY <1>1
<1>3. Append(old, c) \in Seq(Cmd) /\ Len(Append(old, c)) = Len(old) + 1
      /\ \A i \in 1 .. Len(old) : Append(old, c)[i] = old[i]
  BY <1>1, AppendProperties
<1>4. Len(old) \in 0 .. Len(Append(old, c))
  BY <1>2, <1>3
<1>5. /\ SubSeq(Append(old, c), 1, Len(old)) \in Seq(Cmd)
      /\ Len(SubSeq(Append(old, c), 1, Len(old))) = Len(old)
      /\ \A i \in 1 .. Len(old) : SubSeq(Append(old, c), 1, Len(old))[i] = Append(old, c)[i]
  BY <1>3, <1>4, CutFacts
<1>6. SubSeq(Append(old, c), 1, Len(old)) = old
  BY <1>1, <1>3, <1>5, SeqEqual
<1> QED
  BY <1>2, <1>3, <1>6 DEF Grows, old

LEMMA NextShow ==
    ASSUME IInv, ShowInv, [Next]_vars
    PROVE  ShowInv' /\ (~complooo => Grows)
<1>1. ASSUME UNCHANGED <<dagvars, complooo, started, shown>>
      PROVE  ShowInv' /\ (~complooo => Grows)
  <2>1. Done' = Done /\ Running' = Running /\ maxjobs' = maxjobs
    BY <1>1, UnchangedInv DEF IInv, dagvars
  <2> QED
    BY <1>1, <2>1, OtherShow, SameGrows
<1>2. ASSUME NEW c \in Cmd, StartCmd(c) PROVE ShowInv' /\ Grows
  <2>1. Done' = Done /\ Running' = Running \cup {c}
    BY <1>2, StartCmdFacts, ForkInv DEF IInv
  <2>2. /\ Potential(c) /\ started' = Append(started, c)
        /\ shown' = shown /\ maxjobs' = maxjobs
    BY <1>2 DEF StartCmd, CanStart, Fork
  <2> QED
    BY <2>1, <2>2, StartShow, AppendGrows DEF IInv, DagInv
<1>3. ASSUME NEW c \in Cmd, SettleCmd(c) PROVE ShowInv' /\ Grows
  <2>1. /\ c \in heap /\ nprereq[c] = 0 /\ heap' = heap \ {c} /\ proc' = proc
        /\ fail_prereq \in [Cmd -> BOOLEAN] /\ UNCHANGED execvars
    BY <1>3, SettleCmdFacts DEF IInv
  <2>2. PICK st \in {Ok, Failed} : AdvanceDependent(c, st, fail_prereq)
    BY <1>3, SettleCmdFacts DEF IInv
  <2>3. Done' = Done \cup {c} /\ Running' = Running /\ maxjobs' = maxjobs
    BY <2>1, <2>2, SettleInv DEF IInv, AdvanceDependent, dag
  <2> QED
    BY <2>1, <2>3, OtherShow, SameGrows DEF execvars
<1>4. ASSUME NEW c \in Cmd, WaitCmd(c) PROVE ShowInv' /\ (~complooo => Grows)
  <2>1. Done' = Done \cup {c} /\ Running' = Running \ {c} /\ maxjobs' = maxjobs
    BY <1>4, ReapInv DEF WaitCmd, IInv, Reap, AdvanceDependent, dag
  <2>2. ShowCompleted(c)
    BY <1>4 DEF WaitCmd
  <2> QED
    BY <2>1, <2>2, ShowFacts, SameGrows DEF IInv, DagInv
<1>5. ASSUME NEW c \in Cmd, ProcessExits(c), UNCHANGED execvars
      PROVE  ShowInv' /\ Grows
  <2>1. Done' = Done /\ Running' = Running /\ maxjobs' = maxjobs
    BY <1>5, ExitsInv DEF IInv, ProcessExits
  <2> QED
    BY <1>5, <2>1, OtherShow, SameGrows DEF execvars
<1> QED
  BY <1>1, <1>2, <1>3, <1>4, <1>5
  DEF Next, Step, Kernel, StartNothing, WaitNothing, Return, vars, execvars

LEMMA ShowHolds == Spec => []ShowInv
<1>1. Init => ShowInv
  <2> SUFFICES ASSUME Init PROVE ShowInv
    OBVIOUS
  <2>1. started = <<>> /\ shown = <<>> /\ Running = {}
    BY DEF Init, DagInit, Running
  <2>2. maxjobs \in Nat
    BY DagAssumption DEF Init, DagInit
  <2> QED
    BY <2>1, <2>2 DEF ShowInv
<1>2. IInv /\ ShowInv /\ [Next]_vars => ShowInv'
  BY NextShow
<1> QED
  BY <1>1, <1>2, InvHolds, PTL DEF Spec

\* The files held open are bounded by maxjobs for any set of commands, in any
\* order of completion (SyscmdExecuteStep, MarkStoppedInorder).
THEOREM OpenFilesBoundedHolds == Spec => []OpenFilesBounded
<1>1. ShowInv => OpenFilesBounded
  BY DEF ShowInv, OpenFilesBounded
<1> QED
  BY <1>1, ShowHolds, PTL

\* The outputs of any run appear in the order of spawning, each after its
\* command has ended (MarkStoppedInorder).
THEOREM ShownInOrderHolds == Spec => ShownInOrder
<1>1. ShowInv' => \A i \in DOMAIN shown' : shown'[i] \in Done'
  BY DEF ShowInv
<1>2. IInv /\ ShowInv /\ ShowInv' /\ [Next]_vars
        => [/\ \A i \in DOMAIN shown' : shown'[i] \in Done'
            /\ ~complooo => Grows]_vars
  BY <1>1, NextShow
<1> QED
  BY <1>2, ShowHolds, InvHolds, PTL DEF Spec, ShownInOrder, Grows
=============================================================================
