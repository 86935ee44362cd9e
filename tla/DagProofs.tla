----------------------------- MODULE DagProofs -----------------------------
(* The invariant of the command heap, kept by whatever abt and lib_exec do   *)
(* to it: starting a command, completing one, and a process that ends.       *)
EXTENDS CommandDag, FiniteSetTheorems, WellFoundedInduction, TLAPS

\* What the heap needs besides the properties: commands out of the heap have
\* nothing left to wait for.
DagInv ==
    /\ DagTypeOK
    /\ heap \cap Running = {}
    /\ \A c \in Cmd \ heap : prior[c] \subseteq Done
    /\ PrereqsCounted
    /\ RunsAfterPrereqs

-----------------------------------------------------------------------------
(* Sets of commands are finite. *)
LEMMA CmdFinite == ASSUME NEW S \in SUBSET Cmd
                   PROVE  IsFiniteSet(S) /\ Cardinality(S) \in Nat
<1>1. IsFiniteSet(Cmd)
  BY DagAssumption, FS_Interval DEF Cmd
<1>2. IsFiniteSet(S)
  BY <1>1, FS_Subset
<1> QED
  BY <1>2, FS_CardinalityType

LEMMA DagInitInv == DagInit => DagInv
<1> SUFFICES ASSUME DagInit PROVE DagInv
  OBVIOUS
<1>1. prior \in [Cmd -> SUBSET Cmd] /\ empty \subseteq Cmd /\ maxjobs \in Nat
  BY DagAssumption DEF DagInit
<1>2. Running = {}
  BY DEF DagInit, Running
<1>3. Done = {}
  BY <1>2 DEF DagInit, Done
<1>4. \A c \in Cmd : Cardinality(prior[c]) \in Nat
  BY <1>1, CmdFinite
<1>5. DagTypeOK
  BY <1>1, <1>4 DEF DagInit, DagTypeOK, Ok, Failed
<1>6. PrereqsCounted
  <2> SUFFICES ASSUME NEW c \in heap
               PROVE  /\ nprereq[c] = Cardinality(prior[c] \ Done)
                      /\ fail_prereq[c] <=> \E p \in prior[c] \cap Done : status[p] # Ok
    BY DEF PrereqsCounted
  <2>1. c \in Cmd /\ prior[c] \ Done = prior[c] /\ prior[c] \cap Done = {}
    BY <1>3 DEF DagInit
  <2> QED
    BY <2>1 DEF DagInit
<1>7. heap = Cmd
  BY DEF DagInit
<1> QED
  BY <1>2, <1>5, <1>6, <1>7 DEF DagInv, RunsAfterPrereqs

\* The first command of the heap is ready when its count is zero.
LEMMA ReadyMeansDone ==
    ASSUME DagInv, NEW c \in heap, nprereq[c] = 0
    PROVE  prior[c] \subseteq Done
<1>1. c \in Cmd /\ prior[c] \in SUBSET Cmd
  BY DEF DagInv, DagTypeOK
<1>2. Cardinality(prior[c] \ Done) = 0
  BY DEF DagInv, PrereqsCounted
<1>3. IsFiniteSet(prior[c] \ Done)
  BY <1>1, CmdFinite
<1>4. prior[c] \ Done = {}
  BY <1>2, <1>3, FS_EmptySet
<1> QED
  BY <1>4

LEMMA ForkInv ==
    ASSUME DagInv, NEW c \in heap, nprereq[c] = 0, ~fail_prereq[c], Fork(c)
    PROVE  DagInv' /\ Done' = Done /\ Running' = Running \cup {c}
<1>1. /\ c \in Cmd /\ heap \subseteq Cmd /\ c \notin Running /\ Running \subseteq Cmd
      /\ prior \in [Cmd -> SUBSET Cmd]
      /\ proc \in [Cmd -> {"none", "alive", "ok", "failed"}]
  BY DEF DagInv, DagTypeOK, Running
<1>2. Running' = Running \cup {c}
  BY <1>1 DEF Fork, Running
<1>3. Done' = Done
  BY <1>1, <1>2 DEF Fork, Done
<1>4. prior[c] \subseteq Done
  BY ReadyMeansDone
<1>5. \A p \in prior[c] : status[p] = Ok
  <2> TAKE p \in prior[c]
  <2>1. p \in prior[c] \cap Done
    BY <1>4
  <2> QED
    BY <2>1 DEF DagInv, PrereqsCounted
<1>6. DagTypeOK'
  BY <1>1 DEF DagInv, DagTypeOK, Fork
<1>7. heap' \cap Running' = {}
  BY <1>1, <1>2 DEF Fork, DagInv
<1>8. \A d \in Cmd \ heap' : prior'[d] \subseteq Done'
  BY <1>3, <1>4 DEF Fork, DagInv
<1>9. PrereqsCounted'
  BY <1>3 DEF Fork, DagInv, PrereqsCounted
<1>10. RunsAfterPrereqs'
  BY <1>2, <1>3, <1>4, <1>5 DEF Fork, DagInv, RunsAfterPrereqs
<1> QED
  BY <1>2, <1>3, <1>6, <1>7, <1>8, <1>9, <1>10 DEF DagInv

LEMMA ExitsInv ==
    ASSUME DagInv, NEW c \in Cmd, ProcessExits(c)
    PROVE  DagInv' /\ Done' = Done /\ Running' = Running
<1>1. /\ prior \in [Cmd -> SUBSET Cmd]
      /\ proc \in [Cmd -> {"none", "alive", "ok", "failed"}]
  BY DEF DagInv, DagTypeOK
<1>2. PICK how \in {"ok", "failed"} : proc' = [proc EXCEPT ![c] = how]
  BY DEF ProcessExits
<1>3. Running' = Running
  BY <1>1, <1>2 DEF ProcessExits, Running
<1>4. Done' = Done
  BY <1>3 DEF ProcessExits, Done
<1>5. DagTypeOK'
  BY <1>1, <1>2 DEF ProcessExits, DagInv, DagTypeOK
<1>6. PrereqsCounted' /\ RunsAfterPrereqs'
  BY <1>3, <1>4 DEF ProcessExits, DagInv, PrereqsCounted, RunsAfterPrereqs
<1> QED
  BY <1>3, <1>4, <1>5, <1>6 DEF ProcessExits, DagInv

(* Completing a command counts down exactly the commands that wait for it. *)
LEMMA CompleteInv ==
    ASSUME DagInv, NEW c \in Cmd, c \notin Done, prior[c] \subseteq Done,
           NEW st \in {Ok, Failed}, NEW pre \in [Cmd -> BOOLEAN],
           \A d \in Cmd \ {c} : pre[d] = fail_prereq[d],
           AdvanceDependent(c, st, pre),
           heap' = heap \ {c},
           proc' \in [Cmd -> {"none", "alive", "ok", "failed"}],
           Running' = Running \ {c}
    PROVE  /\ DagInv' /\ Done' = Done \cup {c}
           /\ \A d \in Done : status'[d] = status[d]
           /\ status'[c] = st
<1>1. /\ prior \in [Cmd -> SUBSET Cmd] /\ status \in [Cmd -> {Ok, Failed}]
      /\ nprereq \in [Cmd -> Nat] /\ fail_prereq \in [Cmd -> BOOLEAN]
      /\ heap \subseteq Cmd /\ prior' = prior
  BY DEF DagInv, DagTypeOK, AdvanceDependent, dag
<1>2. Done' = Done \cup {c}
  BY DEF Done
<1>3. /\ \A d \in Done : status'[d] = status[d]
      /\ status'[c] = st /\ status' \in [Cmd -> {Ok, Failed}]
  BY <1>1 DEF AdvanceDependent, Done
<1>4. ASSUME NEW d \in heap'
      PROVE  /\ nprereq'[d] = Cardinality(prior[d] \ Done')
             /\ fail_prereq'[d] <=> \E p \in prior[d] \cap Done' : status'[p] # Ok
  <2>1. d \in heap /\ d \in Cmd /\ d # c /\ prior[d] \in SUBSET Cmd
    BY <1>1
  <2>2. nprereq[d] = Cardinality(prior[d] \ Done)
    BY <2>1 DEF DagInv, PrereqsCounted
  <2>3. IsFiniteSet(prior[d] \ Done)
    BY <2>1, CmdFinite
  <2>4. prior[d] \ Done' = (prior[d] \ Done) \ {c}
    BY <1>2
  <2>5. Cardinality((prior[d] \ Done) \ {c})
          = IF c \in prior[d] \ Done THEN Cardinality(prior[d] \ Done) - 1
            ELSE Cardinality(prior[d] \ Done)
    BY <2>3, FS_RemoveElement
  <2>6. nprereq'[d] = IF c \in prior[d] THEN nprereq[d] - 1 ELSE nprereq[d]
    BY <2>1 DEF AdvanceDependent
  <2>7. nprereq'[d] = Cardinality(prior[d] \ Done')
    BY <2>2, <2>4, <2>5, <2>6
  <2>8. fail_prereq'[d] <=> fail_prereq[d] \/ (c \in prior[d] /\ st # Ok)
    BY <2>1 DEF AdvanceDependent
  <2>9. fail_prereq[d] <=> \E p \in prior[d] \cap Done : status[p] # Ok
    BY <2>1 DEF DagInv, PrereqsCounted
  <2>10. (\E p \in prior[d] \cap Done' : status'[p] # Ok)
           <=> (\E p \in prior[d] \cap Done : status[p] # Ok) \/ (c \in prior[d] /\ st # Ok)
    BY <1>2, <1>3
  <2> QED
    BY <2>7, <2>8, <2>9, <2>10
<1>5. ASSUME NEW d \in Cmd PROVE nprereq'[d] \in Nat
  <2>1. nprereq'[d] = IF c \in prior[d] THEN nprereq[d] - 1 ELSE nprereq[d]
    BY DEF AdvanceDependent
  <2>2. CASE d \in heap'
    <3>1. prior[d] \ Done' \in SUBSET Cmd
      BY <1>1
    <3> QED
      BY <1>4, <2>2, <3>1, CmdFinite
  <2>3. CASE d \notin heap'
    <3>1. c \notin prior[d]
      BY <2>3 DEF DagInv
    <3> QED
      BY <1>1, <2>1, <3>1
  <2> QED
    BY <2>2, <2>3
<1>6. DagTypeOK'
  <2>1. nprereq' = [d \in Cmd |-> nprereq'[d]]
    BY DEF AdvanceDependent
  <2>2. nprereq' \in [Cmd -> Nat]
    BY <1>5, <2>1
  <2>3. fail_prereq' \in [Cmd -> BOOLEAN]
    BY DEF AdvanceDependent
  <2> QED
    BY <1>1, <1>3, <2>2, <2>3 DEF DagInv, DagTypeOK, AdvanceDependent, dag
<1>7. heap' \cap Running' = {}
  BY DEF DagInv
<1>8. \A d \in Cmd \ heap' : prior'[d] \subseteq Done'
  BY <1>1, <1>2 DEF DagInv
<1>9. PrereqsCounted'
  BY <1>1, <1>4 DEF PrereqsCounted
<1>10. RunsAfterPrereqs'
  <2> SUFFICES ASSUME NEW d \in Running', NEW p \in prior'[d]
               PROVE  p \in Done' /\ status'[p] = Ok
    BY DEF RunsAfterPrereqs
  <2>1. d \in Running /\ p \in prior[d]
    BY <1>1
  <2>2. p \in Done /\ status[p] = Ok
    BY <2>1 DEF DagInv, RunsAfterPrereqs
  <2> QED
    BY <1>2, <1>3, <2>2
<1> QED
  BY <1>2, <1>3, <1>6, <1>7, <1>8, <1>9, <1>10 DEF DagInv

-----------------------------------------------------------------------------
(* What a loop does to the heap, as a whole. *)

LEMMA UnchangedInv ==
    ASSUME DagInv, UNCHANGED dagvars
    PROVE  DagInv' /\ Done' = Done /\ Running' = Running
BY DEF dagvars, DagInv, DagTypeOK, Running, Done, PrereqsCounted, RunsAfterPrereqs

\* Only commands that still wait are told of a completion.
LEMMA CompleteFlags ==
    ASSUME DagInv, NEW c \in Cmd, c \notin Done, prior[c] \subseteq Done,
           NEW st, NEW pre \in [Cmd -> BOOLEAN],
           \A d \in Cmd \ {c} : pre[d] = fail_prereq[d],
           AdvanceDependent(c, st, pre)
    PROVE  /\ \A d \in (Done \cup Running) \ {c} : fail_prereq'[d] = fail_prereq[d]
           /\ fail_prereq'[c] = pre[c]
<1>1. ASSUME NEW d \in Cmd, c \notin prior[d]
      PROVE  fail_prereq'[d] = pre[d]
  BY <1>1 DEF AdvanceDependent
<1>2. ASSUME NEW d \in (Done \cup Running) \ {c} PROVE d \in Cmd /\ c \notin prior[d]
  BY <1>2 DEF DagInv, Done, Running
<1> QED
  BY <1>1, <1>2

\* A command that is taken from the heap and completes at once.
LEMMA SettleInv ==
    ASSUME DagInv, NEW c \in heap, nprereq[c] = 0,
           NEW st \in {Ok, Failed}, NEW pre \in [Cmd -> BOOLEAN],
           \A d \in Cmd \ {c} : pre[d] = fail_prereq[d],
           AdvanceDependent(c, st, pre), heap' = heap \ {c}, proc' = proc
    PROVE  /\ DagInv' /\ Done' = Done \cup {c} /\ Running' = Running
           /\ c \notin Done \cup Running /\ prior[c] \subseteq Done
           /\ status'[c] = st /\ fail_prereq'[c] = pre[c]
           /\ \A d \in Done : status'[d] = status[d]
           /\ \A d \in Done \cup Running : fail_prereq'[d] = fail_prereq[d]
<1>1. prior[c] \subseteq Done
  BY ReadyMeansDone
<1>2. c \in Cmd /\ c \notin Running /\ c \notin Done
  BY DEF DagInv, DagTypeOK, Done
<1>3. Running' = Running
  BY DEF Running
<1>4. proc' \in [Cmd -> {"none", "alive", "ok", "failed"}] /\ Running' = Running \ {c}
  BY <1>2, <1>3 DEF DagInv, DagTypeOK
<1>5. /\ DagInv' /\ Done' = Done \cup {c}
      /\ \A d \in Done : status'[d] = status[d]
      /\ status'[c] = st
  BY <1>1, <1>2, <1>4, CompleteInv
<1>6. /\ \A d \in (Done \cup Running) \ {c} : fail_prereq'[d] = fail_prereq[d]
      /\ fail_prereq'[c] = pre[c]
  BY <1>1, <1>2, CompleteFlags
<1> QED
  BY <1>1, <1>2, <1>3, <1>5, <1>6

\* A command that is waited for.
LEMMA ReapInv ==
    ASSUME DagInv, NEW c \in Exited, Reap(c)
    PROVE  /\ DagInv' /\ Done' = Done \cup {c} /\ Running' = Running \ {c}
           /\ c \in Running /\ c \notin Done
           /\ status'[c] = ExitStatus(c)
           /\ \A d \in Done : status'[d] = status[d]
           /\ \A d \in Done \cup Running : fail_prereq'[d] = fail_prereq[d]
<1>1. /\ c \in Cmd /\ c \in Running /\ c \notin heap /\ c \notin Done
      /\ proc \in [Cmd -> {"none", "alive", "ok", "failed"}]
      /\ fail_prereq \in [Cmd -> BOOLEAN]
  BY DEF Exited, Running, Done, DagInv, DagTypeOK
<1>2. /\ proc' = [proc EXCEPT ![c] = "none"] /\ heap' = heap \ {c}
      /\ AdvanceDependent(c, ExitStatus(c), fail_prereq)
  BY <1>1 DEF Reap
<1>3. Running' = Running \ {c}
  BY <1>1, <1>2 DEF Running
<1>4. prior[c] \subseteq Done
  BY <1>1 DEF DagInv
<1>5. proc' \in [Cmd -> {"none", "alive", "ok", "failed"}]
  BY <1>1, <1>2
<1>6. ExitStatus(c) \in {Ok, Failed}
  BY DEF ExitStatus
<1>7. /\ DagInv' /\ Done' = Done \cup {c}
      /\ \A d \in Done : status'[d] = status[d]
      /\ status'[c] = ExitStatus(c)
  BY <1>1, <1>2, <1>3, <1>4, <1>5, <1>6, CompleteInv
<1>8. /\ \A d \in (Done \cup Running) \ {c} : fail_prereq'[d] = fail_prereq[d]
      /\ fail_prereq'[c] = fail_prereq[c]
  BY <1>1, <1>2, <1>4, CompleteFlags
<1> QED
  BY <1>1, <1>3, <1>7, <1>8

-----------------------------------------------------------------------------
(* Each of these is a step of the abstract runner. *)

LEMMA InitMaps == DagInit => Dag!Init
<1> SUFFICES ASSUME DagInit PROVE Dag!Init
  OBVIOUS
<1>1. Running = {}
  BY DEF DagInit, Running
<1>2. Done = {}
  BY <1>1 DEF DagInit, Done
<1> QED
  BY <1>1, <1>2, DagAssumption DEF DagInit, Dag!Init

LEMMA StepStutters ==
    ASSUME UNCHANGED <<prior, maxjobs, status>>, Done' = Done, Running' = Running
    PROVE  UNCHANGED Dag!vars
BY DEF Dag!vars

LEMMA UnchangedMaps == ASSUME DagInv, UNCHANGED dagvars PROVE UNCHANGED Dag!vars
BY UnchangedInv, StepStutters DEF dagvars

LEMMA ExitsMaps ==
    ASSUME DagInv, NEW c \in Cmd, ProcessExits(c)
    PROVE  UNCHANGED Dag!vars
BY ExitsInv, StepStutters DEF ProcessExits

\* The two modules count alike.
LEMMA SameCount == \A S : Dag!Cardinality(S) = Cardinality(S)
BY DEF Dag!Cardinality, Cardinality

LEMMA ForkMaps ==
    ASSUME DagInv, NEW c \in heap, nprereq[c] = 0, ~fail_prereq[c], Fork(c),
           Cardinality(Running) < maxjobs
    PROVE  Dag!Start(c)
<1>1. UNCHANGED <<prior, maxjobs, status>>
  BY DEF Fork
<1>2. prior[c] \subseteq Done
  BY ReadyMeansDone
<1>3. prior[c] \cap {d \in Done : status[d] # Ok} = {}
  BY DEF DagInv, PrereqsCounted
<1>4. c \notin Running \cup Done
  BY DEF DagInv, Done
<1>5. Running' = Running \cup {c} /\ Done' = Done
  BY ForkInv
<1> QED
  BY <1>1, <1>2, <1>3, <1>4, <1>5, SameCount DEF Dag!Start, Dag!Ready

LEMMA SettleMaps ==
    ASSUME DagInv, NEW c \in heap, nprereq[c] = 0,
           NEW st \in {Ok, Failed}, NEW pre \in [Cmd -> BOOLEAN],
           \A d \in Cmd \ {c} : pre[d] = fail_prereq[d],
           AdvanceDependent(c, st, pre), heap' = heap \ {c}, proc' = proc,
           fail_prereq[c] => st = Failed
    PROVE  Dag!Skip(c)
<1>1. /\ Done' = Done \cup {c} /\ Running' = Running
      /\ c \notin Done \cup Running /\ prior[c] \subseteq Done
      /\ status'[c] = st
      /\ \A d \in Done : status'[d] = status[d]
  BY SettleInv
<1>2. UNCHANGED <<prior, maxjobs>>
  BY DEF AdvanceDependent, dag
<1>3. {d \in Done' : status'[d] # Ok}
        = {d \in Done : status[d] # Ok} \cup (IF st # Ok THEN {c} ELSE {})
  BY <1>1
<1>4. prior[c] \cap {d \in Done : status[d] # Ok} # {} => st # Ok
  <2>1. prior[c] \cap {d \in Done : status[d] # Ok} # {} => fail_prereq[c]
    BY DEF DagInv, PrereqsCounted
  <2> QED
    BY <2>1 DEF Ok, Failed
<1> QED
  BY <1>1, <1>2, <1>3, <1>4 DEF Dag!Skip, Dag!Ready

LEMMA ReapMaps ==
    ASSUME DagInv, NEW c \in Exited, Reap(c)
    PROVE  Dag!Finish(c)
<1>1. /\ Done' = Done \cup {c} /\ Running' = Running \ {c}
      /\ c \in Running /\ c \notin Done
      /\ \A d \in Done : status'[d] = status[d]
  BY ReapInv
<1>2. UNCHANGED <<prior, maxjobs>>
  BY DEF Reap, AdvanceDependent, dag
<1>3. {d \in Done' : status'[d] # Ok}
        \in {{d \in Done : status[d] # Ok}, {d \in Done : status[d] # Ok} \cup {c}}
  <2>1. CASE status'[c] = Ok
    BY <1>1, <2>1
  <2>2. CASE status'[c] # Ok
    BY <1>1, <2>2
  <2> QED
    BY <2>1, <2>2
<1> QED
  BY <1>1, <1>2, <1>3 DEF Dag!Finish
-----------------------------------------------------------------------------
(* Loops.  None of the commands of a loop ever leaves the heap; and a heap   *)
(* that nothing can be taken from, with nothing running, is itself a loop.   *)

IsLoop(S) == S # {} /\ \A c \in S : prior[c] \cap S # {}
LoopsWait == \A S \in SUBSET Cmd : IsLoop(S) => S \subseteq heap

LEMMA LoopsStay ==
    ASSUME DagInv, LoopsWait, NEW c \in heap, nprereq[c] = 0,
           heap' = heap \ {c}, prior' = prior
    PROVE  LoopsWait'
<1>1. prior[c] \cap heap = {}
  BY ReadyMeansDone DEF Done
<1>2. ASSUME NEW S \in SUBSET Cmd, IsLoop(S)' PROVE S \subseteq heap'
  <2>1. S \subseteq heap /\ \A d \in S : prior[d] \cap S # {}
    BY <1>2 DEF LoopsWait, IsLoop
  <2>2. c \notin S
    BY <1>1, <2>1
  <2> QED
    BY <2>1, <2>2
<1> QED
  BY <1>2 DEF LoopsWait

LEMMA LeastNat ==
    ASSUME NEW T \in SUBSET Nat, T # {}
    PROVE  \E n \in T : \A m \in T : n <= m
<1>1. PICK n \in T : \A m \in T : ~ (<<m, n>> \in OpToRel(<, Nat))
  BY WFMin, NatLessThanWellFounded
<1>2. \A m \in T : ~ (m < n)
  BY <1>1 DEF OpToRel
<1> QED
  BY <1>2

\* The heap has a first command: the oldest of those with the least count.
LEMMA FirstExists ==
    ASSUME DagTypeOK, heap # {}
    PROVE  \E c \in heap : First(c)
<1> DEFINE Counts == {nprereq[c] : c \in heap}
<1>1. heap \subseteq Nat /\ \A c \in heap : nprereq[c] \in Nat
  BY DEF DagTypeOK, Cmd
<1>2. PICK c \in heap : \A d \in heap : nprereq[c] <= nprereq[d]
  <2>1. Counts \in SUBSET Nat /\ Counts # {}
    BY <1>1
  <2>2. PICK n \in Counts : \A m \in Counts : n <= m
    BY <2>1, LeastNat
  <2> QED
    BY <2>2
<1> DEFINE Least == {d \in heap : nprereq[d] = nprereq[c]}
<1>3. Least \in SUBSET Nat /\ Least # {}
  BY <1>1
<1> HIDE DEF Least
<1>4. PICK b \in Least : \A d \in Least : b <= d
  BY <1>3, LeastNat
<1>5. b \in heap /\ nprereq[b] = nprereq[c]
  BY <1>4 DEF Least
<1>6. ASSUME NEW d \in heap PROVE Before(b, d)
  <2>1. CASE nprereq[d] = nprereq[c]
    BY <1>4, <1>5, <2>1 DEF Least, Before
  <2>2. CASE nprereq[d] # nprereq[c]
    BY <1>1, <1>2, <1>5, <2>2 DEF Before
  <2> QED
    BY <2>1, <2>2
<1> QED
  BY <1>5, <1>6 DEF First

LEMMA StuckIsLoop ==
    ASSUME DagInv, heap # {}, Running = {}, ~ \E c \in Cmd : FirstReady(c)
    PROVE  HasLoop
<1>1. PICK b \in heap : First(b)
  BY FirstExists DEF DagInv
<1>2. heap \in SUBSET Cmd /\ \A c \in heap : nprereq[c] \in Nat /\ prior[c] \in SUBSET Cmd
  BY DEF DagInv, DagTypeOK
<1>3. nprereq[b] # 0
  BY <1>1, <1>2 DEF FirstReady
<1>4. ASSUME NEW c \in heap PROVE prior[c] \cap heap # {}
  <2>1. nprereq[c] # 0
    BY <1>1, <1>2, <1>3 DEF First, Before
  <2>2. Cardinality(prior[c] \ Done) # 0
    BY <2>1 DEF DagInv, PrereqsCounted
  <2>3. Cardinality({}) = 0
    BY FS_EmptySet
  <2>4. prior[c] \ Done # {}
    BY <2>2, <2>3
  <2> QED
    BY <1>2, <2>4 DEF Done
<1> QED
  BY <1>2, <1>4 DEF HasLoop
=============================================================================
