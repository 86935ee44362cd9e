----------------------------- MODULE AbtProofs -----------------------------
(* abt's command runner, for every set of commands and every dependency      *)
(* relation: it keeps its counts, runs no command before what it depends on, *)
(* implements the abstract runner, and exits with 0 only after a full build. *)
EXTENDS AbtProps, DagProofs

-----------------------------------------------------------------------------
(* What an action of abt does to the heap. *)

\* The flags a settled command leaves behind.
Flags(c) == [fail_prereq EXCEPT ![c] = Prefail(c)]
Outcome(c) == IF Prefail(c) THEN Failed ELSE Ok

LEMMA StartCmdFacts ==
    ASSUME DagInv, NEW c \in Cmd, StartCmd(c)
    PROVE  /\ c \in heap /\ nprereq[c] = 0 /\ ~fail_prereq[c] /\ Fork(c)
           /\ Cardinality(Running) < maxjobs
BY DEF StartCmd, CanStart, FirstReady, First, Prefail

LEMMA SettleCmdFacts ==
    ASSUME DagInv, last_signal \in BOOLEAN, NEW c \in Cmd, SettleCmd(c)
    PROVE  /\ c \in heap /\ nprereq[c] = 0 /\ heap' = heap \ {c} /\ proc' = proc
           /\ AdvanceDependent(c, Outcome(c), Flags(c))
           /\ Outcome(c) \in {Ok, Failed} /\ Flags(c) \in [Cmd -> BOOLEAN]
           /\ \A d \in Cmd \ {c} : Flags(c)[d] = fail_prereq[d]
           /\ Flags(c)[c] = Prefail(c)
           /\ fail_prereq[c] => Outcome(c) = Failed
<1>1. fail_prereq \in [Cmd -> BOOLEAN]
  BY DEF DagInv, DagTypeOK
<1>2. Prefail(c) \in BOOLEAN
  BY <1>1 DEF Prefail
<1>3. /\ Flags(c) \in [Cmd -> BOOLEAN] /\ Flags(c)[c] = Prefail(c)
      /\ \A d \in Cmd \ {c} : Flags(c)[d] = fail_prereq[d]
  BY <1>1, <1>2 DEF Flags
<1>4. Outcome(c) \in {Ok, Failed} /\ (fail_prereq[c] => Outcome(c) = Failed)
  BY DEF Outcome, Prefail
<1> QED
  BY <1>3, <1>4 DEF SettleCmd, CanStart, FirstReady, First, Flags, Outcome

-----------------------------------------------------------------------------
\* The invariant of abt's runner.
IInv == DagInv /\ TypeOK

LEMMA InitInv == Init => IInv
<1> SUFFICES ASSUME Init PROVE IInv
  OBVIOUS
<1>1. DagInv
  BY DagInitInv DEF Init
<1>2. maxerr \in Nat /\ nfail \in Nat /\ last_signal \in BOOLEAN /\ at = "loop"
  BY MaxErrAssumption DEF Init
<1> QED
  BY <1>1, <1>2 DEF IInv, DagInv, TypeOK

LEMMA NextTypeOK ==
    ASSUME TypeOK, DagTypeOK', [Next]_vars
    PROVE  TypeOK'
<1>1. CASE UNCHANGED vars
  BY <1>1 DEF vars, abtvars, TypeOK
<1>2. CASE SignalHandler \/ LeaveLoop
  BY <1>2 DEF SignalHandler, LeaveLoop, TypeOK
<1>3. ASSUME NEW c \in Cmd,
             StartCmd(c) \/ ForkFails(c) \/ SettleCmd(c) \/ WaitCmd(c)
      PROVE  TypeOK'
  <2>1. nfail' \in Nat
    <3>1. nfail \in Nat
      BY DEF TypeOK
    <3>2. ASSUME NEW st, CountFailure(st) PROVE nfail' \in Nat
      BY <3>1, <3>2 DEF CountFailure
    <3> QED
      BY <1>3, <3>1, <3>2 DEF StartCmd, ForkFails, SettleCmd, WaitCmd, abtvars
  <2>2. UNCHANGED <<maxerr, last_signal>> /\ at' \in {at, "thrown"}
    BY <1>3 DEF StartCmd, ForkFails, SettleCmd, WaitCmd, abtvars
  <2> QED
    BY <2>1, <2>2 DEF TypeOK
<1>4. CASE Kernel
  BY <1>4 DEF Kernel, abtvars, TypeOK
<1> QED
  BY <1>1, <1>2, <1>3, <1>4 DEF Next, Loop

LEMMA NextInv ==
    ASSUME IInv, [Next]_vars
    PROVE  IInv'
<1>1. DagInv'
  <2>1. CASE UNCHANGED dagvars
    BY <2>1, UnchangedInv DEF IInv
  <2>2. ASSUME NEW c \in Cmd, StartCmd(c) PROVE DagInv'
    BY <2>2, StartCmdFacts, ForkInv DEF IInv
  <2>3. ASSUME NEW c \in Cmd, SettleCmd(c) PROVE DagInv'
    BY <2>3, SettleCmdFacts, SettleInv DEF IInv, TypeOK
  <2>4. ASSUME NEW c \in Cmd, WaitCmd(c) PROVE DagInv'
    BY <2>4, ReapInv DEF WaitCmd, IInv
  <2>5. ASSUME NEW c \in Cmd, ProcessExits(c) PROVE DagInv'
    BY <2>5, ExitsInv DEF IInv
  <2> QED
    BY <2>1, <2>2, <2>3, <2>4, <2>5
    DEF Next, Loop, Kernel, SignalHandler, LeaveLoop, ForkFails, vars
<1>2. TypeOK'
  BY <1>1, NextTypeOK DEF DagInv, IInv
<1> QED
  BY <1>1, <1>2 DEF IInv

LEMMA InvHolds == Spec => []IInv
<1>1. Init => IInv
  BY InitInv
<1>2. IInv /\ [Next]_vars => IInv'
  BY NextInv
<1> QED
  BY <1>1, <1>2, PTL DEF Spec

\* The types of abt's state, for any build.
THEOREM TypeOKHolds == Spec => []TypeOK
<1>1. IInv => TypeOK
  BY DEF IInv
<1> QED
  BY <1>1, InvHolds, PTL

\* The counts of the heap are right in every build, whatever completes in
\* whatever order and fails or not (Build_AdvanceDependent).
THEOREM PrereqsCountedHolds == Spec => []PrereqsCounted
<1>1. IInv => PrereqsCounted
  BY DEF IInv, DagInv
<1> QED
  BY <1>1, InvHolds, PTL

\* No command of any build runs before all it depends on has succeeded
\* (Build_RunDag).
THEOREM RunsAfterPrereqsHolds == Spec => []RunsAfterPrereqs
<1>1. IInv => RunsAfterPrereqs
  BY DEF IInv, DagInv
<1> QED
  BY <1>1, InvHolds, PTL

-----------------------------------------------------------------------------
(* abt implements the abstract runner. *)

LEMMA NextMaps ==
    ASSUME IInv, [Next]_vars
    PROVE  [Dag!Next]_(Dag!vars)
<1>1. CASE UNCHANGED dagvars
  BY <1>1, UnchangedMaps DEF IInv
<1>2. ASSUME NEW c \in Cmd, StartCmd(c) PROVE Dag!Next
  BY <1>2, StartCmdFacts, ForkMaps DEF IInv, Dag!Next
<1>3. ASSUME NEW c \in Cmd, SettleCmd(c) PROVE Dag!Next
  BY <1>3, SettleCmdFacts, SettleMaps DEF IInv, TypeOK, Dag!Next
<1>4. ASSUME NEW c \in Cmd, WaitCmd(c) PROVE Dag!Next
  BY <1>4, ReapMaps DEF WaitCmd, IInv, Dag!Next
<1>5. ASSUME NEW c \in Cmd, ProcessExits(c) PROVE UNCHANGED Dag!vars
  BY <1>5, ExitsMaps DEF IInv
<1> QED
  BY <1>1, <1>2, <1>3, <1>4, <1>5
  DEF Next, Loop, Kernel, SignalHandler, LeaveLoop, ForkFails, vars

\* abt's runner is a runner of dependent commands: it never runs more than
\* -maxjobs at a time, nothing twice and nothing too early, and whatever
\* depends on a failure fails (Build_RunDag).
THEOREM DagSpecHolds == Spec => DagSpec
<1>1. Init => Dag!Init
  BY InitMaps DEF Init
<1>2. IInv /\ [Next]_vars => [Dag!Next]_(Dag!vars)
  BY NextMaps
<1> QED
  BY <1>1, <1>2, InvHolds, PTL DEF Spec, DagSpec, Dag!Spec

-----------------------------------------------------------------------------
(* The exit code. *)

\* A command that failed for a reason of its own: Main_Build counts it.
Counted(c) == c \in Done /\ status[c] # Ok /\ ~fail_prereq[c]
Blamed == \E c \in Cmd : Counted(c)

\* Whenever a command was given up or failed there is something the exit code
\* tells of.
CauseInv ==
    /\ maxerr # 0
    /\ nfail > 0 \/ (\E c \in Done : fail_prereq[c]) => last_signal \/ Blamed
    /\ \A c \in Running : ~fail_prereq[c]
    /\ at = "built" => heap = {} /\ Running = {}

\* Once blamed, always blamed.
LEMMA BlameStays ==
    ASSUME \A d \in Done : status'[d] = status[d] /\ fail_prereq'[d] = fail_prereq[d],
           Done \subseteq Done', Blamed
    PROVE  Blamed'
BY DEF Blamed, Counted

LEMMA SettleCause ==
    ASSUME IInv, CauseInv, NEW c \in Cmd, SettleCmd(c)
    PROVE  CauseInv'
<1>1. /\ c \in heap /\ nprereq[c] = 0 /\ heap' = heap \ {c} /\ proc' = proc
      /\ AdvanceDependent(c, Outcome(c), Flags(c))
      /\ Outcome(c) \in {Ok, Failed} /\ Flags(c) \in [Cmd -> BOOLEAN]
      /\ \A d \in Cmd \ {c} : Flags(c)[d] = fail_prereq[d]
      /\ Flags(c)[c] = Prefail(c)
  BY SettleCmdFacts DEF IInv, TypeOK
<1>2. /\ Done' = Done \cup {c} /\ Running' = Running
      /\ c \notin Running /\ prior[c] \subseteq Done
      /\ status'[c] = Outcome(c) /\ fail_prereq'[c] = Prefail(c)
      /\ \A d \in Done : status'[d] = status[d]
      /\ \A d \in Done \cup Running : fail_prereq'[d] = fail_prereq[d]
  BY <1>1, SettleInv DEF IInv
<1>3. at = "loop" /\ UNCHANGED <<maxerr, last_signal, at>> /\ CountFailure(Outcome(c))
  BY DEF SettleCmd, Outcome
<1>4. Blamed => Blamed'
  BY <1>2, BlameStays
<1>5. Prefail(c) => last_signal \/ Blamed
  <2>1. CASE fail_prereq[c]
    <3>1. PICK p \in prior[c] \cap Done : status[p] # Ok
      BY <1>1, <2>1 DEF IInv, DagInv, PrereqsCounted
    <3>2. fail_prereq[p] => last_signal \/ Blamed
      BY <3>1 DEF CauseInv
    <3>3. ~fail_prereq[p] => Blamed
      BY <3>1 DEF Blamed, Counted, Done
    <3> QED
      BY <3>2, <3>3
  <2>2. nfail >= maxerr => nfail > 0
    <3>1. maxerr \in Nat /\ nfail \in Nat /\ maxerr # 0
      BY DEF CauseInv, IInv, TypeOK
    <3> QED
      BY <3>1
  <2> QED
    BY <2>1, <2>2 DEF Prefail, CauseInv
<1>6. ~Prefail(c) => nfail' = nfail
  BY <1>3 DEF CountFailure, Outcome
<1>7. ~Prefail(c) => ((\E d \in Done' : fail_prereq'[d]) => \E d \in Done : fail_prereq[d])
  BY <1>2
<1>8. nfail' > 0 \/ (\E d \in Done' : fail_prereq'[d]) => last_signal' \/ Blamed'
  <2>1. CASE Prefail(c)
    BY <1>3, <1>4, <1>5, <2>1
  <2>2. CASE ~Prefail(c)
    BY <1>3, <1>4, <1>6, <1>7, <2>2 DEF CauseInv
  <2> QED
    BY <2>1, <2>2
<1>9. \A d \in Running' : ~fail_prereq'[d]
  BY <1>2 DEF CauseInv
<1> QED
  BY <1>3, <1>8, <1>9 DEF CauseInv

LEMMA WaitCause ==
    ASSUME IInv, CauseInv, NEW c \in Cmd, WaitCmd(c)
    PROVE  CauseInv'
<1>1. at = "loop" /\ UNCHANGED <<maxerr, last_signal, at>> /\ CountFailure(ExitStatus(c))
  BY DEF WaitCmd
<1>2. /\ Done' = Done \cup {c} /\ Running' = Running \ {c}
      /\ c \in Running
      /\ status'[c] = ExitStatus(c)
      /\ \A d \in Done : status'[d] = status[d]
      /\ \A d \in Done \cup Running : fail_prereq'[d] = fail_prereq[d]
  BY ReapInv DEF WaitCmd, IInv
<1>3. ~fail_prereq'[c]
  BY <1>2 DEF CauseInv
<1>4. Blamed => Blamed'
  BY <1>2, BlameStays
<1>5. ExitStatus(c) # Ok => Blamed'
  BY <1>2, <1>3 DEF Blamed, Counted
<1>6. ExitStatus(c) = Ok => nfail' = nfail
  BY <1>1 DEF CountFailure
<1>7. (\E d \in Done' : fail_prereq'[d]) => \E d \in Done : fail_prereq[d]
  BY <1>2, <1>3
<1>8. nfail' > 0 \/ (\E d \in Done' : fail_prereq'[d]) => last_signal' \/ Blamed'
  BY <1>1, <1>4, <1>5, <1>6, <1>7 DEF CauseInv
<1>9. \A d \in Running' : ~fail_prereq'[d]
  BY <1>2 DEF CauseInv
<1> QED
  BY <1>1, <1>8, <1>9 DEF CauseInv

\* Steps that complete nothing.
LEMMA OtherCause ==
    ASSUME CauseInv, Done' = Done,
           UNCHANGED <<status, fail_prereq, maxerr, nfail>>,
           last_signal => last_signal',
           \A c \in Running' : ~fail_prereq[c],
           at' = "built" => heap' = {} /\ Running' = {}
    PROVE  CauseInv'
BY DEF CauseInv, Blamed, Counted

LEMMA NextCause ==
    ASSUME IInv, CauseInv, [Next]_vars
    PROVE  CauseInv'
<1>1. CASE UNCHANGED vars
  <2>1. Done' = Done /\ Running' = Running /\ heap' = heap
    BY <1>1, UnchangedInv DEF vars, dagvars, IInv
  <2> QED
    BY <1>1, <2>1, OtherCause DEF vars, dagvars, abtvars, CauseInv
<1>2. CASE SignalHandler
  <2>1. Done' = Done /\ Running' = Running /\ heap' = heap
    BY <1>2, UnchangedInv DEF SignalHandler, dagvars, IInv
  <2> QED
    BY <1>2, <2>1, OtherCause DEF SignalHandler, dagvars, CauseInv
<1>3. CASE LeaveLoop
  <2>1. Done' = Done /\ Running' = Running /\ heap' = heap
    BY <1>3, UnchangedInv DEF LeaveLoop, dagvars, IInv
  <2> QED
    BY <1>3, <2>1, OtherCause DEF LeaveLoop, dagvars, CauseInv
<1>4. ASSUME NEW c \in Cmd, StartCmd(c) PROVE CauseInv'
  <2>1. Done' = Done /\ Running' = Running \cup {c} /\ ~fail_prereq[c]
    BY <1>4, StartCmdFacts, ForkInv DEF IInv
  <2> QED
    BY <1>4, <2>1, OtherCause DEF StartCmd, Fork, abtvars, CauseInv
<1>5. ASSUME NEW c \in Cmd, ForkFails(c) PROVE CauseInv'
  <2>1. Done' = Done /\ Running' = Running
    BY <1>5, UnchangedInv DEF ForkFails, dagvars, IInv
  <2> QED
    BY <1>5, <2>1, OtherCause DEF ForkFails, dagvars, CauseInv
<1>6. ASSUME NEW c \in Cmd, at = "loop", ProcessExits(c), UNCHANGED abtvars PROVE CauseInv'
  <2>1. Done' = Done /\ Running' = Running
    BY <1>6, ExitsInv DEF IInv
  <2> QED
    BY <1>6, <2>1, OtherCause DEF ProcessExits, abtvars, CauseInv
<1> QED
  BY <1>1, <1>2, <1>3, <1>4, <1>5, <1>6, SettleCause, WaitCause DEF Next, Loop, Kernel

\* With a -maxerr of at least 1, abt's exit code is 0 for no build that left a
\* command undone or failed, however many commands were given up unreported
\* (Build_RunDag, Main_Build).
THEOREM ZeroMeansBuiltHolds ==
    ASSUME 0 \notin MaxErr
    PROVE  Spec => []ZeroMeansBuilt
<1>1. Init => CauseInv
  <2> SUFFICES ASSUME Init PROVE CauseInv
    OBVIOUS
  <2>1. Running = {}
    BY DEF Init, DagInit, Running
  <2>2. Done = {}
    BY <2>1 DEF Init, DagInit, Done
  <2> QED
    BY <2>1, <2>2 DEF Init, CauseInv
<1>2. IInv /\ CauseInv /\ [Next]_vars => CauseInv'
  BY NextCause
<1>3. IInv /\ CauseInv => ZeroMeansBuilt
  <2> SUFFICES ASSUME CauseInv, at # "loop", ExitCode = 0, NEW c \in Cmd
               PROVE  c \in Done /\ status[c] = Ok
    BY DEF ZeroMeansBuilt
  <2>1. /\ ~last_signal /\ at = "built"
        /\ \A d \in Cmd : status[d] # Ok => fail_prereq[d]
    BY DEF ExitCode
  <2>2. c \in Done
    BY <2>1 DEF CauseInv, Done
  <2>3. ~Blamed
    BY <2>1 DEF Blamed, Counted
  <2>4. ~fail_prereq[c]
    BY <2>1, <2>2, <2>3 DEF CauseInv
  <2> QED
    BY <2>1, <2>2, <2>4
<1> QED
  BY <1>1, <1>2, <1>3, InvHolds, PTL DEF Spec
-----------------------------------------------------------------------------
(* Failures and loops. *)

\* A command of abt leaves the heap unrun and failed only for one of the three
\* reasons prefail names, in any build.
THEOREM GivenUpForCauseHolds == Spec => GivenUpForCause
<1> DEFINE Reason(c) == \/ \E p \in prior[c] : status[p] # Ok
                        \/ last_signal
                        \/ nfail >= maxerr
           GivenUp(c) == c \in Done' /\ status'[c] # Ok
<1>1. ASSUME IInv, [Next]_vars, NEW c \in heap \ heap', GivenUp(c)
      PROVE  Reason(c)
  <2>1. CASE UNCHANGED heap
    BY <1>1, <2>1
  <2>2. ASSUME NEW d \in Cmd, StartCmd(d) PROVE Reason(c)
    <3>1. Done' = Done
      BY <1>1, <2>2, StartCmdFacts, ForkInv DEF IInv
    <3> QED
      BY <1>1, <3>1 DEF Done
  <2>3. ASSUME NEW d \in Cmd, SettleCmd(d) PROVE Reason(c)
    <3>1. /\ d \in heap /\ nprereq[d] = 0 /\ heap' = heap \ {d} /\ proc' = proc
          /\ AdvanceDependent(d, Outcome(d), Flags(d))
          /\ Outcome(d) \in {Ok, Failed} /\ Flags(d) \in [Cmd -> BOOLEAN]
          /\ \A e \in Cmd \ {d} : Flags(d)[e] = fail_prereq[e]
      BY <1>1, <2>3, SettleCmdFacts DEF IInv, TypeOK
    <3>2. c = d /\ status'[d] = Outcome(d)
      BY <1>1, <3>1, SettleInv DEF IInv
    <3>3. Prefail(c)
      BY <1>1, <3>2 DEF Outcome
    <3>4. fail_prereq[c] => \E p \in prior[c] : status[p] # Ok
      BY <1>1 DEF IInv, DagInv, PrereqsCounted
    <3> QED
      BY <3>3, <3>4 DEF Prefail
  <2> QED
    BY <1>1, <2>1, <2>2, <2>3
    DEF Next, Loop, Kernel, SignalHandler, LeaveLoop, ForkFails, WaitCmd, Reap,
        ProcessExits, vars, dagvars
<1>2. IInv /\ [Next]_vars => [\A c \in heap \ heap' : GivenUp(c) => Reason(c)]_vars
  BY <1>1
<1> QED
  BY <1>2, InvHolds, PTL DEF Spec, GivenUpForCause

\* The loops of a build are in the heap to the end, and what remains in the
\* heap when abt leaves its loop is one.
LoopInv ==
    /\ maxjobs # 0
    /\ LoopsWait
    /\ at = "built" => heap = {}
    /\ at = "dependency loop" => HasLoop

LEMMA InitLoop == Init => LoopInv
<1> SUFFICES ASSUME Init PROVE LoopInv
  OBVIOUS
<1>1. maxjobs # 0 /\ heap = Cmd /\ at = "loop"
  BY DagAssumption DEF Init, DagInit
<1> QED
  BY <1>1 DEF LoopInv, LoopsWait

\* Steps that take nothing from the heap, and leave the loop or do not.
LEMMA OtherLoop ==
    ASSUME LoopInv, UNCHANGED <<prior, maxjobs, heap>>, at' \in {at, "thrown"}
    PROVE  LoopInv'
<1>1. LoopsWait'
  BY DEF LoopInv, LoopsWait, IsLoop
<1>2. HasLoop' <=> HasLoop
  BY DEF HasLoop
<1> QED
  BY <1>1, <1>2 DEF LoopInv

LEMMA TakeLoop ==
    ASSUME IInv, LoopInv, at = "loop", UNCHANGED <<prior, maxjobs, at>>,
           NEW c \in heap, nprereq[c] = 0, heap' = heap \ {c}
    PROVE  LoopInv'
<1>1. LoopsWait'
  BY LoopsStay DEF LoopInv, IInv
<1> QED
  BY <1>1 DEF LoopInv

LEMMA NextLoop ==
    ASSUME IInv, LoopInv, [Next]_vars
    PROVE  LoopInv'
<1>1. CASE LeaveLoop
  <2>1. UNCHANGED <<prior, maxjobs, heap>> /\ LoopsWait'
    BY <1>1 DEF LeaveLoop, dagvars, LoopInv, LoopsWait, IsLoop
  <2>2. CASE heap = {}
    BY <1>1, <2>1, <2>2 DEF LeaveLoop, LoopInv
  <2>3. CASE heap # {}
    <3>1. Cardinality(Running) = 0
      BY <1>1, FS_EmptySet DEF LeaveLoop
    <3>2. Cardinality(Running) < maxjobs
      <4>1. maxjobs \in Nat /\ maxjobs # 0
        BY DEF LoopInv, IInv, DagInv, DagTypeOK
      <4> QED
        BY <3>1, <4>1
    <3>3. ~ \E c \in Cmd : FirstReady(c)
      BY <1>1, <3>2 DEF LeaveLoop, Startable, CanStart
    <3>4. HasLoop
      BY <1>1, <2>3, <3>3, StuckIsLoop DEF LeaveLoop, IInv
    <3>5. HasLoop' /\ at' = "dependency loop"
      BY <1>1, <2>1, <2>3, <3>4 DEF LeaveLoop, HasLoop
    <3> QED
      BY <2>1, <3>5 DEF LoopInv
  <2> QED
    BY <2>2, <2>3
<1>2. ASSUME NEW c \in Cmd, StartCmd(c) PROVE LoopInv'
  <2>1. c \in heap /\ nprereq[c] = 0 /\ Fork(c)
    BY <1>2, StartCmdFacts DEF IInv
  <2> QED
    BY <1>2, <2>1, TakeLoop DEF StartCmd, Fork, abtvars
<1>3. ASSUME NEW c \in Cmd, SettleCmd(c) PROVE LoopInv'
  <2>1. /\ c \in heap /\ nprereq[c] = 0 /\ heap' = heap \ {c}
        /\ AdvanceDependent(c, Outcome(c), Flags(c))
    BY <1>3, SettleCmdFacts DEF IInv, TypeOK
  <2> QED
    BY <1>3, <2>1, TakeLoop DEF SettleCmd, AdvanceDependent, dag
<1>4. CASE \/ UNCHANGED vars \/ SignalHandler \/ Kernel
           \/ \E c \in Cmd : ForkFails(c) \/ WaitCmd(c)
  BY <1>4, OtherLoop
  DEF vars, dagvars, abtvars, dag, SignalHandler, Kernel, ProcessExits, ForkFails,
      WaitCmd, Reap, AdvanceDependent
<1> QED
  BY <1>1, <1>2, <1>3, <1>4 DEF Next, Loop

\* abt reports "dependency loop" for every build with a loop in it that it
\* comes to the end of, and for no build without one, whatever failed or was
\* given up on the way (Main_Build).
THEOREM LoopReportedHolds == Spec => []LoopReported
<1>1. IInv /\ LoopInv /\ [Next]_vars => LoopInv'
  BY NextLoop
<1>2. IInv /\ LoopInv => LoopReported
  <2> SUFFICES ASSUME LoopInv, at = "built" PROVE ~HasLoop
    BY DEF LoopReported, LoopInv
  <2> QED
    BY DEF LoopInv, LoopsWait, HasLoop, IsLoop
<1> QED
  BY <1>1, <1>2, InitLoop, InvHolds, PTL DEF Spec
=============================================================================
