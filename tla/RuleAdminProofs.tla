--------------------------- MODULE RuleAdminProofs ---------------------------
(***************************************************************************)
(* Proofs about RuleAdmin, for every rule set, initial modes and bounds.   *)
(***************************************************************************)
EXTENDS RuleAdmin, TLAPS

\* What the three places have in common with the answers given.  Also a file
\* that was cut off, and an API that was started from it, has the acknowledged
\* modes for the rules that are left; only so does the first complete write
\* after the damage restore AckedModeDurable.
ModesAgree ==
  /\ file # Unreadable => \A r \in DOMAIN file \ unsure : file[r] = acked[r]
  /\ api = "up" => \A r \in DOMAIN memory \ unsure : memory[r] = acked[r]
  /\ ~damaged => /\ file # Unreadable /\ DOMAIN file = RuleId
                 /\ api = "up" => DOMAIN memory = RuleId

\* Every recorded outcome is that of the evaluator.
ScoredByEvaluator ==
  \A s \in scored : s.out = Evaluate(s.rules, AssembleRecord(s.in))

IInv == TypeOK /\ ModesAgree /\ ApiMatchesAnswers /\ ScoredByEvaluator

-----------------------------------------------------------------------------
\* A rule set is a function from some rules to modes.
LEMMA RuleSetIsFunction ==
  \A f : f \in RuleSet <=> /\ DOMAIN f \in SUBSET RuleId
                           /\ f \in [DOMAIN f -> Mode]
BY DEF RuleSet

\* The empty rule set.
LEMMA NoRulesType == NoRules \in RuleSet /\ DOMAIN NoRules = {}
BY RuleSetIsFunction DEF NoRules

\* Changing a mode leaves a rule set with the same rules.
LEMMA ChangedType ==
  ASSUME NEW r \in RuleId, memory \in RuleSet, r \in DOMAIN memory
  PROVE  /\ Changed(r) \in RuleSet
         /\ DOMAIN Changed(r) = DOMAIN memory
         /\ Changed(r)[r] = Other(memory[r])
         /\ \A q \in DOMAIN memory : q # r => Changed(r)[q] = memory[q]
BY RuleSetIsFunction DEF Changed, Other, Mode

\* A dump that was cut off: a part of the rules that lacks at least one, or
\* nothing that loads.
LEMMA CutOffType ==
  ASSUME NEW rules \in RuleSet, NEW f \in CutOff(rules), f # Unreadable
  PROVE  /\ f \in RuleSet
         /\ DOMAIN f \subseteq DOMAIN rules
         /\ \A q \in DOMAIN f : f[q] = rules[q]
<1>1. PICK S \in SUBSET DOMAIN rules : f = [q \in S |-> rules[q]]
  BY DEF CutOff
<1> QED
  BY <1>1, RuleSetIsFunction

-----------------------------------------------------------------------------
\* The deployed file, both processes down.
LEMMA InitIInv == Init => IInv
<1> SUFFICES ASSUME Init PROVE IInv
  OBVIOUS
<1>1. InitialMode \in RuleSet /\ InitialMode # Unreadable /\ DOMAIN InitialMode = RuleId
  BY AdminAssumption, UnreadableAssumption, RuleSetIsFunction
<1>2. changes \in 0 .. MaxChanges /\ crashes \in 0 .. MaxCrashes
  BY AdminAssumption DEF Init
<1>3. damaged \in BOOLEAN
  BY DEF Init
<1>4. TypeOK
  BY <1>1, <1>2, <1>3, NoRulesType, AdminAssumption DEF Init, TypeOK
<1> QED
  BY <1>1, <1>4 DEF Init, IInv, ModesAgree, ApiMatchesAnswers, ScoredByEvaluator

\* The API starts from the file.
LEMMA StartApiIInv == IInv /\ StartApi => IInv'
<1> SUFFICES ASSUME IInv, StartApi PROVE IInv'
  OBVIOUS
<1>1. TypeOK'
  BY DEF IInv, StartApi, TypeOK, engine
<1>2. ModesAgree'
  BY DEF IInv, StartApi, ModesAgree
<1> QED
  BY <1>1, <1>2 DEF IInv, StartApi, ApiMatchesAnswers, ScoredByEvaluator, engine

\* A change that is answered with 200.
LEMMA ModeChangedIInv ==
  ASSUME IInv, NEW r \in RuleId, ModeChanged(r)
  PROVE  IInv'
<1>t. memory \in RuleSet /\ r \in DOMAIN memory /\ acked \in [RuleId -> Mode]
      /\ reported = memory /\ unsure \subseteq RuleId
  BY DEF IInv, TypeOK, ApiMatchesAnswers, ModeChanged, Requested
<1>c. /\ Changed(r) \in RuleSet
      /\ DOMAIN Changed(r) = DOMAIN memory
      /\ Changed(r)[r] = Other(memory[r])
      /\ \A q \in DOMAIN memory : q # r => Changed(r)[q] = memory[q]
  BY <1>t, ChangedType
<1>m. memory' = Changed(r) /\ file' = Changed(r) /\ Changed(r) # Unreadable
      /\ Changed(r)[r] \in Mode /\ DOMAIN memory \subseteq RuleId
  BY <1>t, <1>c, UnreadableAssumption, RuleSetIsFunction DEF ModeChanged
<1>r. reported' = Changed(r)
  BY <1>t, <1>m DEF ModeChanged, Changed
<1>a. acked' \in [RuleId -> Mode] /\ acked'[r] = Changed(r)[r]
      /\ \A q \in RuleId : q # r => acked'[q] = acked[q]
  BY <1>t, <1>m DEF ModeChanged
<1>n. changes' \in 0 .. MaxChanges
  BY AdminAssumption DEF IInv, TypeOK, ModeChanged, Requested
<1>b. damaged' \in BOOLEAN
  BY DEF IInv, TypeOK, ModeChanged
<1>1. TypeOK'
  BY <1>n, <1>b, <1>m, <1>c, <1>r, <1>a, <1>t DEF IInv, TypeOK, ModeChanged, Requested, engine
<1>2. ModesAgree'
  <2>1. \A q \in DOMAIN Changed(r) \ unsure' : Changed(r)[q] = acked'[q]
    BY <1>a, <1>c, <1>m DEF IInv, ModesAgree, ModeChanged, Requested
  <2>2. ~damaged' => DOMAIN Changed(r) = RuleId
    BY <1>c DEF IInv, ModesAgree, ModeChanged, Requested
  <2> QED
    BY <2>1, <2>2, <1>m DEF ModesAgree
<1> QED
  BY <1>1, <1>2, <1>m, <1>r DEF IInv, ModeChanged, ApiMatchesAnswers, ScoredByEvaluator, engine

\* What a write that did not finish in order leaves in the file.
LEMMA WriteAgrees ==
  ASSUME IInv, NEW r \in RuleId, Requested(r),
         file' \in {file, Changed(r)} \cup CutOff(Changed(r)),
         damaged' = (damaged \/ file' \in CutOff(Changed(r))),
         unsure' = unsure \cup {r}, UNCHANGED acked
  PROVE  /\ file' \in RuleSet \cup {Unreadable}
         /\ file' # Unreadable => \A q \in DOMAIN file' \ unsure' : file'[q] = acked'[q]
         /\ ~damaged' => file' # Unreadable /\ DOMAIN file' = RuleId /\ ~damaged
<1>t. memory \in RuleSet /\ r \in DOMAIN memory /\ file \in RuleSet \cup {Unreadable}
      /\ api = "up"
  BY DEF IInv, TypeOK, Requested
<1>c. /\ Changed(r) \in RuleSet
      /\ DOMAIN Changed(r) = DOMAIN memory
      /\ \A q \in DOMAIN memory : q # r => Changed(r)[q] = memory[q]
  BY <1>t, ChangedType
<1>d. \A q \in DOMAIN memory \ unsure : memory[q] = acked[q]
  BY <1>t DEF IInv, ModesAgree
<1>1. CASE file' = file
  BY <1>1, <1>t DEF IInv, ModesAgree
<1>2. CASE file' = Changed(r)
  BY <1>2, <1>c, <1>d, <1>t, UnreadableAssumption DEF IInv, ModesAgree
<1>3. CASE file' \in CutOff(Changed(r)) /\ file' # Unreadable
  <2>1. /\ file' \in RuleSet
        /\ DOMAIN file' \subseteq DOMAIN memory
        /\ \A q \in DOMAIN file' : file'[q] = Changed(r)[q]
    BY <1>3, <1>c, CutOffType
  <2> QED
    BY <2>1, <1>3, <1>c, <1>d
<1>4. CASE file' \in CutOff(Changed(r)) /\ file' = Unreadable
  BY <1>4
<1> QED
  BY <1>1, <1>2, <1>3, <1>4

\* A change that is answered with 500.
LEMMA ModeChangeFailsIInv ==
  ASSUME IInv, NEW r \in RuleId, ModeChangeFails(r)
  PROVE  IInv'
<1>w. /\ file' \in RuleSet \cup {Unreadable}
      /\ file' # Unreadable => \A q \in DOMAIN file' \ unsure' : file'[q] = acked'[q]
      /\ ~damaged' => file' # Unreadable /\ DOMAIN file' = RuleId /\ ~damaged
  BY WriteAgrees DEF ModeChangeFails
<1>n. changes' \in 0 .. MaxChanges
  BY AdminAssumption DEF IInv, TypeOK, ModeChangeFails, Requested
<1>b. damaged' \in BOOLEAN
  BY DEF IInv, TypeOK, ModeChangeFails
<1>1. TypeOK'
  BY <1>n, <1>b, <1>w DEF IInv, TypeOK, ModeChangeFails, Requested, engine
<1>2. ModesAgree'
  BY <1>w DEF IInv, ModesAgree, ModeChangeFails
<1> QED
  BY <1>1, <1>2 DEF IInv, ModeChangeFails, ApiMatchesAnswers, ScoredByEvaluator, engine

\* A crash of the API during the write.
LEMMA CrashInWriteIInv ==
  ASSUME IInv, NEW r \in RuleId, CrashInWrite(r)
  PROVE  IInv'
<1>w. /\ file' \in RuleSet \cup {Unreadable}
      /\ file' # Unreadable => \A q \in DOMAIN file' \ unsure' : file'[q] = acked'[q]
      /\ ~damaged' => file' # Unreadable /\ DOMAIN file' = RuleId /\ ~damaged
  <2>1. file' \in {file, Changed(r)} \cup CutOff(Changed(r))
    BY DEF CrashInWrite
  <2> QED
    BY <2>1, WriteAgrees DEF CrashInWrite
<1>n. changes' \in 0 .. MaxChanges /\ crashes' \in 0 .. MaxCrashes
  BY AdminAssumption DEF IInv, TypeOK, CrashInWrite, Requested
<1>b. damaged' \in BOOLEAN
  BY DEF IInv, TypeOK, CrashInWrite
<1>1. TypeOK'
  BY <1>n, <1>b, <1>w, NoRulesType DEF IInv, TypeOK, CrashInWrite, Requested, engine
<1>2. ModesAgree'
  BY <1>w DEF ModesAgree, CrashInWrite
<1> QED
  BY <1>1, <1>2 DEF IInv, CrashInWrite, ApiMatchesAnswers, ScoredByEvaluator, engine

\* The API stops between two requests.
LEMMA StopApiIInv == IInv /\ StopApi => IInv'
<1> SUFFICES ASSUME IInv, StopApi PROVE IInv'
  OBVIOUS
<1>n. crashes' \in 0 .. MaxCrashes
  BY AdminAssumption DEF IInv, TypeOK, StopApi
<1>b. damaged' \in BOOLEAN
  BY DEF IInv, TypeOK, StopApi
<1>1. TypeOK'
  BY <1>n, <1>b, NoRulesType DEF IInv, TypeOK, StopApi, engine
<1> QED
  BY <1>1 DEF IInv, StopApi, ModesAgree, ApiMatchesAnswers, ScoredByEvaluator, engine

\* The steps of the job touch neither the file nor the API.
LEMMA JobIInv ==
  ASSUME IInv,
         \/ StartJob
         \/ \E r \in RuleId : StartJobDuringWrite(r)
         \/ StopJob
         \/ \E in \in Inputs : Score(in)
  PROVE  IInv'
<1>1. UNCHANGED admin
  BY DEF StartJob, StartJobDuringWrite, StopJob, Score
<1>2. running' \in RuleSet
  <2>1. ASSUME NEW r \in RuleId, StartJobDuringWrite(r)
        PROVE  running' \in RuleSet
    <3>1. memory \in RuleSet /\ r \in DOMAIN memory
      BY <2>1 DEF IInv, TypeOK, StartJobDuringWrite
    <3>2. Changed(r) \in RuleSet
      BY <3>1, ChangedType
    <3> QED
      BY <2>1, <3>2, CutOffType DEF StartJobDuringWrite
  <2> QED
    BY <2>1, NoRulesType DEF IInv, TypeOK, StartJob, StopJob, Score
<1>3. job' \in {"up", "down"} /\ crashes' \in 0 .. MaxCrashes
  BY AdminAssumption DEF IInv, TypeOK, StartJob, StartJobDuringWrite, StopJob, Score
<1>4. /\ \A s \in scored' : s.rules \in RuleSet /\ s.in \in Inputs
      /\ \A s \in scored' : s.out = Evaluate(s.rules, AssembleRecord(s.in))
  <2>1. ASSUME NEW in \in Inputs, Score(in)
        PROVE  \A s \in scored' : /\ s.rules \in RuleSet /\ s.in \in Inputs
                                  /\ s.out = Evaluate(s.rules, AssembleRecord(s.in))
    BY <2>1 DEF IInv, TypeOK, Score
  <2>2. CASE UNCHANGED scored
    BY <2>2 DEF IInv, TypeOK, ScoredByEvaluator
  <2> QED
    BY <2>1, <2>2 DEF StartJob, StartJobDuringWrite, StopJob
<1>5. TypeOK'
  BY <1>1, <1>2, <1>3, <1>4 DEF IInv, TypeOK, admin
<1> QED
  BY <1>1, <1>4, <1>5 DEF IInv, ModesAgree, ApiMatchesAnswers, ScoredByEvaluator, admin

\* The inductive invariant.
THEOREM Invariance == Spec => []IInv
<1>1. ASSUME IInv, [Next]_vars
      PROVE  IInv'
  <2>1. CASE UNCHANGED vars
    BY <1>1, <2>1 DEF IInv, TypeOK, ModesAgree, ApiMatchesAnswers, ScoredByEvaluator,
                      vars, admin, engine
  <2> QED
    BY <1>1, <2>1, StartApiIInv, ModeChangedIInv, ModeChangeFailsIInv, CrashInWriteIInv,
       StopApiIInv, JobIInv DEF Next
<1> QED
  BY <1>1, InitIInv, PTL DEF Spec

\* Rule sets with nothing but the two modes are all that the file, the API and
\* the job ever hold.
THEOREM TypeCorrect == Spec => []TypeOK
<1>1. IInv => TypeOK
  BY DEF IInv
<1> QED
  BY <1>1, Invariance, PTL

\* A mode change answered with 200 is durable: it survives restarts, crashes and
\* failed requests for other rules, until a dump is cut off (management_api.py
\* 264-296, 356-496).
THEOREM AckedIsDurable == Spec => []AckedModeDurable
<1>1. IInv => AckedModeDurable
  BY RuleSetIsFunction, UnreadableAssumption
     DEF IInv, TypeOK, ModesAgree, AckedModeDurable
<1> QED
  BY <1>1, Invariance, PTL

\* The rollback of a failed mode change is exact (management_api.py 356-496).
THEOREM RollbackIsExact == Spec => []ApiMatchesAnswers
<1>1. IInv => ApiMatchesAnswers
  BY DEF IInv
<1> QED
  BY <1>1, Invariance, PTL

-----------------------------------------------------------------------------
\* The outcome of an evaluation in which no rule raises.
LEMMA EvaluateOutcome ==
  ASSUME NEW rules, NEW txn, ~Raises(rules, txn)
  PROVE  LET active == Determining(rules, txn)
             severities == {Rule[r].severity : r \in active}
             top == CHOOSE s \in severities : \A t \in severities : s >= t
         IN  /\ Evaluate(rules, txn).alert = (active # {})
             /\ Evaluate(rules, txn).decision =
                  IF ~(active # {}) THEN "ALLOW"
                  ELSE IF top >= high THEN "BLOCK" ELSE "FLAG"
BY DEF Evaluate, BuildFraudDecision, Dispatch

\* An alert goes with exactly the decisions but ALLOW, also when a rule raises
\* (job_extension.py 35-75).
LEMMA AlertsMatchDecisions ==
  ASSUME NEW rules, NEW txn
  PROVE  Evaluate(rules, txn).alert <=> Evaluate(rules, txn).decision # "ALLOW"
<1>1. CASE Raises(rules, txn)
  BY <1>1 DEF Evaluate
<1>2. CASE ~Raises(rules, txn) /\ Determining(rules, txn) = {}
  BY <1>2, EvaluateOutcome
<1>3. CASE ~Raises(rules, txn) /\ Determining(rules, txn) # {}
  <2>1. Evaluate(rules, txn).alert = (Determining(rules, txn) # {})
    BY <1>3, EvaluateOutcome
  <2>2. Evaluate(rules, txn).decision \in {"BLOCK", "FLAG"}
    BY <1>3, EvaluateOutcome
  <2> QED
    BY <1>3, <2>1, <2>2
<1> QED
  BY <1>1, <1>2, <1>3

\* A shadow rule changes neither the decision nor the alert, whatever matches,
\* as long as no rule raises (evaluator.py 42-120, job_extension.py 35-75).
THEOREM ShadowIsSilent == Spec => []ShadowNeverInterferes
<1>1. ASSUME NEW rules \in RuleSet, NEW in \in Inputs, ~Raises(rules, AssembleRecord(in))
      PROVE  LET active == {r \in DOMAIN rules : rules[r] = "active"}
                 alone  == Evaluate([r \in active |-> "active"], AssembleRecord(in))
             IN  /\ Evaluate(rules, AssembleRecord(in)).decision = alone.decision
                 /\ Evaluate(rules, AssembleRecord(in)).alert = alone.alert
  <2> DEFINE txn == AssembleRecord(in)
             only == [r \in {q \in DOMAIN rules : rules[q] = "active"} |-> "active"]
  <2> HIDE DEF txn, only
  <2>1. ~Raises(rules, txn)
    BY <1>1 DEF txn
  <2>2. DOMAIN rules \subseteq RuleId
    BY RuleSetIsFunction
  <2>3. DOMAIN only = {q \in DOMAIN rules : rules[q] = "active"}
        /\ \A r \in DOMAIN only : only[r] = "active"
    BY DEF only
  <2>4. ~Raises(rules, txn) /\ ~Raises(only, txn)
    BY <2>1, <2>2, <2>3 DEF Raises, Enabled
  <2>5. Determining(rules, txn) = Determining(only, txn)
    BY <2>3 DEF Determining, Matched, Enabled
  <2>6. /\ Evaluate(rules, txn).decision = Evaluate(only, txn).decision
        /\ Evaluate(rules, txn).alert = Evaluate(only, txn).alert
    BY <2>4, <2>5, EvaluateOutcome
  <2> QED
    BY <2>6 DEF txn, only
<1>2. IInv => ShadowNeverInterferes
  BY <1>1 DEF IInv, TypeOK, ScoredByEvaluator, ShadowNeverInterferes
<1> QED
  BY <1>2, Invariance, PTL

\* A set of severities has a greatest one.
LEMMA GreatestSeverity ==
  ASSUME NEW S \in SUBSET (low .. critical), S # {}
  PROVE  LET top == CHOOSE s \in S : \A t \in S : s >= t
         IN  top \in S /\ \A t \in S : top >= t
<1>1. \E s \in S : \A t \in S : s >= t
  <2>1. low = 0 /\ critical = 3
    BY DEF low, critical
  <2>2. CASE 3 \in S
    BY <2>1, <2>2
  <2>3. CASE 3 \notin S /\ 2 \in S
    BY <2>1, <2>3
  <2>4. CASE 3 \notin S /\ 2 \notin S /\ 1 \in S
    BY <2>1, <2>4
  <2>5. CASE 3 \notin S /\ 2 \notin S /\ 1 \notin S
    <3>1. \A s \in S : s = 0
      BY <2>1, <2>5
    <3>2. PICK s \in S : TRUE
      OBVIOUS
    <3>3. \A t \in S : s >= t
      BY <3>1
    <3> QED
      BY <3>3
  <2> QED
    BY <2>2, <2>3, <2>4, <2>5
<1> QED
  BY <1>1

\* The decision by the active rules that matched.
LEMMA DecisionOfMatches ==
  ASSUME NEW rules, DOMAIN rules \subseteq RuleId, NEW txn, ~Raises(rules, txn)
  PROVE  Evaluate(rules, txn).decision =
           IF \E r \in Determining(rules, txn) : Rule[r].severity >= high THEN "BLOCK"
           ELSE IF Determining(rules, txn) # {} THEN "FLAG" ELSE "ALLOW"
<1> DEFINE active == Determining(rules, txn)
           severities == {Rule[r].severity : r \in active}
           top == CHOOSE s \in severities : \A t \in severities : s >= t
<1>1. Evaluate(rules, txn).decision =
        IF ~(active # {}) THEN "ALLOW" ELSE IF top >= high THEN "BLOCK" ELSE "FLAG"
  BY EvaluateOutcome
<1>2. active \subseteq RuleId
  BY DEF Determining, Matched, Enabled
<1>3. severities \in SUBSET (low .. critical)
  BY <1>2, RuleAssumption
<1> HIDE DEF active
<1>4. CASE active = {}
  BY <1>1, <1>4 DEF active
<1>5. CASE active # {}
  <2>1. severities # {}
    BY <1>5
  <2> HIDE DEF severities
  <2>2. top \in severities /\ \A t \in severities : top >= t
    BY <2>1, <1>3, GreatestSeverity
  <2> HIDE DEF top
  <2>3. top >= high <=> \E r \in active : Rule[r].severity >= high
    BY <2>2, <1>3 DEF severities, low, high, critical
  <2> QED
    BY <1>1, <1>5, <2>3 DEF active
<1> QED
  BY <1>4, <1>5

\* The decision is the strictest that one of the rules makes by itself: no rule
\* suppresses another, as long as none raises; and the alert goes with the decision in
\* any case (evaluator.py 42-120, job_extension.py 35-75, 172-217).
THEOREM StrictestDecides == Spec => []StrictestRuleWins
<1> DEFINE Alone(rules, in, r) == Evaluate([q \in {r} |-> rules[q]], AssembleRecord(in)).decision
           Some(rules, in, d) == \E r \in DOMAIN rules : Alone(rules, in, r) = d
           Strictest(rules, in) ==
             Evaluate(rules, AssembleRecord(in)).decision =
               IF Some(rules, in, "BLOCK") THEN "BLOCK"
               ELSE IF Some(rules, in, "FLAG") THEN "FLAG" ELSE "ALLOW"
<1>1. ASSUME NEW rules \in RuleSet, NEW in \in Inputs, ~Raises(rules, AssembleRecord(in))
      PROVE  Strictest(rules, in)
  <2> DEFINE txn == AssembleRecord(in)
             one(r) == [q \in {r} |-> rules[q]]
             active == Determining(rules, txn)
  <2> HIDE DEF txn
  <2>1. ~Raises(rules, txn)
    BY <1>1 DEF txn
  <2>2. DOMAIN rules \subseteq RuleId
    BY RuleSetIsFunction
  <2>3. active \subseteq DOMAIN rules
    BY DEF Determining, Matched, Enabled
  <2>4. ASSUME NEW r \in DOMAIN rules
        PROVE  Evaluate(one(r), txn).decision =
                 IF r \in active /\ Rule[r].severity >= high THEN "BLOCK"
                 ELSE IF r \in active THEN "FLAG" ELSE "ALLOW"
    <3>1. DOMAIN one(r) = {r} /\ one(r)[r] = rules[r]
      OBVIOUS
    <3>2. ~Raises(one(r), txn) /\ DOMAIN one(r) \subseteq RuleId
      BY <2>1, <2>2, <3>1 DEF Raises, Enabled
    <3>3. Determining(one(r), txn) = active \cap {r}
      BY <3>1 DEF Determining, Matched, Enabled
    <3> HIDE DEF one, active
    <3> QED
      BY <3>2, <3>3, DecisionOfMatches
  <2>6. Evaluate(rules, txn).decision =
          IF \E r \in active : Rule[r].severity >= high THEN "BLOCK"
          ELSE IF active # {} THEN "FLAG" ELSE "ALLOW"
    BY <2>1, <2>2, DecisionOfMatches
  <2> HIDE DEF active, one
  <2>7. (\E r \in DOMAIN rules : Evaluate(one(r), txn).decision = "BLOCK")
          <=> \E r \in active : Rule[r].severity >= high
    BY <2>3, <2>4
  <2>8. ~(\E r \in active : Rule[r].severity >= high) =>
          ((\E r \in DOMAIN rules : Evaluate(one(r), txn).decision = "FLAG") <=> active # {})
    BY <2>3, <2>4
  <2>9. Evaluate(rules, txn).decision =
          IF \E r \in DOMAIN rules : Evaluate(one(r), txn).decision = "BLOCK" THEN "BLOCK"
          ELSE IF \E r \in DOMAIN rules : Evaluate(one(r), txn).decision = "FLAG"
            THEN "FLAG" ELSE "ALLOW"
    BY <2>6, <2>7, <2>8
  <2> QED
    BY <2>9 DEF txn, one
<1>2. IInv => StrictestRuleWins
  <2> SUFFICES ASSUME IInv, NEW s \in scored
               PROVE  /\ s.out.alert <=> s.out.decision # "ALLOW"
                      /\ ~Raises(s.rules, AssembleRecord(s.in))
                           => s.out.decision =
                                IF Some(s.rules, s.in, "BLOCK") THEN "BLOCK"
                                ELSE IF Some(s.rules, s.in, "FLAG") THEN "FLAG" ELSE "ALLOW"
    BY DEF StrictestRuleWins
  <2> HIDE DEF Strictest
  <2>1. s.rules \in RuleSet /\ s.in \in Inputs
    BY DEF IInv, TypeOK
  <2>2. s.out = Evaluate(s.rules, AssembleRecord(s.in))
    BY DEF IInv, ScoredByEvaluator
  <2>3. s.out.alert <=> s.out.decision # "ALLOW"
    BY <2>2, AlertsMatchDecisions
  <2>4. ~Raises(s.rules, AssembleRecord(s.in)) => Strictest(s.rules, s.in)
    BY <1>1, <2>1
  <2> QED
    BY <2>2, <2>3, <2>4 DEF Strictest
<1> QED
  BY <1>2, Invariance, PTL
=============================================================================
