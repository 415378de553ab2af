--------------------------- MODULE MqBridgeProofs ---------------------------
(***************************************************************************)
(* No message is lost, for every number of messages and runs, every batch   *)
(* size, limit and option: the inductive invariant and the theorems that    *)
(* follow from it.                                                          *)
(***************************************************************************)
EXTENDS MqBridge, FiniteSetTheorems, SequenceTheorems, TLAPS

\* The command line does not change.
LEMMA OptionsStay == ASSUME [Next]_vars PROVE options' = options
BY DEF Next, vars

\* A batch has a size.
LEMMA SizeType == ASSUME NEW S \in SUBSET Msgs PROVE Cardinality(S) \in Nat
BY MsgsAssumption, FS_Subset, FS_CardinalityType

\* Resetting a run to its initial local state keeps the types.
LEMMA EndRunType ==
  ASSUME TypeOK, NEW r \in Runs, EndRun(r)
  PROVE  /\ pc' \in [Runs -> PC] /\ attempt' \in [Runs -> 1..MaxRetries]
         /\ consumer' \in [Runs -> 0..MaxRetries]
         /\ pending' \in [Runs -> Seq(Token)]
         /\ batch' \in [Runs -> SUBSET Msgs] /\ todo' \in [Runs -> SUBSET Msgs]
         /\ drained' \in [Runs -> Nat] /\ pkg' \in [Runs -> SUBSET Msgs]
         /\ staged' \in [Runs -> SUBSET Msgs] /\ workdir' \in [Runs -> SUBSET Msgs]
<1>1. <<>> \in Seq(Token)
  OBVIOUS
<1> QED
  BY <1>1 DEF TypeOK, EndRun, Goto, PC, MaxRetries, None

\* Giving the leases of a run up, by a nack or by losing the connection.
LEMMA HandBackType ==
  ASSUME TypeOK, NEW r \in Runs, HandBack(r) \/ DropLeases(r)
  PROVE  /\ sent' \in SUBSET Msgs /\ ready' \in SUBSET Msgs
         /\ expiring' \in SUBSET Msgs /\ gone' \in SUBSET Msgs
         /\ held' \in [Runs -> SUBSET Msgs]
BY DEF TypeOK, HandBack, DropLeases

\* Merging a package keeps the row counts.
LEMMA MergedType ==
  ASSUME NEW t \in [Msgs -> Nat], NEW p \in SUBSET Msgs PROVE Merged(t, p) \in [Msgs -> Nat]
BY DEF Merged

\* An injected fault stays within its bound.
LEMMA FailType == ASSUME TypeOK, Fail PROVE failures' \in 0..MaxFailures
BY BoundsAssumption DEF TypeOK, Fail

\* Every variable keeps its type: tokens are sets of messages tagged with the
\* attempt whose consumer handed them out.
THEOREM TypeCorrect == Spec => []TypeOK
<1>1. Init => TypeOK
  BY BoundsAssumption DEF Init, TypeOK, PC, Token, MaxRetries, None
<1>2. TypeOK /\ [Next]_vars => TypeOK'
  <2> SUFFICES ASSUME TypeOK, [Next]_vars PROVE TypeOK'
    OBVIOUS
  <2>0. options' = options /\ options \in Options
    BY OptionsStay DEF TypeOK
  <2> USE BoundsAssumption, <2>0 DEF SingleFile, Databricks, TypeOK, brokerVars, destVars, readerVars, sourceVars, Goto, PC
  <2>1. ASSUME NEW m \in Msgs, Publish(m) \/ Redeliver(m) PROVE TypeOK'
    BY <2>1 DEF Publish, Redeliver
  <2>2. ASSUME NEW r \in Runs, StartRun(r) \/ LoadPendingPackage(r) \/ DecodeFails(r)
        PROVE  TypeOK'
    BY <2>2 DEF StartRun, LoadPendingPackage, DecodeFails
  <2>3. ASSUME NEW r \in Runs, OpenConsumer(r) PROVE TypeOK'
    BY <2>3 DEF OpenConsumer, DropLeases, MaxRetries
  <2>4. ASSUME NEW r \in Runs, Poll(r) PROVE TypeOK'
    BY <2>4 DEF Poll
  <2>5. ASSUME NEW r \in Runs, YieldMessage(r) PROVE TypeOK'
    BY <2>5 DEF YieldMessage
  <2>6. ASSUME NEW r \in Runs, RecordBatch(r) PROVE TypeOK'
    <3>1. Cardinality(batch[r]) \in Nat
      BY SizeType
    <3>2. [msgs |-> batch[r], of |-> consumer[r]] \in Token
      BY DEF Token
    <3>3. Append(pending[r], [msgs |-> batch[r], of |-> consumer[r]]) \in Seq(Token)
      BY <3>2, AppendProperties
    <3> QED
      BY <2>6, <3>1, <3>3 DEF RecordBatch
  <2>7. ASSUME NEW r \in Runs, FinishExtract(r) PROVE TypeOK'
    BY <2>7 DEF FinishExtract, Fail
  <2>8. ASSUME NEW r \in Runs, Load(r) PROVE TypeOK'
    <3>0. \/ table' = table /\ published' = published
          \/ table' = Merged(table, workdir[r]) /\ published' = published \cup workdir[r]
      BY <2>8, Zenon DEF Load
    <3>1. Merged(table, workdir[r]) \in [Msgs -> Nat]
      BY MergedType
    <3>5. table' \in [Msgs -> Nat] /\ published' \in SUBSET Msgs
      BY <3>0, <3>1
    <3>2. staged' \in [Runs -> SUBSET Msgs]
      BY <2>8 DEF Load
    <3>3. workdir' \in [Runs -> SUBSET Msgs] /\ pc' \in [Runs -> PC]
      BY <2>8 DEF Load
    <3>4. UNCHANGED <<brokerVars, readerVars, sourceVars, attempt, failures>>
      BY <2>8 DEF Load
    <3> QED
      BY <3>2, <3>3, <3>4, <3>5
  <2>9. ASSUME NEW r \in Runs, DestinationPostLoad(r) PROVE TypeOK'
    <3>0. \/ table' = table /\ published' = published
          \/ /\ table' = Merged([m \in Msgs |-> 0], staged[r])
             /\ published' = published \cup staged[r]
      BY <2>9, Zenon DEF DestinationPostLoad
    <3>1. [m \in Msgs |-> 0] \in [Msgs -> Nat]
      OBVIOUS
    <3>3. Merged([m \in Msgs |-> 0], staged[r]) \in [Msgs -> Nat]
      BY <3>1, MergedType
    <3>2. table' \in [Msgs -> Nat] /\ published' \in SUBSET Msgs
      BY <3>0, <3>3
    <3> QED
      BY <2>9, <3>2 DEF DestinationPostLoad
  <2>10. ASSUME NEW r \in Runs, AckBatch(r) PROVE TypeOK'
    <3>1. Tail(pending[r]) \in Seq(Token) /\ Head(pending[r]) \in Token
      BY <2>10, HeadTailProperties DEF AckBatch
    <3>2. Head(pending[r]).msgs \subseteq Msgs
      BY <3>1 DEF Token
    <3> QED
      BY <2>10, <3>1, <3>2 DEF AckBatch
  <2>11. ASSUME NEW r \in Runs, NackAndClose(r) \/ Release(r) PROVE TypeOK'
    <3>1. EndRun(r) /\ (HandBack(r) \/ DropLeases(r)) /\ UNCHANGED <<destVars, failures>>
      BY <2>11 DEF NackAndClose, Release
    <3> QED
      BY ONLY TypeOK, <2>0, <3>1, EndRunType, HandBackType DEF TypeOK, destVars
  <2>12. ASSUME NEW r \in Runs, AckFails(r) \/ Crash(r) PROVE TypeOK'
    <3>1. EndRun(r) /\ (HandBack(r) \/ DropLeases(r)) /\ UNCHANGED destVars /\ Fail
      BY <2>12 DEF AckFails, Crash
    <3> QED
      BY ONLY TypeOK, <2>0, <3>1, EndRunType, HandBackType, FailType DEF TypeOK, destVars
  <2>13. ASSUME NEW r \in Runs, NEW m \in Msgs, LeaseTimeout(r, m) PROVE TypeOK'
    BY <2>13, FailType DEF LeaseTimeout
  <2>14. ASSUME NEW r \in Runs, LoadFails(r) PROVE TypeOK'
    <3>1. PICK part \in SUBSET workdir[r], keep \in BOOLEAN :
            /\ \/ table' = table /\ published' = published
               \/ table' = Merged(table, part) /\ published' = published \cup part
            /\ workdir' = workdir \/ workdir' = [workdir EXCEPT ![r] = {}]
      BY <2>14, Zenon DEF LoadFails
    <3>6. Merged(table, part) \in [Msgs -> Nat]
      BY MergedType
    <3>2. table' \in [Msgs -> Nat] /\ published' \in SUBSET Msgs
      BY <3>1, <3>6
    <3>3. workdir' \in [Runs -> SUBSET Msgs]
      BY <3>1
    <3>4. failures' \in 0..MaxFailures
      BY <2>14, FailType DEF LoadFails
    <3>8. \/ /\ attempt[r] < MaxRetries
             /\ attempt' = [attempt EXCEPT ![r] = @ + 1]
             /\ pc' = [pc EXCEPT ![r] = "run"]
          \/ attempt' = attempt /\ pc' = [pc EXCEPT ![r] = "release"]
      BY <2>14, Zenon DEF LoadFails
    <3>5. attempt' \in [Runs -> 1..MaxRetries]
      <4>1. attempt[r] \in 1..MaxRetries /\ MaxRetries = 3
        BY DEF MaxRetries
      <4>2. attempt[r] < MaxRetries => attempt[r] + 1 \in 1..MaxRetries
        BY <4>1
      <4> QED
        BY <3>8, <4>2
    <3>9. pc' \in [Runs -> PC]
      BY <3>8
    <3>7. UNCHANGED <<brokerVars, readerVars, sourceVars, staged>>
      BY <2>14 DEF LoadFails
    <3> QED
      BY <3>2, <3>3, <3>4, <3>5, <3>7, <3>9
  <2>15. ASSUME NEW r \in Runs, DestinationPostLoadFails(r) \/ Interrupt(r) PROVE TypeOK'
    BY <2>15, FailType DEF DestinationPostLoadFails, Interrupt
  <2>16. CASE UNCHANGED vars
    BY <2>16 DEF vars
  <2> HIDE DEF SingleFile, Databricks, TypeOK, brokerVars, destVars, readerVars, sourceVars, Goto, PC
  <2> QED
    BY ONLY [Next]_vars, <2>1, <2>2, <2>3, <2>4, <2>5, <2>6, <2>7, <2>8, <2>9, <2>10, <2>11, <2>12,
       <2>13, <2>14, <2>15, <2>16 DEF Next, Step, Fault
<1> QED
  BY <1>1, <1>2, PTL DEF Spec

-----------------------------------------------------------------------------
\* What a run has secured stays secured while other runs work: they only add to
\* what is published, and only take from the run's leases what they acknowledge.
LEMMA Frame ==
  ASSUME NEW q \in Runs, TokensSecuredIn(q), published \subseteq published',
         pc'[q] = pc[q], attempt'[q] = attempt[q], consumer'[q] = consumer[q],
         pending'[q] = pending[q], batch'[q] = batch[q], todo'[q] = todo[q],
         pkg'[q] = pkg[q], staged'[q] = staged[q], workdir'[q] = workdir[q],
         held'[q] \subseteq held[q], options' = options
  PROVE  TokensSecuredIn(q)'
BY DEF TokensSecuredIn, Secured, SingleFile

\* A run numbers its attempts and the consumers they opened.
LEMMA AttemptType ==
  ASSUME TypeOK, NEW r \in Runs
  PROVE  /\ attempt[r] \in Nat /\ consumer[r] \in Nat
         /\ \A i \in DOMAIN pending[r] : pending[r][i].of \in Nat
<1>0. attempt[r] \in 1..MaxRetries /\ consumer[r] \in 0..MaxRetries
  BY DEF TypeOK
<1>1. attempt[r] \in Nat /\ consumer[r] \in Nat
  BY <1>0 DEF MaxRetries
<1>2. pending[r] \in Seq(Token)
  BY DEF TypeOK
<1>3. ASSUME NEW i \in DOMAIN pending[r] PROVE pending[r][i] \in Token
  BY <1>2, ElementOfSeq, LenProperties
<1>4. ASSUME NEW i \in DOMAIN pending[r] PROVE pending[r][i].of \in Nat
  BY <1>3 DEF Token, MaxRetries
<1> QED
  BY <1>1, <1>4

\* The end of a run forgets its tokens.
LEMMA EndRunSecures ==
  ASSUME TypeOK, NEW r \in Runs, EndRun(r), held'[r] = {} PROVE TokensSecuredIn(r)'
BY DEF TypeOK, EndRun, Goto, None, TokensSecuredIn

\* Everything after the load region's failure branch is out of the invariant's reach.
LEMMA ReleaseSecures ==
  ASSUME TypeOK, NEW r \in Runs, TokensSecuredIn(r), pc' = [pc EXCEPT ![r] = "release"],
         attempt'[r] = attempt[r], consumer'[r] = consumer[r], pending'[r] = pending[r]
  PROVE  TokensSecuredIn(r)'
BY DEF TypeOK, TokensSecuredIn, Secured

\* Each step of run r leaves its own tokens secured, and only adds to published.
LEMMA StepSecures ==
  ASSUME TypeOK, TokensSecured, NEW r \in Runs, Step(r) \/ StartRun(r) \/ Fault(r),
         options' = options
  PROVE  TokensSecuredIn(r)' /\ published \subseteq published'
<1> USE DEF Goto, brokerVars, destVars, readerVars, sourceVars
<1>0. TokensSecuredIn(r)
  BY DEF TokensSecured
<1>1. CASE StartRun(r)
  BY <1>0, <1>1 DEF StartRun, TypeOK, TokensSecuredIn, Secured
<1>2. CASE LoadPendingPackage(r)
  BY <1>0, <1>2 DEF LoadPendingPackage, TypeOK, TokensSecuredIn, Secured
<1>3. CASE OpenConsumer(r)
  <2>1. /\ pc[r] = "run" /\ pc'[r] = "poll" /\ UNCHANGED <<published, pending, attempt>>
        /\ consumer'[r] = attempt[r]
    BY <1>3 DEF OpenConsumer, TypeOK
  <2>2. \A i \in DOMAIN pending[r] :
          pending[r][i].of <= attempt[r] /\ pending[r][i].of < attempt[r]
    BY <1>0, <2>1 DEF TokensSecuredIn
  <2>3. attempt[r] \in Nat /\ \A i \in DOMAIN pending[r] : pending[r][i].of \in Nat
    BY AttemptType
  <2> QED
    BY <2>1, <2>2, <2>3 DEF TokensSecuredIn
<1>4. CASE Poll(r)
  BY <1>0, <1>4 DEF Poll, TypeOK, TokensSecuredIn, Secured
<1>5. CASE YieldMessage(r)
  BY <1>0, <1>5 DEF YieldMessage, TypeOK, TokensSecuredIn, Secured
<1>6. CASE RecordBatch(r)
  BY <1>0, <1>6 DEF RecordBatch, TypeOK, TokensSecuredIn, Secured
<1>7. CASE FinishExtract(r)
  BY <1>0, <1>7 DEF FinishExtract, Fail, TypeOK, TokensSecuredIn, Secured
<1>8. CASE Load(r)
  BY <1>0, <1>8 DEF Load, TypeOK, TokensSecuredIn, Secured, SingleFile
<1>9. CASE DestinationPostLoad(r)
  BY <1>0, <1>9 DEF DestinationPostLoad, TypeOK, TokensSecuredIn, Secured, SingleFile
<1>10. CASE AckBatch(r)
  BY <1>0, <1>10 DEF AckBatch, TypeOK, TokensSecuredIn, Secured
<1>11. CASE NackAndClose(r) \/ Release(r) \/ AckFails(r) \/ Crash(r)
  <2>1. held'[r] = {}
    BY <1>11 DEF NackAndClose, Release, AckFails, Crash, HandBack, DropLeases, TypeOK
  <2> QED
    BY <1>11, <2>1, EndRunSecures DEF NackAndClose, Release, AckFails, Crash
<1>12. CASE DecodeFails(r) \/ DestinationPostLoadFails(r) \/ Interrupt(r)
  BY <1>0, <1>12, ReleaseSecures DEF DecodeFails, DestinationPostLoadFails, Interrupt
<1>13. CASE LoadFails(r)
  <2>1. PICK part \in SUBSET workdir[r], keep \in BOOLEAN :
          /\ published' = published \/ published' = published \cup part
          /\ workdir' = workdir \/ workdir' = [workdir EXCEPT ![r] = {}]
    BY <1>13, Zenon DEF LoadFails
  <2>2. /\ pc[r] = "load"
        /\ UNCHANGED <<readerVars, sourceVars, staged>>
        /\ \/ attempt' = [attempt EXCEPT ![r] = @ + 1] /\ pc' = [pc EXCEPT ![r] = "run"]
           \/ attempt' = attempt /\ pc' = [pc EXCEPT ![r] = "release"]
    BY <1>13, Zenon DEF LoadFails
  <2>3. workdir'[r] = {} \/ workdir'[r] = workdir[r]
    BY <2>1 DEF TypeOK
  <2>4. CASE attempt' = attempt /\ pc' = [pc EXCEPT ![r] = "release"]
    BY <1>0, <2>1, <2>2, <2>4, ReleaseSecures
  <2>5. CASE attempt' = [attempt EXCEPT ![r] = @ + 1] /\ pc' = [pc EXCEPT ![r] = "run"]
    <3>1. /\ attempt[r] \in Nat /\ consumer[r] \in Nat
          /\ \A i \in DOMAIN pending[r] : pending[r][i].of \in Nat
      BY AttemptType
    <3>2. attempt'[r] = attempt[r] + 1 /\ pc'[r] = "run"
      BY <2>5 DEF TypeOK
    <3>3. /\ consumer[r] <= attempt[r]
          /\ \A i \in DOMAIN pending[r] :
               /\ pending[r][i].of <= attempt[r]
               /\ pending[r][i].of = consumer[r] => pending[r][i].msgs \subseteq workdir[r]
      BY <1>0, <2>2 DEF TokensSecuredIn, Secured
    <3> QED
      BY <2>1, <2>2, <2>3, <3>1, <3>2, <3>3 DEF TokensSecuredIn, Secured
  <2> QED
    BY <2>2, <2>4, <2>5
<1>14. ASSUME NEW m \in Msgs, LeaseTimeout(r, m)
       PROVE  TokensSecuredIn(r)' /\ published \subseteq published'
  <2>1. held'[r] \subseteq held[r]
    BY <1>14 DEF LeaseTimeout, TypeOK
  <2> QED
    BY <1>0, <1>14, <2>1, Frame DEF LeaseTimeout
<1> HIDE DEF Goto, brokerVars, destVars, readerVars, sourceVars
<1> QED
  BY <1>1, <1>2, <1>3, <1>4, <1>5, <1>6, <1>7, <1>8, <1>9, <1>10, <1>11, <1>12,
     <1>13, <1>14 DEF Step, Fault

\* A run works on its own state.
LEMMA OthersStand ==
  ASSUME TypeOK, NEW r \in Runs, NEW q \in Runs, q # r, Step(r) \/ StartRun(r) \/ Fault(r)
  PROVE  /\ pc'[q] = pc[q] /\ attempt'[q] = attempt[q] /\ consumer'[q] = consumer[q]
         /\ pending'[q] = pending[q] /\ batch'[q] = batch[q] /\ todo'[q] = todo[q]
         /\ pkg'[q] = pkg[q] /\ staged'[q] = staged[q] /\ workdir'[q] = workdir[q]
         /\ held'[q] \subseteq held[q]
<1> USE DEF Goto, brokerVars, destVars, readerVars, sourceVars, TypeOK
<1>1. CASE Step(r)
  BY <1>1 DEF Step, LoadPendingPackage, OpenConsumer, Poll, YieldMessage,
     DecodeFails, RecordBatch, FinishExtract, Load, DestinationPostLoad,
     AckBatch, NackAndClose, Release, EndRun, HandBack, DropLeases
<1>2. CASE StartRun(r)
  BY <1>2 DEF StartRun
<1>3. CASE Fault(r)
  BY <1>3 DEF Fault, LeaseTimeout, LoadFails, DestinationPostLoadFails, AckFails,
     Interrupt, Crash, EndRun, DropLeases
<1> QED
  BY <1>1, <1>2, <1>3

\* The induction step of TokensSecured, together with the runs that do not move.
LEMMA TokensSecuredStep == TypeOK /\ TokensSecured /\ [Next]_vars => TokensSecured'
<1> SUFFICES ASSUME TypeOK, TokensSecured, [Next]_vars, NEW q \in Runs
             PROVE  TokensSecuredIn(q)'
  BY DEF TokensSecured
<1>0. TokensSecuredIn(q) /\ options' = options
  BY OptionsStay DEF TokensSecured
<1>1. ASSUME NEW m \in Msgs, Publish(m) \/ Redeliver(m) PROVE TokensSecuredIn(q)'
  <2>1. held'[q] \subseteq held[q]
    BY <1>1 DEF Publish, Redeliver
  <2> QED
    BY <1>0, <1>1, <2>1, Frame DEF Publish, Redeliver, destVars, readerVars, sourceVars
<1>2. ASSUME NEW r \in Runs, Step(r) \/ StartRun(r) \/ Fault(r) PROVE TokensSecuredIn(q)'
  <2>1. CASE q = r
    BY <1>0, <1>2, <2>1, StepSecures
  <2>2. CASE q # r
    <3>1. published \subseteq published'
      BY <1>0, <1>2, StepSecures
    <3>2. /\ pc'[q] = pc[q] /\ attempt'[q] = attempt[q] /\ consumer'[q] = consumer[q]
          /\ pending'[q] = pending[q] /\ batch'[q] = batch[q] /\ todo'[q] = todo[q]
          /\ pkg'[q] = pkg[q] /\ staged'[q] = staged[q] /\ workdir'[q] = workdir[q]
          /\ held'[q] \subseteq held[q]
      BY <1>2, <2>2, OthersStand
    <3> QED
      BY <1>0, <3>1, <3>2, Frame
  <2> QED
    BY <2>1, <2>2
<1>3. CASE UNCHANGED vars
  BY <1>0, <1>3, Frame DEF vars, brokerVars, destVars, readerVars, sourceVars
<1> QED
  BY <1>1, <1>2, <1>3 DEF Next

\* The inductive invariant: between the generator's record_batch and post_load's ack,
\* the messages of every token the open consumer can ack are kept where the next step
\* of the run loads them from; a run that is over holds neither tokens nor leases.
THEOREM TokensAlwaysSecured == Spec => []TokensSecured
<1>1. Init => TokensSecured
  BY DEF Init, TokensSecured, TokensSecuredIn, None
<1> QED
  BY <1>1, TypeCorrect, TokensSecuredStep, PTL DEF Spec

-----------------------------------------------------------------------------
\* A step acknowledges only what is published, and un-publishes nothing: every step
\* of the detailed system is a step of Delivery or a stutter.
LEMMA DeliveryStep ==
  TypeOK /\ TypeOK' /\ TokensSecured /\ [Next]_vars => [D!Next]_(D!vars)
<1> SUFFICES ASSUME TypeOK, TypeOK', TokensSecured, [Next]_vars
             PROVE  [D!Next]_(D!vars)
  OBVIOUS
<1>1. ASSUME gone' = gone, published \subseteq published' PROVE [D!Next]_(D!vars)
  <2>1. published' \in SUBSET Msgs /\ published' = published \cup published'
    BY <1>1 DEF TypeOK
  <2>2. D!Deliver(published')
    BY <1>1, <2>1 DEF D!Deliver
  <2> QED
    BY <2>1, <2>2 DEF D!Next
<1>2. ASSUME NEW r \in Runs, AckBatch(r) PROVE [D!Next]_(D!vars)
  <2>1. PICK S \in SUBSET Head(pending[r]).msgs :
          /\ Head(pending[r]).of # consumer[r] => S = {}
          /\ gone' = gone \cup S
    BY <1>2, Zenon DEF AckBatch
  <2>2. pending[r] \in Seq(Token) /\ pending[r] # <<>> /\ pc[r] = "ack"
    BY <1>2 DEF TypeOK, AckBatch
  <2>3. Head(pending[r]) \in Token /\ 1 \in DOMAIN pending[r] /\ Head(pending[r]) = pending[r][1]
    BY <2>2, HeadTailProperties, EmptySeq, LenProperties
  <2>4. S \subseteq published
    BY <2>1, <2>2, <2>3 DEF TokensSecured, TokensSecuredIn, Secured
  <2>5. S \in SUBSET Msgs /\ published' = published
    BY <1>2, <2>4 DEF TypeOK, AckBatch, destVars
  <2>6. D!Acknowledge(S)
    BY <2>1, <2>4, <2>5 DEF D!Acknowledge
  <2> QED
    BY <2>5, <2>6 DEF D!Next
<1>3. ASSUME NEW m \in Msgs, Publish(m) \/ Redeliver(m)
      PROVE  gone' = gone /\ published \subseteq published'
  BY <1>3 DEF Publish, Redeliver, destVars
<1>4. ASSUME NEW r \in Runs, Step(r) \/ StartRun(r) \/ Fault(r), ~AckBatch(r)
      PROVE  gone' = gone /\ published \subseteq published'
  <2>1. published \subseteq published'
    BY <1>4, OptionsStay, StepSecures
  <2>2. gone' = gone
    <3> USE DEF brokerVars, HandBack, DropLeases
    <3>1. CASE StartRun(r) \/ Step(r)
      BY <1>4, <3>1 DEF StartRun, Step, LoadPendingPackage, OpenConsumer, Poll,
         YieldMessage, DecodeFails, RecordBatch, FinishExtract, Load,
         DestinationPostLoad, NackAndClose, Release
    <3>2. CASE Fault(r)
      BY <3>2 DEF Fault, LeaseTimeout, LoadFails, DestinationPostLoadFails, AckFails,
         Interrupt, Crash
    <3> QED
      BY <1>4, <3>1, <3>2
  <2> QED
    BY <2>1, <2>2
<1>5. CASE UNCHANGED vars
  BY <1>1, <1>5 DEF vars, brokerVars, destVars
<1> QED
  BY <1>1, <1>2, <1>3, <1>4, <1>5 DEF Next

\* MqBridge keeps the promise of Delivery: acknowledged only after published, for any
\* number of runs, faults, retries and redeliveries.
THEOREM Refinement == Spec => ImplementsDelivery
<1>1. Init => D!Init
  BY DEF Init, D!Init
<1> QED
  BY <1>1, DeliveryStep, TypeCorrect, TokensAlwaysSecured, PTL
     DEF Spec, ImplementsDelivery, D!Spec

\* No message is lost: what the broker forgets was made visible by a completed load.
THEOREM NoMessageLost == Spec => []AckedIsPublished
<1>1. Init => AckedIsPublished
  BY DEF Init, AckedIsPublished
<1>2. AckedIsPublished /\ [D!Next]_(D!vars) => AckedIsPublished'
  BY DEF AckedIsPublished, D!Next, D!Deliver, D!Acknowledge, D!vars
<1> QED
  BY <1>1, <1>2, DeliveryStep, TypeCorrect, TokensAlwaysSecured, PTL DEF Spec

-----------------------------------------------------------------------------
\* What a load made visible in a database has one row: rows and visibility change
\* together, and only by merging.
PublishedOnce == ~SingleFile => \A m \in published : table[m] = 1

LEMMA PublishedOnceStep == TypeOK /\ PublishedOnce /\ [Next]_vars => PublishedOnce'
<1> SUFFICES ASSUME TypeOK, PublishedOnce, [Next]_vars, ~SingleFile
             PROVE  \A m \in published' : table'[m] = 1
  BY OptionsStay DEF PublishedOnce, SingleFile
<1>0. published \subseteq Msgs /\ \A m \in published : table[m] = 1
  BY DEF TypeOK, PublishedOnce
<1>1. ASSUME NEW p \in SUBSET Msgs, table' = Merged(table, p), published' = published \cup p
      PROVE  \A m \in published' : table'[m] = 1
  BY <1>0, <1>1 DEF Merged
<1>2. CASE UNCHANGED destVars
  BY <1>0, <1>2 DEF destVars
<1>3. ASSUME NEW r \in Runs, Load(r) PROVE \A m \in published' : table'[m] = 1
  <2>1. workdir[r] \in SUBSET Msgs
    BY DEF TypeOK
  <2>2. table' = Merged(table, workdir[r]) /\ published' = published \cup workdir[r]
    BY <1>3 DEF Load
  <2> QED
    BY <1>1, <2>1, <2>2
<1>4. ASSUME NEW r \in Runs, LoadFails(r) PROVE \A m \in published' : table'[m] = 1
  <2>1. PICK part \in SUBSET workdir[r] :
          table' = Merged(table, part) /\ published' = published \cup part
    BY <1>4 DEF LoadFails
  <2>2. part \in SUBSET Msgs
    BY DEF TypeOK
  <2> QED
    BY <1>1, <2>1, <2>2
<1>5. ASSUME NEW r \in Runs, Step(r) \/ StartRun(r) \/ Fault(r), ~Load(r), ~LoadFails(r)
      PROVE  UNCHANGED destVars
  <2>1. CASE Step(r)
    BY <1>5, <2>1 DEF Step, LoadPendingPackage, OpenConsumer, Poll, YieldMessage, DecodeFails,
       RecordBatch, FinishExtract, DestinationPostLoad, AckBatch, NackAndClose, Release
  <2>2. CASE StartRun(r) \/ Fault(r)
    BY <1>5, <2>2 DEF StartRun, Fault, LeaseTimeout, DestinationPostLoadFails, AckFails,
       Interrupt, Crash
  <2> QED
    BY <1>5, <2>1, <2>2
<1>6. ASSUME NEW m \in Msgs, Publish(m) \/ Redeliver(m) PROVE UNCHANGED destVars
  BY <1>6 DEF Publish, Redeliver
<1>7. CASE UNCHANGED vars
  BY <1>2, <1>7 DEF vars
<1> QED
  BY <1>2, <1>3, <1>4, <1>5, <1>6, <1>7 DEF Next

\* Effectively-once: every acknowledged message has exactly one row in the database,
\* whatever was redelivered, retried or loaded in part.
THEOREM OneRowPerMessage == Spec => []EffectivelyOnce
<1>1. Init => PublishedOnce
  BY DEF Init, PublishedOnce
<1>2. PublishedOnce /\ AckedIsPublished => EffectivelyOnce
  BY DEF PublishedOnce, AckedIsPublished, EffectivelyOnce
<1> QED
  BY <1>1, <1>2, PublishedOnceStep, NoMessageLost, TypeCorrect, PTL DEF Spec

-----------------------------------------------------------------------------
(* The nack of post_load: what the consumer of a run still holds is the batch   *)
(* it works on or belongs to a token that is not acknowledged yet.            *)

AccountedIn(r) ==
  /\ pc[r] = "poll" => batch[r] = {}
  /\ \A m \in held[r] :
       \/ m \in batch[r]
       \/ \E i \in DOMAIN pending[r] :
            pending[r][i].of = consumer[r] /\ m \in pending[r][i].msgs

Accounted == \A r \in Runs : AccountedIn(r)

\* Losing a lease never hurts.
LEMMA AccountedFrame ==
  ASSUME NEW q \in Runs, AccountedIn(q), held'[q] \subseteq held[q],
         pc'[q] = pc[q] \/ pc'[q] # "poll", consumer'[q] = consumer[q],
         pending'[q] = pending[q], batch'[q] = batch[q]
  PROVE  AccountedIn(q)'
BY DEF AccountedIn

\* Leases are taken by the run itself.
LEMMA OthersHold ==
  ASSUME TypeOK, NEW r \in Runs, NEW q \in Runs, q # r, Step(r) \/ StartRun(r) \/ Fault(r)
  PROVE  held'[q] \subseteq held[q]
<1> USE DEF Goto, brokerVars, TypeOK, HandBack, DropLeases
<1>1. CASE Step(r)
  BY <1>1 DEF Step, LoadPendingPackage, OpenConsumer, Poll, YieldMessage,
     DecodeFails, RecordBatch, FinishExtract, Load, DestinationPostLoad,
     AckBatch, NackAndClose, Release
<1>2. CASE StartRun(r)
  BY <1>2 DEF StartRun
<1>3. CASE Fault(r)
  BY <1>3 DEF Fault, LeaseTimeout, LoadFails, DestinationPostLoadFails, AckFails,
     Interrupt, Crash
<1> QED
  BY <1>1, <1>2, <1>3

\* A token that is acknowledged takes what is left of its leases with it.
LEMMA AckAccounted ==
  ASSUME TypeOK, NEW r \in Runs, AccountedIn(r), AckBatch(r)
  PROVE  AccountedIn(r)'
<1>1. PICK S \in SUBSET Head(pending[r]).msgs :
        /\ IF Head(pending[r]).of = consumer[r]
           THEN Head(pending[r]).msgs \cap held[r] \subseteq S
           ELSE S = {}
        /\ held' = [q \in Runs |-> held[q] \ S]
  BY DEF AckBatch
<1>2. pending[r] \in Seq(Token) /\ pending[r] # <<>>
  BY DEF TypeOK, AckBatch
<1>3. pending' = [pending EXCEPT ![r] = Tail(@)] /\ UNCHANGED <<pc, consumer, batch>>
  BY DEF AckBatch, readerVars
<1>4. held'[r] = held[r] \ S /\ pending'[r] = Tail(pending[r])
  BY <1>1, <1>3 DEF TypeOK
<1>5. ASSUME NEW m \in held'[r], m \notin batch[r]
      PROVE  \E j \in DOMAIN pending'[r] :
               pending'[r][j].of = consumer'[r] /\ m \in pending'[r][j].msgs
  <2>1. PICK i \in DOMAIN pending[r] :
          pending[r][i].of = consumer[r] /\ m \in pending[r][i].msgs
    BY <1>4, <1>5 DEF AccountedIn
  <2>2. i \in 1 .. Len(pending[r])
    BY <1>2, LenProperties
  <2>3. i # 1
    <3>1. Head(pending[r]) = pending[r][1]
      BY <1>2
    <3> QED
      BY <1>1, <1>4, <1>5, <2>1, <3>1
  <2>4. /\ i - 1 \in 1 .. Len(pending[r]) - 1 /\ Len(Tail(pending[r])) = Len(pending[r]) - 1
        /\ Tail(pending[r])[i - 1] = pending[r][i]
    BY <1>2, <2>2, <2>3
  <2>5. i - 1 \in DOMAIN pending'[r]
    BY <1>2, <1>4, <2>4
  <2> QED
    BY <1>3, <1>4, <2>1, <2>4, <2>5
<1> QED
  BY <1>3, <1>4, <1>5 DEF AccountedIn, AckBatch

\* The generator's token takes over the leases of its batch.
LEMMA RecordAccounted ==
  ASSUME TypeOK, NEW r \in Runs, AccountedIn(r), RecordBatch(r)
  PROVE  AccountedIn(r)'
<1> DEFINE t == [msgs |-> batch[r], of |-> consumer[r]]
           n == Len(pending[r]) + 1
<1>1. pending[r] \in Seq(Token) /\ t \in Token
  BY DEF TypeOK, Token
<1>2. /\ pending'[r] = Append(pending[r], t) /\ batch'[r] = {} /\ pc'[r] = "poll"
      /\ held' = held /\ consumer' = consumer
  BY DEF RecordBatch, Goto, TypeOK, brokerVars
<1> HIDE DEF t
<1>3. /\ n \in DOMAIN pending'[r] /\ pending'[r][n] = t
      /\ \A i \in DOMAIN pending[r] : i \in DOMAIN pending'[r] /\ pending'[r][i] = pending[r][i]
  BY <1>1, <1>2, AppendProperties
<1>4. t.of = consumer[r] /\ t.msgs = batch[r]
  BY DEF t
<1> HIDE DEF n
<1>5. ASSUME NEW m \in held'[r]
      PROVE  \E i \in DOMAIN pending'[r] :
               pending'[r][i].of = consumer'[r] /\ m \in pending'[r][i].msgs
  BY <1>2, <1>3, <1>4, <1>5 DEF AccountedIn
<1> QED
  BY <1>2, <1>5 DEF AccountedIn

LEMMA AccountedStep == TypeOK /\ Accounted /\ [Next]_vars => Accounted'
<1> SUFFICES ASSUME TypeOK, Accounted, [Next]_vars, NEW q \in Runs
             PROVE  AccountedIn(q)'
  BY DEF Accounted
<1>0. AccountedIn(q)
  BY DEF Accounted
<1>1. ASSUME NEW m \in Msgs, Publish(m) \/ Redeliver(m) PROVE AccountedIn(q)'
  BY <1>0, <1>1, AccountedFrame DEF Publish, Redeliver, readerVars, sourceVars
<1>2. ASSUME NEW r \in Runs, r # q, Step(r) \/ StartRun(r) \/ Fault(r) PROVE AccountedIn(q)'
  BY <1>0, <1>2, OthersStand, OthersHold, AccountedFrame
<1>3. ASSUME Step(q) \/ StartRun(q) \/ Fault(q) PROVE AccountedIn(q)'
  <2> USE <1>0 DEF Goto, brokerVars, readerVars, sourceVars
  <2>1. CASE \/ StartRun(q) \/ LoadPendingPackage(q) \/ YieldMessage(q) \/ DecodeFails(q)
             \/ FinishExtract(q) \/ Load(q) \/ DestinationPostLoad(q)
             \/ DestinationPostLoadFails(q) \/ Interrupt(q)
    BY <2>1, AccountedFrame
       DEF StartRun, LoadPendingPackage, YieldMessage, DecodeFails, FinishExtract, Load,
           DestinationPostLoad, DestinationPostLoadFails, Interrupt, TypeOK
  <2>2. CASE LoadFails(q)
    BY <2>2, AccountedFrame DEF LoadFails, TypeOK
  <2>3. CASE \E m \in Msgs : LeaseTimeout(q, m)
    BY <2>3, AccountedFrame DEF LeaseTimeout, TypeOK
  <2>4. CASE OpenConsumer(q)
    BY <2>4 DEF OpenConsumer, DropLeases, TypeOK, AccountedIn
  <2>5. CASE Poll(q)
    <3>1. PICK S \in SUBSET ready : held'[q] = held[q] \cup S /\ batch'[q] = S
      BY <2>5 DEF Poll, TypeOK
    <3>2. /\ pc[q] = "poll" /\ pc'[q] = "yield" /\ UNCHANGED sourceVars
      BY <2>5 DEF Poll, TypeOK
    <3> QED
      BY <3>1, <3>2 DEF AccountedIn
  <2>6. CASE RecordBatch(q)
    BY <2>6, RecordAccounted
  <2>7. CASE AckBatch(q)
    BY <2>7, AckAccounted
  <2>8. CASE NackAndClose(q) \/ Release(q) \/ AckFails(q) \/ Crash(q)
    <3>1. EndRun(q) /\ held' = [held EXCEPT ![q] = {}]
      BY <2>8 DEF NackAndClose, Release, AckFails, Crash, HandBack, DropLeases
    <3> QED
      BY <3>1 DEF EndRun, TypeOK, AccountedIn
  <2> QED
    BY <1>3, <2>1, <2>2, <2>3, <2>4, <2>5, <2>6, <2>7, <2>8 DEF Step, Fault
<1>4. CASE UNCHANGED vars
  BY <1>0, <1>4, AccountedFrame DEF vars, brokerVars, readerVars, sourceVars
<1> QED
  BY <1>1, <1>2, <1>3, <1>4 DEF Next

\* A successful run hands back the truncated batch and nothing it has loaded: when
\* post_load comes to its nack, no token is left that leases could belong to.
THEOREM NacksOnlyTruncatedCorrect == Spec => NacksOnlyTruncated
<1> DEFINE Nacks == \A r \in Runs :
                      pc[r] = "ack" /\ pc'[r] = "idle" => ready' \ ready \subseteq batch[r]
<1>1. Init => Accounted
  BY DEF Init, Accounted, AccountedIn
<1>2. TypeOK /\ Accounted /\ [Next]_vars => [Nacks]_vars
  <2> SUFFICES ASSUME TypeOK, Accounted, Next, NEW r \in Runs, pc[r] = "ack", pc'[r] = "idle"
               PROVE  ready' \ ready \subseteq batch[r]
    OBVIOUS
  <2>1. CASE NackAndClose(r)
    <3>1. pending[r] = <<>> /\ ready' \subseteq ready \cup held[r]
      BY <2>1 DEF NackAndClose, HandBack, DropLeases
    <3>2. held[r] \subseteq batch[r]
      BY <3>1 DEF Accounted, AccountedIn
    <3> QED
      BY <3>1, <3>2
  <2>2. CASE AckFails(r) \/ Crash(r)
    BY <2>2 DEF AckFails, Crash, DropLeases
  <2>3. ASSUME NEW q \in Runs, q # r, Step(q) \/ StartRun(q) \/ Fault(q) PROVE FALSE
    BY <2>3, OthersStand
  <2>4. ~(\E m \in Msgs : Publish(m) \/ Redeliver(m))
    BY DEF Publish, Redeliver
  <2>5. ASSUME Step(r) \/ StartRun(r) \/ Fault(r), ~NackAndClose(r), ~AckFails(r), ~Crash(r)
        PROVE  FALSE
    <3> USE DEF Goto, TypeOK
    <3>1. CASE Step(r)
      BY <2>5, <3>1 DEF Step, LoadPendingPackage, OpenConsumer, Poll, YieldMessage,
         DecodeFails, RecordBatch, FinishExtract, Load, DestinationPostLoad, AckBatch, Release
    <3>2. CASE StartRun(r)
      BY <3>2 DEF StartRun
    <3>3. CASE Fault(r)
      BY <2>5, <3>3 DEF Fault, LeaseTimeout, LoadFails, DestinationPostLoadFails, Interrupt
    <3> QED
      BY <2>5, <3>1, <3>2, <3>3
  <2> QED
    BY <2>1, <2>2, <2>3, <2>4, <2>5 DEF Next
<1>3. [][Nacks]_vars => NacksOnlyTruncated
  BY PTL DEF NacksOnlyTruncated, Nacks
<1> HIDE DEF Nacks
<1> QED
  BY <1>1, <1>2, <1>3, AccountedStep, TypeCorrect, PTL DEF Spec
=============================================================================
