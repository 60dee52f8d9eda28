----------------------- MODULE CommandPipelineProofs -----------------------
(***************************************************************************)
(* The safety properties of CommandPipeline, for any number of scopes,     *)
(* request ids and retries, and for any combination of faults.             *)
(***************************************************************************)
EXTENDS CommandPipeline, TLAPS

----------------------------------------------------------------------------
(* The inductive invariant: what a scope's fields say about each other...  *)

HandlerPc == {"addEvent", "load", "save"}
LookupPc == {"exist", "recheck", "insert"}
CommitPc == {"flush", "commit"}

(* Where the transaction stands at each await.                             *)
TxInv(s) ==
    /\ pc[s] \in LookupPc \cup HandlerPc => tx[s] = "open"
    /\ pc[s] \in CommitPc => tx[s] \in {"open", "dead"}
    /\ tx[s] \in {"open", "dead"} => pc[s] \in LookupPc \cup HandlerPc \cup CommitPc
    /\ tx[s] = "dead" => rows[s] = {}
    /\ pc[s] \notin {"idle", "answered", "lost"} => req[s] \in RequestId
    /\ pc[s] = "idle" => attempt[s] = 0 /\ log[s] = "absent" /\ ~tracked[s]
    /\ pc[s] = "begin" => attempt[s] <= MaxRetryCount
    /\ pc[s] \in LookupPc \cup HandlerPc \cup CommitPc \cup PublishPc => attempt[s] > 0
    /\ answer[s] # "none" => pc[s] = "answered"

(* What the change tracker can hold.                                       *)
TrackerInv(s) ==
    /\ dirty[s] => tracked[s]
    /\ pc[s] \in {"recheck", "insert"} => ~tracked[s]
    /\ pc[s] \in HandlerPc => tracked[s]
    /\ pc[s] = "exist" /\ attempt[s] = 1 => ~tracked[s]
    /\ pc[s] = "begin" /\ attempt[s] = 0 => ~tracked[s]
    /\ pc[s] \in {"addEvent", "load", "commit"} => ~dirty[s]

(* What the open transaction has written.                                  *)
RowsInv(s) ==
    /\ pc[s] \in LookupPc => rows[s] = {}
    /\ pc[s] \in HandlerPc => "request" \in rows[s]
    /\ tx[s] = "open" /\ "request" \in rows[s] => req[s] \notin requests
    /\ tx[s] = "open" /\ "request" \notin rows[s]
          => "event" \notin rows[s] /\ ("order" \in rows[s] => attempt[s] > 1)
    /\ pc[s] = "flush" /\ tx[s] = "open" /\ "request" \notin rows[s] => attempt[s] > 1
    /\ tx[s] = "open" /\ "event" \in rows[s] /\ VerdictOf(s) = "applies"
          => "order" \in rows[s] \/ dirty[s]

(* What is committed on behalf of the scope.                               *)
OutcomeInv(s) ==
    /\ attempt[s] = 1 /\ pc[s] \in CommitPc /\ tx[s] = "open" /\ result[s]
          => req[s] \in requests \/ "request" \in rows[s]
    /\ attempt[s] = 1 /\ pc[s] \in PublishPc /\ result[s] => req[s] \in requests
    /\ log[s] # "absent" =>
          /\ req[s] \in requests
          /\ VerdictOf(s) = "applies" =>
                [by |-> s, id |-> req[s], registered |-> TRUE] \in effects
    /\ pc[s] \in PublishPc /\ (pc[s] = "retrieve" => "event" \in rows[s])
          => log[s] # "absent"
    /\ pc[s] = "retrieve" /\ attempt[s] = 1 /\ "event" \notin rows[s] => log[s] = "absent"
    /\ pc[s] \in LookupPc \cup HandlerPc \cup CommitPc /\ attempt[s] = 1 => log[s] = "absent"
    /\ pc[s] = "begin" /\ attempt[s] = 0 => log[s] = "absent"
    /\ s \in bus => log[s] # "absent"
    /\ pc[s] = "markPublished" => s \in bus

(* What the sender was told, and what the event log says.                  *)
AnswerInv(s) ==
    /\ answer[s] = "Ok" /\ attempt[s] = 1 => req[s] \in requests
    /\ answer[s] \in {"Ok", "BadRequest"} /\ attempt[s] = 1
          => log[s] \notin {"NotPublished", "InProgress"}
    /\ log[s] = "Published" => s \in bus

(* ...and what the scopes and the database say about each other.           *)
OneHolder ==
    \A s, t \in Scope :
        s # t => ~(\E r \in RequestId : HoldsRequestRow(s, r) /\ HoldsRequestRow(t, r))

RegisteredIsRecorded == \A e \in effects : e.registered => e.id \in requests

IInv ==
    /\ TypeOK
    /\ \A s \in Scope :
          TxInv(s) /\ TrackerInv(s) /\ RowsInv(s) /\ OutcomeInv(s) /\ AnswerInv(s)
    /\ OneHolder
    /\ RegisteredIsRecorded
    /\ AtMostOnce


----------------------------------------------------------------------------
(* A commit keeps the database's types and never removes a row.            *)
LEMMA PersistType ==
    ASSUME TypeOK, NEW s \in Scope, req[s] \in RequestId, Persist(s)
    PROVE  /\ requests' \subseteq RequestId /\ requests \subseteq requests'
           /\ effects' \subseteq Effect /\ effects \subseteq effects'
           /\ log' \in [Scope -> LogState]
  <1> DEFINE e == [by |-> s, id |-> req[s], registered |-> "request" \in rows[s]]
  <1>1. e \in Effect
    <2>1. ("request" \in rows[s]) \in BOOLEAN OBVIOUS
    <2> QED BY <2>1 DEF Effect
  <1>2. effects' = IF "order" \in rows[s] THEN effects \cup {e} ELSE effects
    BY DEF Persist
  <1> HIDE DEF e
  <1>3. effects' \subseteq Effect /\ effects \subseteq effects'
    BY <1>1, <1>2 DEF TypeOK
  <1> QED BY <1>3 DEF TypeOK, Persist, LogState

(* The initial state: nothing is committed, nobody has started.            *)
LEMMA InitIInv == Init => IInv
  <1> SUFFICES ASSUME Init PROVE IInv
    OBVIOUS
  <1> USE RetryAssumption, RequestAssumption DEF Init
  <1>1. TypeOK
    BY DEF TypeOK, Pc, TxState, Row, Answer, LogState
  <1>2. ASSUME NEW s \in Scope
        PROVE  TxInv(s) /\ TrackerInv(s) /\ RowsInv(s) /\ OutcomeInv(s) /\ AnswerInv(s)
    BY DEF TxInv, TrackerInv, RowsInv, OutcomeInv, AnswerInv,
           LookupPc, HandlerPc, CommitPc, PublishPc
  <1>3. OneHolder /\ RegisteredIsRecorded /\ AtMostOnce
    BY DEF OneHolder, HoldsRequestRow, RegisteredIsRecorded, AtMostOnce
  <1> QED BY <1>1, <1>2, <1>3 DEF IInv

----------------------------------------------------------------------------
(* One lemma per action: it keeps the invariant.  t is any scope, the one  *)
(* that steps or another.                                                  *)

(* A new delivery: its scope has no history that the id could contradict.  *)
LEMMA ReceiveStep ==
    ASSUME IInv, NEW s \in Scope, NEW r \in RequestId, Receive(s, r) PROVE IInv'
  <1> USE RetryAssumption, RequestAssumption
      DEF IInv, TypeOK, Receive, Goto, dbVars,
          HandlerPc, LookupPc, CommitPc, PublishPc, FinalPc
  <1>1. TypeOK'
    BY SMTT(30) DEF TxInv, Pc, WritingPc, TxState, Row, Answer, LogState
  <1>2. ASSUME NEW t \in Scope PROVE TxInv(t)'
    BY SMTT(30) DEF TxInv, TrackerInv
  <1>3. ASSUME NEW t \in Scope PROVE TrackerInv(t)'
    BY SMTT(30) DEF TxInv, TrackerInv
  <1>4. ASSUME NEW t \in Scope PROVE RowsInv(t)'
    BY SMTT(30) DEF TxInv, TrackerInv, RowsInv, VerdictOf, OneHolder, HoldsRequestRow
  <1>5. ASSUME NEW t \in Scope PROVE OutcomeInv(t)'
    <2>1. CASE t = s
      <3>1. TxInv(s) /\ OutcomeInv(s) OBVIOUS
      <3>2. log'[s] = "absent" /\ s \notin bus' /\ pc'[s] = "begin"
        BY <3>1 DEF TxInv, OutcomeInv
      <3> QED BY <2>1, <3>2 DEF OutcomeInv
    <2>2. CASE t # s BY <2>2, SMTT(20) DEF OutcomeInv, VerdictOf
    <2> QED BY <2>1, <2>2
  <1>6. OneHolder'
    BY SMTT(30) DEF TxInv, OneHolder, RowsInv, HoldsRequestRow
  <1>7. RegisteredIsRecorded' /\ AtMostOnce'
    BY SMTT(30) DEF TxInv, RowsInv, RegisteredIsRecorded, AtMostOnce, Effect
  <1>8. ASSUME NEW t \in Scope PROVE AnswerInv(t)'
    BY SMTT(30) DEF TxInv, AnswerInv
  <1> QED BY <1>1, <1>2, <1>3, <1>4, <1>5, <1>6, <1>7, <1>8

(* A request without an id is answered from the initial state.             *)
LEMMA ReceiveWithoutIdStep ==
    ASSUME IInv, NEW s \in Scope, ReceiveWithoutId(s) PROVE IInv'
  <1> USE RetryAssumption, RequestAssumption
      DEF IInv, TypeOK, ReceiveWithoutId, Reply, Goto, dbVars,
          HandlerPc, LookupPc, CommitPc, PublishPc, FinalPc
  <1>1. TypeOK'
    BY SMTT(30) DEF TxInv, Pc, WritingPc, TxState, Row, Answer, LogState
  <1>2. ASSUME NEW t \in Scope PROVE TxInv(t)'
    BY SMTT(30) DEF TxInv, TrackerInv
  <1>3. ASSUME NEW t \in Scope PROVE TrackerInv(t)'
    BY SMTT(30) DEF TxInv, TrackerInv
  <1>4. ASSUME NEW t \in Scope PROVE RowsInv(t)'
    BY SMTT(30) DEF TxInv, TrackerInv, RowsInv, VerdictOf, OneHolder, HoldsRequestRow
  <1>5. ASSUME NEW t \in Scope PROVE OutcomeInv(t)'
    BY SMTT(30) DEF TxInv, TrackerInv, RowsInv, OutcomeInv, VerdictOf
  <1>6. OneHolder'
    BY SMTT(30) DEF TxInv, OneHolder, RowsInv, HoldsRequestRow
  <1>7. RegisteredIsRecorded' /\ AtMostOnce'
    BY SMTT(30) DEF TxInv, RowsInv, RegisteredIsRecorded, AtMostOnce, Effect
  <1>8. ASSUME NEW t \in Scope PROVE AnswerInv(t)'
    BY SMTT(30) DEF TxInv, AnswerInv
  <1> QED BY <1>1, <1>2, <1>3, <1>4, <1>5, <1>6, <1>7, <1>8

(* A run of the lambda starts with an open and empty transaction; only the *)
(* first one starts with an empty change tracker.                          *)
LEMMA BeginStep ==
    ASSUME IInv, NEW s \in Scope, Begin(s) PROVE IInv'
  <1> USE RetryAssumption, RequestAssumption
      DEF IInv, TypeOK, Begin, Goto, dbVars,
          HandlerPc, LookupPc, CommitPc, PublishPc, FinalPc
  <1>1. TypeOK'
    BY SMTT(30) DEF TxInv, Pc, WritingPc, TxState, Row, Answer, LogState
  <1>2. ASSUME NEW t \in Scope PROVE TxInv(t)'
    BY SMTT(30) DEF TxInv, TrackerInv
  <1>3. ASSUME NEW t \in Scope PROVE TrackerInv(t)'
    BY SMTT(30) DEF TxInv, TrackerInv
  <1>4. ASSUME NEW t \in Scope PROVE RowsInv(t)'
    BY SMTT(30) DEF TxInv, TrackerInv, RowsInv, VerdictOf, OneHolder, HoldsRequestRow
  <1>5. ASSUME NEW t \in Scope PROVE OutcomeInv(t)'
    BY SMTT(30) DEF TxInv, TrackerInv, RowsInv, OutcomeInv, VerdictOf
  <1>6. OneHolder'
    BY SMTT(30) DEF TxInv, OneHolder, RowsInv, HoldsRequestRow
  <1>7. RegisteredIsRecorded' /\ AtMostOnce'
    BY SMTT(30) DEF TxInv, RowsInv, RegisteredIsRecorded, AtMostOnce, Effect
  <1>8. ASSUME NEW t \in Scope PROVE AnswerInv(t)'
    BY SMTT(30) DEF TxInv, AnswerInv
  <1> QED BY <1>1, <1>2, <1>3, <1>4, <1>5, <1>6, <1>7, <1>8

(* A retry on the stale field answers Error.                               *)
LEMMA BeginOnStaleFieldStep ==
    ASSUME IInv, NEW s \in Scope, BeginOnStaleField(s) PROVE IInv'
  <1> USE RetryAssumption, RequestAssumption
      DEF IInv, TypeOK, BeginOnStaleField, Reply, Goto, dbVars,
          HandlerPc, LookupPc, CommitPc, PublishPc, FinalPc
  <1>1. TypeOK'
    BY SMTT(30) DEF TxInv, Pc, WritingPc, TxState, Row, Answer, LogState
  <1>2. ASSUME NEW t \in Scope PROVE TxInv(t)'
    BY SMTT(30) DEF TxInv, TrackerInv
  <1>3. ASSUME NEW t \in Scope PROVE TrackerInv(t)'
    BY SMTT(30) DEF TxInv, TrackerInv
  <1>4. ASSUME NEW t \in Scope PROVE RowsInv(t)'
    BY SMTT(30) DEF TxInv, TrackerInv, RowsInv, VerdictOf, OneHolder, HoldsRequestRow
  <1>5. ASSUME NEW t \in Scope PROVE OutcomeInv(t)'
    BY SMTT(30) DEF TxInv, TrackerInv, RowsInv, OutcomeInv, VerdictOf
  <1>6. OneHolder'
    BY SMTT(30) DEF TxInv, OneHolder, RowsInv, HoldsRequestRow
  <1>7. RegisteredIsRecorded' /\ AtMostOnce'
    BY SMTT(30) DEF TxInv, RowsInv, RegisteredIsRecorded, AtMostOnce, Effect
  <1>8. ASSUME NEW t \in Scope PROVE AnswerInv(t)'
    BY SMTT(30) DEF TxInv, AnswerInv
  <1> QED BY <1>1, <1>2, <1>3, <1>4, <1>5, <1>6, <1>7, <1>8

(* A transaction that cannot be opened costs one execution.                *)
LEMMA BeginFailsStep ==
    ASSUME IInv, NEW s \in Scope, BeginFails(s) PROVE IInv'
  <1> USE RetryAssumption, RequestAssumption
      DEF IInv, TypeOK, BeginFails, Reply, Goto, dbVars,
          HandlerPc, LookupPc, CommitPc, PublishPc, FinalPc
  <1>1. TypeOK'
    BY SMTT(30) DEF TxInv, Pc, WritingPc, TxState, Row, Answer, LogState
  <1>2. ASSUME NEW t \in Scope PROVE TxInv(t)'
    BY SMTT(30) DEF TxInv, TrackerInv
  <1>3. ASSUME NEW t \in Scope PROVE TrackerInv(t)'
    BY SMTT(30) DEF TxInv, TrackerInv
  <1>4. ASSUME NEW t \in Scope PROVE RowsInv(t)'
    BY SMTT(30) DEF TxInv, TrackerInv, RowsInv, VerdictOf, OneHolder, HoldsRequestRow
  <1>5. ASSUME NEW t \in Scope PROVE OutcomeInv(t)'
    BY SMTT(30) DEF TxInv, TrackerInv, RowsInv, OutcomeInv, VerdictOf
  <1>6. OneHolder'
    BY SMTT(30) DEF TxInv, OneHolder, RowsInv, HoldsRequestRow
  <1>7. RegisteredIsRecorded' /\ AtMostOnce'
    BY SMTT(30) DEF TxInv, RowsInv, RegisteredIsRecorded, AtMostOnce, Effect
  <1>8. ASSUME NEW t \in Scope PROVE AnswerInv(t)'
    BY SMTT(30) DEF TxInv, AnswerInv
  <1> QED BY <1>1, <1>2, <1>3, <1>4, <1>5, <1>6, <1>7, <1>8

(* The duplicate answer is given for a recorded id, or by a second run.    *)
LEMMA ExistStep ==
    ASSUME IInv, NEW s \in Scope, Exist(s) PROVE IInv'
  <1> USE RetryAssumption, RequestAssumption
      DEF IInv, TypeOK, Exist, Known, Goto, dbVars,
          HandlerPc, LookupPc, CommitPc, PublishPc, FinalPc
  <1>1. TypeOK'
    <2>1. pc' \in [Scope -> Pc]
      BY DEF Pc, WritingPc
    <2>2. result' \in [Scope -> BOOLEAN]
      BY Zenon
    <2> QED BY <2>1, <2>2
  <1>2. ASSUME NEW t \in Scope PROVE TxInv(t)'
    BY SMTT(30) DEF TxInv, TrackerInv
  <1>3. ASSUME NEW t \in Scope PROVE TrackerInv(t)'
    BY SMTT(30) DEF TxInv, TrackerInv
  <1>4. ASSUME NEW t \in Scope PROVE RowsInv(t)'
    BY SMTT(30) DEF TxInv, TrackerInv, RowsInv, VerdictOf, OneHolder, HoldsRequestRow
  <1>5. ASSUME NEW t \in Scope PROVE OutcomeInv(t)'
    BY SMTT(30) DEF TxInv, TrackerInv, RowsInv, OutcomeInv, VerdictOf
  <1>6. OneHolder'
    BY SMTT(30) DEF TxInv, OneHolder, RowsInv, HoldsRequestRow
  <1>7. RegisteredIsRecorded' /\ AtMostOnce'
    BY SMTT(30) DEF TxInv, RowsInv, RegisteredIsRecorded, AtMostOnce, Effect
  <1>8. ASSUME NEW t \in Scope PROVE AnswerInv(t)'
    BY SMTT(30) DEF TxInv, AnswerInv
  <1> QED BY <1>1, <1>2, <1>3, <1>4, <1>5, <1>6, <1>7, <1>8

(* The second look at the request id.                                      *)
LEMMA RecheckStep ==
    ASSUME IInv, NEW s \in Scope, Recheck(s) PROVE IInv'
  <1> USE RetryAssumption, RequestAssumption
      DEF IInv, TypeOK, Recheck, Known, Reply, AbandonTransaction, Goto, dbVars,
          HandlerPc, LookupPc, CommitPc, PublishPc, FinalPc
  <1>1. TypeOK'
    BY SMTT(30) DEF TxInv, Pc, WritingPc, TxState, Row, Answer, LogState
  <1>2. ASSUME NEW t \in Scope PROVE TxInv(t)'
    BY SMTT(30) DEF TxInv, TrackerInv
  <1>3. ASSUME NEW t \in Scope PROVE TrackerInv(t)'
    BY SMTT(30) DEF TxInv, TrackerInv
  <1>4. ASSUME NEW t \in Scope PROVE RowsInv(t)'
    BY SMTT(30) DEF TxInv, TrackerInv, RowsInv, VerdictOf, OneHolder, HoldsRequestRow
  <1>5. ASSUME NEW t \in Scope PROVE OutcomeInv(t)'
    BY SMTT(30) DEF TxInv, TrackerInv, RowsInv, OutcomeInv, VerdictOf
  <1>6. OneHolder'
    BY SMTT(30) DEF TxInv, OneHolder, RowsInv, HoldsRequestRow
  <1>7. RegisteredIsRecorded' /\ AtMostOnce'
    BY SMTT(30) DEF TxInv, RowsInv, RegisteredIsRecorded, AtMostOnce, Effect
  <1>8. ASSUME NEW t \in Scope PROVE AnswerInv(t)'
    <2>1. CASE t = s
      <3>1. OutcomeInv(s) /\ AnswerInv(s) OBVIOUS
      <3> QED BY <2>1, <3>1, SMTT(20) DEF AnswerInv, OutcomeInv
    <2>2. CASE t # s BY <2>2, SMTT(20) DEF AnswerInv
    <2> QED BY <2>1, <2>2
  <1> QED BY <1>1, <1>2, <1>3, <1>4, <1>5, <1>6, <1>7, <1>8

(* The primary key: one open transaction holds the row of an id, and none  *)
(* holds the row of a recorded id.                                         *)
LEMMA InsertStep ==
    ASSUME IInv, NEW s \in Scope, Insert(s) PROVE IInv'
  <1> USE RetryAssumption, RequestAssumption
      DEF IInv, TypeOK, Insert, Reply, AbandonTransaction, Goto, dbVars,
          HandlerPc, LookupPc, CommitPc, PublishPc, FinalPc
  <1>1. TypeOK'
    BY SMTT(30) DEF TxInv, Pc, WritingPc, TxState, Row, Answer, LogState
  <1>2. ASSUME NEW t \in Scope PROVE TxInv(t)'
    BY SMTT(30) DEF TxInv, TrackerInv
  <1>3. ASSUME NEW t \in Scope PROVE TrackerInv(t)'
    BY SMTT(30) DEF TxInv, TrackerInv
  <1>4. ASSUME NEW t \in Scope PROVE RowsInv(t)'
    BY SMTT(30) DEF TxInv, TrackerInv, RowsInv, VerdictOf, OneHolder, HoldsRequestRow
  <1>5. ASSUME NEW t \in Scope PROVE OutcomeInv(t)'
    BY SMTT(30) DEF TxInv, TrackerInv, RowsInv, OutcomeInv, VerdictOf
  <1>6. OneHolder'
    BY SMTT(30) DEF TxInv, OneHolder, RowsInv, HoldsRequestRow
  <1>7. RegisteredIsRecorded' /\ AtMostOnce'
    BY SMTT(30) DEF TxInv, RowsInv, RegisteredIsRecorded, AtMostOnce, Effect
  <1>8. ASSUME NEW t \in Scope PROVE AnswerInv(t)'
    BY SMTT(30) DEF TxInv, AnswerInv
  <1> QED BY <1>1, <1>2, <1>3, <1>4, <1>5, <1>6, <1>7, <1>8

(* A failure of the RequestManager leaves nothing of its transaction.      *)
LEMMA RequestManagerFailsStep ==
    ASSUME IInv, NEW s \in Scope, RequestManagerFails(s) PROVE IInv'
  <1> USE RetryAssumption, RequestAssumption
      DEF IInv, TypeOK, RequestManagerFails, Rethrow, Reply, AbandonTransaction, Goto, dbVars,
          HandlerPc, LookupPc, CommitPc, PublishPc, FinalPc
  <1>1. TypeOK'
    BY SMTT(30) DEF TxInv, Pc, WritingPc, TxState, Row, Answer, LogState
  <1>2. ASSUME NEW t \in Scope PROVE TxInv(t)'
    BY SMTT(30) DEF TxInv, TrackerInv
  <1>3. ASSUME NEW t \in Scope PROVE TrackerInv(t)'
    BY SMTT(30) DEF TxInv, TrackerInv
  <1>4. ASSUME NEW t \in Scope PROVE RowsInv(t)'
    BY SMTT(30) DEF TxInv, TrackerInv, RowsInv, VerdictOf, OneHolder, HoldsRequestRow
  <1>5. ASSUME NEW t \in Scope PROVE OutcomeInv(t)'
    BY SMTT(30) DEF TxInv, TrackerInv, RowsInv, OutcomeInv, VerdictOf
  <1>6. OneHolder'
    BY SMTT(30) DEF TxInv, OneHolder, RowsInv, HoldsRequestRow
  <1>7. RegisteredIsRecorded' /\ AtMostOnce'
    BY SMTT(30) DEF TxInv, RowsInv, RegisteredIsRecorded, AtMostOnce, Effect
  <1>8. ASSUME NEW t \in Scope PROVE AnswerInv(t)'
    BY SMTT(30) DEF TxInv, AnswerInv
  <1> QED BY <1>1, <1>2, <1>3, <1>4, <1>5, <1>6, <1>7, <1>8

(* The event joins the transaction that holds the request row.             *)
LEMMA AddEventStep ==
    ASSUME IInv, NEW s \in Scope, AddEvent(s) PROVE IInv'
  <1> USE RetryAssumption, RequestAssumption
      DEF IInv, TypeOK, AddEvent, Goto, dbVars,
          HandlerPc, LookupPc, CommitPc, PublishPc, FinalPc
  <1>1. TypeOK'
    <2>1. rows' \in [Scope -> SUBSET Row]
      BY DEF Row
    <2>2. dirty' \in [Scope -> BOOLEAN]
      BY Zenon
    <2>3. pc' \in [Scope -> Pc]
      BY DEF Pc, WritingPc
    <2> QED BY <2>1, <2>2, <2>3
  <1>2. ASSUME NEW t \in Scope PROVE TxInv(t)'
    BY SMTT(30) DEF TxInv, TrackerInv
  <1>3. ASSUME NEW t \in Scope PROVE TrackerInv(t)'
    <2>1. CASE t = s
      <3>1. TrackerInv(s) /\ TxInv(s) OBVIOUS
      <3>2. tracked[s] BY <3>1 DEF TrackerInv
      <3> QED BY <2>1, <3>1, <3>2, SMTT(20) DEF TrackerInv
    <2>2. CASE t # s BY <2>2, SMTT(20) DEF TrackerInv
    <2> QED BY <2>1, <2>2
  <1>4. ASSUME NEW t \in Scope PROVE RowsInv(t)'
    BY SMTT(30) DEF TxInv, TrackerInv, RowsInv, VerdictOf, OneHolder, HoldsRequestRow
  <1>5. ASSUME NEW t \in Scope PROVE OutcomeInv(t)'
    BY SMTT(30) DEF TxInv, TrackerInv, RowsInv, OutcomeInv, VerdictOf
  <1>6. OneHolder'
    BY SMTT(30) DEF TxInv, OneHolder, RowsInv, HoldsRequestRow
  <1>7. RegisteredIsRecorded' /\ AtMostOnce'
    BY SMTT(30) DEF TxInv, RowsInv, RegisteredIsRecorded, AtMostOnce, Effect
  <1>8. ASSUME NEW t \in Scope PROVE AnswerInv(t)'
    BY SMTT(30) DEF TxInv, AnswerInv
  <1> QED BY <1>1, <1>2, <1>3, <1>4, <1>5, <1>6, <1>7, <1>8

(* A cancellation loads and changes its order.                             *)
LEMMA LoadStep ==
    ASSUME IInv, NEW s \in Scope, Load(s) PROVE IInv'
  <1> USE RetryAssumption, RequestAssumption
      DEF IInv, TypeOK, Load, Goto, dbVars,
          HandlerPc, LookupPc, CommitPc, PublishPc, FinalPc
  <1>1. TypeOK'
    <2>1. dirty' \in [Scope -> BOOLEAN]
      BY Zenon
    <2>2. pc' \in [Scope -> Pc]
      BY DEF Pc, WritingPc
    <2> QED BY <2>1, <2>2
  <1>2. ASSUME NEW t \in Scope PROVE TxInv(t)'
    BY SMTT(30) DEF TxInv, TrackerInv
  <1>3. ASSUME NEW t \in Scope PROVE TrackerInv(t)'
    <2>1. CASE t = s
      <3>1. TrackerInv(s) /\ TxInv(s) OBVIOUS
      <3>2. tracked[s] BY <3>1 DEF TrackerInv
      <3> QED BY <2>1, <3>1, <3>2, SMTT(20) DEF TrackerInv
    <2>2. CASE t # s BY <2>2, SMTT(20) DEF TrackerInv
    <2> QED BY <2>1, <2>2
  <1>4. ASSUME NEW t \in Scope PROVE RowsInv(t)'
    BY SMTT(30) DEF TxInv, TrackerInv, RowsInv, VerdictOf, OneHolder, HoldsRequestRow
  <1>5. ASSUME NEW t \in Scope PROVE OutcomeInv(t)'
    BY SMTT(30) DEF TxInv, TrackerInv, RowsInv, OutcomeInv, VerdictOf
  <1>6. OneHolder'
    BY SMTT(30) DEF TxInv, OneHolder, RowsInv, HoldsRequestRow
  <1>7. RegisteredIsRecorded' /\ AtMostOnce'
    BY SMTT(30) DEF TxInv, RowsInv, RegisteredIsRecorded, AtMostOnce, Effect
  <1>8. ASSUME NEW t \in Scope PROVE AnswerInv(t)'
    BY SMTT(30) DEF TxInv, AnswerInv
  <1> QED BY <1>1, <1>2, <1>3, <1>4, <1>5, <1>6, <1>7, <1>8

(* The order joins the transaction that holds the request row.             *)
LEMMA SaveStep ==
    ASSUME IInv, NEW s \in Scope, Save(s) PROVE IInv'
  <1> USE RetryAssumption, RequestAssumption
      DEF IInv, TypeOK, Save, Goto, dbVars,
          HandlerPc, LookupPc, CommitPc, PublishPc, FinalPc
  <1>1. TypeOK'
    <2>1. pc' \in [Scope -> Pc]
      BY DEF Pc, WritingPc
    <2>2. result' \in [Scope -> BOOLEAN]
      BY Zenon
    <2>3. dirty' \in [Scope -> BOOLEAN]
      BY Zenon
    <2>4. rows' \in [Scope -> SUBSET Row]
      BY DEF Row
    <2> QED BY <2>1, <2>2, <2>3, <2>4
  <1>2. ASSUME NEW t \in Scope PROVE TxInv(t)'
    BY SMTT(30) DEF TxInv, TrackerInv
  <1>3. ASSUME NEW t \in Scope PROVE TrackerInv(t)'
    BY SMTT(30) DEF TxInv, TrackerInv
  <1>4. ASSUME NEW t \in Scope PROVE RowsInv(t)'
    BY SMTT(30) DEF TxInv, TrackerInv, RowsInv, VerdictOf, OneHolder, HoldsRequestRow
  <1>5. ASSUME NEW t \in Scope PROVE OutcomeInv(t)'
    BY SMTT(30) DEF TxInv, TrackerInv, RowsInv, OutcomeInv, VerdictOf
  <1>6. OneHolder'
    BY SMTT(30) DEF TxInv, OneHolder, RowsInv, HoldsRequestRow
  <1>7. RegisteredIsRecorded' /\ AtMostOnce'
    BY SMTT(30) DEF TxInv, RowsInv, RegisteredIsRecorded, AtMostOnce, Effect
  <1>8. ASSUME NEW t \in Scope PROVE AnswerInv(t)'
    BY SMTT(30) DEF TxInv, AnswerInv
  <1> QED BY <1>1, <1>2, <1>3, <1>4, <1>5, <1>6, <1>7, <1>8

(* A swallowed failure keeps the transaction whole or loses all of it.     *)
LEMMA HandlerFailsStep ==
    ASSUME IInv, NEW s \in Scope, HandlerFails(s) PROVE IInv'
  <1> USE RetryAssumption, RequestAssumption
      DEF IInv, TypeOK, HandlerFails, Goto, dbVars,
          HandlerPc, LookupPc, CommitPc, PublishPc, FinalPc
  <1>1. TypeOK'
    BY SMTT(30) DEF TxInv, Pc, WritingPc, TxState, Row, Answer, LogState
  <1>2. ASSUME NEW t \in Scope PROVE TxInv(t)'
    BY SMTT(30) DEF TxInv, TrackerInv
  <1>3. ASSUME NEW t \in Scope PROVE TrackerInv(t)'
    BY SMTT(30) DEF TxInv, TrackerInv
  <1>4. ASSUME NEW t \in Scope PROVE RowsInv(t)'
    BY SMTT(30) DEF TxInv, TrackerInv, RowsInv, VerdictOf, OneHolder, HoldsRequestRow
  <1>5. ASSUME NEW t \in Scope PROVE OutcomeInv(t)'
    BY SMTT(30) DEF TxInv, TrackerInv, RowsInv, OutcomeInv, VerdictOf
  <1>6. OneHolder'
    BY SMTT(30) DEF TxInv, OneHolder, RowsInv, HoldsRequestRow
  <1>7. RegisteredIsRecorded' /\ AtMostOnce'
    BY SMTT(30) DEF TxInv, RowsInv, RegisteredIsRecorded, AtMostOnce, Effect
  <1>8. ASSUME NEW t \in Scope PROVE AnswerInv(t)'
    BY SMTT(30) DEF TxInv, AnswerInv
  <1> QED BY <1>1, <1>2, <1>3, <1>4, <1>5, <1>6, <1>7, <1>8

(* The commit writes the order the handler could not save.                 *)
LEMMA FlushStep ==
    ASSUME IInv, NEW s \in Scope, Flush(s) PROVE IInv'
  <1> USE RetryAssumption, RequestAssumption
      DEF IInv, TypeOK, Flush, Goto, dbVars,
          HandlerPc, LookupPc, CommitPc, PublishPc, FinalPc
  <1>1. TypeOK'
    BY SMTT(30) DEF TxInv, Pc, WritingPc, TxState, Row, Answer, LogState
  <1>2. ASSUME NEW t \in Scope PROVE TxInv(t)'
    BY SMTT(30) DEF TxInv, TrackerInv
  <1>3. ASSUME NEW t \in Scope PROVE TrackerInv(t)'
    BY SMTT(30) DEF TxInv, TrackerInv
  <1>4. ASSUME NEW t \in Scope PROVE RowsInv(t)'
    BY SMTT(30) DEF TxInv, TrackerInv, RowsInv, VerdictOf, OneHolder, HoldsRequestRow
  <1>5. ASSUME NEW t \in Scope PROVE OutcomeInv(t)'
    BY SMTT(30) DEF TxInv, TrackerInv, RowsInv, OutcomeInv, VerdictOf
  <1>6. OneHolder'
    BY SMTT(30) DEF TxInv, OneHolder, RowsInv, HoldsRequestRow
  <1>7. RegisteredIsRecorded' /\ AtMostOnce'
    BY SMTT(30) DEF TxInv, RowsInv, RegisteredIsRecorded, AtMostOnce, Effect
  <1>8. ASSUME NEW t \in Scope PROVE AnswerInv(t)'
    BY SMTT(30) DEF TxInv, AnswerInv
  <1> QED BY <1>1, <1>2, <1>3, <1>4, <1>5, <1>6, <1>7, <1>8

(* The commit makes request id, order and event visible together.          *)
LEMMA CommitStep ==
    ASSUME IInv, NEW s \in Scope, Commit(s) PROVE IInv'
  <1> USE RetryAssumption, RequestAssumption
      DEF IInv, TypeOK, Commit, Persist, Goto, dbVars,
          HandlerPc, LookupPc, CommitPc, PublishPc, FinalPc
  <1>1. TypeOK'
    <2>1. req[s] \in RequestId
      BY DEF TxInv
    <2>2. pc' \in [Scope -> Pc] /\ tx' \in [Scope -> TxState]
      BY DEF Pc, WritingPc, TxState
    <2> QED BY <2>1, <2>2, PersistType
  <1>2. ASSUME NEW t \in Scope PROVE TxInv(t)'
    BY SMTT(30) DEF TxInv, TrackerInv
  <1>3. ASSUME NEW t \in Scope PROVE TrackerInv(t)'
    BY SMTT(30) DEF TxInv, TrackerInv
  <1>4. ASSUME NEW t \in Scope PROVE RowsInv(t)'
    BY SMTT(30) DEF TxInv, TrackerInv, RowsInv, VerdictOf, OneHolder, HoldsRequestRow
  <1>5. ASSUME NEW t \in Scope PROVE OutcomeInv(t)'
    <2>1. requests \subseteq requests' /\ effects \subseteq effects'
      BY DEF Persist
    <2>2. CASE t = s
      <3>1. OutcomeInv(s) /\ RowsInv(s) /\ TrackerInv(s) /\ TxInv(s) OBVIOUS
      <3>2. ASSUME "event" \in rows[s]
            PROVE  /\ req[s] \in requests'
                   /\ VerdictOf(s) = "applies" =>
                        [by |-> s, id |-> req[s], registered |-> TRUE] \in effects'
        <4>1. "request" \in rows[s] BY <3>1, <3>2 DEF RowsInv
        <4>2. ("request" \in rows[s]) = TRUE BY <4>1
        <4>3. VerdictOf(s) = "applies" => "order" \in rows[s]
          BY <3>1, <3>2 DEF RowsInv, TrackerInv
        <4>4. "order" \in rows[s] =>
                [by |-> s, id |-> req[s], registered |-> TRUE] \in effects'
          BY <4>2, Zenon DEF Persist
        <4> QED BY <4>1, <4>3, <4>4 DEF Persist
      <3>3. log'[s] = IF "event" \in rows[s] THEN "NotPublished" ELSE log[s]
        BY DEF Persist
      <3>4. attempt[s] = 1 /\ result[s] => req[s] \in requests'
        BY <3>1 DEF OutcomeInv, Persist
      <3> QED BY <2>1, <2>2, <3>1, <3>2, <3>3, <3>4, SMTT(20)
              DEF OutcomeInv, TxInv, VerdictOf
    <2>3. CASE t # s
      <3>1. OutcomeInv(t) /\ log'[t] = log[t] BY <2>3 DEF Persist
      <3> QED BY <2>1, <2>3, <3>1, SMTT(20) DEF OutcomeInv, VerdictOf
    <2> QED BY <2>2, <2>3
  <1>6. OneHolder'
    BY SMTT(30) DEF TxInv, OneHolder, RowsInv, HoldsRequestRow
  <1>7. RegisteredIsRecorded' /\ AtMostOnce'
    <2> DEFINE e == [by |-> s, id |-> req[s], registered |-> "request" \in rows[s]]
    <2>1. RowsInv(s) /\ TxInv(s) /\ attempt' = attempt OBVIOUS
    <2>2. /\ e.id = req[s]
          /\ e.by = s
          /\ e.registered <=> "request" \in rows[s]
      OBVIOUS
    <2>3. effects' \subseteq effects \cup {e} /\ ("order" \notin rows[s] => effects' = effects)
      BY DEF Persist
    <2>4. requests' = IF "request" \in rows[s] THEN requests \cup {req[s]} ELSE requests
      BY DEF Persist
    <2>5. "request" \in rows[s] => req[s] \notin requests
      BY <2>1 DEF RowsInv
    <2>6. "request" \notin rows[s] /\ "order" \in rows[s] => attempt[s] > 1
      BY <2>1 DEF RowsInv
    <2> HIDE DEF e
    <2>7. RegisteredIsRecorded'
      BY <2>2, <2>3, <2>4, SMTT(20) DEF RegisteredIsRecorded
    <2>8. AtMostOnce'
      BY <2>1, <2>2, <2>3, <2>5, <2>6, SMTT(20) DEF RegisteredIsRecorded, AtMostOnce
    <2> QED BY <2>7, <2>8
  <1>8. ASSUME NEW t \in Scope PROVE AnswerInv(t)'
    BY SMTT(30) DEF TxInv, AnswerInv
  <1> QED BY <1>1, <1>2, <1>3, <1>4, <1>5, <1>6, <1>7, <1>8

(* A failed commit leaves nothing in the database.                         *)
LEMMA CommitFailsStep ==
    ASSUME IInv, NEW s \in Scope, CommitFails(s) PROVE IInv'
  <1> USE RetryAssumption, RequestAssumption
      DEF IInv, TypeOK, CommitFails, RollbackTransaction, Rethrow, Reply, Goto, dbVars,
          HandlerPc, LookupPc, CommitPc, PublishPc, FinalPc
  <1>1. TypeOK'
    BY SMTT(30) DEF TxInv, Pc, WritingPc, TxState, Row, Answer, LogState
  <1>2. ASSUME NEW t \in Scope PROVE TxInv(t)'
    BY SMTT(30) DEF TxInv, TrackerInv
  <1>3. ASSUME NEW t \in Scope PROVE TrackerInv(t)'
    BY SMTT(30) DEF TxInv, TrackerInv
  <1>4. ASSUME NEW t \in Scope PROVE RowsInv(t)'
    BY SMTT(30) DEF TxInv, TrackerInv, RowsInv, VerdictOf, OneHolder, HoldsRequestRow
  <1>5. ASSUME NEW t \in Scope PROVE OutcomeInv(t)'
    BY SMTT(30) DEF TxInv, TrackerInv, RowsInv, OutcomeInv, VerdictOf
  <1>6. OneHolder'
    BY SMTT(30) DEF TxInv, OneHolder, RowsInv, HoldsRequestRow
  <1>7. RegisteredIsRecorded' /\ AtMostOnce'
    BY SMTT(30) DEF TxInv, RowsInv, RegisteredIsRecorded, AtMostOnce, Effect
  <1>8. ASSUME NEW t \in Scope PROVE AnswerInv(t)'
    BY SMTT(30) DEF TxInv, AnswerInv
  <1> QED BY <1>1, <1>2, <1>3, <1>4, <1>5, <1>6, <1>7, <1>8

(* A commit whose acknowledgement is lost is still a commit.               *)
LEMMA CommitUnacknowledgedStep ==
    ASSUME IInv, NEW s \in Scope, CommitUnacknowledged(s) PROVE IInv'
  <1> USE RetryAssumption, RequestAssumption
      DEF IInv, TypeOK, CommitUnacknowledged, Persist, RollbackTransaction, Rethrow, Reply, Goto, dbVars,
          HandlerPc, LookupPc, CommitPc, PublishPc, FinalPc
  <1>1. TypeOK'
    <2>1. req[s] \in RequestId
      BY DEF TxInv
    <2>2. pc' \in [Scope -> Pc] /\ answer' \in [Scope -> Answer]
      BY DEF Pc, WritingPc, Answer
    <2>3. tx' \in [Scope -> TxState] /\ rows' \in [Scope -> SUBSET Row]
      BY DEF TxState
    <2> QED BY <2>1, <2>2, <2>3, PersistType
  <1>2. ASSUME NEW t \in Scope PROVE TxInv(t)'
    BY SMTT(30) DEF TxInv, TrackerInv
  <1>3. ASSUME NEW t \in Scope PROVE TrackerInv(t)'
    BY SMTT(30) DEF TxInv, TrackerInv
  <1>4. ASSUME NEW t \in Scope PROVE RowsInv(t)'
    BY SMTT(30) DEF TxInv, TrackerInv, RowsInv, VerdictOf, OneHolder, HoldsRequestRow
  <1>5. ASSUME NEW t \in Scope PROVE OutcomeInv(t)'
    <2>1. requests \subseteq requests' /\ effects \subseteq effects'
      BY DEF Persist
    <2>2. CASE t = s
      <3>1. OutcomeInv(s) /\ RowsInv(s) /\ TrackerInv(s) /\ TxInv(s) OBVIOUS
      <3>2. ASSUME "event" \in rows[s]
            PROVE  /\ req[s] \in requests'
                   /\ VerdictOf(s) = "applies" =>
                        [by |-> s, id |-> req[s], registered |-> TRUE] \in effects'
        <4>1. "request" \in rows[s] BY <3>1, <3>2 DEF RowsInv
        <4>2. ("request" \in rows[s]) = TRUE BY <4>1
        <4>3. VerdictOf(s) = "applies" => "order" \in rows[s]
          BY <3>1, <3>2 DEF RowsInv, TrackerInv
        <4>4. "order" \in rows[s] =>
                [by |-> s, id |-> req[s], registered |-> TRUE] \in effects'
          BY <4>2, Zenon DEF Persist
        <4> QED BY <4>1, <4>3, <4>4 DEF Persist
      <3>3. log'[s] = IF "event" \in rows[s] THEN "NotPublished" ELSE log[s]
        BY DEF Persist
      <3>4. attempt[s] = 1 /\ result[s] => req[s] \in requests'
        BY <3>1 DEF OutcomeInv, Persist
      <3> QED BY <2>1, <2>2, <3>1, <3>2, <3>3, <3>4, SMTT(20)
              DEF OutcomeInv, TxInv, VerdictOf
    <2>3. CASE t # s
      <3>1. OutcomeInv(t) /\ log'[t] = log[t] BY <2>3 DEF Persist
      <3> QED BY <2>1, <2>3, <3>1, SMTT(20) DEF OutcomeInv, VerdictOf
    <2> QED BY <2>2, <2>3
  <1>6. OneHolder'
    BY SMTT(30) DEF TxInv, OneHolder, RowsInv, HoldsRequestRow
  <1>7. RegisteredIsRecorded' /\ AtMostOnce'
    <2> DEFINE e == [by |-> s, id |-> req[s], registered |-> "request" \in rows[s]]
    <2>1. RowsInv(s) /\ TxInv(s) /\ attempt' = attempt OBVIOUS
    <2>2. /\ e.id = req[s]
          /\ e.by = s
          /\ e.registered <=> "request" \in rows[s]
      OBVIOUS
    <2>3. effects' \subseteq effects \cup {e} /\ ("order" \notin rows[s] => effects' = effects)
      BY DEF Persist
    <2>4. requests' = IF "request" \in rows[s] THEN requests \cup {req[s]} ELSE requests
      BY DEF Persist
    <2>5. "request" \in rows[s] => req[s] \notin requests
      BY <2>1 DEF RowsInv
    <2>6. "request" \notin rows[s] /\ "order" \in rows[s] => attempt[s] > 1
      BY <2>1 DEF RowsInv
    <2> HIDE DEF e
    <2>7. RegisteredIsRecorded'
      BY <2>2, <2>3, <2>4, SMTT(20) DEF RegisteredIsRecorded
    <2>8. AtMostOnce'
      BY <2>1, <2>2, <2>3, <2>5, <2>6, SMTT(20) DEF RegisteredIsRecorded, AtMostOnce
    <2> QED BY <2>7, <2>8
  <1>8. ASSUME NEW t \in Scope PROVE AnswerInv(t)'
    BY SMTT(30) DEF TxInv, AnswerInv
  <1> QED BY <1>1, <1>2, <1>3, <1>4, <1>5, <1>6, <1>7, <1>8

(* No event in the transaction, no event to settle.                        *)
LEMMA RetrieveStep ==
    ASSUME IInv, NEW s \in Scope, Retrieve(s) PROVE IInv'
  <1> USE RetryAssumption, RequestAssumption
      DEF IInv, TypeOK, Retrieve, Respond, Reply, Goto, dbVars,
          HandlerPc, LookupPc, CommitPc, PublishPc, FinalPc
  <1>1. TypeOK'
    BY SMTT(30) DEF TxInv, Pc, WritingPc, TxState, Row, Answer, LogState
  <1>2. ASSUME NEW t \in Scope PROVE TxInv(t)'
    BY SMTT(30) DEF TxInv, TrackerInv
  <1>3. ASSUME NEW t \in Scope PROVE TrackerInv(t)'
    BY SMTT(30) DEF TxInv, TrackerInv
  <1>4. ASSUME NEW t \in Scope PROVE RowsInv(t)'
    BY SMTT(30) DEF TxInv, TrackerInv, RowsInv, VerdictOf, OneHolder, HoldsRequestRow
  <1>5. ASSUME NEW t \in Scope PROVE OutcomeInv(t)'
    BY SMTT(30) DEF TxInv, TrackerInv, RowsInv, OutcomeInv, VerdictOf
  <1>6. OneHolder'
    BY SMTT(30) DEF TxInv, OneHolder, RowsInv, HoldsRequestRow
  <1>7. RegisteredIsRecorded' /\ AtMostOnce'
    BY SMTT(30) DEF TxInv, RowsInv, RegisteredIsRecorded, AtMostOnce, Effect
  <1>8. ASSUME NEW t \in Scope PROVE AnswerInv(t)'
    <2>1. CASE t = s
      <3>1. OutcomeInv(s) /\ AnswerInv(s) OBVIOUS
      <3> QED BY <2>1, <3>1, SMTT(20) DEF AnswerInv, OutcomeInv
    <2>2. CASE t # s BY <2>2, SMTT(20) DEF AnswerInv
    <2> QED BY <2>1, <2>2
  <1> QED BY <1>1, <1>2, <1>3, <1>4, <1>5, <1>6, <1>7, <1>8

(* The event log row is marked before the message is sent.                 *)
LEMMA MarkEventAsInProgressStep ==
    ASSUME IInv, NEW s \in Scope, MarkEventAsInProgress(s) PROVE IInv'
  <1> USE RetryAssumption, RequestAssumption
      DEF IInv, TypeOK, MarkEventAsInProgress, Goto, dbVars,
          HandlerPc, LookupPc, CommitPc, PublishPc, FinalPc
  <1>1. TypeOK'
    BY SMTT(30) DEF TxInv, Pc, WritingPc, TxState, Row, Answer, LogState
  <1>2. ASSUME NEW t \in Scope PROVE TxInv(t)'
    BY SMTT(30) DEF TxInv, TrackerInv
  <1>3. ASSUME NEW t \in Scope PROVE TrackerInv(t)'
    BY SMTT(30) DEF TxInv, TrackerInv
  <1>4. ASSUME NEW t \in Scope PROVE RowsInv(t)'
    BY SMTT(30) DEF TxInv, TrackerInv, RowsInv, VerdictOf, OneHolder, HoldsRequestRow
  <1>5. ASSUME NEW t \in Scope PROVE OutcomeInv(t)'
    BY SMTT(30) DEF TxInv, TrackerInv, RowsInv, OutcomeInv, VerdictOf
  <1>6. OneHolder'
    BY SMTT(30) DEF TxInv, OneHolder, RowsInv, HoldsRequestRow
  <1>7. RegisteredIsRecorded' /\ AtMostOnce'
    BY SMTT(30) DEF TxInv, RowsInv, RegisteredIsRecorded, AtMostOnce, Effect
  <1>8. ASSUME NEW t \in Scope PROVE AnswerInv(t)'
    BY SMTT(30) DEF TxInv, AnswerInv
  <1> QED BY <1>1, <1>2, <1>3, <1>4, <1>5, <1>6, <1>7, <1>8

(* A message is sent for a committed row of the event log.                 *)
LEMMA PublishStep ==
    ASSUME IInv, NEW s \in Scope, Publish(s) PROVE IInv'
  <1> USE RetryAssumption, RequestAssumption
      DEF IInv, TypeOK, Publish, Goto, dbVars,
          HandlerPc, LookupPc, CommitPc, PublishPc, FinalPc
  <1>1. TypeOK'
    BY SMTT(30) DEF TxInv, Pc, WritingPc, TxState, Row, Answer, LogState
  <1>2. ASSUME NEW t \in Scope PROVE TxInv(t)'
    BY SMTT(30) DEF TxInv, TrackerInv
  <1>3. ASSUME NEW t \in Scope PROVE TrackerInv(t)'
    BY SMTT(30) DEF TxInv, TrackerInv
  <1>4. ASSUME NEW t \in Scope PROVE RowsInv(t)'
    BY SMTT(30) DEF TxInv, TrackerInv, RowsInv, VerdictOf, OneHolder, HoldsRequestRow
  <1>5. ASSUME NEW t \in Scope PROVE OutcomeInv(t)'
    BY SMTT(30) DEF TxInv, TrackerInv, RowsInv, OutcomeInv, VerdictOf
  <1>6. OneHolder'
    BY SMTT(30) DEF TxInv, OneHolder, RowsInv, HoldsRequestRow
  <1>7. RegisteredIsRecorded' /\ AtMostOnce'
    BY SMTT(30) DEF TxInv, RowsInv, RegisteredIsRecorded, AtMostOnce, Effect
  <1>8. ASSUME NEW t \in Scope PROVE AnswerInv(t)'
    BY SMTT(30) DEF TxInv, AnswerInv
  <1> QED BY <1>1, <1>2, <1>3, <1>4, <1>5, <1>6, <1>7, <1>8

(* Published is written after the message was sent.                        *)
LEMMA MarkEventAsPublishedStep ==
    ASSUME IInv, NEW s \in Scope, MarkEventAsPublished(s) PROVE IInv'
  <1> USE RetryAssumption, RequestAssumption
      DEF IInv, TypeOK, MarkEventAsPublished, Respond, Reply, Goto, dbVars,
          HandlerPc, LookupPc, CommitPc, PublishPc, FinalPc
  <1>1. TypeOK'
    BY SMTT(30) DEF TxInv, Pc, WritingPc, TxState, Row, Answer, LogState
  <1>2. ASSUME NEW t \in Scope PROVE TxInv(t)'
    BY SMTT(30) DEF TxInv, TrackerInv
  <1>3. ASSUME NEW t \in Scope PROVE TrackerInv(t)'
    BY SMTT(30) DEF TxInv, TrackerInv
  <1>4. ASSUME NEW t \in Scope PROVE RowsInv(t)'
    BY SMTT(30) DEF TxInv, TrackerInv, RowsInv, VerdictOf, OneHolder, HoldsRequestRow
  <1>5. ASSUME NEW t \in Scope PROVE OutcomeInv(t)'
    BY SMTT(30) DEF TxInv, TrackerInv, RowsInv, OutcomeInv, VerdictOf
  <1>6. OneHolder'
    BY SMTT(30) DEF TxInv, OneHolder, RowsInv, HoldsRequestRow
  <1>7. RegisteredIsRecorded' /\ AtMostOnce'
    BY SMTT(30) DEF TxInv, RowsInv, RegisteredIsRecorded, AtMostOnce, Effect
  <1>8. ASSUME NEW t \in Scope PROVE AnswerInv(t)'
    <2>1. CASE t = s
      <3>1. OutcomeInv(s) /\ AnswerInv(s) OBVIOUS
      <3> QED BY <2>1, <3>1, SMTT(20) DEF AnswerInv, OutcomeInv
    <2>2. CASE t # s BY <2>2, SMTT(20) DEF AnswerInv
    <2> QED BY <2>1, <2>2
  <1> QED BY <1>1, <1>2, <1>3, <1>4, <1>5, <1>6, <1>7, <1>8

(* A failure in the loop goes to the catch block.                          *)
LEMMA PublishFailsStep ==
    ASSUME IInv, NEW s \in Scope, PublishFails(s) PROVE IInv'
  <1> USE RetryAssumption, RequestAssumption
      DEF IInv, TypeOK, PublishFails, Goto, dbVars,
          HandlerPc, LookupPc, CommitPc, PublishPc, FinalPc
  <1>1. TypeOK'
    BY SMTT(30) DEF TxInv, Pc, WritingPc, TxState, Row, Answer, LogState
  <1>2. ASSUME NEW t \in Scope PROVE TxInv(t)'
    BY SMTT(30) DEF TxInv, TrackerInv
  <1>3. ASSUME NEW t \in Scope PROVE TrackerInv(t)'
    BY SMTT(30) DEF TxInv, TrackerInv
  <1>4. ASSUME NEW t \in Scope PROVE RowsInv(t)'
    BY SMTT(30) DEF TxInv, TrackerInv, RowsInv, VerdictOf, OneHolder, HoldsRequestRow
  <1>5. ASSUME NEW t \in Scope PROVE OutcomeInv(t)'
    BY SMTT(30) DEF TxInv, TrackerInv, RowsInv, OutcomeInv, VerdictOf
  <1>6. OneHolder'
    BY SMTT(30) DEF TxInv, OneHolder, RowsInv, HoldsRequestRow
  <1>7. RegisteredIsRecorded' /\ AtMostOnce'
    BY SMTT(30) DEF TxInv, RowsInv, RegisteredIsRecorded, AtMostOnce, Effect
  <1>8. ASSUME NEW t \in Scope PROVE AnswerInv(t)'
    BY SMTT(30) DEF TxInv, AnswerInv
  <1> QED BY <1>1, <1>2, <1>3, <1>4, <1>5, <1>6, <1>7, <1>8

(* The catch block settles the row.                                        *)
LEMMA MarkEventAsFailedStep ==
    ASSUME IInv, NEW s \in Scope, MarkEventAsFailed(s) PROVE IInv'
  <1> USE RetryAssumption, RequestAssumption
      DEF IInv, TypeOK, MarkEventAsFailed, Respond, Reply, Goto, dbVars,
          HandlerPc, LookupPc, CommitPc, PublishPc, FinalPc
  <1>1. TypeOK'
    BY SMTT(30) DEF TxInv, Pc, WritingPc, TxState, Row, Answer, LogState
  <1>2. ASSUME NEW t \in Scope PROVE TxInv(t)'
    BY SMTT(30) DEF TxInv, TrackerInv
  <1>3. ASSUME NEW t \in Scope PROVE TrackerInv(t)'
    BY SMTT(30) DEF TxInv, TrackerInv
  <1>4. ASSUME NEW t \in Scope PROVE RowsInv(t)'
    BY SMTT(30) DEF TxInv, TrackerInv, RowsInv, VerdictOf, OneHolder, HoldsRequestRow
  <1>5. ASSUME NEW t \in Scope PROVE OutcomeInv(t)'
    BY SMTT(30) DEF TxInv, TrackerInv, RowsInv, OutcomeInv, VerdictOf
  <1>6. OneHolder'
    BY SMTT(30) DEF TxInv, OneHolder, RowsInv, HoldsRequestRow
  <1>7. RegisteredIsRecorded' /\ AtMostOnce'
    BY SMTT(30) DEF TxInv, RowsInv, RegisteredIsRecorded, AtMostOnce, Effect
  <1>8. ASSUME NEW t \in Scope PROVE AnswerInv(t)'
    <2>1. CASE t = s
      <3>1. OutcomeInv(s) /\ AnswerInv(s) OBVIOUS
      <3> QED BY <2>1, <3>1, SMTT(20) DEF AnswerInv, OutcomeInv
    <2>2. CASE t # s BY <2>2, SMTT(20) DEF AnswerInv
    <2> QED BY <2>1, <2>2
  <1> QED BY <1>1, <1>2, <1>3, <1>4, <1>5, <1>6, <1>7, <1>8

(* A failure of the event log outside the try block answers Error.         *)
LEMMA EventLogFailsStep ==
    ASSUME IInv, NEW s \in Scope, EventLogFails(s) PROVE IInv'
  <1> USE RetryAssumption, RequestAssumption
      DEF IInv, TypeOK, EventLogFails, Reply, Goto, dbVars,
          HandlerPc, LookupPc, CommitPc, PublishPc, FinalPc
  <1>1. TypeOK'
    BY SMTT(30) DEF TxInv, Pc, WritingPc, TxState, Row, Answer, LogState
  <1>2. ASSUME NEW t \in Scope PROVE TxInv(t)'
    BY SMTT(30) DEF TxInv, TrackerInv
  <1>3. ASSUME NEW t \in Scope PROVE TrackerInv(t)'
    BY SMTT(30) DEF TxInv, TrackerInv
  <1>4. ASSUME NEW t \in Scope PROVE RowsInv(t)'
    BY SMTT(30) DEF TxInv, TrackerInv, RowsInv, VerdictOf, OneHolder, HoldsRequestRow
  <1>5. ASSUME NEW t \in Scope PROVE OutcomeInv(t)'
    BY SMTT(30) DEF TxInv, TrackerInv, RowsInv, OutcomeInv, VerdictOf
  <1>6. OneHolder'
    BY SMTT(30) DEF TxInv, OneHolder, RowsInv, HoldsRequestRow
  <1>7. RegisteredIsRecorded' /\ AtMostOnce'
    BY SMTT(30) DEF TxInv, RowsInv, RegisteredIsRecorded, AtMostOnce, Effect
  <1>8. ASSUME NEW t \in Scope PROVE AnswerInv(t)'
    BY SMTT(30) DEF TxInv, AnswerInv
  <1> QED BY <1>1, <1>2, <1>3, <1>4, <1>5, <1>6, <1>7, <1>8

(* A crash forgets the scope and keeps the database.                       *)
LEMMA CrashStep ==
    ASSUME IInv, NEW s \in Scope, Crash(s) PROVE IInv'
  <1> USE RetryAssumption, RequestAssumption
      DEF IInv, TypeOK, Crash, Goto, dbVars,
          HandlerPc, LookupPc, CommitPc, PublishPc, FinalPc
  <1>1. TypeOK'
    BY SMTT(30) DEF TxInv, Pc, WritingPc, TxState, Row, Answer, LogState
  <1>2. ASSUME NEW t \in Scope PROVE TxInv(t)'
    BY SMTT(30) DEF TxInv, TrackerInv
  <1>3. ASSUME NEW t \in Scope PROVE TrackerInv(t)'
    BY SMTT(30) DEF TxInv, TrackerInv
  <1>4. ASSUME NEW t \in Scope PROVE RowsInv(t)'
    BY SMTT(30) DEF TxInv, TrackerInv, RowsInv, VerdictOf, OneHolder, HoldsRequestRow
  <1>5. ASSUME NEW t \in Scope PROVE OutcomeInv(t)'
    BY SMTT(30) DEF TxInv, TrackerInv, RowsInv, OutcomeInv, VerdictOf
  <1>6. OneHolder'
    BY SMTT(30) DEF TxInv, OneHolder, RowsInv, HoldsRequestRow
  <1>7. RegisteredIsRecorded' /\ AtMostOnce'
    BY SMTT(30) DEF TxInv, RowsInv, RegisteredIsRecorded, AtMostOnce, Effect
  <1>8. ASSUME NEW t \in Scope PROVE AnswerInv(t)'
    BY SMTT(30) DEF TxInv, AnswerInv
  <1> QED BY <1>1, <1>2, <1>3, <1>4, <1>5, <1>6, <1>7, <1>8

(* Nothing changes: the system is quiescent, or another system steps.      *)
LEMMA StutterStep == ASSUME IInv, UNCHANGED vars PROVE IInv'
  BY DEF vars, IInv, TypeOK, TxInv, TrackerInv, RowsInv, OutcomeInv, AnswerInv, VerdictOf,
         OneHolder, HoldsRequestRow, RegisteredIsRecorded, AtMostOnce

(* The invariant is inductive, hence holds in every reachable state.       *)
THEOREM Invariance == Spec => []IInv
  <1>1. Init => IInv
    BY InitIInv
  <1>2. IInv /\ [Next]_vars => IInv'
    <2> SUFFICES ASSUME IInv, [Next]_vars PROVE IInv'
      OBVIOUS
    <2>1. ASSUME NEW s \in Scope, NEW r \in RequestId, Receive(s, r) PROVE IInv'
      BY <2>1, ReceiveStep
    <2>2. ASSUME NEW s \in Scope, ReceiveWithoutId(s) PROVE IInv'
      BY <2>2, ReceiveWithoutIdStep
    <2>3. ASSUME NEW s \in Scope, Progress(s) PROVE IInv'
      <3>1. CASE Begin(s) BY <3>1, BeginStep
      <3>2. CASE BeginOnStaleField(s) BY <3>2, BeginOnStaleFieldStep
      <3>3. CASE BeginFails(s) BY <3>3, BeginFailsStep
      <3>4. CASE Exist(s) BY <3>4, ExistStep
      <3>5. CASE Recheck(s) BY <3>5, RecheckStep
      <3>6. CASE Insert(s) BY <3>6, InsertStep
      <3>7. CASE RequestManagerFails(s) BY <3>7, RequestManagerFailsStep
      <3>8. CASE AddEvent(s) BY <3>8, AddEventStep
      <3>9. CASE Load(s) BY <3>9, LoadStep
      <3>10. CASE Save(s) BY <3>10, SaveStep
      <3>11. CASE HandlerFails(s) BY <3>11, HandlerFailsStep
      <3>12. CASE Flush(s) BY <3>12, FlushStep
      <3>13. CASE Commit(s) BY <3>13, CommitStep
      <3>14. CASE CommitFails(s) BY <3>14, CommitFailsStep
      <3>15. CASE CommitUnacknowledged(s) BY <3>15, CommitUnacknowledgedStep
      <3>16. CASE Retrieve(s) BY <3>16, RetrieveStep
      <3>17. CASE MarkEventAsInProgress(s) BY <3>17, MarkEventAsInProgressStep
      <3>18. CASE Publish(s) BY <3>18, PublishStep
      <3>19. CASE MarkEventAsPublished(s) BY <3>19, MarkEventAsPublishedStep
      <3>20. CASE PublishFails(s) BY <3>20, PublishFailsStep
      <3>21. CASE MarkEventAsFailed(s) BY <3>21, MarkEventAsFailedStep
      <3>22. CASE EventLogFails(s) BY <3>22, EventLogFailsStep
      <3> QED BY <2>3, <3>1, <3>2, <3>3, <3>4, <3>5, <3>6, <3>7, <3>8, <3>9, <3>10, <3>11,
              <3>12, <3>13, <3>14, <3>15, <3>16, <3>17, <3>18, <3>19, <3>20, <3>21, <3>22 DEF Progress
    <2>4. ASSUME NEW s \in Scope, Crash(s) PROVE IInv'
      BY <2>4, CrashStep
    <2>5. CASE Quiescent \/ UNCHANGED vars
      BY <2>5, StutterStep DEF Quiescent
    <2> QED BY <2>1, <2>2, <2>3, <2>4, <2>5 DEF Next
  <1> QED BY <1>1, <1>2, PTL DEF Spec

(* Every variable keeps its type; in particular no scope runs the lambda   *)
(* of ExecuteAsync more than MaxRetryCount + 1 times.                      *)
THEOREM TypeCorrect == Spec => []TypeOK
  <1>1. IInv => TypeOK
    BY DEF IInv
  <1> QED BY <1>1, Invariance, PTL

(* A request id has at most one committed transaction that records it and  *)
(* writes an order, whatever the number of deliveries and of failures.     *)
THEOREM AtMostOnceHolds == Spec => []AtMostOnce
  <1>1. IInv => AtMostOnce
    BY DEF IInv
  <1> QED BY <1>1, Invariance, PTL

(* Ok from the first run of the lambda means that the id is recorded.      *)
THEOREM OkIsRecordedHolds == Spec => []OkIsRecorded
  <1>1. IInv => OkIsRecorded
    BY DEF IInv, AnswerInv, OkIsRecorded
  <1> QED BY <1>1, Invariance, PTL

(* No event is on the bus before its transaction, and the order it         *)
(* announces if the domain model accepted it, are committed.               *)
THEOREM PublishedIsPersistedHolds == Spec => []PublishedIsPersisted
  <1>1. IInv => PublishedIsPersisted
    <2> SUFFICES ASSUME IInv, NEW s \in bus
                 PROVE  /\ log[s] # "absent"
                        /\ req[s] \in requests
                        /\ VerdictOf(s) = "applies" =>
                             [by |-> s, id |-> req[s], registered |-> TRUE] \in effects
      BY DEF PublishedIsPersisted
    <2>1. s \in Scope
      BY DEF IInv, TypeOK
    <2>2. OutcomeInv(s)
      BY <2>1 DEF IInv
    <2> QED BY <2>2 DEF OutcomeInv
  <1> QED BY <1>1, Invariance, PTL

(* An answer other than Error leaves no unsettled event of a first run.    *)
THEOREM SettledOutboxHolds == Spec => []SettledOutbox
  <1>1. IInv => SettledOutbox
    BY DEF IInv, AnswerInv, SettledOutbox
  <1> QED BY <1>1, Invariance, PTL
----------------------------------------------------------------------------
(***************************************************************************)
(* The command pipeline implements IdempotentReceiver, for any number of   *)
(* scopes, request ids and retries, as long as no commit fails and no      *)
(* transaction dies before it.  (With those faults it does not: see        *)
(* NotPerformedTwice.)                                                     *)
(***************************************************************************)
NoCommitFails == Faults \cap {"connection", "commit"} = {}

----------------------------------------------------------------------------
(* What is true of every run of the lambda when no commit fails, and of    *)
(* the first one otherwise: it starts with an empty change tracker.  The   *)
(* field that holds a disposed transaction stops every other retry.        *)
CleanInv(s) ==
    /\ tx[s] # "dead"
    /\ pc[s] = "begin" => ~tracked[s] \/ tx[s] = "disposed"
    /\ pc[s] = "exist" => ~tracked[s]
    /\ pc[s] = "flush" => "request" \in rows[s]
    /\ pc[s] = "commit" /\ "request" \notin rows[s] => "order" \notin rows[s]
    /\ pc[s] \in CommitPc /\ result[s] => req[s] \in requests \/ "request" \in rows[s]
    /\ pc[s] \in PublishPc /\ result[s] => req[s] \in requests
    /\ answer[s] = "Ok" => req[s] \in requests

WrittenIsRecorded == \A e \in effects : e.id \in requests

RInv ==
    /\ IInv
    /\ \A s \in Scope : CleanInv(s)
    /\ WrittenIsRecorded

(* Nothing has been written or answered.                                   *)
LEMMA InitRInv == Init => RInv
  <1>1. Init => IInv
    BY InitIInv
  <1>2. ASSUME Init, NEW s \in Scope PROVE CleanInv(s)
    BY <1>2 DEF Init, CleanInv, CommitPc, PublishPc
  <1>3. Init => WrittenIsRecorded
    BY DEF Init, WrittenIsRecorded
  <1> QED BY <1>1, <1>2, <1>3 DEF RInv

----------------------------------------------------------------------------
(* An action that neither commits nor answers Ok.                          *)
LEMMA CleanStep ==
    ASSUME NoCommitFails, RInv, NEW s \in Scope,
           \/ \E r \in RequestId : Receive(s, r)
           \/ ReceiveWithoutId(s)
           \/ Progress(s)
           \/ Crash(s)
    PROVE  \A t \in Scope : CleanInv(t)'
  <1> SUFFICES ASSUME NEW t \in Scope PROVE CleanInv(t)'
    OBVIOUS
  <1> USE DEF RInv, IInv, TypeOK, NoCommitFails, Goto, Reply, dbVars,
              HandlerPc, LookupPc, CommitPc, PublishPc, FinalPc
  <1>0. CleanInv(s) /\ CleanInv(t) /\ TxInv(s) /\ TrackerInv(s) /\ RowsInv(s)
    OBVIOUS
  <1>1. ASSUME NEW r \in RequestId, Receive(s, r) PROVE CleanInv(t)'
    BY <1>0, <1>1, SMTT(20) DEF Receive, CleanInv, TxInv
  <1>2. CASE ReceiveWithoutId(s)
    BY <1>0, <1>2, SMTT(20) DEF ReceiveWithoutId, CleanInv, TxInv
  <1>3. CASE Begin(s)
    BY <1>0, <1>3, SMTT(20) DEF Begin, CleanInv
  <1>4. CASE BeginOnStaleField(s)
    BY <1>0, <1>4, SMTT(20) DEF BeginOnStaleField, CleanInv
  <1>5. CASE BeginFails(s)
    BY <1>0, <1>5, SMTT(20) DEF BeginFails, CleanInv
  <1>6. CASE Exist(s)
    BY <1>0, <1>6, SMTT(20) DEF Exist, Known, CleanInv, TrackerInv, RowsInv
  <1>7. CASE Recheck(s)
    BY <1>0, <1>7, SMTT(20) DEF Recheck, AbandonTransaction, CleanInv
  <1>8. CASE Insert(s)
    BY <1>0, <1>8, SMTT(20) DEF Insert, AbandonTransaction, CleanInv
  <1>9. CASE RequestManagerFails(s)
    BY <1>0, <1>9, SMTT(20) DEF RequestManagerFails, AbandonTransaction, Rethrow, CleanInv
  <1>10. CASE AddEvent(s)
    BY <1>0, <1>10, SMTT(20) DEF AddEvent, CleanInv, RowsInv
  <1>11. CASE Load(s)
    BY <1>0, <1>11, SMTT(20) DEF Load, CleanInv, RowsInv
  <1>12. CASE Save(s)
    BY <1>0, <1>12, SMTT(20) DEF Save, CleanInv, RowsInv
  <1>13. CASE HandlerFails(s)
    BY <1>0, <1>13, SMTT(20) DEF HandlerFails, CleanInv, RowsInv
  <1>14. CASE Flush(s)
    BY <1>0, <1>14, SMTT(20) DEF Flush, CleanInv
  <1>15. CASE Commit(s)
    BY <1>0, <1>15, SMTT(20) DEF Commit, Persist, CleanInv, TxInv
  <1>16. CASE CommitFails(s) \/ CommitUnacknowledged(s)
    BY <1>0, <1>16 DEF CommitFails, CommitUnacknowledged, CleanInv
  <1>17. CASE Retrieve(s)
    BY <1>0, <1>17, SMTT(20) DEF Retrieve, Respond, CleanInv
  <1>18. CASE MarkEventAsInProgress(s)
    BY <1>0, <1>18, SMTT(20) DEF MarkEventAsInProgress, CleanInv
  <1>19. CASE Publish(s)
    BY <1>0, <1>19, SMTT(20) DEF Publish, CleanInv
  <1>20. CASE MarkEventAsPublished(s)
    BY <1>0, <1>20, SMTT(20) DEF MarkEventAsPublished, Respond, CleanInv
  <1>21. CASE PublishFails(s)
    BY <1>0, <1>21, SMTT(20) DEF PublishFails, CleanInv
  <1>22. CASE MarkEventAsFailed(s)
    BY <1>0, <1>22, SMTT(20) DEF MarkEventAsFailed, Respond, CleanInv
  <1>23. CASE EventLogFails(s)
    BY <1>0, <1>23, SMTT(20) DEF EventLogFails, CleanInv
  <1>24. CASE Crash(s)
    BY <1>0, <1>24, SMTT(20) DEF Crash, CleanInv, TxInv
  <1> QED
    BY <1>1, <1>2, <1>3, <1>4, <1>5, <1>6, <1>7, <1>8, <1>9, <1>10, <1>11, <1>12, <1>13,
       <1>14, <1>15, <1>16, <1>17, <1>18, <1>19, <1>20, <1>21, <1>22, <1>23, <1>24
    DEF Progress

(* A commit writes an order only with its request row.                     *)
LEMMA WrittenStep ==
    ASSUME NoCommitFails, RInv, NEW s \in Scope,
           \/ \E r \in RequestId : Receive(s, r)
           \/ ReceiveWithoutId(s)
           \/ Progress(s)
           \/ Crash(s)
    PROVE  WrittenIsRecorded'
  <1>1. CASE Commit(s)
    <2>1. "request" \notin rows[s] => "order" \notin rows[s]
      BY <1>1 DEF RInv, CleanInv, Commit
    <2>2. \A e \in effects' : e \in effects \/ (e.id = req[s] /\ "order" \in rows[s])
      <3> DEFINE f == [by |-> s, id |-> req[s], registered |-> "request" \in rows[s]]
      <3>1. effects' = IF "order" \in rows[s] THEN effects \cup {f} ELSE effects
        BY <1>1 DEF Commit, Persist
      <3>2. f.id = req[s]
        OBVIOUS
      <3> HIDE DEF f
      <3> QED BY <3>1, <3>2
    <2>3. requests' = IF "request" \in rows[s] THEN requests \cup {req[s]} ELSE requests
      BY <1>1 DEF Commit, Persist
    <2> QED BY <2>1, <2>2, <2>3 DEF RInv, WrittenIsRecorded
  <1>2. CASE CommitUnacknowledged(s)
    BY <1>2 DEF NoCommitFails, CommitUnacknowledged
  <1>3. CASE ~Commit(s) /\ ~CommitUnacknowledged(s)
    <2>1. UNCHANGED <<requests, effects>>
      BY <1>3 DEF Receive, ReceiveWithoutId, Progress, Crash, dbVars,
         Begin, BeginOnStaleField, BeginFails, Exist, Recheck, Insert, RequestManagerFails,
         AddEvent, Load, Save, HandlerFails, Flush, CommitFails, Retrieve,
         MarkEventAsInProgress, Publish, MarkEventAsPublished, PublishFails,
         MarkEventAsFailed, EventLogFails
    <2> QED BY <2>1 DEF RInv, WrittenIsRecorded
  <1> QED BY <1>1, <1>2, <1>3

(* The strengthened invariant holds in every reachable state.              *)
LEMMA RInvariance == NoCommitFails => (Spec => []RInv)
  <1> SUFFICES ASSUME NoCommitFails PROVE Spec => []RInv
    OBVIOUS
  <1>1. ASSUME RInv, IInv', [Next]_vars PROVE RInv'
    <2>1. ASSUME NEW s \in Scope,
                 \/ \E r \in RequestId : Receive(s, r)
                 \/ ReceiveWithoutId(s)
                 \/ Progress(s)
                 \/ Crash(s)
          PROVE  RInv'
      BY <1>1, <2>1, CleanStep, WrittenStep DEF RInv
    <2>2. CASE Quiescent \/ UNCHANGED vars
      <3>1. UNCHANGED vars
        BY <2>2 DEF Quiescent
      <3>2. \A s \in Scope : CleanInv(s)'
        BY <1>1, <3>1 DEF RInv, CleanInv, vars
      <3>3. WrittenIsRecorded'
        BY <1>1, <3>1 DEF RInv, WrittenIsRecorded, vars
      <3> QED BY <1>1, <3>2, <3>3 DEF RInv
    <2> QED BY <1>1, <2>1, <2>2 DEF Next
  <1>2. Init => RInv
    BY InitRInv
  <1> QED BY <1>1, <1>2, Invariance, PTL DEF Spec

----------------------------------------------------------------------------
(* The refinement mapping of Receiver, by name.                            *)
Applied == {e.id : e \in effects}
Announced == {req[s] : s \in bus}
Told == {t \in Scope : answer[t] = "Ok"}
Confirmed == {req[s] : s \in Told}

(* A step of the receiver, in these names.                                 *)
LEMMA ReceiverNext ==
    ASSUME \/ UNCHANGED <<requests, Applied, Announced, Confirmed>>
           \/ \E r \in RequestId :
                \/ /\ r \notin requests
                   /\ requests' = requests \cup {r}
                   /\ Applied' \in {Applied, Applied \cup {r}}
                   /\ UNCHANGED <<Announced, Confirmed>>
                \/ /\ r \in requests
                   /\ Announced' = Announced \cup {r}
                   /\ UNCHANGED <<requests, Applied, Confirmed>>
                \/ /\ r \in requests
                   /\ Confirmed' = Confirmed \cup {r}
                   /\ UNCHANGED <<requests, Applied, Announced>>
    PROVE  [Receiver!Next]_(Receiver!vars)
  BY DEF Receiver!vars, Receiver!Next, Receiver!Execute, Receiver!Announce,
         Receiver!Confirm, Applied, Announced, Told, Confirmed

(* What a step leaves alone when it concerns the private state of a scope  *)
(* that has not been answered Ok and whose event is not on the bus.        *)
LEMMA Unseen ==
    ASSUME RInv, NEW s \in Scope, answer[s] = "none", req' \in [Scope -> RequestId \cup {NoRequest}],
           UNCHANGED <<requests, effects, bus>>,
           \A t \in Scope \ {s} : answer'[t] = answer[t] /\ req'[t] = req[t],
           answer'[s] # "Ok", s \notin bus \/ req'[s] = req[s]
    PROVE  [Receiver!Next]_(Receiver!vars)
  <1>1. Applied' = Applied
    BY DEF Applied
  <1>2. \A t \in bus : req'[t] = req[t]
    BY DEF RInv, IInv, TypeOK
  <1>3. Announced' = Announced
    BY <1>2 DEF Announced
  <1>4. Told' = Told /\ \A t \in Told : req'[t] = req[t]
    BY DEF Told
  <1>5. Confirmed' = Confirmed
    BY <1>4 DEF Confirmed
  <1> QED BY <1>1, <1>3, <1>5, ReceiverNext

(* An answer changes what the sender knows, and nothing else.              *)
LEMMA Answers ==
    ASSUME RInv, NEW s \in Scope, answer[s] = "none",
           req[s] \in requests \/ answer'[s] # "Ok",
           UNCHANGED <<req, requests, effects, bus>>,
           \A t \in Scope \ {s} : answer'[t] = answer[t]
    PROVE  [Receiver!Next]_(Receiver!vars)
  <1>1. CASE answer'[s] # "Ok"
    <2>1. req' \in [Scope -> RequestId \cup {NoRequest}]
      BY DEF RInv, IInv, TypeOK
    <2> QED BY <1>1, <2>1, Unseen
  <1>2. CASE answer'[s] = "Ok"
    <2>1. req[s] \in requests /\ req[s] \in RequestId
      BY <1>2 DEF RInv, IInv, TypeOK
    <2>2. Told' = Told \cup {s}
      BY <1>2 DEF Told
    <2>3. Confirmed' = Confirmed \cup {req[s]}
      BY <2>2 DEF Confirmed
    <2>4. UNCHANGED <<requests, Applied, Announced>>
      BY DEF Applied, Announced
    <2> QED BY <2>1, <2>3, <2>4, ReceiverNext
  <1> QED BY <1>1, <1>2

(* A commit executes the request id, or writes nothing.                    *)
LEMMA Executes ==
    ASSUME RInv, NEW s \in Scope, Commit(s)
    PROVE  [Receiver!Next]_(Receiver!vars)
  <1>1. UNCHANGED <<Announced, Confirmed>>
    BY DEF Commit, Announced, Confirmed, Told
  <1>2. CASE "request" \in rows[s]
    <2>1. req[s] \in RequestId /\ req[s] \notin requests
      BY <1>2 DEF RInv, IInv, TxInv, RowsInv, Commit
    <2>2. requests' = requests \cup {req[s]}
      BY <1>2 DEF Commit, Persist
    <2>3. Applied' \in {Applied, Applied \cup {req[s]}}
      <3> DEFINE f == [by |-> s, id |-> req[s], registered |-> "request" \in rows[s]]
      <3>1. effects' = IF "order" \in rows[s] THEN effects \cup {f} ELSE effects
        BY DEF Commit, Persist
      <3>2. f.id = req[s]
        OBVIOUS
      <3> HIDE DEF f
      <3>3. CASE "order" \in rows[s]
        <4>1. effects' = effects \cup {f}
          BY <3>1, <3>3
        <4>2. Applied' = Applied \cup {req[s]}
          BY <3>2, <4>1 DEF Applied
        <4> QED BY <4>2
      <3>4. CASE "order" \notin rows[s]
        BY <3>1, <3>4 DEF Applied
      <3> QED BY <3>3, <3>4
    <2> QED BY <1>1, <2>1, <2>2, <2>3, ReceiverNext
  <1>3. CASE "request" \notin rows[s]
    <2>1. UNCHANGED <<requests, effects>>
      BY <1>3 DEF RInv, CleanInv, Commit, Persist
    <2>2. UNCHANGED <<requests, Applied>>
      BY <2>1 DEF Applied
    <2> QED BY <1>1, <2>2, ReceiverNext
  <1> QED BY <1>2, <1>3

(* Publishing announces a request id that is executed.                     *)
LEMMA Announces ==
    ASSUME RInv, NEW s \in Scope, Publish(s)
    PROVE  [Receiver!Next]_(Receiver!vars)
  <1>1. req[s] \in RequestId /\ req[s] \in requests
    BY DEF RInv, IInv, TxInv, OutcomeInv, Publish, PublishPc
  <1>2. Announced' = Announced \cup {req[s]}
    BY DEF Publish, Announced
  <1>3. UNCHANGED <<requests, Applied, Confirmed>>
    BY DEF Publish, dbVars, Applied, Confirmed, Told
  <1> QED BY <1>1, <1>2, <1>3, ReceiverNext

(* Every step is a step of the abstract receiver, or invisible there.      *)
LEMMA StepMaps ==
    ASSUME NoCommitFails, RInv, [Next]_vars
    PROVE  [Receiver!Next]_(Receiver!vars)
  <1> USE DEF dbVars, Goto, Reply, Respond
  <1>1. ASSUME NEW s \in Scope, NEW r \in RequestId, Receive(s, r)
        PROVE  [Receiver!Next]_(Receiver!vars)
    <2>1. pc[s] = "idle" /\ answer[s] = "none" /\ s \notin bus
      BY <1>1 DEF Receive, RInv, IInv, TypeOK, TxInv, OutcomeInv, Answer
    <2>2. req' = [req EXCEPT ![s] = r]
      BY <1>1 DEF Receive
    <2>3. req' \in [Scope -> RequestId \cup {NoRequest}]
      BY <2>2 DEF RInv, IInv, TypeOK
    <2>4. \A t \in Scope \ {s} : req'[t] = req[t]
      BY <2>2 DEF RInv, IInv, TypeOK
    <2> QED BY <1>1, <2>1, <2>3, <2>4, Unseen DEF Receive
  <1>2. ASSUME NEW s \in Scope, ReceiveWithoutId(s) \/ Crash(s)
        PROVE  [Receiver!Next]_(Receiver!vars)
    <2>1. answer[s] = "none"
      BY <1>2 DEF ReceiveWithoutId, Crash, FinalPc, RInv, IInv, TxInv
    <2>2. /\ UNCHANGED <<req, requests, effects, bus>>
          /\ answer'[s] # "Ok"
          /\ \A t \in Scope \ {s} : answer'[t] = answer[t]
      BY <1>2, <2>1 DEF ReceiveWithoutId, Crash, RInv, IInv, TypeOK
    <2> QED BY <2>1, <2>2, Answers
  <1>3. ASSUME NEW s \in Scope, Progress(s)
        PROVE  [Receiver!Next]_(Receiver!vars)
    <2>1. answer[s] = "none"
      <3>1. pc[s] # "answered"
        BY <1>3 DEF Progress, Begin, BeginOnStaleField, BeginFails, Exist, Recheck, Insert,
           RequestManagerFails, AddEvent, Load, Save, HandlerFails, Flush, Commit, CommitFails,
           CommitUnacknowledged, Retrieve, MarkEventAsInProgress, Publish,
           MarkEventAsPublished, PublishFails, MarkEventAsFailed, EventLogFails
      <3> QED BY <3>1 DEF RInv, IInv, TxInv
    <2>2. CASE Begin(s) \/ BeginOnStaleField(s) \/ BeginFails(s)
      <3>1. /\ UNCHANGED <<req, requests, effects, bus>>
            /\ answer'[s] # "Ok"
            /\ \A t \in Scope \ {s} : answer'[t] = answer[t]
        BY <2>1, <2>2 DEF Begin, BeginOnStaleField, BeginFails, RInv, IInv, TypeOK
      <3> QED BY <2>1, <3>1, Answers
    <2>3. CASE \/ Exist(s) \/ Recheck(s) \/ Insert(s) \/ RequestManagerFails(s)
               \/ AddEvent(s) \/ Load(s) \/ Save(s) \/ HandlerFails(s) \/ Flush(s)
      <3>1. /\ UNCHANGED <<req, requests, effects, bus>>
            /\ answer'[s] # "Ok"
            /\ \A t \in Scope \ {s} : answer'[t] = answer[t]
        BY <2>1, <2>3
        DEF Exist, Recheck, Insert, RequestManagerFails, Rethrow, AddEvent, Load, Save,
            HandlerFails, Flush, RInv, IInv, TypeOK
      <3> QED BY <2>1, <3>1, Answers
    <2>4. CASE Commit(s)
      BY <2>4, Executes
    <2>5. CASE CommitFails(s) \/ CommitUnacknowledged(s)
      BY <2>5 DEF CommitFails, CommitUnacknowledged, NoCommitFails, RInv, CleanInv
    <2>6. CASE \/ Retrieve(s) \/ MarkEventAsInProgress(s) \/ MarkEventAsPublished(s)
               \/ PublishFails(s) \/ MarkEventAsFailed(s) \/ EventLogFails(s)
      <3>1. UNCHANGED <<req, requests, effects, bus>>
        BY <2>6 DEF Retrieve, MarkEventAsInProgress, MarkEventAsPublished, PublishFails,
           MarkEventAsFailed, EventLogFails
      <3>2. answer'[s] = "Ok" => result[s]
        BY <2>1, <2>6 DEF Retrieve, MarkEventAsInProgress, MarkEventAsPublished, PublishFails,
           MarkEventAsFailed, EventLogFails, RInv, IInv, TypeOK
      <3>3. \A t \in Scope \ {s} : answer'[t] = answer[t]
        BY <2>6 DEF Retrieve, MarkEventAsInProgress, MarkEventAsPublished, PublishFails,
           MarkEventAsFailed, EventLogFails, RInv, IInv, TypeOK
      <3>4. pc[s] \in PublishPc
        BY <2>6 DEF Retrieve, MarkEventAsInProgress, MarkEventAsPublished, PublishFails,
           MarkEventAsFailed, EventLogFails, PublishPc
      <3>5. req[s] \in requests \/ answer'[s] # "Ok"
        BY <3>2, <3>4 DEF RInv, CleanInv
      <3> QED BY <2>1, <3>1, <3>3, <3>5, Answers
    <2>7. CASE Publish(s)
      BY <2>7, Announces
    <2> QED BY <1>3, <2>2, <2>3, <2>4, <2>5, <2>6, <2>7 DEF Progress
  <1>4. CASE Quiescent \/ UNCHANGED vars
    <2>1. UNCHANGED vars
      BY <1>4 DEF Quiescent
    <2>2. UNCHANGED <<requests, Applied, Announced, Confirmed>>
      BY <2>1 DEF vars, Applied, Announced, Confirmed, Told
    <2> QED BY <2>2, ReceiverNext
  <1> QED BY <1>1, <1>2, <1>3, <1>4 DEF Next

(* Nothing is executed, announced or confirmed.                            *)
LEMMA InitMaps == Init => Receiver!Init
  BY DEF Init, Receiver!Init

(* Without commit failures the pipeline implements the abstract receiver:  *)
(* whatever else fails, crashes or is repeated, each request id is         *)
(* executed in one step and announced and confirmed only after it.         *)
THEOREM ReceiverImplemented == NoCommitFails => (Spec => ImplementsReceiver)
  <1> SUFFICES ASSUME NoCommitFails PROVE Spec => Receiver!Spec
    BY DEF ImplementsReceiver
  <1>1. RInv /\ [Next]_vars => [Receiver!Next]_(Receiver!vars)
    BY StepMaps
  <1>2. Init => Receiver!Init
    BY InitMaps
  <1>3. Spec => []RInv
    BY RInvariance
  <1> QED BY <1>1, <1>2, <1>3, PTL DEF Spec, Receiver!Spec
=============================================================================
