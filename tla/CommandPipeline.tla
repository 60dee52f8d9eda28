--------------------------- MODULE CommandPipeline ---------------------------
(***************************************************************************)
(* The command side of the Ordering service: what happens to an           *)
(* IdentifiedCommand from the moment the controller hands it to MediatR    *)
(* until its sender has an answer.                                         *)
(*                                                                         *)
(* One scope is one dependency-injection scope: one HTTP request, with its *)
(* own OrderingContext (change tracker and current transaction) and its    *)
(* own command.  Scopes run concurrently, in one service instance or in    *)
(* several, and share nothing but the database and the bus.  A sender that *)
(* got no answer, or a bad one, sends the same request id again: that is   *)
(* another scope with the same id.                                         *)
(*                                                                         *)
(* Abstracted data.  A command is what the code tells apart in it: its     *)
(* type, the order a cancellation is about, and the verdict the validators *)
(* and the domain model give (the same for every copy of the request).     *)
(* The outcome of cancelling does not depend on earlier cancellations, and *)
(* no other command changes the status of an order, so the verdict is a    *)
(* constant.  A row is the fact that it was written.                       *)
(***************************************************************************)
EXTENDS Integers, FiniteSets

CONSTANTS
    Scope,          \* request scopes
    RequestId,      \* values of the x-requestid header
    Command,        \* what each request id carries
    OrderNumber,    \* orders that cancellations name
    MaxRetryCount,  \* retries of the EF execution strategy
    Faults          \* where the infrastructure fails in this configuration

NoRequest == "no request"

CommandType == {"CreateOrder", "CancelOrder"}

(***************************************************************************)
(* invalid: the ValidatorBehavior of the inner command throws.             *)
(* missing: no such order; only CancelOrder looks one up.                  *)
(* refused: the domain model throws OrderingDomainException.               *)
(* applies: the domain model accepts.                                      *)
(***************************************************************************)
Verdict == {"invalid", "missing", "refused", "applies"}

(***************************************************************************)
(* begin: opening the transaction.  requests: the two statements of the    *)
(* RequestManager.  statement: a statement of the command handler that     *)
(* leaves the transaction usable (a command timeout).  connection: one     *)
(* that takes the transaction with it (a broken connection, XACT_ABORT).   *)
(* commit: the flush and the commit of CommitTransactionAsync.  publish:   *)
(* the event log after the commit, and the broker.                         *)
(***************************************************************************)
FaultPoint == {"begin", "requests", "statement", "connection", "commit", "publish"}

ASSUME CommandAssumption ==
    /\ Command \in [RequestId -> [type : CommandType, order : OrderNumber, verdict : Verdict]]
    /\ \A r \in RequestId : Command[r].verdict = "missing" => Command[r].type = "CancelOrder"

ASSUME RequestAssumption == NoRequest \notin RequestId

ASSUME RetryAssumption == MaxRetryCount \in Nat

ASSUME FaultAssumption == Faults \subseteq FaultPoint

VARIABLES
    pc,        \* pc[s]: the await the scope stands at
    req,       \* req[s]: the request id the scope serves
    attempt,   \* attempt[s]: executions of the lambda given to ExecuteAsync
    tx,        \* tx[s]: what OrderingContext._currentTransaction is
    rows,      \* rows[s]: what the scope's latest transaction wrote
    tracked,   \* tracked[s]: the change tracker holds the ClientRequest
    dirty,     \* dirty[s]: the change tracker holds an unsaved order
    result,    \* result[s]: the local `response` of TransactionBehaviour
    answer,    \* answer[s]: the HTTP answer
    requests,  \* committed rows of ordering.requests
    effects,   \* committed writes to ordering.orders
    log,       \* log[s]: committed state of the event log row of the scope
    bus        \* scopes whose integration event was handed to the broker

scopeVars == <<pc, req, attempt, tx, rows, tracked, dirty, result, answer>>
dbVars == <<requests, effects, log>>
vars == <<pc, req, attempt, tx, rows, tracked, dirty, result, answer,
          requests, effects, log, bus>>

(***************************************************************************)
(* begin          at BeginTransactionAsync                                 *)
(* exist          at ExistAsync of the identified handler                  *)
(* recheck        at ExistAsync of CreateRequestForCommandAsync            *)
(* insert         at SaveChangesAsync of the ClientRequest                 *)
(* addEvent       CreateOrder: at AddAndSaveEventAsync                     *)
(* load           CancelOrder: at GetAsync                                 *)
(* save           at SaveEntitiesAsync                                     *)
(* flush, commit  at the two statements of CommitTransactionAsync          *)
(* retrieve, mark, send, markPublished, markFailed                         *)
(*                the awaits of PublishEventsThroughEventBusAsync          *)
(***************************************************************************)
WritingPc == {"recheck", "insert", "addEvent", "load", "save"}
PublishPc == {"retrieve", "mark", "send", "markPublished", "markFailed"}
FinalPc == {"answered", "lost"}
Pc == {"idle", "begin", "exist", "flush", "commit"} \cup WritingPc \cup PublishPc
        \cup FinalPc

(***************************************************************************)
(* none: the field is null.  open: a usable transaction.  dead: the server *)
(* has dropped it, the client does not know yet.  disposed: the using      *)
(* statement disposed it when an exception passed, but only                *)
(* CommitTransactionAsync and RollbackTransaction reset the field.         *)
(***************************************************************************)
TxState == {"none", "open", "dead", "disposed"}
Row == {"request", "event", "order"}
LogState == {"absent", "NotPublished", "InProgress", "Published", "PublishedFailed"}
Answer == {"none", "Ok", "BadRequest", "Error"}

Effect == [by : Scope, id : RequestId, registered : BOOLEAN]

IsCreate(r) == Command[r].type = "CreateOrder"
VerdictOf(s) == Command[req[s]].verdict

----------------------------------------------------------------------------
(* Locks of the database: rows an open transaction wrote stay locked.      *)

(* As if ClientRequest had no key.                                         *)
HoldsNoRequestRow(t, r) == FALSE

HoldsRequestRow(t, r) == tx[t] = "open" /\ req[t] = r /\ "request" \in rows[t]

HoldsOrderRow(t, o) ==
    /\ tx[t] = "open"
    /\ req[t] \in RequestId
    /\ ~IsCreate(req[t])
    /\ Command[req[t]].order = o
    /\ "order" \in rows[t]

(* A CreateOrder inserts a row with a fresh key: nobody else can hold it.  *)
OrderRowFree(s) ==
    \/ IsCreate(req[s])
    \/ \A t \in Scope \ {s} : ~HoldsOrderRow(t, Command[req[s]].order)

(* EF writes nothing when the status read is already Cancelled.            *)
AlreadyCancelled(o) ==
    \E e \in effects : ~IsCreate(e.id) /\ Command[e.id].order = o

----------------------------------------------------------------------------
Goto(s, p) == pc' = [pc EXCEPT ![s] = p]

Reply(s, a) ==
    /\ Goto(s, "answered")
    /\ answer' = [answer EXCEPT ![s] = a]

(* One retry too many.                                                     *)
RethrowOnceMore(s) ==
    \/ /\ attempt[s] <= MaxRetryCount + 1
       /\ Goto(s, "begin")
       /\ UNCHANGED answer
    \/ Reply(s, "Error")

(* An exception reaches the execution strategy: a transient one runs the   *)
(* lambda again, on the same OrderingContext, while retries are left.      *)
Rethrow(s) ==
    \/ /\ attempt[s] <= MaxRetryCount
       /\ Goto(s, "begin")
       /\ UNCHANGED answer
    \/ Reply(s, "Error")

(* As if the transaction were not in a using statement.                    *)
LeakTransaction(s) == UNCHANGED <<tx, rows>>

(* The exception leaves the using block before the commit: the transaction *)
(* is rolled back and disposed, the field keeps it.                        *)
AbandonTransaction(s) ==
    /\ tx' = [tx EXCEPT ![s] = "disposed"]
    /\ rows' = [rows EXCEPT ![s] = {}]

(* CommitTransactionAsync's catch and finally: rolled back, field null.    *)
RollbackTransaction(s) ==
    /\ tx' = [tx EXCEPT ![s] = "none"]
    /\ rows' = [rows EXCEPT ![s] = {}]

(* What becomes visible when the transaction of s commits.                 *)
Persist(s) ==
    /\ requests' = IF "request" \in rows[s] THEN requests \cup {req[s]} ELSE requests
    /\ effects' = IF "order" \in rows[s]
                  THEN effects \cup {[by |-> s, id |-> req[s],
                                      registered |-> "request" \in rows[s]]}
                  ELSE effects
    /\ log' = IF "event" \in rows[s] THEN [log EXCEPT ![s] = "NotPublished"] ELSE log

----------------------------------------------------------------------------
Init ==
    /\ pc = [s \in Scope |-> "idle"]
    /\ req = [s \in Scope |-> NoRequest]
    /\ attempt = [s \in Scope |-> 0]
    /\ tx = [s \in Scope |-> "none"]
    /\ rows = [s \in Scope |-> {}]
    /\ tracked = [s \in Scope |-> FALSE]
    /\ dirty = [s \in Scope |-> FALSE]
    /\ result = [s \in Scope |-> FALSE]
    /\ answer = [s \in Scope |-> "none"]
    /\ requests = {}
    /\ effects = {}
    /\ log = [s \in Scope |-> "absent"]
    /\ bus = {}

(* The controller wraps the command with the request id and sends it.      *)
Receive(s, r) ==
    /\ pc[s] = "idle"
    /\ req' = [req EXCEPT ![s] = r]
    /\ Goto(s, "begin")
    /\ UNCHANGED <<attempt, tx, rows, tracked, dirty, result, answer, dbVars, bus>>

(* No request id, or one that is not a Guid: nothing is sent.              *)
ReceiveWithoutId(s) ==
    /\ pc[s] = "idle"
    /\ Reply(s, "BadRequest")
    /\ UNCHANGED <<req, attempt, tx, rows, tracked, dirty, result, dbVars, bus>>

Begin(s) ==
    /\ pc[s] = "begin"
    /\ tx[s] = "none"
    /\ attempt' = [attempt EXCEPT ![s] = @ + 1]
    /\ tx' = [tx EXCEPT ![s] = "open"]
    /\ rows' = [rows EXCEPT ![s] = {}]
    /\ Goto(s, "exist")
    /\ UNCHANGED <<req, tracked, dirty, result, answer, dbVars, bus>>

(* BeginTransactionAsync returns null when the field still holds the       *)
(* disposed transaction of the failed run: reading its TransactionId       *)
(* throws, and no retry is left to help.                                   *)
BeginOnStaleField(s) ==
    /\ pc[s] = "begin"
    /\ tx[s] = "disposed"
    /\ attempt' = [attempt EXCEPT ![s] = @ + 1]
    /\ Reply(s, "Error")
    /\ UNCHANGED <<req, tx, rows, tracked, dirty, result, dbVars, bus>>

BeginFails(s) ==
    /\ "begin" \in Faults
    /\ pc[s] = "begin"
    /\ tx[s] = "none"
    /\ attempt' = [attempt EXCEPT ![s] = @ + 1]
    /\ \/ /\ attempt[s] < MaxRetryCount
          /\ UNCHANGED <<pc, answer>>
       \/ Reply(s, "Error")
    /\ UNCHANGED <<req, tx, rows, tracked, dirty, result, dbVars, bus>>

(* As if the transaction were opened with IsolationLevel.ReadUncommitted.  *)
KnownUncommitted(s) ==
    \/ tracked[s]
    \/ req[s] \in requests
    \/ \E t \in Scope \ {s} : HoldsRequestRow(t, req[s])

(* FindAsync looks in the change tracker first, then reads committed rows. *)
Known(s) == tracked[s] \/ req[s] \in requests

(* ExistAsync of the identified handler.  A request id that is known gets  *)
(* the duplicate answer, true; the transaction still commits.              *)
Exist(s) ==
    /\ pc[s] = "exist"
    /\ IF Known(s)
       THEN /\ result' = [result EXCEPT ![s] = TRUE]
            /\ Goto(s, IF dirty[s] THEN "flush" ELSE "commit")
       ELSE /\ Goto(s, "recheck")
            /\ UNCHANGED result
    /\ UNCHANGED <<req, attempt, tx, rows, tracked, dirty, answer, dbVars, bus>>

(* CreateRequestForCommandAsync looks again and throws                     *)
(* OrderingDomainException, which the exception filter answers with 400.   *)
Recheck(s) ==
    /\ pc[s] = "recheck"
    /\ IF Known(s)
       THEN /\ Reply(s, "BadRequest")
            /\ AbandonTransaction(s)
       ELSE /\ Goto(s, "insert")
            /\ UNCHANGED <<tx, rows, answer>>
    /\ UNCHANGED <<req, attempt, tracked, dirty, result, dbVars, bus>>

(* The INSERT waits for a transaction that holds the same key, and fails   *)
(* on the primary key when that one has committed.  When it succeeds the   *)
(* inner command is sent: its behaviours see an active transaction, and    *)
(* its validators may throw, which the identified handler turns into false.*)
Insert(s) ==
    /\ pc[s] = "insert"
    /\ \A t \in Scope \ {s} : ~HoldsRequestRow(t, req[s])
    /\ tracked' = [tracked EXCEPT ![s] = TRUE]
    /\ IF req[s] \in requests
       THEN /\ Reply(s, "Error")
            /\ AbandonTransaction(s)
       ELSE /\ rows' = [rows EXCEPT ![s] = @ \cup {"request"}]
            /\ Goto(s, CASE VerdictOf(s) = "invalid" -> "commit"
                         [] VerdictOf(s) # "invalid" /\ IsCreate(req[s]) -> "addEvent"
                         [] OTHER -> "load")
            /\ UNCHANGED <<tx, answer>>
    /\ UNCHANGED <<req, attempt, dirty, result, dbVars, bus>>

(* A statement of the RequestManager fails, outside the handler's try.     *)
RequestManagerFails(s) ==
    /\ "requests" \in Faults
    /\ pc[s] \in {"exist", "recheck", "insert"}
    /\ pc[s] # "insert" => ~tracked[s]
    /\ tracked' = [tracked EXCEPT ![s] = @ \/ pc[s] = "insert"]
    /\ AbandonTransaction(s)
    /\ Rethrow(s)
    /\ UNCHANGED <<req, attempt, dirty, result, dbVars, bus>>

(* CreateOrderCommandHandler: the integration event goes to the log first, *)
(* in the current transaction.  Then the order is built in memory: the     *)
(* domain model may refuse it, and otherwise it is added to the context.   *)
AddEvent(s) ==
    /\ pc[s] = "addEvent"
    /\ rows' = [rows EXCEPT ![s] = @ \cup {"event"}]
    /\ IF VerdictOf(s) = "applies"
       THEN /\ dirty' = [dirty EXCEPT ![s] = TRUE]
            /\ Goto(s, "save")
       ELSE /\ Goto(s, "commit")
            /\ UNCHANGED dirty
    /\ UNCHANGED <<req, attempt, tx, tracked, result, answer, dbVars, bus>>

(* CancelOrderCommandHandler: null gives false, SetCancelledStatus may     *)
(* throw, and otherwise changes the order.                                 *)
Load(s) ==
    /\ pc[s] = "load"
    /\ IF VerdictOf(s) = "applies"
       THEN /\ IF AlreadyCancelled(Command[req[s]].order)
               THEN UNCHANGED dirty
               ELSE dirty' = [dirty EXCEPT ![s] = TRUE]
            /\ Goto(s, "save")
       ELSE /\ Goto(s, "commit")
            /\ UNCHANGED dirty
    /\ UNCHANGED <<req, attempt, tx, rows, tracked, result, answer, dbVars, bus>>

(* SaveEntitiesAsync: the domain events are dispatched (none of them has a *)
(* handler), the order is written, and the handler returns true.           *)
Save(s) ==
    /\ pc[s] = "save"
    /\ IF dirty[s]
       THEN /\ OrderRowFree(s)
            /\ rows' = [rows EXCEPT ![s] = @ \cup {"order"}]
            /\ dirty' = [dirty EXCEPT ![s] = FALSE]
       ELSE UNCHANGED <<rows, dirty>>
    /\ result' = [result EXCEPT ![s] = TRUE]
    /\ Goto(s, "commit")
    /\ UNCHANGED <<req, attempt, tx, tracked, answer, dbVars, bus>>

(* A statement of the handler fails: the identified handler swallows the   *)
(* exception and returns false, and the change tracker keeps its entities. *)
HandlerFails(s) ==
    /\ pc[s] \in {"addEvent", "load", "save"}
    /\ pc[s] = "save" => dirty[s]
    /\ \/ /\ "statement" \in Faults
          /\ UNCHANGED <<tx, rows>>
       \/ /\ "connection" \in Faults
          /\ tx' = [tx EXCEPT ![s] = "dead"]
          /\ rows' = [rows EXCEPT ![s] = {}]
    /\ Goto(s, IF dirty[s] THEN "flush" ELSE "commit")
    /\ UNCHANGED <<req, attempt, tracked, dirty, result, answer, dbVars, bus>>

(* A commit without the SaveChangesAsync before it.                        *)
FlushNothing(s) ==
    /\ pc[s] = "flush"
    /\ tx[s] = "open"
    /\ Goto(s, "commit")
    /\ UNCHANGED <<req, attempt, tx, rows, tracked, dirty, result, answer, dbVars, bus>>

(* CommitTransactionAsync saves once more what the tracker still holds.    *)
Flush(s) ==
    /\ pc[s] = "flush"
    /\ tx[s] = "open"
    /\ OrderRowFree(s)
    /\ rows' = [rows EXCEPT ![s] = @ \cup {"order"}]
    /\ dirty' = [dirty EXCEPT ![s] = FALSE]
    /\ Goto(s, "commit")
    /\ UNCHANGED <<req, attempt, tx, tracked, result, answer, dbVars, bus>>

Commit(s) ==
    /\ pc[s] = "commit"
    /\ tx[s] = "open"
    /\ Persist(s)
    /\ tx' = [tx EXCEPT ![s] = "none"]
    /\ Goto(s, "retrieve")
    /\ UNCHANGED <<req, attempt, rows, tracked, dirty, result, answer, bus>>

(* The flush or the commit throws; RollbackTransaction resets the field,   *)
(* so that a retry runs the lambda on a context that still tracks the      *)
(* ClientRequest.                                                          *)
CommitFails(s) ==
    /\ pc[s] \in {"flush", "commit"}
    /\ "commit" \in Faults \/ tx[s] = "dead"
    /\ RollbackTransaction(s)
    /\ Rethrow(s)
    /\ UNCHANGED <<req, attempt, tracked, dirty, result, dbVars, bus>>

(* The commit reached the server, its acknowledgement did not come back.   *)
CommitUnacknowledged(s) ==
    /\ "commit" \in Faults
    /\ pc[s] = "commit"
    /\ tx[s] = "open"
    /\ Persist(s)
    /\ RollbackTransaction(s)
    /\ Rethrow(s)
    /\ UNCHANGED <<req, attempt, tracked, dirty, result, bus>>

Respond(s) == Reply(s, IF result[s] THEN "Ok" ELSE "BadRequest")

(* The events of this transaction that are NotPublished: one, if the       *)
(* command handler logged it.                                              *)
Retrieve(s) ==
    /\ pc[s] = "retrieve"
    /\ IF "event" \in rows[s]
       THEN /\ Goto(s, "mark")
            /\ UNCHANGED answer
       ELSE Respond(s)
    /\ UNCHANGED <<req, attempt, tx, rows, tracked, dirty, result, dbVars, bus>>

MarkEventAsInProgress(s) ==
    /\ pc[s] = "mark"
    /\ log' = [log EXCEPT ![s] = "InProgress"]
    /\ Goto(s, "send")
    /\ UNCHANGED <<req, attempt, tx, rows, tracked, dirty, result, answer,
                   requests, effects, bus>>

Publish(s) ==
    /\ pc[s] = "send"
    /\ bus' = bus \cup {s}
    /\ Goto(s, "markPublished")
    /\ UNCHANGED <<req, attempt, tx, rows, tracked, dirty, result, answer, dbVars>>

MarkEventAsPublished(s) ==
    /\ pc[s] = "markPublished"
    /\ log' = [log EXCEPT ![s] = "Published"]
    /\ Respond(s)
    /\ UNCHANGED <<req, attempt, tx, rows, tracked, dirty, result,
                   requests, effects, bus>>

(* A catch block that logs and does not mark the event.                    *)
PublishFailsUnmarked(s) ==
    /\ "publish" \in Faults
    /\ pc[s] \in {"mark", "send", "markPublished"}
    /\ Respond(s)
    /\ UNCHANGED <<req, attempt, tx, rows, tracked, dirty, result, dbVars, bus>>

(* Any of the three awaits of the loop's try block throws.                 *)
PublishFails(s) ==
    /\ "publish" \in Faults
    /\ pc[s] \in {"mark", "send", "markPublished"}
    /\ Goto(s, "markFailed")
    /\ UNCHANGED <<req, attempt, tx, rows, tracked, dirty, result, answer, dbVars, bus>>

MarkEventAsFailed(s) ==
    /\ pc[s] = "markFailed"
    /\ log' = [log EXCEPT ![s] = "PublishedFailed"]
    /\ Respond(s)
    /\ UNCHANGED <<req, attempt, tx, rows, tracked, dirty, result,
                   requests, effects, bus>>

(* The event log context has no execution strategy of its own: what it     *)
(* throws outside the try block is not retried, although the command is    *)
(* committed.                                                              *)
EventLogFails(s) ==
    /\ "publish" \in Faults
    /\ pc[s] \in {"retrieve", "markFailed"}
    /\ Reply(s, "Error")
    /\ UNCHANGED <<req, attempt, tx, rows, tracked, dirty, result, dbVars, bus>>

(* The process stops: the server rolls back what was not committed and     *)
(* nobody answers the sender.                                              *)
Crash(s) ==
    /\ pc[s] \notin FinalPc \cup {"idle"}
    /\ Goto(s, "lost")
    /\ tx' = [tx EXCEPT ![s] = "none"]
    /\ rows' = [rows EXCEPT ![s] = {}]
    /\ tracked' = [tracked EXCEPT ![s] = FALSE]
    /\ dirty' = [dirty EXCEPT ![s] = FALSE]
    /\ result' = [result EXCEPT ![s] = FALSE]
    /\ UNCHANGED <<req, attempt, answer, dbVars, bus>>

Progress(s) ==
    \/ Begin(s) \/ BeginOnStaleField(s) \/ BeginFails(s)
    \/ Exist(s) \/ Recheck(s) \/ Insert(s) \/ RequestManagerFails(s)
    \/ AddEvent(s) \/ Load(s) \/ Save(s) \/ HandlerFails(s)
    \/ Flush(s) \/ Commit(s) \/ CommitFails(s) \/ CommitUnacknowledged(s)
    \/ Retrieve(s) \/ MarkEventAsInProgress(s) \/ Publish(s)
    \/ MarkEventAsPublished(s) \/ PublishFails(s) \/ MarkEventAsFailed(s)
    \/ EventLogFails(s)

(* No more deliveries: the only way to stop without being stuck.           *)
Quiescent ==
    /\ \A s \in Scope : pc[s] \in FinalPc
    /\ UNCHANGED vars

Next ==
    \/ \E s \in Scope :
        \/ \E r \in RequestId : Receive(s, r)
        \/ ReceiveWithoutId(s)
        \/ Progress(s)
        \/ Crash(s)
    \/ Quiescent

Spec == Init /\ [][Next]_vars

(* The thread pool keeps running a scope whose await can complete: a scope *)
(* that can progress, by success or by failure, does.                      *)
Fairness == \A s \in Scope : WF_vars(Progress(s))

FairSpec == Spec /\ Fairness

----------------------------------------------------------------------------
TypeOK ==
    /\ pc \in [Scope -> Pc]
    /\ req \in [Scope -> RequestId \cup {NoRequest}]
    /\ attempt \in [Scope -> 0 .. MaxRetryCount + 1]
    /\ tx \in [Scope -> TxState]
    /\ rows \in [Scope -> SUBSET Row]
    /\ tracked \in [Scope -> BOOLEAN]
    /\ dirty \in [Scope -> BOOLEAN]
    /\ result \in [Scope -> BOOLEAN]
    /\ answer \in [Scope -> Answer]
    /\ requests \subseteq RequestId
    /\ effects \subseteq Effect
    /\ log \in [Scope -> LogState]
    /\ bus \subseteq Scope

----------------------------------------------------------------------------
(* However many deliveries of a request id race, fail or crash, at most    *)
(* one committed transaction both records the id and writes ordering.orders*)
(* for it; and an order is written without its id only by a scope whose    *)
(* lambda the execution strategy ran again.  (That second case does break  *)
(* the promise: see NotPerformedTwice.)                                    *)
AtMostOnce ==
    /\ \A e, f \in effects : e.id = f.id /\ e.registered /\ f.registered => e = f
    /\ \A e \in effects : e.registered \/ attempt[e.by] > 1

(* A sender that is told Ok can forget the request: its id is recorded, by *)
(* this delivery or by the one it duplicates, unless the lambda ran again. *)
OkIsRecorded ==
    \A s \in Scope :
        answer[s] = "Ok" /\ attempt[s] = 1 => req[s] \in requests

(* OrderStartedIntegrationEvent reaches the broker only after the          *)
(* transaction that logged it has committed, with the request id, and, if  *)
(* the domain model accepted the order, with the order: also when the      *)
(* handler's own save failed and the commit had to save it.                *)
PublishedIsPersisted ==
    \A s \in bus :
        /\ log[s] # "absent"
        /\ req[s] \in requests
        /\ VerdictOf(s) = "applies" =>
              [by |-> s, id |-> req[s], registered |-> TRUE] \in effects

(* An answer other than Error leaves no event of the scope behind in the   *)
(* states nobody looks at again: the row says Published, and then the      *)
(* message is on the bus, or it says PublishedFailed.                      *)
SettledOutbox ==
    /\ \A s \in Scope :
        answer[s] \in {"Ok", "BadRequest"} /\ attempt[s] = 1
            => log[s] \notin {"NotPublished", "InProgress"}
    /\ \A s \in Scope : log[s] = "Published" => s \in bus

(* Every scope that starts ends: no two transactions wait for each other's *)
(* rows for ever, and the retries are finitely many.                       *)
EveryRequestEnds ==
    \A s \in Scope : pc[s] = "begin" ~> pc[s] \in FinalPc

(* Without commit failures the pipeline implements the abstract receiver.  *)
Receiver == INSTANCE IdempotentReceiver WITH
    executed <- requests,
    applied <- {e.id : e \in effects},
    announced <- {req[s] : s \in bus},
    confirmed <- {req[s] : s \in {t \in Scope : answer[t] = "Ok"}}

(* Each committed transaction executes one new request id or changes       *)
(* nothing a sender can see; events and Ok answers come after it.          *)
ImplementsReceiver == Receiver!Spec

(* DomainVsIntegrationEvents.md: "you should not publish integration       *)
(* events until you are 100% sure that your original operation, the event, *)
(* really happened in the past. That means it was persisted".              *)
StartedOrderExists ==
    \A s \in bus : \E e \in effects : e.id = req[s]

(* Ordering.Infrastructure/README.md, Idempotency: "identical commands     *)
(* will not run be performed twice on the database".                       *)
NotPerformedTwice ==
    \A e, f \in effects : e.id = f.id => e = f
=============================================================================
