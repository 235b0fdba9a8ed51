----------------------------- MODULE ActionNode -----------------------------
(***************************************************************************)
(* ActionNodeServer (nwp/action_node_server.go): /invoke with its          *)
(* idempotency cache, asynchronous tasks, system.task.cancel and the two   *)
(* in-memory stores.                                                       *)
(*                                                                         *)
(* Each store call holds that store's mutex and is a step of its own; the  *)
(* handler goroutines, the task goroutines, the providers and the cancel   *)
(* handlers interleave between those calls.  A request that creates a task *)
(* gives it its own name, for randomHex never repeats.                     *)
(***************************************************************************)
EXTENDS Integers, FiniteSets

CONSTANTS
  Req,                           \* requests to /invoke
  Key, NoKey,                    \* idempotency keys (scoped to the caller), and none
  IdempotencyTTL, TaskRetention, \* ActionNodeOptions
  MaxTime                        \* model bound

ASSUME ActionNames == NoKey \notin Key
ASSUME ActionOptions == IdempotencyTTL \in Nat \ {0} /\ TaskRetention \in Nat /\ MaxTime \in Nat

Terminal == {"completed", "failed", "cancelled"}
Status == Terminal \cup {"absent", "pending", "running"}

Request == [async : BOOLEAN, key : Key \cup {NoKey}]
Task == [status : Status, updatedAt : Nat]
Entry == [kind : {"none", "task", "result"}, by : Req, expiresAt : Nat]

\* Handler: where the goroutine serving the request is.
Handler == {"idle", "lookup", "replay", "create", "store", "spawn", "select", "cache", "done"}
\* Runner: where runAsyncTask is.
Runner == {"none", "start", "select", "complete", "check", "fail", "ended"}
Answer == {"none", "refused", "conflict", "accepted", "result", "replayed", "error"} \cup Status

VARIABLES
  req,         \* what each request asked
  handler,     \* its handler's place
  cached,      \* the task a cache hit names
  answer,      \* what its caller was told; a replay of a task tells its status
  runner,      \* runAsyncTask's place
  exec,        \* the goroutine in provider.Execute: none, running, ok, err
  ctx,         \* its context: live, deadline, cancelled
  registered,  \* s.taskCancels
  tasks,       \* InMemoryActionTaskStore
  entries,     \* InMemoryIdempotencyCache; kind none = not in the map
  cancel,      \* a system.task.cancel for the task: none, found, stored, told
  now

vars == <<req, handler, cached, answer, runner, exec, ctx, registered, tasks, entries, cancel, now>>

NoEntry == [kind |-> "none", by |-> CHOOSE r \in Req : TRUE, expiresAt |-> 0]

Init ==
  /\ req = [r \in Req |-> [async |-> FALSE, key |-> NoKey]]
  /\ handler = [r \in Req |-> "idle"] /\ cached = [r \in Req |-> r] /\ answer = [r \in Req |-> "none"]
  /\ runner = [r \in Req |-> "none"] /\ exec = [r \in Req |-> "none"] /\ ctx = [r \in Req |-> "live"]
  /\ registered = {} /\ cancel = [r \in Req |-> "none"]
  /\ tasks = [r \in Req |-> [status |-> "absent", updatedAt |-> 0]]
  /\ entries = [k \in Key |-> NoEntry]
  /\ now = 0

Goto(r, place) == handler' = [handler EXCEPT ![r] = place]
Tell(r, what) == answer' = [answer EXCEPT ![r] = what]
Finish(r, what) == Goto(r, "done") /\ Tell(r, what)

-----------------------------------------------------------------------------
(* The stores' operations.                                                 *)

isTerminal(status) == status \in Terminal

\* A new status, unless the record is gone or ended: Complete, Fail and Cancel.
Settle_Always(r, status) ==
  tasks' = IF tasks[r].status = "absent" THEN tasks
           ELSE [tasks EXCEPT ![r] = [status |-> status, updatedAt |-> now]]

Settle(r, status) ==
  tasks' = IF tasks[r].status = "absent" \/ isTerminal(tasks[r].status) THEN tasks
           ELSE [tasks EXCEPT ![r] = [status |-> status, updatedAt |-> now]]

LiveEntry(k) == entries[k].kind # "none" /\ entries[k].expiresAt > now

\* TryStore; its result, false for other params, is used by no caller.
TryStore_Last(k, kind, r) ==
  entries' = [entries EXCEPT ![k] = [kind |-> kind, by |-> r,
                                     expiresAt |-> now + IdempotencyTTL]]

TryStore(k, kind, r) ==
  entries' = IF LiveEntry(k) THEN entries
             ELSE [entries EXCEPT ![k] = [kind |-> kind, by |-> r,
                                          expiresAt |-> now + IdempotencyTTL]]

-----------------------------------------------------------------------------
(* handleInvoke.                                                           *)

\* Decoding, the registry, priority, callback_url and Authorize may all refuse.
Arrive(r) ==
  /\ handler[r] = "idle"
  /\ \/ /\ \E q \in Request : req' = [req EXCEPT ![r] = q]
        /\ Goto(r, "lookup") /\ UNCHANGED answer
     \/ Finish(r, "refused") /\ UNCHANGED req
  /\ UNCHANGED <<cached, runner, exec, ctx, registered, tasks, entries, cancel, now>>

Fresh(r) == Goto(r, IF req[r].async THEN "create" ELSE "select")

\* idempotency.Get deletes an expired entry; a live one answers the request, with
\* a conflict when it was stored for other params.
Lookup(r) ==
  /\ handler[r] = "lookup"
  /\ LET k == req[r].key IN
     \/ /\ k = NoKey
        /\ Fresh(r) /\ UNCHANGED <<cached, answer, entries>>
     \/ /\ k # NoKey /\ ~LiveEntry(k)
        /\ entries' = [entries EXCEPT ![k] = NoEntry]
        /\ Fresh(r) /\ UNCHANGED <<cached, answer>>
     \/ /\ k # NoKey /\ LiveEntry(k)
        /\ cached' = [cached EXCEPT ![r] = entries[k].by]
        /\ UNCHANGED entries
        /\ \/ Finish(r, "conflict")
           \/ entries[k].kind = "task" /\ Goto(r, "replay") /\ UNCHANGED answer
           \/ entries[k].kind = "result" /\ Finish(r, "replayed")
  /\ exec' = IF handler'[r] = "select" THEN [exec EXCEPT ![r] = "running"] ELSE exec
  /\ UNCHANGED <<req, runner, ctx, registered, tasks, cancel, now>>

\* The replayed task's status, "pending" when the store no longer has it.
Replay(r) ==
  /\ handler[r] = "replay"
  /\ LET t == tasks[cached[r]].status
     IN  Finish(r, IF t = "absent" THEN "pending" ELSE t)
  /\ UNCHANGED <<req, cached, runner, exec, ctx, registered, tasks, entries, cancel, now>>

Create(r) ==
  /\ handler[r] = "create"
  /\ tasks' = [tasks EXCEPT ![r] = [status |-> "pending", updatedAt |-> now]]
  /\ Goto(r, IF req[r].key = NoKey THEN "spawn" ELSE "store")
  /\ UNCHANGED <<req, cached, answer, runner, exec, ctx, registered, entries, cancel, now>>

StoreTask(r) ==
  /\ handler[r] = "store"
  /\ TryStore(req[r].key, "task", r)
  /\ Goto(r, "spawn")
  /\ UNCHANGED <<req, cached, answer, runner, exec, ctx, registered, tasks, cancel, now>>

\* registerTaskCancel, go runAsyncTask, then the 202 answer.
Spawn(r) ==
  /\ handler[r] = "spawn"
  /\ registered' = registered \cup {r}
  /\ runner' = [runner EXCEPT ![r] = "start"]
  /\ Finish(r, "accepted")
  /\ UNCHANGED <<req, cached, exec, ctx, tasks, entries, cancel, now>>

\* executeWithContext takes whichever is ready: the context or the outcome.
\* A stream that ends without its terminal frame is an error, and not cached.
SyncSelect(r) ==
  /\ handler[r] = "select"
  /\ \/ /\ ctx[r] # "live" \/ exec[r] \in {"ok", "err"}
        /\ Finish(r, "error")
     \/ /\ exec[r] = "ok" /\ req[r].key = NoKey
        /\ Finish(r, "result")
     \/ /\ exec[r] = "ok" /\ req[r].key # NoKey
        /\ Goto(r, "cache") /\ UNCHANGED answer
  /\ UNCHANGED <<req, cached, runner, exec, ctx, registered, tasks, entries, cancel, now>>

CacheResult(r) ==
  /\ handler[r] = "cache"
  /\ TryStore(req[r].key, "result", r)
  /\ Finish(r, "result")
  /\ UNCHANGED <<req, cached, runner, exec, ctx, registered, tasks, cancel, now>>

Invoke(r) ==
  \/ Arrive(r) \/ Lookup(r) \/ Replay(r)
  \/ Create(r) \/ StoreTask(r) \/ Spawn(r)
  \/ SyncSelect(r) \/ CacheResult(r)

-----------------------------------------------------------------------------
(* runAsyncTask.                                                           *)

Run(r, place) == runner' = [runner EXCEPT ![r] = place]

\* The deferred unregisterTaskCancel.
RunEnds_StillRegistered(r) == Run(r, "ended") /\ UNCHANGED registered

RunEnds(r) == Run(r, "ended") /\ registered' = registered \ {r}

\* TryTransition pending -> running; a task cancelled before it started is left.
RunStart(r) ==
  /\ runner[r] = "start"
  /\ IF tasks[r].status = "pending"
     THEN /\ tasks' = [tasks EXCEPT ![r] = [status |-> "running", updatedAt |-> now]]
          /\ exec' = [exec EXCEPT ![r] = "running"]
          /\ Run(r, "select") /\ UNCHANGED registered
     ELSE RunEnds(r) /\ UNCHANGED <<tasks, exec>>
  /\ UNCHANGED <<req, handler, cached, answer, ctx, entries, cancel, now>>

RunSelect_OutcomeOnly(r) ==
  /\ runner[r] = "select" /\ exec[r] \in {"ok", "err"}
  /\ Run(r, IF exec[r] = "ok" THEN "complete" ELSE "check")
  /\ UNCHANGED <<req, handler, cached, answer, exec, ctx, registered, tasks, entries, cancel, now>>

RunSelect(r) ==
  /\ runner[r] = "select"
  /\ \/ exec[r] = "ok" /\ Run(r, "complete")
     \/ (ctx[r] # "live" \/ exec[r] = "err") /\ Run(r, "check")
  /\ UNCHANGED <<req, handler, cached, answer, exec, ctx, registered, tasks, entries, cancel, now>>

RunComplete(r) ==
  /\ runner[r] = "complete"
  /\ Settle(r, "completed") /\ RunEnds(r)
  /\ UNCHANGED <<req, handler, cached, answer, exec, ctx, entries, cancel, now>>

\* A cancelled task keeps its status: read, then Fail.
RunCheck(r) ==
  /\ runner[r] = "check"
  /\ IF tasks[r].status = "cancelled" THEN RunEnds(r) ELSE Run(r, "fail") /\ UNCHANGED registered
  /\ UNCHANGED <<req, handler, cached, answer, exec, ctx, tasks, entries, cancel, now>>

RunFail(r) ==
  /\ runner[r] = "fail"
  /\ Settle(r, "failed") /\ RunEnds(r)
  /\ UNCHANGED <<req, handler, cached, answer, exec, ctx, entries, cancel, now>>

RunAsyncTask(r) == RunStart(r) \/ RunSelect(r) \/ RunComplete(r) \/ RunCheck(r) \/ RunFail(r)

-----------------------------------------------------------------------------
(* system.task.cancel, once by the owner.                                  *)

\* The 202 names the task, and so does a replay, perhaps before it.
Named(r) == answer[r] = "accepted" \/ \E s \in Req : cached[s] = r /\ answer[s] \in Status

CancelFind(r) ==
  /\ cancel[r] = "none" /\ Named(r)
  /\ tasks[r].status # "absent" /\ ~isTerminal(tasks[r].status)
  /\ cancel' = [cancel EXCEPT ![r] = "found"]
  /\ UNCHANGED <<req, handler, cached, answer, runner, exec, ctx, registered, tasks, entries, now>>

\* taskStore.Cancel, whose result is not looked at.
CancelStore_Skipped(r) ==
  /\ cancel[r] = "found"
  /\ cancel' = [cancel EXCEPT ![r] = "stored"]
  /\ UNCHANGED <<req, handler, cached, answer, runner, exec, ctx, registered, tasks, entries, now>>

CancelStore(r) ==
  /\ cancel[r] = "found"
  /\ Settle(r, "cancelled")
  /\ cancel' = [cancel EXCEPT ![r] = "stored"]
  /\ UNCHANGED <<req, handler, cached, answer, runner, exec, ctx, registered, entries, now>>

\* cancelTask, then the answer "cancelled".
CancelContext(r) ==
  /\ cancel[r] = "stored"
  /\ ctx' = IF r \in registered /\ ctx[r] = "live" THEN [ctx EXCEPT ![r] = "cancelled"] ELSE ctx
  /\ cancel' = [cancel EXCEPT ![r] = "told"]
  /\ UNCHANGED <<req, handler, cached, answer, runner, exec, registered, tasks, entries, now>>

-----------------------------------------------------------------------------
(* The provider, the clock and the host.                                   *)

ProviderEnds(r) ==
  /\ exec[r] = "running"
  /\ \E outcome \in {"ok", "err"} : exec' = [exec EXCEPT ![r] = outcome]
  /\ UNCHANGED <<req, handler, cached, answer, runner, ctx, registered, tasks, entries, cancel, now>>

\* UpdateProgress looks only for the record, not at its status.
Progress(r) ==
  /\ exec[r] = "running" /\ tasks[r].status # "absent"
  /\ tasks' = [tasks EXCEPT ![r].updatedAt = now]
  /\ UNCHANGED <<req, handler, cached, answer, runner, exec, ctx, registered, entries, cancel, now>>

\* The timeout, running while the request or its task is; a caller that goes
\* away ends a synchronous one the same way.
Serving(r) == handler[r] = "select" \/ runner[r] \in {"start", "select"}

Deadline(r) ==
  /\ Serving(r) /\ ctx[r] = "live"
  /\ ctx' = [ctx EXCEPT ![r] = "deadline"]
  /\ UNCHANGED <<req, handler, cached, answer, runner, exec, registered, tasks, entries, cancel, now>>

\* PurgeExpired of each store, whenever the host calls it.
Purgeable(t) == isTerminal(t.status) /\ t.updatedAt < now - TaskRetention

PurgeTasks ==
  /\ tasks' = [r \in Req |-> IF Purgeable(tasks[r]) THEN [status |-> "absent", updatedAt |-> 0] ELSE tasks[r]]
  /\ UNCHANGED <<req, handler, cached, answer, runner, exec, ctx, registered, entries, cancel, now>>

PurgeEntries ==
  /\ entries' = [k \in Key |-> IF LiveEntry(k) THEN entries[k] ELSE NoEntry]
  /\ UNCHANGED <<req, handler, cached, answer, runner, exec, ctx, registered, tasks, cancel, now>>

Tick ==
  /\ now < MaxTime
  /\ now' = now + 1
  /\ UNCHANGED <<req, handler, cached, answer, runner, exec, ctx, registered, tasks, entries, cancel>>

Next ==
  \/ \E r \in Req : \/ Invoke(r) \/ RunAsyncTask(r)
                    \/ CancelFind(r) \/ CancelStore(r) \/ CancelContext(r)
                    \/ ProviderEnds(r) \/ Progress(r) \/ Deadline(r)
  \/ PurgeTasks \/ PurgeEntries
  \/ Tick

Spec == Init /\ [][Next]_vars

\* A goroutine that can go on does, and a timer fires; callers, providers and
\* the host owe nothing.
FairSpec ==
  /\ Spec
  /\ \A r \in Req : WF_vars(Invoke(r) /\ handler[r] # "idle") /\ WF_vars(RunAsyncTask(r)) /\ WF_vars(Deadline(r))

-----------------------------------------------------------------------------
(* Properties.                                                             *)

\* The values of the variables; a task is cancellable exactly while its
\* goroutine runs.
TypeOK ==
  /\ req \in [Req -> Request] /\ handler \in [Req -> Handler] /\ cached \in [Req -> Req]
  /\ answer \in [Req -> Answer] /\ runner \in [Req -> Runner]
  /\ exec \in [Req -> {"none", "running", "ok", "err"}]
  /\ ctx \in [Req -> {"live", "deadline", "cancelled"}]
  /\ tasks \in [Req -> Task] /\ entries \in [Key -> Entry]
  /\ cancel \in [Req -> {"none", "found", "stored", "told"}]
  /\ now \in 0 .. MaxTime
  /\ registered = {r \in Req : runner[r] \notin {"none", "ended"}}

\* The state machine of the records: pending, running, one terminal status, and
\* then only a purge, whichever of runner, canceller and deadline comes first.
TaskMovesForward ==
  [][\A r \in Req :
       LET s == tasks[r].status t == tasks'[r].status
       IN  s # t => \/ s = "absent" /\ t = "pending"
                    \/ s = "pending" /\ t \in {"running", "cancelled"}
                    \/ s = "running" /\ isTerminal(t)
                    \/ isTerminal(s) /\ t = "absent"]_vars

\* A task its owner cancelled is never recorded as failed on account of the
\* cancelled context: the store learns of the cancellation before the task does.
CancelIsNoFailure ==
  [][\A r \in Req : tasks'[r].status = "failed" /\ tasks[r].status # "failed" => ctx[r] # "cancelled"]_vars

\* While an idempotency entry lives it keeps naming the same task or result,
\* whoever else finishes under the key: two replays never differ.
EntryStable == [][\A k \in Key : LiveEntry(k) => entries'[k] = entries[k]]_vars

\* Whatever the callers, providers and cancellers do, the server comes to rest
\* with every request answered and every task ended, also tasks whose provider
\* never returns.
ServerSettles ==
  <>[](\A r \in Req : handler[r] \in {"idle", "done"} /\ tasks[r].status \notin {"pending", "running"})

-----------------------------------------------------------------------------
(* What the conformance vectors ask and the server does not keep.           *)

\* A second submission of a key whose first is still running is rejected, so
\* two providers never run for one key.
NoConcurrentExecution ==
  \A r, s \in Req : r # s /\ req[r].key = req[s].key /\ req[r].key # NoKey =>
    ~(exec[r] = "running" /\ exec[s] = "running")
=============================================================================
