------------------------------- MODULE LazyTx -------------------------------
(***************************************************************************)
(* The request transaction of the backend: dbutils.LazyTx and the          *)
(* middleware WithLazyTransaction that ends it.                            *)
(*                                                                         *)
(* A request is handled by one goroutine.  Its handler may open one        *)
(* database transaction and may register hooks, which are kept in the      *)
(* order of registration until the middleware decides, from the response   *)
(* status, whether to commit.  The hooks of the chosen list then run one   *)
(* at a time, outside the transaction, while other requests proceed.       *)
(*                                                                         *)
(* The operators below constrain the variables of this module only; the    *)
(* module of a handler conjoins them with what the handler does to the     *)
(* database and to the file system.                                        *)
(***************************************************************************)
EXTENDS Naturals, Sequences

CONSTANTS
  Requests,        \* the goroutines that serve requests, one request at a time
  LostCommitReply  \* may the server commit and the reply to COMMIT be lost?

ASSUME LostCommitReplyBoolean == LostCommitReply \in BOOLEAN

VARIABLES
  phase,              \* where the middleware is with the request
  status,             \* the response status StatusCapture saw
  tx,                 \* what became of the transaction, at the database
  afterCommitHooks,
  afterRollbackHooks,
  hooks               \* the hooks still to run, once the list is chosen

lazyVars == <<phase, status, tx, afterCommitHooks, afterRollbackHooks, hooks>>

Phase == {"idle", "handling", "responded", "hooks"}
TxState == {"none", "open", "committed", "rolledBack"}
Status == {200, 201, 403, 500}

LazyInit ==
  /\ phase = [r \in Requests |-> "idle"]
  /\ status = [r \in Requests |-> 200]
  /\ tx = [r \in Requests |-> "none"]
  /\ afterCommitHooks = [r \in Requests |-> << >>]
  /\ afterRollbackHooks = [r \in Requests |-> << >>]
  /\ hooks = [r \in Requests |-> << >>]

\* A request reaches the middleware, which makes a LazyTx with no transaction.
Arrive(r) ==
  /\ phase[r] = "idle"
  /\ phase' = [phase EXCEPT ![r] = "handling"]
  /\ UNCHANGED <<status, tx, afterCommitHooks, afterRollbackHooks, hooks>>

\* RequireTx: open the transaction, or reuse the one that is open.
Begin(r) ==
  tx' = [tx EXCEPT ![r] = IF @ = "none" THEN "open" ELSE @]

AddAfterCommitHook(r, hook) ==
  afterCommitHooks' = [afterCommitHooks EXCEPT ![r] = Append(@, hook)]

AddAfterRollbackHook(r, hook) ==
  afterRollbackHooks' = [afterRollbackHooks EXCEPT ![r] = Append(@, hook)]

\* The handler writes its response and returns to the middleware.
Respond(r, code) ==
  /\ phase' = [phase EXCEPT ![r] = "responded"]
  /\ status' = [status EXCEPT ![r] = code]

\* Only a final 2xx or 3xx response commits.
CommitsOn(code) == code >= 200 /\ code < 400

\* The lists are emptied and the chosen one is run.
EndTx(r, outcome, toRun) ==
  /\ tx' = [tx EXCEPT ![r] = outcome]
  /\ hooks' = [hooks EXCEPT ![r] = toRun]
  /\ phase' = [phase EXCEPT ![r] = "hooks"]
  /\ afterCommitHooks' = [afterCommitHooks EXCEPT ![r] = << >>]
  /\ afterRollbackHooks' = [afterRollbackHooks EXCEPT ![r] = << >>]
  /\ UNCHANGED status

\* A bug: the rollback hooks are not dropped by a successful commit.
CommitKeepsRollbackHooks(r) ==
  /\ phase[r] = "responded" /\ tx[r] = "open" /\ CommitsOn(status[r])
  /\ EndTx(r, "committed", afterRollbackHooks[r] \o afterCommitHooks[r])

\* tx.Commit succeeds: the rollback hooks are dropped, the commit hooks run.
Commit(r) ==
  /\ phase[r] = "responded" /\ tx[r] = "open" /\ CommitsOn(status[r])
  /\ EndTx(r, "committed", afterCommitHooks[r])

\* tx.Commit reports an error: the commit hooks are already dropped, and the
\* middleware's Rollback runs the rollback hooks.  The server has rolled back.
CommitFails(r) ==
  /\ phase[r] = "responded" /\ tx[r] = "open" /\ CommitsOn(status[r])
  /\ EndTx(r, "rolledBack", afterRollbackHooks[r])

\* The same error path, taken when the server did commit and the connection
\* was lost before the reply.
CommitReplyLost(r) ==
  /\ LostCommitReply
  /\ phase[r] = "responded" /\ tx[r] = "open" /\ CommitsOn(status[r])
  /\ EndTx(r, "committed", afterRollbackHooks[r])

\* Rollback after a response that does not commit, or after a panic.
Rollback(r) ==
  /\ \/ phase[r] = "responded" /\ ~CommitsOn(status[r])
     \/ phase[r] = "handling"
  /\ tx[r] = "open"
  /\ EndTx(r, "rolledBack", afterRollbackHooks[r])

\* The request is over and its LazyTx is garbage.
Forget(r) ==
  /\ phase' = [phase EXCEPT ![r] = "idle"]
  /\ status' = [status EXCEPT ![r] = 200]
  /\ tx' = [tx EXCEPT ![r] = "none"]

\* The handler returned, or panicked, without opening a transaction: there is
\* nothing to end, and hooks that were registered never run.
EndWithoutTx(r) ==
  /\ phase[r] \in {"handling", "responded"}
  /\ tx[r] = "none"
  /\ Forget(r)
  /\ afterCommitHooks' = [afterCommitHooks EXCEPT ![r] = << >>]
  /\ afterRollbackHooks' = [afterRollbackHooks EXCEPT ![r] = << >>]
  /\ UNCHANGED hooks

\* The next hook of the chosen list returns.
HookReturns(r) ==
  /\ phase[r] = "hooks" /\ hooks[r] # << >>
  /\ hooks' = [hooks EXCEPT ![r] = Tail(@)]
  /\ UNCHANGED <<phase, status, tx, afterCommitHooks, afterRollbackHooks>>

\* The last hook has returned and the request is over.
RequestEnds(r) ==
  /\ phase[r] = "hooks" /\ hooks[r] = << >>
  /\ Forget(r)
  /\ UNCHANGED <<afterCommitHooks, afterRollbackHooks, hooks>>

\* The process dies: hooks are only in memory, and the database rolls back the
\* transactions whose connections it loses.
ProcessDies ==
  /\ phase' = [r \in Requests |-> "idle"]
  /\ status' = [r \in Requests |-> 200]
  /\ tx' = [r \in Requests |-> "none"]
  /\ afterCommitHooks' = [r \in Requests |-> << >>]
  /\ afterRollbackHooks' = [r \in Requests |-> << >>]
  /\ hooks' = [r \in Requests |-> << >>]
=============================================================================
