--------------------------- MODULE ServerLifecycle ---------------------------
(***************************************************************************)
(* One service process from start to exit: main.go picks the modules for   *)
(* the --bin flag, app.New builds them (src/internal/app/app.bootstrap.go)  *)
(* and registerLifecycle (src/internal/app/app.lifecycle.go) starts the    *)
(* Fiber server in OnStart and, in OnStop, shuts it down, waits for the    *)
(* serve goroutine and closes the database and Redis handles.              *)
(*                                                                         *)
(* While it runs, the process serves the two wallet routes on client       *)
(* connections: GET /inquiries/balance (handler, service and repository of *)
(* the balance inquiry) and POST /withdrawals, whose transaction is        *)
(* WalletLedger's WithdrawTx.  A request is dispatched on the handle it    *)
(* needs; a withdrawal that has begun its transaction keeps its pooled     *)
(* connection and finishes it even when the handle is closed meanwhile,    *)
(* and may wait on a row lock held outside this process for any time.      *)
(* Authentication, rate limiting and idempotency are modelled elsewhere;   *)
(* every request here carries an authenticated user.                       *)
(***************************************************************************)
EXTENDS WalletLedger

CONSTANTS
    Bins,           \* --bin values the process may be started with, trimmed and lower-cased
    ConfigPresent,  \* the config options (scope, example) whose YAML or .env file exists
    StartFailures,  \* TRUE iff a ping or net.Listen may fail at start
    CloseErrors,    \* TRUE iff closing a handle may return an error
    ServeErrors     \* TRUE iff the listener may fail while serving

Conns == Requesters

Handles == {"db_auth", "db_wallet", "redis"}

ConfigScopes == {"inquiry", "withdraw", "base"}

ASSUME LifecycleAssumption ==
    /\ ConfigPresent \subseteq [scope : ConfigScopes, example : BOOLEAN]
    /\ StartFailures \in BOOLEAN /\ CloseErrors \in BOOLEAN /\ ServeErrors \in BOOLEAN

(* The routes the selected modules register (main.go selectedModules,      *)
(* with "inqury" accepted as a spelling of "inquiry").                      *)
Routes(bin) ==
    CASE bin \in {"inquiry", "inqury"} -> {"login", "inquiry"}
      [] bin = "withdraw"              -> {"withdraw"}
      [] OTHER                         -> {"login", "inquiry", "withdraw"}

(* provideConfig: the files tried, in order; config.Init takes an option  *)
(* when its YAML file, or else its .env file, exists and parses.           *)
ConfigOptions(bin) ==
    LET b    == IF bin = "inqury" THEN "inquiry" ELSE bin
        base == <<[scope |-> "base", example |-> FALSE], [scope |-> "base", example |-> TRUE]>>
    IN  IF b \in {"inquiry", "withdraw"}
        THEN <<[scope |-> b, example |-> FALSE], [scope |-> b, example |-> TRUE]>> \o base
        ELSE base

ConfigLoads(bin) == \E i \in 1 .. Len(ConfigOptions(bin)) : ConfigOptions(bin)[i] \in ConfigPresent

(* Mutant: the handles closed before the server is shut down.            *)
StopStepsClosingFirst == <<"db_auth", "db_wallet", "redis", "shutdown", "wait_serve">>

(* OnStop's steps in the order the hook runs them (app.lifecycle.go 50-97). *)
StopSteps == <<"shutdown", "wait_serve", "db_auth", "db_wallet", "redis">>

Kinds == {"inquiry", "withdraw"}

Requests == [kind : Kinds, user : Users, amount : Amounts]

Codes == {"none", "200", "400", "404", "409", "500"}

VARIABLES
    bin,        \* the --bin flag of this process
    phase,      \* "starting", "running", "stopping", "exited" or "failed"
    open,       \* which handles are open
    listening,  \* the listener accepts connections
    serving,    \* the goroutine running app.Listener has not returned
    serveSent,  \* serveErrCh holds the goroutine's result
    stopPc,     \* index in StopSteps of OnStop's current step
    ctxDone,    \* the stop context's deadline has passed
    conn,       \* each client connection: "none", "received", "in_tx", "answered" or "cut"
    req,        \* the request each connection carries
    code        \* the status each connection was answered with

lifeVars == <<bin, phase, open, listening, serving, serveSent, stopPc, ctxDone, conn, req, code>>
vars == <<balance, ledger, lifeVars>>

Init ==
    /\ WalletInit
    /\ bin \in Bins
    /\ phase = "starting"
    /\ open = [h \in Handles |-> FALSE]
    /\ listening = FALSE /\ serving = FALSE /\ serveSent = FALSE
    /\ stopPc = 1
    /\ ctxDone = FALSE
    /\ conn = [c \in Conns |-> "none"]
    /\ req \in [Conns -> Requests]
    /\ code = [c \in Conns |-> "none"]

-----------------------------------------------------------------------------
(* fx.New builds the providers and fx.Run runs OnStart: the config is     *)
(* loaded, both PostgreSQL handles are opened and pinged, the Redis client *)
(* is made and the listener bound; the serve goroutine starts              *)
(* (app.bootstrap.go 20-34 and 58-98, part_002 110-134, app.lifecycle.go   *)
(* 32-48).                                                                  *)
Start ==
    /\ phase = "starting"
    /\ ConfigLoads(bin)
    /\ phase' = "running"
    /\ open' = [h \in Handles |-> TRUE]
    /\ listening' = TRUE /\ serving' = TRUE
    /\ UNCHANGED <<balance, ledger, bin, serveSent, stopPc, ctxDone, conn, req, code>>

(* Start fails: no config file loads, so nothing is built; or a ping fails *)
(* (that handle is closed, the ones built before stay open) or net.Listen  *)
(* fails.  Which handles fx has built by then depends on the order it      *)
(* resolves the modules' dependencies, so any subset may be open.  fx runs *)
(* no OnStop of a hook whose OnStart failed, and the process exits.        *)
StartFails ==
    /\ phase = "starting"
    /\ \/ /\ ~ConfigLoads(bin)
          /\ UNCHANGED open
       \/ /\ ConfigLoads(bin) /\ StartFailures
          /\ \E opened \in SUBSET Handles : open' = [h \in Handles |-> h \in opened]
    /\ phase' = "failed"
    /\ UNCHANGED <<balance, ledger, bin, listening, serving, serveSent, stopPc, ctxDone, conn, req, code>>

(* The listener accepts a client connection and reads its request.        *)
Accept(c) ==
    /\ listening
    /\ conn[c] = "none"
    /\ conn' = [conn EXCEPT ![c] = "received"]
    /\ UNCHANGED <<balance, ledger, bin, phase, open, listening, serving, serveSent, stopPc, ctxDone, req, code>>

Answer(c, status) ==
    /\ conn' = [conn EXCEPT ![c] = "answered"]
    /\ code' = [code EXCEPT ![c] = status]

(* GET /inquiries/balance: CheckBalance runs GetWalletBalanceByUserID, one *)
(* SELECT on the wallet handle: 200, 404 on no row, 500 on any other       *)
(* error, among them a closed handle (inquiry.check.balance.go handler     *)
(* 29-53 and repository 24-45, part_005 69-85).                             *)
InquiryCode(u, dbFails) ==
    IF ~open["db_wallet"] \/ dbFails THEN "500"
    ELSE IF u \in WalletUsers THEN "200" ELSE "404"

(* POST /withdrawals up to BeginTxx: the service refuses a non-positive   *)
(* amount before any query (400); BeginTxx on a closed handle fails (500); *)
(* otherwise the transaction begins (withdraw.balance.go handler 34-51,     *)
(* part_005 23-33, repository 24-30).                                       *)
BeginWithdraw(c) ==
    \/ /\ req[c].amount <= 0
       /\ Answer(c, "400")
    \/ /\ req[c].amount > 0 /\ ~open["db_wallet"]
       /\ Answer(c, "500")
    \/ /\ req[c].amount > 0 /\ open["db_wallet"]
       /\ conn' = [conn EXCEPT ![c] = "in_tx"]
       /\ UNCHANGED code

(* Fiber routes a received request; a route the selected modules did not  *)
(* register answers 404.                                                    *)
Dispatch(c) ==
    /\ conn[c] = "received"
    /\ \/ /\ req[c].kind \notin Routes(bin)
          /\ Answer(c, "404")
       \/ /\ req[c].kind = "inquiry" /\ "inquiry" \in Routes(bin)
          /\ \E dbFails \in IF DBErrors THEN BOOLEAN ELSE {FALSE} :
                Answer(c, InquiryCode(req[c].user, dbFails))
       \/ /\ req[c].kind = "withdraw" /\ "withdraw" \in Routes(bin)
          /\ BeginWithdraw(c)
    /\ UNCHANGED <<balance, ledger, bin, phase, open, listening, serving, serveSent,
                   stopPc, ctxDone, req>>

(* The withdrawal transaction runs to its end on its own connection and    *)
(* the handler maps the result to a status (withdraw.balance.go 52-67).    *)
StatusOf(out) ==
    CASE out = "ok" -> "200"
      [] out = "invalid_amount" -> "400"
      [] out = "not_found" -> "404"
      [] out = "insufficient" -> "409"
      [] OTHER -> "500"

CommitWithdraw(c) ==
    /\ conn[c] = "in_tx"
    /\ \E out \in TxOutcomes :
          /\ WithdrawTx(req[c].user, req[c].amount, c, out)
          /\ Answer(c, StatusOf(out))
    /\ UNCHANGED <<bin, phase, open, listening, serving, serveSent, stopPc, ctxDone, req>>

(* app.Listener returns: with an error while serving (logged; the process *)
(* goes on), or because Shutdown closed the listener.  Either way it sends *)
(* on the buffered serveErrCh (app.lifecycle.go 39-45).                    *)
ServeReturns ==
    /\ serving
    /\ ~listening \/ ServeErrors
    /\ serving' = FALSE /\ listening' = FALSE /\ serveSent' = TRUE
    /\ UNCHANGED <<balance, ledger, bin, phase, open, stopPc, ctxDone, conn, req, code>>

-----------------------------------------------------------------------------
(* fx receives a stop signal and runs OnStop with a context whose deadline *)
(* is fx's stop timeout.                                                    *)
StopBegin ==
    /\ phase = "running"
    /\ phase' = "stopping"
    /\ UNCHANGED <<balance, ledger, bin, open, listening, serving, serveSent, stopPc, ctxDone, conn, req, code>>

(* The stop context's deadline passes.                                     *)
Deadline ==
    /\ phase = "stopping" /\ ~ctxDone
    /\ ctxDone' = TRUE
    /\ UNCHANGED <<balance, ledger, bin, phase, open, listening, serving, serveSent, stopPc, conn, req, code>>

Step == IF stopPc <= Len(StopSteps) THEN StopSteps[stopPc] ELSE "returned"

Active(c) == conn[c] \in {"received", "in_tx"}

(* Mutant: Shutdown without the stop context, waiting for every request.   *)
ShutdownGivesUpNever == FALSE

(* app.ShutdownWithContext(ctx) stops waiting for open requests once the   *)
(* context is done (app.lifecycle.go 53).                                   *)
ShutdownGivesUp == ctxDone

(* ShutdownWithContext: close the listener, then wait until no request is  *)
(* open or the context is done (app.lifecycle.go 51-55).                   *)
CloseListener ==
    /\ phase = "stopping" /\ Step = "shutdown" /\ listening
    /\ listening' = FALSE
    /\ UNCHANGED <<balance, ledger, bin, phase, open, serving, serveSent, stopPc, ctxDone, conn, req, code>>

ShutdownDone ==
    /\ phase = "stopping" /\ Step = "shutdown" /\ ~listening
    /\ (\A c \in Conns : ~Active(c)) \/ ShutdownGivesUp
    /\ stopPc' = stopPc + 1
    /\ UNCHANGED <<balance, ledger, bin, phase, open, listening, serving, serveSent, ctxDone, conn, req, code>>

(* select on serveErrCh or ctx.Done() (app.lifecycle.go 57-66).            *)
WaitServe ==
    /\ phase = "stopping" /\ Step = "wait_serve"
    /\ serveSent \/ ctxDone
    /\ serveSent' = FALSE
    /\ stopPc' = stopPc + 1
    /\ UNCHANGED <<balance, ledger, bin, phase, open, listening, serving, ctxDone, conn, req, code>>

(* Mutant: OnStop returns at the first Close that fails.                   *)
CloseHandleStopsOnError(h, fails) ==
    /\ open' = [open EXCEPT ![h] = FALSE]
    /\ stopPc' = IF fails THEN Len(StopSteps) + 1 ELSE stopPc + 1

(* Mutant: an off-by-one in advancing past a closed handle.              *)
CloseHandleSkipsNext(h, fails) ==
    /\ open' = [open EXCEPT ![h] = FALSE]
    /\ stopPc' = stopPc + 2

(* closeDB and the Redis Close: the handle is closed; an error is only     *)
(* collected, and OnStop goes on (app.lifecycle.go 68-89).                  *)
CloseHandle(h, fails) ==
    /\ open' = [open EXCEPT ![h] = FALSE]
    /\ stopPc' = stopPc + 1

CloseStep ==
    /\ phase = "stopping" /\ Step \in Handles
    /\ \E fails \in IF CloseErrors THEN BOOLEAN ELSE {FALSE} : CloseHandle(Step, fails)
    /\ UNCHANGED <<balance, ledger, bin, phase, listening, serving, serveSent, ctxDone, conn, req, code>>

(* OnStop returns, errors joined (app.lifecycle.go 91-97); fx.Run exits   *)
(* the process, cutting every connection still open.                       *)
Exit ==
    /\ phase = "stopping" /\ Step = "returned"
    /\ phase' = "exited"
    /\ conn' = [c \in Conns |-> IF Active(c) THEN "cut" ELSE conn[c]]
    /\ UNCHANGED <<balance, ledger, bin, open, listening, serving, serveSent, stopPc, ctxDone, req, code>>

StopActions == CloseListener \/ ShutdownDone \/ WaitServe \/ CloseStep \/ Exit

Next ==
    \/ Start \/ StartFails
    \/ \E c \in Conns : Accept(c) \/ Dispatch(c) \/ CommitWithdraw(c)
    \/ ServeReturns
    \/ StopBegin \/ Deadline
    \/ StopActions

(* The stop hook's steps, the deadline timer and the serve goroutine are   *)
(* scheduled by the Go runtime once they can run; clients, signals and     *)
(* database locks held elsewhere are not.                                  *)
Fairness ==
    /\ WF_vars(Deadline)
    /\ WF_vars(ServeReturns /\ ~listening)
    /\ WF_vars(StopActions)

Spec == Init /\ [][Next]_vars /\ Fairness

-----------------------------------------------------------------------------
TypeOK ==
    /\ WalletTypeOK
    /\ bin \in Bins
    /\ phase \in {"starting", "running", "stopping", "exited", "failed"}
    /\ open \in [Handles -> BOOLEAN]
    /\ {listening, serving, serveSent, ctxDone} \subseteq BOOLEAN
    /\ stopPc \in 1 .. Len(StopSteps) + 1
    /\ conn \in [Conns -> {"none", "received", "in_tx", "answered", "cut"}]
    /\ req \in [Conns -> Requests]
    /\ code \in [Conns -> Codes]

(* Drain before close (spec section 9: handles are opened at startup and   *)
(* closed at shutdown): while the process stops, the wallet handle is      *)
(* closed only after every request has been answered, unless the stop      *)
(* deadline has passed; so no request still being served finds its store   *)
(* closed under it merely because the process was asked to stop.          *)
ClosedAfterDrain ==
    (phase = "stopping" /\ ~open["db_wallet"])
        => (ctxDone \/ \A c \in Conns : ~Active(c))

(* A stop that returns has closed everything: once the process exits after *)
(* OnStop, both database handles and the Redis client are closed, also     *)
(* when Shutdown timed out, the server had failed, or a Close failed.      *)
StopReleasesHandles == phase = "exited" => \A h \in Handles : ~open[h]

(* Stopping terminates (liveness): once fx has begun to stop the process,  *)
(* OnStop returns and the process exits, however long requests or database *)
(* locks held elsewhere keep connections open.                             *)
StopCompletes == phase = "stopping" ~> phase = "exited"
=============================================================================
