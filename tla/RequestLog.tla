----------------------------- MODULE RequestLog -----------------------------
(***************************************************************************)
(* What the log says of a request (src/src/common/logging): the middleware *)
(* opens a store for it, which every await of the request finds again; the *)
(* guard and the exception filter (src/src/common/exception) write the     *)
(* user and the error into it, every line of the log is marked from it,    *)
(* and an access line is written when the answer is sent.  Requests        *)
(* interleave at every await, and clients go away.                         *)
(*                                                                         *)
(* What a handler does is left out but for how it ends.                    *)
(***************************************************************************)
EXTENDS Naturals

CONSTANT Requests    \* slots for requests

VARIABLES
  req,     \* what each request in flight holds, and how it ended
  store,   \* its RequestContextStore
  log      \* the lines of the request each slot held last

vars == <<req, store, log>>

None == "none"
ClientId == "from the client"    \* a valid x-request-id, which clients may repeat
Names == Requests \cup {None}    \* of users and of drawn ids: the slot that brings them
Paths == {"health", "open", "guarded"}
Steps == {"idle", "guard", "handler", "filter", "sent", "done", "closed"}

(* The classes of exceptions, and no exception at all: a caller's wrong    *)
(* usage, a domain rule a caller broke, a failure of a supplier or of the  *)
(* server's own logic, all three answered 400, and the others.             *)
Status ==
  [ok |-> 200, empty |-> 204, usage |-> 400, rule |-> 400, internal |-> 400,
   unauthorized |-> 401, http |-> 429, unavailable |-> 503, unknown |-> 500]
Outcomes == DOMAIN Status
BaseExceptions == {"usage", "rule", "internal"}

NoStore == [id |-> None, user |-> None, error |-> None]
Stores == [id: Names \cup {ClientId}, user: Names, error: Outcomes \cup {None}]
Idle == [pc |-> "idle", path |-> "open", header |-> None, outcome |-> "ok"]

TypeOK ==
  /\ req \in [Requests -> [pc: Steps, path: Paths,
                           header: Names \cup {ClientId}, outcome: Outcomes]]
  /\ store \in [Requests -> Stores]
  /\ \A l \in log : l.by \in Requests /\ l.kind \in {"event", "warning", "report", "access"}
                    /\ l.context \in Stores /\ l.level \in {"log", "warn", "error"}

Init ==
  /\ req = [r \in Requests |-> Idle]
  /\ store = [r \in Requests |-> NoStore]
  /\ log = {}

At(r, step) == req[r].pc = step
Goto(r, step) == req' = [req EXCEPT ![r].pc = step]

(* Faulty variant: one store for the process, set once. *)
SharedContext(r) == store[CHOOSE s \in Requests : store[s] # NoStore]

(* RequestContext.get: the store of the request whose await goes on. *)
Context(r) == store[r]

(* The winston logger takes id and user of a line from the context. *)
Line(r, kind, level, status) ==
  [by |-> r, kind |-> kind, level |-> level, status |-> status, context |-> Context(r)]
Write(r, kind, level, status) == log' = log \cup {Line(r, kind, level, status)}

-----------------------------------------------------------------------------
(* RequestContextMiddleware.use: an id of the client is taken over when it *)
(* is valid, else one is drawn, which is named r here.                     *)
Receive(r, path, header) ==
  /\ req[r].pc \in {"idle", "done", "closed"}
  /\ LET id == IF header = ClientId THEN ClientId ELSE r IN
       /\ req' = [req EXCEPT ![r] = [Idle EXCEPT !.pc = IF path = "guarded" THEN "guard" ELSE "handler",
                                                 !.path = path, !.header = id]]
       /\ store' = [store EXCEPT ![r] = [NoStore EXCEPT !.id = id]]
  /\ log' = {l \in log : l.by # r}

(* AuthGuard: the row of the token and its signature are awaited.  The     *)
(* user of the token is named r, too.                                      *)
Guard(r) ==
  /\ At(r, "guard")
  /\ \/ Goto(r, "handler") /\ store' = [store EXCEPT ![r].user = r]
     \/ req' = [req EXCEPT ![r].pc = "filter", ![r].outcome = "unauthorized"] /\ UNCHANGED store
  /\ UNCHANGED log

(* logUserEvent and the lines of the adapters. *)
Event(r) ==
  /\ At(r, "handler") /\ req[r].path # "health"
  /\ Write(r, "event", "log", 0)
  /\ UNCHANGED <<req, store>>

(* The rate limit, the handler, or the indicators of the health check.     *)
Handle(r) ==
  /\ At(r, "handler")
  /\ \E o \in IF req[r].path = "health" THEN {"ok", "unavailable"} ELSE Outcomes \ {"unavailable"} :
       req' = [req EXCEPT ![r].pc = IF o = "ok" THEN "sent" ELSE "filter", ![r].outcome = o]
  /\ UNCHANGED <<store, log>>

-----------------------------------------------------------------------------
(* HttpExceptionFilter.catch                                               *)

(* Faulty variant: nothing is sent when the reason cannot be a header. *)
NoContentOnce(r) ==
  /\ At(r, "filter") /\ req[r].outcome = "empty"
  /\ \/ Goto(r, "sent") /\ UNCHANGED log
     \/ Goto(r, "idle") /\ Write(r, "warning", "warn", 0)
  /\ UNCHANGED store

(* sendNoContent: setHeader may throw, then the answer has no reason. *)
SendNoContent(r) ==
  /\ At(r, "filter") /\ req[r].outcome = "empty"
  /\ Goto(r, "sent")
  /\ UNCHANGED log \/ Write(r, "warning", "warn", 0)
  /\ UNCHANGED store

(* Of the exceptions of its own, the filter exempts wrong usage alone. *)
IsServerError(o) == IF o \in BaseExceptions THEN o # "usage" ELSE Status[o] >= 500

(* setError, the report to the log and to Sentry, and the answer. *)
SendError(r) ==
  /\ At(r, "filter") /\ req[r].outcome # "empty"
  /\ store' = [store EXCEPT ![r].error = req[r].outcome]
  /\ IF IsServerError(req[r].outcome)
     THEN Write(r, "report", "error", Status[req[r].outcome])
     ELSE UNCHANGED log
  /\ Goto(r, "sent")

-----------------------------------------------------------------------------
(* logAccess, when the answer is sent; healthy health checks are silent. *)
Finish(r) ==
  /\ At(r, "sent")
  /\ LET status == Status[req[r].outcome] IN
       IF status < 400 /\ req[r].path = "health" THEN UNCHANGED log
       ELSE Write(r, "access", IF status >= 500 THEN "error" ELSE IF status >= 400 THEN "warn" ELSE "log", status)
  /\ Goto(r, "done")
  /\ UNCHANGED store

(* The connection is gone before the answer: it never finishes. *)
GiveUp(r) ==
  /\ At(r, "sent")
  /\ Goto(r, "closed")
  /\ UNCHANGED <<store, log>>

Work(r) == Guard(r) \/ Handle(r) \/ SendNoContent(r) \/ SendError(r) \/ Finish(r)

Next ==
  \E r \in Requests :
    \/ \E path \in Paths, header \in {None, ClientId} : Receive(r, path, header)
    \/ Event(r) \/ Work(r) \/ GiveUp(r)

Spec == Init /\ [][Next]_vars

(* A request goes on at every await; its handler ends somehow. *)
FairSpec == Spec /\ \A r \in Requests : WF_vars(Work(r))

-----------------------------------------------------------------------------
(* Properties                                                              *)

Lines(r, kind) == {l \in log : l.by = r /\ l.kind = kind}

(* Every line of a request carries the id its client was answered and, on  *)
(* a guarded route, its events and reports the user of its token, whatever *)
(* requests interleave (logging.module.spec.ts, 'should keep request id    *)
(* and user id across async handlers', '... and report them with user      *)
(* context'); its access line names its own status and error.  What the    *)
(* server or a supplier failed at is reported before the answer; what a    *)
(* caller used wrongly, may not do or does too often never is.  Nothing is *)
(* said of a domain rule that a caller broke: ErrorCategoryEnum puts it    *)
(* with the caller's errors, and the filter reports it all the same.       *)
LogIsTrue ==
  /\ \A l \in log :
       /\ l.context.id = req[l.by].header
       /\ l.kind \in {"event", "report"} =>
            l.context.user = IF req[l.by].path = "guarded" THEN l.by ELSE None
       /\ l.kind = "access" =>
            /\ l.status = Status[req[l.by].outcome]
            /\ l.context.error = IF req[l.by].outcome \in {"ok", "empty"} THEN None ELSE req[l.by].outcome
  /\ \A r \in Requests : req[r].pc \in {"sent", "done", "closed"} =>
       /\ req[r].outcome \in {"internal", "unavailable", "unknown"} => Lines(r, "report") # {}
       /\ req[r].outcome \in {"ok", "empty", "usage", "unauthorized", "http"} => Lines(r, "report") = {}

(* Every request that the middleware has met leaves an access line in the  *)
(* end, refused by the guard or not, unless its client gave up or it was a *)
(* health check that found the server healthy.                             *)
RequestsAreLogged ==
  \A r \in Requests :
    req[r].pc \in {"guard", "handler"} ~>
      \/ Lines(r, "access") # {} \/ At(r, "closed")
      \/ At(r, "done") /\ req[r].path = "health" /\ req[r].outcome = "ok"
=============================================================================
