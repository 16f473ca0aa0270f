------------------------------ MODULE AuditLogs ------------------------------
(***************************************************************************)
(* What the two users of an audit log have in common: a request is over,   *)
(* the middleware (pkg/middleware/audit.go) makes its log, the Writer puts *)
(* it on disk (AuditTrail), and the WebSocketServer streams it to whoever  *)
(* listens (AuditStream).  The two share nothing else.                     *)
(***************************************************************************)
CONSTANTS Apps,          \* a log belongs to an application
          Requests,      \* requests in progress, each at one log
          None,
          MaxLogs        \* bound on the logs made
=============================================================================
