----------------------------- MODULE CallerCheck -----------------------------
(***************************************************************************)
(* internal/grpcauth: the server interceptor that compares the caller a    *)
(* request names in its x-caller-service header with the list of the       *)
(* method, and the lists the watchdog is started with.  The header is only *)
(* there when the client dialled with CallerIdentityInterceptor.           *)
(***************************************************************************)

NoHeader == ""

\* cmd/watchdog: AllowedCallers of the watchdog's service.
WatchdogCallers ==
    [TriggerKillSwitch |-> {"risk-engine", "trade-ctl"},
     Heartbeat         |-> {"execution-engine", "risk-engine", "strategy-engine"},
     GetSystemStatus   |-> {"*"},
     AcknowledgeHalt   |-> {"trade-ctl"},
     ResumeTrading     |-> {"trade-ctl"}]

\* What a client of the watchdog puts into the header: the execution engine
\* (heartbeats and reconciliation) dials with the interceptor, the Telegram bot
\* and the dashboard without.
HeaderOf(client) == IF client = "execution-engine" THEN client ELSE NoHeader

\* A method without a list is open; "*" opens it to requests without a header
\* too; otherwise the header must be there and be listed.
UnaryCallerInterceptor(allowed, method, caller) ==
    method \in DOMAIN allowed =>
        \/ "*" \in allowed[method]
        \/ caller # NoHeader /\ caller \in allowed[method]

WatchdogAdmits(client, method) ==
    UnaryCallerInterceptor(WatchdogCallers, method, HeaderOf(client))
=============================================================================
