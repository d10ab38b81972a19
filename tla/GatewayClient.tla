----------------------------- MODULE GatewayClient -----------------------------
(***************************************************************************)
(* The HTTP client of api.py as diagnostics see it: concurrent requests     *)
(* that all go through _async_request, the counters of its transport        *)
(* metrics and those of the observations of protocol_debug.py.  Every       *)
(* set-up makes a client of its own; what is still in flight on the one     *)
(* before counts nowhere.  Paths, parameters and durations are left out.    *)
(***************************************************************************)
EXTENDS Naturals, FiniteSets

CONSTANT Callers  \* coroutines that call the gateway, one request at a time

VARIABLES
  analyzing,  \* ProtocolDebugAnalyzer.enabled
  requests,   \* requests_total
  failures,   \* failures_total
  observed,   \* _observations_total
  flying,     \* callers with a request in flight on this client
  dropped     \* history: requests that ended in neither of the handlers

client == <<analyzing, requests, failures, observed, flying, dropped>>

\* How a request ends: with a body that is understood, with one that the parser
\* refuses, with another status than 200, without an answer, with a body that is
\* no text, or with its caller's cancellation.
Outcomes == {"ok", "unparsed", "refused", "lost", "undecoded", "cancelled"}
Parsed   == Outcomes \ {"cancelled"}
Text     == Parsed \ {"unparsed"}

ClientInit(debug, c) ==
  /\ analyzing = debug
  /\ requests = 1 /\ flying = {c}
  /\ failures = 0 /\ observed = 0 /\ dropped = 0

\* A new client, and its first request.
Connect(debug, c) ==
  /\ analyzing' = debug
  /\ requests' = 1 /\ flying' = {c}
  /\ failures' = 0 /\ observed' = 0 /\ dropped' = 0

\* A request is counted before it is sent.
Send(c) ==
  /\ requests' = requests + 1
  /\ flying' = flying \cup {c}
  /\ UNCHANGED <<analyzing, failures, observed, dropped>>

One(counts) == IF counts THEN 1 ELSE 0

\* What one body adds to the total of the observations.
analyze == One(analyzing)

\* Seeded fault: a body is analyzed before the status is looked at.
EndedAnalyzesAll(c, outcome, again) ==
  /\ flying' = IF again THEN flying \cup {c} ELSE flying \ {c}
  /\ requests' = requests + One(again)
  /\ failures' = failures + One(c \in flying /\ outcome \in {"refused", "lost"})
  /\ observed' = observed +
       (IF c \in flying /\ outcome \in {"ok", "unparsed", "refused"} THEN analyze ELSE 0)
  /\ dropped' = dropped + One(c \in flying /\ outcome \in {"undecoded", "cancelled"})
  /\ UNCHANGED analyzing

\* A request ends, and the caller may send its next one at once.  Refused and lost
\* ones are failures; a body is observed before anybody parses it; a cancellation, and
\* a body that cannot be decoded, leave by neither handler.
Ended(c, outcome, again) ==
  /\ flying' = IF again THEN flying \cup {c} ELSE flying \ {c}
  /\ requests' = requests + One(again)
  /\ failures' = failures + One(c \in flying /\ outcome \in {"refused", "lost"})
  /\ observed' = observed +
       (IF c \in flying /\ outcome \in {"ok", "unparsed"} THEN analyze ELSE 0)
  /\ dropped' = dropped + One(c \in flying /\ outcome \in {"undecoded", "cancelled"})
  /\ UNCHANGED analyzing

ClientTypeOK ==
  /\ analyzing \in BOOLEAN /\ flying \subseteq Callers
  /\ {requests, failures, observed, dropped} \subseteq Nat
=============================================================================
