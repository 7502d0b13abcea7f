------------------------------ MODULE WebFetch ------------------------------
(* The one request the kernel makes for the model itself: WebFetch               *)
(* (tools/builtin/web-fetch.ts), the look at where a name points                  *)
(* (security/egress/resolve.ts) and the gate every request of the kernel passes   *)
(* (security/egress-gate.ts). No proxy stands behind it, so what was granted,      *)
(* where the name points and how much is read are checked here, one after the     *)
(* other, with a wait before each.                                             *)
EXTENDS Naturals, Sequences, SequencesExt, FiniteSets

CONSTANTS Names,         \* host names, with "localhost"
          Scoped,        \* address literals, to the class classifyAddress gives each
          WebHosts,      \* [egress] web
          LookupAnswers, \* what a lookup may give: sequences of classes
          WireLimit,     \* bytes that are read at most
          Chunks,        \* sizes the body arrives in
          NoAnswer,
          MaxFetches     \* bound

ASSUME FetchAssumption ==
  /\ "localhost" \in Names /\ WebHosts \subseteq Names \cup DOMAIN Scoped
  /\ WireLimit \in Nat /\ Chunks \subseteq Nat

VARIABLES step,       \* "idle", "asked", "granted", "resolving", "checked", "sent", "reading", "told"
          url,        \* what is fetched: scheme, host, whether it has credentials, and whether
                      \* its path or query holds a value the kernel knows is secret
          network,    \* the network of the call's profile: hosts, or unrestricted
          checked,    \* the classes of the addresses that were looked at
          reached,    \* the class of the address the socket went to
          got,        \* bytes read
          outcome,    \* what the model is told
          cancelled, benchmarks,
          audits,     \* of the gate, for this fetch
          posted,     \* the last other request the gate let out
          fetches

fetchVars == <<step, url, network, checked, reached, got, outcome, cancelled, benchmarks, audits, posted, fetches>>

Urls ==
  [scheme : {"https", "http", "other"}, credentials : BOOLEAN, host : Names \cup DOMAIN Scoped, secret : BOOLEAN]
NoUrl == [scheme |-> "other", credentials |-> FALSE, host |-> "localhost", secret |-> FALSE]
\* The network of a profile: none, the host that was asked for, another, any.
Networks(host) == {{}, {host}, Names \ {host}, {host} \cup {"*"}}

-----------------------------------------------------------------------------
(* resolveHostScope.                                                           *)

LoopbackName(host) == host = "localhost"
Public(class) == class = "global" \/ (class = "benchmarking" /\ benchmarks)

\* Mutant of Reachable: one address that is public is enough.
ReachableByOne(host, answer) ==
  \/ LoopbackName(host)
  \/ host \in DOMAIN Scoped /\ Public(Scoped[host])
  \/ host \notin DOMAIN Scoped /\ answer # NoAnswer /\ \E class \in ToSet(answer) : Public(class)

\* A name that is loopback was meant; a name that points there was not. A lookup
\* that fails or takes five seconds, or has no addresses, refuses.
Reachable(host, answer) ==
  \/ LoopbackName(host)
  \/ host \in DOMAIN Scoped /\ Public(Scoped[host])
  \/ /\ host \notin DOMAIN Scoped /\ answer # NoAnswer /\ answer # <<>>
     /\ \A class \in ToSet(answer) : Public(class)

-----------------------------------------------------------------------------
(* EgressGate.send. A body is what is in it: a secret the kernel knows, one that  *)
(* looks like one, a field no metadata has.                                     *)

\* defaultEgressPolicy.
GateKinds == {"model", "telemetry", "hook", "plugin", "mcp", "web", "update"}
Redacts(kind) == kind = "model"
MetadataOnly(kind) == kind \in {"telemetry", "update"}
RequiresTls(kind) == kind # "mcp"

TransportAllowed(kind, scheme, host) ==
  /\ scheme \in {"https", "http"}
  /\ RequiresTls(kind) => scheme = "https" \/ LoopbackName(host)

\* redact takes out what it knows and what looks like a secret; either may survive
\* it (one that a replacement made, say).
Redacted(body) == {body \ taken : taken \in SUBSET {"known", "shape"}}

\* Mutant of Inspected: what survived redaction is not looked at again.
InspectedOnce(kind, body) ==
  IF MetadataOnly(kind) /\ "field" \in body THEN {}
  ELSE IF body \cap {"known", "shape"} = {} THEN {body}
  ELSE IF Redacts(kind) THEN Redacted(body) ELSE {}

\* The bodies that may leave, none when the request is refused. What was redacted
\* is looked at again for what is known, not for what looks like a secret.
Inspected(kind, body) ==
  IF MetadataOnly(kind) /\ "field" \in body THEN {}
  ELSE IF body \cap {"known", "shape"} = {} THEN {body}
  ELSE IF Redacts(kind) THEN {b \in Redacted(body) : "known" \notin b} ELSE {}

\* The headers that hold a known secret: in `authorization` it belongs there, in
\* another one the request is refused.
HeadersClean(headers) == headers \subseteq {"authorization"}

-----------------------------------------------------------------------------

FetchInit ==
  /\ step = "idle" /\ url = NoUrl /\ network = {} /\ checked = NoAnswer /\ reached = "none" /\ got = 0
  /\ outcome = "none" /\ cancelled = FALSE /\ benchmarks \in BOOLEAN /\ audits = 0 /\ posted = {}
  /\ fetches = 0

TellModel(what) == step' = "told" /\ outcome' = what

\* resolve: what is refused before anybody is asked.
FetchCalled ==
  /\ step \in {"idle", "told"} /\ fetches < MaxFetches /\ fetches' = fetches + 1
  /\ url' \in Urls
  /\ LET fits == url'.scheme # "other" /\ ~url'.credentials
         open == /\ url'.host \in DOMAIN Scoped => Scoped[url'.host] = "global"
                 /\ url'.host \in WebHosts
     IN IF fits /\ open THEN step' = "asked" /\ outcome' = "none"
        ELSE TellModel(IF fits THEN "NETWORK_DENIED" ELSE "TOOL_INVALID_ARGS")
  /\ network' = {} /\ checked' = NoAnswer /\ reached' = "none" /\ got' = 0 /\ cancelled' = FALSE /\ audits' = 0
  /\ posted' = {}
  /\ UNCHANGED benchmarks

\* Policy, user and planner decide what the call's profile may reach.
FetchGranted ==
  /\ step = "asked" /\ step' = "granted" /\ network' \in Networks(url.host)
  /\ UNCHANGED <<url, checked, reached, got, outcome, cancelled, benchmarks, audits, posted, fetches>>

FetchCancelled ==
  /\ step \in {"asked", "granted", "resolving", "checked", "sent", "reading"} /\ ~cancelled /\ cancelled' = TRUE
  /\ UNCHANGED <<step, url, network, checked, reached, got, outcome, benchmarks, audits, posted, fetches>>

\* execute: the grant is looked at again.
ExecuteFetch ==
  /\ step = "granted"
  /\ IF cancelled THEN TellModel("CANCELLED")
     ELSE IF network \cap {url.host, "*"} = {} THEN TellModel("NETWORK_DENIED")
     ELSE step' = "resolving" /\ UNCHANGED outcome
  /\ UNCHANGED <<url, network, checked, reached, got, cancelled, benchmarks, audits, posted, fetches>>

\* The signal is not looked at here: the lookup ends by itself.
LookedUp ==
  /\ step = "resolving"
  /\ checked' \in IF LoopbackName(url.host) \/ url.host \in DOMAIN Scoped THEN {NoAnswer}
                  ELSE LookupAnswers \cup {NoAnswer}
  /\ IF Reachable(url.host, checked') THEN step' = "checked" /\ UNCHANGED outcome ELSE TellModel("NETWORK_DENIED")
  /\ UNCHANGED <<url, network, reached, got, cancelled, benchmarks, audits, posted, fetches>>

\* Mutant of SendFetch: the scheme is not looked at.
SendFetchAnyScheme ==
  /\ step = "checked" /\ step' = "sent" /\ audits' = audits + 1 /\ reached' \in {"global", "private"}
  /\ UNCHANGED <<url, network, checked, got, outcome, cancelled, benchmarks, posted, fetches>>

\* send: refused, failed, cancelled, or answered. The url goes out as it is: a GET
\* has no body, and only bodies and headers are looked into. fetch looks the name up
\* again and may get another answer.
SendFetch ==
  /\ step = "checked" /\ audits' = audits + 1
  /\ IF ~TransportAllowed("web", url.scheme, url.host) \/ url.host \notin WebHosts
     THEN TellModel("NETWORK_DENIED") /\ UNCHANGED reached
     ELSE \/ cancelled /\ TellModel("CANCELLED") /\ UNCHANGED reached
          \/ TellModel("REMOTE_UNAVAILABLE") /\ UNCHANGED reached
          \/ ~cancelled /\ step' = "sent" /\ UNCHANGED outcome
             /\ reached' \in IF url.host \in DOMAIN Scoped THEN {Scoped[url.host]}
                             ELSE UNION {ToSet(a) : a \in LookupAnswers}
  /\ UNCHANGED <<url, network, checked, got, cancelled, benchmarks, posted, fetches>>

\* A redirect is told, never followed; what is not text is not read.
FetchAnswered ==
  /\ step = "sent"
  /\ \/ TellModel("redirected") \/ TellModel("TOOL_INVALID_ARGS")
     \/ step' = "reading" /\ UNCHANGED outcome
  /\ UNCHANGED <<url, network, checked, reached, got, cancelled, benchmarks, audits, posted, fetches>>

\* Mutant of ReadChunk: the chunk that is too much is taken whole.
ReadChunkWhole ==
  /\ step = "reading" /\ \E n \in Chunks : got' = got + n
  /\ IF got' > WireLimit THEN TellModel("cut") ELSE UNCHANGED <<step, outcome>>
  /\ UNCHANGED <<url, network, checked, reached, cancelled, benchmarks, audits, posted, fetches>>

\* readBody: up to the limit.
ReadChunk ==
  /\ step = "reading" /\ ~cancelled
  /\ \E n \in Chunks :
       IF got + n > WireLimit THEN got' = WireLimit /\ TellModel("cut")
       ELSE got' = got + n /\ UNCHANGED <<step, outcome>>
  /\ UNCHANGED <<url, network, checked, reached, cancelled, benchmarks, audits, posted, fetches>>

\* The body ended; a status of 400 and more is told as a failure. What was read
\* before a cancellation is told as a page that was cut short, unless the read
\* that is under way throws.
BodyOver ==
  /\ step = "reading"
  /\ IF cancelled THEN TellModel("cut") \/ TellModel("thrown")
     ELSE TellModel("page") \/ TellModel("REMOTE_UNAVAILABLE") \/ TellModel("thrown")
  /\ UNCHANGED <<url, network, checked, reached, got, cancelled, benchmarks, audits, posted, fetches>>

\* A request of another kind: hooks, telemetry, plugins, updates and the model's. Its
\* url is of the configuration and goes out as given.
Post ==
  /\ step = "idle"
  /\ \E kind \in GateKinds \ {"web"}, scheme \in {"https", "http"}, secret \in BOOLEAN,
        body \in SUBSET {"known", "shape", "field"}, headers \in SUBSET {"authorization", "other"} :
       /\ TransportAllowed(kind, scheme, "") /\ HeadersClean(headers)
       /\ \E sent \in Inspected(kind, body) :
            posted' = {[kind |-> kind, scheme |-> scheme, secret |-> secret, body |-> sent, headers |-> headers]}
  /\ UNCHANGED <<step, url, network, checked, reached, got, outcome, cancelled, benchmarks, audits, fetches>>

FetchNext ==
  \/ FetchCalled \/ FetchGranted \/ FetchCancelled \/ ExecuteFetch \/ LookedUp \/ SendFetch \/ FetchAnswered
  \/ ReadChunk \/ BodyOver \/ Post

FetchSpec == FetchInit /\ [][FetchNext]_fetchVars

-----------------------------------------------------------------------------

FetchTypeOK ==
  /\ step \in {"idle", "asked", "granted", "resolving", "checked", "sent", "reading", "told"}
  /\ url \in Urls /\ got \in Nat /\ cancelled \in BOOLEAN /\ audits \in Nat

\* What is fetched is what was granted and configured, over TLS, from a name all
\* of whose addresses were public when they were looked at, and no more than the
\* limit of it is read; the gate wrote down each request it saw.
FetchKept ==
  /\ got <= WireLimit
  /\ step \in {"sent", "reading"} \/ outcome \in {"page", "cut", "redirected"} =>
       /\ url.host \in WebHosts /\ network \cap {url.host, "*"} # {}
       /\ url.scheme = "https" \/ LoopbackName(url.host)
       /\ checked # NoAnswer => \A class \in ToSet(checked) : Public(class)
       /\ audits = 1

\* What the gate looks into: no body that leaves holds a value the kernel knows is
\* secret, nor does a header but `authorization`; what only looks like a secret may be
\* left where bodies are redacted, nowhere else; a channel for metadata carries
\* nothing else. The url is not looked into (see NothingKnownFetched).
SentClean ==
  \A p \in posted : /\ "known" \notin p.body /\ p.headers \subseteq {"authorization"}
                    /\ ~Redacts(p.kind) => "shape" \notin p.body
                    /\ MetadataOnly(p.kind) => "field" \notin p.body

\* Whatever leaves through the gate: a fetch to where it was granted, another request
\* with a body and headers that may leave.
GateKept == FetchKept /\ SentClean

\* A value the kernel knows is secret never leaves with a fetch, whose url the model
\* wrote: a GET carries nothing else. Not so: nobody looks into the url.
NothingKnownFetched == step \in {"sent", "reading"} => ~url.secret

\* What resolve.ts says it does not close: the socket goes where the name points
\* when it is opened, which need not be where it pointed when it was looked at.
NotRebound == reached = "none" \/ LoopbackName(url.host) \/ Public(reached)
=============================================================================
