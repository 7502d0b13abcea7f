----------------------------- MODULE EgressProxy -----------------------------
(* The forward proxy of scoped egress (security/egress-proxy, security/egress): *)
(* one asynchronous handler per connection, from the request's head through    *)
(* resolution and the TLS identity to the relay.                              *)
(*                                                                           *)
(* A host as somebody spells it is a name and a form: normalizeHost takes the   *)
(* usual and the unusual spellings of a name to one host and refuses the rest.  *)
(* An address is its scope.                                                   *)
EXTENDS Integers, Sequences, FiniteSets, SequencesExt

CONSTANTS Conns,                \* connections of the workload
          Domains, Literals,    \* names, and address literals
          ScopeOf,              \* the scope of each literal
          Grants,               \* capability profiles' network fields
          Requests,             \* what a client's request head may say
          Hellos,               \* what may follow in a tunnel
          Answers,              \* sequences of addresses a resolver may give
          MaxConnections, MaxDnsAnswers

ASSUME EgressAssumption ==
  /\ IsFiniteSet(Conns) /\ ScopeOf \in [Literals -> STRING] /\ Domains \cap Literals = {}
  /\ MaxConnections \in Nat /\ MaxDnsAnswers \in Nat
  /\ Answers \subseteq Seq(STRING)
  /\ \A network \in Grants : \A raw \in network : raw.form # "malformed" => raw.name \in Domains \cup Literals

HttpPort == 80
HttpsPort == 443

VARIABLES
  grant,            \* the network field of the command's profile
  benchmark,        \* allowBenchmarkRange, an option of the operator
  proxy,            \* "down", "up" or "refused": the sidecar's process
  conns,            \* the handler of each connection
  open,             \* EgressProxy.open: the client sockets counted
  stats             \* [allowed, denied]: connections by verdict

egressVars == <<grant, benchmark, proxy, conns, open, stats>>

NoConn == [at |-> "none", request |-> <<>>, address |-> "none", hello |-> <<>>,
           verdicts |-> 0]

-----------------------------------------------------------------------------
(* Hosts and the frozen policy.                                              *)

(* normalizeHost: one host for every spelling, none for a malformed one. *)
NormalizeHost(raw) == IF raw.form = "malformed" THEN {} ELSE {raw.name}

(* normalizeNetworkMode: one host that cannot be understood refuses the whole   *)
(* grant, and so does an empty list.                                          *)
AllowList(network) ==
  IF network = {} \/ \E raw \in network : NormalizeHost(raw) = {} THEN {}
  ELSE UNION {NormalizeHost(raw) : raw \in network}

(* buildProxyPolicy, and parseProxyPolicy in the sidecar, which normalises again. *)
Policy == [h \in AllowList(grant) |-> {HttpPort, HttpsPort}]

(* decideAddress. *)
Usable(scope) == scope = "global" \/ (scope = "benchmarking" /\ benchmark)

(* decideDestination, which asks no resolver. *)
Destination(raw, port) ==
  \E h \in NormalizeHost(raw) : h \in DOMAIN Policy /\ port \in Policy[h]

(* parseRequestHead and checkFraming: a head two parsers would read alike. *)
Framed(r) == r.framed

(* parseAbsoluteTarget and parseConnectTarget: an authority that does not parse  *)
(* is a host that cannot be understood.                                       *)
HasTarget(r) == NormalizeHost(r.target) # {}

(* singleHostHeader: none is one too few, two are one too many. *)
OneHostHeader(r) == Len(r.headers) = 1

(* decideAuthorityAgreement: the Host header is for the same host, and for the  *)
(* same port if it names one.                                                 *)
AuthorityAgrees(r) ==
  /\ HasTarget(r) /\ OneHostHeader(r)
  /\ NormalizeHost(r.headers[1].host) = NormalizeHost(r.target)
  /\ r.headers[1].port \in {0, r.port}

(* parseClientHello: whole, within the budget, one of the two readings. *)
WholeHello(hello) == hello.kind \in {"sni", "no-sni"}

(* parseExtensions and parseServerNameList: one name, of this host. *)
HelloNames(hello, host) == hello.kind = "sni" /\ NormalizeHost(hello.name) = {host}

(* decideSni: for a domain the first record of the tunnel must be a whole      *)
(* ClientHello that names it in the clear.                                    *)
SniAgrees(host, hello) ==
  /\ WholeHello(hello) /\ ~hello.encrypted
  /\ host \in Domains => HelloNames(hello, host)

-----------------------------------------------------------------------------
EgressInit ==
  /\ grant \in Grants /\ benchmark \in BOOLEAN
  /\ proxy = "down"
  /\ conns = [c \in Conns |-> NoConn]
  /\ open = {}
  /\ stats = [allowed |-> 0, denied |-> 0]

HostOf(c) == CHOOSE h \in NormalizeHost(conns[c].request.target) : TRUE

Goto(c, place) == conns' = [conns EXCEPT ![c].at = place]

(* The verdict is recorded, and the client is answered or dropped: its socket is *)
(* counted until it closes.                                                  *)
Refuse(c, conn) ==
  /\ conns' = [conns EXCEPT ![c] = [conn EXCEPT !.at = "ended", !.verdicts = @ + 1]]
  /\ stats' = [stats EXCEPT !.denied = @ + 1]

Settled == UNCHANGED <<grant, benchmark, proxy>>

(* main: a policy that does not parse leaves no proxy, and no workload starts. *)
Listen ==
  /\ proxy = "down"
  /\ proxy' = IF AllowList(grant) = {} THEN "refused" ELSE "up"
  /\ UNCHANGED <<grant, benchmark, conns, open, stats>>

Accept(c) ==
  /\ proxy = "up" /\ conns[c].at = "none"
  /\ IF Cardinality(open) >= MaxConnections THEN Refuse(c, conns[c]) /\ UNCHANGED open
     ELSE Goto(c, "head") /\ open' = open \cup {c} /\ UNCHANGED stats
  /\ Settled

(* The head does not come whole, in time, within its budget or well formed. *)
HeadFails(c) ==
  /\ conns[c].at = "head"
  /\ Refuse(c, conns[c])
  /\ UNCHANGED open /\ Settled

(* After the address is known: a tunnel to 443 waits for its ClientHello, and  *)
(* everything else dials.                                                    *)
Onward(conn) ==
  [conn EXCEPT !.at = IF conn.request.method = "CONNECT" /\ conn.request.port = HttpsPort
                      THEN "hello" ELSE "dialling"]

(* What is approved goes on: a literal needs no resolver. *)
Approved(c, conn) ==
  LET host == CHOOSE h \in NormalizeHost(conn.request.target) : TRUE
  IN  IF host \in Domains
      THEN conns' = [conns EXCEPT ![c] = [conn EXCEPT !.at = "resolving"]] /\ UNCHANGED stats
      ELSE IF Usable(ScopeOf[host])
      THEN /\ conns' = [conns EXCEPT ![c] = Onward([conn EXCEPT !.address = ScopeOf[host]])]
           /\ UNCHANGED stats
      ELSE Refuse(c, conn)

(* handle, handleHttp and handleConnect up to their first await. *)
HeadArrives(c) ==
  /\ conns[c].at = "head"
  /\ \E r \in Requests :
       LET conn == [conns[c] EXCEPT !.request = r]
       IN  IF /\ Framed(r)
              /\ r.method = "CONNECT" \/ AuthorityAgrees(r)
              /\ Destination(r.target, r.port)
           THEN Approved(c, conn)
           ELSE Refuse(c, conn)
  /\ UNCHANGED open /\ Settled

\* Mutant of Chosen: the first answer is dialled, whatever it is.
ChosenFirst(answers) == IF answers = <<>> THEN "none" ELSE Head(answers)

(* resolveAndCheck: the first answer that may be dialled. *)
Chosen(answers) ==
  LET first == SelectInSeq(answers, Usable)
  IN  IF Len(answers) > MaxDnsAnswers \/ first = 0 THEN "none" ELSE answers[first]

(* The one resolution of the connection, the client still there or not. *)
Resolve(c) ==
  /\ conns[c].at = "resolving"
  /\ \E answers \in Answers :
       LET conn == [conns[c] EXCEPT !.address = Chosen(answers)]
       IN  IF conn.address = "none" THEN Refuse(c, conn)
           ELSE conns' = [conns EXCEPT ![c] = Onward(conn)] /\ UNCHANGED stats
  /\ UNCHANGED open /\ Settled

(* readClientHello: what came, or did not come in time, whole or in the budget. *)
HelloArrives(c) ==
  /\ conns[c].at = "hello"
  /\ \E hello \in Hellos :
       LET conn == [conns[c] EXCEPT !.hello = hello]
       IN  IF SniAgrees(HostOf(c), hello)
           THEN conns' = [conns EXCEPT ![c] = [conn EXCEPT !.at = "dialling"]] /\ UNCHANGED stats
           ELSE Refuse(c, conn)
  /\ UNCHANGED open /\ Settled

DialFails(c) ==
  /\ conns[c].at = "dialling"
  /\ Refuse(c, conns[c])
  /\ UNCHANGED open /\ Settled

(* What the client sent since the head was read has been read by nobody: the    *)
(* data listener of readHead is gone, the socket flows on, and the bytes are    *)
(* lost to the relay that starts here.                                        *)
Connected(c) ==
  /\ conns[c].at = "dialling"
  /\ conns' = [conns EXCEPT ![c].at = "relaying", ![c].verdicts = @ + 1]
  /\ stats' = [stats EXCEPT !.allowed = @ + 1]
  /\ UNCHANGED open /\ Settled

(* finish: the first end, error or idle timeout of either socket. *)
RelayEnds(c) ==
  /\ conns[c].at = "relaying"
  /\ Goto(c, "ended")
  /\ UNCHANGED <<open, stats>> /\ Settled

(* The client's socket closes. Whoever reads from it hears it; a resolution and *)
(* a connection attempt go on without it.                                      *)
ClientCloses(c) ==
  /\ c \in open /\ conns[c].at # "relaying"
  /\ open' = open \ {c}
  /\ IF conns[c].at \in {"head", "hello"} THEN Refuse(c, conns[c]) ELSE UNCHANGED <<conns, stats>>
  /\ Settled

(* The sidecar is stopped: every socket is destroyed and the process ends. *)
StopProxy ==
  /\ proxy = "up"
  /\ proxy' = "stopped"
  /\ conns' = [c \in Conns |-> IF conns[c].at = "none" THEN NoConn
                               ELSE [conns[c] EXCEPT !.at = "ended"]]
  /\ open' = {}
  /\ UNCHANGED <<grant, benchmark, stats>>

Handle(c) ==
  \/ Accept(c) \/ HeadFails(c) \/ HeadArrives(c) \/ Resolve(c) \/ HelloArrives(c)
  \/ DialFails(c) \/ Connected(c) \/ RelayEnds(c) \/ ClientCloses(c)

EgressNext == Listen \/ StopProxy \/ \E c \in Conns : Handle(c)

-----------------------------------------------------------------------------
(* Nothing is dialled but an address of an approved host whose identity was     *)
(* seen: the grant names the host in some spelling, the port is 80 or 443, the   *)
(* address may be reached, a plain request names the host twice alike, and a     *)
(* tunnel to a domain on 443 opened with a ClientHello that names it. All of it  *)
(* still holds when the dial begins, whatever was awaited in between.           *)
DialsChecked ==
  \A c \in {d \in Conns : conns[d].at \in {"dialling", "relaying"}} :
    LET conn == conns[c]
        host == conn.request.target.name
    IN  /\ \E raw \in grant : raw.name = host
        /\ conn.request.target.form # "malformed"
        /\ \A raw \in grant : raw.form # "malformed"
        /\ conn.request.port \in {HttpPort, HttpsPort}
        /\ conn.address = "global" \/ (benchmark /\ conn.address = "benchmarking")
        /\ IF conn.request.method # "CONNECT"
           THEN conn.request.headers[1].host.name = host
           ELSE conn.request.port = HttpsPort /\ host \in Domains =>
                  conn.hello.kind = "sni" /\ conn.hello.name.name = host /\ ~conn.hello.encrypted

(* Every connection is counted once, by one verdict, however it ends, and no     *)
(* more clients are served than the limit: the summary of an execution adds up.   *)
VerdictsAddUp ==
  LET told(c) == conns[c].verdicts
  IN  /\ \A c \in Conns : told(c) <= 1
      /\ proxy = "up" => \A c \in Conns : told(c) = 1 <=> conns[c].at \in {"relaying", "ended"}
      /\ stats.allowed + stats.denied = Cardinality({c \in Conns : told(c) = 1})
      /\ Cardinality(open) <= MaxConnections
=============================================================================
