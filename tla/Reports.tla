------------------------------ MODULE Reports -------------------------------
(***************************************************************************)
(* The ProbeResult each executor of crates/huginn-probes builds from what    *)
(* happened to its probe. Probe has the same executors in time; here is      *)
(* what they report.                                                        *)
(*                                                                         *)
(* An outcome is what the world did, a record with the fields its type of    *)
(* probe looks at:                                                          *)
(*   failure     text of the error of a step, <<>> if every step succeeded   *)
(*   client      text of the error that kept the registry from building the  *)
(*               HTTP client or the TLS configuration, or <<>>              *)
(*   chain       the statuses along the redirects of an URL, as the client   *)
(*               returns them: never an informational one                   *)
(*   text, says  a greeting, for its verdict and as characters without the   *)
(*               white space around it                                      *)
(*   v4, v6      the addresses of a name, per family; found: in the order    *)
(*               the system's resolver gives them                           *)
(*   bytes       the bytes of a datagram                                     *)
(*   trusted, certificate   the peer's certificate, the days it has left or  *)
(*               NoCertificate                                              *)
(*   elapsed, now  the duration and the time of the probe                    *)
(***************************************************************************)
EXTENDS Verdicts, Rendering

TlsCertExpiryDays == <<"tls_cert_expiry_days">>

Success(p, o, status) ==
    [probe_name |-> p.name, probe_type |-> p.type, target |-> p.target.text,
     up |-> TRUE, response_ms |-> o.elapsed, status_code |-> status, error |-> <<>>,
     timestamp |-> o.now, metrics |-> <<>>]

(* The one place where what a remote host said is escaped.                  *)
Failure(p, elapsed, o, error) ==
    [probe_name |-> p.name, probe_type |-> p.type, target |-> p.target.text,
     up |-> FALSE, response_ms |-> elapsed, status_code |-> <<>>,
     error |-> <<EscapeControlChars(error)>>,
     timestamp |-> o.now, metrics |-> <<>>]

WithMetric(r, key, value) == [r EXCEPT !.metrics = Append(@, [key |-> key, value |-> value])]
-----------------------------------------------------------------------------
(* tcp::probe                                                               *)
TcpProbe(p, o) ==
    IF o.failure = <<>> THEN Success(p, o, <<>>) ELSE Failure(p, o.elapsed, o, o.failure)
-----------------------------------------------------------------------------
(* http::probe. The client was built once, by the registry.                 *)

(* Fault of BuildClient: reqwest's default policy. Breaks ResultsAreHonest.  *)
BuildClientFollows(chain) == chain[Len(chain)]

(* Policy::none(): the answer is the one of the URL itself.                  *)
BuildClient(chain) == Head(chain)

Answered(p, o, status) ==
    IF StatusVerdict(p, status)
    THEN Success(p, o, <<status>>)
    ELSE Failure(p, o.elapsed, o, <<"unexpected status", Digits(status)>>)

HttpProbe(p, o) ==
    IF o.client # <<>> THEN Failure(p, 0, o, o.client)
    ELSE IF o.failure # <<>> THEN Failure(p, o.elapsed, o, o.failure)
    ELSE Answered(p, o, BuildClient(o.chain))
-----------------------------------------------------------------------------
(* smtp::probe and imap::probe                                              *)
GreetingProbe(p, o) ==
    IF o.failure # <<>> THEN Failure(p, o.elapsed, o, o.failure)
    ELSE IF GreetingVerdict(p.type, o.text, o.text.len) THEN Success(p, o, <<>>)
    ELSE IF o.text.len = 0 THEN Failure(p, o.elapsed, o, <<"empty">>)
    ELSE Failure(p, o.elapsed, o, <<"unexpected">> \o o.says)
-----------------------------------------------------------------------------
(* udp::probe: the first address of the target, and a socket of its family.  *)

(* Addresses in v6 are those of IPv6; the kernel refuses to connect a socket *)
(* of one family to an address of the other.                                *)
Connects(family, address, o) == (family = "v6") = (address \in o.v6)

SocketFamily(address, o) == IF address \in o.v6 THEN "v6" ELSE "v4"

UdpProbe(p, o) ==
    IF o.failure # <<>> THEN Failure(p, o.elapsed, o, o.failure)
    ELSE IF o.found = <<>> THEN Failure(p, o.elapsed, o, <<"no address resolved">>)
    ELSE IF ~Connects(SocketFamily(Head(o.found), o), Head(o.found), o)
      THEN Failure(p, o.elapsed, o, <<"address family not supported">>)
    ELSE IF o.bytes = 0 THEN Failure(p, o.elapsed, o, <<"empty response">>)
    ELSE Success(p, o, <<>>)
-----------------------------------------------------------------------------
(* dns::probe                                                               *)

(* resolver.lookup_ip under a strategy: no address is an error, and so is a  *)
(* family without an answer when both are asked for.                        *)
LookupIp(strategy, o) ==
    CASE strategy = "Ipv4thenIpv6" -> IF o.v4 # {} THEN o.v4 ELSE o.v6
      [] strategy = "Ipv6AndIpv4" -> IF {} \in {o.v4, o.v6} THEN {} ELSE o.v4 \cup o.v6

(* build_resolver: one nameserver, one attempt, a pinned strategy.          *)
BuildResolver == "Ipv4thenIpv6"

DnsProbe(p, o) ==
    IF p.target.shape # "socket" THEN Failure(p, 0, o, <<"invalid target address">>)
    ELSE IF o.client # <<>> THEN Failure(p, 0, o, o.client)
    ELSE IF o.failure # <<>> THEN Failure(p, o.elapsed, o, o.failure)
    ELSE IF LookupIp(BuildResolver, o) = {} THEN Failure(p, o.elapsed, o, <<"no records">>)
    ELSE IF AnswerVerdict(p, LookupIp(BuildResolver, o)) THEN Success(p, o, <<>>)
    ELSE Failure(p, o.elapsed, o, <<"not in response">>)
-----------------------------------------------------------------------------
(* tls::probe                                                               *)

(* ReadOnlyCertVerifier: the certificate is to be read, not trusted.        *)
VerifyServerCert(o) == TRUE

(* split_host_port takes the last colon; what is left of it must be a name   *)
(* or an address, which a bare IPv6 address without its last group is not.   *)
SplitHostPort(target) == target.shape \in {"socket", "name"}

(* The reason why there is no certificate to look at, or <<>>.               *)
FetchPeerCertificate(p, o) ==
    IF ~SplitHostPort(p.target) THEN <<"not a valid TLS server name">>
    ELSE IF o.failure # <<>> THEN o.failure
    ELSE IF ~VerifyServerCert(o) THEN <<"invalid peer certificate">>
    ELSE <<>>

(* cert_expiry_days and expiry_verdict. The reading stays on a failure.      *)
Judged(p, o) ==
    IF o.certificate = NoCertificate
    THEN Failure(p, o.elapsed, o, <<"could not parse certificate">>)
    ELSE WithMetric(IF ExpiryVerdict(o.certificate, p.tls_expiry_fail_days)
                      THEN Success(p, o, <<>>)
                      ELSE Failure(p, o.elapsed, o, <<"certificate expires">>),
                    TlsCertExpiryDays, o.certificate)

TlsProbe(p, o) ==
    IF o.client # <<>> THEN Failure(p, 0, o, o.client)
    ELSE IF FetchPeerCertificate(p, o) # <<>>
      THEN Failure(p, o.elapsed, o, FetchPeerCertificate(p, o))
    ELSE Judged(p, o)
-----------------------------------------------------------------------------
(* ProbeRegistry::get                                                       *)
Report(p, o) ==
    CASE p.type = "tcp" -> TcpProbe(p, o)
      [] p.type \in Http -> HttpProbe(p, o)
      [] p.type \in Greeters -> GreetingProbe(p, o)
      [] p.type = "udp" -> UdpProbe(p, o)
      [] p.type = "dns" -> DnsProbe(p, o)
      [] p.type = "tls" -> TlsProbe(p, o)

(* The result says what happened: of this probe, with a reason exactly when  *)
(* it is DOWN; of the URL that was given and not of one it redirects to; of  *)
(* a name with an address in either family; and how long a certificate that  *)
(* could be read is good for, trusted or not, expired or not.               *)
HonestReport(p, o) ==
    LET r == Report(p, o)
        reached == /\ o.failure = <<>>
                   /\ p.type \in Http \cup {"dns", "tls"} => o.client = <<>>
    IN  /\ r.probe_name = p.name /\ r.probe_type = p.type /\ r.target = p.target.text
        /\ r.up <=> r.error = <<>>
        /\ r.up => reached
        /\ p.type \in Http /\ reached => (r.up <=> StatusVerdict(p, o.chain[1]))
        /\ p.type = "dns" /\ reached /\ p.dns_expected_ip = NoValue =>
              (r.up <=> o.v4 \cup o.v6 # {})
        /\ p.type = "udp" /\ reached /\ o.bytes > 0 => (r.up <=> o.found # <<>>)
        /\ p.type = "tls" /\ reached /\ SplitHostPort(p.target) /\ o.certificate # NoCertificate =>
              r.metrics = <<[key |-> TlsCertExpiryDays, value |-> o.certificate]>>
=============================================================================
