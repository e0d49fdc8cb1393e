------------------------------ MODULE Verdicts ------------------------------
(***************************************************************************)
(* What the probes of crates/huginn-probes conclude from what they saw.     *)
(* Probe (one probe loop in time) and Settings (which probes the            *)
(* configuration lets through) share these operators.                       *)
(*                                                                         *)
(* A greeting is known by its length, by how many of its first bytes agree  *)
(* with the expected prefix, and by where its first newline is (0: none).   *)
(* A threshold in days is finite, or one of the values YAML can write that  *)
(* are not: .inf and .nan.                                                  *)
(*                                                                         *)
(* What a probe may see is bounded by what lies between it and the peer: the *)
(* HTTP client keeps informational responses to itself, and a certificate    *)
(* ends before the year 10000.                                              *)
(***************************************************************************)
EXTENDS Integers

CONSTANTS Statuses,          \* status codes the HTTP client may return
          Addresses,         \* addresses a name may resolve to
          Days,              \* whole days a certificate may have left
          LongestGreeting,   \* bound on the bytes a peer says
          MaxGreetingBytes,  \* lib.rs: MAX_GREETING_BYTES, 512
          NoValue,           \* an optional setting that is not there
          NoCertificate      \* a certificate that cannot be parsed

(* Informational responses, which the client reads past while it waits for    *)
(* the final one; only 101 is final as well, it ends HTTP on the connection.  *)
Informational == {100} \cup 102..199

ASSUME VerdictsAssumption ==
    /\ Statuses \subseteq Nat
    /\ Statuses \cap Informational = {}
    /\ Days \subseteq Int
    /\ LongestGreeting \in Nat
    /\ MaxGreetingBytes \in Nat
    /\ MaxGreetingBytes >= 4
    /\ NoValue \notin Statuses \cup Informational \cup Addresses
    /\ NoCertificate \notin Days

Http == {"http", "https"}
Greeters == {"smtp", "imap"}
Types == Http \cup Greeters \cup {"tcp", "udp", "dns", "tls"}

(* The number of bytes in "220" and in "* OK".                             *)
PrefixLen(type) == IF type = "smtp" THEN 3 ELSE 4

Texts == {t \in [len : 0..LongestGreeting, match : 0..LongestGreeting,
                 newline : 0..LongestGreeting] :
             /\ t.match <= t.len
             /\ t.newline <= t.len
             /\ t.newline > 0 => t.match < t.newline}

(* read_greeting_line: stop at a newline or at the cap ...                 *)
LineComplete(text, n) ==
    \/ text.newline \in 1..n
    \/ n >= MaxGreetingBytes

(* ... truncate, and let the caller compare: starts_with on what was kept. *)
GreetingVerdict(type, text, n) ==
    LET kept == IF n > MaxGreetingBytes THEN MaxGreetingBytes ELSE n
    IN  /\ kept >= PrefixLen(type)
        /\ text.match >= PrefixLen(type)

(* http::probe, of the status that send() returns. No expectation means 200; *)
(* redirects are not followed.                                              *)
StatusVerdict(p, status) ==
    status = IF p.expected_status = NoValue THEN 200 ELSE p.expected_status

(* dns::probe. A dns_expected_ip that is no address is in no answer.       *)
AnswerVerdict(p, answers) ==
    p.dns_expected_ip = NoValue \/ p.dns_expected_ip \in answers

(* `days < threshold` in f64: true of infinity, false of NaN.              *)
BelowThreshold(days, t) ==
    \/ t.kind = "finite" /\ days < t.n
    \/ t.kind = "inf"

(* expiry_verdict: an expired certificate is DOWN whatever the threshold.  *)
ExpiryVerdict(days, t) == days >= 0 /\ ~BelowThreshold(days, t)

(* What a probe may see when each of its steps gets an answer.             *)
Observations(type) ==
    CASE type \in Http -> Statuses
      [] type \in Greeters -> Texts
      [] type = "dns" -> SUBSET Addresses
      [] type = "tls" -> Days \cup {NoCertificate}
      [] type = "udp" -> {0, 1}               \* bytes in the datagram
      [] type = "tcp" -> {"connected"}

(* The registry's dispatch and each probe's last match.                    *)
Verdict(p, o) ==
    \/ p.type = "tcp"
    \/ p.type = "udp" /\ o > 0
    \/ p.type \in Http /\ StatusVerdict(p, o)
    \/ p.type = "dns" /\ AnswerVerdict(p, o)
    \/ p.type = "tls" /\ o # NoCertificate /\ ExpiryVerdict(o, p.tls_expiry_fail_days)
    \/ p.type \in Greeters /\ GreetingVerdict(p.type, o, o.len)
=============================================================================
