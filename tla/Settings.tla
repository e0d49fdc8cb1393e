------------------------------ MODULE Settings ------------------------------
(***************************************************************************)
(* A configuration file and what the loading makes of it: the defaults of    *)
(* its keys, the environment's overrides, the rewriting of control           *)
(* characters, validation (crates/huginn-core/src/config.rs), and the        *)
(* secrets it names; and the pace of retries that comes from it             *)
(* (crates/huginn-influx/src/writer.rs).                                    *)
(*                                                                         *)
(* A file is what its YAML says: records with the keys that are there. An    *)
(* environment is a function on the variables that are set, a variable being *)
(* named by the section and the key it overrides. A bind string is a name    *)
(* that Parse maps to an address [v6, host], host "any" being the            *)
(* unspecified one. A target is its characters and its shape (see            *)
(* HasPortSuffix). LargestDuration and LargestShift stand for where Duration *)
(* and the shift of a u32 end.                                              *)
(***************************************************************************)
EXTENDS Reports

CONSTANTS Parse,            \* [bind strings -> addresses or NoValue]
          LocalAddresses,   \* the addresses the host has, [v6, host]
          LargestDuration,  \* Duration::MAX
          LargestShift,     \* 31, backoff_delay's limit of the shift
          Unreadable        \* a file that is missing or cannot be read

ASSUME SettingsAssumption ==
    /\ LargestDuration \in Nat
    /\ LargestShift \in Nat
    /\ \A b \in DOMAIN Parse :
          \/ Parse[b] = NoValue
          \/ Parse[b].host = "any"
          \/ Parse[b] \in LocalAddresses

HealthAddr == [v6 |-> FALSE, host |-> "lo"]
-----------------------------------------------------------------------------
(* The keys of the file. A key without a default is required, any other key  *)
(* than these is refused (deny_unknown_fields).                             *)
Schema(required, defaults) == [required |-> required, defaults |-> defaults]

InfluxConfig == Schema({"url", "org", "bucket"},
    [token_file |-> "influx_token", batch_size |-> 10, batch_timeout_ms |-> 1000,
     max_buffered_bytes |-> 8388608, retry_initial_backoff_ms |-> 500,
     retry_max_backoff_ms |-> 30000, shutdown_drain_timeout_ms |-> 5000])

UiConfig == Schema({}, [enabled |-> FALSE, bind |-> "127.0.0.1", port |-> 9116])

MetricsConfig == Schema({}, [enabled |-> FALSE, bind |-> "127.0.0.1", port |-> 9464,
                             api_key_file |-> NoValue])

HealthConfig == Schema({}, [enabled |-> TRUE, port |-> 9115])

LogConfig == Schema({}, [format |-> "pretty", level |-> "info"])

(* An unset threshold means 0 days.                                         *)
ProbeConfig == Schema({"name", "type", "target"},
    [interval_secs |-> 30, timeout_secs |-> 5, expected_status |-> NoValue,
     dns_query |-> NoValue, dns_expected_ip |-> NoValue,
     tls_expiry_fail_days |-> [kind |-> "finite", n |-> 0]])

(* The sections are keys with a record behind them, all but influx optional. *)
Sections == [influx |-> InfluxConfig, ui |-> UiConfig, metrics |-> MetricsConfig,
             health |-> HealthConfig, log |-> LogConfig]

AppConfig == Schema({"influx"},
    [probes |-> <<>>, ui |-> <<>>, metrics |-> <<>>, health |-> <<>>, log |-> <<>>,
     event_hub_capacity |-> 256])

Accepts(schema, given) ==
    /\ schema.required \subseteq DOMAIN given
    /\ DOMAIN given \subseteq schema.required \cup DOMAIN schema.defaults

Complete(schema, given) ==
    [k \in DOMAIN given \cup DOMAIN schema.defaults |->
        IF k \in DOMAIN given THEN given[k] ELSE schema.defaults[k]]

(* serde_yaml_ng::from_str: whether there is an AppConfig in the file ...    *)
Parses(file) ==
    /\ file # Unreadable
    /\ Accepts(AppConfig, file)
    /\ \A s \in DOMAIN Sections \cap DOMAIN file : Accepts(Sections[s], file[s])
    /\ \A i \in DOMAIN Complete(AppConfig, file).probes :
          /\ Accepts(ProbeConfig, file.probes[i])
          /\ file.probes[i].type \in Types

(* ... and which one.                                                       *)
Parsed(file) ==
    LET given == Complete(AppConfig, file)
    IN  [k \in DOMAIN given |->
            IF k \in DOMAIN Sections THEN Complete(Sections[k], given[k])
            ELSE IF k = "probes"
              THEN [i \in DOMAIN given.probes |-> Complete(ProbeConfig, given.probes[i])]
            ELSE given[k]]
-----------------------------------------------------------------------------
(* apply_env_overrides                                                      *)

Flags == {<<"ui", "enabled">>, <<"metrics", "enabled">>}
Binds == {<<"ui", "bind">>, <<"metrics", "bind">>}
Ports == {<<"ui", "port">>, <<"metrics", "port">>}
LogFormatVar == <<"log", "format">>
Variables ==
    {<<"influx", "url">>, <<"influx", "org">>, <<"influx", "bucket">>, <<"influx", "token_file">>,
     <<"metrics", "api_key_file">>, LogFormatVar, <<"log", "level">>} \cup Flags \cup Binds \cup Ports

ParsableBinds == {b \in DOMAIN Parse : Parse[b] # NoValue}
Formats == {"json", "pretty"}

(* The strings are taken as they are.                                       *)
Usable(variable, value) ==
    /\ variable \in Flags => value \in BOOLEAN
    /\ variable \in Binds => value \in ParsableBinds
    /\ variable \in Ports => value \in 0..65535
    /\ variable = LogFormatVar => value \in Formats

(* A variable that cannot be used changes nothing ...                       *)
Overridden(c, env) ==
    [s \in DOMAIN c |->
        IF s \notin DOMAIN Sections THEN c[s]
        ELSE [k \in DOMAIN c[s] |->
                 IF <<s, k>> \in DOMAIN env /\ Usable(<<s, k>>, env[<<s, k>>])
                 THEN env[<<s, k>>] ELSE c[s][k]]]

(* ... but a warning is returned.                                           *)
UnusableVariables(env) == {v \in DOMAIN env : ~Usable(v, env[v])}
-----------------------------------------------------------------------------
(* escape_control_chars_in_names                                            *)
EscapedProbe(p) ==
    [p EXCEPT !.name = EscapeControlChars(@),
              !.target.text = EscapeControlChars(@)]

Escaped(c) == [c EXCEPT !.probes = [i \in DOMAIN @ |-> EscapedProbe(@[i])]]

RewrittenProbes(c) == {i \in DOMAIN c.probes : EscapedProbe(c.probes[i]) # c.probes[i]}
-----------------------------------------------------------------------------
(* validate                                                                 *)

(* Fault of AddressesContend: equal addresses only. Breaks ListenersBind.    *)
AddressesContendIfEqual(a, b) == a = b

AddressesContend(a, b) ==
    \/ a = b
    \/ a.host = "any" /\ (a.v6 \/ ~b.v6)
    \/ b.host = "any" /\ (b.v6 \/ ~a.v6)

(* What validation and the probes' parsers see of a target: an IP and a      *)
(* port, a host name and a port, either without a port, an URL, an URL that   *)
(* ends in a port, or a bare IPv6 address, whose last group looks like one.   *)
HasPortSuffix(target) == target.shape \in {"socket", "name", "url_port", "bare_v6"}
AbsoluteUrl(target) == target.shape \in {"url", "url_port"}

ValidTarget(p) ==
    /\ p.type = "dns" => p.target.shape = "socket"
    /\ p.type \in {"tcp", "smtp", "imap", "udp", "tls"} => HasPortSuffix(p.target)
    /\ p.type \in Http => AbsoluteUrl(p.target)

(* Fault of ValidThreshold: only the sign is looked at. Breaks NoDeadProbe.  *)
ValidThresholdSignOnly(t) == t.kind = "finite" => t.n >= 0

ValidThreshold(t) == t.kind = "finite" /\ t.n >= 0

ValidProbe(p) ==
    /\ p.name # <<>> /\ p.target.text # <<>>
    /\ p.interval_secs > 0 /\ p.timeout_secs > 0
    /\ ValidThreshold(p.tls_expiry_fail_days)
    /\ p.expected_status = NoValue \/ p.expected_status \in 100..599
    /\ p.dns_expected_ip = NoValue \/ p.dns_expected_ip \in Addresses
    /\ ValidTarget(p)

ValidProbes(probes) ==
    /\ \A i \in DOMAIN probes : ValidProbe(probes[i])
    /\ \A i, j \in DOMAIN probes : probes[i].name = probes[j].name => i = j

ValidInflux(influx) ==
    /\ influx.url = "absolute" /\ influx.org # <<>> /\ influx.bucket # <<>>
    /\ influx.batch_size > 0
    /\ influx.batch_timeout_ms > 0
    /\ influx.max_buffered_bytes > 0
    /\ influx.retry_initial_backoff_ms > 0
    /\ influx.retry_max_backoff_ms > 0
    /\ influx.retry_max_backoff_ms >= influx.retry_initial_backoff_ms

(* ui against metrics, then health against both.                            *)
Contend(a, b) == a.port = b.port /\ AddressesContend(Parse[a.bind], Parse[b.bind])
ContendsWithHealth(l, health) ==
    /\ l.port = health.port
    /\ AddressesContend(Parse[l.bind], HealthAddr)

ValidListeners(c) ==
    /\ \A l \in {c.ui, c.metrics} :
          /\ Parse[l.bind] # NoValue
          /\ l.enabled => l.port # 0
          /\ l.enabled /\ c.health.enabled => ~ContendsWithHealth(l, c.health)
    /\ c.metrics.api_key_file # ""
    /\ c.ui.enabled /\ c.metrics.enabled => ~Contend(c.ui, c.metrics)

Valid(c) ==
    /\ ValidInflux(c.influx)
    /\ c.event_hub_capacity > 0
    /\ ValidListeners(c)
    /\ ValidProbes(c.probes)

(* load_with_warnings: the overrides, then the names, and only then the      *)
(* validation, whose duplicate check is to see the new names.               *)
Configured(file, env) == Escaped(Overridden(Parsed(file), env))

Loads(file, env) == Parses(file) /\ Valid(Configured(file, env))

(* The variables that could not be used, and the probes that were rewritten. *)
Warnings(file, env) ==
    UnusableVariables(env) \cup {<<"probe", i>> : i \in RewrittenProbes(Parsed(file))}
-----------------------------------------------------------------------------
(* read_token and read_api_key: the content of a file without the white      *)
(* space around it. A file that is not there or has nothing in it is an      *)
(* error, Unreadable.                                                       *)
ReadSecret(disk, path) ==
    IF path \in DOMAIN disk /\ disk[path] # "" THEN disk[path] ELSE Unreadable

ReadToken(c, disk) == ReadSecret(disk, c.influx.token_file)

(* Fault of ReadApiKey: a file that cannot be used is as none. Breaks        *)
(* FailsClosed.                                                             *)
ReadApiKeyOrNone(c, disk) ==
    IF c.metrics.api_key_file \in DOMAIN disk THEN ReadSecret(disk, c.metrics.api_key_file)
    ELSE NoValue

ReadApiKey(c, disk) ==
    IF c.metrics.api_key_file = NoValue THEN NoValue
    ELSE ReadSecret(disk, c.metrics.api_key_file)
-----------------------------------------------------------------------------
(* write_lines: what an answer of InfluxDB means for the batch. No answer is *)
(* "transport".                                                             *)
Classify(status) ==
    IF status \in 200..299 THEN "written"
    ELSE IF status >= 500 \/ status \in {408, 429} THEN "server"
    ELSE "client"

(* 1u32 << n.                                                               *)
ShiftedOne[n \in 0..LargestShift] == IF n = 0 THEN 1 ELSE 2 * ShiftedOne[n - 1]

(* Fault of BackoffDelay: the multiplication wraps around. Breaks            *)
(* BackoffIsPaced.                                                          *)
BackoffDelayWraps(initial, max, attempt) ==
    LET shift == IF attempt > LargestShift THEN LargestShift ELSE attempt
        delay == (initial * ShiftedOne[shift]) % (LargestDuration + 1)
    IN  IF delay > max THEN max ELSE delay

(* backoff_delay: initial * 2^attempt, or max where that is no Duration.     *)
BackoffDelay(initial, max, attempt) ==
    LET shift == IF attempt > LargestShift THEN LargestShift ELSE attempt
        delay == initial * ShiftedOne[shift]
    IN  IF delay > LargestDuration \/ delay > max THEN max ELSE delay

(* run_writer: Retry-After, which only a server's own fault carries, goes    *)
(* before the backoff; the ceiling is above both. In milliseconds.          *)
RetryDelay(influx, class, retry_after_secs, attempt) ==
    LET max == influx.retry_max_backoff_ms
        delay == IF class = "server" /\ retry_after_secs # NoValue
                 THEN 1000 * retry_after_secs
                 ELSE BackoffDelay(influx.retry_initial_backoff_ms, max, attempt)
    IN  IF delay > max THEN max ELSE delay
=============================================================================
