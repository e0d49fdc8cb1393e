------------------------------ MODULE Startup -------------------------------
(***************************************************************************)
(* The start of the daemon, from the command line to the moment the          *)
(* scheduler runs (huginn/src/main.rs: main and run), with a configuration   *)
(* file an operator may edit meanwhile, and the `huginn healthcheck` that    *)
(* Docker runs beside it as a process of its own.                           *)
(*                                                                         *)
(* Each step of the daemon that can fail is an action; a step that fails     *)
(* ends the process, which closes its sockets. What the daemon does from     *)
(* then on is the subject of Daemon.                                        *)
(***************************************************************************)
EXTENDS Settings

CONSTANTS Situations,   \* what may be found at the start, [file, edit, env, output, disk]
          Outcomes,     \* what may happen to a probe, see Reports
          DefaultPort   \* health.port of a file that does not say, 9115

(* What serde makes sure of: names are strings, durations and days numbers,  *)
(* and the probes a list.                                                   *)
TypedProbe(p) ==
    /\ p.name \in Seq(STRING) /\ p.target \in [text : Seq(STRING), shape : STRING]
    /\ "tls_expiry_fail_days" \in DOMAIN p =>
          (p.tls_expiry_fail_days.kind = "finite" => p.tls_expiry_fail_days.n \in Int)

TypedFile(f) ==
    Parses(f) =>
        /\ "probes" \in DOMAIN f =>
              /\ Len(f.probes) \in Nat /\ DOMAIN f.probes = 1 .. Len(f.probes)
              /\ \A i \in DOMAIN f.probes : TypedProbe(f.probes[i])
        /\ f.influx.org \in Seq(STRING) /\ f.influx.bucket \in Seq(STRING)
        /\ \A k \in DOMAIN f.influx \cap {"retry_initial_backoff_ms", "retry_max_backoff_ms"} :
              f.influx[k] \in Nat

(* A number is written without control characters and the marks of a format. *)
Marks == {Backslash, Quote, ",", "=", " ", "{", "}"}

TypedOutcome(o) ==
    /\ o.failure \in Seq(STRING) /\ o.client \in Seq(STRING) /\ o.says \in Seq(STRING)
    /\ o.chain \in Seq(Statuses) /\ o.chain # <<>>
    /\ o.certificate \in Days \cup {NoCertificate}
    /\ \A n \in {0, 1, o.elapsed, o.now} \cup Statuses \cup ({o.certificate} \ {NoCertificate}) :
          Digits(n) \in STRING \ (Controls \cup Marks)

(* Only variables of the program count; what is set or stored is a value, and *)
(* a name is a string.                                                      *)
ASSUME StartupAssumption ==
    /\ DefaultPort = HealthConfig.defaults.port
    /\ NoValue \notin Formats
    /\ \A o \in Outcomes : TypedOutcome(o)
    /\ \A s \in Situations :
          /\ TypedFile(s.file) /\ (s.edit # NoValue => TypedFile(s.edit))
          /\ DOMAIN s.env \subseteq Variables
          /\ \A v \in DOMAIN s.env : s.env[v] # NoValue
          /\ \A k \in {"org", "bucket"} :
                <<"influx", k>> \in DOMAIN s.env => s.env[<<"influx", k>>] \in Seq(STRING)
          /\ \A p \in DOMAIN s.disk : s.disk[p] \notin {NoValue, Unreadable}

VARIABLES stage,      \* what the daemon does next, or how it ended
          file,       \* the configuration file
          edit,       \* what an operator will make of it, or NoValue
          env,        \* the HUGINN_* and INFLUX_* variables
          output,     \* --output, or NoValue
          disk,       \* the secret files, [paths -> contents]
          cfg,        \* AppConfig
          json,       \* use_json
          warned,     \* the warnings that were logged
          token,      \* InfluxWriter.token
          apiKey,     \* MetricsState.api_key
          sockets,    \* the daemon's listeners, [name, addr, port]
          check,      \* the healthcheck: "none", "ask", "healthy" or "unhealthy"
          checkPort,  \* the port it asks
          \* history
          loaded,     \* the file as the daemon read it
          checked     \* the file as the healthcheck read it

world == <<file, edit, env, output, disk>>
daemon == <<stage, cfg, json, warned, token, apiKey, sockets, loaded>>
healthcheck == <<check, checkPort, checked>>
vars == <<world, daemon, healthcheck>>

Failed == {"rejected", "bind_failed", "secret_failed"}

Init ==
    /\ \E s \in Situations :
          file = s.file /\ edit = s.edit /\ env = s.env /\ output = s.output /\ disk = s.disk
    /\ stage = "load"
    /\ cfg = NoValue /\ json = FALSE /\ warned = {}
    /\ token = NoValue /\ apiKey = NoValue /\ sockets = {}
    /\ check = "none" /\ checkPort = NoValue
    /\ loaded = NoValue /\ checked = NoValue
-----------------------------------------------------------------------------
(* main                                                                     *)

(* load_with_warnings.                                                      *)
Load ==
    /\ stage = "load"
    /\ loaded' = file
    /\ IF Loads(file, env)
         THEN stage' = "trace" /\ cfg' = Configured(file, env)
         ELSE stage' = "rejected" /\ cfg' = cfg
    /\ UNCHANGED <<world, healthcheck, json, warned, token, apiKey, sockets>>

(* clap: the flag, or else the variable.                                    *)
OutputArgument ==
    IF output # NoValue THEN output
    ELSE IF LogFormatVar \in DOMAIN env THEN env[LogFormatVar]
    ELSE NoValue

(* Fault of ResolveOutputFormat: json wins. Breaks OverridesAreHeard.       *)
ResolveOutputFormatOr(argument, format) == argument = "json" \/ format = "json"

ResolveOutputFormat(argument, format) ==
    IF argument \in Formats THEN argument = "json" ELSE format = "json"

OutputWarning(argument) ==
    IF argument \in Formats \cup {NoValue} THEN {} ELSE {<<"main", "output">>}

(* The levels that let a warning through; RUST_LOG is not set.              *)
Audible == {"warn", "info", "debug", "trace"}

(* init_tracing, and then the warnings.                                     *)
InitTracing ==
    /\ stage = "trace"
    /\ json' = ResolveOutputFormat(OutputArgument, cfg.log.format)
    /\ warned' = IF cfg.log.level \in Audible
                 THEN Warnings(loaded, env) \cup OutputWarning(OutputArgument)
                 ELSE {}
    /\ stage' = "bind_health"
    /\ UNCHANGED <<world, healthcheck, cfg, token, apiKey, sockets, loaded>>
-----------------------------------------------------------------------------
(* run                                                                      *)

(* What the kernel gives a bound socket: a specific address is one endpoint, *)
(* 0.0.0.0 all of IPv4, and :: everything, as long as bindv6only is off.     *)
Endpoints(a) ==
    IF a.host = "any" THEN {e \in LocalAddresses : a.v6 \/ ~e.v6} ELSE {a}

AddressInUse(addr, port) ==
    \E s \in sockets : /\ s.port = port /\ port # 0
                       /\ Endpoints(s.addr) \cap Endpoints(addr) # {}

(* An error that run returns: the process ends.                             *)
Fail(how) == stage' = how /\ sockets' = {}

(* TcpListener::bind for one listener, if it is enabled.                    *)
Bind(name, enabled, addr, port, next) ==
    /\ IF enabled /\ AddressInUse(addr, port) THEN Fail("bind_failed")
       ELSE /\ sockets' = sockets \cup IF enabled THEN {[name |-> name, addr |-> addr, port |-> port]}
                                                  ELSE {}
            /\ stage' = next
    /\ UNCHANGED <<world, healthcheck, cfg, json, warned, token, apiKey, loaded>>

BindHealth ==
    /\ stage = "bind_health"
    /\ Bind("health", cfg.health.enabled, HealthAddr, cfg.health.port, "new_writer")

(* InfluxWriter::new.                                                       *)
NewWriter ==
    /\ stage = "new_writer"
    /\ token' = ReadToken(cfg, disk)
    /\ IF token' = Unreadable THEN Fail("secret_failed")
                              ELSE stage' = "bind_ui" /\ sockets' = sockets
    /\ UNCHANGED <<world, healthcheck, cfg, json, warned, apiKey, loaded>>

BindUi ==
    /\ stage = "bind_ui"
    /\ Bind("ui", cfg.ui.enabled, Parse[cfg.ui.bind], cfg.ui.port, "read_key")

(* The key is read before the socket is there.                              *)
ReadKey ==
    /\ stage = "read_key"
    /\ apiKey' = IF cfg.metrics.enabled THEN ReadApiKey(cfg, disk) ELSE NoValue
    /\ IF apiKey' = Unreadable THEN Fail("secret_failed")
                               ELSE stage' = "bind_metrics" /\ sockets' = sockets
    /\ UNCHANGED <<world, healthcheck, cfg, json, warned, token, loaded>>

BindMetrics ==
    /\ stage = "bind_metrics"
    /\ Bind("metrics", cfg.metrics.enabled, Parse[cfg.metrics.bind], cfg.metrics.port, "running")

Daemon == Load \/ InitTracing \/ BindHealth \/ NewWriter \/ BindUi \/ ReadKey \/ BindMetrics
-----------------------------------------------------------------------------
(* The routes of the three listeners; any other path is a 404.              *)
Routes(name) ==
    CASE name = "health" -> {"/health"}
      [] name = "ui" -> {"/", "/events", "/metrics/latest", "/health",
                         "/assets/style.css", "/assets/app.js"}
      [] name = "metrics" -> {"/metrics"}

(* run_healthcheck: a process with the same arguments and environment.       *)

(* Fault of HealthPort: the port of a file that does not name one. Breaks    *)
(* HealthcheckAgrees.                                                       *)
HealthPortDefault(c) == DefaultPort

HealthPort(c) == c.health.port

RunHealthcheck ==
    /\ check # "ask"
    /\ checked' = file
    /\ IF Loads(file, env) /\ Configured(file, env).health.enabled
         THEN check' = "ask" /\ checkPort' = HealthPort(Configured(file, env))
         ELSE check' = "unhealthy" /\ checkPort' = NoValue
    /\ UNCHANGED <<world, daemon>>

(* check_health: whatever listens on that port of the loopback is asked.     *)
CheckHealth ==
    /\ check = "ask"
    /\ check' = IF \E s \in sockets : /\ s.port = checkPort /\ checkPort # 0
                                      /\ HealthAddr \in Endpoints(s.addr)
                                      /\ "/health" \in Routes(s.name)
                THEN "healthy" ELSE "unhealthy"
    /\ UNCHANGED <<world, daemon, checkPort, checked>>

(* An operator saves the file.                                              *)
EditFile ==
    /\ edit # NoValue
    /\ file' = edit /\ edit' = NoValue
    /\ UNCHANGED <<env, output, disk, daemon, healthcheck>>

Next == Daemon \/ RunHealthcheck \/ CheckHealth \/ EditFile

Spec == Init /\ [][Next]_vars
-----------------------------------------------------------------------------
(* An accepted configuration binds all its listeners, whatever the           *)
(* environment overrode: the rule of addresses_contend finds every pair the  *)
(* kernel would refuse (validate, lines 822 to 868).                        *)
ListenersBind == stage # "bind_failed"

(* An accepted probe of a target that can exist is DOWN for ever only if it   *)
(* expects one of two things that never come: an informational status, which *)
(* the HTTP client does not show it, or more days than any certificate has.   *)
(* Every other expectation that nothing could meet is refused (validate:     *)
(* "the exact failure shape this whole function exists to prevent", which    *)
(* overlooks these two).                                                    *)
CanExist(p) ==
    p.target.shape \in IF p.type \in Http THEN {"url", "url_port"} ELSE {"socket", "name"}

Overlooked(p) ==
    \/ p.type \in Http /\ p.expected_status \in Informational
    \/ /\ p.type = "tls" /\ p.tls_expiry_fail_days.kind = "finite"
       /\ \A d \in Days : d < p.tls_expiry_fail_days.n

NoDeadProbe ==
    stage = "trace" =>
        \A i \in DOMAIN cfg.probes :
            CanExist(cfg.probes[i]) =>
                ((\E o \in Outcomes : Report(cfg.probes[i], o).up) <=> ~Overlooked(cfg.probes[i]))

(* Each result of an accepted probe says what happened to the probe (see     *)
(* HonestReport): success and failure of types.rs as the executors use them. *)
ResultsAreHonest ==
    stage = "trace" =>
        \A i \in DOMAIN cfg.probes, o \in Outcomes : HonestReport(cfg.probes[i], o)

(* Whatever the operator called the probes, the organisation and the bucket, *)
(* and whatever a remote host says, results read back from line protocol and *)
(* from the exposition as what they are, no two probes as the same one, and  *)
(* the write goes where the operator said                                   *)
(* (escape_control_chars_in_names before validate, to_line_protocol, render, *)
(* urlencode).                                                              *)
ResultsReadBack ==
    stage = "trace" =>
        /\ \A i, j \in DOMAIN cfg.probes :
              cfg.probes[i].name = cfg.probes[j].name => i = j
        /\ \A o \in Outcomes :
              LET results == [i \in DOMAIN cfg.probes |-> Report(cfg.probes[i], o)]
              IN  /\ \A i \in DOMAIN results : LineReadsBack(results[i])
                  /\ ExpositionReadsBack(results, [n \in DOMAIN Scalars |-> n])
        /\ QueryReadsBack(cfg.influx)

(* Nothing the operator wrote into the file and nothing a remote host said   *)
(* reaches the terminal as a control character (print_result, through        *)
(* escape_control_chars in two places).                                     *)
ConsoleIsInert ==
    stage = "trace" =>
        \A i \in DOMAIN cfg.probes, o \in Outcomes :
            ToSet(Console(Report(cfg.probes[i], o))) \cap Controls = {}

(* With accepted numbers the writer never waits longer than the ceiling; it  *)
(* never retries in a tight loop, unless the server itself asks for zero     *)
(* seconds; and without a Retry-After it never waits less than before        *)
(* (run_writer and backoff_delay with what validate lets through).          *)
BackoffIsPaced ==
    stage = "trace" =>
        \A attempt \in 0..(LargestShift + 2), after \in {NoValue, 0, 1, 60},
           class \in {"transport"} \cup {Classify(s) : s \in Statuses} :
            LET Delay(a) == RetryDelay(cfg.influx, class, after, a)
            IN  class \notin {"written", "client"} =>
                    /\ Delay(attempt) <= cfg.influx.retry_max_backoff_ms
                    /\ after # 0 => Delay(attempt) > 0
                    /\ after = NoValue => Delay(attempt) <= Delay(attempt + 1)

(* A daemon that runs has a token to send, and if a key file was named, in   *)
(* the file or by the environment, the metrics listener has the key: no      *)
(* secret that is missing or empty is taken for "no authentication"          *)
(* (read_token, read_api_key, and run, which reads the key before it binds). *)
KeyNamed ==
    \/ <<"metrics", "api_key_file">> \in DOMAIN env
    \/ /\ "metrics" \in DOMAIN loaded /\ "api_key_file" \in DOMAIN loaded.metrics
       /\ loaded.metrics.api_key_file # NoValue

FailsClosed ==
    /\ stage = "running" => token \notin {NoValue, Unreadable, ""}
    /\ (\E s \in sockets : s.name = "metrics") /\ KeyNamed =>
          apiKey \notin {NoValue, Unreadable, ""}

(* No setting of the environment is lost without a word: at a log level that *)
(* lets warnings through each variable took effect or was warned about, and  *)
(* the output format is the first usable one of flag, variable and file      *)
(* (apply_env_overrides, resolve_output_format).                            *)
FirstUsable(f, formats) ==
    \E i \in DOMAIN formats : /\ formats[i] = f /\ f \in Formats
                              /\ \A j \in 1..(i - 1) : formats[j] \notin Formats

OverridesAreHeard ==
    stage = "bind_health" /\ cfg.log.level \in Audible =>
        /\ \A v \in DOMAIN env : cfg[v[1]][v[2]] = env[v] \/ v \in warned
        /\ json <=> FirstUsable("json",
              <<output,
                IF LogFormatVar \in DOMAIN env THEN env[LogFormatVar] ELSE NoValue,
                Parsed(loaded).log.format>>)
        /\ output \notin Formats \cup {NoValue} => <<"main", "output">> \in warned

(* The healthcheck and the daemon do not disagree (main.rs, lines 104 to     *)
(* 107): a check that fails while the daemon runs with its health listener   *)
(* has read another file than the daemon, or the port is 0, which nothing    *)
(* refuses; and no check succeeds once the daemon has ended. (A listener     *)
(* with no permit left does not answer either: see Listener.)               *)
HealthcheckAgrees ==
    [][check' # check =>
          /\ check' = "unhealthy" /\ stage = "running" /\ cfg.health.enabled =>
                checked' # loaded \/ cfg.health.port = 0
          /\ check' = "healthy" => stage \notin Failed]_vars
=============================================================================
