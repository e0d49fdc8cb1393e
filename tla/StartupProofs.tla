---------------------------- MODULE StartupProofs ----------------------------
(***************************************************************************)
(* Proofs about Startup, for any set of situations, any reading of bind    *)
(* strings, any local addresses and any outcomes of probes.                *)
(*                                                                         *)
(* The stages run in one order, and only Load decides what is accepted: so *)
(* whatever a later stage needs of the configuration can be read off the   *)
(* file the daemon loaded, and the listeners off the stage.                *)
(*                                                                         *)
(* What the results of probes become is read back by an induction over     *)
(* their characters: each is written so that it is read as itself, wherever*)
(* the reader is, so a string is, a word behind a word, and a line.        *)
(***************************************************************************)
EXTENDS Startup, FiniteSetTheorems, SequenceTheorems, WellFoundedInduction, TLAPS

Stages == Failed \cup {"load", "trace", "bind_health", "new_writer", "bind_ui",
                       "read_key", "bind_metrics", "running"}

\* The listener of each name, if its bind succeeds.
Listener(name, enabled, addr, port) ==
    IF enabled THEN {[name |-> name, addr |-> addr, port |-> port]} ELSE {}

HealthListener == Listener("health", cfg.health.enabled, HealthAddr, cfg.health.port)
UiListener == Listener("ui", cfg.ui.enabled, Parse[cfg.ui.bind], cfg.ui.port)
MetricsListener ==
    Listener("metrics", cfg.metrics.enabled, Parse[cfg.metrics.bind], cfg.metrics.port)

\* What Situations promises of the part of the world that nobody changes.
WorldFits ==
    /\ DOMAIN env \subseteq Variables
    /\ \A v \in DOMAIN env : env[v] # NoValue
    /\ \A k \in {"org", "bucket"} :
          <<"influx", k>> \in DOMAIN env => env[<<"influx", k>>] \in Seq(STRING)
    /\ \A p \in DOMAIN disk : disk[p] \notin {NoValue, Unreadable}

\* Whatever is read from the file, now or after an edit, has the types of its keys.
FilesAreTyped ==
    /\ TypedFile(file)
    /\ edit # NoValue => TypedFile(edit)
    /\ stage # "load" => TypedFile(loaded)

\* Past Load, the configuration is the accepted one of the file that was read.
Accepted ==
    stage \notin {"load", "rejected"} =>
        Loads(loaded, env) /\ cfg = Configured(loaded, env)

\* The sockets are those of the stages passed.
SocketsByStage ==
    /\ stage \in {"new_writer", "bind_ui"} => sockets = HealthListener
    /\ stage \in {"read_key", "bind_metrics"} => sockets = HealthListener \cup UiListener
    /\ stage = "running" => sockets = HealthListener \cup UiListener \cup MetricsListener
    /\ stage \in Failed \cup {"load", "trace", "bind_health"} => sockets = {}

\* What was made of the log settings, until the next step forgets it.
Heard ==
    stage = "bind_health" =>
        /\ json = ResolveOutputFormat(OutputArgument, cfg.log.format)
        /\ cfg.log.level \in Audible =>
              warned = Warnings(loaded, env) \cup OutputWarning(OutputArgument)

\* A secret that was read is the content of its file.
SecretsRead ==
    /\ stage \in {"bind_ui", "read_key", "bind_metrics", "running"} =>
          token = ReadToken(cfg, disk) /\ token # Unreadable
    /\ stage \in {"bind_metrics", "running"} /\ cfg.metrics.enabled =>
          apiKey = ReadApiKey(cfg, disk) /\ apiKey # Unreadable

\* A healthcheck that asks has accepted the file it read.
AsksThePort ==
    check = "ask" =>
        /\ Loads(checked, env)
        /\ Configured(checked, env).health.enabled
        /\ checkPort = Configured(checked, env).health.port

StartupInv ==
    /\ stage \in Stages
    /\ WorldFits
    /\ FilesAreTyped
    /\ Accepted
    /\ SocketsByStage
    /\ Heard
    /\ SecretsRead
    /\ AsksThePort
    /\ ListenersBind
-----------------------------------------------------------------------------
(***************************************************************************)
(* The listeners.                                                          *)
(***************************************************************************)

\* Addresses that share an endpoint contend: validation misses no pair.
LEMMA SharedEndpointsContend ==
    ASSUME NEW a, NEW b, Endpoints(a) \cap Endpoints(b) # {}
    PROVE  AddressesContend(a, b)
  BY DEF Endpoints, AddressesContend

\* And it refuses no pair that the kernel would accept, on a host with an IPv4 loopback.
LEMMA ContendersShareEndpoints ==
    ASSUME NEW a, NEW b, HealthAddr \in LocalAddresses, AddressesContend(a, b),
           a.host = "any" \/ a \in LocalAddresses, b.host = "any" \/ b \in LocalAddresses
    PROVE  Endpoints(a) \cap Endpoints(b) # {}
<1>1. ~HealthAddr.v6
  BY DEF HealthAddr
<1>2. CASE a.host = "any" /\ b.host = "any"
  <2>1. HealthAddr \in Endpoints(a) \cap Endpoints(b)
    BY <1>1, <1>2 DEF Endpoints
  <2> QED
    BY <2>1
<1>3. CASE a.host # "any"
  <2>1. a \in Endpoints(a) \cap Endpoints(b)
    BY <1>3 DEF Endpoints, AddressesContend
  <2> QED
    BY <2>1
<1>4. CASE a.host = "any" /\ b.host # "any"
  <2>1. b \in Endpoints(a) \cap Endpoints(b)
    BY <1>4 DEF Endpoints, AddressesContend
  <2> QED
    BY <2>1
<1> QED
  BY <1>2, <1>3, <1>4

\* So the rule of validation is the kernel's: two parsable bind strings contend exactly when
\* no two sockets could be bound to them on one port.
THEOREM RuleIsTheKernels ==
    ASSUME HealthAddr \in LocalAddresses, NEW x \in ParsableBinds, NEW y \in ParsableBinds
    PROVE  AddressesContend(Parse[x], Parse[y]) <=> Endpoints(Parse[x]) \cap Endpoints(Parse[y]) # {}
  BY SharedEndpointsContend, ContendersShareEndpoints, SettingsAssumption DEF ParsableBinds

\* A configuration that was accepted has room for each listener beside those before it.
LEMMA RoomForUi ==
    ASSUME Valid(cfg), cfg.ui.enabled, sockets = HealthListener
    PROVE  ~AddressInUse(Parse[cfg.ui.bind], cfg.ui.port)
<1> SUFFICES ASSUME NEW s \in sockets, s.port = cfg.ui.port,
                    Endpoints(s.addr) \cap Endpoints(Parse[cfg.ui.bind]) # {}
             PROVE  FALSE
  BY DEF AddressInUse
<1>1. cfg.health.enabled /\ s.addr = HealthAddr /\ s.port = cfg.health.port
  BY DEF HealthListener, Listener
<1>2. ~ContendsWithHealth(cfg.ui, cfg.health)
  BY <1>1 DEF Valid, ValidListeners
<1>3. AddressesContend(Parse[cfg.ui.bind], HealthAddr)
  BY <1>1, SharedEndpointsContend
<1> QED
  BY <1>1, <1>2, <1>3 DEF ContendsWithHealth

\* Nothing validate accepts is in the way of the metrics listener.
LEMMA RoomForMetrics ==
    ASSUME Valid(cfg), cfg.metrics.enabled, sockets = HealthListener \cup UiListener
    PROVE  ~AddressInUse(Parse[cfg.metrics.bind], cfg.metrics.port)
<1> SUFFICES ASSUME NEW s \in sockets, s.port = cfg.metrics.port,
                    Endpoints(s.addr) \cap Endpoints(Parse[cfg.metrics.bind]) # {}
             PROVE  FALSE
  BY DEF AddressInUse
<1>1. CASE s \in HealthListener
  <2>1. cfg.health.enabled /\ s.addr = HealthAddr /\ s.port = cfg.health.port
    BY <1>1 DEF HealthListener, Listener
  <2>2. ~ContendsWithHealth(cfg.metrics, cfg.health)
    BY <2>1 DEF Valid, ValidListeners
  <2>3. AddressesContend(Parse[cfg.metrics.bind], HealthAddr)
    BY <2>1, SharedEndpointsContend
  <2> QED
    BY <2>1, <2>2, <2>3 DEF ContendsWithHealth
<1>2. CASE s \in UiListener
  <2>1. cfg.ui.enabled /\ s.addr = Parse[cfg.ui.bind] /\ s.port = cfg.ui.port
    BY <1>2 DEF UiListener, Listener
  <2>2. ~Contend(cfg.ui, cfg.metrics)
    BY <2>1 DEF Valid, ValidListeners
  <2>3. AddressesContend(Parse[cfg.ui.bind], Parse[cfg.metrics.bind])
    BY <2>1, SharedEndpointsContend
  <2> QED
    BY <2>1, <2>2, <2>3 DEF Contend
<1> QED
  BY <1>1, <1>2
-----------------------------------------------------------------------------
(***************************************************************************)
(* The invariant.                                                          *)
(***************************************************************************)
LEMMA StartupInit == Init => StartupInv
<1> SUFFICES ASSUME Init PROVE StartupInv
  OBVIOUS
<1>1. WorldFits /\ FilesAreTyped
  BY StartupAssumption DEF Init, WorldFits, FilesAreTyped
<1> QED
  BY <1>1
  DEF Init, StartupInv, Stages, Failed, Accepted, SocketsByStage, Heard, SecretsRead, AsksThePort,
      ListenersBind

\* The daemon's own steps, one at a time, each with what it leaves to the next.
LEMMA DaemonStep == StartupInv /\ Daemon => StartupInv'
<1> SUFFICES ASSUME StartupInv, Daemon PROVE StartupInv'
  OBVIOUS
<1>0. /\ WorldFits /\ Accepted /\ SocketsByStage /\ Heard /\ SecretsRead /\ AsksThePort
      /\ UNCHANGED <<env, output, disk, healthcheck>>
  BY DEF StartupInv, Daemon, Load, InitTracing, BindHealth, NewWriter, BindUi, ReadKey, BindMetrics,
         Bind, world
<1>1. WorldFits' /\ AsksThePort' /\ FilesAreTyped'
  <2>1. WorldFits' /\ AsksThePort'
    BY <1>0 DEF WorldFits, AsksThePort, healthcheck
  <2>2. UNCHANGED <<file, edit>>
    BY DEF Daemon, Load, InitTracing, BindHealth, NewWriter, BindUi, ReadKey, BindMetrics, Bind, world
  <2>3. stage' # "load" /\ (loaded' = file \/ (stage # "load" /\ loaded' = loaded))
    <3>1. CASE Load
      <4>1. loaded' = file /\ stage' \in {"trace", "rejected"}
        BY <3>1 DEF Load
      <4> QED
        BY <4>1
    <3>2. CASE ~Load
      <4>1. stage # "load" /\ loaded' = loaded
        BY <3>2
        DEF Daemon, InitTracing, BindHealth, NewWriter, BindUi, ReadKey, BindMetrics, Bind
      <4>2. stage' \in Stages \ {"load"}
        BY <3>2
        DEF Daemon, InitTracing, BindHealth, NewWriter, BindUi, ReadKey, BindMetrics, Bind, Fail,
            Stages, Failed
      <4> QED
        BY <4>1, <4>2
    <3> QED
      BY <3>1, <3>2
  <2> QED
    BY <2>1, <2>2, <2>3 DEF StartupInv, FilesAreTyped
<1>2. CASE Load
  BY <1>0, <1>1, <1>2
  DEF Load, StartupInv, Stages, Failed, Accepted, SocketsByStage, Heard, SecretsRead,
      ListenersBind, Loads
<1>3. CASE InitTracing
  BY <1>0, <1>1, <1>3
  DEF InitTracing, StartupInv, Stages, Failed, Accepted, SocketsByStage, Heard, SecretsRead,
      OutputArgument, ListenersBind
<1>4. CASE BindHealth
  <2>1. stage = "bind_health" /\ sockets = {} /\ UNCHANGED <<cfg, json, warned, token, apiKey, loaded>>
    BY <1>0, <1>4 DEF BindHealth, Bind, SocketsByStage
  <2>2. ~AddressInUse(HealthAddr, cfg.health.port)
    BY <2>1 DEF AddressInUse
  <2>3. sockets' = HealthListener /\ stage' = "new_writer"
    BY <1>4, <2>1, <2>2 DEF BindHealth, Bind, HealthListener, Listener
  <2> QED
    BY <1>0, <1>1, <2>1, <2>3
    DEF StartupInv, Stages, Failed, Accepted, SocketsByStage, Heard, SecretsRead, ListenersBind,
        HealthListener
<1>5. CASE NewWriter
  <2>1. /\ stage = "new_writer" /\ token' = ReadToken(cfg, disk)
        /\ UNCHANGED <<cfg, json, warned, apiKey, loaded, disk>>
        /\ \/ token' = Unreadable /\ stage' = "secret_failed" /\ sockets' = {}
           \/ token' # Unreadable /\ stage' = "bind_ui" /\ sockets' = sockets
    BY <1>5 DEF NewWriter, Fail, world
  <2> QED
    BY <1>0, <1>1, <2>1
    DEF StartupInv, Stages, Failed, Accepted, SocketsByStage, Heard, SecretsRead, ListenersBind,
        HealthListener
<1>6. CASE BindUi
  <2>1. /\ stage = "bind_ui" /\ sockets = HealthListener /\ Valid(cfg)
        /\ UNCHANGED <<cfg, json, warned, token, apiKey, loaded>>
    BY <1>0, <1>6 DEF BindUi, Bind, SocketsByStage, Accepted, Failed, Loads
  <2>2. ~(cfg.ui.enabled /\ AddressInUse(Parse[cfg.ui.bind], cfg.ui.port))
    BY <2>1, RoomForUi
  <2>3. sockets' = HealthListener \cup UiListener /\ stage' = "read_key"
    BY <1>6, <2>1, <2>2 DEF BindUi, Bind, UiListener, Listener
  <2> QED
    BY <1>0, <1>1, <2>1, <2>3
    DEF StartupInv, Stages, Failed, Accepted, SocketsByStage, Heard, SecretsRead, ListenersBind,
        HealthListener, UiListener
<1>7. CASE ReadKey
  <2>1. /\ stage = "read_key"
        /\ cfg.metrics.enabled => apiKey' = ReadApiKey(cfg, disk)
        /\ UNCHANGED <<cfg, json, warned, token, loaded, disk>>
        /\ \/ stage' = "secret_failed" /\ sockets' = {}
           \/ apiKey' # Unreadable /\ stage' = "bind_metrics" /\ sockets' = sockets
    BY <1>7 DEF ReadKey, Fail, world
  <2> QED
    BY <1>0, <1>1, <2>1
    DEF StartupInv, Stages, Failed, Accepted, SocketsByStage, Heard, SecretsRead, ListenersBind,
        HealthListener, UiListener
<1>8. CASE BindMetrics
  <2>1. /\ stage = "bind_metrics" /\ sockets = HealthListener \cup UiListener /\ Valid(cfg)
        /\ UNCHANGED <<cfg, json, warned, token, apiKey, loaded>>
    BY <1>0, <1>8 DEF BindMetrics, Bind, SocketsByStage, Accepted, Failed, Loads
  <2>2. ~(cfg.metrics.enabled /\ AddressInUse(Parse[cfg.metrics.bind], cfg.metrics.port))
    BY <2>1, RoomForMetrics
  <2>3. sockets' = HealthListener \cup UiListener \cup MetricsListener /\ stage' = "running"
    BY <1>8, <2>1, <2>2 DEF BindMetrics, Bind, MetricsListener, Listener
  <2> QED
    BY <1>0, <1>1, <2>1, <2>3
    DEF StartupInv, Stages, Failed, Accepted, SocketsByStage, Heard, SecretsRead, ListenersBind,
        HealthListener, UiListener, MetricsListener
<1> QED
  BY <1>2, <1>3, <1>4, <1>5, <1>6, <1>7, <1>8 DEF Daemon

\* The healthcheck and the operator touch nothing of the daemon.
LEMMA OthersStep ==
    StartupInv /\ (RunHealthcheck \/ CheckHealth \/ EditFile \/ UNCHANGED vars) => StartupInv'
<1> SUFFICES ASSUME StartupInv, RunHealthcheck \/ CheckHealth \/ EditFile \/ UNCHANGED vars
             PROVE  StartupInv'
  OBVIOUS
<1>1. UNCHANGED <<env, output, disk, daemon>>
  BY DEF RunHealthcheck, CheckHealth, EditFile, vars, world
<1>2. WorldFits' /\ Accepted' /\ SocketsByStage' /\ Heard' /\ SecretsRead'
      /\ stage' \in Stages /\ ListenersBind'
  BY <1>1
  DEF StartupInv, WorldFits, Accepted, SocketsByStage, Heard, SecretsRead, daemon, OutputArgument,
      HealthListener, UiListener, MetricsListener, ListenersBind
<1>3. FilesAreTyped'
  BY <1>1
  DEF StartupInv, FilesAreTyped, daemon, RunHealthcheck, CheckHealth, EditFile, vars, world
<1>4. AsksThePort'
  <2>1. CASE RunHealthcheck
    BY <1>1, <2>1 DEF RunHealthcheck, AsksThePort, HealthPort
  <2>2. CASE CheckHealth
    BY <2>2 DEF CheckHealth, AsksThePort
  <2>3. CASE EditFile \/ UNCHANGED vars
    BY <1>1, <2>3 DEF StartupInv, EditFile, AsksThePort, vars, healthcheck
  <2> QED
    BY <2>1, <2>2, <2>3
<1> QED
  BY <1>2, <1>3, <1>4 DEF StartupInv

\* The invariant holds at all times.
LEMMA StartupInvariant == Spec => []StartupInv
<1>1. Init => StartupInv
  BY StartupInit
<1>2. StartupInv /\ [Next]_vars => StartupInv'
  BY DaemonStep, OthersStep DEF Next
<1> QED
  BY <1>1, <1>2, PTL DEF Spec

\* An accepted configuration binds its listeners, whatever the file and the environment say.
THEOREM AcceptedBinds == Spec => []ListenersBind
  BY StartupInvariant, PTL DEF StartupInv
-----------------------------------------------------------------------------
(***************************************************************************)
(* What becomes of one key: the file's value or the default, unless the    *)
(* environment has a usable one.                                           *)
(***************************************************************************)

\* A section of a file that parses has its own keys and those with a default.
LEMMA SectionParsed ==
    ASSUME NEW f, Parses(f), NEW s \in DOMAIN Sections
    PROVE  LET given == Complete(AppConfig, f)[s] IN
           /\ s \in DOMAIN Parsed(f)
           /\ Parsed(f)[s] = Complete(Sections[s], given)
           /\ DOMAIN Parsed(f)[s] = DOMAIN given \cup DOMAIN Sections[s].defaults
           /\ \A k \in DOMAIN given : Parsed(f)[s][k] = given[k]
           /\ s \in DOMAIN f => given = f[s]
<1> DEFINE all == Complete(AppConfig, f)
<1>1. DOMAIN all = DOMAIN f \cup {"probes", "ui", "metrics", "health", "log", "event_hub_capacity"}
      /\ \A k \in DOMAIN f : all[k] = f[k]
  BY DEF Complete, AppConfig, Schema
<1>2. s \in DOMAIN all
  BY <1>1 DEF Parses, Accepts, AppConfig, Schema, Sections
<1>3. s \in DOMAIN Parsed(f) /\ Parsed(f)[s] = Complete(Sections[s], all[s])
  BY <1>2 DEF Parsed
<1>4. /\ DOMAIN Complete(Sections[s], all[s]) = DOMAIN all[s] \cup DOMAIN Sections[s].defaults
      /\ \A k \in DOMAIN all[s] : Complete(Sections[s], all[s])[k] = all[s][k]
  BY DEF Complete
<1> QED
  BY <1>1, <1>3, <1>4

\* A usable variable that names a key of a section replaces its value.
LEMMA SettingOverridden ==
    ASSUME NEW f, NEW e, Parses(f), NEW s \in DOMAIN Sections, NEW k \in DOMAIN Parsed(f)[s]
    PROVE  /\ s \in DOMAIN Configured(f, e)
           /\ k \in DOMAIN Configured(f, e)[s]
           /\ Configured(f, e)[s][k] =
                 IF <<s, k>> \in DOMAIN e /\ Usable(<<s, k>>, e[<<s, k>>])
                 THEN e[<<s, k>>] ELSE Parsed(f)[s][k]
<1> DEFINE over == Overridden(Parsed(f), e)
<1>1. s \in DOMAIN Parsed(f)
  BY SectionParsed
<1>2. /\ s \in DOMAIN over
      /\ over[s] = [j \in DOMAIN Parsed(f)[s] |->
                       IF <<s, j>> \in DOMAIN e /\ Usable(<<s, j>>, e[<<s, j>>])
                       THEN e[<<s, j>>] ELSE Parsed(f)[s][j]]
  BY <1>1 DEF Overridden
<1>3. s # "probes" /\ Configured(f, e)[s] = over[s] /\ s \in DOMAIN Configured(f, e)
  BY <1>2 DEF Sections, Configured, Escaped
<1> QED
  BY <1>2, <1>3
-----------------------------------------------------------------------------
(***************************************************************************)
(* The secrets.                                                            *)
(***************************************************************************)

\* A secret that was read is neither missing nor empty.
LEMMA SecretHasContent ==
    ASSUME WorldFits, NEW path, ReadSecret(disk, path) # Unreadable
    PROVE  ReadSecret(disk, path) \notin {NoValue, Unreadable, ""}
  BY DEF ReadSecret, WorldFits

\* A key file that is named ends up in the configuration.
LEMMA NamedKeyIsConfigured ==
    ASSUME WorldFits, Parses(loaded), KeyNamed
    PROVE  Configured(loaded, env).metrics.api_key_file # NoValue
<1> DEFINE var == <<"metrics", "api_key_file">>
<1>1. "metrics" \in DOMAIN Sections /\ "api_key_file" \in DOMAIN Sections["metrics"].defaults
  BY DEF Sections, MetricsConfig, Schema
<1>2. "api_key_file" \in DOMAIN Parsed(loaded)["metrics"]
  BY <1>1, SectionParsed
<1>3. Configured(loaded, env)["metrics"]["api_key_file"] =
        IF var \in DOMAIN env /\ Usable(var, env[var])
        THEN env[var] ELSE Parsed(loaded)["metrics"]["api_key_file"]
  BY <1>1, <1>2, SettingOverridden
<1>4. CASE var \in DOMAIN env
  <2>1. Usable(var, env[var])
    BY DEF Usable, Flags, Binds, Ports, LogFormatVar
  <2> QED
    BY <1>3, <1>4, <2>1 DEF WorldFits
<1>5. CASE var \notin DOMAIN env
  <2>1. /\ "metrics" \in DOMAIN loaded /\ "api_key_file" \in DOMAIN loaded["metrics"]
        /\ loaded["metrics"]["api_key_file"] # NoValue
    BY <1>5 DEF KeyNamed
  <2>2. Parsed(loaded)["metrics"]["api_key_file"] = loaded["metrics"]["api_key_file"]
    BY <1>1, <2>1, SectionParsed
  <2> QED
    BY <1>3, <1>5, <2>1, <2>2
<1> QED
  BY <1>4, <1>5

\* No daemon runs without a token, and no metrics listener whose key file was named without
\* the key in it.
THEOREM SecretsFailClosed == Spec => []FailsClosed
<1>1. StartupInv => FailsClosed
  <2> SUFFICES ASSUME StartupInv PROVE FailsClosed
    OBVIOUS
  <2>0. WorldFits /\ Accepted /\ SocketsByStage /\ SecretsRead /\ stage \in Stages
    BY DEF StartupInv
  <2>1. ASSUME stage = "running" PROVE token \notin {NoValue, Unreadable, ""}
    BY <2>0, <2>1, SecretHasContent DEF SecretsRead, ReadToken
  <2>2. ASSUME NEW s \in sockets, s.name = "metrics", KeyNamed
        PROVE  apiKey \notin {NoValue, Unreadable, ""}
    <3>1. stage = "running" /\ cfg.metrics.enabled
      BY <2>0, <2>2
      DEF SocketsByStage, Stages, Failed, HealthListener, UiListener, MetricsListener, Listener
    <3>2. cfg.metrics.api_key_file # NoValue
      BY <2>0, <2>2, <3>1, NamedKeyIsConfigured DEF Accepted, Loads
    <3>3. apiKey = ReadSecret(disk, cfg.metrics.api_key_file) /\ apiKey # Unreadable
      BY <2>0, <3>1, <3>2 DEF SecretsRead, ReadApiKey
    <3> QED
      BY <2>0, <3>3, SecretHasContent
  <2> QED
    BY <2>1, <2>2 DEF FailsClosed
<1> QED
  BY <1>1, StartupInvariant, PTL
-----------------------------------------------------------------------------
(***************************************************************************)
(* The environment.                                                        *)
(***************************************************************************)

\* Every variable there is overrides a key that every configuration has.
LEMMA VariableHasKey ==
    ASSUME NEW f, Parses(f), NEW s, NEW k, <<s, k>> \in Variables
    PROVE  s \in DOMAIN Sections /\ k \in DOMAIN Parsed(f)[s]
<1>1. s \in DOMAIN Sections
  BY DEF Variables, Flags, Binds, Ports, LogFormatVar, Sections
<1>2. \/ k \in DOMAIN Sections[s].defaults
      \/ s = "influx" /\ k \in {"url", "org", "bucket"}
  BY DEF Variables, Flags, Binds, Ports, LogFormatVar, Sections, Schema, InfluxConfig, UiConfig,
         MetricsConfig, LogConfig
<1>3. CASE k \in DOMAIN Sections[s].defaults
  BY <1>1, <1>3, SectionParsed
<1>4. CASE s = "influx" /\ k \in {"url", "org", "bucket"}
  <2>1. "influx" \in DOMAIN f /\ k \in DOMAIN f["influx"]
    BY <1>1, <1>4 DEF Parses, Accepts, AppConfig, Sections, InfluxConfig, Schema
  <2> QED
    BY <1>1, <1>4, <2>1, SectionParsed
<1> QED
  BY <1>1, <1>2, <1>3, <1>4

\* The format that is resolved is the first usable one of flag, variable and file.
LEMMA FormatResolved ==
    ASSUME StartupInv, stage = "bind_health"
    PROVE  json <=> FirstUsable("json",
              <<output,
                IF LogFormatVar \in DOMAIN env THEN env[LogFormatVar] ELSE NoValue,
                Parsed(loaded).log.format>>)
<1> DEFINE second == IF LogFormatVar \in DOMAIN env THEN env[LogFormatVar] ELSE NoValue
           third == Parsed(loaded)["log"]["format"]
<1>1. /\ Parses(loaded) /\ cfg = Configured(loaded, env)
      /\ json = ResolveOutputFormat(OutputArgument, cfg.log.format)
  BY DEF StartupInv, Accepted, Heard, Failed, Loads
<1>2. LogFormatVar \in Variables /\ LogFormatVar = <<"log", "format">>
  BY DEF Variables, LogFormatVar
<1>3. cfg["log"]["format"] = IF second \in Formats THEN second ELSE third
  <2>1. "log" \in DOMAIN Sections /\ "format" \in DOMAIN Parsed(loaded)["log"]
    BY <1>1, <1>2, VariableHasKey
  <2>2. Usable(LogFormatVar, env[LogFormatVar]) <=> env[LogFormatVar] \in Formats
    BY DEF Usable, LogFormatVar, Flags, Binds, Ports
  <2> QED
    BY <1>1, <1>2, <2>1, <2>2, SettingOverridden, StartupAssumption
<1>4. OutputArgument = IF output # NoValue THEN output ELSE second
  BY DEF OutputArgument
<1>5. json <=> \/ output = "json"
               \/ output \notin Formats /\ second = "json"
               \/ output \notin Formats /\ second \notin Formats /\ third = "json"
  BY <1>1, <1>3, <1>4, StartupAssumption DEF ResolveOutputFormat, Formats
<1>6. FirstUsable("json", <<output, second, third>>) <=>
               \/ output = "json"
               \/ output \notin Formats /\ second = "json"
               \/ output \notin Formats /\ second \notin Formats /\ third = "json"
  BY DEF FirstUsable, Formats
<1> QED
  BY <1>5, <1>6
\* At a log level that lets warnings through, nothing of the environment is lost silently.
THEOREM NothingIsLostSilently == Spec => []OverridesAreHeard
<1>1. StartupInv => OverridesAreHeard
  <2> SUFFICES ASSUME StartupInv, stage = "bind_health", cfg.log.level \in Audible
               PROVE  /\ \A v \in DOMAIN env : cfg[v[1]][v[2]] = env[v] \/ v \in warned
                      /\ output \notin Formats \cup {NoValue} => <<"main", "output">> \in warned
    BY FormatResolved DEF OverridesAreHeard
  <2>1. /\ Parses(loaded) /\ cfg = Configured(loaded, env) /\ WorldFits
        /\ warned = Warnings(loaded, env) \cup OutputWarning(OutputArgument)
    BY DEF StartupInv, Accepted, Heard, Failed, Loads
  <2>2. ASSUME NEW v \in DOMAIN env PROVE cfg[v[1]][v[2]] = env[v] \/ v \in warned
    <3>1. v \in Variables /\ v = <<v[1], v[2]>>
      BY <2>1 DEF WorldFits, Variables, Flags, Binds, Ports, LogFormatVar
    <3>2. v[1] \in DOMAIN Sections /\ v[2] \in DOMAIN Parsed(loaded)[v[1]]
      BY <2>1, <3>1, VariableHasKey
    <3>3. Usable(v, env[v]) => cfg[v[1]][v[2]] = env[v]
      BY <2>1, <3>1, <3>2, SettingOverridden
    <3>4. ~Usable(v, env[v]) => v \in warned
      BY <2>1 DEF Warnings, UnusableVariables
    <3> QED
      BY <3>3, <3>4
  <2>3. output \notin Formats \cup {NoValue} => <<"main", "output">> \in warned
    BY <2>1 DEF OutputArgument, OutputWarning
  <2> QED
    BY <2>2, <2>3
<1> QED
  BY <1>1, StartupInvariant, PTL
-----------------------------------------------------------------------------
(***************************************************************************)
(* The healthcheck.                                                        *)
(***************************************************************************)

\* While the daemon runs, its health listener answers on the port of its configuration.
LEMMA HealthListenerAnswers ==
    ASSUME SocketsByStage, stage = "running", cfg.health.enabled
    PROVE  \E s \in sockets : /\ s.port = cfg.health.port
                              /\ HealthAddr \in Endpoints(s.addr)
                              /\ "/health" \in Routes(s.name)
<1> DEFINE own == [name |-> "health", addr |-> HealthAddr, port |-> cfg.health.port]
<1>1. own \in sockets
  BY DEF SocketsByStage, HealthListener, Listener
<1>2. HealthAddr \in Endpoints(own.addr) /\ "/health" \in Routes(own.name)
  BY DEF Endpoints, HealthAddr, Routes
<1> QED
  BY <1>1, <1>2

\* A check fails beside a running daemon only if they read two files or the port is 0, and
\* none succeeds once the daemon has failed.
THEOREM HealthcheckIsRight == Spec => HealthcheckAgrees
<1> DEFINE Agrees ==
      check' # check =>
          /\ check' = "unhealthy" /\ stage = "running" /\ cfg.health.enabled =>
                checked' # loaded \/ cfg.health.port = 0
          /\ check' = "healthy" => stage \notin Failed
<1>1. StartupInv /\ [Next]_vars => [Agrees]_vars
  <2> SUFFICES ASSUME StartupInv, Next PROVE Agrees
    OBVIOUS
  <2>0. Accepted /\ SocketsByStage /\ AsksThePort
    BY DEF StartupInv
  <2>1. stage = "running" => Loads(loaded, env) /\ cfg = Configured(loaded, env)
    BY <2>0 DEF Accepted
  <2>2. CASE RunHealthcheck
    BY <2>1, <2>2 DEF RunHealthcheck
  <2>3. CASE CheckHealth
    <3>1. /\ check = "ask" /\ checked' = checked
          /\ Configured(checked, env).health.port = checkPort
      BY <2>0, <2>3 DEF CheckHealth, AsksThePort
    <3>2. stage \in Failed => check' = "unhealthy"
      BY <2>0, <2>3 DEF CheckHealth, SocketsByStage
    <3>3. ASSUME stage = "running", cfg.health.enabled, checked = loaded, cfg.health.port # 0
          PROVE  check' = "healthy"
      BY <2>0, <2>1, <2>3, <3>1, <3>3, HealthListenerAnswers DEF CheckHealth
    <3> QED
      BY <3>1, <3>2, <3>3
  <2>4. CASE Daemon \/ EditFile
    BY <2>4
    DEF EditFile, healthcheck, Daemon, Load, InitTracing, BindHealth, NewWriter, BindUi, ReadKey,
        BindMetrics, Bind
  <2> QED
    BY <2>2, <2>3, <2>4 DEF Next
<1>2. Spec => [][Agrees]_vars
  BY <1>1, StartupInvariant, PTL DEF Spec
<1> QED
  BY <1>2 DEF HealthcheckAgrees
-----------------------------------------------------------------------------
(***************************************************************************)
(* The results.                                                            *)
(***************************************************************************)

\* A result is UP exactly when it carries no error.
LEMMA SuccessFields ==
    ASSUME NEW p, NEW o, NEW status
    PROVE  /\ Success(p, o, status).probe_name = p.name
           /\ Success(p, o, status).probe_type = p.type
           /\ Success(p, o, status).target = p.target.text
           /\ Success(p, o, status).up
           /\ Success(p, o, status).error = <<>>
           /\ Success(p, o, status).metrics = <<>>
  BY DEF Success

\* A result is DOWN exactly when it carries an error.
LEMMA FailureFields ==
    ASSUME NEW p, NEW o, NEW elapsed, NEW error
    PROVE  /\ Failure(p, elapsed, o, error).probe_name = p.name
           /\ Failure(p, elapsed, o, error).probe_type = p.type
           /\ Failure(p, elapsed, o, error).target = p.target.text
           /\ ~Failure(p, elapsed, o, error).up
           /\ Failure(p, elapsed, o, error).error # <<>>
           /\ Failure(p, elapsed, o, error).metrics = <<>>
  BY DEF Failure

\* The first reading is the only one.
LEMMA FirstReading == ASSUME NEW m PROVE Append(<<>>, m) = <<m>>
<1>1. <<>> \in Seq({m}) /\ m \in {m}
  OBVIOUS
<1> QED
  BY <1>1

\* A reading is added to a success and changes nothing else ...
LEMMA SuccessWithMetric ==
    ASSUME NEW p, NEW o, NEW value
    PROVE  LET w == WithMetric(Success(p, o, <<>>), TlsCertExpiryDays, value) IN
           /\ w.probe_name = p.name /\ w.probe_type = p.type /\ w.target = p.target.text
           /\ w.up /\ w.error = <<>>
           /\ w.metrics = <<[key |-> TlsCertExpiryDays, value |-> value]>>
  BY FirstReading DEF WithMetric, Success

\* ... and so to a failure.
LEMMA FailureWithMetric ==
    ASSUME NEW p, NEW o, NEW elapsed, NEW error, NEW value
    PROVE  LET w == WithMetric(Failure(p, elapsed, o, error), TlsCertExpiryDays, value) IN
           /\ w.probe_name = p.name /\ w.probe_type = p.type /\ w.target = p.target.text
           /\ ~w.up /\ w.error # <<>>
           /\ w.metrics = <<[key |-> TlsCertExpiryDays, value |-> value]>>
  BY FirstReading DEF WithMetric, Failure

\* Each executor says what happened.
LEMMA TcpIsHonest ==
    ASSUME NEW p, NEW o, p.type = "tcp"
    PROVE  HonestReport(p, o)
<1>1. Report(p, o) = TcpProbe(p, o)
  BY DEF Report, Greeters, Http
<1> QED
  BY <1>1, SuccessFields, FailureFields DEF HonestReport, TcpProbe, Http

\* http::probe judges the status of the URL itself.
LEMMA HttpIsHonest ==
    ASSUME NEW p, NEW o, p.type \in Http
    PROVE  HonestReport(p, o)
<1>1. Report(p, o) = HttpProbe(p, o)
  BY DEF Report, Greeters, Http
<1>2. BuildClient(o.chain) = o.chain[1]
  BY DEF BuildClient
<1>3. CASE o.client = <<>> /\ o.failure = <<>> /\ StatusVerdict(p, o.chain[1])
  <2>1. Report(p, o) = Success(p, o, <<o.chain[1]>>)
    BY <1>1, <1>2, <1>3 DEF HttpProbe, Answered
  <2> QED
    BY <1>3, <2>1, SuccessFields DEF HonestReport, Http
<1>4. CASE ~(o.client = <<>> /\ o.failure = <<>> /\ StatusVerdict(p, o.chain[1]))
  <2>1. \E elapsed, error : Report(p, o) = Failure(p, elapsed, o, error)
    BY <1>1, <1>2, <1>4 DEF HttpProbe, Answered
  <2> QED
    BY <1>4, <2>1, FailureFields DEF HonestReport, Http
<1> QED
  BY <1>3, <1>4

\* smtp::probe and imap::probe.
LEMMA GreetingIsHonest ==
    ASSUME NEW p, NEW o, p.type \in Greeters
    PROVE  HonestReport(p, o)
<1>1. Report(p, o) = GreetingProbe(p, o)
  BY DEF Report, Greeters, Http
<1> QED
  BY <1>1, SuccessFields, FailureFields DEF HonestReport, GreetingProbe, Http, Greeters

\* udp::probe always has a socket of the address's family.
LEMMA UdpIsHonest ==
    ASSUME NEW p, NEW o, p.type = "udp"
    PROVE  HonestReport(p, o)
<1>1. Report(p, o) = UdpProbe(p, o)
  BY DEF Report, Greeters, Http
<1>2. Connects(SocketFamily(Head(o.found), o), Head(o.found), o)
  BY DEF Connects, SocketFamily
<1>3. CASE o.failure = <<>> /\ o.found # <<>> /\ o.bytes # 0
  <2>1. Report(p, o) = Success(p, o, <<>>)
    BY <1>1, <1>2, <1>3 DEF UdpProbe
  <2> QED
    BY <1>3, <2>1, SuccessFields DEF HonestReport, Http
<1>4. CASE o.failure # <<>> \/ o.found = <<>> \/ o.bytes = 0
  <2>1. \E elapsed, error : Report(p, o) = Failure(p, elapsed, o, error)
    BY <1>1, <1>2, <1>4 DEF UdpProbe
  <2> QED
    BY <1>4, <2>1, FailureFields DEF HonestReport, Http
<1> QED
  BY <1>3, <1>4

\* dns::probe finds an address of either family.
LEMMA DnsIsHonest ==
    ASSUME NEW p, NEW o, p.type = "dns", p.target.shape = "socket"
    PROVE  HonestReport(p, o)
<1>1. Report(p, o) = DnsProbe(p, o)
  BY DEF Report, Greeters, Http
<1>2. LookupIp(BuildResolver, o) = {} <=> o.v4 \cup o.v6 = {}
  BY DEF LookupIp, BuildResolver
<1> DEFINE found == LookupIp(BuildResolver, o)
<1>3. CASE o.client = <<>> /\ o.failure = <<>> /\ found # {} /\ AnswerVerdict(p, found)
  <2>1. Report(p, o) = Success(p, o, <<>>)
    BY <1>1, <1>3 DEF DnsProbe
  <2> QED
    BY <1>2, <1>3, <2>1, SuccessFields DEF HonestReport, Http
<1>4. CASE o.client # <<>> \/ o.failure # <<>> \/ found = {} \/ ~AnswerVerdict(p, found)
  <2>1. \E elapsed, error : Report(p, o) = Failure(p, elapsed, o, error)
    BY <1>1, <1>4 DEF DnsProbe
  <2> QED
    BY <1>2, <1>4, <2>1, FailureFields DEF HonestReport, AnswerVerdict, Http
<1> QED
  BY <1>3, <1>4

\* tls::probe keeps the reading on a failure.
LEMMA TlsIsHonest ==
    ASSUME NEW p, NEW o, p.type = "tls"
    PROVE  HonestReport(p, o)
<1>1. Report(p, o) = TlsProbe(p, o)
  BY DEF Report, Greeters, Http
<1>2. FetchPeerCertificate(p, o) = <<>> <=> SplitHostPort(p.target) /\ o.failure = <<>>
  BY DEF FetchPeerCertificate, VerifyServerCert
<1>3. CASE o.client = <<>> /\ FetchPeerCertificate(p, o) = <<>> /\ o.certificate # NoCertificate
  <2>1. CASE ExpiryVerdict(o.certificate, p.tls_expiry_fail_days)
    <3>1. Report(p, o) = WithMetric(Success(p, o, <<>>), TlsCertExpiryDays, o.certificate)
      BY <1>1, <1>3, <2>1 DEF TlsProbe, Judged
    <3> QED
      BY <1>2, <1>3, <3>1, SuccessWithMetric DEF HonestReport, Http
  <2>2. CASE ~ExpiryVerdict(o.certificate, p.tls_expiry_fail_days)
    <3>1. \E elapsed, error :
             Report(p, o) = WithMetric(Failure(p, elapsed, o, error), TlsCertExpiryDays, o.certificate)
      BY <1>1, <1>3, <2>2 DEF TlsProbe, Judged
    <3> QED
      BY <1>2, <1>3, <3>1, FailureWithMetric DEF HonestReport, Http
  <2> QED
    BY <2>1, <2>2
<1>4. CASE ~(o.client = <<>> /\ FetchPeerCertificate(p, o) = <<>> /\ o.certificate # NoCertificate)
  <2>1. \E elapsed, error : Report(p, o) = Failure(p, elapsed, o, error)
    BY <1>1, <1>4 DEF TlsProbe, Judged
  <2> QED
    BY <1>2, <1>4, <2>1, FailureFields DEF HonestReport, Http
<1> QED
  BY <1>3, <1>4
\* What loading leaves of a probe: its type, for dns a target that is a socket address, and
\* its name but for the control characters in it.
LEMMA ProbeAccepted ==
    ASSUME NEW f, NEW e, Loads(f, e), NEW i \in DOMAIN Configured(f, e).probes
    PROVE  LET p == Configured(f, e).probes[i] IN
           /\ p.type \in Types
           /\ p.type = "dns" => p.target.shape = "socket"
           /\ "probes" \in DOMAIN f /\ i \in DOMAIN f.probes
           /\ p.name = EscapeControlChars(f.probes[i].name)
           /\ p.tls_expiry_fail_days = Complete(ProbeConfig, f.probes[i]).tls_expiry_fail_days
           /\ ValidProbe(p)
           /\ p = EscapedProbe(Complete(ProbeConfig, f.probes[i]))
<1> DEFINE all == Complete(AppConfig, f)
           probes == [n \in DOMAIN all.probes |-> Complete(ProbeConfig, all.probes[n])]
           over == Overridden(Parsed(f), e)
           p == Configured(f, e).probes[i]
<1>1. DOMAIN all = DOMAIN f \cup {"probes", "ui", "metrics", "health", "log", "event_hub_capacity"}
      /\ ("probes" \in DOMAIN f => all.probes = f.probes)
      /\ ("probes" \notin DOMAIN f => all.probes = <<>>)
  BY DEF Complete, AppConfig, Schema
<1>2. "probes" \in DOMAIN Parsed(f) /\ Parsed(f)["probes"] = probes
  BY <1>1 DEF Parsed, Sections
<1>3. "probes" \in DOMAIN over /\ over["probes"] = probes
  BY <1>2 DEF Overridden, Sections
<1>4. /\ DOMAIN Configured(f, e).probes = DOMAIN probes
      /\ p = EscapedProbe(probes[i])
  BY <1>3 DEF Configured, Escaped
<1>5. /\ i \in DOMAIN all.probes /\ "type" \in DOMAIN f.probes[i] /\ f.probes[i].type \in Types
      /\ "name" \in DOMAIN f.probes[i]
      /\ "probes" \in DOMAIN f /\ all.probes = f.probes
  BY <1>1, <1>4 DEF Loads, Parses, Accepts, ProbeConfig, Schema
<1>6. /\ "type" \in DOMAIN probes[i] /\ probes[i]["type"] \in Types
      /\ "name" \in DOMAIN probes[i] /\ probes[i]["name"] = f.probes[i]["name"]
      /\ "tls_expiry_fail_days" \in DOMAIN probes[i]
      /\ probes[i] = Complete(ProbeConfig, f.probes[i])
  BY <1>5 DEF Complete, ProbeConfig, Schema
<1>7. p.type \in Types
  BY <1>4, <1>6 DEF EscapedProbe
<1>8. p.type = "dns" => p.target.shape = "socket"
  BY DEF Loads, Valid, ValidProbes, ValidProbe, ValidTarget
<1>9. p.name = EscapeControlChars(f.probes[i].name)
  BY <1>4, <1>6 DEF EscapedProbe
<1>10. p.tls_expiry_fail_days = Complete(ProbeConfig, f.probes[i]).tls_expiry_fail_days
  BY <1>4, <1>6 DEF EscapedProbe
<1>11. ValidProbe(p)
  BY DEF Loads, Valid, ValidProbes
<1> QED
  BY <1>4, <1>5, <1>6, <1>7, <1>8, <1>9, <1>10, <1>11

\* Each result of an accepted probe says what happened to the probe.
THEOREM ReportsAreHonest == Spec => []ResultsAreHonest
<1>1. StartupInv => ResultsAreHonest
  <2> SUFFICES ASSUME StartupInv, stage = "trace", NEW i \in DOMAIN cfg.probes, NEW o \in Outcomes
               PROVE  HonestReport(cfg.probes[i], o)
    BY DEF ResultsAreHonest
  <2>1. Loads(loaded, env) /\ cfg = Configured(loaded, env)
    BY DEF StartupInv, Accepted
  <2>2. /\ cfg.probes[i].type \in Types
        /\ cfg.probes[i].type = "dns" => cfg.probes[i].target.shape = "socket"
    BY <2>1, ProbeAccepted
  <2> QED
    BY <2>2, TcpIsHonest, HttpIsHonest, GreetingIsHonest, UdpIsHonest, DnsIsHonest, TlsIsHonest
    DEF Types
<1> QED
  BY <1>1, StartupInvariant, PTL

\* Whatever can happen to a probe.
AnyOutcome ==
    [failure : Seq(STRING), client : Seq(STRING), chain : Seq(Statuses) \ {<<>>},
     elapsed : Nat, now : Nat, text : Texts, says : Seq(STRING),
     v4 : SUBSET Addresses, v6 : SUBSET Addresses, found : Seq(Addresses), bytes : Nat,
     trusted : BOOLEAN, certificate : Days \cup {NoCertificate}]

\* The outcome a probe waits for: everything succeeds, and each answer is the one given.
Hoped(status, address, days) ==
    [failure |-> <<>>, client |-> <<>>, chain |-> <<status>>, elapsed |-> 0, now |-> 0,
     text |-> [len |-> 4, match |-> 4, newline |-> 0], says |-> <<>>,
     v4 |-> {address}, v6 |-> {}, found |-> <<address>>, bytes |-> 1, trusted |-> TRUE,
     certificate |-> days]

\* It can happen.
LEMMA HopedIsPossible ==
    ASSUME NEW status \in Statuses, NEW address \in Addresses,
           NEW days \in Days \cup {NoCertificate}, LongestGreeting >= 4
    PROVE  Hoped(status, address, days) \in AnyOutcome
<1>1. [len |-> 4, match |-> 4, newline |-> 0] \in Texts
  BY VerdictsAssumption DEF Texts
<1>2. /\ <<status>> \in Seq(Statuses) /\ <<address>> \in Seq(Addresses)
      /\ <<>> \in Seq(STRING) /\ <<status>> # <<>>
  OBVIOUS
<1> QED
  BY <1>1, <1>2 DEF Hoped, AnyOutcome

\* The right answers make any valid probe of something that can exist report UP.
LEMMA HopedIsUp ==
    ASSUME NEW p, NEW status, NEW address, NEW days,
           p.type \in Types, ValidProbe(p), CanExist(p),
           p.type \in Http => StatusVerdict(p, status),
           AnswerVerdict(p, {address}),
           p.type = "tls" => /\ days # NoCertificate
                             /\ ExpiryVerdict(days, p.tls_expiry_fail_days)
    PROVE  Report(p, Hoped(status, address, days)).up
<1> DEFINE o == Hoped(status, address, days)
<1>1. /\ o.failure = <<>> /\ o.client = <<>> /\ o.chain = <<status>>
      /\ o.text = [len |-> 4, match |-> 4, newline |-> 0]
      /\ o.v4 = {address} /\ o.found = <<address>> /\ o.bytes = 1 /\ o.certificate = days
  BY DEF Hoped
<1> HIDE DEF o
<1>2. CASE p.type = "tcp"
  <2>1. Report(p, o) = Success(p, o, <<>>)
    BY <1>1, <1>2 DEF Report, TcpProbe, Greeters, Http
  <2> QED
    BY <2>1, SuccessFields DEF o
<1>3. CASE p.type \in Http
  <2>1. Report(p, o) = HttpProbe(p, o)
    BY <1>3 DEF Report, Greeters, Http
  <2>2. BuildClient(o.chain) = status
    BY <1>1 DEF BuildClient
  <2>3. Report(p, o) = Success(p, o, <<status>>)
    BY <1>1, <1>3, <2>1, <2>2 DEF HttpProbe, Answered
  <2> QED
    BY <2>3, SuccessFields DEF o
<1>4. CASE p.type \in Greeters
  <2>1. Report(p, o) = GreetingProbe(p, o)
    BY <1>4 DEF Report, Greeters, Http
  <2>2. GreetingVerdict(p.type, o.text, o.text.len)
    BY <1>1, <1>4, VerdictsAssumption DEF GreetingVerdict, PrefixLen, Greeters
  <2>3. Report(p, o) = Success(p, o, <<>>)
    BY <1>1, <2>1, <2>2 DEF GreetingProbe
  <2> QED
    BY <2>3, SuccessFields DEF o
<1>5. CASE p.type = "udp"
  <2>1. Report(p, o) = UdpProbe(p, o)
    BY <1>5 DEF Report, Greeters, Http
  <2>2. Connects(SocketFamily(Head(o.found), o), Head(o.found), o)
    BY DEF Connects, SocketFamily
  <2>3. Report(p, o) = Success(p, o, <<>>)
    BY <1>1, <2>1, <2>2 DEF UdpProbe
  <2> QED
    BY <2>3, SuccessFields DEF o
<1>6. CASE p.type = "dns"
  <2>1. Report(p, o) = DnsProbe(p, o)
    BY <1>6 DEF Report, Greeters, Http
  <2>2. LookupIp(BuildResolver, o) = {address}
    BY <1>1 DEF LookupIp, BuildResolver
  <2>3. p.target.shape = "socket"
    BY <1>6 DEF ValidProbe, ValidTarget
  <2>4. Report(p, o) = Success(p, o, <<>>)
    BY <1>1, <2>1, <2>2, <2>3 DEF DnsProbe
  <2> QED
    BY <2>4, SuccessFields DEF o
<1>7. CASE p.type = "tls"
  <2>1. Report(p, o) = TlsProbe(p, o)
    BY <1>7 DEF Report, Greeters, Http
  <2>2. FetchPeerCertificate(p, o) = <<>>
    BY <1>1, <1>7 DEF FetchPeerCertificate, SplitHostPort, VerifyServerCert, CanExist, Http
  <2>3. Report(p, o) = WithMetric(Success(p, o, <<>>), TlsCertExpiryDays, days)
    BY <1>1, <1>7, <2>1, <2>2 DEF TlsProbe, Judged
  <2> QED
    BY <2>3, SuccessWithMetric DEF o
<1> QED
  BY <1>2, <1>3, <1>4, <1>5, <1>6, <1>7 DEF Types, o

\* A threshold that is accepted is a number, and not a negative one.
LEMMA ThresholdAccepted ==
    ASSUME NEW g, TypedProbe(g), NEW p,
           ValidProbe(p), p.tls_expiry_fail_days = Complete(ProbeConfig, g).tls_expiry_fail_days
    PROVE  /\ p.tls_expiry_fail_days.kind = "finite"
           /\ p.tls_expiry_fail_days.n \in Nat
<1>1. p.tls_expiry_fail_days.kind = "finite" /\ p.tls_expiry_fail_days.n >= 0
  BY DEF ValidProbe, ValidThreshold
<1>2. Complete(ProbeConfig, g).tls_expiry_fail_days =
         IF "tls_expiry_fail_days" \in DOMAIN g THEN g.tls_expiry_fail_days
         ELSE [kind |-> "finite", n |-> 0]
  BY DEF Complete, ProbeConfig, Schema
<1>3. CASE "tls_expiry_fail_days" \in DOMAIN g
  BY <1>1, <1>2, <1>3 DEF TypedProbe
<1>4. CASE "tls_expiry_fail_days" \notin DOMAIN g
  BY <1>1, <1>2, <1>4
<1> QED
  BY <1>3, <1>4

\* An expectation that validate overlooks is met by no outcome at all.
LEMMA OverlookedIsDead ==
    ASSUME NEW p, p.type \in Types, Overlooked(p), NEW o, TypedOutcome(o),
           p.tls_expiry_fail_days.kind = "finite" => p.tls_expiry_fail_days.n \in Int
    PROVE  ~Report(p, o).up
<1>1. CASE p.type \in Http /\ p.expected_status \in Informational
  <2>1. Report(p, o) = HttpProbe(p, o)
    BY <1>1 DEF Report, Greeters, Http
  <2>2. BuildClient(o.chain) \in Statuses
    BY DEF BuildClient, TypedOutcome
  <2>3. p.expected_status # NoValue => ~StatusVerdict(p, BuildClient(o.chain))
    BY <1>1, <2>2, VerdictsAssumption DEF StatusVerdict
  <2>4. p.expected_status # NoValue
    BY <1>1, VerdictsAssumption
  <2>5. \E elapsed, error : HttpProbe(p, o) = Failure(p, elapsed, o, error)
    BY <2>3, <2>4 DEF HttpProbe, Answered
  <2> QED
    BY <2>1, <2>5, FailureFields
<1>2. CASE /\ p.type = "tls" /\ p.tls_expiry_fail_days.kind = "finite"
           /\ \A d \in Days : d < p.tls_expiry_fail_days.n
  <2>1. Report(p, o) = TlsProbe(p, o)
    BY <1>2 DEF Report, Greeters, Http
  <2>2. o.certificate = NoCertificate \/ ~ExpiryVerdict(o.certificate, p.tls_expiry_fail_days)
    BY <1>2 DEF TypedOutcome, ExpiryVerdict, BelowThreshold
  <2>3. \/ \E elapsed, error : TlsProbe(p, o) = Failure(p, elapsed, o, error)
        \/ \E elapsed, error :
              TlsProbe(p, o) = WithMetric(Failure(p, elapsed, o, error), TlsCertExpiryDays,
                                          o.certificate)
    BY <2>2 DEF TlsProbe, Judged
  <2>4. CASE \E elapsed, error : TlsProbe(p, o) = Failure(p, elapsed, o, error)
    BY <2>1, <2>4, FailureFields
  <2>5. CASE \E elapsed, error :
                TlsProbe(p, o) = WithMetric(Failure(p, elapsed, o, error), TlsCertExpiryDays,
                                            o.certificate)
    <3>1. PICK elapsed, error :
             TlsProbe(p, o) = WithMetric(Failure(p, elapsed, o, error), TlsCertExpiryDays,
                                         o.certificate)
      BY <2>5
    <3>2. ~WithMetric(Failure(p, elapsed, o, error), TlsCertExpiryDays, o.certificate).up
      BY FailureWithMetric
    <3> QED
      BY <2>1, <3>1, <3>2
  <2> QED
    BY <2>3, <2>4, <2>5
<1> QED
  BY <1>1, <1>2 DEF Overlooked

\* Any other expectation of a target that can exist is met by some outcome.
LEMMA OthersAreHoped ==
    ASSUME NEW p, p.type \in Types, ValidProbe(p), CanExist(p), ~Overlooked(p),
           p.tls_expiry_fail_days.kind = "finite", p.tls_expiry_fail_days.n \in Nat,
           (100 .. 599) \ Informational \subseteq Statuses, Addresses # {}, LongestGreeting >= 4
    PROVE  \E o \in AnyOutcome : Report(p, o).up
<1>1. PICK status \in Statuses : p.type \in Http => StatusVerdict(p, status)
  <2>1. p.expected_status = NoValue \/ p.expected_status \in 100 .. 599
    BY DEF ValidProbe
  <2>2. 200 \in Statuses
    BY DEF Informational
  <2>3. CASE p.type \in Http /\ p.expected_status # NoValue
    BY <2>1, <2>3 DEF Overlooked, StatusVerdict
  <2>4. CASE p.type \notin Http \/ p.expected_status = NoValue
    BY <2>2, <2>4 DEF StatusVerdict
  <2> QED
    BY <2>3, <2>4
<1>2. PICK address \in Addresses : AnswerVerdict(p, {address})
  BY DEF ValidProbe, AnswerVerdict
<1>3. PICK days \in Days \cup {NoCertificate} :
         p.type = "tls" => /\ days # NoCertificate
                           /\ ExpiryVerdict(days, p.tls_expiry_fail_days)
  <2>1. CASE p.type = "tls"
    <3>1. PICK d \in Days : ~(d < p.tls_expiry_fail_days.n)
      BY <2>1 DEF Overlooked
    <3>2. d \in Int /\ d # NoCertificate
      BY VerdictsAssumption
    <3> QED
      BY <3>1, <3>2 DEF ExpiryVerdict, BelowThreshold
  <2>2. CASE p.type # "tls"
    BY <2>2
  <2> QED
    BY <2>1, <2>2
<1>4. Hoped(status, address, days) \in AnyOutcome
  BY HopedIsPossible
<1> QED
  BY <1>1, <1>2, <1>3, <1>4, HopedIsUp

\* If whatever the client, the resolver and a peer can show may happen, the accepted probes
\* of targets that can exist which are DOWN for ever are the two that validate overlooks.
THEOREM OnlyOverlookedProbesAreDead ==
    ASSUME (100 .. 599) \ Informational \subseteq Statuses, Addresses # {},
           LongestGreeting >= 4, AnyOutcome \subseteq Outcomes
    PROVE  Spec => []NoDeadProbe
<1>1. StartupInv => NoDeadProbe
  <2> SUFFICES ASSUME StartupInv, stage = "trace", NEW i \in DOMAIN cfg.probes,
                      CanExist(cfg.probes[i])
               PROVE  (\E o \in Outcomes : Report(cfg.probes[i], o).up)
                      <=> ~Overlooked(cfg.probes[i])
    BY DEF NoDeadProbe
  <2> DEFINE p == cfg.probes[i]
  <2>1. Loads(loaded, env) /\ cfg = Configured(loaded, env) /\ TypedFile(loaded)
    BY DEF StartupInv, Accepted, FilesAreTyped
  <2>2. /\ p.type \in Types /\ ValidProbe(p)
        /\ "probes" \in DOMAIN loaded /\ i \in DOMAIN loaded.probes
        /\ p.tls_expiry_fail_days = Complete(ProbeConfig, loaded.probes[i]).tls_expiry_fail_days
    BY <2>1, ProbeAccepted
  <2>3. TypedProbe(loaded.probes[i])
    BY <2>1, <2>2 DEF TypedFile, Loads
  <2>4. CanExist(p)
    OBVIOUS
  <2> HIDE DEF p
  <2>5. p.tls_expiry_fail_days.kind = "finite" /\ p.tls_expiry_fail_days.n \in Nat
    BY <2>2, <2>3, ThresholdAccepted
  <2>6. Overlooked(p) => \A o \in Outcomes : ~Report(p, o).up
    BY <2>2, <2>5, OverlookedIsDead, StartupAssumption
  <2>7. ~Overlooked(p) => \E o \in Outcomes : Report(p, o).up
    BY <2>2, <2>4, <2>5, OthersAreHoped
  <2> QED
    BY <2>6, <2>7 DEF p
<1> QED
  BY <1>1, StartupInvariant, PTL
-----------------------------------------------------------------------------
(***************************************************************************)
(* Strings of any length.  FlattenSeq is a recursive function, which first *)
(* has to be shown to exist; the proofs by induction take the least        *)
(* counterexample instead.                                                 *)
(***************************************************************************)

\* The least element of a set of natural numbers: how the proofs below do induction.
LEMMA LeastNatural ==
    ASSUME NEW T, T \subseteq Nat, T # {}
    PROVE  \E m \in T : \A k \in T : m <= k
<1>1. IsWellFoundedOn(OpToRel(<, Nat), Nat)
  BY NatLessThanWellFounded
<1>2. \A k, m \in Nat : k < m => <<k, m>> \in OpToRel(<, Nat)
  BY DEF OpToRel
<1>3. PICK m \in T : \A k \in T : ~ (<<k, m>> \in OpToRel(<, Nat))
  BY <1>1, WFMin
<1>4. \A k \in T : ~(k < m) /\ k \in Nat /\ m \in Nat
  BY <1>2, <1>3
<1> QED
  BY <1>4

\* f[i] is the first i sequences of ss, one behind the other, for i up to n.
Flatten(f, n, ss) == f = [i \in 1 .. n |-> IF i = 1 THEN ss[i] ELSE f[i - 1] \o ss[i]]

\* One more sequence can be put behind the others.
LEMMA FlattenExtends ==
    ASSUME NEW ss, NEW n \in Nat, \E f : Flatten(f, n, ss)
    PROVE  \E g : Flatten(g, n + 1, ss)
<1>1. PICK f : Flatten(f, n, ss)
  OBVIOUS
<1> DEFINE Body(h, i) == IF i = 1 THEN ss[i] ELSE h[i - 1] \o ss[i]
           g == [i \in 1 .. n + 1 |-> IF i \in 1 .. n THEN f[i] ELSE Body(f, i)]
<1>2. \A i \in 1 .. n + 1 : i # 1 => g[i - 1] = f[i - 1]
  OBVIOUS
<1>3. \A i \in 1 .. n : f[i] = Body(f, i)
  BY <1>1 DEF Flatten
<1>4. \A i \in 1 .. n + 1 : g[i] = Body(g, i)
  <2> TAKE i \in 1 .. n + 1
  <2>1. g[i] = Body(f, i)
    <3> HIDE DEF Body
    <3> QED
      BY <1>3
  <2>2. Body(f, i) = Body(g, i)
    <3> HIDE DEF g
    <3> QED
      BY <1>2
  <2> QED
    BY <2>1, <2>2
<1>5. g = [i \in 1 .. n + 1 |-> g[i]]
  OBVIOUS
<1>6. [i \in 1 .. n + 1 |-> g[i]] = [i \in 1 .. n + 1 |-> Body(g, i)]
  <2> HIDE DEF g, Body
  <2> QED
    BY <1>4
<1>7. Flatten(g, n + 1, ss)
  <2> HIDE DEF g
  <2> QED
    BY <1>5, <1>6 DEF Flatten
<1> QED
  BY <1>7

\* So there is such a function for any number of sequences.
LEMMA FlattenExists ==
    ASSUME NEW ss, NEW n \in Nat
    PROVE  \E f : Flatten(f, n, ss)
<1> DEFINE Bad == {k \in Nat : ~\E f : Flatten(f, k, ss)}
<1>1. ASSUME Bad # {} PROVE FALSE
  <2>1. PICK m \in Bad : \A k \in Bad : m <= k
    BY <1>1, LeastNatural
  <2>2. m # 0
    <3>1. Flatten(<<>>, 0, ss)
      BY DEF Flatten
    <3> QED
      BY <3>1
  <2>3. m - 1 \in Nat /\ m - 1 \notin Bad
    BY <2>1, <2>2
  <2>4. \E f : Flatten(f, m - 1, ss)
    BY <2>3
  <2>5. \E f : Flatten(f, (m - 1) + 1, ss)
    BY <2>3, <2>4, FlattenExtends
  <2> QED
    BY <2>1, <2>3, <2>5
<1> QED
  BY <1>1

\* FlattenSeq is the last of the flattened prefixes.
LEMMA FlattenSeqIsLast ==
    ASSUME NEW ss, Len(ss) \in Nat \ {0}
    PROVE  \E f : Flatten(f, Len(ss), ss) /\ FlattenSeq(ss) = f[Len(ss)]
<1> DEFINE P(f) == f = [i \in 1 .. Len(ss) |-> IF i = 1 THEN ss[i] ELSE f[i - 1] \o ss[i]]
<1>1. P(CHOOSE f : P(f))
  <2>1. \E f : P(f)
    BY FlattenExists DEF Flatten
  <2> HIDE DEF P
  <2> QED
    BY <2>1
<1>2. FlattenSeq(ss) = (CHOOSE f : P(f))[Len(ss)]
  BY DEF FlattenSeq
<1> QED
  BY <1>1, <1>2 DEF Flatten

\* A string of strings over C is a string over C.
LEMMA FlattenSeqType ==
    ASSUME NEW C, NEW ss \in Seq(Seq(C))
    PROVE  FlattenSeq(ss) \in Seq(C)
<1>1. CASE Len(ss) = 0
  <2>1. ss = <<>>
    BY <1>1, EmptySeq
  <2> QED
    BY <1>1, <2>1 DEF FlattenSeq
<1>2. CASE Len(ss) # 0
  <2>1. Len(ss) \in Nat \ {0} /\ \A i \in 1 .. Len(ss) : ss[i] \in Seq(C)
    BY <1>2
  <2>2. PICK f : Flatten(f, Len(ss), ss) /\ FlattenSeq(ss) = f[Len(ss)]
    BY <2>1, FlattenSeqIsLast
  <2> DEFINE Bad == {k \in 1 .. Len(ss) : f[k] \notin Seq(C)}
  <2>3. ASSUME Bad # {} PROVE FALSE
    <3>0. Bad \subseteq Nat
      BY <2>1
    <3>1. PICK m \in Bad : \A k \in Bad : m <= k
      <4> HIDE DEF Bad
      <4> QED
        BY <2>3, <3>0, LeastNatural
    <3>2. f[m] = IF m = 1 THEN ss[m] ELSE f[m - 1] \o ss[m]
      BY <2>2, <3>1 DEF Flatten
    <3>3. m # 1
      BY <2>1, <3>1, <3>2
    <3>4. m - 1 \in 1 .. Len(ss) /\ m - 1 \notin Bad
      BY <2>1, <3>1, <3>3
    <3>5. f[m - 1] \in Seq(C) /\ ss[m] \in Seq(C)
      BY <2>1, <3>1, <3>4
    <3>6. f[m - 1] \o ss[m] \in Seq(C)
      BY <3>5, ConcatProperties
    <3> QED
      BY <3>1, <3>2, <3>3, <3>6
  <2>4. Len(ss) \notin Bad
    BY <2>3
  <2> QED
    BY <2>1, <2>2, <2>4
<1> QED
  BY <1>1, <1>2

\* Replacing c leaves the other characters and brings in those of its replacement.
LEMMA ReplaceCharType ==
    ASSUME NEW C, NEW s \in Seq(C), NEW c, NEW D, C \ {c} \subseteq D, NEW by \in Seq(D)
    PROVE  ReplaceChar(s, c, by) \in Seq(D)
<1> DEFINE pieces == [i \in DOMAIN s |-> IF s[i] = c THEN by ELSE <<s[i]>>]
<1>1. \A i \in DOMAIN s : pieces[i] \in Seq(D)
  <2> TAKE i \in DOMAIN s
  <2>1. s[i] \in C
    OBVIOUS
  <2>2. CASE s[i] = c
    BY <2>2
  <2>3. CASE s[i] # c
    BY <2>1, <2>3
  <2> QED
    BY <2>2, <2>3
<1>2. DOMAIN s = 1 .. Len(s) /\ Len(s) \in Nat
  OBVIOUS
<1>3. pieces \in Seq(Seq(D))
  <2>1. pieces \in [1 .. Len(s) -> Seq(D)]
    BY <1>1, <1>2
  <2> HIDE DEF pieces
  <2> QED
    BY <1>2, <2>1, IsASeq
<1> QED
  BY <1>3, FlattenSeqType DEF ReplaceChar

\* The characters there are, the words that the code writes itself among them, and those
\* that a terminal only shows.
Words ==
    Types \cup
    {"n", "r", "t", "x", "1", "9", "b", Backslash, "HTTP", "unexpected status", "empty",
     "unexpected", "no address resolved", "address family not supported", "empty response",
     "invalid target address", "no records", "not in response", "not a valid TLS server name",
     "invalid peer certificate", "could not parse certificate", "certificate expires"} \cup
    {Quote, ",", "=", " ", "{", "}", "probe_result", "probe_name", "probe_type", "target", "up",
     "i", "response_ms", "status_code", "error", "probe", "type", "tls_cert_expiry_days",
     "org", "bucket", "&", "precision", "ms", "%", "c3", "a4"}
Characters == STRING \cup Words
Inert == Characters \ Controls

\* No word of the code's own is a control character.
LEMMA WordsAreInert == Words \subseteq Inert
  BY DEF Words, Inert, Characters, Controls, LF, CR, TAB, ESC, CSI, Backslash, Quote, Types, Http,
         Greeters

\* What is escaped is inert.
LEMMA EscapedIsInert ==
    ASSUME NEW s \in Seq(Characters)
    PROVE  EscapeControlChars(s) \in Seq(Inert)
<1> DEFINE C1 == Characters \ {LF}
           C2 == C1 \ {CR}
           C3 == C2 \ {TAB}
           C4 == C3 \ {ESC}
           C5 == C4 \ {CSI}
<1>1. C5 = Inert
  BY DEF Inert, Controls
<1>2. /\ <<Backslash, "n">> \in Seq(C5) /\ <<Backslash, "r">> \in Seq(C5)
      /\ <<Backslash, "t">> \in Seq(C5) /\ Hex(ESC) \in Seq(C5) /\ Hex(CSI) \in Seq(C5)
  <2>1. {"n", "r", "t", "x", "1", "9", "b", Backslash} \subseteq C5
    BY <1>1, WordsAreInert DEF Words
  <2> HIDE DEF C5
  <2>2. /\ <<Backslash, "n">> \in Seq(C5) /\ <<Backslash, "r">> \in Seq(C5)
        /\ <<Backslash, "t">> \in Seq(C5)
    BY <2>1
  <2>3. /\ <<Backslash, "x", "1", "b">> \in Seq(C5)
        /\ <<Backslash, "x", "9", "b">> \in Seq(C5)
    BY <2>1
  <2> QED
    BY <2>2, <2>3 DEF Hex
<1>3. Seq(C5) \subseteq Seq(C4) /\ Seq(C5) \subseteq Seq(C3) /\ Seq(C5) \subseteq Seq(C2)
      /\ Seq(C5) \subseteq Seq(C1)
  OBVIOUS
<1> HIDE DEF C1, C2, C3, C4, C5
<1>4. ReplaceChar(s, LF, <<Backslash, "n">>) \in Seq(C1)
  BY <1>2, <1>3, ReplaceCharType DEF C1
<1>5. Named(s) \in Seq(C2)
  BY <1>2, <1>3, <1>4, ReplaceCharType DEF C2, Named
<1>6. ReplaceChar(Named(s), TAB, <<Backslash, "t">>) \in Seq(C3)
  BY <1>2, <1>3, <1>5, ReplaceCharType DEF C3
<1>7. ReplaceChar(ReplaceChar(Named(s), TAB, <<Backslash, "t">>), ESC, Hex(ESC)) \in Seq(C4)
  BY <1>2, <1>3, <1>6, ReplaceCharType DEF C4
<1>8. EscapeControlChars(s) \in Seq(C5)
  BY <1>2, <1>7, ReplaceCharType DEF C5, EscapeControlChars
<1> QED
  BY <1>1, <1>8
-----------------------------------------------------------------------------
(***************************************************************************)
(* The console.                                                            *)
(***************************************************************************)

\* What a report is made of: its own probe's strings, numbers, escaped errors.
Printable(r, p, o) ==
    /\ r.probe_name = p.name /\ r.probe_type = p.type /\ r.target = p.target.text
    /\ r.up \in BOOLEAN
    /\ r.response_ms \in {0, o.elapsed} /\ r.timestamp = o.now
    /\ r.status_code = <<>> \/ \E s \in Statuses : r.status_code = <<s>>
    /\ r.error = <<>> \/ \E e \in Seq(Characters) : r.error = <<EscapeControlChars(e)>>
    /\ \/ r.metrics = <<>>
       \/ /\ o.certificate # NoCertificate
          /\ r.metrics = <<[key |-> TlsCertExpiryDays, value |-> o.certificate]>>

\* A success has no error to print ...
LEMMA SuccessPrintable ==
    ASSUME NEW p, NEW o, NEW status, status = <<>> \/ \E s \in Statuses : status = <<s>>
    PROVE  /\ Printable(Success(p, o, status), p, o)
           /\ o.certificate # NoCertificate =>
                 Printable(WithMetric(Success(p, o, status), TlsCertExpiryDays, o.certificate), p, o)
<1>1. Printable(Success(p, o, status), p, o)
  BY DEF Printable, Success
<1>2. ASSUME o.certificate # NoCertificate
      PROVE  Printable(WithMetric(Success(p, o, status), TlsCertExpiryDays, o.certificate), p, o)
  BY <1>2, FirstReading DEF Printable, Success, WithMetric
<1> QED
  BY <1>1, <1>2

\* ... and a failure prints its error escaped.
LEMMA FailurePrintable ==
    ASSUME NEW p, NEW o, NEW elapsed \in {0, o.elapsed}, NEW e \in Seq(Characters)
    PROVE  /\ Printable(Failure(p, elapsed, o, e), p, o)
           /\ o.certificate # NoCertificate =>
                 Printable(WithMetric(Failure(p, elapsed, o, e), TlsCertExpiryDays, o.certificate), p, o)
<1>1. Printable(Failure(p, elapsed, o, e), p, o)
  BY DEF Printable, Failure
<1>2. ASSUME o.certificate # NoCertificate
      PROVE  Printable(WithMetric(Failure(p, elapsed, o, e), TlsCertExpiryDays, o.certificate), p, o)
  BY <1>2, FirstReading DEF Printable, Failure, WithMetric
<1> QED
  BY <1>1, <1>2

\* Short strings.
LEMMA ShortStrings ==
    ASSUME NEW C
    PROVE  /\ \A a \in C : <<a>> \in Seq(C)
           /\ \A a \in C, b \in C : <<a, b>> \in Seq(C)
           /\ \A D : D \subseteq C => Seq(D) \subseteq Seq(C)
  OBVIOUS

\* What the code says of its own accord, and what it quotes.
LEMMA ErrorTexts ==
    ASSUME NEW o \in Outcomes
    PROVE  /\ {o.failure, o.client, <<"unexpected">> \o o.says} \subseteq Seq(Characters)
           /\ \A w \in Words : <<w>> \in Seq(Characters)
           /\ Head(o.chain) \in Statuses
           /\ \A s \in Statuses : <<"unexpected status", Digits(s)>> \in Seq(Characters)
<1>1. /\ o.failure \in Seq(STRING) /\ o.client \in Seq(STRING) /\ o.says \in Seq(STRING)
      /\ o.chain \in Seq(Statuses) /\ o.chain # <<>>
      /\ \A s \in Statuses : Digits(s) \in STRING
  BY StartupAssumption DEF TypedOutcome
<1>2. /\ STRING \subseteq Characters /\ Words \subseteq Characters
      /\ "unexpected" \in Words /\ "unexpected status" \in Words
  BY DEF Characters, Words
<1>3. o.failure \in Seq(Characters) /\ o.client \in Seq(Characters) /\ o.says \in Seq(Characters)
  <2>1. Seq(STRING) \subseteq Seq(Characters)
    BY <1>2, ShortStrings
  <2> QED
    BY <1>1, <2>1
<1>4. <<"unexpected">> \o o.says \in Seq(Characters)
  <2>1. <<"unexpected">> \in Seq(Characters)
    BY <1>2, ShortStrings
  <2> QED
    BY <1>3, <2>1, ConcatProperties
<1>5. Head(o.chain) \in Statuses
  BY <1>1
<1>6. ASSUME NEW s \in Statuses
      PROVE  <<"unexpected status", Digits(s)>> \in Seq(Characters)
  <2>1. Digits(s) \in Characters /\ "unexpected status" \in Characters
    BY <1>1, <1>2
  <2> QED
    BY <2>1, ShortStrings, Zenon
<1>7. \A w \in Words : <<w>> \in Seq(Characters)
  BY <1>2, ShortStrings
<1> QED
  BY <1>3, <1>4, <1>5, <1>6, <1>7

\* The reading of a certificate is added to either result.
LEMMA JudgedPrintable ==
    ASSUME NEW p, NEW o \in Outcomes
    PROVE  Printable(Judged(p, o), p, o)
<1>1. o.elapsed \in {0, o.elapsed}
  OBVIOUS
<1>2. <<"could not parse certificate">> \in Seq(Characters)
      /\ <<"certificate expires">> \in Seq(Characters)
  BY ErrorTexts DEF Words
<1>3. CASE o.certificate = NoCertificate
  <2>1. Judged(p, o) = Failure(p, o.elapsed, o, <<"could not parse certificate">>)
    BY <1>3 DEF Judged
  <2> QED
    BY <1>1, <1>2, <2>1, FailurePrintable
<1>4. CASE o.certificate # NoCertificate /\ ExpiryVerdict(o.certificate, p.tls_expiry_fail_days)
  <2>1. Judged(p, o) = WithMetric(Success(p, o, <<>>), TlsCertExpiryDays, o.certificate)
    BY <1>4 DEF Judged
  <2> QED
    BY <1>4, <2>1, SuccessPrintable
<1>5. CASE o.certificate # NoCertificate /\ ~ExpiryVerdict(o.certificate, p.tls_expiry_fail_days)
  <2>1. Judged(p, o) = WithMetric(Failure(p, o.elapsed, o, <<"certificate expires">>),
                                  TlsCertExpiryDays, o.certificate)
    BY <1>5 DEF Judged
  <2> QED
    BY <1>1, <1>2, <1>5, <2>1, FailurePrintable
<1> QED
  BY <1>3, <1>4, <1>5

\* Whatever the type of the probe and the outcome, its report can be printed.
LEMMA ReportPrintable ==
    ASSUME NEW p, NEW o \in Outcomes, p.type \in Types
    PROVE  Printable(Report(p, o), p, o)
<1> DEFINE Says(error) == \E elapsed \in {0, o.elapsed} : Report(p, o) = Failure(p, elapsed, o, error)
<1>1. ASSUME NEW error \in Seq(Characters), Says(error)
      PROVE  Printable(Report(p, o), p, o)
  BY <1>1, FailurePrintable
<1>2. ASSUME Report(p, o) = Success(p, o, <<>>)
      PROVE  Printable(Report(p, o), p, o)
  BY <1>2, SuccessPrintable
<1>3. /\ o.failure \in Seq(Characters) /\ o.client \in Seq(Characters)
      /\ <<"unexpected">> \o o.says \in Seq(Characters)
  BY ErrorTexts
<1>4. /\ <<"empty">> \in Seq(Characters) /\ <<"no address resolved">> \in Seq(Characters)
      /\ <<"address family not supported">> \in Seq(Characters)
      /\ <<"empty response">> \in Seq(Characters)
      /\ <<"invalid target address">> \in Seq(Characters)
      /\ <<"no records">> \in Seq(Characters) /\ <<"not in response">> \in Seq(Characters)
      /\ <<"not a valid TLS server name">> \in Seq(Characters)
      /\ <<"invalid peer certificate">> \in Seq(Characters)
  BY ErrorTexts DEF Words
<1>5. CASE p.type = "tcp"
  <2>1. Report(p, o) = TcpProbe(p, o)
    BY <1>5 DEF Report, Greeters, Http
  <2>2. Report(p, o) = Success(p, o, <<>>) \/ Says(o.failure)
    BY <2>1 DEF TcpProbe
  <2> QED
    BY <1>1, <1>2, <1>3, <2>2
<1>6. CASE p.type \in Http
  <2>1. Report(p, o) = HttpProbe(p, o)
    BY <1>6 DEF Report, Greeters, Http
  <2> DEFINE status == BuildClient(o.chain)
  <2>2. \/ Report(p, o) = Success(p, o, <<status>>)
        \/ Says(<<"unexpected status", Digits(status)>>)
        \/ Says(o.client)
        \/ Says(o.failure)
    BY <2>1 DEF HttpProbe, Answered
  <2>3. status \in Statuses /\ <<"unexpected status", Digits(status)>> \in Seq(Characters)
    BY ErrorTexts DEF BuildClient
  <2>4. Printable(Success(p, o, <<status>>), p, o)
    BY <2>3, SuccessPrintable
  <2> QED
    BY <1>1, <1>3, <2>2, <2>3, <2>4
<1>7. CASE p.type \in Greeters
  <2>1. Report(p, o) = GreetingProbe(p, o)
    BY <1>7 DEF Report, Greeters, Http
  <2>2. \/ Report(p, o) = Success(p, o, <<>>)
        \/ Says(o.failure) \/ Says(<<"empty">>) \/ Says(<<"unexpected">> \o o.says)
    BY <2>1 DEF GreetingProbe
  <2> QED
    BY <1>1, <1>2, <1>3, <1>4, <2>2
<1>8. CASE p.type = "udp"
  <2>1. Report(p, o) = UdpProbe(p, o)
    BY <1>8 DEF Report, Greeters, Http
  <2>2. \/ Report(p, o) = Success(p, o, <<>>)
        \/ Says(o.failure) \/ Says(<<"no address resolved">>)
        \/ Says(<<"address family not supported">>) \/ Says(<<"empty response">>)
    BY <2>1 DEF UdpProbe
  <2> QED
    BY <1>1, <1>2, <1>3, <1>4, <2>2
<1>9. CASE p.type = "dns"
  <2>1. Report(p, o) = DnsProbe(p, o)
    BY <1>9 DEF Report, Greeters, Http
  <2>2. \/ Report(p, o) = Success(p, o, <<>>)
        \/ Says(o.failure) \/ Says(o.client) \/ Says(<<"invalid target address">>)
        \/ Says(<<"no records">>) \/ Says(<<"not in response">>)
    BY <2>1 DEF DnsProbe
  <2> QED
    BY <1>1, <1>2, <1>3, <1>4, <2>2
<1>10. CASE p.type = "tls"
  <2>1. Report(p, o) = TlsProbe(p, o)
    BY <1>10 DEF Report, Greeters, Http
  <2>2. CASE o.client = <<>> /\ FetchPeerCertificate(p, o) = <<>>
    BY <2>1, <2>2, JudgedPrintable DEF TlsProbe
  <2>3. CASE o.client # <<>>
    <3>1. Says(o.client)
      BY <2>1, <2>3 DEF TlsProbe
    <3> QED
      BY <1>1, <1>3, <3>1
  <2>4. CASE o.client = <<>> /\ FetchPeerCertificate(p, o) # <<>>
    <3>1. Says(FetchPeerCertificate(p, o))
      BY <2>1, <2>4 DEF TlsProbe
    <3>2. FetchPeerCertificate(p, o) \in Seq(Characters)
      BY <1>3, <1>4, <2>4 DEF FetchPeerCertificate
    <3> QED
      BY <1>1, <3>1, <3>2
  <2> QED
    BY <2>2, <2>3, <2>4
<1> QED
  BY <1>5, <1>6, <1>7, <1>8, <1>9, <1>10 DEF Types

\* What is printed of a report of a probe with an inert name.
LEMMA PrintedIsInert ==
    ASSUME NEW r, NEW p, NEW o \in Outcomes, Printable(r, p, o),
           p.type \in Types, p.name \in Seq(Inert)
    PROVE  Console(r) \in Seq(Inert)
<1>1. \A n \in {0, o.elapsed} \cup Statuses : Digits(n) \in Inert
  <2>1. \A n \in {0, o.elapsed} \cup Statuses : Digits(n) \in STRING \ Controls
    BY StartupAssumption DEF TypedOutcome
  <2> QED
    BY <2>1 DEF Inert, Characters
<1>2. r.probe_type \in Inert /\ "HTTP" \in Inert
  BY WordsAreInert DEF Printable, Words
<1>3. <<r.probe_type, Digits(r.response_ms)>> \in Seq(Inert)
  <2>1. Digits(r.response_ms) \in Inert
    BY <1>1, Zenon DEF Printable
  <2> QED
    BY <1>2, <2>1, ShortStrings, Zenon
<1> DEFINE rest == IF r.status_code # <<>> THEN <<"HTTP", Digits(r.status_code[1])>>
                   ELSE FlattenSeq(r.error)
<1>4. rest \in Seq(Inert)
  <2>1. CASE r.status_code # <<>>
    <3>1. r.status_code[1] \in Statuses
      BY <2>1 DEF Printable
    <3>2. Digits(r.status_code[1]) \in Inert
      BY <1>1, <3>1, Zenon
    <3> QED
      BY <1>2, <2>1, <3>2, ShortStrings, Zenon
  <2>2. CASE r.status_code = <<>>
    <3>1. r.error \in Seq(Seq(Inert))
      <4>1. CASE r.error = <<>>
        BY <4>1
      <4>2. CASE \E e \in Seq(Characters) : r.error = <<EscapeControlChars(e)>>
        <5>1. PICK e \in Seq(Characters) : r.error = <<EscapeControlChars(e)>>
          BY <4>2
        <5>2. EscapeControlChars(e) \in Seq(Inert)
          BY EscapedIsInert
        <5> QED
          BY <5>1, <5>2, ShortStrings
      <4> QED
        BY <4>1, <4>2 DEF Printable
    <3>2. FlattenSeq(r.error) \in Seq(Inert)
      BY <3>1, FlattenSeqType
    <3> QED
      BY <2>2, <3>2
  <2> QED
    BY <2>1, <2>2
<1>5. r.probe_name \in Seq(Inert)
  BY DEF Printable
<1>6. r.probe_name \o <<r.probe_type, Digits(r.response_ms)>> \in Seq(Inert)
  BY <1>3, <1>5, ConcatProperties, Zenon
<1>7. Console(r) = (r.probe_name \o <<r.probe_type, Digits(r.response_ms)>>) \o rest
  BY Zenon DEF Console
<1> HIDE DEF rest
<1>8. (r.probe_name \o <<r.probe_type, Digits(r.response_ms)>>) \o rest \in Seq(Inert)
  BY <1>4, <1>6, ConcatProperties, Zenon
<1> QED
  BY <1>7, <1>8, Zenon

\* Neither the file nor a remote host gets a control character onto the terminal.
THEOREM TerminalsAreSafe == Spec => []ConsoleIsInert
<1>1. StartupInv => ConsoleIsInert
  <2> SUFFICES ASSUME StartupInv, stage = "trace", NEW i \in DOMAIN cfg.probes, NEW o \in Outcomes
               PROVE  ToSet(Console(Report(cfg.probes[i], o))) \cap Controls = {}
    BY DEF ConsoleIsInert
  <2> DEFINE p == cfg.probes[i]
  <2>1. Loads(loaded, env) /\ cfg = Configured(loaded, env) /\ TypedFile(loaded)
    BY DEF StartupInv, Accepted, FilesAreTyped
  <2>2. /\ p.type \in Types
        /\ "probes" \in DOMAIN loaded /\ i \in DOMAIN loaded.probes
        /\ p.name = EscapeControlChars(loaded.probes[i].name)
    BY <2>1, ProbeAccepted
  <2>3. loaded.probes[i].name \in Seq(Characters)
    <3>1. loaded.probes[i].name \in Seq(STRING)
      BY <2>1, <2>2 DEF TypedFile, TypedProbe, Loads
    <3>2. STRING \subseteq Characters
      BY DEF Characters
    <3> QED
      BY <3>1, <3>2, ShortStrings
  <2>4. p.name \in Seq(Inert)
    BY <2>2, <2>3, EscapedIsInert
  <2> HIDE DEF p
  <2>5. Printable(Report(p, o), p, o)
    BY <2>2, ReportPrintable
  <2>6. Console(Report(p, o)) \in Seq(Inert)
    BY <2>2, <2>4, <2>5, PrintedIsInert
  <2>7. ToSet(Console(Report(p, o))) \subseteq Inert
    <3>1. ASSUME NEW s \in Seq(Inert) PROVE ToSet(s) \subseteq Inert
      BY DEF ToSet
    <3> QED
      BY <2>6, <3>1
  <2> QED
    BY <2>7 DEF Inert, p
<1> QED
  BY <1>1, StartupInvariant, PTL
-----------------------------------------------------------------------------
(***************************************************************************)
(* What the results of probes become and how it is read. Strings first: they*)
(* are put together from characters, and what holds of all of them is shown*)
(* by the least counterexample.                                            *)
(***************************************************************************)

\* Flattened prefixes are determined by the sequences they are made of.
LEMMA FlattenUnique ==
    ASSUME NEW n \in Nat, NEW ss, NEW tt, \A i \in 1 .. n : ss[i] = tt[i],
           NEW f, Flatten(f, n, ss), n # 0
    PROVE  \A g : Flatten(g, n + 1, tt) => f[n] = g[n]
<1> TAKE g
<1> HAVE Flatten(g, n + 1, tt)
<1> DEFINE Bad == {k \in 1 .. n : f[k] # g[k]}
<1>1. ASSUME Bad # {} PROVE FALSE
  <2>1. PICK k \in Bad : \A j \in Bad : k <= j
    <3>1. Bad \subseteq Nat
      OBVIOUS
    <3> HIDE DEF Bad
    <3> QED
      BY <1>1, <3>1, LeastNatural
  <2>2. k \in 1 .. n /\ k \in 1 .. n + 1 /\ f[k] # g[k]
    BY <2>1
  <2>3. f[k] = (IF k = 1 THEN ss[k] ELSE f[k - 1] \o ss[k])
    BY <2>2 DEF Flatten
  <2>4. g[k] = (IF k = 1 THEN tt[k] ELSE g[k - 1] \o tt[k])
    BY <2>2 DEF Flatten
  <2>5. CASE k = 1
    BY <2>2, <2>3, <2>4, <2>5
  <2>6. CASE k # 1
    <3>1. k - 1 \in 1 .. n /\ k - 1 \notin Bad
      BY <2>1, <2>2, <2>6
    <3> QED
      BY <2>2, <2>3, <2>4, <2>6, <3>1
  <2> QED
    BY <2>5, <2>6
<1> QED
  BY <1>1

\* Nothing flattens to nothing, and one sequence to itself.
LEMMA FlattenNone == FlattenSeq(<<>>) = <<>>
  BY DEF FlattenSeq

\* A list of one text is that text.
LEMMA FlattenOne ==
    ASSUME NEW t
    PROVE  FlattenSeq(<<t>>) = t
<1> DEFINE tt == <<t>>
<1>1. Len(tt) = 1 /\ Len(tt) \in Nat \ {0} /\ tt[1] = t
  OBVIOUS
<1> HIDE DEF tt
<1>2. PICK f : Flatten(f, Len(tt), tt) /\ FlattenSeq(tt) = f[Len(tt)]
  BY <1>1, FlattenSeqIsLast
<1>3. f[1] = t
  BY <1>1, <1>2 DEF Flatten
<1> QED
  BY <1>1, <1>2, <1>3 DEF tt

\* One more sequence only continues the flattened ones.
LEMMA FlattenContinued ==
    ASSUME NEW n \in Nat, n # 0, NEW ss, NEW tt, Len(ss) = n, Len(tt) = n + 1,
           \A i \in 1 .. n : ss[i] = tt[i]
    PROVE  FlattenSeq(tt) = FlattenSeq(ss) \o tt[n + 1]
<1>1. PICK f : Flatten(f, n, ss) /\ FlattenSeq(ss) = f[n]
  BY FlattenSeqIsLast
<1>2. PICK g : Flatten(g, n + 1, tt) /\ FlattenSeq(tt) = g[n + 1]
  <2>1. n + 1 \in Nat \ {0}
    OBVIOUS
  <2> QED
    BY <2>1, FlattenSeqIsLast
<1>3. f[n] = g[n]
  BY <1>1, <1>2, FlattenUnique
<1>4. g[n + 1] = g[n] \o tt[n + 1]
  <2>1. n + 1 \in 1 .. n + 1 /\ n + 1 # 1 /\ (n + 1) - 1 = n
    OBVIOUS
  <2> QED
    BY <1>2, <2>1 DEF Flatten
<1> QED
  BY <1>1, <1>2, <1>3, <1>4

\* What is put behind a list of sequences comes last.
LEMMA FlattenAppend ==
    ASSUME NEW C, NEW ss \in Seq(Seq(C)), NEW t \in Seq(C)
    PROVE  FlattenSeq(Append(ss, t)) = FlattenSeq(ss) \o t
<1>1. CASE ss = <<>>
  <2>1. Append(ss, t) = <<t>>
    BY <1>1
  <2> QED
    BY <1>1, <2>1, FlattenNone, FlattenOne
<1>2. CASE ss # <<>>
  <2>1. PICK tt : tt = Append(ss, t)
    OBVIOUS
  <2>2. PICK n : n = Len(ss)
    OBVIOUS
  <2>3. /\ n \in Nat /\ n # 0 /\ Len(tt) = n + 1 /\ tt[n + 1] = t
        /\ \A i \in 1 .. n : ss[i] = tt[i]
    BY <1>2, <2>1, <2>2
  <2>4. FlattenSeq(tt) = FlattenSeq(ss) \o tt[n + 1]
    BY <2>2, <2>3, FlattenContinued
  <2> QED
    BY <2>1, <2>3, <2>4
<1> QED
  BY <1>1, <1>2

\* Induction on the length of a string, as the least counterexample: there is a longest good
\* prefix before it.
LEMMA BadPrefix ==
    ASSUME NEW C, NEW Bad, Bad \subseteq Seq(C), Bad # {}, <<>> \notin Bad
    PROVE  \E s \in Seq(C), x \in C : s \notin Bad /\ Append(s, x) \in Bad
<1> DEFINE Lengths == {k \in Nat : \E s \in Bad : Len(s) = k}
<1>1. Lengths \subseteq Nat /\ Lengths # {}
  BY DEF Lengths
<1>2. PICK k \in Lengths : \A j \in Lengths : k <= j
  <2> HIDE DEF Lengths
  <2> QED
    BY <1>1, LeastNatural
<1>3. PICK b \in Bad : Len(b) = k
  BY <1>2
<1>4. b \in Seq(C) /\ b # <<>>
  BY <1>3
<1>5. PICK s \in Seq(C), x \in C : b = Append(s, x)
  BY <1>4, SequenceEmptyOrAppend
<1>6. Len(b) = Len(s) + 1 /\ Len(s) \in Nat
  BY <1>5, AppendProperties
<1>7. s \notin Bad
  BY <1>2, <1>3, <1>6
<1> QED
  BY <1>3, <1>5, <1>7

Strings == Seq(Characters)

\* Strings are put together from characters. The solvers are to use the laws of Cat and One,
\* not what these are.
Cat(s, t) == s \o t
One(x) == <<x>>

\* What becomes of a single character.
Replaced(x, c, by) == IF x = c THEN by ELSE One(x)

\* The laws of strings.
LEMMA StringLaws ==
    /\ <<>> \in Strings
    /\ \A x \in Characters : One(x) \in Strings
    /\ \A s, t \in Strings : Cat(s, t) \in Strings
    /\ \A s \in Strings : Cat(s, <<>>) = s /\ Cat(<<>>, s) = s
    /\ \A s, t, u \in Strings : Cat(Cat(s, t), u) = Cat(s, Cat(t, u))
<1>1. \A s, t \in Strings : Cat(s, t) \in Strings
  BY ConcatProperties DEF Strings, Cat
<1>2. \A s \in Strings : Cat(s, <<>>) = s /\ Cat(<<>>, s) = s
  BY ConcatEmptySeq DEF Strings, Cat
<1>3. \A s, t, u \in Strings : Cat(Cat(s, t), u) = Cat(s, Cat(t, u))
  BY ConcatAssociative DEF Strings, Cat
<1>4. <<>> \in Strings /\ \A x \in Characters : One(x) \in Strings
  BY DEF Strings, One
<1> QED
  BY <1>1, <1>2, <1>3, <1>4

\* Induction on a string: the least counterexample has a prefix that is none.
LEMMA StringInduction ==
    ASSUME NEW Bad, Bad \subseteq Strings, <<>> \notin Bad,
           \A s \in Strings, x \in Characters : Cat(s, One(x)) \in Bad => s \in Bad
    PROVE  Bad = {}
<1>1. ASSUME Bad # {} PROVE FALSE
  <2>1. PICK s \in Strings, x \in Characters : s \notin Bad /\ Append(s, x) \in Bad
    BY <1>1, BadPrefix DEF Strings
  <2>2. Append(s, x) = Cat(s, One(x))
    BY <2>1, AppendIsConcat DEF Strings, Cat, One
  <2> QED
    BY <2>1, <2>2
<1> QED
  BY <1>1

\* A string of which each character x is written as g[x].
Spelled(s, g) == FlattenSeq([i \in DOMAIN s |-> g[s[i]]])

\* It is written character by character.
LEMMA SpelledAppend ==
    ASSUME NEW g \in [Characters -> Strings]
    PROVE  /\ Spelled(<<>>, g) = <<>>
           /\ \A s \in Strings : Spelled(s, g) \in Strings
           /\ \A s \in Strings, x \in Characters :
                 Spelled(Cat(s, One(x)), g) = Cat(Spelled(s, g), g[x])
<1> DEFINE Pieces(u) == [i \in DOMAIN u |-> g[u[i]]]
<1>1. ASSUME NEW u \in Strings
      PROVE  Pieces(u) \in Seq(Strings) /\ Len(Pieces(u)) = Len(u)
             /\ \A i \in 1 .. Len(u) : Pieces(u)[i] = g[u[i]]
  <2>1. \A i \in DOMAIN u : Pieces(u)[i] \in Strings
    BY DEF Strings
  <2>2. DOMAIN u = 1 .. Len(u) /\ Len(u) \in Nat
    BY DEF Strings
  <2>3. Pieces(u) \in [1 .. Len(u) -> Strings]
    BY <2>1, <2>2
  <2>4. \A i \in 1 .. Len(u) : Pieces(u)[i] = g[u[i]]
    BY <2>2
  <2> HIDE DEF Pieces
  <2> QED
    BY <2>2, <2>3, <2>4, IsASeq, LenProperties
<1>2. \A u : Spelled(u, g) = FlattenSeq(Pieces(u))
  BY DEF Spelled
<1>3. Spelled(<<>>, g) = <<>>
  <2>1. Pieces(<<>>) = <<>>
    OBVIOUS
  <2>2. Spelled(<<>>, g) = FlattenSeq(Pieces(<<>>))
    BY <1>2
  <2> HIDE DEF Pieces
  <2> QED
    BY <2>1, <2>2, FlattenNone
<1>4. ASSUME NEW s \in Strings PROVE Spelled(s, g) \in Strings
  <2> HIDE DEF Pieces
  <2> QED
    BY <1>1, <1>2, FlattenSeqType DEF Strings
<1>5. ASSUME NEW s \in Strings, NEW x \in Characters
      PROVE  Spelled(Cat(s, One(x)), g) = Cat(Spelled(s, g), g[x])
  <2>1. PICK v : v = Append(s, x)
    OBVIOUS
  <2>2. /\ v \in Strings /\ Len(v) = Len(s) + 1 /\ Len(s) \in Nat /\ v[Len(s) + 1] = x
        /\ \A i \in 1 .. Len(s) : v[i] = s[i]
    BY <2>1 DEF Strings
  <2>3. g[x] \in Strings
    OBVIOUS
  <2>4. /\ Pieces(s) \in Seq(Strings) /\ Len(Pieces(s)) = Len(s)
        /\ \A i \in 1 .. Len(s) : Pieces(s)[i] = g[s[i]]
    BY <1>1
  <2>5. /\ Pieces(v) \in Seq(Strings) /\ Len(Pieces(v)) = Len(s) + 1
        /\ \A i \in 1 .. Len(s) + 1 : Pieces(v)[i] = g[v[i]]
    BY <1>1, <2>2
  <2> HIDE DEF Pieces
  <2>6. PICK w : w = Append(Pieces(s), g[x])
    OBVIOUS
  <2>7. /\ w \in Seq(Strings) /\ Len(w) = Len(s) + 1
        /\ w[Len(s) + 1] = g[x]
        /\ \A i \in 1 .. Len(s) : w[i] = Pieces(s)[i]
    BY <2>2, <2>3, <2>4, <2>6, AppendProperties
  <2>8. \A i \in 1 .. Len(s) + 1 : w[i] = Pieces(v)[i]
    <3> TAKE i \in 1 .. Len(s) + 1
    <3>1. i \in 1 .. Len(s) \/ i = Len(s) + 1
      BY <2>2
    <3> QED
      BY <2>2, <2>4, <2>5, <2>7, <3>1
  <2>9. w = Pieces(v)
    BY <2>5, <2>7, <2>8, SeqEqual
  <2>10. FlattenSeq(Append(Pieces(s), g[x])) = FlattenSeq(Pieces(s)) \o g[x]
    BY <2>3, <2>4, FlattenAppend DEF Strings
  <2>11. v = Cat(s, One(x))
    BY <2>1, AppendIsConcat DEF Strings, Cat, One
  <2> QED
    BY <1>2, <2>6, <2>9, <2>10, <2>11 DEF Cat
<1> QED
  BY <1>3, <1>4, <1>5

\* str::replace goes character by character.
LEMMA ReplaceAppend ==
    ASSUME NEW c
    PROVE  \A s, by \in Strings, x \in Characters :
               ReplaceChar(Cat(s, One(x)), c, by) = Cat(ReplaceChar(s, c, by), Replaced(x, c, by))
<1> TAKE s, by \in Strings, x \in Characters
<1> DEFINE g == [y \in Characters |-> Replaced(y, c, by)]
<1>1. g \in [Characters -> Strings]
  BY StringLaws DEF Replaced
<1>2. ASSUME NEW u \in Strings PROVE ReplaceChar(u, c, by) = Spelled(u, g)
  <2>1. \A i \in DOMAIN u : (IF u[i] = c THEN by ELSE <<u[i]>>) = g[u[i]]
    BY DEF Strings, Replaced, One
  <2> HIDE DEF g
  <2>2. [i \in DOMAIN u |-> IF u[i] = c THEN by ELSE <<u[i]>>] = [i \in DOMAIN u |-> g[u[i]]]
    BY <2>1
  <2> QED
    BY <2>2 DEF ReplaceChar, Spelled
<1>3. g[x] = Replaced(x, c, by)
  OBVIOUS
<1>4. Cat(s, One(x)) \in Strings
  BY StringLaws
<1> HIDE DEF g
<1>5. Spelled(Cat(s, One(x)), g) = Cat(Spelled(s, g), g[x])
  BY <1>1, SpelledAppend
<1> QED
  BY <1>2, <1>3, <1>4, <1>5

\* Nothing comes of nothing.
LEMMA ReplaceNone == \A c, by : ReplaceChar(<<>>, c, by) = <<>>
<1> TAKE c, by
<1>1. [i \in DOMAIN <<>> |-> IF <<>>[i] = c THEN by ELSE << <<>>[i] >>] = <<>>
  OBVIOUS
<1> QED
  BY <1>1, FlattenNone DEF ReplaceChar

\* A string remains one.
LEMMA ReplaceStays ==
    ASSUME NEW c
    PROVE  /\ \A s, by \in Strings : ReplaceChar(s, c, by) \in Strings
           /\ \A x \in Characters, by \in Strings : Replaced(x, c, by) \in Strings
<1>1. ASSUME NEW s \in Strings, NEW by \in Strings PROVE ReplaceChar(s, c, by) \in Strings
  BY ReplaceCharType DEF Strings
<1>2. ASSUME NEW x \in Characters, NEW by \in Strings PROVE Replaced(x, c, by) \in Strings
  BY StringLaws DEF Replaced
<1> QED
  BY <1>1, <1>2

\* A part of a string is treated as it would be alone.
LEMMA ReplaceConcat ==
    ASSUME NEW c
    PROVE  \A s, t, by \in Strings :
               ReplaceChar(Cat(s, t), c, by) = Cat(ReplaceChar(s, c, by), ReplaceChar(t, c, by))
<1> TAKE s, t, by \in Strings
<1> DEFINE R(u) == ReplaceChar(u, c, by)
           Bad == {u \in Strings : R(Cat(s, u)) # Cat(R(s), R(u))}
<1>1. \A u \in Strings : R(u) \in Strings
  BY ReplaceStays
<1>2. /\ R(<<>>) = <<>>
      /\ \A u \in Strings, x \in Characters : R(Cat(u, One(x))) = Cat(R(u), Replaced(x, c, by))
      /\ \A x \in Characters : Replaced(x, c, by) \in Strings
  BY ReplaceNone, ReplaceAppend, ReplaceStays
<1> HIDE DEF R
<1>3. <<>> \notin Bad
  BY <1>1, <1>2, StringLaws
<1>4. ASSUME NEW u \in Strings, NEW x \in Characters, Cat(u, One(x)) \in Bad
      PROVE  u \in Bad
  BY <1>1, <1>2, <1>4, StringLaws
<1>5. Bad = {}
  <2>1. Bad \subseteq Strings
    OBVIOUS
  <2> HIDE DEF Bad
  <2> QED
    BY <1>3, <1>4, <2>1, StringInduction
<1> QED
  BY <1>5 DEF R

\* Nothing but single characters.
LEMMA ReplaceShort ==
    ASSUME NEW c
    PROVE  \A x \in Characters, by \in Strings : ReplaceChar(One(x), c, by) = Replaced(x, c, by)
  BY ReplaceNone, ReplaceAppend, ReplaceStays, StringLaws

\* What is not there is not replaced.
LEMMA ReplaceAbsent ==
    ASSUME NEW c, NEW by \in Strings, NEW s \in Strings, \A i \in DOMAIN s : s[i] # c
    PROVE  ReplaceChar(s, c, by) = s
<1> DEFINE Free(u) == \A i \in DOMAIN u : u[i] # c
           R(u) == ReplaceChar(u, c, by)
           Bad == {u \in Strings : Free(u) /\ R(u) # u}
<1>1. /\ R(<<>>) = <<>>
      /\ \A u \in Strings, x \in Characters : R(Cat(u, One(x))) = Cat(R(u), Replaced(x, c, by))
  BY ReplaceNone, ReplaceAppend
<1>2. ASSUME NEW u \in Strings, NEW x \in Characters, Free(Cat(u, One(x)))
      PROVE  Free(u) /\ x # c
  <2>1. PICK v : v = Append(u, x)
    OBVIOUS
  <2>2. /\ DOMAIN u \subseteq DOMAIN v /\ \A i \in DOMAIN u : v[i] = u[i]
        /\ Len(v) \in DOMAIN v /\ v[Len(v)] = x
    BY <2>1 DEF Strings
  <2>3. v = Cat(u, One(x))
    BY <2>1, AppendIsConcat DEF Strings, Cat, One
  <2> QED
    BY <1>2, <2>2, <2>3
<1> HIDE DEF Free, R
<1>3. <<>> \notin Bad
  BY <1>1
<1>4. ASSUME NEW u \in Strings, NEW x \in Characters, Cat(u, One(x)) \in Bad
      PROVE  u \in Bad
  BY <1>1, <1>2, <1>4 DEF Replaced
<1>5. Bad = {}
  <2>1. Bad \subseteq Strings
    OBVIOUS
  <2> HIDE DEF Bad
  <2> QED
    BY <1>3, <1>4, <2>1, StringInduction
<1> QED
  BY <1>5 DEF Free, R
-----------------------------------------------------------------------------
(***************************************************************************)
(* Reading, character by character: a string is read as what it was if each*)
(* of its characters is.                                                   *)
(***************************************************************************)

\* f[i] is how far a reader that starts in r has come after the first i characters of t.
Reading(f, n, format, r, t) ==
    f = [i \in 0 .. n |-> IF i = 0 THEN r ELSE ReadChar(format, f[i - 1], t[i])]

\* One more character can be read.
LEMMA ReadingExtends ==
    ASSUME NEW format, NEW r, NEW t, NEW n \in Nat, \E f : Reading(f, n, format, r, t)
    PROVE  \E g : Reading(g, n + 1, format, r, t)
<1>1. PICK f : Reading(f, n, format, r, t)
  OBVIOUS
<1> DEFINE Body(h, i) == IF i = 0 THEN r ELSE ReadChar(format, h[i - 1], t[i])
           g == [i \in 0 .. n + 1 |-> IF i \in 0 .. n THEN f[i] ELSE Body(f, i)]
<1>2. \A i \in 0 .. n + 1 : i # 0 => g[i - 1] = f[i - 1]
  OBVIOUS
<1>3. \A i \in 0 .. n : f[i] = Body(f, i)
  BY <1>1 DEF Reading
<1>4. \A i \in 0 .. n + 1 : g[i] = Body(g, i)
  <2> TAKE i \in 0 .. n + 1
  <2>1. g[i] = Body(f, i)
    <3> HIDE DEF Body
    <3> QED
      BY <1>3
  <2>2. Body(f, i) = Body(g, i)
    <3> HIDE DEF g
    <3> QED
      BY <1>2
  <2> QED
    BY <2>1, <2>2
<1>5. g = [i \in 0 .. n + 1 |-> g[i]]
  OBVIOUS
<1>6. [i \in 0 .. n + 1 |-> g[i]] = [i \in 0 .. n + 1 |-> Body(g, i)]
  <2> HIDE DEF g, Body
  <2> QED
    BY <1>4
<1>7. Reading(g, n + 1, format, r, t)
  <2> HIDE DEF g
  <2> QED
    BY <1>5, <1>6 DEF Reading
<1> QED
  BY <1>7

\* So any number of them can.
LEMMA ReadingExists ==
    ASSUME NEW format, NEW r, NEW t, NEW n \in Nat
    PROVE  \E f : Reading(f, n, format, r, t)
<1> DEFINE Bad == {k \in Nat : ~\E f : Reading(f, k, format, r, t)}
<1>1. ASSUME Bad # {} PROVE FALSE
  <2>1. PICK m \in Bad : \A k \in Bad : m <= k
    <3>1. Bad \subseteq Nat
      OBVIOUS
    <3> HIDE DEF Bad
    <3> QED
      BY <1>1, <3>1, LeastNatural
  <2>2. m # 0
    <3> DEFINE none == [i \in 0 .. 0 |-> r]
    <3>1. Reading(none, 0, format, r, t)
      BY DEF Reading
    <3> QED
      BY <3>1
  <2>3. m - 1 \in Nat /\ m - 1 \notin Bad
    BY <2>1, <2>2
  <2>4. \E f : Reading(f, m - 1, format, r, t)
    BY <2>3
  <2>5. \E f : Reading(f, (m - 1) + 1, format, r, t)
    BY <2>3, <2>4, ReadingExtends
  <2> QED
    BY <2>1, <2>3, <2>5
<1> QED
  BY <1>1

\* Where a reader ends is where it is after the last character.
LEMMA ReadFromIsLast ==
    ASSUME NEW format, NEW r, NEW t, Len(t) \in Nat
    PROVE  \E f : Reading(f, Len(t), format, r, t) /\ ReadFrom(format, r, t) = f[Len(t)]
<1> DEFINE P(f) == f = [i \in 0 .. Len(t) |->
                           IF i = 0 THEN r ELSE ReadChar(format, f[i - 1], t[i])]
<1>1. P(CHOOSE f : P(f))
  <2>1. \E f : P(f)
    <3>1. \E f : Reading(f, Len(t), format, r, t)
      BY ReadingExists
    <3> QED
      BY <3>1, Zenon DEF Reading
  <2> HIDE DEF P
  <2> QED
    BY <2>1
<1>2. ReadFrom(format, r, t) = (CHOOSE f : P(f))[Len(t)]
  BY DEF ReadFrom
<1> QED
  BY <1>1, <1>2 DEF Reading

\* How far it has come depends on what it has read only.
LEMMA ReadingUnique ==
    ASSUME NEW format, NEW r, NEW n \in Nat, NEW t, NEW v, \A i \in 1 .. n : t[i] = v[i],
           NEW f, Reading(f, n, format, r, t)
    PROVE  \A g : Reading(g, n + 1, format, r, v) => f[n] = g[n]
<1> TAKE g
<1> HAVE Reading(g, n + 1, format, r, v)
<1> DEFINE Bad == {k \in 0 .. n : f[k] # g[k]}
<1>1. ASSUME Bad # {} PROVE FALSE
  <2>1. PICK k \in Bad : \A j \in Bad : k <= j
    <3>1. Bad \subseteq Nat
      OBVIOUS
    <3> HIDE DEF Bad
    <3> QED
      BY <1>1, <3>1, LeastNatural
  <2>2. k \in 0 .. n /\ k \in 0 .. n + 1 /\ f[k] # g[k]
    BY <2>1
  <2>3. f[k] = (IF k = 0 THEN r ELSE ReadChar(format, f[k - 1], t[k]))
    BY <2>2 DEF Reading
  <2>4. g[k] = (IF k = 0 THEN r ELSE ReadChar(format, g[k - 1], v[k]))
    BY <2>2 DEF Reading
  <2>5. CASE k = 0
    BY <2>2, <2>3, <2>4, <2>5
  <2>6. CASE k # 0
    <3>1. k - 1 \in 0 .. n /\ k - 1 \notin Bad /\ k \in 1 .. n
      BY <2>1, <2>2, <2>6
    <3> QED
      BY <2>2, <2>3, <2>4, <2>6, <3>1
  <2> QED
    BY <2>5, <2>6
<1> QED
  BY <1>1

\* Nothing is read from nothing.
LEMMA ReadNone == \A format, r : ReadFrom(format, r, <<>>) = r
<1> TAKE format, r
<1>1. PICK t : t = <<>>
  OBVIOUS
<1>2. Len(t) = 0
  BY <1>1
<1>3. PICK f : Reading(f, 0, format, r, t) /\ ReadFrom(format, r, t) = f[0]
  BY <1>2, ReadFromIsLast
<1>4. f[0] = r
  BY <1>3 DEF Reading
<1> QED
  BY <1>1, <1>3, <1>4

\* The last character is read after all others.
LEMMA ReadContinued ==
    ASSUME NEW format, NEW r, NEW n \in Nat, NEW t, NEW v, Len(t) = n, Len(v) = n + 1,
           \A i \in 1 .. n : t[i] = v[i]
    PROVE  ReadFrom(format, r, v) = ReadChar(format, ReadFrom(format, r, t), v[n + 1])
<1>1. PICK f : Reading(f, n, format, r, t) /\ ReadFrom(format, r, t) = f[n]
  BY ReadFromIsLast
<1>2. PICK g : Reading(g, n + 1, format, r, v) /\ ReadFrom(format, r, v) = g[n + 1]
  <2>1. n + 1 \in Nat
    OBVIOUS
  <2> QED
    BY <2>1, ReadFromIsLast
<1>3. f[n] = g[n]
  BY <1>1, <1>2, ReadingUnique
<1>4. g[n + 1] = ReadChar(format, g[n], v[n + 1])
  <2>1. n + 1 \in 0 .. n + 1 /\ n + 1 # 0 /\ (n + 1) - 1 = n
    OBVIOUS
  <2> QED
    BY <1>2, <2>1 DEF Reading
<1> QED
  BY <1>1, <1>2, <1>3, <1>4

\* Reading one character more is reading that character where the rest has led.
LEMMA ReadAppend ==
    ASSUME NEW format, NEW r, NEW s \in Strings, NEW x \in Characters
    PROVE  ReadFrom(format, r, Cat(s, One(x))) = ReadChar(format, ReadFrom(format, r, s), x)
<1>1. PICK v : v = Append(s, x)
  OBVIOUS
<1>2. PICK n : n = Len(s)
  OBVIOUS
<1>3. n \in Nat /\ Len(v) = n + 1 /\ v[n + 1] = x /\ \A i \in 1 .. n : s[i] = v[i]
  BY <1>1, <1>2 DEF Strings
<1>4. ReadFrom(format, r, v) = ReadChar(format, ReadFrom(format, r, s), v[n + 1])
  BY <1>2, <1>3, ReadContinued
<1>5. v = Cat(s, One(x))
  BY <1>1, AppendIsConcat DEF Strings, Cat, One
<1> QED
  BY <1>3, <1>4, <1>5

\* What is read is read part by part.
LEMMA ReadConcat ==
    ASSUME NEW format, NEW r
    PROVE  /\ \A s, t \in Strings :
                 ReadFrom(format, r, Cat(s, t)) = ReadFrom(format, ReadFrom(format, r, s), t)
           /\ \A x \in Characters : ReadFrom(format, r, One(x)) = ReadChar(format, r, x)
<1>1. ASSUME NEW s \in Strings, NEW t \in Strings
      PROVE  ReadFrom(format, r, Cat(s, t)) = ReadFrom(format, ReadFrom(format, r, s), t)
  <2> DEFINE Bad == {u \in Strings : ReadFrom(format, r, Cat(s, u))
                                     # ReadFrom(format, ReadFrom(format, r, s), u)}
  <2>1. <<>> \notin Bad
    BY ReadNone, StringLaws
  <2>2. ASSUME NEW u \in Strings, NEW x \in Characters, Cat(u, One(x)) \in Bad
        PROVE  u \in Bad
    <3>1. ReadFrom(format, r, Cat(Cat(s, u), One(x)))
          = ReadChar(format, ReadFrom(format, r, Cat(s, u)), x)
      BY ReadAppend, StringLaws
    <3>2. ReadFrom(format, ReadFrom(format, r, s), Cat(u, One(x)))
          = ReadChar(format, ReadFrom(format, ReadFrom(format, r, s), u), x)
      BY ReadAppend
    <3> QED
      BY <2>2, <3>1, <3>2, StringLaws
  <2>3. Bad = {}
    <3>1. Bad \subseteq Strings
      OBVIOUS
    <3> HIDE DEF Bad
    <3> QED
      BY <2>1, <2>2, <3>1, StringInduction
  <2> QED
    BY <2>3
<1>2. ASSUME NEW x \in Characters
      PROVE  ReadFrom(format, r, One(x)) = ReadChar(format, r, x)
  <2>1. PICK e \in Strings : e = <<>>
    BY StringLaws
  <2>2. ReadFrom(format, r, Cat(e, One(x))) = ReadChar(format, ReadFrom(format, r, e), x)
    BY <2>1, ReadAppend
  <2>3. Cat(e, One(x)) = One(x) /\ ReadFrom(format, r, e) = r
    BY <2>1, ReadNone, StringLaws
  <2> QED
    BY <2>2, <2>3
<1> QED
  BY <1>1, <1>2

\* A reader between two characters that is not behind an escape.
At(ws, w, place) == Reader(ws, w, place, FALSE)

\* A character of a word, and one that ends a word.
IsPlain(format, place, x) ==
    /\ x # format.escape
    /\ x = Quote => place = "no strings"
    /\ x \in format.separators => place = "inside"

Parts(format, place, x) ==
    x \in format.separators /\ x # format.escape /\ x # Quote /\ place # "inside"

\* The blank comes before the fields, where strings are allowed.
After(place, x) == IF x = " " THEN "outside" ELSE place

\* What a reader makes of one character: of a plain one, of one that ends a word, of a quote,
\* and of an escape with a character that may be escaped.
LEMMA ReadPlainOne ==
    ASSUME NEW format, NEW ws, NEW w \in Strings, NEW place, NEW x \in Characters,
           IsPlain(format, place, x)
    PROVE  ReadChar(format, At(ws, w, place), x) = At(ws, Cat(w, One(x)), place)
<1>1. Append(w, x) = Cat(w, One(x))
  BY AppendIsConcat DEF Strings, Cat, One
<1> QED
  BY <1>1 DEF IsPlain, ReadChar, ReadPlain, At, Reader

\* A separator ends a word.
LEMMA ReadSeparator ==
    ASSUME NEW format, NEW ws, NEW w, NEW place, NEW x, Parts(format, place, x)
    PROVE  ReadChar(format, At(ws, w, place), x) = At(Append(ws, w), <<>>, After(place, x))
<1> DEFINE r == At(ws, w, place)
<1>1. r.words = ws /\ r.word = w /\ r.place = place /\ r.behind = FALSE
  BY DEF At, Reader
<1> HIDE DEF r
<1>2. ReadChar(format, r, x) = ReadPlain(format, r, x)
  BY <1>1 DEF ReadChar, Parts
<1>3. ReadPlain(format, r, x) = Reader(Append(ws, w), <<>>, After(place, x), FALSE)
  BY <1>1, Zenon DEF ReadPlain, Parts, After
<1> QED
  BY <1>2, <1>3 DEF r, At

\* A quote mark opens a string, and the next one closes it.
LEMMA ReadQuote ==
    ASSUME NEW format, NEW ws, NEW w, Quote # format.escape
    PROVE  /\ ReadChar(format, At(ws, w, "outside"), Quote) = At(ws, w, "inside")
           /\ ReadChar(format, At(ws, w, "inside"), Quote) = At(ws, w, "outside")
  BY DEF ReadChar, ReadPlain, At, Reader

\* A character behind the escape is taken for itself.
LEMMA ReadEscaped ==
    ASSUME NEW format, NEW ws, NEW w \in Strings, NEW place, NEW x \in Characters,
           x \in format.special, format.escape \in Characters
    PROVE  ReadFrom(format, At(ws, w, place), Cat(One(format.escape), One(x)))
           = At(ws, Cat(w, One(x)), place)
<1>1. ReadChar(format, At(ws, w, place), format.escape) = Reader(ws, w, place, TRUE)
  BY DEF ReadChar, At, Reader
<1>2. ReadChar(format, Reader(ws, w, place, TRUE), x) = At(ws, Cat(w, One(x)), place)
  BY DEF ReadChar, At, Reader, Cat, One
<1>3. One(format.escape) \in Strings /\ One(x) \in Strings
  BY StringLaws
<1>4. PICK r : r = At(ws, w, place)
  OBVIOUS
<1>5. ReadFrom(format, r, Cat(One(format.escape), One(x)))
      = ReadFrom(format, ReadFrom(format, r, One(format.escape)), One(x))
  BY <1>3, ReadConcat
<1>6. ReadFrom(format, r, One(format.escape)) = ReadChar(format, r, format.escape)
  BY ReadConcat
<1>7. ReadFrom(format, Reader(ws, w, place, TRUE), One(x))
      = ReadChar(format, Reader(ws, w, place, TRUE), x)
  BY ReadConcat
<1> QED
  BY <1>1, <1>2, <1>4, <1>5, <1>6, <1>7

\* Text that does not end a record.
Text(format) == Strings \cap Seq(Characters \ format.ends)

\* Nothing is such text, and so is one character of it and two of its kind together.
LEMMA TextLaws ==
    ASSUME NEW format
    PROVE  /\ <<>> \in Text(format)
           /\ \A x \in Characters \ format.ends : One(x) \in Text(format)
           /\ \A s, t \in Text(format) : Cat(s, t) \in Text(format)
<1>1. ASSUME NEW s \in Text(format), NEW t \in Text(format)
      PROVE  Cat(s, t) \in Text(format)
  <2>1. s \o t \in Seq(Characters) /\ s \o t \in Seq(Characters \ format.ends)
    BY ConcatProperties DEF Text, Strings
  <2> QED
    BY <2>1 DEF Text, Strings, Cat
<1>2. <<>> \in Text(format)
  BY DEF Text, Strings
<1>3. ASSUME NEW x \in Characters \ format.ends PROVE One(x) \in Text(format)
  BY DEF Text, Strings, One
<1> QED
  BY <1>1, <1>2, <1>3

\* In this place, t is read as the string s.
IsRead(format, place, t, s) ==
    /\ t \in Text(format) /\ s \in Strings
    /\ \A ws : \A w \in Strings : ReadFrom(format, At(ws, w, place), t) = At(ws, Cat(w, s), place)

\* A plain character is read as itself, and so is an escaped one that may be escaped.
LEMMA CharacterIsRead ==
    ASSUME NEW format, NEW place, NEW x \in Characters \ format.ends
    PROVE  /\ IsPlain(format, place, x) => IsRead(format, place, One(x), One(x))
           /\ x \in format.special /\ format.escape \in Characters \ format.ends =>
                 IsRead(format, place, Cat(One(format.escape), One(x)), One(x))
<1>1. ASSUME IsPlain(format, place, x)
      PROVE  IsRead(format, place, One(x), One(x))
  <2>1. ASSUME NEW ws, NEW w \in Strings
        PROVE  ReadFrom(format, At(ws, w, place), One(x)) = At(ws, Cat(w, One(x)), place)
    <3>1. ReadChar(format, At(ws, w, place), x) = At(ws, Cat(w, One(x)), place)
      BY <1>1, ReadPlainOne
    <3>2. ReadFrom(format, At(ws, w, place), One(x)) = ReadChar(format, At(ws, w, place), x)
      BY ReadConcat
    <3> QED
      BY <3>1, <3>2
  <2> QED
    BY <2>1, TextLaws, StringLaws DEF IsRead
<1>2. ASSUME x \in format.special, format.escape \in Characters \ format.ends
      PROVE  IsRead(format, place, Cat(One(format.escape), One(x)), One(x))
  <2>1. Cat(One(format.escape), One(x)) \in Text(format) /\ One(x) \in Strings
    BY <1>2, TextLaws, StringLaws
  <2>2. \A ws : \A w \in Strings :
           ReadFrom(format, At(ws, w, place), Cat(One(format.escape), One(x)))
           = At(ws, Cat(w, One(x)), place)
    BY <1>2, ReadEscaped
  <2> QED
    BY <2>1, <2>2 DEF IsRead
<1> QED
  BY <1>1, <1>2

\* What is read part by part is read.
LEMMA PartsAreRead ==
    ASSUME NEW format, NEW place, NEW t, NEW s, NEW u, NEW v,
           IsRead(format, place, t, s), IsRead(format, place, u, v)
    PROVE  IsRead(format, place, Cat(t, u), Cat(s, v))
<1>1. /\ t \in Text(format) /\ u \in Text(format) /\ t \in Strings /\ u \in Strings
      /\ s \in Strings /\ v \in Strings
  BY DEF IsRead, Text
<1>2. ASSUME NEW ws, NEW w \in Strings
      PROVE  ReadFrom(format, At(ws, w, place), Cat(t, u)) = At(ws, Cat(w, Cat(s, v)), place)
  <2>1. ReadFrom(format, At(ws, w, place), t) = At(ws, Cat(w, s), place)
    BY DEF IsRead
  <2>2. ReadFrom(format, At(ws, Cat(w, s), place), u) = At(ws, Cat(Cat(w, s), v), place)
    BY <1>1, StringLaws DEF IsRead
  <2>3. Cat(Cat(w, s), v) = Cat(w, Cat(s, v))
    BY <1>1, StringLaws
  <2>4. ReadFrom(format, At(ws, w, place), Cat(t, u))
        = ReadFrom(format, ReadFrom(format, At(ws, w, place), t), u)
    BY <1>1, ReadConcat
  <2> QED
    BY <2>1, <2>2, <2>3, <2>4
<1>3. Cat(t, u) \in Text(format) /\ Cat(s, v) \in Strings
  BY <1>1, TextLaws, StringLaws
<1> QED
  BY <1>2, <1>3 DEF IsRead

\* Of nothing, nothing is read.
LEMMA NothingIsRead == \A format, place : IsRead(format, place, <<>>, <<>>)
  BY ReadNone, StringLaws, TextLaws DEF IsRead

\* A string over an alphabet ends with one of its characters.
LEMMA LastCharacter ==
    ASSUME NEW A, NEW u \in Strings, NEW x \in Characters, Cat(u, One(x)) \in Seq(A)
    PROVE  u \in Seq(A) /\ x \in A
<1>1. PICK v : v = Append(u, x)
  OBVIOUS
<1>2. v = Cat(u, One(x))
  BY <1>1, AppendIsConcat DEF Strings, Cat, One
<1>3. /\ Len(u) \in Nat /\ DOMAIN u = 1 .. Len(u) /\ Len(v) = Len(u) + 1
      /\ v[Len(u) + 1] = x /\ \A i \in 1 .. Len(u) : v[i] = u[i]
      /\ u = [i \in 1 .. Len(u) |-> u[i]]
  BY <1>1 DEF Strings
<1>4. \A i \in 1 .. Len(u) + 1 : v[i] \in A
  BY <1>2, <1>3
<1>5. x \in A /\ u \in [1 .. Len(u) -> A]
  BY <1>3, <1>4
<1> QED
  BY <1>3, <1>5, IsASeq

\* If an escape treats each character so that it is read as itself, strings are read as they are.
LEMMA EscapeIsRead ==
    ASSUME NEW format, NEW place, NEW A,
           NEW h, h[<<>>] = <<>>, NEW h1,
           \A u \in Strings, x \in Characters : h[Cat(u, One(x))] = Cat(h[u], h1[x]),
           \A x \in A : IsRead(format, place, h1[x], One(x))
    PROVE  \A s \in Strings : s \in Seq(A) => IsRead(format, place, h[s], s)
<1> DEFINE Bad == {s \in Strings : s \in Seq(A) /\ ~IsRead(format, place, h[s], s)}
<1>1. <<>> \notin Bad
  BY NothingIsRead
<1>2. ASSUME NEW u \in Strings, NEW x \in Characters, Cat(u, One(x)) \in Bad, u \notin Bad
      PROVE  FALSE
  <2>1. u \in Seq(A) /\ x \in A
    BY <1>2, LastCharacter
  <2>2. IsRead(format, place, h[u], u) /\ IsRead(format, place, h1[x], One(x))
    BY <1>2, <2>1
  <2>3. IsRead(format, place, Cat(h[u], h1[x]), Cat(u, One(x)))
    BY <2>2, PartsAreRead
  <2> QED
    BY <1>2, <2>3
<1>3. Bad = {}
  <2>1. Bad \subseteq Strings
    OBVIOUS
  <2>2. \A u \in Strings, x \in Characters : Cat(u, One(x)) \in Bad => u \in Bad
    BY <1>2
  <2> HIDE DEF Bad
  <2> QED
    BY <1>1, <2>1, <2>2, StringInduction
<1> QED
  BY <1>3
-----------------------------------------------------------------------------
(***************************************************************************)
(* The escapes of line protocol and of the exposition make each character of*)
(* a string one that is read as itself.                                    *)
(***************************************************************************)

\* A character behind a backslash.
Backslashed(x) == Cat(One(Backslash), One(x))

Marked == {Backslash, Quote, ",", "=", " "}

\* Characters that are escaped or stand in front of one.
LEMMA MarksAreCharacters ==
    /\ Marked \subseteq Characters
    /\ \A x \in Characters : Backslashed(x) \in Strings
<1>1. Marked \subseteq Characters
  BY DEF Marked, Characters, Words
<1>2. Backslash \in Characters
  BY <1>1 DEF Marked
<1> QED
  BY <1>1, <1>2, StringLaws DEF Backslashed

\* Protect goes part by part, and leaves alone what it is not about.
LEMMA ProtectParts ==
    ASSUME NEW c \in Marked
    PROVE  /\ Protect(<<>>, c) = <<>>
           /\ \A s \in Strings : Protect(s, c) \in Strings
           /\ \A s, t \in Strings : Protect(Cat(s, t), c) = Cat(Protect(s, c), Protect(t, c))
<1>1. PICK by : by = <<Backslash, c>>
  OBVIOUS
<1>2. by \in Strings
  <2>1. by = Backslashed(c) /\ c \in Characters
    BY <1>1, MarksAreCharacters DEF Backslashed, Cat, One
  <2> QED
    BY <2>1, MarksAreCharacters
<1>3. \A s : Protect(s, c) = ReplaceChar(s, c, by)
  BY <1>1 DEF Protect
<1> QED
  BY <1>2, <1>3, ReplaceNone, ReplaceStays, ReplaceConcat

\* Protect puts a backslash before the one character that it is about.
LEMMA ProtectOne ==
    ASSUME NEW c \in Marked, NEW x \in Characters
    PROVE  /\ x = c => Protect(One(x), c) = Backslashed(x)
           /\ x # c => Protect(One(x), c) = One(x)
<1>1. PICK by : by = <<Backslash, c>>
  OBVIOUS
<1>2. by = Backslashed(c)
  BY <1>1 DEF Backslashed, Cat, One
<1>3. by \in Strings
  BY <1>2, MarksAreCharacters
<1>4. Protect(One(x), c) = Replaced(x, c, by)
  BY <1>1, <1>3, ReplaceShort DEF Protect
<1> QED
  BY <1>2, <1>4 DEF Replaced

\* A character that is escaped already is not escaped again by the next Protect.
LEMMA ProtectEscaped ==
    ASSUME NEW c \in Marked, NEW x \in Characters, x # c, c # Backslash
    PROVE  Protect(Backslashed(x), c) = Backslashed(x)
<1>1. Backslash \in Characters
  BY MarksAreCharacters DEF Marked
<1>2. Protect(One(Backslash), c) = One(Backslash) /\ Protect(One(x), c) = One(x)
  BY <1>1, ProtectOne
<1>3. Protect(Cat(One(Backslash), One(x)), c)
      = Cat(Protect(One(Backslash), c), Protect(One(x), c))
  BY <1>1, StringLaws, ProtectParts
<1> QED
  BY <1>2, <1>3 DEF Backslashed

\* The escape of tags, on parts and on single characters.
LEMMA EscapeTagParts ==
    /\ EscapeTag(<<>>) = <<>>
    /\ \A s \in Strings : EscapeTag(s) \in Strings
    /\ \A s, t \in Strings : EscapeTag(Cat(s, t)) = Cat(EscapeTag(s), EscapeTag(t))
<1>1. /\ Backslash \in Marked /\ "," \in Marked /\ "=" \in Marked /\ " " \in Marked
  BY DEF Marked
<1>2. EscapeTag(<<>>) = <<>>
  BY <1>1, ProtectParts DEF EscapeTag
<1>3. ASSUME NEW s \in Strings PROVE EscapeTag(s) \in Strings
  BY <1>1, ProtectParts DEF EscapeTag
<1>4. ASSUME NEW s \in Strings, NEW t \in Strings
      PROVE  EscapeTag(Cat(s, t)) = Cat(EscapeTag(s), EscapeTag(t))
  <2>1. PICK s1, t1 : s1 = Protect(s, Backslash) /\ t1 = Protect(t, Backslash)
    OBVIOUS
  <2>2. s1 \in Strings /\ t1 \in Strings /\ Protect(Cat(s, t), Backslash) = Cat(s1, t1)
    BY <1>1, <2>1, ProtectParts
  <2>3. PICK s2, t2 : s2 = Protect(s1, ",") /\ t2 = Protect(t1, ",")
    OBVIOUS
  <2>4. s2 \in Strings /\ t2 \in Strings /\ Protect(Cat(s1, t1), ",") = Cat(s2, t2)
    BY <1>1, <2>2, <2>3, ProtectParts
  <2>5. PICK s3, t3 : s3 = Protect(s2, "=") /\ t3 = Protect(t2, "=")
    OBVIOUS
  <2>6. s3 \in Strings /\ t3 \in Strings /\ Protect(Cat(s2, t2), "=") = Cat(s3, t3)
    BY <1>1, <2>4, <2>5, ProtectParts
  <2>7. Protect(Cat(s3, t3), " ") = Cat(Protect(s3, " "), Protect(t3, " "))
    BY <1>1, <2>6, ProtectParts
  <2> QED
    BY <2>1, <2>2, <2>3, <2>4, <2>5, <2>6, <2>7 DEF EscapeTag
<1> QED
  BY <1>2, <1>3, <1>4

\* EscapeTag, character by character (writer.rs, escape_tag).
LEMMA EscapeTagOne ==
    ASSUME NEW x \in Characters
    PROVE  /\ x \in Marked \ {Quote} => EscapeTag(One(x)) = Backslashed(x)
           /\ x \notin Marked \ {Quote} => EscapeTag(One(x)) = One(x)
<1>1. /\ Backslash \in Marked /\ "," \in Marked /\ "=" \in Marked /\ " " \in Marked
  BY DEF Marked
<1>2. /\ Backslash \notin {",", "=", " "} /\ Quote \notin {Backslash, ",", "=", " "}
      /\ "," # "=" /\ "," # " " /\ "=" # " "
  BY DEF Backslash, Quote
<1>3. CASE x = Backslash
  <2>1. Protect(One(x), Backslash) = Backslashed(x)
    BY <1>1, <1>3, ProtectOne
  <2>2. \A c \in {",", "=", " "} : Protect(Backslashed(x), c) = Backslashed(x)
    BY <1>1, <1>2, <1>3, ProtectEscaped
  <2>3. EscapeTag(One(x)) = Backslashed(x)
    BY <2>1, <2>2 DEF EscapeTag
  <2> QED
    BY <1>1, <1>2, <1>3, <2>3
<1>4. CASE x = ","
  <2>1. Protect(One(x), Backslash) = One(x) /\ Protect(One(x), ",") = Backslashed(x)
    BY <1>1, <1>2, <1>4, ProtectOne
  <2>2. \A c \in {"=", " "} : Protect(Backslashed(x), c) = Backslashed(x)
    BY <1>1, <1>2, <1>4, ProtectEscaped
  <2>3. EscapeTag(One(x)) = Backslashed(x)
    BY <2>1, <2>2 DEF EscapeTag
  <2> QED
    BY <1>1, <1>2, <1>4, <2>3
<1>5. CASE x = "="
  <2>1. /\ Protect(One(x), Backslash) = One(x) /\ Protect(One(x), ",") = One(x)
        /\ Protect(One(x), "=") = Backslashed(x)
    BY <1>1, <1>2, <1>5, ProtectOne
  <2>2. Protect(Backslashed(x), " ") = Backslashed(x)
    BY <1>1, <1>2, <1>5, ProtectEscaped
  <2>3. EscapeTag(One(x)) = Backslashed(x)
    BY <2>1, <2>2 DEF EscapeTag
  <2> QED
    BY <1>1, <1>2, <1>5, <2>3
<1>6. CASE x = " "
  <2>1. /\ Protect(One(x), Backslash) = One(x) /\ Protect(One(x), ",") = One(x)
        /\ Protect(One(x), "=") = One(x) /\ Protect(One(x), " ") = Backslashed(x)
    BY <1>1, <1>2, <1>6, ProtectOne
  <2>2. EscapeTag(One(x)) = Backslashed(x)
    BY <2>1 DEF EscapeTag
  <2> QED
    BY <1>1, <1>2, <1>6, <2>2
<1>7. CASE x \notin Marked \ {Quote}
  <2>1. x \notin {Backslash, ",", "=", " "}
    BY <1>1, <1>2, <1>7
  <2>2. \A c \in {Backslash, ",", "=", " "} : Protect(One(x), c) = One(x)
    BY <1>1, <2>1, ProtectOne
  <2>3. EscapeTag(One(x)) = One(x)
    BY <2>2 DEF EscapeTag
  <2> QED
    BY <1>7, <2>3
<1> QED
  BY <1>3, <1>4, <1>5, <1>6, <1>7 DEF Marked

\* The escapes of a quoted string, of a field and of a label.
EscapeQuoted(s) == Protect(Protect(s, Backslash), Quote)

\* They go part by part.
LEMMA EscapeQuotedParts ==
    /\ EscapeQuoted(<<>>) = <<>>
    /\ \A s \in Strings : EscapeQuoted(s) \in Strings
    /\ \A s, t \in Strings : EscapeQuoted(Cat(s, t)) = Cat(EscapeQuoted(s), EscapeQuoted(t))
<1>1. Backslash \in Marked /\ Quote \in Marked
  BY DEF Marked
<1> QED
  BY <1>1, ProtectParts DEF EscapeQuoted

\* And character by character.
LEMMA EscapeQuotedOne ==
    ASSUME NEW x \in Characters
    PROVE  /\ x \in {Backslash, Quote} => EscapeQuoted(One(x)) = Backslashed(x)
           /\ x \notin {Backslash, Quote} => EscapeQuoted(One(x)) = One(x)
<1>1. Backslash \in Marked /\ Quote \in Marked /\ Backslash # Quote
  BY DEF Marked, Quote, Backslash
<1> QED
  BY <1>1, ProtectOne, ProtectEscaped DEF EscapeQuoted

\* What the formats are.
LEMMA FormatFields ==
    /\ LineFormat.escape = Backslash /\ LineFormat.special = Marked
    /\ LineFormat.separators = {",", "=", " "} /\ LineFormat.ends = {LF}
    /\ LineFormat.place = "no strings"
    /\ LabelFormat.escape = Backslash /\ LabelFormat.special = {Backslash, Quote}
    /\ LabelFormat.separators = {",", "=", "{", "}"} /\ LabelFormat.ends = {LF}
    /\ LabelFormat.place = "outside"
    /\ Inert \subseteq Characters \ {LF} /\ Backslash \in Inert
    /\ Backslash \notin {Quote, ",", "=", " ", "{", "}"} /\ Quote \notin {",", "=", " ", "{", "}"}
<1>1. Inert \subseteq Characters \ {LF}
  BY DEF Inert, Controls
<1>2. Backslash \in Inert
  BY WordsAreInert DEF Words
<1> QED
  BY <1>1, <1>2 DEF LineFormat, LabelFormat, Marked, Quote, Backslash

\* A tag is read as what it was, and so is a key without quotes behind the blank.
LEMMA TagCharactersAreRead ==
    ASSUME NEW place, NEW A, A \subseteq Inert,
           place = "no strings" \/ (place = "outside" /\ Quote \notin A)
    PROVE  \A s \in Strings : s \in Seq(A) => IsRead(LineFormat, place, EscapeTag(s), s)
<1> DEFINE h == [s \in Strings |-> EscapeTag(s)]
           h1 == [x \in Characters |-> EscapeTag(One(x))]
<1>1. /\ h[<<>>] = <<>>
      /\ \A u \in Strings, x \in Characters : h[Cat(u, One(x))] = Cat(h[u], h1[x])
  BY StringLaws, EscapeTagParts
<1>2. ASSUME NEW x \in A PROVE IsRead(LineFormat, place, h1[x], One(x))
  <2>1. x \in Characters \ LineFormat.ends /\ LineFormat.escape \in Characters \ LineFormat.ends
    BY FormatFields
  <2>2. CASE x \in Marked \ {Quote}
    <3>1. h1[x] = Cat(One(LineFormat.escape), One(x))
      BY <2>1, <2>2, EscapeTagOne, FormatFields DEF Backslashed
    <3>2. x \in LineFormat.special
      BY <2>2, FormatFields
    <3> HIDE DEF h1
    <3> QED
      BY <2>1, <3>1, <3>2, CharacterIsRead
  <2>3. CASE x \notin Marked \ {Quote}
    <3>1. h1[x] = One(x)
      BY <2>1, <2>3, EscapeTagOne
    <3>2. IsPlain(LineFormat, place, x)
      BY <2>3, FormatFields DEF IsPlain, Marked
    <3> HIDE DEF h1
    <3> QED
      BY <2>1, <3>1, <3>2, CharacterIsRead
  <2> QED
    BY <2>2, <2>3
<1>3. \A s \in Strings : h[s] = EscapeTag(s)
  OBVIOUS
<1> HIDE DEF h, h1
<1>4. \A s \in Strings : s \in Seq(A) => IsRead(LineFormat, place, h[s], s)
  BY <1>1, <1>2, EscapeIsRead
<1> QED
  BY <1>3, <1>4

\* A tag value is read as what it was before it was escaped.
LEMMA TagIsRead == \A s \in Seq(Inert) : IsRead(LineFormat, "no strings", EscapeTag(s), s)
<1> TAKE s \in Seq(Inert)
<1>1. s \in Strings
  BY ShortStrings DEF Inert, Strings
<1> QED
  BY <1>1, TagCharactersAreRead

\* So is the key of a tag, where a quote mark would open a string.
LEMMA KeyIsRead ==
    \A s \in Seq(Inert \ {Quote}) : IsRead(LineFormat, "outside", EscapeTag(s), s)
<1> TAKE s \in Seq(Inert \ {Quote})
<1>1. s \in Strings
  BY ShortStrings DEF Inert, Strings
<1>2. PICK A : A = Inert \ {Quote}
  OBVIOUS
<1>3. A \subseteq Inert /\ Quote \notin A /\ s \in Seq(A)
  BY <1>2
<1> QED
  BY <1>1, <1>3, TagCharactersAreRead

\* A quoted string is read as what it was, in either format.
LEMMA QuotedIsRead ==
    ASSUME NEW format \in {LineFormat, LabelFormat}
    PROVE  \A s \in Strings :
               s \in Seq(Inert) => IsRead(format, "inside", EscapeQuoted(s), s)
<1> DEFINE h == [s \in Strings |-> EscapeQuoted(s)]
           h1 == [x \in Characters |-> EscapeQuoted(One(x))]
<1>1. /\ h[<<>>] = <<>>
      /\ \A u \in Strings, x \in Characters : h[Cat(u, One(x))] = Cat(h[u], h1[x])
  BY StringLaws, EscapeQuotedParts
<1>2. /\ format.escape = Backslash /\ {Backslash, Quote} \subseteq format.special
      /\ format.ends = {LF}
  BY FormatFields DEF Marked
<1>3. ASSUME NEW x \in Inert PROVE IsRead(format, "inside", h1[x], One(x))
  <2>1. x \in Characters \ format.ends /\ format.escape \in Characters \ format.ends
    BY <1>2, FormatFields
  <2>2. CASE x \in {Backslash, Quote}
    <3>1. h1[x] = Cat(One(format.escape), One(x))
      BY <1>2, <2>1, <2>2, EscapeQuotedOne DEF Backslashed
    <3> HIDE DEF h1
    <3> QED
      BY <1>2, <2>1, <2>2, <3>1, CharacterIsRead
  <2>3. CASE x \notin {Backslash, Quote}
    <3>1. h1[x] = One(x)
      BY <2>1, <2>3, EscapeQuotedOne
    <3>2. IsPlain(format, "inside", x)
      BY <1>2, <2>3 DEF IsPlain
    <3> HIDE DEF h1
    <3> QED
      BY <2>1, <3>1, <3>2, CharacterIsRead
  <2> QED
    BY <2>2, <2>3
<1>4. \A s \in Strings : h[s] = EscapeQuoted(s)
  OBVIOUS
<1> HIDE DEF h, h1
<1>5. \A s \in Strings : s \in Seq(Inert) => IsRead(format, "inside", h[s], s)
  BY <1>1, <1>3, EscapeIsRead
<1> QED
  BY <1>4, <1>5

\* What has no control character is not changed by the escapes for them.
LEMMA QuotedStaysInert ==
    ASSUME NEW s \in Seq(Inert)
    PROVE  /\ s \in Strings
           /\ EscapeQuoted(s) \in Seq(Inert)
           /\ EscapeFieldStr(s) = EscapeQuoted(s) /\ EscapeLabel(s) = EscapeQuoted(s)
<1>1. Seq(Inert) \subseteq Strings
  BY ShortStrings DEF Inert, Strings
<1>2. EscapeQuoted(s) \in Seq(Inert)
  <2>1. Backslash \in Inert /\ Quote \in Inert /\ Backslash \in Inert
    BY WordsAreInert DEF Words
  <2>2. <<Backslash, Backslash>> \in Seq(Inert) /\ <<Backslash, Quote>> \in Seq(Inert)
    BY <2>1, ShortStrings
  <2>3. ASSUME NEW u \in Seq(Inert), NEW c, <<Backslash, c>> \in Seq(Inert)
        PROVE  Protect(u, c) \in Seq(Inert)
    <3>1. ReplaceChar(u, c, <<Backslash, c>>) \in Seq(Inert)
      <4>1. Inert \ {c} \subseteq Inert
        OBVIOUS
      <4> QED
        BY <2>3, ReplaceCharType
    <3> QED
      BY <3>1 DEF Protect
  <2> QED
    BY <2>2, <2>3 DEF EscapeQuoted
<1>3. PICK q : q = EscapeQuoted(s)
  OBVIOUS
<1>4. q \in Strings /\ \A i \in DOMAIN q : q[i] \notin Controls
  BY <1>1, <1>2, <1>3 DEF Inert
<1>5. \A i \in DOMAIN q : q[i] # LF /\ q[i] # CR
  BY <1>4 DEF Controls
<1>6. <<Backslash, "n">> \in Strings /\ <<Backslash, "r">> \in Strings
  <2>1. {Backslash, "n", "r"} \subseteq Characters
    BY DEF Characters, Words
  <2> QED
    BY <2>1, ShortStrings DEF Strings
<1>7. ReplaceChar(q, LF, <<Backslash, "n">>) = q /\ ReplaceChar(q, CR, <<Backslash, "r">>) = q
  BY <1>4, <1>5, <1>6, ReplaceAbsent
<1>8. EscapeFieldStr(s) = q /\ EscapeLabel(s) = q
  BY <1>3, <1>7 DEF EscapeFieldStr, EscapeLabel, EscapeQuoted, Named
<1> QED
  BY <1>1, <1>2, <1>3, <1>8
-----------------------------------------------------------------------------
(***************************************************************************)
(* A record is read word by word.                                          *)
(***************************************************************************)

\* Lists of words.
Lists == Seq(Strings)
Join(a, b) == a \o b

\* The laws of words put together.
LEMMA ListLaws ==
    /\ <<>> \in Lists
    /\ \A s \in Strings : <<s>> \in Lists
    /\ \A s, t \in Strings : <<s, t>> \in Lists
    /\ \A a, b \in Lists : Join(a, b) \in Lists
    /\ \A a \in Lists : Join(a, <<>>) = a
    /\ \A a, b, c \in Lists : Join(Join(a, b), c) = Join(a, Join(b, c))
    /\ \A a \in Lists, s \in Strings : Append(a, s) \in Lists /\ Append(a, s) = Join(a, <<s>>)
<1>1. \A a, b \in Lists : Join(a, b) \in Lists
  BY ConcatProperties DEF Lists, Join
<1>2. \A a \in Lists : Join(a, <<>>) = a
  BY ConcatEmptySeq DEF Lists, Join
<1>3. \A a, b, c \in Lists : Join(Join(a, b), c) = Join(a, Join(b, c))
  BY ConcatAssociative DEF Lists, Join
<1>4. /\ <<>> \in Lists /\ \A s \in Strings : <<s>> \in Lists
      /\ \A s, t \in Strings : <<s, t>> \in Lists
  BY DEF Lists
<1>5. \A a \in Lists, s \in Strings : Append(a, s) \in Lists /\ Append(a, s) = Join(a, <<s>>)
  BY AppendIsConcat, AppendProperties DEF Lists, Join
<1> QED
  BY <1>1, <1>2, <1>3, <1>4, <1>5

\* Behind a word, t ends it and tells the words of `news`, the last of which may go on.
Tells(format, p, q, t, news) ==
    /\ t \in Text(format) /\ news \in Lists
    /\ \A ws \in Lists, w \in Strings : \E vs \in Lists, v \in Strings :
          /\ ReadFrom(format, At(ws, w, p), t) = At(vs, v, q)
          /\ Append(vs, v) = Join(Append(ws, w), news)

\* Two parts are read one after the other.
LEMMA ReadTwo ==
    \A format, r : \A s, t \in Strings :
        ReadFrom(format, r, Cat(s, t)) = ReadFrom(format, ReadFrom(format, r, s), t)
<1> TAKE format, r
<1> QED
  BY ReadConcat

\* Four parts, put together in two ways.
LEMMA FourParts ==
    \A s, t, u, v \in Strings : Cat(Cat(s, t), Cat(u, v)) = Cat(Cat(Cat(s, t), u), v)
  BY StringLaws

\* One behind another.
LEMMA JoinedTwo ==
    ASSUME NEW S
    PROVE  \A a, b \in S : <<a>> \o <<b>> = <<a, b>>
<1> TAKE a, b \in S
<1>1. PICK s \in Seq(S) : s = <<a>>
  BY ShortStrings
<1>2. PICK t \in Seq(S) : t = <<a, b>>
  BY ShortStrings
<1>3. PICK j : j = Append(s, b)
  OBVIOUS
<1>4. j \in Seq(S) /\ Len(j) = 2 /\ j[1] = a /\ j[2] = b
  <2>1. Len(s) = 1 /\ s[1] = a
    BY <1>1
  <2> QED
    BY <1>1, <1>3, <2>1, AppendProperties
<1>5. Len(t) = 2 /\ t[1] = a /\ t[2] = b
  BY <1>2
<1>6. j = t
  <2>1. \A i \in 1 .. 2 : j[i] = t[i]
    BY <1>4, <1>5
  <2> QED
    BY <1>2, <1>4, <1>5, <2>1, SeqEqual
<1>7. Append(s, b) = s \o <<b>>
  BY <1>1, AppendIsConcat
<1> QED
  BY <1>1, <1>2, <1>3, <1>6, <1>7

\* Two lists of one word are the list of the two.
LEMMA JoinedWords == \A a, b \in Strings : Join(<<a>>, <<b>>) = <<a, b>>
  BY JoinedTwo DEF Join

\* Nothing tells nothing.
LEMMA NothingTells == \A format, p : Tells(format, p, p, <<>>, <<>>)
<1> TAKE format, p
<1>1. <<>> \in Text(format) /\ <<>> \in Lists
  BY TextLaws, ListLaws
<1>2. ASSUME NEW ws \in Lists, NEW w \in Strings
      PROVE  \E vs \in Lists, v \in Strings :
                /\ ReadFrom(format, At(ws, w, p), <<>>) = At(vs, v, p)
                /\ Append(vs, v) = Join(Append(ws, w), <<>>)
  <2>1. ReadFrom(format, At(ws, w, p), <<>>) = At(ws, w, p)
    BY ReadNone
  <2>2. PICK all \in Lists : all = Append(ws, w)
    BY ListLaws
  <2>3. Join(all, <<>>) = all
    BY ListLaws
  <2> QED
    BY <2>1, <2>2, <2>3
<1> QED
  BY <1>1, <1>2 DEF Tells

\* One text behind another tells what both tell.
LEMMA BothTell ==
    ASSUME NEW format, NEW p, NEW q, NEW o, NEW t, NEW u, NEW a, NEW b,
           Tells(format, p, q, t, a), Tells(format, q, o, u, b)
    PROVE  Tells(format, p, o, Cat(t, u), Join(a, b))
<1>1. /\ t \in Text(format) /\ u \in Text(format) /\ a \in Lists /\ b \in Lists
      /\ t \in Strings /\ u \in Strings
  BY DEF Tells, Text
<1>2. Cat(t, u) \in Text(format) /\ Join(a, b) \in Lists
  BY <1>1, TextLaws, ListLaws
<1>3. ASSUME NEW ws \in Lists, NEW w \in Strings
      PROVE  \E xs \in Lists, x \in Strings :
                /\ ReadFrom(format, At(ws, w, p), Cat(t, u)) = At(xs, x, o)
                /\ Append(xs, x) = Join(Append(ws, w), Join(a, b))
  <2>1. PICK vs \in Lists, v \in Strings :
                /\ ReadFrom(format, At(ws, w, p), t) = At(vs, v, q)
                /\ Append(vs, v) = Join(Append(ws, w), a)
    BY DEF Tells
  <2>2. PICK xs \in Lists, x \in Strings :
                /\ ReadFrom(format, At(vs, v, q), u) = At(xs, x, o)
                /\ Append(xs, x) = Join(Append(vs, v), b)
    BY <2>1 DEF Tells
  <2>3. ReadFrom(format, At(ws, w, p), Cat(t, u))
        = ReadFrom(format, ReadFrom(format, At(ws, w, p), t), u)
    BY <1>1, ReadConcat
  <2>4. Join(Join(Append(ws, w), a), b) = Join(Append(ws, w), Join(a, b))
    <3>1. PICK all \in Lists : all = Append(ws, w)
      BY ListLaws
    <3>2. Join(Join(all, a), b) = Join(all, Join(a, b))
      BY <1>1, ListLaws
    <3> QED
      BY <3>1, <3>2
  <2>5. /\ ReadFrom(format, At(ws, w, p), Cat(t, u)) = At(xs, x, o)
        /\ Append(xs, x) = Join(Append(ws, w), Join(a, b))
    BY <2>1, <2>2, <2>3, <2>4
  <2> QED
    BY <2>2, <2>5
<1> QED
  BY <1>2, <1>3 DEF Tells

\* A separator with a word behind it.
LEMMA WordTells ==
    ASSUME NEW format, NEW p, NEW q, NEW c \in Characters \ format.ends, NEW t, NEW s,
           Parts(format, p, c), q = After(p, c), IsRead(format, q, t, s)
    PROVE  Tells(format, p, q, Cat(One(c), t), <<s>>)
<1>1. t \in Text(format) /\ t \in Strings /\ s \in Strings
  BY DEF IsRead, Text
<1>2. Cat(One(c), t) \in Text(format) /\ <<s>> \in Lists /\ One(c) \in Strings
  BY <1>1, TextLaws, ListLaws, StringLaws
<1>3. ASSUME NEW ws \in Lists, NEW w \in Strings
      PROVE  /\ ReadFrom(format, At(ws, w, p), Cat(One(c), t)) = At(Append(ws, w), s, q)
             /\ Append(ws, w) \in Lists
             /\ Append(Append(ws, w), s) = Join(Append(ws, w), <<s>>)
  <2>1. ReadFrom(format, At(ws, w, p), Cat(One(c), t))
        = ReadFrom(format, ReadFrom(format, At(ws, w, p), One(c)), t)
    BY <1>1, <1>2, ReadTwo
  <2>2. ReadFrom(format, At(ws, w, p), One(c)) = ReadChar(format, At(ws, w, p), c)
    BY ReadConcat
  <2>3. ReadChar(format, At(ws, w, p), c) = At(Append(ws, w), <<>>, q)
    BY ReadSeparator
  <2>4. ReadFrom(format, At(Append(ws, w), <<>>, q), t) = At(Append(ws, w), s, q)
    <3>1. PICK e \in Strings : e = <<>>
      BY StringLaws
    <3>2. ReadFrom(format, At(Append(ws, w), e, q), t) = At(Append(ws, w), Cat(e, s), q)
      BY DEF IsRead
    <3>3. Cat(e, s) = s
      BY <1>1, <3>1, StringLaws
    <3> QED
      BY <3>1, <3>2, <3>3
  <2>5. Append(ws, w) \in Lists /\ Append(Append(ws, w), s) = Join(Append(ws, w), <<s>>)
    BY <1>1, ListLaws
  <2> QED
    BY <2>1, <2>2, <2>3, <2>4, <2>5
<1> QED
  BY <1>1, <1>2, <1>3 DEF Tells

\* A separator with a name and, behind another one, a value.
LEMMA PairTells ==
    ASSUME NEW format, NEW p, NEW q, NEW c \in Characters \ format.ends, NEW k, NEW key,
           NEW d \in Characters \ format.ends, NEW t, NEW s,
           Parts(format, p, c), q = After(p, c), IsRead(format, q, k, key),
           Parts(format, q, d), After(q, d) = q, IsRead(format, q, t, s)
    PROVE  Tells(format, p, q, Cat(Cat(Cat(One(c), k), One(d)), t), <<key, s>>)
<1>1. /\ Tells(format, p, q, Cat(One(c), k), <<key>>)
      /\ Tells(format, q, q, Cat(One(d), t), <<s>>)
  BY WordTells
<1>2. Tells(format, p, q, Cat(Cat(One(c), k), Cat(One(d), t)), Join(<<key>>, <<s>>))
  BY <1>1, BothTell
<1>3. key \in Strings /\ s \in Strings /\ k \in Strings /\ t \in Strings
      /\ One(c) \in Strings /\ One(d) \in Strings
  BY StringLaws DEF IsRead, Text
<1>4. Join(<<key>>, <<s>>) = <<key, s>>
  BY <1>3, JoinedWords
<1>5. Cat(Cat(One(c), k), Cat(One(d), t)) = Cat(Cat(Cat(One(c), k), One(d)), t)
  BY <1>3, FourParts
<1> QED
  BY <1>2, <1>4, <1>5

\* A string in quotes.
LEMMA QuoteTells ==
    ASSUME NEW format, NEW t, NEW s, Quote \in Characters \ format.ends, Quote # format.escape,
           IsRead(format, "inside", t, s)
    PROVE  IsRead(format, "outside", Cat(Cat(One(Quote), t), One(Quote)), s)
<1>1. t \in Text(format) /\ t \in Strings /\ s \in Strings
  BY DEF IsRead, Text
<1>2. /\ Cat(Cat(One(Quote), t), One(Quote)) \in Text(format)
      /\ One(Quote) \in Strings /\ Cat(One(Quote), t) \in Strings
  BY <1>1, TextLaws, StringLaws
<1>3. ASSUME NEW ws, NEW w \in Strings
      PROVE  ReadFrom(format, At(ws, w, "outside"), Cat(Cat(One(Quote), t), One(Quote)))
             = At(ws, Cat(w, s), "outside")
  <2>1. ReadFrom(format, At(ws, w, "outside"), Cat(Cat(One(Quote), t), One(Quote)))
        = ReadFrom(format, ReadFrom(format, At(ws, w, "outside"), Cat(One(Quote), t)), One(Quote))
    <3>1. PICK r : r = At(ws, w, "outside")
      OBVIOUS
    <3>2. PICK q : q = One(Quote)
      OBVIOUS
    <3>3. ReadFrom(format, r, Cat(Cat(q, t), q)) = ReadFrom(format, ReadFrom(format, r, Cat(q, t)), q)
      BY <1>2, <3>2, ReadConcat
    <3> QED
      BY <3>1, <3>2, <3>3
  <2>2. ReadFrom(format, At(ws, w, "outside"), Cat(One(Quote), t))
        = ReadFrom(format, ReadFrom(format, At(ws, w, "outside"), One(Quote)), t)
    BY <1>1, <1>2, ReadConcat
  <2>3. /\ ReadFrom(format, At(ws, w, "outside"), One(Quote)) = At(ws, w, "inside")
        /\ ReadFrom(format, At(ws, Cat(w, s), "inside"), One(Quote)) = At(ws, Cat(w, s), "outside")
    <3>1. \A r : ReadFrom(format, r, One(Quote)) = ReadChar(format, r, Quote)
      <4> TAKE r
      <4> QED
        BY ReadConcat
    <3>2. \A v : ReadChar(format, At(ws, v, "inside"), Quote) = At(ws, v, "outside")
      <4> TAKE v
      <4> QED
        BY ReadQuote
    <3>3. ReadChar(format, At(ws, w, "outside"), Quote) = At(ws, w, "inside")
      BY ReadQuote
    <3> QED
      BY <3>1, <3>2, <3>3
  <2>4. ReadFrom(format, At(ws, w, "inside"), t) = At(ws, Cat(w, s), "inside")
    BY DEF IsRead
  <2> QED
    BY <2>1, <2>2, <2>3, <2>4
<1> QED
  BY <1>1, <1>2, <1>3 DEF IsRead

\* What a record that starts with t tells; a reader starts at the place of the format.
Starts(format, q, t, told) ==
    /\ t \in Text(format) /\ told \in Lists
    /\ \E vs \in Lists, v \in Strings :
          /\ ReadFrom(format, At(<<>>, <<>>, format.place), t) = At(vs, v, q)
          /\ Append(vs, v) = told

\* It starts with a word, which may be nothing.
LEMMA StartsWithWord ==
    ASSUME NEW format, NEW t, NEW s, IsRead(format, format.place, t, s)
    PROVE  Starts(format, format.place, t, <<s>>)
<1>1. t \in Text(format) /\ s \in Strings /\ <<s>> \in Lists
  BY ListLaws DEF IsRead
<1>2. PICK e \in Strings, f \in Lists : e = <<>> /\ f = <<>>
  BY StringLaws, ListLaws
<1>3. ReadFrom(format, At(f, e, format.place), t) = At(f, Cat(e, s), format.place)
  BY DEF IsRead
<1>4. Cat(e, s) = s
  BY <1>1, <1>2, StringLaws
<1>5. Append(f, s) = <<s>>
  BY <1>2, FirstReading
<1>6. ReadFrom(format, At(<<>>, <<>>, format.place), t) = At(f, s, format.place)
  BY <1>2, <1>3, <1>4
<1> QED
  BY <1>1, <1>2, <1>5, <1>6 DEF Starts

\* And goes on.
LEMMA StartsOn ==
    ASSUME NEW format, NEW p, NEW q, NEW t, NEW u, NEW a, NEW b,
           Starts(format, p, t, a), Tells(format, p, q, u, b)
    PROVE  Starts(format, q, Cat(t, u), Join(a, b))
<1>1. /\ t \in Text(format) /\ u \in Text(format) /\ a \in Lists /\ b \in Lists
      /\ t \in Strings /\ u \in Strings
  BY DEF Starts, Tells, Text
<1>2. Cat(t, u) \in Text(format) /\ Join(a, b) \in Lists
  BY <1>1, TextLaws, ListLaws
<1>3. PICK vs \in Lists, v \in Strings :
          /\ ReadFrom(format, At(<<>>, <<>>, format.place), t) = At(vs, v, p)
          /\ Append(vs, v) = a
  BY DEF Starts
<1>4. PICK xs \in Lists, x \in Strings :
          /\ ReadFrom(format, At(vs, v, p), u) = At(xs, x, q)
          /\ Append(xs, x) = Join(Append(vs, v), b)
  BY <1>3 DEF Tells
<1>5. ReadFrom(format, At(<<>>, <<>>, format.place), Cat(t, u))
      = ReadFrom(format, ReadFrom(format, At(<<>>, <<>>, format.place), t), u)
  BY <1>1, ReadTwo
<1>6. /\ ReadFrom(format, At(<<>>, <<>>, format.place), Cat(t, u)) = At(xs, x, q)
      /\ Append(xs, x) = Join(a, b)
  BY <1>3, <1>4, <1>5
<1> QED
  BY <1>2, <1>4, <1>6 DEF Starts

\* If it is not left open, what it tells are its words.
LEMMA RecordIsRead ==
    ASSUME NEW format, NEW q, q # "inside", NEW t, NEW told, Starts(format, q, t, told)
    PROVE  ReadWords(format, t) = told
<1> DEFINE end == ReadFrom(format, Reader(<<>>, <<>>, format.place, FALSE), t)
<1>1. PICK vs \in Lists, v \in Strings :
          /\ ReadFrom(format, At(<<>>, <<>>, format.place), t) = At(vs, v, q)
          /\ Append(vs, v) = told
  BY DEF Starts
<1>2. ToSet(t) \cap format.ends = {}
  <2>1. PICK u \in Seq(Characters \ format.ends) : u = t
    BY DEF Starts, Text
  <2>2. \A i \in DOMAIN u : u[i] \notin format.ends
    BY <2>1
  <2> QED
    BY <2>1, <2>2 DEF ToSet
<1>3. end = At(vs, v, q)
  BY <1>1 DEF At
<1>4. end.words = vs /\ end.word = v /\ end.place = q /\ end.behind = FALSE
  <2> HIDE DEF end
  <2> QED
    BY <1>3 DEF At, Reader
<1>5. ReadWords(format, t) = IF ToSet(t) \cap format.ends # {} \/ end.place = "inside" \/ end.behind
                             THEN <<>> ELSE Append(end.words, end.word)
  BY Zenon DEF ReadWords
<1> HIDE DEF end
<1> QED
  BY <1>1, <1>2, <1>4, <1>5
-----------------------------------------------------------------------------
(***************************************************************************)
(* A line of line protocol.                                                *)
(***************************************************************************)

\* The code's own names and the digits of numbers have no character with a meaning.
Plain == Inert \ Marks

\* None of the code's own names has such a character.
LEMMA NamesArePlain ==
    {"probe_result", "probe_name", "probe_type", "target", "up", "i", "response_ms",
     "status_code", "error", "probe", "type", "tls_cert_expiry_days"} \cup Types \subseteq Plain
<1>1. {"probe_result", "probe_name", "probe_type", "target", "up", "i", "response_ms",
       "status_code", "error", "probe", "type", "tls_cert_expiry_days"} \cup Types \subseteq Words
  BY DEF Words
<1> QED
  BY <1>1, WordsAreInert DEF Plain, Marks, Backslash, Quote, Types, Http, Greeters

\* Such a character is read as itself, wherever it stands.
LEMMA PlainIsRead ==
    ASSUME NEW format \in {LineFormat, LabelFormat}, NEW place, NEW x \in Plain
    PROVE  IsRead(format, place, One(x), One(x))
<1>1. x \in Characters \ format.ends
  BY FormatFields DEF Plain
<1>2. IsPlain(format, place, x)
  BY FormatFields DEF IsPlain, Plain, Marks
<1> QED
  BY <1>1, <1>2, CharacterIsRead

\* Strings of a few characters.
LEMMA FewCharacters ==
    /\ \A a, b \in Characters : <<a, b>> = Cat(One(a), One(b))
    /\ \A a, b, c \in Characters : <<a, b, c>> = Cat(Cat(One(a), One(b)), One(c))
    /\ \A a, b, c, d \in Characters :
          <<a, b, c, d>> = Cat(Cat(Cat(One(a), One(b)), One(c)), One(d))
<1>1. \A a, b \in Characters : <<a, b>> = Cat(One(a), One(b))
  BY JoinedTwo DEF Cat, One
<1>2. \A a, b, c \in Characters : <<a, b, c>> = Cat(<<a, b>>, One(c))
  BY DEF Cat, One
<1>3. \A a, b, c, d \in Characters : <<a, b, c, d>> = Cat(<<a, b, c>>, One(d))
  BY DEF Cat, One
<1>5. \A a, b, c \in Characters : <<a, b, c>> = Cat(Cat(One(a), One(b)), One(c))
  BY <1>1, <1>2
<1>6. \A a, b, c, d \in Characters :
         <<a, b, c, d>> = Cat(Cat(Cat(One(a), One(b)), One(c)), One(d))
  BY <1>3, <1>5
<1> QED
  BY <1>1, <1>5, <1>6

\* The text of a number with its type and of one without.
WithType(c, name, digits) == Cat(Cat(Cat(One(c), One(name)), One("=")), Cat(One(digits), One("i")))
WithoutType(c, name, digits) == Cat(Cat(Cat(One(c), One(name)), One("=")), One(digits))

\* The text of a number is what Render puts together.
LEMMA NumberTexts ==
    \A c, name, digits \in Characters :
        /\ <<c, name, "=", digits, "i">> = WithType(c, name, digits)
        /\ <<c, name, "=", digits>> = WithoutType(c, name, digits)
        /\ <<digits, "i">> = Cat(One(digits), One("i"))
<1> TAKE c, name, digits \in Characters
<1>1. "=" \in Characters /\ "i" \in Characters
  BY DEF Characters, Words
<1>2. <<c, name, "=", digits, "i">> = WithType(c, name, digits)
  <2>1. <<c, name, "=", digits, "i">> = Cat(<<c, name, "=">>, <<digits, "i">>)
    BY DEF Cat
  <2>2. <<c, name, "=">> = Cat(Cat(One(c), One(name)), One("="))
    BY <1>1, FewCharacters
  <2>3. <<digits, "i">> = Cat(One(digits), One("i"))
    BY <1>1, FewCharacters
  <2> QED
    BY <2>1, <2>2, <2>3 DEF WithType
<1>3. <<c, name, "=", digits>> = WithoutType(c, name, digits)
  BY <1>1, FewCharacters DEF WithoutType
<1>4. <<digits, "i">> = Cat(One(digits), One("i"))
  BY <1>1, FewCharacters
<1> QED
  BY <1>2, <1>3, <1>4

\* Where the separators of a line leave the reader.
LEMMA LineMarks ==
    ASSUME NEW p \in {"no strings", "outside"}
    PROVE  /\ {",", "=", " "} \subseteq Characters \ LineFormat.ends
           /\ \A c \in {",", "=", " "} : Parts(LineFormat, p, c)
           /\ After(p, ",") = p /\ After(p, "=") = p /\ After(p, " ") = "outside"
           /\ After("outside", "=") = "outside"
<1>1. {",", "=", " "} \subseteq Words
  BY DEF Words
<1>2. {",", "=", " "} \subseteq Characters \ LineFormat.ends
  BY <1>1, WordsAreInert, FormatFields
<1>3. \A c \in {",", "=", " "} : Parts(LineFormat, p, c)
  BY FormatFields DEF Parts
<1>4. /\ After(p, ",") = p /\ After(p, "=") = p /\ After(p, " ") = "outside"
      /\ After("outside", "=") = "outside"
  BY DEF After
<1> QED
  BY <1>2, <1>3, <1>4

\* A name and a value of a line, behind a comma or the blank.
LEMMA LinePairTells ==
    ASSUME NEW p \in {"no strings", "outside"}, NEW c \in {",", " "}, NEW q, q = After(p, c),
           NEW k, NEW key, NEW t, NEW s, IsRead(LineFormat, q, k, key), IsRead(LineFormat, q, t, s)
    PROVE  Tells(LineFormat, p, q, Cat(Cat(Cat(One(c), k), One("=")), t), <<key, s>>)
<1>1. q \in {"no strings", "outside"}
  BY DEF After
<1>2. /\ c \in Characters \ LineFormat.ends /\ "=" \in Characters \ LineFormat.ends
      /\ Parts(LineFormat, p, c) /\ Parts(LineFormat, q, "=") /\ After(q, "=") = q
  BY <1>1, LineMarks
<1> QED
  BY <1>2, PairTells

\* A tag.
LEMMA TagTells ==
    ASSUME NEW name \in Plain, NEW v \in Seq(Inert)
    PROVE  Tells(LineFormat, "no strings", "no strings", Tag(name, v), << <<name>>, v >>)
<1>1. IsRead(LineFormat, "no strings", One(name), One(name))
  BY PlainIsRead
<1>2. IsRead(LineFormat, "no strings", EscapeTag(v), v)
  BY TagIsRead
<1>3. After("no strings", ",") = "no strings"
  BY DEF After
<1>4. Tells(LineFormat, "no strings", "no strings",
            Cat(Cat(Cat(One(","), One(name)), One("=")), EscapeTag(v)), <<One(name), v>>)
  BY <1>1, <1>2, <1>3, LinePairTells
<1>5. <<",", name, "=">> = Cat(Cat(One(","), One(name)), One("="))
  <2>1. "," \in Characters /\ "=" \in Characters /\ name \in Characters
    BY LineMarks DEF Plain, Inert
  <2>2. \A a, b, c \in Characters : <<a, b, c>> = Cat(Cat(One(a), One(b)), One(c))
    BY FewCharacters
  <2> QED
    BY <2>1, <2>2, Zenon
<1>6. Tag(name, v) = Cat(Cat(Cat(One(","), One(name)), One("=")), EscapeTag(v))
  BY <1>5 DEF Tag, Cat
<1> QED
  BY <1>4, <1>6 DEF One

\* A number with its type and one without.
LEMMA NumberTells ==
    ASSUME NEW p \in {"no strings", "outside"}, NEW c \in {",", " "}, After(p, c) = "outside",
           NEW name \in Plain, NEW digits \in Plain
    PROVE  /\ Tells(LineFormat, p, "outside", <<c, name, "=", digits, "i">>,
                    << <<name>>, <<digits, "i">> >>)
           /\ Tells(LineFormat, p, "outside", <<c, name, "=", digits>>, << <<name>>, <<digits>> >>)
<1>1. /\ c \in Characters /\ name \in Characters /\ "=" \in Characters /\ digits \in Characters
      /\ "i" \in Plain /\ "i" \in Characters
  BY LineMarks, NamesArePlain DEF Plain, Inert
<1>2. /\ IsRead(LineFormat, "outside", One(name), One(name))
      /\ IsRead(LineFormat, "outside", One(digits), One(digits))
      /\ IsRead(LineFormat, "outside", One("i"), One("i"))
  BY <1>1, PlainIsRead
<1>3. IsRead(LineFormat, "outside", Cat(One(digits), One("i")), Cat(One(digits), One("i")))
  BY <1>2, PartsAreRead
<1>4. /\ Tells(LineFormat, p, "outside", Cat(Cat(Cat(One(c), One(name)), One("=")),
                                             Cat(One(digits), One("i"))),
               <<One(name), Cat(One(digits), One("i"))>>)
      /\ Tells(LineFormat, p, "outside", Cat(Cat(Cat(One(c), One(name)), One("=")), One(digits)),
               <<One(name), One(digits)>>)
  BY <1>2, <1>3, LinePairTells
<1>5. /\ <<c, name, "=", digits, "i">> = WithType(c, name, digits)
      /\ <<c, name, "=", digits>> = WithoutType(c, name, digits)
      /\ <<digits, "i">> = Cat(One(digits), One("i"))
  BY <1>1, NumberTexts
<1>6. <<name>> = One(name) /\ <<digits>> = One(digits)
  BY DEF One
<1> QED
  BY <1>4, <1>5, <1>6 DEF WithType, WithoutType

\* An optional field that is not there becomes nothing, and one that is becomes its text.
LEMMA OptionalField ==
    ASSUME NEW q, q = <<>> \/ \E e : q = <<e>>,
           NEW F, F = [i \in DOMAIN q |-> F[i]]
    PROVE  FlattenSeq(F) = IF q = <<>> THEN <<>> ELSE F[1]
<1>1. CASE q = <<>>
  <2>1. F = <<>>
    BY <1>1
  <2> QED
    BY <1>1, <2>1, FlattenNone
<1>2. CASE \E e : q = <<e>>
  <2>1. PICK e : q = <<e>>
    BY <1>2
  <2>2. DOMAIN q = 1 .. 1 /\ q # <<>>
    BY <2>1
  <2>3. F = <<F[1]>>
    BY <2>2
  <2> QED
    BY <2>2, <2>3, FlattenOne
<1> QED
  BY <1>1, <1>2

\* What the optional fields of a line are to be read as.
StatusWords(r) ==
    FlattenSeq([i \in DOMAIN r.status_code |->
        << <<"status_code">>, <<Digits(r.status_code[i]), "i">> >>])
ErrorWords(r) == FlattenSeq([i \in DOMAIN r.error |-> << <<"error">>, r.error[i] >>])
MetricWords(r) ==
    FlattenSeq([i \in DOMAIN r.metrics |->
        << r.metrics[i].key, <<Digits(r.metrics[i].value)>> >>])

\* They are optional indeed, and their values can be written.
Optional(r) ==
    /\ r.status_code = <<>> \/ \E s : Digits(s) \in Plain /\ r.status_code = <<s>>
    /\ r.error = <<>> \/ \E e \in Seq(Inert) : r.error = <<e>>
    /\ r.metrics = <<>> \/ \E v : /\ Digits(v) \in Plain
                                  /\ r.metrics = <<[key |-> TlsCertExpiryDays, value |-> v]>>

\* The status of an HTTP answer.
LEMMA StatusTells ==
    ASSUME NEW r, Optional(r)
    PROVE  Tells(LineFormat, "outside", "outside", StatusField(r), StatusWords(r))
<1> DEFINE q == r.status_code
           F == [i \in DOMAIN q |-> <<",", "status_code", "=", Digits(q[i]), "i">>]
           W == [i \in DOMAIN q |-> << <<"status_code">>, <<Digits(q[i]), "i">> >>]
<1>1. StatusField(r) = FlattenSeq(F) /\ StatusWords(r) = FlattenSeq(W)
  BY DEF StatusField, StatusWords
<1>2. CASE q = <<>>
  <2>1. F = <<>> /\ W = <<>>
    BY <1>2
  <2> HIDE DEF F, W
  <2> QED
    BY <1>1, <2>1, FlattenNone, NothingTells
<1>3. CASE \E s : Digits(s) \in Plain /\ q = <<s>>
  <2>1. PICK s : Digits(s) \in Plain /\ q = <<s>>
    BY <1>3
  <2>2. q # <<>> /\ 1 \in DOMAIN q /\ q[1] = s
    BY <2>1
  <2>3. /\ F = [i \in DOMAIN q |-> F[i]] /\ F[1] = <<",", "status_code", "=", Digits(s), "i">>
        /\ W = [i \in DOMAIN q |-> W[i]] /\ W[1] = << <<"status_code">>, <<Digits(s), "i">> >>
    BY <2>2
  <2> HIDE DEF F, W, q
  <2>4. FlattenSeq(F) = F[1] /\ FlattenSeq(W) = W[1]
    BY <2>1, <2>2, <2>3, OptionalField
  <2>5. "status_code" \in Plain /\ After("outside", ",") = "outside"
    BY NamesArePlain DEF After
  <2>6. Tells(LineFormat, "outside", "outside", <<",", "status_code", "=", Digits(s), "i">>,
              << <<"status_code">>, <<Digits(s), "i">> >>)
    BY <2>1, <2>5, NumberTells
  <2> QED
    BY <1>1, <2>3, <2>4, <2>6, Zenon
<1> QED
  BY <1>2, <1>3 DEF Optional

\* The error, in quotes.
LEMMA ErrorTells ==
    ASSUME NEW r, Optional(r)
    PROVE  Tells(LineFormat, "outside", "outside", ErrorField(r), ErrorWords(r))
<1> DEFINE q == r.error
           F == [i \in DOMAIN q |-> <<",", "error", "=">>
                                    \o (<<Quote>> \o EscapeFieldStr(q[i]) \o <<Quote>>)]
           W == [i \in DOMAIN q |-> << <<"error">>, q[i] >>]
<1>1. ErrorField(r) = FlattenSeq(F) /\ ErrorWords(r) = FlattenSeq(W)
  BY DEF ErrorField, ErrorWords
<1>2. CASE q = <<>>
  <2>1. F = <<>> /\ W = <<>>
    BY <1>2
  <2> HIDE DEF F, W
  <2> QED
    BY <1>1, <2>1, FlattenNone, NothingTells
<1>3. CASE \E e \in Seq(Inert) : q = <<e>>
  <2>1. PICK e \in Seq(Inert) : q = <<e>>
    BY <1>3
  <2>2. q # <<>> /\ 1 \in DOMAIN q /\ q[1] = e
    BY <2>1
  <2>3. /\ F = [i \in DOMAIN q |-> F[i]]
        /\ F[1] = <<",", "error", "=">> \o (<<Quote>> \o EscapeFieldStr(e) \o <<Quote>>)
        /\ W = [i \in DOMAIN q |-> W[i]] /\ W[1] = << <<"error">>, e >>
    BY <2>2
  <2> HIDE DEF F, W, q
  <2>4. FlattenSeq(F) = F[1] /\ FlattenSeq(W) = W[1]
    BY <2>1, <2>2, <2>3, OptionalField
  <2>5. IsRead(LineFormat, "outside", Cat(Cat(One(Quote), EscapeFieldStr(e)), One(Quote)), e)
    <3>1. IsRead(LineFormat, "inside", EscapeFieldStr(e), e)
      BY QuotedIsRead, QuotedStaysInert
    <3>2. Quote \in Characters \ LineFormat.ends /\ Quote # LineFormat.escape
      <4>1. Quote \in Inert
        BY WordsAreInert DEF Words
      <4> QED
        BY <4>1, FormatFields
    <3> QED
      BY <3>1, <3>2, QuoteTells
  <2>6. IsRead(LineFormat, "outside", One("error"), One("error"))
    BY NamesArePlain, PlainIsRead
  <2>7. After("outside", ",") = "outside"
    BY DEF After
  <2>8. Tells(LineFormat, "outside", "outside",
              Cat(Cat(Cat(One(","), One("error")), One("=")),
                  Cat(Cat(One(Quote), EscapeFieldStr(e)), One(Quote))),
              <<One("error"), e>>)
    BY <2>5, <2>6, <2>7, LinePairTells
  <2>9. <<",", "error", "=">> = Cat(Cat(One(","), One("error")), One("="))
    <3>1. "," \in Characters /\ "error" \in Characters /\ "=" \in Characters
      BY DEF Characters, Words
    <3>2. \A a, b, c \in Characters : <<a, b, c>> = Cat(Cat(One(a), One(b)), One(c))
      BY FewCharacters
    <3> QED
      BY <3>1, <3>2, Zenon
  <2>10. F[1] = Cat(Cat(Cat(One(","), One("error")), One("=")),
                    Cat(Cat(One(Quote), EscapeFieldStr(e)), One(Quote)))
    BY <2>3, <2>9 DEF Cat, One
  <2>11. W[1] = <<One("error"), e>>
    BY <2>3 DEF One
  <2> QED
    BY <1>1, <2>4, <2>8, <2>10, <2>11
<1> QED
  BY <1>2, <1>3 DEF Optional

\* The reading of a certificate.
LEMMA MetricTells ==
    ASSUME NEW r, Optional(r)
    PROVE  Tells(LineFormat, "outside", "outside", MetricFields(r), MetricWords(r))
<1> DEFINE q == r.metrics
           F == [i \in DOMAIN q |-> <<",">> \o EscapeTag(q[i].key) \o <<"=", Digits(q[i].value)>>]
           W == [i \in DOMAIN q |-> << q[i].key, <<Digits(q[i].value)>> >>]
<1>1. MetricFields(r) = FlattenSeq(F) /\ MetricWords(r) = FlattenSeq(W)
  BY DEF MetricFields, MetricWords
<1>2. CASE q = <<>>
  <2>1. F = <<>> /\ W = <<>>
    BY <1>2
  <2> HIDE DEF F, W
  <2> QED
    BY <1>1, <2>1, FlattenNone, NothingTells
<1>3. CASE \E v : /\ Digits(v) \in Plain
                  /\ q = <<[key |-> TlsCertExpiryDays, value |-> v]>>
  <2>1. PICK v : Digits(v) \in Plain /\ q = <<[key |-> TlsCertExpiryDays, value |-> v]>>
    BY <1>3
  <2> DEFINE key == TlsCertExpiryDays
             digits == Digits(v)
  <2>2. q # <<>> /\ 1 \in DOMAIN q /\ q[1].key = key /\ q[1].value = v
    BY <2>1
  <2>3. /\ F = [i \in DOMAIN q |-> F[i]]
        /\ F[1] = <<",">> \o EscapeTag(key) \o <<"=", digits>>
        /\ W = [i \in DOMAIN q |-> W[i]] /\ W[1] = << key, <<digits>> >>
    BY <2>2
  <2> HIDE DEF F, W, q
  <2>4. FlattenSeq(F) = F[1] /\ FlattenSeq(W) = W[1]
    BY <2>1, <2>2, <2>3, OptionalField
  <2>5. IsRead(LineFormat, "outside", EscapeTag(key), key)
    <3>1. key \in Seq(Inert \ {Quote})
      <4>1. "tls_cert_expiry_days" \in Inert \ {Quote}
        BY NamesArePlain DEF Plain, Marks
      <4> QED
        BY <4>1, ShortStrings DEF TlsCertExpiryDays
    <3> QED
      BY <3>1, KeyIsRead
  <2>6. IsRead(LineFormat, "outside", One(digits), One(digits))
    BY <2>1, PlainIsRead
  <2>7. After("outside", ",") = "outside"
    BY DEF After
  <2> HIDE DEF key, digits
  <2>8. Tells(LineFormat, "outside", "outside",
              Cat(Cat(Cat(One(","), EscapeTag(key)), One("=")), One(digits)), <<key, One(digits)>>)
    BY <2>5, <2>6, <2>7, LinePairTells
  <2>9. digits \in Characters /\ "=" \in Characters /\ "," \in Characters
    BY <2>1, LineMarks DEF Plain, Inert, digits
  <2>10. <<"=", digits>> = Cat(One("="), One(digits))
    BY <2>9, FewCharacters
  <2>11. F[1] = Cat(Cat(Cat(One(","), EscapeTag(key)), One("=")), One(digits))
    <3>1. F[1] = Cat(Cat(One(","), EscapeTag(key)), Cat(One("="), One(digits)))
      BY <2>3, <2>10 DEF Cat, One
    <3>2. /\ One(",") \in Strings /\ One("=") \in Strings /\ One(digits) \in Strings
          /\ EscapeTag(key) \in Strings
      BY <2>5, <2>9, StringLaws DEF IsRead, Text
    <3>3. PICK a \in Strings, b \in Strings, c \in Strings, d \in Strings :
             a = One(",") /\ b = EscapeTag(key) /\ c = One("=") /\ d = One(digits)
      BY <3>2
    <3>4. a \in Strings /\ b \in Strings /\ c \in Strings /\ d \in Strings
      BY <3>3
    <3>5. Cat(Cat(a, b), Cat(c, d)) = Cat(Cat(Cat(a, b), c), d)
      BY <3>4, FourParts
    <3> QED
      BY <3>1, <3>3, <3>5
  <2>12. W[1] = <<key, One(digits)>>
    BY <2>3 DEF One
  <2> QED
    BY <1>1, <2>4, <2>8, <2>11, <2>12
<1> QED
  BY <1>2, <1>3 DEF Optional

\* A result of which every string is inert and every number can be written.
Writable(r) ==
    /\ r.probe_name \in Seq(Inert) /\ r.target \in Seq(Inert) /\ r.probe_type \in Types
    /\ {Digits(Up(r)), Digits(r.response_ms), Digits(r.timestamp)} \subseteq Plain
    /\ Optional(r)

\* A line is read as what the result is.
LEMMA LineIsRead ==
    ASSUME NEW r, Writable(r)
    PROVE  LineReadsBack(r)
<1> DEFINE f == LineFormat
           n == "no strings"
           s == "outside"
           t0 == <<"probe_result">>
           t1 == Tag("probe_name", r.probe_name)
           t2 == Tag("probe_type", <<r.probe_type>>)
           t3 == Tag("target", r.target)
           t4 == <<" ", "up", "=", Digits(Up(r)), "i">>
           t5 == <<",", "response_ms", "=", Digits(r.response_ms)>>
           t9 == <<" ", Digits(r.timestamp)>>
           w0 == << <<"probe_result">> >>
           w1 == << <<"probe_name">>, r.probe_name >>
           w2 == << <<"probe_type">>, <<r.probe_type>> >>
           w3 == << <<"target">>, r.target >>
           w4 == << <<"up">>, <<Digits(Up(r)), "i">> >>
           w5 == << <<"response_ms">>, <<Digits(r.response_ms)>> >>
           w9 == << <<Digits(r.timestamp)>> >>
<1>1. Starts(f, n, t0, w0)
  <2>1. IsRead(f, n, One("probe_result"), One("probe_result"))
    BY NamesArePlain, PlainIsRead
  <2>2. f.place = n
    BY FormatFields
  <2>3. Starts(f, n, One("probe_result"), <<One("probe_result")>>)
    BY <2>1, <2>2, StartsWithWord
  <2> QED
    BY <2>3 DEF One
<1>2. Tells(f, n, n, t1, w1)
  BY NamesArePlain, TagTells DEF Writable
<1>3. Tells(f, n, n, t2, w2)
  <2>1. <<r.probe_type>> \in Seq(Inert)
    BY NamesArePlain, ShortStrings DEF Writable, Plain
  <2> QED
    BY <2>1, NamesArePlain, TagTells
<1>4. Tells(f, n, n, t3, w3)
  BY NamesArePlain, TagTells DEF Writable
<1>5. Tells(f, n, s, t4, w4)
  <2>1. After(n, " ") = s
    BY DEF After
  <2>2. "up" \in Plain /\ Digits(Up(r)) \in Plain
    BY NamesArePlain DEF Writable
  <2> QED
    BY <2>1, <2>2, NumberTells
<1>6. Tells(f, s, s, t5, w5)
  <2>1. After(s, ",") = s
    BY DEF After
  <2>2. "response_ms" \in Plain /\ Digits(r.response_ms) \in Plain
    BY NamesArePlain DEF Writable
  <2> QED
    BY <2>1, <2>2, NumberTells
<1>7. /\ Tells(f, s, s, StatusField(r), StatusWords(r))
      /\ Tells(f, s, s, ErrorField(r), ErrorWords(r))
      /\ Tells(f, s, s, MetricFields(r), MetricWords(r))
  BY StatusTells, ErrorTells, MetricTells DEF Writable
<1>8. Tells(f, s, s, t9, w9)
  <2>1. PICK d \in Plain : d = Digits(r.timestamp)
    BY DEF Writable
  <2>2. IsRead(f, s, One(d), One(d))
    BY PlainIsRead
  <2>3. /\ " " \in Characters \ f.ends /\ Parts(f, s, " ") /\ After(s, " ") = s
        /\ d \in Characters
    BY LineMarks DEF Plain, Inert
  <2>4. Tells(f, s, s, Cat(One(" "), One(d)), <<One(d)>>)
    BY <2>2, <2>3, WordTells
  <2>5. <<" ", d>> = Cat(One(" "), One(d)) /\ <<d>> = One(d)
    BY <2>3, FewCharacters DEF One
  <2> QED
    BY <2>1, <2>4, <2>5
<1>9. ToLineProtocol(r)
      = Cat(Cat(Cat(Cat(Cat(Cat(Cat(Cat(Cat(t0, t1), t2), t3), t4), t5), StatusField(r)),
                ErrorField(r)), MetricFields(r)), t9)
  BY Zenon DEF ToLineProtocol, Cat
<1>10. LineReadsBack(r)
       <=> ReadWords(f, ToLineProtocol(r))
           = Join(Join(Join(Join(Join(Join(Join(Join(Join(w0, w1), w2), w3), w4), w5),
                       StatusWords(r)), ErrorWords(r)), MetricWords(r)), w9)
  BY Zenon DEF LineReadsBack, Join, StatusWords, ErrorWords, MetricWords
<1> HIDE DEF f, n, s, t0, t1, t2, t3, t4, t5, t9, w0, w1, w2, w3, w4, w5, w9
<1>11. Starts(f, n, Cat(Cat(Cat(t0, t1), t2), t3), Join(Join(Join(w0, w1), w2), w3))
  BY <1>1, <1>2, <1>3, <1>4, StartsOn
<1>12. PICK t, w : /\ t = Cat(Cat(Cat(t0, t1), t2), t3) /\ w = Join(Join(Join(w0, w1), w2), w3)
  OBVIOUS
<1>13. Starts(f, s, Cat(Cat(Cat(t, t4), t5), StatusField(r)),
              Join(Join(Join(w, w4), w5), StatusWords(r)))
  BY <1>5, <1>6, <1>7, <1>11, <1>12, StartsOn
<1>14. PICK u, v : /\ u = Cat(Cat(Cat(t, t4), t5), StatusField(r))
                   /\ v = Join(Join(Join(w, w4), w5), StatusWords(r))
  OBVIOUS
<1>15. Starts(f, s, Cat(Cat(Cat(u, ErrorField(r)), MetricFields(r)), t9),
              Join(Join(Join(v, ErrorWords(r)), MetricWords(r)), w9))
  BY <1>7, <1>8, <1>13, <1>14, StartsOn
<1>16. s # "inside"
  BY DEF s
<1>17. ReadWords(f, Cat(Cat(Cat(u, ErrorField(r)), MetricFields(r)), t9))
       = Join(Join(Join(v, ErrorWords(r)), MetricWords(r)), w9)
  BY <1>15, <1>16, RecordIsRead
<1> QED
  BY <1>9, <1>10, <1>12, <1>14, <1>17

\* The result of an accepted probe with an inert name and target can be written.
LEMMA ReportIsWritable ==
    ASSUME NEW p, NEW o \in Outcomes, p.type \in Types,
           p.name \in Seq(Inert), p.target.text \in Seq(Inert)
    PROVE  Writable(Report(p, o))
<1>1. PICK r : r = Report(p, o)
  OBVIOUS
<1>2. Printable(r, p, o)
  BY <1>1, ReportPrintable
<1>3. \A n \in {0, 1, o.elapsed, o.now} \cup Statuses \cup ({o.certificate} \ {NoCertificate}) :
         Digits(n) \in Plain
  <2>1. \A n \in {0, 1, o.elapsed, o.now} \cup Statuses \cup ({o.certificate} \ {NoCertificate}) :
           Digits(n) \in STRING \ (Controls \cup Marks)
    BY StartupAssumption DEF TypedOutcome
  <2> QED
    BY <2>1 DEF Plain, Inert, Characters
<1>4. {Digits(Up(r)), Digits(r.response_ms), Digits(r.timestamp)} \subseteq Plain
  <2>1. Up(r) \in {0, 1} /\ r.response_ms \in {0, o.elapsed} /\ r.timestamp = o.now
    BY <1>2 DEF Up, Printable
  <2> QED
    BY <1>3, <2>1
<1>5. Optional(r)
  <2>1. r.status_code = <<>> \/ \E s : Digits(s) \in Plain /\ r.status_code = <<s>>
    <3>1. \A s \in Statuses : Digits(s) \in Plain
      BY <1>3
    <3> QED
      BY <1>2, <3>1 DEF Printable
  <2>2. r.error = <<>> \/ \E e \in Seq(Inert) : r.error = <<e>>
    BY <1>2, EscapedIsInert DEF Printable
  <2>3. r.metrics = <<>> \/ \E v : /\ Digits(v) \in Plain
                                   /\ r.metrics = <<[key |-> TlsCertExpiryDays, value |-> v]>>
    <3>1. o.certificate # NoCertificate => Digits(o.certificate) \in Plain
      BY <1>3
    <3> QED
      BY <1>2, <3>1 DEF Printable
  <2> QED
    BY <2>1, <2>2, <2>3 DEF Optional
<1> QED
  BY <1>1, <1>2, <1>4, <1>5 DEF Writable, Printable
-----------------------------------------------------------------------------
(***************************************************************************)
(* A sample of the exposition.                                             *)
(***************************************************************************)

\* The same string, put together in two ways.
LEMMA RightParts ==
    \A s, t, u, v \in Strings : Cat(Cat(Cat(s, t), u), v) = Cat(s, Cat(Cat(t, u), v))
  BY StringLaws

\* The text of a label around its value.
LabelText(b, name, e) ==
    Cat(Cat(Cat(One(b), One(name)), One("=")), Cat(Cat(One(Quote), e), One(Quote)))

\* It is what Label puts together.
LEMMA LabelTexts ==
    \A b, n \in Characters, e \in Strings :
        (<<b, n, "=", Quote>> \o e) \o <<Quote>> = LabelText(b, n, e)
<1> TAKE b, n \in Characters, e \in Strings
<1>1. "=" \in Characters /\ Quote \in Characters
  BY DEF Characters, Words
<1>2. <<b, n, "=", Quote>> = Cat(Cat(Cat(One(b), One(n)), One("=")), One(Quote))
  BY <1>1, FewCharacters
<1>3. PICK l : l = Cat(Cat(One(b), One(n)), One("="))
  OBVIOUS
<1>4. l \in Strings /\ One(Quote) \in Strings
  BY <1>1, <1>3, StringLaws
<1>5. Cat(Cat(Cat(l, One(Quote)), e), One(Quote)) = Cat(l, Cat(Cat(One(Quote), e), One(Quote)))
  BY <1>4, RightParts
<1>6. (<<b, n, "=", Quote>> \o e) \o <<Quote>> = Cat(Cat(<<b, n, "=", Quote>>, e), One(Quote))
  BY DEF Cat, One
<1> QED
  BY <1>2, <1>3, <1>5, <1>6 DEF LabelText

\* A label of a sample.
LEMMA LabelTells ==
    ASSUME NEW before \in {"{", ","}, NEW name \in Plain, NEW v \in Seq(Inert)
    PROVE  Tells(LabelFormat, "outside", "outside", Label(before, name, v), << <<name>>, v >>)
<1> DEFINE f == LabelFormat
           e == EscapeLabel(v)
<1>1. IsRead(f, "outside", One(name), One(name))
  BY PlainIsRead
<1>2. {"{", ",", "=", Quote} \subseteq Characters \ f.ends
  <2>1. {"{", ",", "=", Quote} \subseteq Inert
    BY WordsAreInert DEF Words
  <2> QED
    BY <2>1, FormatFields
<1>3. IsRead(f, "outside", Cat(Cat(One(Quote), e), One(Quote)), v)
  <2>1. IsRead(f, "inside", e, v)
    BY QuotedIsRead, QuotedStaysInert
  <2>2. Quote # f.escape
    BY FormatFields
  <2> HIDE DEF e, f
  <2> QED
    BY <1>2, <2>1, <2>2, QuoteTells
<1>4. Parts(f, "outside", before) /\ Parts(f, "outside", "=")
  BY FormatFields DEF Parts
<1>5. After("outside", before) = "outside" /\ After("outside", "=") = "outside"
  BY DEF After
<1> HIDE DEF f, e
<1>6. Tells(f, "outside", "outside",
            Cat(Cat(Cat(One(before), One(name)), One("=")), Cat(Cat(One(Quote), e), One(Quote))),
            <<One(name), v>>)
  BY <1>1, <1>2, <1>3, <1>4, <1>5, PairTells
<1>7. before \in Characters /\ name \in Characters /\ e \in Strings
  <2>1. before \in Characters
    BY <1>2
  <2>2. name \in Characters
    BY DEF Plain, Inert
  <2>3. e \in Strings
    BY EscapeQuotedParts, QuotedStaysInert DEF e
  <2> QED
    BY <2>1, <2>2, <2>3
<1>8. Label(before, name, v) = LabelText(before, name, e)
  <2>1. Label(before, name, v) = (<<before, name, "=", Quote>> \o e) \o <<Quote>>
    BY DEF Label, e
  <2>2. PICK b \in Characters : b = before
    BY <1>7
  <2> QED
    BY <1>7, <2>1, LabelTexts
<1>9. <<name>> = One(name)
  BY DEF One
<1> QED
  BY <1>6, <1>8, <1>9 DEF f, LabelText

\* A sample is read as what the result is and the value.
LEMMA SampleIsRead ==
    ASSUME NEW r, Writable(r), NEW value, Digits(value) \in Plain, NEW name
    PROVE  SampleReadsBack(r, value, RenderSample(name, r, value))
<1> DEFINE f == LabelFormat
           s == "outside"
           t1 == Label("{", "probe", r.probe_name)
           t2 == Label(",", "type", <<r.probe_type>>)
           t3 == Label(",", "target", r.target)
           t4 == <<"}", Digits(value)>>
           w1 == << <<"probe">>, r.probe_name >>
           w2 == << <<"type">>, <<r.probe_type>> >>
           w3 == << <<"target">>, r.target >>
           w4 == << <<Digits(value)>> >>
<1>1. Tells(f, s, s, t1, w1)
  BY NamesArePlain, LabelTells DEF Writable
<1>2. Tells(f, s, s, t2, w2)
  <2>1. <<r.probe_type>> \in Seq(Inert)
    BY NamesArePlain, ShortStrings DEF Writable, Plain
  <2> QED
    BY <2>1, NamesArePlain, LabelTells
<1>3. Tells(f, s, s, t3, w3)
  BY NamesArePlain, LabelTells DEF Writable
<1>4. Tells(f, s, s, t4, w4)
  <2>1. PICK d \in Plain : d = Digits(value)
    OBVIOUS
  <2>2. IsRead(f, s, One(d), One(d))
    BY PlainIsRead
  <2>3. /\ "}" \in Characters \ f.ends /\ Parts(f, s, "}") /\ After(s, "}") = s
        /\ d \in Characters /\ "}" \in Characters
    <3>1. "}" \in Inert
      BY WordsAreInert DEF Words
    <3> QED
      BY <3>1, FormatFields DEF Parts, After, Plain, Inert
  <2>4. Tells(f, s, s, Cat(One("}"), One(d)), <<One(d)>>)
    BY <2>2, <2>3, WordTells
  <2>5. <<"}", d>> = Cat(One("}"), One(d)) /\ <<d>> = One(d)
    BY <2>3, FewCharacters DEF One
  <2> QED
    BY <2>1, <2>4, <2>5
<1>5. f.place = s
  BY FormatFields
<1>6. Starts(f, s, <<>>, << <<>> >>)
  BY <1>5, NothingIsRead, StartsWithWord
<1>7. RenderSample(name, r, value).text = Cat(Cat(Cat(t1, t2), t3), t4)
  BY DEF RenderSample, Cat
<1>8. SampleReadsBack(r, value, RenderSample(name, r, value))
      <=> ReadWords(f, RenderSample(name, r, value).text)
          = Join(Join(Join(Join(<< <<>> >>, w1), w2), w3), w4)
  BY Zenon DEF SampleReadsBack, Join
<1>9. s # "inside"
  OBVIOUS
<1>10. t1 \in Strings
  BY <1>1 DEF Tells, Text
<1> HIDE DEF f, s, t1, t2, t3, t4, w1, w2, w3, w4
<1>11. PICK none : none = << <<>> >>
  OBVIOUS
<1>12. Starts(f, s, Cat(<<>>, t1), Join(none, w1))
  BY <1>1, <1>6, <1>11, StartsOn
<1>13. Cat(<<>>, t1) = t1
  BY <1>10, StringLaws
<1>14. Starts(f, s, Cat(Cat(Cat(t1, t2), t3), t4), Join(Join(Join(Join(none, w1), w2), w3), w4))
  BY <1>2, <1>3, <1>4, <1>12, <1>13, StartsOn
<1>15. ReadWords(f, Cat(Cat(Cat(t1, t2), t3), t4))
       = Join(Join(Join(Join(none, w1), w2), w3), w4)
  BY <1>9, <1>14, RecordIsRead
<1> QED
  BY <1>7, <1>8, <1>11, <1>15
-----------------------------------------------------------------------------
(***************************************************************************)
(* The query of a write URL.                                               *)
(***************************************************************************)

\* A byte of a query: itself, or behind a percent sign.
UrlByte == [x \in Characters |-> IF x \in Unreserved THEN One(x) ELSE Cat(One("%"), One(x))]

\* The characters of a string put together from two.
LEMMA CharactersOf ==
    /\ ToSet(<<>>) = {}
    /\ \A x : ToSet(One(x)) = {x}
    /\ \A s, t \in Strings : ToSet(Cat(s, t)) = ToSet(s) \cup ToSet(t)
<1>1. ToSet(<<>>) = {} /\ \A x : ToSet(One(x)) = {x}
  BY DEF ToSet, One
<1>2. ASSUME NEW s \in Strings, NEW t \in Strings
      PROVE  ToSet(Cat(s, t)) = ToSet(s) \cup ToSet(t)
  <2>1. PICK u : u = s \o t
    OBVIOUS
  <2>2. /\ Len(u) = Len(s) + Len(t) /\ Len(s) \in Nat /\ Len(t) \in Nat
        /\ DOMAIN u = 1 .. Len(u) /\ DOMAIN s = 1 .. Len(s) /\ DOMAIN t = 1 .. Len(t)
        /\ \A i \in 1 .. Len(s) : u[i] = s[i]
        /\ \A i \in 1 .. Len(t) : u[Len(s) + i] = t[i]
    BY <2>1 DEF Strings
  <2>3. \A i \in DOMAIN u : i \in DOMAIN s \/ i - Len(s) \in DOMAIN t
    BY <2>2
  <2>4. \A i \in DOMAIN u : (\E j \in DOMAIN s : u[i] = s[j]) \/ (\E j \in DOMAIN t : u[i] = t[j])
    <3> TAKE i \in DOMAIN u
    <3>1. CASE i \in DOMAIN s
      BY <2>2, <3>1
    <3>2. CASE i - Len(s) \in DOMAIN t
      <4>1. Len(s) + (i - Len(s)) = i
        BY <2>2
      <4>2. u[i] = t[i - Len(s)]
        BY <2>2, <3>2, <4>1
      <4> QED
        BY <3>2, <4>2
    <3> QED
      BY <2>3, <3>1, <3>2
  <2>5. \A j \in DOMAIN s : j \in DOMAIN u /\ u[j] = s[j]
    BY <2>2
  <2>6. \A j \in DOMAIN t : Len(s) + j \in DOMAIN u /\ u[Len(s) + j] = t[j]
    BY <2>2
  <2>7. ToSet(u) = ToSet(s) \cup ToSet(t)
    BY <2>4, <2>5, <2>6 DEF ToSet
  <2> QED
    BY <2>1, <2>7 DEF Cat
<1> QED
  BY <1>1, <1>2

\* urlencode goes byte by byte.
LEMMA UrlBytes ==
    /\ UrlByte \in [Characters -> Strings]
    /\ \A x \in Characters : /\ x \in Unreserved => UrlByte[x] = One(x)
                             /\ x \notin Unreserved => UrlByte[x] = Cat(One("%"), One(x))
    /\ \A s : Utf8(s) \in Strings => UrlEncode(s) = Spelled(Utf8(s), UrlByte)
<1>1. "%" \in Characters
  BY DEF Characters, Words
<1>2. UrlByte \in [Characters -> Strings]
  BY <1>1, StringLaws DEF UrlByte
<1>3. ASSUME NEW s, Utf8(s) \in Strings PROVE UrlEncode(s) = Spelled(Utf8(s), UrlByte)
  <2>1. PICK u : u = Utf8(s)
    OBVIOUS
  <2>2. \A i \in DOMAIN u : u[i] \in Characters
    BY <1>3, <2>1 DEF Strings
  <2>3. \A i \in DOMAIN u : (IF u[i] \in Unreserved THEN <<u[i]>> ELSE <<"%", u[i]>>)
                            = UrlByte[u[i]]
    <3> TAKE i \in DOMAIN u
    <3>1. PICK x \in Characters : x = u[i]
      BY <2>2
    <3>2. <<"%", x>> = Cat(One("%"), One(x))
      BY <1>1, FewCharacters
    <3> QED
      BY <3>1, <3>2 DEF UrlByte, One
  <2>4. [i \in DOMAIN u |-> IF u[i] \in Unreserved THEN <<u[i]>> ELSE <<"%", u[i]>>]
        = [i \in DOMAIN u |-> UrlByte[u[i]]]
    BY <2>3
  <2>5. UrlEncode(s) = FlattenSeq([i \in DOMAIN u |->
                           IF u[i] \in Unreserved THEN <<u[i]>> ELSE <<"%", u[i]>>])
    BY <2>1 DEF UrlEncode
  <2> QED
    BY <2>1, <2>4, <2>5 DEF Spelled
<1> QED
  BY <1>2, <1>3 DEF UrlByte

\* No byte is lost.
LEMMA BytesAppear ==
    \A s \in Strings : ToSet(s) \subseteq ToSet(Spelled(s, UrlByte))
<1> DEFINE Bad == {s \in Strings : ~(ToSet(s) \subseteq ToSet(Spelled(s, UrlByte)))}
<1>1. <<>> \notin Bad
  BY CharactersOf
<1>2. ASSUME NEW u \in Strings, NEW x \in Characters, Cat(u, One(x)) \in Bad, u \notin Bad
      PROVE  FALSE
  <2>1. PICK v, b : v = Spelled(u, UrlByte) /\ b = UrlByte[x]
    OBVIOUS
  <2>2. /\ v \in Strings /\ b \in Strings /\ One(x) \in Strings
        /\ Spelled(Cat(u, One(x)), UrlByte) = Cat(v, b)
    BY <2>1, UrlBytes, SpelledAppend, StringLaws
  <2>3. x \in ToSet(b)
    <3>1. "%" \in Characters
      BY DEF Characters, Words
    <3>2. b = One(x) \/ b = Cat(One("%"), One(x))
      BY <2>1, UrlBytes
    <3>3. One("%") \in Strings
      BY <3>1, StringLaws
    <3> QED
      BY <2>2, <3>2, <3>3, CharactersOf
  <2>4. ToSet(Cat(v, b)) = ToSet(v) \cup ToSet(b) /\ ToSet(Cat(u, One(x))) = ToSet(u) \cup {x}
    BY <2>2, CharactersOf
  <2>5. ToSet(u) \subseteq ToSet(v)
    BY <1>2, <2>1
  <2>6. ToSet(Cat(u, One(x))) \subseteq ToSet(Spelled(Cat(u, One(x)), UrlByte))
    BY <2>2, <2>3, <2>4, <2>5
  <2> QED
    BY <1>2, <2>6
<1>3. Bad = {}
  <2>1. Bad \subseteq Strings
    OBVIOUS
  <2> HIDE DEF Bad
  <2> QED
    BY <1>1, <1>2, <2>1, StringInduction
<1> QED
  BY <1>3

\* The format of a query.
UrlReader(format) ==
    /\ format.escape = "%" /\ format.separators = {"=", "&"} /\ format.ends = {}
    /\ format.place = "no strings"

\* An encoded value is read as the bytes it was, if the format takes them behind the escape.
LEMMA UrlIsRead ==
    ASSUME NEW format, UrlReader(format), NEW s, Utf8(s) \in Strings,
           ToSet(UrlEncode(s)) \subseteq format.special
    PROVE  IsRead(format, "no strings", UrlEncode(s), Utf8(s))
<1> DEFINE h == [u \in Strings |-> Spelled(u, UrlByte)]
           A == {x \in Characters : x \in format.special}
<1>1. /\ h[<<>>] = <<>>
      /\ \A u \in Strings, x \in Characters : h[Cat(u, One(x))] = Cat(h[u], UrlByte[x])
  BY UrlBytes, SpelledAppend, StringLaws
<1>2. UrlEncode(s) = h[Utf8(s)]
  BY UrlBytes
<1>3. Utf8(s) \in Seq(A)
  <2>1. PICK u \in Strings : u = Utf8(s)
    OBVIOUS
  <2>2. ToSet(u) \subseteq format.special
    BY <2>1, BytesAppear, UrlBytes
  <2>3. \A i \in DOMAIN u : u[i] \in A
    BY <2>2 DEF ToSet, Strings
  <2>4. Len(u) \in Nat /\ DOMAIN u = 1 .. Len(u) /\ u = [i \in 1 .. Len(u) |-> u[i]]
    BY DEF Strings
  <2> HIDE DEF A
  <2>5. u \in [1 .. Len(u) -> A]
    BY <2>3, <2>4
  <2> QED
    BY <2>1, <2>4, <2>5, IsASeq
<1>4. ASSUME NEW x \in A PROVE IsRead(format, "no strings", UrlByte[x], One(x))
  <2>1. x \in Characters \ format.ends /\ x \in format.special
    BY DEF UrlReader
  <2>2. "%" \in Characters /\ format.escape \in Characters \ format.ends
    BY DEF Characters, Words, UrlReader
  <2>3. CASE x \in Unreserved
    <3>1. IsPlain(format, "no strings", x)
      BY <2>3 DEF IsPlain, Unreserved, UrlReader
    <3>2. UrlByte[x] = One(x)
      BY <2>1, <2>3, UrlBytes
    <3> QED
      BY <2>1, <3>1, <3>2, CharacterIsRead
  <2>4. CASE x \notin Unreserved
    <3>1. UrlByte[x] = Cat(One(format.escape), One(x))
      BY <2>1, <2>4, UrlBytes DEF UrlReader
    <3> QED
      BY <2>1, <2>2, <3>1, CharacterIsRead
  <2> QED
    BY <2>3, <2>4
<1> HIDE DEF h, A
<1>5. \A u \in Strings : u \in Seq(A) => IsRead(format, "no strings", h[u], u)
  BY <1>1, <1>4, EscapeIsRead
<1> QED
  BY <1>2, <1>3, <1>5

\* The text of a query, as its words and the marks between them.
QueryText(a, b) ==
    Cat(Cat(Cat(One("org"), Cat(One("="), a)),
            Cat(Cat(Cat(One("&"), One("bucket")), One("=")), b)),
        Cat(Cat(Cat(One("&"), One("precision")), One("=")), One("ms")))

\* It is what the writer puts together (writer.rs, new).
LEMMA QueryTexts ==
    \A a, b \in Strings :
        <<"org", "=">> \o a \o <<"&", "bucket", "=">> \o b \o <<"&", "precision", "=", "ms">>
        = QueryText(a, b)
<1> TAKE a, b \in Strings
<1>1. {"org", "=", "&", "bucket", "precision", "ms"} \subseteq Characters
  BY DEF Characters, Words
<1>2. <<"org", "=">> = Cat(One("org"), One("="))
  BY <1>1, FewCharacters
<1>3. <<"&", "bucket", "=">> = Cat(Cat(One("&"), One("bucket")), One("="))
  BY <1>1, FewCharacters
<1>4. <<"&", "precision", "=", "ms">>
      = Cat(Cat(Cat(One("&"), One("precision")), One("=")), One("ms"))
  BY <1>1, FewCharacters
<1>5. PICK o, e, t, u : /\ o = One("org") /\ e = One("=")
                        /\ t = Cat(Cat(One("&"), One("bucket")), One("="))
                        /\ u = Cat(Cat(Cat(One("&"), One("precision")), One("=")), One("ms"))
  OBVIOUS
<1>6. o \in Strings /\ e \in Strings /\ t \in Strings /\ u \in Strings
  BY <1>1, <1>5, StringLaws
<1>7. Cat(Cat(Cat(Cat(Cat(o, e), a), t), b), u) = Cat(Cat(Cat(o, Cat(e, a)), Cat(t, b)), u)
  <2>1. PICK x : x = Cat(o, Cat(e, a))
    OBVIOUS
  <2>2. x \in Strings /\ Cat(Cat(o, e), a) = x
    BY <1>6, <2>1, StringLaws
  <2>3. Cat(Cat(x, t), b) = Cat(x, Cat(t, b))
    BY <1>6, <2>2, StringLaws
  <2> QED
    BY <2>1, <2>2, <2>3
<1>8. <<"org", "=">> \o a \o <<"&", "bucket", "=">> \o b \o <<"&", "precision", "=", "ms">>
      = Cat(Cat(Cat(Cat(Cat(o, e), a), t), b), u)
  BY <1>2, <1>3, <1>4, <1>5 DEF Cat
<1> QED
  BY <1>5, <1>7, <1>8 DEF QueryText

\* The bytes of a string are a string.
LEMMA Utf8IsString == \A s \in Seq(STRING) : Utf8(s) \in Strings
<1> TAKE s \in Seq(STRING)
<1>1. s \in Strings
  BY ShortStrings DEF Strings, Characters
<1>2. <<"c3", "a4">> \in Strings
  <2>1. "c3" \in Characters /\ "a4" \in Characters
    BY DEF Characters, Words
  <2> QED
    BY <2>1, ShortStrings DEF Strings
<1> QED
  BY <1>1, <1>2, ReplaceStays DEF Utf8

\* The query of a write URL is read as the organisation and the bucket that were meant.
LEMMA QueryIsRead ==
    ASSUME NEW influx, influx.org \in Seq(STRING), influx.bucket \in Seq(STRING)
    PROVE  QueryReadsBack(influx)
<1> DEFINE query == WriteQuery(influx)
           f == [escape |-> "%", special |-> ToSet(query), separators |-> {"=", "&"},
                 ends |-> {}, place |-> "no strings"]
           n == "no strings"
           org == Utf8(influx.org)
           bucket == Utf8(influx.bucket)
           a == UrlEncode(influx.org)
           b == UrlEncode(influx.bucket)
           t0 == One("org")
           t1 == Cat(One("="), a)
           t2 == Cat(Cat(Cat(One("&"), One("bucket")), One("=")), b)
           t3 == Cat(Cat(Cat(One("&"), One("precision")), One("=")), One("ms"))
<1>1. org \in Strings /\ bucket \in Strings
  BY Utf8IsString
<1>2. a \in Strings /\ b \in Strings
  BY <1>1, UrlBytes, SpelledAppend
<1>3. query = Cat(Cat(Cat(t0, t1), t2), t3)
  <2>1. query = QueryText(a, b)
    BY <1>2, QueryTexts DEF WriteQuery
  <2> QED
    BY <2>1 DEF QueryText
<1>4. {"org", "=", "&", "bucket", "precision", "ms", "%"} \subseteq Characters
  BY DEF Characters, Words
<1>5. ToSet(a) \subseteq ToSet(query) /\ ToSet(b) \subseteq ToSet(query)
  <2>1. /\ One("=") \in Strings /\ Cat(Cat(One("&"), One("bucket")), One("=")) \in Strings
        /\ t0 \in Strings /\ t3 \in Strings
    BY <1>4, StringLaws
  <2>2. t1 \in Strings /\ t2 \in Strings
    BY <1>2, <2>1, StringLaws
  <2>3. ToSet(a) \subseteq ToSet(t1) /\ ToSet(b) \subseteq ToSet(t2)
    BY <1>2, <2>1, CharactersOf
  <2> HIDE DEF query, a, b, t0, t1, t2, t3
  <2>4. Cat(t0, t1) \in Strings /\ Cat(Cat(t0, t1), t2) \in Strings
    BY <2>1, <2>2, StringLaws
  <2>5. /\ ToSet(Cat(t0, t1)) = ToSet(t0) \cup ToSet(t1)
        /\ ToSet(Cat(Cat(t0, t1), t2)) = ToSet(Cat(t0, t1)) \cup ToSet(t2)
        /\ ToSet(Cat(Cat(Cat(t0, t1), t2), t3)) = ToSet(Cat(Cat(t0, t1), t2)) \cup ToSet(t3)
    BY <2>1, <2>2, <2>4, CharactersOf
  <2> QED
    BY <1>3, <2>3, <2>5
<1>6. UrlReader(f) /\ f.special = ToSet(query)
  BY DEF UrlReader
<1>7. QueryReadsBack(influx)
      <=> ReadWords(f, query)
          = Join(Join(<< <<"org">>, org >>, << <<"bucket">>, bucket >>),
                 << <<"precision">>, <<"ms">> >>)
  BY Zenon DEF QueryReadsBack, Join
<1> HIDE DEF f, query
<1>8. IsRead(f, n, a, org) /\ IsRead(f, n, b, bucket)
  BY <1>1, <1>5, <1>6, UrlIsRead
<1>9. /\ {"org", "=", "&", "bucket", "precision", "ms"} \subseteq Characters \ f.ends
      /\ Parts(f, n, "=") /\ Parts(f, n, "&")
      /\ After(n, "=") = n /\ After(n, "&") = n
  BY <1>4, <1>6 DEF Parts, After, Quote, UrlReader
<1>10. \A x \in {"org", "bucket", "precision", "ms"} : IsRead(f, n, One(x), One(x))
  <2>1. \A x \in {"org", "bucket", "precision", "ms"} : IsPlain(f, n, x)
    BY <1>6 DEF IsPlain, UrlReader
  <2> QED
    BY <1>9, <2>1, CharacterIsRead
<1> HIDE DEF n, a, b, org, bucket
<1>11. Starts(f, n, t0, <<One("org")>>)
  <2>1. f.place = n
    BY <1>6 DEF UrlReader, n
  <2> QED
    BY <1>10, <2>1, StartsWithWord
<1>12. Tells(f, n, n, t1, <<org>>)
  BY <1>8, <1>9, WordTells
<1>13. Tells(f, n, n, t2, <<One("bucket"), bucket>>)
  BY <1>8, <1>9, <1>10, PairTells
<1>14. Tells(f, n, n, t3, <<One("precision"), One("ms")>>)
  BY <1>8, <1>9, <1>10, PairTells
<1> HIDE DEF t0, t1, t2, t3
<1>15. Starts(f, n, Cat(Cat(Cat(t0, t1), t2), t3),
              Join(Join(Join(<<One("org")>>, <<org>>), <<One("bucket"), bucket>>),
                   <<One("precision"), One("ms")>>))
  BY <1>11, <1>12, <1>13, <1>14, StartsOn
<1>16. Join(<<One("org")>>, <<org>>) = <<One("org"), org>>
  <2>1. One("org") \in Strings
    BY <1>4, StringLaws
  <2> QED
    BY <1>1, <2>1, JoinedWords
<1>17. n # "inside"
  BY DEF n
<1>18. ReadWords(f, Cat(Cat(Cat(t0, t1), t2), t3))
       = Join(Join(<<One("org"), org>>, <<One("bucket"), bucket>>), <<One("precision"), One("ms")>>)
  BY <1>15, <1>16, <1>17, RecordIsRead
<1> QED
  BY <1>3, <1>7, <1>18 DEF One
-----------------------------------------------------------------------------
(***************************************************************************)
(* What loading makes of the strings of a file.                            *)
(***************************************************************************)

\* The probes of an accepted file are a list, in which no name occurs twice.
LEMMA ProbesAreListed ==
    ASSUME NEW f, NEW e, Loads(f, e), TypedFile(f)
    PROVE  LET probes == Configured(f, e).probes IN
           /\ \E n \in Nat : DOMAIN probes = 1 .. n
           /\ \A i, j \in DOMAIN probes : probes[i].name = probes[j].name => i = j
<1> DEFINE all == Complete(AppConfig, f)
           given == [n \in DOMAIN all.probes |-> Complete(ProbeConfig, all.probes[n])]
           over == Overridden(Parsed(f), e)
<1>1. /\ ("probes" \in DOMAIN f => all.probes = f.probes)
      /\ ("probes" \notin DOMAIN f => all.probes = <<>>)
      /\ "probes" \in DOMAIN all
  BY DEF Complete, AppConfig, Schema
<1>2. "probes" \in DOMAIN over /\ over["probes"] = given
  BY <1>1 DEF Parsed, Overridden, Sections
<1>3. DOMAIN Configured(f, e).probes = DOMAIN all.probes
  BY <1>2 DEF Configured, Escaped
<1>4. \E n \in Nat : DOMAIN all.probes = 1 .. n
  <2>1. CASE "probes" \in DOMAIN f
    BY <1>1, <2>1 DEF TypedFile, Loads
  <2>2. CASE "probes" \notin DOMAIN f
    <3>1. DOMAIN all.probes = 1 .. 0
      BY <1>1, <2>2
    <3> QED
      BY <3>1
  <2> QED
    BY <2>1, <2>2
<1>5. ValidProbes(Configured(f, e).probes)
  BY DEF Loads, Valid
<1> QED
  BY <1>3, <1>4, <1>5 DEF ValidProbes

\* What the operator wrote as a name or a target has lost its control characters.
LEMMA ProbeIsInert ==
    ASSUME NEW f, NEW e, Loads(f, e), TypedFile(f), NEW i \in DOMAIN Configured(f, e).probes
    PROVE  LET p == Configured(f, e).probes[i] IN
           p.type \in Types /\ p.name \in Seq(Inert) /\ p.target.text \in Seq(Inert)
<1> DEFINE p == Configured(f, e).probes[i]
           g == f.probes[i]
<1>1. /\ p.type \in Types /\ "probes" \in DOMAIN f /\ i \in DOMAIN f.probes
      /\ p.name = EscapeControlChars(g.name) /\ p = EscapedProbe(Complete(ProbeConfig, g))
  BY ProbeAccepted
<1>2. g.name \in Seq(STRING) /\ g.target \in [text : Seq(STRING), shape : STRING]
      /\ "target" \in DOMAIN g
  <2>1. TypedProbe(g)
    BY <1>1 DEF TypedFile, Loads
  <2>2. Accepts(ProbeConfig, g)
    BY <1>1 DEF Loads, Parses, Complete, AppConfig, Schema
  <2> QED
    BY <2>1, <2>2 DEF TypedProbe, Accepts, ProbeConfig, Schema
<1>3. p.target.text = EscapeControlChars(g.target.text)
  <2>1. PICK c : c = Complete(ProbeConfig, g)
    OBVIOUS
  <2>2. "target" \in DOMAIN c /\ c.target = g.target
    BY <1>2, <2>1 DEF Complete
  <2>3. p = EscapedProbe(c)
    BY <1>1, <2>1
  <2>4. p.target = [c.target EXCEPT !.text = EscapeControlChars(@)]
    BY <2>2, <2>3 DEF EscapedProbe
  <2>5. PICK t \in [text : Seq(STRING), shape : STRING] : t = c.target
    BY <1>2, <2>2
  <2>6. [t EXCEPT !.text = EscapeControlChars(@)].text = EscapeControlChars(t.text)
    BY <2>5
  <2> QED
    BY <2>2, <2>4, <2>5, <2>6
<1>4. Seq(STRING) \subseteq Seq(Characters)
  BY ShortStrings DEF Characters
<1>5. g.target.text \in Seq(STRING)
  BY <1>2
<1> QED
  BY <1>1, <1>2, <1>3, <1>4, <1>5, EscapedIsInert

\* The organisation and the bucket are strings, wherever they come from.
LEMMA PlaceOfWrites ==
    ASSUME WorldFits, NEW f, Loads(f, env), TypedFile(f)
    PROVE  /\ Configured(f, env).influx.org \in Seq(STRING)
           /\ Configured(f, env).influx.bucket \in Seq(STRING)
<1>1. ASSUME NEW k \in {"org", "bucket"}
      PROVE  Configured(f, env)["influx"][k] \in Seq(STRING)
  <2>1. Parses(f) /\ "influx" \in DOMAIN Sections
    BY DEF Loads, Sections
  <2>2. "influx" \in DOMAIN f /\ k \in DOMAIN f.influx /\ f.influx[k] \in Seq(STRING)
    <3>1. "influx" \in DOMAIN f
      BY <2>1 DEF Parses, Accepts, AppConfig, Schema
    <3>2. Accepts(InfluxConfig, f.influx)
      BY <2>1, <3>1 DEF Parses, Sections
    <3> QED
      BY <2>1, <3>1, <3>2 DEF Accepts, InfluxConfig, Schema, TypedFile
  <2>3. Complete(AppConfig, f)["influx"] = f.influx
    BY <2>2 DEF Complete
  <2>4. k \in DOMAIN Parsed(f)["influx"] /\ Parsed(f)["influx"][k] = f.influx[k]
    BY <2>1, <2>2, <2>3, SectionParsed
  <2>5. Configured(f, env)["influx"][k] =
           IF <<"influx", k>> \in DOMAIN env /\ Usable(<<"influx", k>>, env[<<"influx", k>>])
           THEN env[<<"influx", k>>] ELSE Parsed(f)["influx"][k]
    BY <2>1, <2>4, SettingOverridden
  <2> QED
    BY <2>2, <2>4, <2>5 DEF WorldFits
<1> QED
  BY <1>1
-----------------------------------------------------------------------------
(***************************************************************************)
(* The exposition: lines of families, and the samples of a family.         *)
(***************************************************************************)

\* Lists of anything.
IsList(t) == Len(t) \in Nat /\ t = [i \in 1 .. Len(t) |-> t[i]]

\* What a list is made of that is put together from two.
LEMMA JoinedLists ==
    ASSUME NEW s, NEW t, IsList(s), IsList(t)
    PROVE  /\ IsList(Join(s, t)) /\ Len(Join(s, t)) = Len(s) + Len(t)
           /\ DOMAIN s = 1 .. Len(s) /\ DOMAIN t = 1 .. Len(t)
           /\ DOMAIN Join(s, t) = 1 .. Len(s) + Len(t)
           /\ \A i \in DOMAIN s : i \in DOMAIN Join(s, t) /\ Join(s, t)[i] = s[i]
           /\ \A i \in DOMAIN t :
                 Len(s) + i \in DOMAIN Join(s, t) /\ Join(s, t)[Len(s) + i] = t[i]
           /\ \A i \in DOMAIN Join(s, t) : i \in DOMAIN s \/ \E j \in DOMAIN t : i = Len(s) + j
<1> DEFINE C == {s[i] : i \in 1 .. Len(s)} \cup {t[i] : i \in 1 .. Len(t)}
<1>1. s \in Seq(C) /\ t \in Seq(C)
  <2>1. s \in [1 .. Len(s) -> C] /\ t \in [1 .. Len(t) -> C]
    BY DEF IsList
  <2> HIDE DEF C
  <2> QED
    BY <2>1, IsASeq DEF IsList
<1> HIDE DEF C
<1>2. PICK u \in Seq(C) : u = s \o t
  BY <1>1, ConcatProperties
<1>3. /\ Len(u) = Len(s) + Len(t) /\ Len(s) \in Nat /\ Len(t) \in Nat
      /\ DOMAIN u = 1 .. Len(u) /\ DOMAIN s = 1 .. Len(s) /\ DOMAIN t = 1 .. Len(t)
      /\ \A i \in 1 .. Len(s) : u[i] = s[i]
      /\ \A i \in 1 .. Len(t) : u[Len(s) + i] = t[i]
      /\ u = [i \in 1 .. Len(u) |-> u[i]]
  <2>1. /\ Len(u) = Len(s) + Len(t) /\ Len(s) \in Nat /\ Len(t) \in Nat
        /\ DOMAIN u = 1 .. Len(u) /\ DOMAIN s = 1 .. Len(s) /\ DOMAIN t = 1 .. Len(t)
    BY <1>1, <1>2
  <2>2. u = [i \in 1 .. Len(u) |-> u[i]]
    OBVIOUS
  <2>3. \A i \in 1 .. Len(s) : u[i] = s[i]
    BY <1>1, <1>2
  <2>4. \A i \in 1 .. Len(t) : u[Len(s) + i] = t[i]
    BY <1>1, <1>2
  <2> QED
    BY <2>1, <2>2, <2>3, <2>4
<1>4. \A i \in DOMAIN u : i \in DOMAIN s \/ \E j \in DOMAIN t : i = Len(s) + j
  <2> TAKE i \in DOMAIN u
  <2>1. i \in DOMAIN s \/ (i - Len(s) \in DOMAIN t /\ i = Len(s) + (i - Len(s)))
    BY <1>3
  <2> QED
    BY <2>1
<1>5. /\ \A i \in DOMAIN s : i \in DOMAIN u
      /\ \A i \in DOMAIN t : Len(s) + i \in DOMAIN u
  BY <1>3
<1>6. Join(s, t) = u
  BY <1>2 DEF Join
<1>7. IsList(u)
  BY <1>3 DEF IsList
<1> QED
  BY <1>3, <1>4, <1>5, <1>6, <1>7

\* The same by lengths.
ListOf(s, n) == IsList(s) /\ Len(s) = n

\* Each element of the one is an element of the whole, further back or not.
LEMMA JoinedParts ==
    \A s, t : \A n, m \in Nat : ListOf(s, n) /\ ListOf(t, m) =>
        /\ ListOf(Join(s, t), n + m) /\ DOMAIN Join(s, t) = 1 .. n + m
        /\ \A i \in 1 .. n : Join(s, t)[i] = s[i]
        /\ \A i \in 1 .. m : Join(s, t)[n + i] = t[i]
<1> TAKE s, t
<1> TAKE n, m \in Nat
<1> HAVE ListOf(s, n) /\ ListOf(t, m)
<1>1. DOMAIN s = 1 .. n /\ DOMAIN t = 1 .. m
  BY JoinedLists DEF ListOf
<1> QED
  BY <1>1, JoinedLists DEF ListOf

\* Short lists.
LEMMA ShortLists ==
    /\ IsList(<<>>) /\ Len(<<>>) = 0 /\ DOMAIN <<>> = {}
    /\ \A x : IsList(<<x>>) /\ Len(<<x>>) = 1 /\ <<x>>[1] = x
    /\ \A x, y : IsList(<<x, y>>) /\ Len(<<x, y>>) = 2 /\ <<x, y>>[2] = y
  BY DEF IsList

\* A text of families: each line belongs to one of `names`.
Orderly(text, names) ==
    /\ IsList(text) /\ HeadersAreRight(text)
    /\ \A i \in DOMAIN text : text[i].name \in names

\* Families of other names may follow.
LEMMA OrderlyJoin ==
    ASSUME NEW s, NEW t, NEW A, NEW B, Orderly(s, A), Orderly(t, B), A \cap B = {}
    PROVE  Orderly(Join(s, t), A \cup B)
<1>1. PICK u : u = Join(s, t)
  OBVIOUS
<1>2. PICK n : n = Len(s)
  OBVIOUS
<1>3. /\ IsList(u) /\ n \in Nat /\ Len(t) \in Nat
      /\ DOMAIN s = 1 .. n /\ DOMAIN t = 1 .. Len(t)
      /\ \A i \in DOMAIN s : i \in DOMAIN u /\ u[i] = s[i]
      /\ \A i \in DOMAIN t : n + i \in DOMAIN u /\ u[n + i] = t[i]
      /\ \A i \in DOMAIN u : i \in DOMAIN s \/ \E j \in DOMAIN t : i = n + j
  <2>1. IsList(s) /\ IsList(t)
    BY DEF Orderly
  <2>2. n \in Nat /\ Len(t) \in Nat
    BY <1>2, <2>1 DEF IsList
  <2> QED
    BY <1>1, <1>2, <2>1, <2>2, JoinedLists
<1>4. \A i \in DOMAIN u : u[i].name \in A \cup B
  BY <1>3 DEF Orderly
<1>5. ASSUME NEW i \in DOMAIN u PROVE u[i].header \/ (i > 1 /\ u[i - 1].name = u[i].name)
  <2>1. CASE i \in DOMAIN s
    <3>1. s[i].header \/ (i > 1 /\ s[i - 1].name = s[i].name)
      BY <2>1 DEF Orderly, HeadersAreRight
    <3>2. i > 1 => i - 1 \in DOMAIN s
      BY <1>3, <2>1
    <3> QED
      BY <1>3, <2>1, <3>1, <3>2
  <2>2. CASE \E j \in DOMAIN t : i = n + j
    <3>1. PICK j \in DOMAIN t : i = n + j
      BY <2>2
    <3>2. t[j].header \/ (j > 1 /\ t[j - 1].name = t[j].name)
      BY <3>1 DEF Orderly, HeadersAreRight
    <3>3. j > 1 => j - 1 \in DOMAIN t /\ n + (j - 1) = i - 1 /\ i > 1
      <4>1. n \in Nat /\ Len(t) \in Nat /\ j \in 1 .. Len(t) /\ DOMAIN t = 1 .. Len(t)
        BY <1>3
      <4> QED
        BY <3>1, <4>1
    <3>4. j > 1 => u[i - 1] = t[j - 1]
      BY <1>3, <3>3
    <3>5. u[i] = t[j]
      BY <1>3, <3>1
    <3> QED
      BY <3>2, <3>3, <3>4, <3>5
  <2> QED
    BY <1>3, <2>1, <2>2
<1>6. ASSUME NEW i \in DOMAIN u, NEW j \in DOMAIN u, u[i].header, u[j].header,
             u[i].name = u[j].name
      PROVE  i = j
  <2>1. CASE i \in DOMAIN s /\ j \in DOMAIN s
    BY <1>3, <1>6, <2>1 DEF Orderly, HeadersAreRight
  <2>2. CASE (\E k \in DOMAIN t : i = n + k) /\ (\E k \in DOMAIN t : j = n + k)
    <3>1. PICK k \in DOMAIN t, l \in DOMAIN t : i = n + k /\ j = n + l
      BY <2>2
    <3>2. u[i] = t[k] /\ u[j] = t[l]
      BY <1>3, <3>1
    <3>3. k = l
      BY <1>6, <3>2 DEF Orderly, HeadersAreRight
    <3> QED
      BY <3>1, <3>3
  <2>3. CASE i \in DOMAIN s /\ (\E k \in DOMAIN t : j = n + k)
    BY <1>3, <1>6, <2>3 DEF Orderly
  <2>4. CASE j \in DOMAIN s /\ (\E k \in DOMAIN t : i = n + k)
    BY <1>3, <1>6, <2>4 DEF Orderly
  <2> QED
    BY <1>3, <2>1, <2>2, <2>3, <2>4
<1>7. HeadersAreRight(u)
  BY <1>5, <1>6 DEF HeadersAreRight
<1> QED
  BY <1>1, <1>3, <1>4, <1>7 DEF Orderly

\* Nothing is orderly.
LEMMA NothingIsOrderly == \A A : Orderly(<<>>, A)
<1> TAKE A
<1>1. PICK t : t = <<>>
  OBVIOUS
<1>2. IsList(t) /\ DOMAIN t = {}
  BY <1>1, ShortLists
<1>3. Orderly(t, A)
  BY <1>2 DEF Orderly, HeadersAreRight
<1> QED
  BY <1>1, <1>3

\* And so are families one behind another, none of which has a name of another.
LEMMA FlattenIsOrderly ==
    ASSUME NEW n \in Nat, NEW ss, Len(ss) = n, n # 0, NEW N,
           \A i \in 1 .. n : Orderly(ss[i], N[i]),
           \A i, j \in 1 .. n : i # j => N[i] \cap N[j] = {}
    PROVE  Orderly(FlattenSeq(ss), UNION {N[i] : i \in 1 .. n})
<1> DEFINE U(k) == UNION {N[i] : i \in 1 .. k}
<1>1. PICK f : Flatten(f, n, ss) /\ FlattenSeq(ss) = f[n]
  BY FlattenSeqIsLast
<1> DEFINE Bad == {k \in 1 .. n : ~Orderly(f[k], U(k))}
<1>2. ASSUME Bad # {} PROVE FALSE
  <2>1. PICK k \in Bad : \A j \in Bad : k <= j
    <3>1. Bad \subseteq Nat
      OBVIOUS
    <3> HIDE DEF Bad
    <3> QED
      BY <1>2, <3>1, LeastNatural
  <2>2. k \in 1 .. n /\ ~Orderly(f[k], U(k))
    BY <2>1
  <2>3. f[k] = (IF k = 1 THEN ss[k] ELSE f[k - 1] \o ss[k])
    BY <1>1, <2>2 DEF Flatten
  <2>4. CASE k = 1
    <3>1. U(1) = N[1]
      OBVIOUS
    <3> HIDE DEF U
    <3> QED
      BY <2>2, <2>3, <2>4, <3>1
  <2>5. CASE k # 1
    <3>1. k - 1 \in 1 .. n /\ k - 1 \notin Bad
      <4>1. k \in Nat /\ k - 1 \in 1 .. n /\ ~(k <= k - 1)
        BY <2>2, <2>5
      <4> HIDE DEF Bad
      <4> QED
        BY <2>1, <4>1
    <3>2. Orderly(f[k - 1], U(k - 1))
      BY <3>1
    <3>3. \A i \in 1 .. k - 1 : i \in 1 .. n /\ i # k
      BY <2>2
    <3>4. U(k - 1) \cap N[k] = {}
      BY <2>2, <3>3
    <3>5. U(k) = U(k - 1) \cup N[k]
      <4>1. \A i \in 1 .. k : i \in 1 .. k - 1 \/ i = k
        BY <2>2
      <4>2. \A i \in 1 .. k - 1 : i \in 1 .. k
        BY <2>2
      <4>3. k \in 1 .. k
        BY <2>2
      <4> QED
        BY <4>1, <4>2, <4>3
    <3> HIDE DEF U
    <3>6. Orderly(Join(f[k - 1], ss[k]), U(k))
      BY <2>2, <3>2, <3>4, <3>5, OrderlyJoin
    <3> QED
      BY <2>2, <2>3, <2>5, <3>6 DEF Join
  <2> QED
    BY <2>4, <2>5
<1>3. n \in 1 .. n
  OBVIOUS
<1> QED
  BY <1>1, <1>2, <1>3

\* The line says r with one of its values, and the samples of a family.
Says(line, r, values) == \E v \in values[r] : SampleReadsBack(r, v, line)
SamplesOf(text, name) == {i \in DOMAIN text : text[i].name = name /\ ~text[i].header}

\* Shows, in these words.
LEMMA ShowsInOtherWords ==
    ASSUME NEW text, NEW name, NEW values
    PROVE  Shows(text, name, values) <=>
           /\ \A i \in SamplesOf(text, name) : \E r \in DOMAIN values : Says(text[i], r, values)
           /\ \A r \in DOMAIN values : \A v \in values[r] :
                 \E i \in SamplesOf(text, name) : SampleReadsBack(r, v, text[i])
           /\ \A r \in DOMAIN values, i, j \in SamplesOf(text, name) :
                 Says(text[i], r, values) /\ Says(text[j], r, values) => i = j
  BY Zenon DEF Shows, Says, SamplesOf

\* What a text shows of a family does not depend on the lines of others before and behind it.
LEMMA ShowsJoin ==
    ASSUME NEW s, NEW t, IsList(s), IsList(t), NEW name, NEW values
    PROVE  /\ Shows(s, name, values) /\ (\A i \in DOMAIN t : t[i].name # name)
                 => Shows(Join(s, t), name, values)
           /\ Shows(t, name, values) /\ (\A i \in DOMAIN s : s[i].name # name)
                 => Shows(Join(s, t), name, values)
<1>1. PICK u : u = Join(s, t)
  OBVIOUS
<1>2. PICK n : n = Len(s)
  OBVIOUS
<1>3. /\ IsList(u) /\ n \in Nat /\ DOMAIN t \subseteq Nat
      /\ \A i \in DOMAIN s : i \in DOMAIN u /\ u[i] = s[i]
      /\ \A i \in DOMAIN t : n + i \in DOMAIN u /\ u[n + i] = t[i]
      /\ \A i \in DOMAIN u : i \in DOMAIN s \/ \E j \in DOMAIN t : i = n + j
  <2>1. n \in Nat
    BY <1>2 DEF IsList
  <2> QED
    BY <1>1, <1>2, <2>1, JoinedLists
<1>4. ASSUME Shows(s, name, values), \A i \in DOMAIN t : t[i].name # name
      PROVE  Shows(u, name, values)
  <2>1. SamplesOf(u, name) = SamplesOf(s, name)
    BY <1>3, <1>4 DEF SamplesOf
  <2>2. \A i \in SamplesOf(s, name) : u[i] = s[i]
    BY <1>3 DEF SamplesOf
  <2> QED
    BY <1>4, <2>1, <2>2, ShowsInOtherWords
<1>5. ASSUME Shows(t, name, values), \A i \in DOMAIN s : s[i].name # name
      PROVE  Shows(u, name, values)
  <2>1. \A i \in SamplesOf(t, name) : n + i \in SamplesOf(u, name) /\ u[n + i] = t[i]
    BY <1>3 DEF SamplesOf
  <2>2. \A i \in SamplesOf(u, name) : \E j \in SamplesOf(t, name) : i = n + j /\ u[i] = t[j]
    BY <1>3, <1>5 DEF SamplesOf
  <2>3. \A i \in SamplesOf(u, name) : \E r \in DOMAIN values : Says(u[i], r, values)
    BY <1>5, <2>2, ShowsInOtherWords
  <2>4. \A r \in DOMAIN values : \A v \in values[r] :
           \E i \in SamplesOf(u, name) : SampleReadsBack(r, v, u[i])
    <3> TAKE r \in DOMAIN values
    <3> TAKE v \in values[r]
    <3>1. PICK j \in SamplesOf(t, name) : SampleReadsBack(r, v, t[j])
      BY <1>5, ShowsInOtherWords
    <3> QED
      BY <2>1, <3>1
  <2>5. \A r \in DOMAIN values, i, j \in SamplesOf(u, name) :
           Says(u[i], r, values) /\ Says(u[j], r, values) => i = j
    <3> TAKE r \in DOMAIN values, i \in SamplesOf(u, name), j \in SamplesOf(u, name)
    <3> HAVE Says(u[i], r, values) /\ Says(u[j], r, values)
    <3>1. PICK k \in SamplesOf(t, name) : i = n + k /\ u[i] = t[k]
      BY <2>2
    <3>2. PICK l \in SamplesOf(t, name) : j = n + l /\ u[j] = t[l]
      BY <2>2
    <3>3. k = l
      BY <1>5, <3>1, <3>2, ShowsInOtherWords
    <3> QED
      BY <3>1, <3>2, <3>3
  <2> QED
    BY <2>3, <2>4, <2>5, ShowsInOtherWords
<1> QED
  BY <1>1, <1>4, <1>5

\* Samples that stand for the values of some results, one for each that has one.
Series(samples, told, values) ==
    /\ IsList(samples)
    /\ \A i \in DOMAIN samples :
          samples[i].r \in told /\ samples[i].value \in values[samples[i].r]
    /\ \A r \in told : \A v \in values[r] :
          \E i \in DOMAIN samples : samples[i].r = r /\ samples[i].value = v
    /\ \A i, j \in DOMAIN samples : samples[i].r = samples[j].r => i = j

\* Those of other results may follow.
LEMMA SeriesJoin ==
    ASSUME NEW s, NEW t, NEW A, NEW B, NEW values, Series(s, A, values), Series(t, B, values),
           A \cap B = {}
    PROVE  Series(Join(s, t), A \cup B, values)
<1>1. PICK u : u = Join(s, t)
  OBVIOUS
<1>2. PICK n : n = Len(s)
  OBVIOUS
<1>3. /\ IsList(u)
      /\ \A i \in DOMAIN s : i \in DOMAIN u /\ u[i] = s[i]
      /\ \A i \in DOMAIN t : n + i \in DOMAIN u /\ u[n + i] = t[i]
      /\ \A i \in DOMAIN u : i \in DOMAIN s \/ \E j \in DOMAIN t : i = n + j
  <2>1. IsList(s) /\ IsList(t)
    BY DEF Series
  <2> QED
    BY <1>1, <1>2, <2>1, JoinedLists
<1>4. \A i \in DOMAIN u : \/ i \in DOMAIN s /\ u[i] = s[i] /\ u[i].r \in A
                          \/ \E j \in DOMAIN t : i = n + j /\ u[i] = t[j] /\ u[i].r \in B
  BY <1>3 DEF Series
<1>5. \A i \in DOMAIN u : u[i].r \in A \cup B /\ u[i].value \in values[u[i].r]
  BY <1>4 DEF Series
<1>6. ASSUME NEW r \in A \cup B, NEW v \in values[r]
      PROVE  \E i \in DOMAIN u : u[i].r = r /\ u[i].value = v
  <2>1. CASE r \in A
    <3>1. PICK i \in DOMAIN s : s[i].r = r /\ s[i].value = v
      BY <2>1 DEF Series
    <3> QED
      BY <1>3, <3>1
  <2>2. CASE r \in B
    <3>1. PICK i \in DOMAIN t : t[i].r = r /\ t[i].value = v
      BY <2>2 DEF Series
    <3> QED
      BY <1>3, <3>1
  <2> QED
    BY <2>1, <2>2
<1>7. ASSUME NEW i \in DOMAIN u, NEW j \in DOMAIN u, u[i].r = u[j].r
      PROVE  i = j
  <2>1. CASE u[i].r \in A
    <3>1. i \in DOMAIN s /\ u[i] = s[i] /\ j \in DOMAIN s /\ u[j] = s[j]
      BY <1>4, <1>7, <2>1
    <3> QED
      BY <1>7, <3>1 DEF Series
  <2>2. CASE u[i].r \in B
    <3>1. PICK k \in DOMAIN t : i = n + k /\ u[i] = t[k]
      BY <1>4, <2>2
    <3>2. PICK l \in DOMAIN t : j = n + l /\ u[j] = t[l]
      BY <1>4, <1>7, <2>2
    <3>3. k = l
      BY <1>7, <3>1, <3>2 DEF Series
    <3> QED
      BY <3>1, <3>2, <3>3
  <2> QED
    BY <1>5, <2>1, <2>2
<1>8. Series(u, A \cup B, values)
  BY <1>3, <1>5, <1>6, <1>7 DEF Series
<1> QED
  BY <1>1, <1>8

\* No sample for no value, and one for one.
LEMMA ShortSeries ==
    ASSUME NEW values, NEW r
    PROVE  /\ values[r] = {} => Series(<<>>, {r}, values)
           /\ \A v : values[r] = {v} => Series(<<[r |-> r, value |-> v]>>, {r}, values)
<1>1. ASSUME values[r] = {} PROVE Series(<<>>, {r}, values)
  <2>1. PICK s : s = <<>>
    OBVIOUS
  <2>2. IsList(s) /\ DOMAIN s = {}
    BY <2>1, ShortLists
  <2>3. Series(s, {r}, values)
    BY <1>1, <2>2 DEF Series
  <2> QED
    BY <2>1, <2>3
<1>2. ASSUME NEW v, values[r] = {v} PROVE Series(<<[r |-> r, value |-> v]>>, {r}, values)
  <2>1. PICK x : x = [r |-> r, value |-> v]
    OBVIOUS
  <2>2. PICK s : s = <<x>>
    OBVIOUS
  <2>3. IsList(s) /\ DOMAIN s = {1} /\ s[1] = x
    BY <2>2, ShortLists
  <2>4. x.r = r /\ x.value = v
    BY <2>1
  <2>5. Series(s, {r}, values)
    BY <1>2, <2>3, <2>4 DEF Series
  <2> QED
    BY <2>1, <2>2, <2>5
<1> QED
  BY <1>1, <1>2
-----------------------------------------------------------------------------
(***************************************************************************)
(* The families of an exposition.                                          *)
(***************************************************************************)

\* Results that are all different.
Distinct(results, n) ==
    /\ n \in Nat /\ DOMAIN results = 1 .. n
    /\ \A i, j \in 1 .. n : results[i] = results[j] => i = j

\* The samples of all results, those of each one behind those of the one before.
LEMMA FlattenIsSeries ==
    ASSUME NEW n, NEW results, Distinct(results, n), NEW values, NEW ss, IsList(ss), Len(ss) = n,
           \A i \in 1 .. n : Series(ss[i], {results[i]}, values)
    PROVE  Series(FlattenSeq(ss), ToSet(results), values)
<1> DEFINE U(k) == {results[i] : i \in 1 .. k}
<1>1. n \in Nat /\ ToSet(results) = U(n)
  BY DEF Distinct, ToSet
<1>2. CASE n = 0
  <2>1. ss = <<>>
    BY <1>2 DEF IsList
  <2>2. PICK s : s = <<>>
    OBVIOUS
  <2>3. IsList(s) /\ DOMAIN s = {} /\ FlattenSeq(ss) = s
    BY <2>1, <2>2, ShortLists, FlattenNone
  <2>4. U(n) = {}
    BY <1>2
  <2> HIDE DEF U
  <2>5. Series(s, {}, values)
    BY <2>3 DEF Series
  <2> QED
    BY <1>1, <2>3, <2>4, <2>5
<1>3. CASE n # 0
  <2>1. PICK f : Flatten(f, n, ss) /\ FlattenSeq(ss) = f[n]
    BY <1>1, <1>3, FlattenSeqIsLast
  <2> DEFINE Bad == {k \in 1 .. n : ~Series(f[k], U(k), values)}
  <2>2. ASSUME Bad # {} PROVE FALSE
    <3>1. PICK k \in Bad : \A j \in Bad : k <= j
      <4>1. Bad \subseteq Nat
        OBVIOUS
      <4> HIDE DEF Bad
      <4> QED
        BY <2>2, <4>1, LeastNatural
    <3>2. k \in 1 .. n /\ ~Series(f[k], U(k), values)
      BY <3>1
    <3>3. f[k] = (IF k = 1 THEN ss[k] ELSE f[k - 1] \o ss[k])
      BY <2>1, <3>2 DEF Flatten
    <3>4. CASE k = 1
      <4>1. U(1) = {results[1]}
        OBVIOUS
      <4> HIDE DEF U
      <4> QED
        BY <3>2, <3>3, <3>4, <4>1
    <3>5. CASE k # 1
      <4>1. k - 1 \in 1 .. n /\ k - 1 \notin Bad
        <5>1. k \in Nat /\ k - 1 \in 1 .. n /\ ~(k <= k - 1)
          BY <1>1, <3>2, <3>5
        <5> HIDE DEF Bad
        <5> QED
          BY <3>1, <5>1
      <4>2. Series(f[k - 1], U(k - 1), values)
        BY <4>1
      <4>3. \A i \in 1 .. k - 1 : i \in 1 .. n /\ i # k
        BY <1>1, <3>2
      <4>4. U(k - 1) \cap {results[k]} = {}
        BY <3>2, <4>3 DEF Distinct
      <4>5. U(k) = U(k - 1) \cup {results[k]}
        <5>1. \A i \in 1 .. k : i \in 1 .. k - 1 \/ i = k
          BY <1>1, <3>2
        <5>2. \A i \in 1 .. k - 1 : i \in 1 .. k
          BY <1>1, <3>2
        <5>3. k \in 1 .. k
          BY <1>1, <3>2
        <5> QED
          BY <5>1, <5>2, <5>3
      <4> HIDE DEF U
      <4>6. Series(ss[k], {results[k]}, values)
        BY <3>2
      <4>7. PICK A, B : A = U(k - 1) /\ B = {results[k]}
        OBVIOUS
      <4>8. Series(Join(f[k - 1], ss[k]), A \cup B, values)
        BY <4>2, <4>4, <4>6, <4>7, SeriesJoin
      <4> QED
        BY <3>2, <3>3, <3>5, <4>5, <4>7, <4>8 DEF Join
    <3> QED
      BY <3>4, <3>5
  <2>3. n \in 1 .. n
    BY <1>1, <1>3
  <2> QED
    BY <1>1, <2>1, <2>2, <2>3
<1> QED
  BY <1>2, <1>3

\* A value of each result.
LEMMA SamplesAreSeries ==
    ASSUME NEW n, NEW results, Distinct(results, n), NEW values, NEW s,
           s = [i \in DOMAIN results |-> [r |-> results[i], value |-> s[i].value]],
           \A i \in 1 .. n : values[results[i]] = {s[i].value}
    PROVE  Series(s, ToSet(results), values)
<1>1. PICK v : v = [i \in 1 .. n |-> s[i].value]
  OBVIOUS
<1>2. s = [i \in 1 .. n |-> [r |-> results[i], value |-> v[i]]]
  BY <1>1 DEF Distinct
<1>3. /\ n \in Nat /\ IsList(s) /\ DOMAIN s = 1 .. n
      /\ \A i \in 1 .. n : s[i].r = results[i] /\ s[i].value = v[i]
  BY <1>2 DEF Distinct, IsList
<1>4. \A i \in 1 .. n : results[i] \in ToSet(results)
  BY DEF Distinct, ToSet
<1>5. \A r \in ToSet(results) : \E i \in 1 .. n : r = results[i]
  BY DEF Distinct, ToSet
<1>6. \A i, j \in 1 .. n : results[i] = results[j] => i = j
  BY DEF Distinct
<1> QED
  BY <1>3, <1>4, <1>5, <1>6 DEF Series

\* The results of one write: those of different probes.
Told(told) ==
    /\ \A r \in told : Writable(r)
    /\ \A r, q \in told : r.probe_name = q.probe_name => r = q

\* The third word of a sample is the name of the probe.
LEMMA ProbeNameIsRead ==
    ASSUME NEW r, NEW q, NEW v, NEW u, NEW line,
           SampleReadsBack(r, v, line), SampleReadsBack(q, u, line)
    PROVE  r.probe_name = q.probe_name
<1>1. ASSUME NEW w, NEW x, SampleReadsBack(w, x, line)
      PROVE  ReadWords(LabelFormat, line.text)[3] = w.probe_name
  <2> DEFINE a == << <<>> >>
             b == << <<"probe">>, w.probe_name >>
             c == << <<"type">>, <<w.probe_type>> >>
             d == << <<"target">>, w.target >>
             e == << <<Digits(x)>> >>
  <2>1. ReadWords(LabelFormat, line.text) = Join(Join(Join(Join(a, b), c), d), e)
    BY <1>1, Zenon DEF SampleReadsBack, Join
  <2>2. /\ ListOf(a, 1) /\ ListOf(b, 2) /\ b[2] = w.probe_name
        /\ ListOf(c, 2) /\ ListOf(d, 2) /\ ListOf(e, 1)
    BY ShortLists DEF ListOf
  <2> HIDE DEF a, b, c, d, e
  <2>3. 1 + 2 = 3 /\ 3 + 2 = 5 /\ 5 + 2 = 7 /\ 3 \in 1 .. 3 /\ 3 \in 1 .. 5 /\ 3 \in 1 .. 7
        /\ 2 \in 1 .. 2
    OBVIOUS
  <2>4. \A s, t : \A n, m \in Nat : ListOf(s, n) /\ ListOf(t, m) /\ 3 \in 1 .. n
           => ListOf(Join(s, t), n + m) /\ Join(s, t)[3] = s[3]
    BY JoinedParts
  <2>5. ListOf(Join(a, b), 1 + 2) /\ Join(a, b)[1 + 2] = b[2]
    BY <2>2, <2>3, JoinedParts
  <2>6. PICK ab : ab = Join(a, b)
    OBVIOUS
  <2>7. ListOf(ab, 3) /\ ab[3] = b[2]
    BY <2>3, <2>5, <2>6
  <2>8. PICK abc : abc = Join(ab, c)
    OBVIOUS
  <2>9. ListOf(abc, 5) /\ abc[3] = b[2]
    <3>1. ListOf(abc, 3 + 2) /\ abc[3] = b[2]
      BY <2>2, <2>3, <2>4, <2>7, <2>8
    <3> QED
      BY <2>3, <3>1
  <2>10. PICK abcd : abcd = Join(abc, d)
    OBVIOUS
  <2>11. ListOf(abcd, 7) /\ abcd[3] = b[2]
    <3>1. ListOf(abcd, 5 + 2) /\ abcd[3] = b[2]
      BY <2>2, <2>3, <2>4, <2>9, <2>10
    <3> QED
      BY <2>3, <3>1
  <2>12. Join(abcd, e)[3] = b[2]
    BY <2>2, <2>3, <2>4, <2>11
  <2> QED
    BY <2>1, <2>2, <2>6, <2>8, <2>10, <2>12
<1> QED
  BY <1>1

\* A family is orderly and shows what its samples stand for.
LEMMA FamilyIsRight ==
    ASSUME NEW told, Told(told), NEW values, DOMAIN values = told, NEW samples,
           Series(samples, told, values), NEW name,
           \A r \in told : \A v \in values[r] : Digits(v) \in Plain
    PROVE  /\ Orderly(RenderFamily(name, samples), {name})
           /\ Shows(RenderFamily(name, samples), name, values)
<1>1. PICK text : text = RenderFamily(name, samples)
  OBVIOUS
<1>2. PICK n : n = Len(samples)
  OBVIOUS
<1>3. n \in Nat /\ DOMAIN samples = 1 .. n
  BY <1>2 DEF Series, IsList
<1>4. CASE n = 0
  <2>1. text = <<>>
    BY <1>1, <1>2, <1>4 DEF RenderFamily, Series, IsList
  <2>2. Orderly(text, {name})
    BY <2>1, NothingIsOrderly
  <2>3. DOMAIN text = {} /\ DOMAIN samples = {}
    BY <1>3, <1>4, <2>1
  <2>4. Shows(text, name, values)
    BY <2>3, ShowsInOtherWords DEF Series, SamplesOf
  <2> QED
    BY <1>1, <2>2, <2>4
<1>5. CASE n # 0
  <2> DEFINE head == <<Header(name, "gauge")>>
             tail == [i \in DOMAIN samples |-> RenderSample(name, samples[i].r, samples[i].value)]
  <2>1. text = Join(head, tail)
    <3>1. samples # <<>>
      BY <1>2, <1>5
    <3> QED
      BY <1>1, <3>1 DEF RenderFamily, Join
  <2>2. ListOf(head, 1) /\ head[1] = Header(name, "gauge")
    BY ShortLists DEF ListOf
  <2>3. /\ ListOf(tail, n)
        /\ \A i \in 1 .. n : tail[i] = RenderSample(name, samples[i].r, samples[i].value)
    BY <1>3 DEF IsList, ListOf
  <2> HIDE DEF head, tail
  <2>4. /\ IsList(text) /\ DOMAIN text = 1 .. n + 1
        /\ text[1] = Header(name, "gauge")
        /\ \A i \in 1 .. n : text[i + 1] = RenderSample(name, samples[i].r, samples[i].value)
    <3>1. /\ ListOf(text, 1 + n) /\ DOMAIN text = 1 .. 1 + n
          /\ \A i \in 1 .. 1 : text[i] = head[i]
          /\ \A i \in 1 .. n : text[1 + i] = tail[i]
      BY <1>3, <2>1, <2>2, <2>3, JoinedParts
    <3>2. 1 + n = n + 1 /\ (\A i \in 1 .. n : 1 + i = i + 1) /\ 1 \in 1 .. 1
      BY <1>3
    <3> QED
      BY <2>2, <2>3, <3>1, <3>2 DEF ListOf
  <2>5. /\ text[1].header /\ text[1].name = name
        /\ \A i \in 1 .. n : ~text[i + 1].header /\ text[i + 1].name = name
    <3>1. Header(name, "gauge").header /\ Header(name, "gauge").name = name
      BY DEF Header
    <3>2. \A r, v : ~RenderSample(name, r, v).header /\ RenderSample(name, r, v).name = name
      BY DEF RenderSample
    <3> QED
      BY <2>4, <3>1, <3>2
  <2>6. \A i \in 1 .. n + 1 : i = 1 \/ \E j \in 1 .. n : i = j + 1
    <3> TAKE i \in 1 .. n + 1
    <3>1. i # 1 => i - 1 \in 1 .. n /\ i = (i - 1) + 1
      BY <1>3
    <3> QED
      BY <3>1
  <2>7. \A i \in 1 .. n + 1 : text[i].name = name
    BY <2>5, <2>6
  <2>8. Orderly(text, {name})
    <3>1. \A i \in 1 .. n + 1 : text[i].header => i = 1
      BY <2>5, <2>6
    <3>2. \A i \in 1 .. n + 1 : i = 1 \/ (i > 1 /\ i - 1 \in 1 .. n + 1)
      BY <1>3
    <3> QED
      BY <2>4, <2>5, <2>7, <3>1, <3>2 DEF Orderly, HeadersAreRight
  <2>9. /\ \A i \in 1 .. n : i + 1 \in SamplesOf(text, name)
        /\ \A i \in SamplesOf(text, name) : \E j \in 1 .. n : i = j + 1
    <3>1. \A i \in 1 .. n : i + 1 \in 1 .. n + 1
      BY <1>3
    <3> QED
      BY <2>4, <2>5, <2>6, <3>1 DEF SamplesOf
  <2>10. \A i \in 1 .. n : /\ samples[i].r \in told /\ samples[i].value \in values[samples[i].r]
                           /\ SampleReadsBack(samples[i].r, samples[i].value, text[i + 1])
    <3> TAKE i \in 1 .. n
    <3>1. samples[i].r \in told /\ samples[i].value \in values[samples[i].r]
      BY <1>3 DEF Series
    <3>2. Writable(samples[i].r) /\ Digits(samples[i].value) \in Plain
      BY <3>1 DEF Told
    <3>3. SampleReadsBack(samples[i].r, samples[i].value,
                          RenderSample(name, samples[i].r, samples[i].value))
      BY <3>2, SampleIsRead
    <3> QED
      BY <2>4, <3>1, <3>3
  <2>11. ASSUME NEW i \in SamplesOf(text, name)
         PROVE  \E r \in DOMAIN values : Says(text[i], r, values)
    BY <2>9, <2>10 DEF Says
  <2>12. ASSUME NEW r \in DOMAIN values, NEW v \in values[r]
         PROVE  \E i \in SamplesOf(text, name) : SampleReadsBack(r, v, text[i])
    <3>1. PICK i \in 1 .. n : samples[i].r = r /\ samples[i].value = v
      BY <1>3 DEF Series
    <3> QED
      BY <2>9, <2>10, <3>1
  <2>13. ASSUME NEW r \in DOMAIN values, NEW i \in 1 .. n, Says(text[i + 1], r, values)
         PROVE  samples[i].r = r
    <3>1. PICK v \in values[r] : SampleReadsBack(r, v, text[i + 1])
      BY <2>13 DEF Says
    <3>2. samples[i].r.probe_name = r.probe_name
      BY <2>10, <3>1, ProbeNameIsRead
    <3> QED
      BY <2>10, <3>2 DEF Told
  <2>14. ASSUME NEW r \in DOMAIN values, NEW i \in SamplesOf(text, name),
                NEW j \in SamplesOf(text, name),
                Says(text[i], r, values), Says(text[j], r, values)
         PROVE  i = j
    <3>1. PICK k \in 1 .. n : i = k + 1
      BY <2>9
    <3>2. PICK l \in 1 .. n : j = l + 1
      BY <2>9
    <3>3. samples[k].r = r /\ samples[l].r = r
      BY <2>13, <2>14, <3>1, <3>2
    <3>4. k = l
      BY <1>3, <3>3 DEF Series
    <3> QED
      BY <3>1, <3>2, <3>4
  <2>15. Shows(text, name, values)
    BY <2>11, <2>12, <2>14, ShowsInOtherWords
  <2> QED
    BY <1>1, <2>8, <2>15
<1> QED
  BY <1>4, <1>5

\* The values of a field of all results make a series.
LEMMA FieldIsSeries ==
    ASSUME NEW n, NEW results, Distinct(results, n), NEW told, told = ToSet(results)
    PROVE  /\ Series(Samples(results, Up), told, [r \in told |-> {Up(r)}])
           /\ Series(Samples(results, LAMBDA r : r.response_ms), told,
                     [r \in told |-> {r.response_ms}])
           /\ Series(Samples(results, LAMBDA r : r.timestamp), told, [r \in told |-> {r.timestamp}])
<1>1. \A i \in 1 .. n : results[i] \in told
  BY DEF Distinct, ToSet
<1>2. ASSUME NEW v, NEW s,
             s = [i \in DOMAIN results |-> [r |-> results[i], value |-> v[results[i]]]],
             NEW values, values = [r \in told |-> {v[r]}]
      PROVE  Series(s, told, values)
  <2>1. DOMAIN results = 1 .. n
    BY DEF Distinct
  <2>2. \A i \in 1 .. n : s[i].value = v[results[i]]
    BY <1>2, <2>1
  <2>3. s = [i \in DOMAIN results |-> [r |-> results[i], value |-> s[i].value]]
    BY <1>2, <2>1, <2>2
  <2>4. \A i \in 1 .. n : values[results[i]] = {s[i].value}
    BY <1>1, <1>2, <2>2
  <2> QED
    BY <2>3, <2>4, SamplesAreSeries
<1>3. Series(Samples(results, Up), told, [r \in told |-> {Up(r)}])
  <2> DEFINE v == [r \in told |-> Up(r)]
  <2>1. Samples(results, Up)
        = [i \in DOMAIN results |-> [r |-> results[i], value |-> v[results[i]]]]
    BY <1>1 DEF Samples, Distinct
  <2>2. [r \in told |-> {Up(r)}] = [r \in told |-> {v[r]}]
    OBVIOUS
  <2> HIDE DEF v
  <2> QED
    BY <1>2, <2>1, <2>2
<1>4. Series(Samples(results, LAMBDA r : r.response_ms), told, [r \in told |-> {r.response_ms}])
  <2> DEFINE v == [r \in told |-> r.response_ms]
  <2>1. Samples(results, LAMBDA r : r.response_ms)
        = [i \in DOMAIN results |-> [r |-> results[i], value |-> v[results[i]]]]
    BY <1>1 DEF Samples, Distinct
  <2>2. [r \in told |-> {r.response_ms}] = [r \in told |-> {v[r]}]
    OBVIOUS
  <2> HIDE DEF v
  <2> QED
    BY <1>2, <2>1, <2>2
<1>5. Series(Samples(results, LAMBDA r : r.timestamp), told, [r \in told |-> {r.timestamp}])
  <2> DEFINE v == [r \in told |-> r.timestamp]
  <2>1. Samples(results, LAMBDA r : r.timestamp)
        = [i \in DOMAIN results |-> [r |-> results[i], value |-> v[results[i]]]]
    BY <1>1 DEF Samples, Distinct
  <2>2. [r \in told |-> {r.timestamp}] = [r \in told |-> {v[r]}]
    OBVIOUS
  <2> HIDE DEF v
  <2> QED
    BY <1>2, <2>1, <2>2
<1> QED
  BY <1>3, <1>4, <1>5

\* So do the codes of those that have one.
LEMMA StatusIsSeries ==
    ASSUME NEW n, NEW results, Distinct(results, n), NEW told, told = ToSet(results), Told(told)
    PROVE  Series(StatusSamples(results), told, [r \in told |-> ToSet(r.status_code)])
<1> DEFINE values == [r \in told |-> ToSet(r.status_code)]
           Piece(r) == [j \in DOMAIN r.status_code |-> [r |-> r, value |-> r.status_code[j]]]
           ss == [i \in 1 .. n |-> Piece(results[i])]
<1>1. n \in Nat /\ DOMAIN results = 1 .. n /\ \A i \in 1 .. n : results[i] \in told
  BY DEF Distinct, ToSet
<1>2. StatusSamples(results) = FlattenSeq(ss)
  BY <1>1 DEF StatusSamples
<1>3. ASSUME NEW r \in told PROVE Series(Piece(r), {r}, values)
  <2>1. values[r] = ToSet(r.status_code)
    OBVIOUS
  <2>2. CASE r.status_code = <<>>
    <3>1. Piece(r) = <<>> /\ values[r] = {}
      BY <2>1, <2>2 DEF ToSet
    <3> HIDE DEF Piece, values
    <3> QED
      BY <3>1, ShortSeries
  <2>3. CASE \E s : r.status_code = <<s>>
    <3>1. PICK s : r.status_code = <<s>>
      BY <2>3
    <3>2. Piece(r) = <<[r |-> r, value |-> s]>> /\ values[r] = {s}
      BY <2>1, <3>1 DEF ToSet
    <3> HIDE DEF Piece, values
    <3> QED
      BY <3>2, ShortSeries
  <2> QED
    BY <2>2, <2>3 DEF Told, Writable, Optional
<1>4. IsList(ss) /\ Len(ss) = n /\ \A i \in 1 .. n : ss[i] = Piece(results[i])
  BY <1>1 DEF IsList
<1> HIDE DEF Piece, ss, values
<1>5. \A i \in 1 .. n : Series(ss[i], {results[i]}, values)
  BY <1>1, <1>3, <1>4
<1>6. Series(FlattenSeq(ss), ToSet(results), values)
  BY <1>4, <1>5, FlattenIsSeries
<1> QED
  BY <1>2, <1>6 DEF values

\* The one key there is may stand in a metric name.
LEMMA KeyStays == SanitizeMetricName(TlsCertExpiryDays) = TlsCertExpiryDays
<1>1. PICK key : key = TlsCertExpiryDays
  OBVIOUS
<1>2. DOMAIN key = 1 .. 1 /\ key[1] = "tls_cert_expiry_days" /\ key = [i \in 1 .. 1 |-> key[i]]
  BY <1>1 DEF TlsCertExpiryDays
<1>3. \A i \in DOMAIN key : (IF key[i] \in {"tls_cert_expiry_days", "a", "b", "_", ":"}
                             THEN key[i] ELSE "_") = key[i]
  BY <1>2
<1>4. SanitizeMetricName(key) = [i \in DOMAIN key |-> key[i]]
  BY <1>3 DEF SanitizeMetricName
<1> QED
  BY <1>1, <1>2, <1>4

\* The readings of certificates are a series.
LEMMA ReadingsAreSeries ==
    ASSUME NEW n, NEW results, Distinct(results, n), NEW told, told = ToSet(results), Told(told)
    PROVE  Series(Readings(results, TlsCertExpiryDays), told,
                  [r \in told |-> ReadingsUnder(r, TlsCertExpiryDays)])
<1> DEFINE key == TlsCertExpiryDays
           values == [r \in told |-> ReadingsUnder(r, key)]
           ss == [i \in 1 .. n |-> ReadingsOf(results[i], key)]
<1>1. n \in Nat /\ DOMAIN results = 1 .. n /\ \A i \in 1 .. n : results[i] \in told
  BY DEF Distinct, ToSet
<1>2. Readings(results, key) = FlattenSeq(ss)
  BY <1>1 DEF Readings
<1>3. ASSUME NEW r \in told PROVE Series(ReadingsOf(r, key), {r}, values)
  <2> DEFINE q == r.metrics
             F == [j \in DOMAIN q |-> IF SanitizeMetricName(q[j].key) = key
                                      THEN <<[r |-> r, value |-> q[j].value]>> ELSE <<>>]
  <2>1. values[r] = ReadingsUnder(r, key)
    OBVIOUS
  <2>2. ReadingsOf(r, key) = FlattenSeq(F)
    BY DEF ReadingsOf
  <2>3. CASE q = <<>>
    <3>1. F = <<>>
      BY <2>3
    <3>2. ReadingsUnder(r, key) = {}
      BY <2>3 DEF ReadingsUnder, ToSet
    <3>3. values[r] = {}
      BY <2>1, <3>2
    <3> HIDE DEF F, values
    <3> QED
      BY <2>2, <3>1, <3>3, FlattenNone, ShortSeries
  <2>4. CASE \E v : q = <<[key |-> key, value |-> v]>>
    <3>1. PICK v : q = <<[key |-> key, value |-> v]>>
      BY <2>4
    <3>2. DOMAIN q = 1 .. 1 /\ q[1].key = key /\ q[1].value = v
      BY <3>1
    <3>3. F = <<F[1]>> /\ F[1] = <<[r |-> r, value |-> v]>>
      <4>1. F[1] = <<[r |-> r, value |-> v]>>
        BY <3>2, KeyStays
      <4>2. DOMAIN F = 1 .. 1 /\ F = [i \in 1 .. 1 |-> F[i]]
        BY <3>2
      <4> HIDE DEF F
      <4> QED
        BY <4>1, <4>2
    <3>4. ToSet(q) = {q[1]}
      BY <3>1 DEF ToSet
    <3>5. ReadingsUnder(r, key) = {v}
      <4>1. PICK m : m = q[1]
        OBVIOUS
      <4>2. {k \in ToSet(q) : k.key = key} = {m}
        BY <3>2, <3>4, <4>1
      <4>3. ReadingsUnder(r, key) = {k.value : k \in {m}}
        BY <4>2 DEF ReadingsUnder
      <4> QED
        BY <3>2, <4>1, <4>3
    <3>6. values[r] = {v}
      BY <2>1, <3>5
    <3> HIDE DEF F, values, q
    <3>7. FlattenSeq(F) = <<[r |-> r, value |-> v]>>
      BY <3>3, FlattenOne
    <3> QED
      BY <2>2, <3>6, <3>7, ShortSeries
  <2> QED
    BY <2>3, <2>4 DEF Told, Writable, Optional
<1>4. IsList(ss) /\ Len(ss) = n /\ \A i \in 1 .. n : ss[i] = ReadingsOf(results[i], key)
  BY <1>1 DEF IsList
<1> HIDE DEF ss, values, key
<1>5. \A i \in 1 .. n : Series(ss[i], {results[i]}, values)
  BY <1>1, <1>3, <1>4
<1>6. Series(FlattenSeq(ss), ToSet(results), values)
  BY <1>4, <1>5, FlattenIsSeries
<1> QED
  BY <1>2, <1>6 DEF values, key
-----------------------------------------------------------------------------
(***************************************************************************)
(* The whole exposition.                                                   *)
(***************************************************************************)

\* Families of other names may follow, and nothing that was shown is lost.
LEMMA FamiliesFollow ==
    ASSUME NEW s, NEW t, NEW A, NEW B, Orderly(s, A), Orderly(t, B), A \cap B = {}
    PROVE  /\ Orderly(Join(s, t), A \cup B)
           /\ \A name \in A : \A values :
                 Shows(s, name, values) => Shows(Join(s, t), name, values)
           /\ \A name \in B : \A values :
                 Shows(t, name, values) => Shows(Join(s, t), name, values)
<1>1. IsList(s) /\ IsList(t)
  BY DEF Orderly
<1>2. ASSUME NEW name \in A, NEW values, Shows(s, name, values)
      PROVE  Shows(Join(s, t), name, values)
  <2>1. \A i \in DOMAIN t : t[i].name # name
    BY DEF Orderly
  <2> QED
    BY <1>1, <1>2, <2>1, ShowsJoin
<1>3. ASSUME NEW name \in B, NEW values, Shows(t, name, values)
      PROVE  Shows(Join(s, t), name, values)
  <2>1. \A i \in DOMAIN s : s[i].name # name
    BY DEF Orderly
  <2> QED
    BY <1>1, <1>3, <2>1, ShowsJoin
<1> QED
  BY <1>2, <1>3, OrderlyJoin

\* A name of one character is that character.
LEMMA OneIsInjective == \A x, y : One(x) = One(y) => x = y
<1> TAKE x, y
<1>1. One(x)[1] = x /\ One(y)[1] = y
  BY DEF One
<1> QED
  BY <1>1

\* A number of the write path.
LEMMA ScalarIsOrderly ==
    \A name, kind, value : Orderly(RenderScalar(name, kind, value), {One(name)})
<1> TAKE name, kind, value
<1>1. PICK h, l : h = Header(One(name), kind)
                  /\ l = [header |-> FALSE, name |-> One(name), text |-> <<Digits(value)>>]
  OBVIOUS
<1>2. PICK t : t = <<h, l>>
  OBVIOUS
<1>3. RenderScalar(name, kind, value) = t
  BY <1>1, <1>2 DEF RenderScalar, One
<1>4. h.header /\ h.name = One(name) /\ ~l.header /\ l.name = One(name)
  BY <1>1 DEF Header
<1>5. IsList(t) /\ DOMAIN t = 1 .. 2 /\ t[1] = h /\ t[2] = l
  BY <1>2 DEF IsList
<1>6. \A i \in 1 .. 2 : i = 1 \/ (i = 2 /\ i > 1 /\ i - 1 = 1)
  OBVIOUS
<1>7. \A i \in 1 .. 2 : t[i].name = One(name) /\ (t[i].header => i = 1)
  BY <1>4, <1>5, <1>6
<1>8. \A i \in 1 .. 2 : t[i].header \/ (i > 1 /\ t[i - 1].name = t[i].name)
  BY <1>4, <1>5, <1>6, <1>7
<1>9. Orderly(t, {One(name)})
  BY <1>5, <1>7, <1>8 DEF Orderly, HeadersAreRight
<1> QED
  BY <1>3, <1>9

\* The numbers of the write path have names of their own.
ScalarName == [i \in 1 .. 8 |-> {One(Scalars[i])}]

\* No two of them have the same name, and none has that of a family.
LEMMA ScalarsAreNamed ==
    /\ \A i, j \in 1 .. 8 : i # j => ScalarName[i] \cap ScalarName[j] = {}
    /\ \A x \in {"success", "duration_seconds", "http_status_code", "last_run",
                 "tls_cert_expiry_days"} : One(x) \notin UNION {ScalarName[i] : i \in 1 .. 8}
<1>1. \A i \in 1 .. 8 : i = 1 \/ i = 2 \/ i = 3 \/ i = 4 \/ i = 5 \/ i = 6 \/ i = 7 \/ i = 8
  OBVIOUS
<1>2. \A i, j \in 1 .. 8 : i # j => Scalars[i] # Scalars[j]
  BY <1>1 DEF Scalars
<1>3. \A i \in 1 .. 8 : Scalars[i] \notin {"success", "duration_seconds", "http_status_code",
                                           "last_run", "tls_cert_expiry_days"}
  BY <1>1 DEF Scalars
<1>4. \A i \in 1 .. 8 : ScalarName[i] = {One(Scalars[i])}
  BY DEF ScalarName
<1> QED
  BY <1>2, <1>3, <1>4, OneIsInjective

ScalarText(numbers) ==
    FlattenSeq([n \in DOMAIN Scalars |->
        RenderScalar(Scalars[n], IF n \in 3..7 THEN "counter" ELSE "gauge", numbers[n])])

\* Together, they are an orderly exposition of those names.
LEMMA ScalarsAreOrderly ==
    \A numbers : Orderly(ScalarText(numbers), UNION {ScalarName[i] : i \in 1 .. 8})
<1> TAKE numbers
<1> DEFINE ss == [n \in DOMAIN Scalars |->
                    RenderScalar(Scalars[n], IF n \in 3..7 THEN "counter" ELSE "gauge", numbers[n])]
<1>1. DOMAIN Scalars = 1 .. 8
  BY DEF Scalars
<1>2. Len(ss) = 8
  BY <1>1
<1>3. \A i \in 1 .. 8 : Orderly(ss[i], ScalarName[i])
  BY <1>1, ScalarIsOrderly DEF ScalarName
<1>4. ScalarText(numbers) = FlattenSeq(ss)
  BY DEF ScalarText
<1> HIDE DEF ss
<1>5. PICK m : m = 8
  OBVIOUS
<1>6. m \in Nat /\ m # 0 /\ Len(ss) = m
  BY <1>2, <1>5
<1>7. /\ \A i \in 1 .. m : Orderly(ss[i], ScalarName[i])
      /\ \A i, j \in 1 .. m : i # j => ScalarName[i] \cap ScalarName[j] = {}
  BY <1>3, <1>5, ScalarsAreNamed
<1>8. Orderly(FlattenSeq(ss), UNION {ScalarName[i] : i \in 1 .. m})
  BY <1>6, <1>7, FlattenIsOrderly
<1> QED
  BY <1>4, <1>5, <1>8

\* The keys of the readings, in order.
LEMMA KeysInOrder ==
    /\ SetToSeq({}) = <<>>
    /\ \A x : SetToSeq({x}) = <<x>>
<1>1. SetToSeq({}) = <<>>
  <2>1. [1 .. Cardinality({}) -> {}] = {<<>>}
    <3>1. Cardinality({}) = 0 /\ 1 .. 0 = {}
      BY FS_EmptySet
    <3>2. PICK none : none = <<>>
      OBVIOUS
    <3>3. none = [x \in {} |-> x]
      BY <3>2
    <3>4. none \in [{} -> {}] /\ \A f \in [{} -> {}] : f = none
      BY <3>3
    <3> QED
      BY <3>1, <3>2, <3>4
  <2>2. IsInjective(<<>>)
    BY DEF IsInjective
  <2> QED
    BY <2>1, <2>2 DEF SetToSeq
<1>2. ASSUME NEW x PROVE SetToSeq({x}) = <<x>>
  <2>1. Cardinality({x}) = 1
    BY FS_Singleton
  <2>2. [1 .. 1 -> {x}] = {<<x>>}
    OBVIOUS
  <2>3. IsInjective(<<x>>)
    BY DEF IsInjective
  <2> QED
    BY <2>1, <2>2, <2>3 DEF SetToSeq
<1> QED
  BY <1>1, <1>2

\* The families of readings: there is one if any result has a reading.
ReadingsText(results) ==
    LET keys == SetToSeq(Keys(results))
    IN  FlattenSeq([k \in DOMAIN keys |-> RenderFamily(keys[k], Readings(results, keys[k]))])

MetricKeys(told) == UNION {{m.key : m \in ToSet(r.metrics)} : r \in told}

\* Results have at most one metric, the days of a certificate, and so one family of readings.
LEMMA KeysOfResults ==
    ASSUME NEW results, Told(ToSet(results))
    PROVE  /\ MetricKeys(ToSet(results)) \subseteq {TlsCertExpiryDays}
           /\ \/ /\ MetricKeys(ToSet(results)) = {}
                 /\ ReadingsText(results) = <<>>
              \/ ReadingsText(results)
                 = RenderFamily(TlsCertExpiryDays, Readings(results, TlsCertExpiryDays))
<1> DEFINE told == ToSet(results)
           key == TlsCertExpiryDays
<1>1. ASSUME NEW r \in told, NEW m \in ToSet(r.metrics) PROVE m.key = key
  <2>1. r.metrics = <<>> \/ \E v : r.metrics = <<[key |-> key, value |-> v]>>
    BY DEF Told, Writable, Optional
  <2>2. CASE r.metrics = <<>>
    BY <2>2 DEF ToSet
  <2>3. CASE \E v : r.metrics = <<[key |-> key, value |-> v]>>
    <3>1. PICK v : r.metrics = <<[key |-> key, value |-> v]>>
      BY <2>3
    <3>2. ToSet(r.metrics) = {[key |-> key, value |-> v]}
      BY <3>1 DEF ToSet
    <3> QED
      BY <3>2
  <2> QED
    BY <2>1, <2>2, <2>3
<1>2. MetricKeys(told) \subseteq {key}
  BY <1>1 DEF MetricKeys
<1>3. Keys(results) = MetricKeys(told)
  BY <1>1, KeyStays DEF Keys, MetricKeys
<1>4. CASE MetricKeys(told) = {}
  <2>1. PICK keys : keys = SetToSeq(Keys(results))
    OBVIOUS
  <2>2. keys = <<>>
    BY <1>3, <1>4, <2>1, KeysInOrder
  <2>3. [k \in DOMAIN keys |-> RenderFamily(keys[k], Readings(results, keys[k]))] = <<>>
    BY <2>2
  <2>4. ReadingsText(results) = <<>>
    BY <2>1, <2>3, FlattenNone DEF ReadingsText
  <2> QED
    BY <1>2, <1>4, <2>4
<1>5. CASE MetricKeys(told) = {key}
  <2>1. PICK keys : keys = SetToSeq(Keys(results))
    OBVIOUS
  <2>2. keys = <<key>>
    BY <1>3, <1>5, <2>1, KeysInOrder
  <2>3. DOMAIN keys = 1 .. 1 /\ keys[1] = key
    BY <2>2
  <2>4. [k \in DOMAIN keys |-> RenderFamily(keys[k], Readings(results, keys[k]))]
        = <<RenderFamily(key, Readings(results, key))>>
    BY <2>3
  <2>5. ReadingsText(results) = RenderFamily(key, Readings(results, key))
    BY <2>1, <2>4, FlattenOne DEF ReadingsText
  <2> QED
    BY <1>2, <2>5
<1> QED
  BY <1>2, <1>4, <1>5

\* The exposition is read as what the results are.
LEMMA ExpositionIsRead ==
    ASSUME NEW n, NEW results, Distinct(results, n), Told(ToSet(results)), NEW numbers
    PROVE  ExpositionReadsBack(results, numbers)
<1>1. PICK told : told = ToSet(results)
  OBVIOUS
<1>2. Told(told)
  BY <1>1
<1> DEFINE n1 == One("success")
           n2 == One("duration_seconds")
           n3 == One("http_status_code")
           n4 == One("last_run")
           n5 == TlsCertExpiryDays
           n6 == UNION {ScalarName[i] : i \in 1 .. 8}
           v1 == [r \in told |-> {Up(r)}]
           v2 == [r \in told |-> {r.response_ms}]
           v3 == [r \in told |-> ToSet(r.status_code)]
           v4 == [r \in told |-> {r.timestamp}]
           v5 == [r \in told |-> ReadingsUnder(r, n5)]
           f1 == RenderFamily(n1, Samples(results, Up))
           f2 == RenderFamily(n2, Samples(results, LAMBDA r : r.response_ms))
           f3 == RenderFamily(n3, StatusSamples(results))
           f4 == RenderFamily(n4, Samples(results, LAMBDA r : r.timestamp))
           f5 == ReadingsText(results)
           f6 == ScalarText(numbers)
           text == Join(Join(Join(Join(Join(f1, f2), f3), f4), f5), f6)
<1>3. Orderly(f1, {n1}) /\ Shows(f1, n1, v1)
  <2>1. \A r \in told : \A v \in v1[r] : Digits(v) \in Plain
    BY <1>2 DEF Told, Writable
  <2>2. Series(Samples(results, Up), told, v1) /\ DOMAIN v1 = told
    BY <1>1, FieldIsSeries
  <2> HIDE DEF v1, n1
  <2> QED
    BY <1>2, <2>1, <2>2, FamilyIsRight
<1>4. Orderly(f2, {n2}) /\ Shows(f2, n2, v2)
  <2>1. \A r \in told : \A v \in v2[r] : Digits(v) \in Plain
    BY <1>2 DEF Told, Writable
  <2>2. Series(Samples(results, LAMBDA r : r.response_ms), told, v2) /\ DOMAIN v2 = told
    BY <1>1, FieldIsSeries
  <2> HIDE DEF v2, n2
  <2> QED
    BY <1>2, <2>1, <2>2, FamilyIsRight
<1>5. Orderly(f3, {n3}) /\ Shows(f3, n3, v3)
  <2>1. ASSUME NEW r \in told, NEW v \in v3[r] PROVE Digits(v) \in Plain
    <3>1. r.status_code = <<>> \/ \E s : Digits(s) \in Plain /\ r.status_code = <<s>>
      BY <1>2 DEF Told, Writable, Optional
    <3>2. v \in ToSet(r.status_code)
      OBVIOUS
    <3> QED
      BY <3>1, <3>2 DEF ToSet
  <2>2. Series(StatusSamples(results), told, v3) /\ DOMAIN v3 = told
    BY <1>1, <1>2, StatusIsSeries
  <2> HIDE DEF v3, n3
  <2> QED
    BY <1>2, <2>1, <2>2, FamilyIsRight
<1>6. Orderly(f4, {n4}) /\ Shows(f4, n4, v4)
  <2>1. \A r \in told : \A v \in v4[r] : Digits(v) \in Plain
    BY <1>2 DEF Told, Writable
  <2>2. Series(Samples(results, LAMBDA r : r.timestamp), told, v4) /\ DOMAIN v4 = told
    BY <1>1, FieldIsSeries
  <2> HIDE DEF v4, n4
  <2> QED
    BY <1>2, <2>1, <2>2, FamilyIsRight
<1>7. /\ MetricKeys(told) \subseteq {n5}
      /\ Orderly(f5, {n5})
      /\ MetricKeys(told) # {} => Shows(f5, n5, v5)
  <2>1. ASSUME NEW r \in told, NEW v \in v5[r] PROVE Digits(v) \in Plain
    <3>1. r.metrics = <<>> \/ \E d : /\ Digits(d) \in Plain
                                     /\ r.metrics = <<[key |-> n5, value |-> d]>>
      BY <1>2 DEF Told, Writable, Optional
    <3>2. PICK m \in ToSet(r.metrics) : m.value = v
      BY DEF ReadingsUnder
    <3>3. PICK j \in DOMAIN r.metrics : m = r.metrics[j]
      BY DEF ToSet
    <3>4. r.metrics # <<>>
      BY <3>3
    <3>5. PICK d : Digits(d) \in Plain /\ r.metrics = <<[key |-> n5, value |-> d]>>
      BY <3>1, <3>4
    <3>6. m.value = d
      BY <3>3, <3>5
    <3> QED
      BY <3>2, <3>5, <3>6
  <2>2. Series(Readings(results, n5), told, v5) /\ DOMAIN v5 = told
    BY <1>1, <1>2, ReadingsAreSeries
  <2>3. /\ MetricKeys(told) \subseteq {n5}
        /\ \/ MetricKeys(told) = {} /\ f5 = <<>>
           \/ f5 = RenderFamily(n5, Readings(results, n5))
    BY <1>1, <1>2, KeysOfResults
  <2> HIDE DEF v5, n5, f5
  <2>4. /\ Orderly(RenderFamily(n5, Readings(results, n5)), {n5})
        /\ Shows(RenderFamily(n5, Readings(results, n5)), n5, v5)
    BY <1>2, <2>1, <2>2, FamilyIsRight
  <2> QED
    BY <2>3, <2>4, NothingIsOrderly
<1>8. Orderly(f6, n6)
  BY ScalarsAreOrderly
<1>9. /\ n1 # n2 /\ n1 # n3 /\ n1 # n4 /\ n1 # n5 /\ n2 # n3 /\ n2 # n4 /\ n2 # n5
      /\ n3 # n4 /\ n3 # n5 /\ n4 # n5
  <2>1. n5 = One("tls_cert_expiry_days")
    BY DEF TlsCertExpiryDays, One
  <2> QED
    BY <2>1, OneIsInjective
<1>10. n1 \notin n6 /\ n2 \notin n6 /\ n3 \notin n6 /\ n4 \notin n6 /\ n5 \notin n6
  <2>1. n5 = One("tls_cert_expiry_days")
    BY DEF TlsCertExpiryDays, One
  <2> HIDE DEF n6, n5
  <2> QED
    BY <2>1, ScalarsAreNamed DEF n6
<1>11. Render(results, numbers) = text
  BY Zenon DEF Render, ReadingsText, ScalarText, Join, One
<1>12. /\ <<"success">> = n1 /\ <<"duration_seconds">> = n2 /\ <<"http_status_code">> = n3
       /\ <<"last_run">> = n4
  BY DEF One
<1> HIDE DEF n1, n2, n3, n4, n5, n6, v1, v2, v3, v4, f1, f2, f3, f4, f5, f6
<1>13. /\ Orderly(Join(f1, f2), {n1, n2})
       /\ Shows(Join(f1, f2), n1, v1) /\ Shows(Join(f1, f2), n2, v2)
  <2>1. PICK A, B : A = {n1} /\ B = {n2}
    OBVIOUS
  <2>2. A \cap B = {} /\ A \cup B = {n1, n2} /\ {n1} \subseteq A /\ n2 \in B
    BY <1>9, <2>1
  <2>3. Orderly(f1, A) /\ Orderly(f2, B)
    BY <1>3, <1>4, <2>1
  <2>4. /\ Orderly(Join(f1, f2), A \cup B)
        /\ \A name \in A : \A values :
              Shows(f1, name, values) => Shows(Join(f1, f2), name, values)
        /\ \A name \in B : \A values :
              Shows(f2, name, values) => Shows(Join(f1, f2), name, values)
    BY <2>2, <2>3, FamiliesFollow
  <2> QED
    BY <1>3, <1>4, <2>2, <2>4
<1>14. PICK t2 : t2 = Join(f1, f2)
  OBVIOUS
<1>15. /\ Orderly(Join(t2, f3), {n1, n2, n3})
       /\ Shows(Join(t2, f3), n1, v1) /\ Shows(Join(t2, f3), n2, v2) /\ Shows(Join(t2, f3), n3, v3)
  <2>1. PICK A, B : A = {n1, n2} /\ B = {n3}
    OBVIOUS
  <2>2. A \cap B = {} /\ A \cup B = {n1, n2, n3} /\ {n1, n2} \subseteq A /\ n3 \in B
    BY <1>9, <2>1
  <2>3. Orderly(t2, A) /\ Orderly(f3, B)
    BY <1>5, <1>13, <1>14, <2>1
  <2>4. /\ Orderly(Join(t2, f3), A \cup B)
        /\ \A name \in A : \A values :
              Shows(t2, name, values) => Shows(Join(t2, f3), name, values)
        /\ \A name \in B : \A values :
              Shows(f3, name, values) => Shows(Join(t2, f3), name, values)
    BY <2>2, <2>3, FamiliesFollow
  <2> QED
    BY <1>5, <1>13, <1>14, <2>2, <2>4
<1>16. PICK t3 : t3 = Join(t2, f3)
  OBVIOUS
<1>17. /\ Orderly(Join(t3, f4), {n1, n2, n3, n4})
       /\ Shows(Join(t3, f4), n1, v1) /\ Shows(Join(t3, f4), n2, v2)
       /\ Shows(Join(t3, f4), n3, v3) /\ Shows(Join(t3, f4), n4, v4)
  <2>1. PICK A, B : A = {n1, n2, n3} /\ B = {n4}
    OBVIOUS
  <2>2. A \cap B = {} /\ A \cup B = {n1, n2, n3, n4} /\ {n1, n2, n3} \subseteq A /\ n4 \in B
    BY <1>9, <2>1
  <2>3. Orderly(t3, A) /\ Orderly(f4, B)
    BY <1>6, <1>15, <1>16, <2>1
  <2>4. /\ Orderly(Join(t3, f4), A \cup B)
        /\ \A name \in A : \A values :
              Shows(t3, name, values) => Shows(Join(t3, f4), name, values)
        /\ \A name \in B : \A values :
              Shows(f4, name, values) => Shows(Join(t3, f4), name, values)
    BY <2>2, <2>3, FamiliesFollow
  <2> QED
    BY <1>6, <1>15, <1>16, <2>2, <2>4
<1>18. PICK t4 : t4 = Join(t3, f4)
  OBVIOUS
<1>19. /\ Orderly(Join(t4, f5), {n1, n2, n3, n4, n5})
       /\ Shows(Join(t4, f5), n1, v1) /\ Shows(Join(t4, f5), n2, v2)
       /\ Shows(Join(t4, f5), n3, v3) /\ Shows(Join(t4, f5), n4, v4)
       /\ MetricKeys(told) # {} => Shows(Join(t4, f5), n5, v5)
  <2>1. PICK A, B : A = {n1, n2, n3, n4} /\ B = {n5}
    OBVIOUS
  <2>2. A \cap B = {} /\ A \cup B = {n1, n2, n3, n4, n5} /\ {n1, n2, n3, n4} \subseteq A /\ n5 \in B
    BY <1>9, <2>1
  <2>3. Orderly(t4, A) /\ Orderly(f5, B)
    BY <1>7, <1>17, <1>18, <2>1
  <2>4. /\ Orderly(Join(t4, f5), A \cup B)
        /\ \A name \in A : \A values :
              Shows(t4, name, values) => Shows(Join(t4, f5), name, values)
        /\ \A name \in B : \A values :
              Shows(f5, name, values) => Shows(Join(t4, f5), name, values)
    BY <2>2, <2>3, FamiliesFollow
  <2> QED
    BY <1>7, <1>17, <1>18, <2>2, <2>4
<1>20. PICK t5 : t5 = Join(t4, f5)
  OBVIOUS
<1>21. /\ Orderly(Join(t5, f6), {n1, n2, n3, n4, n5} \cup n6)
       /\ Shows(Join(t5, f6), n1, v1) /\ Shows(Join(t5, f6), n2, v2)
       /\ Shows(Join(t5, f6), n3, v3) /\ Shows(Join(t5, f6), n4, v4)
       /\ MetricKeys(told) # {} => Shows(Join(t5, f6), n5, v5)
  <2>1. {n1, n2, n3, n4, n5} \cap n6 = {}
    BY <1>10
  <2> QED
    BY <1>8, <1>19, <1>20, <2>1, FamiliesFollow
<1>22. text = Join(t5, f6)
  BY <1>14, <1>16, <1>18, <1>20
<1> HIDE DEF text
<1>23. \A key \in MetricKeys(told) : Shows(text, key, [r \in told |-> ReadingsUnder(r, key)])
  <2> TAKE key \in MetricKeys(told)
  <2>1. key = n5
    BY <1>7
  <2> QED
    BY <1>21, <1>22, <2>1
<1>24. HeadersAreRight(text)
  BY <1>21, <1>22 DEF Orderly
<1>25. ExpositionReadsBack(results, numbers)
       <=> /\ HeadersAreRight(text)
           /\ Shows(text, n1, v1) /\ Shows(text, n2, v2) /\ Shows(text, n3, v3)
           /\ Shows(text, n4, v4)
           /\ \A key \in MetricKeys(told) : Shows(text, key, [r \in told |-> ReadingsUnder(r, key)])
  BY <1>1, <1>11, <1>12 DEF ExpositionReadsBack, MetricKeys, v1, v2, v3, v4
<1> QED
  BY <1>21, <1>22, <1>23, <1>24, <1>25

\* Results read back as what they are, and writes go where the operator said.
THEOREM ResultsAreReadBack == Spec => []ResultsReadBack
<1>1. StartupInv => ResultsReadBack
  <2> SUFFICES ASSUME StartupInv, stage = "trace"
               PROVE  /\ \A i, j \in DOMAIN cfg.probes :
                            cfg.probes[i].name = cfg.probes[j].name => i = j
                      /\ \A o \in Outcomes :
                            LET results == [i \in DOMAIN cfg.probes |-> Report(cfg.probes[i], o)]
                            IN  /\ \A i \in DOMAIN results : LineReadsBack(results[i])
                                /\ ExpositionReadsBack(results, [n \in DOMAIN Scalars |-> n])
                      /\ QueryReadsBack(cfg.influx)
    BY DEF ResultsReadBack
  <2>1. Loads(loaded, env) /\ cfg = Configured(loaded, env) /\ TypedFile(loaded) /\ WorldFits
    BY DEF StartupInv, Accepted, FilesAreTyped
  <2>2. PICK n \in Nat : DOMAIN cfg.probes = 1 .. n
    BY <2>1, ProbesAreListed
  <2>3. \A i, j \in DOMAIN cfg.probes : cfg.probes[i].name = cfg.probes[j].name => i = j
    BY <2>1, ProbesAreListed
  <2>4. \A i \in DOMAIN cfg.probes :
           /\ cfg.probes[i].type \in Types
           /\ cfg.probes[i].name \in Seq(Inert) /\ cfg.probes[i].target.text \in Seq(Inert)
    BY <2>1, ProbeIsInert
  <2>5. QueryReadsBack(cfg.influx)
    BY <2>1, PlaceOfWrites, QueryIsRead
  <2>6. ASSUME NEW o \in Outcomes,
               NEW results, results = [i \in DOMAIN cfg.probes |-> Report(cfg.probes[i], o)]
        PROVE  /\ \A i \in DOMAIN results : LineReadsBack(results[i])
               /\ ExpositionReadsBack(results, [k \in DOMAIN Scalars |-> k])
    <3>1. \A i \in DOMAIN results : /\ Writable(results[i])
                                    /\ results[i].probe_name = cfg.probes[i].name
      <4> TAKE i \in DOMAIN results
      <4>1. results[i] = Report(cfg.probes[i], o) /\ i \in DOMAIN cfg.probes
        BY <2>6
      <4>2. Writable(Report(cfg.probes[i], o))
        BY <2>4, <4>1, ReportIsWritable
      <4>3. Report(cfg.probes[i], o).probe_name = cfg.probes[i].name
        BY <2>4, <4>1, ReportPrintable DEF Printable
      <4> QED
        BY <4>1, <4>2, <4>3
    <3>2. DOMAIN results = 1 .. n
      BY <2>2, <2>6
    <3>3. \A i, j \in 1 .. n : results[i].probe_name = results[j].probe_name => i = j
      BY <2>2, <2>3, <3>1, <3>2
    <3>4. Distinct(results, n)
      BY <3>2, <3>3 DEF Distinct
    <3>5. Told(ToSet(results))
      <4>1. \A r \in ToSet(results) : \E i \in 1 .. n : r = results[i]
        BY <3>2 DEF ToSet
      <4> QED
        BY <3>1, <3>2, <3>3, <4>1 DEF Told
    <3> QED
      BY <3>1, <3>4, <3>5, LineIsRead, ExpositionIsRead
  <2> QED
    BY <2>3, <2>5, <2>6
<1> QED
  BY <1>1, StartupInvariant, PTL
-----------------------------------------------------------------------------
(***************************************************************************)
(* The pace of retries.                                                    *)
(***************************************************************************)

\* f[i] is 2^i for i up to n.
Doubling(f, n) == f = [i \in 0 .. n |-> IF i = 0 THEN 1 ELSE 2 * f[i - 1]]

\* One more place can be shifted.
LEMMA DoublingExtends ==
    ASSUME NEW n \in Nat, \E f : Doubling(f, n)
    PROVE  \E g : Doubling(g, n + 1)
<1>1. PICK f : Doubling(f, n)
  OBVIOUS
<1> DEFINE Body(h, i) == IF i = 0 THEN 1 ELSE 2 * h[i - 1]
           g == [i \in 0 .. n + 1 |-> IF i \in 0 .. n THEN f[i] ELSE Body(f, i)]
<1>2. \A i \in 0 .. n + 1 : i # 0 => g[i - 1] = f[i - 1]
  OBVIOUS
<1>3. \A i \in 0 .. n : f[i] = Body(f, i)
  BY <1>1 DEF Doubling
<1>4. \A i \in 0 .. n + 1 : g[i] = Body(g, i)
  <2> TAKE i \in 0 .. n + 1
  <2>1. g[i] = Body(f, i)
    <3> HIDE DEF Body
    <3> QED
      BY <1>3
  <2>2. Body(f, i) = Body(g, i)
    <3> HIDE DEF g
    <3> QED
      BY <1>2
  <2> QED
    BY <2>1, <2>2
<1>5. g = [i \in 0 .. n + 1 |-> g[i]]
  OBVIOUS
<1>6. [i \in 0 .. n + 1 |-> g[i]] = [i \in 0 .. n + 1 |-> Body(g, i)]
  <2> HIDE DEF g, Body
  <2> QED
    BY <1>4
<1>7. Doubling(g, n + 1)
  <2> HIDE DEF g
  <2> QED
    BY <1>5, <1>6 DEF Doubling
<1> QED
  BY <1>7

\* So there is such a function for any number of places.
LEMMA DoublingExists ==
    ASSUME NEW n \in Nat
    PROVE  \E f : Doubling(f, n)
<1> DEFINE Bad == {k \in Nat : ~\E f : Doubling(f, k)}
<1>1. ASSUME Bad # {} PROVE FALSE
  <2>1. PICK m \in Bad : \A k \in Bad : m <= k
    BY <1>1, LeastNatural
  <2>2. m # 0
    <3>1. Doubling([i \in 0 .. 0 |-> 1], 0)
      BY DEF Doubling
    <3> QED
      BY <3>1
  <2>3. m - 1 \in Nat /\ m - 1 \notin Bad
    BY <2>1, <2>2
  <2>4. \E f : Doubling(f, m - 1)
    BY <2>3
  <2>5. \E f : Doubling(f, (m - 1) + 1)
    BY <2>3, <2>4, DoublingExtends
  <2> QED
    BY <2>1, <2>3, <2>5
<1> QED
  BY <1>1

\* The shifted one is 1 at first, doubles with every place and is never zero.
LEMMA ShiftedOneDoubles ==
    /\ \A n \in 0 .. LargestShift : ShiftedOne[n] \in Nat /\ ShiftedOne[n] >= 1
    /\ \A n \in 1 .. LargestShift : ShiftedOne[n] = 2 * ShiftedOne[n - 1]
<1>1. LargestShift \in Nat
  BY SettingsAssumption
<1> DEFINE P(f) == f = [i \in 0 .. LargestShift |-> IF i = 0 THEN 1 ELSE 2 * f[i - 1]]
<1>2. P(CHOOSE f : P(f))
  <2>1. \E f : P(f)
    BY <1>1, DoublingExists DEF Doubling
  <2> HIDE DEF P
  <2> QED
    BY <2>1
<1>3. ShiftedOne = (CHOOSE f : P(f))
  BY DEF ShiftedOne
<1>4. P(ShiftedOne)
  <2> HIDE DEF P
  <2> QED
    BY <1>2, <1>3
<1>5. \A n \in 0 .. LargestShift : ShiftedOne[n] = IF n = 0 THEN 1 ELSE 2 * ShiftedOne[n - 1]
  BY <1>4
<1> HIDE DEF P
<1> DEFINE Bad == {n \in 0 .. LargestShift : ~(ShiftedOne[n] \in Nat /\ ShiftedOne[n] >= 1)}
<1>6. ASSUME Bad # {} PROVE FALSE
  <2>1. Bad \subseteq Nat
    BY <1>1
  <2>2. PICK m \in Bad : \A n \in Bad : m <= n
    <3> HIDE DEF Bad
    <3> QED
      BY <1>6, <2>1, LeastNatural
  <2>3. m # 0
    BY <1>1, <1>5, <2>2
  <2>4. m - 1 \in 0 .. LargestShift /\ m - 1 \notin Bad
    BY <1>1, <2>2, <2>3
  <2>5. ShiftedOne[m] = 2 * ShiftedOne[m - 1]
    BY <1>5, <2>2, <2>3
  <2> QED
    BY <2>2, <2>4, <2>5
<1>7. \A n \in 0 .. LargestShift : ShiftedOne[n] \in Nat /\ ShiftedOne[n] >= 1
  BY <1>6
<1>8. \A n \in 1 .. LargestShift : ShiftedOne[n] = 2 * ShiftedOne[n - 1]
  BY <1>1, <1>5
<1> QED
  BY <1>7, <1>8

\* The backoff is positive, below the ceiling, and does not shrink.
LEMMA BackoffGrows ==
    ASSUME NEW initial \in Nat, NEW max \in Nat, initial > 0, max > 0, NEW attempt \in Nat
    PROVE  /\ BackoffDelay(initial, max, attempt) \in 1 .. max
           /\ BackoffDelay(initial, max, attempt) <= BackoffDelay(initial, max, attempt + 1)
<1> DEFINE Shift(a) == IF a > LargestShift THEN LargestShift ELSE a
           Product(a) == initial * ShiftedOne[Shift(a)]
           Limited(d) == IF d > LargestDuration \/ d > max THEN max ELSE d
<1>1. LargestShift \in Nat /\ LargestDuration \in Nat
  BY SettingsAssumption
<1>2. \A a \in Nat : BackoffDelay(initial, max, a) = Limited(Product(a))
  BY DEF BackoffDelay
<1>3. \A x, y \in Nat : x > 0 /\ y > 0 => x * y \in Nat /\ x * y > 0
  OBVIOUS
<1>4. ASSUME NEW a \in Nat PROVE Product(a) \in Nat /\ Product(a) > 0
  <2>1. Shift(a) \in 0 .. LargestShift
    BY <1>1
  <2>2. ShiftedOne[Shift(a)] \in Nat /\ ShiftedOne[Shift(a)] > 0
    BY <2>1, ShiftedOneDoubles
  <2> QED
    BY <1>3, <2>2
<1>5. Product(attempt) <= Product(attempt + 1)
  <2>1. CASE attempt >= LargestShift
    <3>1. Shift(attempt) = Shift(attempt + 1)
      BY <1>1, <2>1
    <3> HIDE DEF Shift
    <3>2. Product(attempt) = Product(attempt + 1)
      BY <3>1
    <3> HIDE DEF Product
    <3> QED
      BY <1>4, <3>2
  <2>2. CASE attempt < LargestShift
    <3>1. Shift(attempt) = attempt /\ Shift(attempt + 1) = attempt + 1
      BY <1>1, <2>2
    <3>2. ShiftedOne[attempt + 1] = 2 * ShiftedOne[attempt] /\ ShiftedOne[attempt] \in Nat
      BY <1>1, <2>2, ShiftedOneDoubles
    <3> HIDE DEF Shift
    <3>3. Product(attempt + 1) = initial * (2 * ShiftedOne[attempt])
          /\ Product(attempt) = initial * ShiftedOne[attempt]
      BY <3>1, <3>2
    <3>4. \A x \in Nat : initial * (2 * x) = 2 * (initial * x)
      OBVIOUS
    <3>5. Product(attempt + 1) = 2 * Product(attempt)
      BY <3>2, <3>3, <3>4
    <3>6. Product(attempt) \in Nat
      BY <1>4
    <3> HIDE DEF Product
    <3> QED
      BY <3>5, <3>6
  <2> QED
    BY <1>1, <2>1, <2>2
<1>6. \A d \in Nat : d > 0 => Limited(d) \in 1 .. max
  BY <1>1
<1>7. \A c, d \in Nat : c <= d => Limited(c) <= Limited(d)
  BY <1>1
<1> HIDE DEF Product, Limited
<1> QED
  BY <1>2, <1>4, <1>5, <1>6, <1>7

\* The numbers of an accepted configuration, which the environment cannot override.
LEMMA RetryNumbers ==
    ASSUME NEW f, NEW e, Loads(f, e), TypedFile(f), DOMAIN e \subseteq Variables
    PROVE  LET influx == Configured(f, e).influx IN
           /\ influx.retry_initial_backoff_ms \in Nat /\ influx.retry_initial_backoff_ms > 0
           /\ influx.retry_max_backoff_ms \in Nat /\ influx.retry_max_backoff_ms > 0
<1> DEFINE keys == {"retry_initial_backoff_ms", "retry_max_backoff_ms"}
           parsed == Complete(InfluxConfig, f.influx)
<1>1. "influx" \in DOMAIN f /\ Complete(AppConfig, f).influx = f.influx
      /\ "influx" \in DOMAIN Complete(AppConfig, f)
  BY DEF Loads, Parses, Accepts, AppConfig, Schema, Complete
<1>2. "influx" \in DOMAIN Parsed(f) /\ Parsed(f)["influx"] = parsed
  BY <1>1 DEF Parsed, Sections
<1>3. \A k \in keys : k \in DOMAIN parsed /\ parsed[k] \in Nat
  BY <1>1 DEF TypedFile, Loads, Complete, InfluxConfig, Schema
<1>4. \A k \in keys : <<"influx", k>> \notin DOMAIN e
  BY DEF Variables, LogFormatVar, Flags, Binds, Ports
<1>5. /\ "influx" \in DOMAIN Overridden(Parsed(f), e)
      /\ \A k \in keys : Overridden(Parsed(f), e)["influx"][k] \in Nat
  BY <1>2, <1>3, <1>4 DEF Overridden, Sections
<1>6. Configured(f, e).influx = Overridden(Parsed(f), e)["influx"]
  BY <1>5 DEF Configured, Escaped
<1>7. ValidInflux(Configured(f, e).influx)
  BY DEF Loads, Valid
<1> QED
  BY <1>5, <1>6, <1>7 DEF ValidInflux

\* No accepted numbers make the writer retry in a tight loop, wait longer than it may, or
\* wait less after more failures.
THEOREM RetriesArePaced == Spec => []BackoffIsPaced
<1>1. StartupInv => BackoffIsPaced
  <2> SUFFICES ASSUME StartupInv, stage = "trace",
                      NEW attempt \in 0..(LargestShift + 2), NEW after \in {NoValue, 0, 1, 60},
                      NEW class, class \notin {"written", "client"}
               PROVE  LET Delay(a) == RetryDelay(cfg.influx, class, after, a) IN
                      /\ Delay(attempt) <= cfg.influx.retry_max_backoff_ms
                      /\ after # 0 => Delay(attempt) > 0
                      /\ after = NoValue => Delay(attempt) <= Delay(attempt + 1)
    BY DEF BackoffIsPaced
  <2> DEFINE initial == cfg.influx.retry_initial_backoff_ms
             max == cfg.influx.retry_max_backoff_ms
             Backoff(a) == BackoffDelay(initial, max, a)
             Limited(d) == IF d > max THEN max ELSE d
             Delay(a) == RetryDelay(cfg.influx, class, after, a)
  <2>1. Loads(loaded, env) /\ cfg = Configured(loaded, env) /\ TypedFile(loaded)
        /\ DOMAIN env \subseteq Variables
    BY DEF StartupInv, Accepted, FilesAreTyped, WorldFits
  <2>2. initial \in Nat /\ initial > 0 /\ max \in Nat /\ max > 0
    BY <2>1, RetryNumbers
  <2>3. attempt \in Nat
    BY SettingsAssumption
  <2> HIDE DEF initial, max
  <2>4. /\ Backoff(attempt) \in 1 .. max /\ Backoff(attempt + 1) \in 1 .. max
        /\ Backoff(attempt) <= Backoff(attempt + 1)
    <3>1. \A a \in Nat : Backoff(a) \in 1 .. max /\ Backoff(a) <= Backoff(a + 1)
      BY <2>2, BackoffGrows
    <3> HIDE DEF Backoff
    <3> QED
      BY <2>3, <3>1
  <2> HIDE DEF Backoff
  <2>5. \A a : \/ Delay(a) = Limited(Backoff(a))
               \/ after # NoValue /\ Delay(a) = Limited(1000 * after)
    BY DEF RetryDelay, Backoff, initial, max
  <2>6. after = NoValue => \A a : Delay(a) = Limited(Backoff(a))
    BY <2>5
  <2> HIDE DEF Delay
  <2>7. Delay(attempt) <= max /\ (after # 0 => Delay(attempt) > 0)
    BY <2>2, <2>4, <2>5
  <2>8. after = NoValue => Delay(attempt) <= Delay(attempt + 1)
    BY <2>2, <2>4, <2>6
  <2> QED
    BY <2>7, <2>8 DEF Delay, max
<1> QED
  BY <1>1, StartupInvariant, PTL
=============================================================================
