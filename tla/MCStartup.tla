----------------------------- MODULE MCStartup ------------------------------
(***************************************************************************)
(* Instance of Startup for TLC. Each family of situations varies one part    *)
(* of the input over a plain rest: the listeners with the environment's      *)
(* overrides, one or two probes, the writer's numbers and names, the secret  *)
(* files, the output format, the shape of the file, and edits while          *)
(* healthchecks run.                                                        *)
(***************************************************************************)
EXTENDS Startup

CONSTANTS ip1, ip2, NoAddress, Garbage

MCStatuses == {101, 200, 204, 301, 404, 408, 429, 500, 599}
MCAddresses == {ip1, ip2}
MCDays == -1..3

V4Any == [v6 |-> FALSE, host |-> "any"]
V6Any == [v6 |-> TRUE, host |-> "any"]
V4Lan == [v6 |-> FALSE, host |-> "lan"]
V6Lo == [v6 |-> TRUE, host |-> "lo"]
MCLocalAddresses == {HealthAddr, V4Lan, V6Lo}

MCParse == [b \in {"0.0.0.0", "127.0.0.1", "10.0.0.1", "::", "::1",
                   "0:0:0:0:0:0:0:1", "localhost"} |->
              CASE b = "0.0.0.0" -> V4Any
                [] b = "127.0.0.1" -> HealthAddr
                [] b = "10.0.0.1" -> V4Lan
                [] b = "::" -> V6Any
                [] b \in {"::1", "0:0:0:0:0:0:0:1"} -> V6Lo
                [] OTHER -> NoValue]

None == <<>>
PlainInflux == [url |-> "absolute", org |-> <<"a">>, bucket |-> <<"b">>]
Plain == [influx |-> PlainInflux]
Secrets == [p \in {"influx_token"} |-> "t"]
PlainSituation == [file |-> Plain, edit |-> NoValue, env |-> None, output |-> NoValue,
                   disk |-> Secrets]

(* Listeners                                                                *)
ListenerSettings == [enabled : {TRUE}, bind : DOMAIN MCParse, port : {0, 9115, 9116}]
ListenerFiles ==
    {Plain @@ [ui |-> u, metrics |-> m, health |-> [enabled |-> h]] :
        u \in ListenerSettings, m \in ListenerSettings, h \in BOOLEAN}
ListenerEnvironments ==
    {None,
     <<"ui", "enabled">> :> FALSE @@ <<"metrics", "port">> :> 9115,
     <<"ui", "port">> :> 9115 @@ <<"metrics", "enabled">> :> Garbage,
     <<"ui", "bind">> :> "::" @@ <<"metrics", "port">> :> Garbage,
     <<"metrics", "bind">> :> "localhost" @@ <<"ui", "port">> :> 9116}
ListenerSituations ==
    {[PlainSituation EXCEPT !.file = f, !.env = e] : f \in ListenerFiles, e \in ListenerEnvironments}

(* Probes                                                                   *)
Names == {<<>>, <<"a">>, <<"a", LF>>, <<"a", "\\", "n">>, <<"a", "\\">>, <<"a", ",">>,
          <<" ", "=", "a">>, <<"\"">>, <<ESC, CR>>, <<CSI, "}">>}
PlainProbe == [name |-> <<"a">>, type |-> "tcp",
               target |-> [text |-> <<"h", ":", "1">>, shape |-> "name"]]
NamedProbes == {<<[PlainProbe EXCEPT !.name = n],
                  [name |-> m, type |-> "tls", target |-> [text |-> n, shape |-> "name"]]>> :
                   n \in Names, m \in Names}
Shapes == {"socket", "name", "bare", "bare_v6", "url", "url_port"}
TypedProbes == {<<[PlainProbe EXCEPT !.type = t, !.target.shape = s]>> :
                   t \in Types \cup {"icmp"}, s \in Shapes}
CheckedProbes ==
    {<<[PlainProbe EXCEPT !.type = t, !.target.shape = s]
       @@ [expected_status |-> c, dns_expected_ip |-> a, tls_expiry_fail_days |-> d]>> :
        t \in {"https", "dns", "tls"}, s \in {"url", "socket"},
        c \in {NoValue, 99, 100, 101, 102, 599, 600}, a \in {NoValue, ip1, NoAddress},
        d \in {[kind |-> "finite", n |-> k] : k \in {-1, 0, 3, 9}} \cup
              {[kind |-> "inf"], [kind |-> "nan"]}}
ProbeSituations ==
    {[PlainSituation EXCEPT !.file = Plain @@ [probes |-> ps]] :
        ps \in NamedProbes \cup TypedProbes \cup CheckedProbes}

(* The writer                                                               *)
InfluxFiles ==
    {[influx |-> PlainInflux @@ [retry_initial_backoff_ms |-> i, retry_max_backoff_ms |-> m,
                                 batch_size |-> b]] :
        i \in {0, 1, 3, 500, 3000}, m \in {0, 1, 2, 500, 30000, 50000}, b \in {0, 10}}
    \cup {[influx |-> [PlainInflux EXCEPT !.org = o, !.bucket = b]] :
             o \in {<<>>, <<"a", "&">>, <<"ae", "=">>, <<LF, "%">>}, b \in {<<"b", " ", "%">>, <<"~">>}}
InfluxSituations == {[PlainSituation EXCEPT !.file = f] : f \in InfluxFiles}

(* Secrets                                                                  *)
SecretSituations ==
    {[PlainSituation EXCEPT !.file = f, !.disk = d, !.env = e] :
        f \in {Plain @@ [metrics |-> [enabled |-> TRUE]],
               Plain @@ [metrics |-> [enabled |-> TRUE, api_key_file |-> "key"]],
               Plain @@ [metrics |-> [enabled |-> TRUE, api_key_file |-> ""]],
               Plain @@ [ui |-> [enabled |-> TRUE], metrics |-> [api_key_file |-> "key"]]},
        d \in {None, "influx_token" :> "", "influx_token" :> "t",
               "influx_token" :> "t" @@ "key" :> "", "influx_token" :> "t" @@ "key" :> "k"},
        e \in {None, <<"metrics", "api_key_file">> :> "key", <<"metrics", "api_key_file">> :> "",
               <<"influx", "token_file">> :> "key"}}

(* The output format                                                        *)
OutputSituations ==
    {[PlainSituation EXCEPT !.file = Plain @@ [log |-> l], !.env = e, !.output = o] :
        l \in {None, [format |-> "json"], [format |-> "pretty", level |-> "error"]},
        o \in {NoValue, "json", "pretty", "xml"},
        e \in {None, LogFormatVar :> "json", LogFormatVar :> "pretty", LogFormatVar :> "xml",
               <<"log", "level">> :> "debug" @@ <<"influx", "url">> :> "localhost:8086",
               <<"log", "level">> :> "error" @@ <<"influx", "org">> :> <<"b">>}}

(* The shape of the file                                                    *)
ShapeSituations ==
    {[PlainSituation EXCEPT !.file = f] :
        f \in {Unreadable, None, Plain @@ [prbes |-> <<>>], [influx |-> [url |-> "absolute"]],
               Plain @@ [ui |-> [prot |-> 80]], Plain @@ [probes |-> <<[name |-> <<"a">>]>>],
               Plain @@ [event_hub_capacity |-> 0]}}

(* Edits                                                                    *)
Edited == {Plain, Plain @@ [health |-> [port |-> 9117]], Plain @@ [health |-> [enabled |-> FALSE]],
           Plain @@ [health |-> [port |-> 0]],
           Plain @@ [health |-> [enabled |-> FALSE], ui |-> [enabled |-> TRUE, port |-> 9115]],
           Plain @@ [health |-> [enabled |-> FALSE], metrics |-> [enabled |-> TRUE, port |-> 9115]],
           Unreadable}
EditSituations ==
    {[PlainSituation EXCEPT !.file = f, !.edit = g, !.disk = d] :
        f \in Edited, g \in Edited, d \in {None, Secrets}}

MCSituations ==
    ListenerSituations \cup ProbeSituations \cup InfluxSituations \cup SecretSituations
    \cup OutputSituations \cup ShapeSituations \cup EditSituations

(* Outcomes                                                                 *)
PlainOutcome ==
    [failure |-> <<>>, client |-> <<>>, chain |-> <<200>>, elapsed |-> 7, now |-> 99,
     text |-> [len |-> 5, match |-> 5, newline |-> 0], says |-> <<"a">>,
     v4 |-> {ip1}, v6 |-> {ip2}, found |-> <<ip1, ip2>>, bytes |-> 1,
     trusted |-> TRUE, certificate |-> 3]

Errors == {<<"a", LF>>, <<ESC, "\\">>, <<"\"", CR, "\\">>, <<TAB, CSI, ",">>}

MCOutcomes ==
    {PlainOutcome}
    \cup {[PlainOutcome EXCEPT !.failure = e] : e \in Errors}
    \cup {[PlainOutcome EXCEPT !.client = <<"no root store">>]}
    \cup {[PlainOutcome EXCEPT !.chain = c] :
             c \in {<<101>>, <<404>>, <<599>>, <<301, 200>>, <<301, 404>>}}
    \cup {[PlainOutcome EXCEPT !.text = t, !.says = e] :
             t \in {[len |-> 0, match |-> 0, newline |-> 0], [len |-> 5, match |-> 1, newline |-> 2]},
             e \in Errors}
    \cup {[PlainOutcome EXCEPT !.v4 = a, !.v6 = b, !.found = f] :
             a \in {{}, {ip1}}, b \in {{}, {ip2}}, f \in {<<>>, <<ip2>>}}
    \cup {[PlainOutcome EXCEPT !.bytes = 0]}
    \cup {[PlainOutcome EXCEPT !.trusted = t, !.certificate = c] :
             t \in BOOLEAN, c \in {-1, 0, 2, NoCertificate}}
=============================================================================
