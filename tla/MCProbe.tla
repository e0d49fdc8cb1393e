------------------------------ MODULE MCProbe -------------------------------
(* One loop of each type: one whose longest probe fits into the interval,   *)
(* and one whose probes run over several ticks.                             *)
EXTENDS Probe

CONSTANTS ip1, ip2

MCStatuses == {200, 301, 503}
MCAddresses == {ip1, ip2}
MCDays == -1..3

MCProbes == [type : Types, interval : {4, 2}, timeout : {1, 3},
             expected_status : {NoValue}, dns_expected_ip : {ip1},
             tls_expiry_fail_days : {[kind |-> "finite", n |-> 2]}]
=============================================================================
