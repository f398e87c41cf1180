----------------------------- MODULE MCStartup -----------------------------
(***************************************************************************)
(* Constants for model-checking Startup.                                    *)
(***************************************************************************)
EXTENDS Startup

Ports(list, ranges) == [set |-> TRUE, list |-> list, ranges |-> ranges]
Auth(keys) == [enabled |-> TRUE, keys |-> keys, header |-> TRUE]

\* A valid configuration without a log file and without a cluster
Plain ==
    [logging |-> "off", cluster |-> FALSE, noise |-> FALSE, env |-> FALSE,
     cluster_tls |-> FALSE, server_tls |-> FALSE,
     ports |-> [set |-> FALSE, list |-> {}, ranges |-> {}],
     gossip_interval |-> 1, gossip_permits |-> 1, breaker |-> TRUE, failures |-> 1,
     successes |-> 1, backoff_base |-> 1, backoff_max |-> 4, version_action |-> "warn",
     instances |-> 1, body_limit |-> 1, idle_timeout |-> 1, body_timeout |-> 1,
     detect_timeout |-> 1, watchdog |-> TRUE, window |-> 1, sample_interval |-> 1,
     auth |-> [enabled |-> FALSE, keys |-> {}, header |-> TRUE], secrets |-> "absent",
     secret |-> [auth |-> Auth({"k"})], secrets_explicit |-> FALSE]

OnePort == [Plain EXCEPT !.ports = Ports({}, {[start |-> 7, end |-> 7]})]
Cluster == [Plain EXCEPT !.cluster = TRUE]

AllConfigs ==
    {Plain,
     [Plain EXCEPT !.logging = "plain"],
     [Plain EXCEPT !.logging = "gzip"],
     [Cluster EXCEPT !.noise = TRUE],
     [Cluster EXCEPT !.noise = TRUE, !.env = TRUE],
     \* settings at their edge
     OnePort,
     [Plain EXCEPT !.ports = Ports({}, {[start |-> 8, end |-> 7]})],
     [Plain EXCEPT !.ports = Ports({}, {})],
     [Plain EXCEPT !.ports = Ports({7}, {[start |-> 8, end |-> 7]})],
     [Plain EXCEPT !.auth = Auth({})],
     [Plain EXCEPT !.auth = Auth({}), !.secrets = "read"],
     [Plain EXCEPT !.secrets = "read", !.secret = [auth |-> Auth({})]],
     [Plain EXCEPT !.cluster_tls = TRUE, !.secrets = "read", !.secret = [server_tls |-> TRUE]],
     [Plain EXCEPT !.secrets_explicit = TRUE],
     [Plain EXCEPT !.secrets = "unreadable"],
     [Cluster EXCEPT !.backoff_base = 0],
     [Cluster EXCEPT !.backoff_base = 5],
     [Cluster EXCEPT !.failures = 0],
     [Plain EXCEPT !.detect_timeout = 0]}

\* Log files, the identity, and the cookbook with the metrics do not touch each other
Outside(c) ==
    CASE c.logging # "off" -> {"log", "clock", "stop"}
      [] c.cluster -> {"stop"}
      [] c = Plain -> {"rename", "request", "stop"}
      [] c = OnePort -> {"rename", "write", "stop"}
      [] OTHER -> {}

\* A log takes a crash, midnight, an entry, an end and a clock set back to go wrong
Limit(c) ==
    CASE c.logging # "off" -> 5
      [] c = Plain -> 3
      [] OTHER -> 4

Named(key, enabled) == [key |-> key, colon |-> FALSE, enabled |-> enabled, source |-> {"path"}]

\* Two valid cookbooks; one with two enabled profiles that differ only in case; and one
\* that takes a model from two places
TwoBooksAndTwoBad ==
    << <<Named("a", TRUE), Named("b", TRUE)>>,
       <<Named("a", FALSE), Named("a", TRUE), Named("d", TRUE), [Named("c", FALSE) EXCEPT !.colon = TRUE]>>,
       <<Named("a", TRUE), Named("a", TRUE)>>,
       <<[Named("a", TRUE) EXCEPT !.source = {"path", "repo"}]>> >>

\* Three profiles that older versions filed under one hash, and one with its own.  The
\* second cookbook has two that the first does not name, one of each.
FourProfiles == {"a", "b", "c", "d"}
HasItsOwn == {"a"}
TwoOldHashes == [p \in FourProfiles |-> IF p = "d" THEN "old_d" ELSE "old"]
TheirHashes == [a |-> "ha", b |-> "hb", c |-> "hc", d |-> "hd"]
=============================================================================
