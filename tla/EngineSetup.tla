------------------------------ MODULE EngineSetup ------------------------------
(***************************************************************************)
(* Which remote engine the daemon may talk to, and how: the settings        *)
(* RemoteEngine.__init__ reads (relaytts_daemon.py), what                   *)
(* assert_transport_config refuses and what build_opener verifies           *)
(* (pinned_transport.py).  Settings are those in force, the environment's   *)
(* before config.yaml's.                                                    *)
(***************************************************************************)

\* base_url by what the code tells apart.  "http" is plain HTTP to one of
\* _LOOPBACK_HOSTS, "httpslocal" is HTTPS to a loopback address.
Urls == {"none", "unix", "unixrelative", "http", "httpremote", "https",
         "httpslocal", "otherscheme"}

Tls(url) == url \in {"https", "httpslocal"}

\* log_line.is_on_box_url, for the urls that are accepted.
OnBox(url) == url \in {"unix", "http", "httpslocal"}

Settings == [url   : Urls,
             model : BOOLEAN,                       \* is one named?
             ca    : {"none", "bundle", "unusable"},
             pins  : {"none", "pins", "malformed"},
             key   : BOOLEAN]                       \* an API key in the environment

\* ca_file and pin_sha256 have no effect here, and must not be set.
NoUnused(s) == s.ca = "none" /\ s.pins = "none"

\* Does RemoteEngine.__init__ raise no ValueError?
Accepted(s) ==
    /\ s.model
    /\ s.pins # "malformed"
    /\ \/ s.url \in {"unix", "http"} /\ NoUnused(s)
       \/ Tls(s.url) /\ s.ca # "unusable"

\* On the unix transport the key is dropped with a warning.
SendsKey(s) == s.key /\ s.url # "unix"

\* The trace id means nothing off the box.
SendsTrace(s) == OnBox(s.url)

\* A server that answers at base_url (external): the trust anchors its
\* certificate chains to, whether it names the host, whether it is pinned.
Peers == [anchors : SUBSET {"bundle", "system"}, host : BOOLEAN, pinned : BOOLEAN]

\* Mutant: the pins are not looked at when ca_file names the trust anchor.
HandshakeCaOrPins(s, p) ==
    Tls(s.url) =>
        /\ p.host
        /\ (IF s.ca = "bundle" THEN "bundle" ELSE "system") \in p.anchors
        /\ s.pins = "pins" /\ s.ca = "none" => p.pinned

\* connect() of the opener's connection: the TLS context first, which knows
\* ca_file alone when there is one, then the fingerprint of the leaf.
Handshake(s, p) ==
    Tls(s.url) =>
        /\ p.host
        /\ (IF s.ca = "bundle" THEN "bundle" ELSE "system") \in p.anchors
        /\ s.pins = "pins" => p.pinned
===============================================================================
