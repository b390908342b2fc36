---------------------------- MODULE SharedConfig -----------------------------
(***************************************************************************)
(* One configuration file, <root>\mcp\config.json, and two programs that   *)
(* read it on their own: the sidecar that Cheat Engine launches            *)
(* (src/ce_mcp/server_config.py and mcp_server.py) serves what it says,    *)
(* and the controller (src/ce_controller/config.py) asks for what it says. *)
(* Each takes CE_MCP_TOKEN from the environment that it was started with.  *)
(* Values are classes of values.                                           *)
(***************************************************************************)
VARIABLES
  config,        \* the file and the token files there are
  environment,   \* history: CE_MCP_TOKEN as each program has read it
  serves,        \* what the sidecar does with it
  asks           \* what the controller does with it

configVars == <<config, environment, serves, asks>>

\* Two good tokens; a "wide" one has 32 bytes of UTF-8 in fewer characters, a "long" one
\* more than MAX_TOKEN_BYTES; "bad" is short, of several lines, or a file that is missing.
Tokens == {"one", "two", "wide", "long", "bad"}
Environments == Tokens \cup {"absent"}

\* "absent": the field is not in the file.  "other": a host that is not a loopback one.
\* others: the remaining fields.  beside: the token in the file that tokenFile names.
\* linked: if config.json is a link, the token at that name beside the file it names.
Config ==
  [transport : {"absent", "stdio", "streamable-http", "bad"},
   host : {"absent", "loopback", "other", "bad"},
   port : {"absent", "good", "bad"},
   tokenFile : {"absent", "relative", "absolute", "oversized", "bad"},
   others : {"good", "badValue", "unknownField"},
   file : {"good", "oversized", "unreadable"},
   beside : Tokens, linked : Tokens \cup {"none"}]

Endpoint == [host : {"loopback"}, port : {"default", "good"}, token : Tokens]
Unused == {"not yet", "refuses", "stdio"}
NotYet == [refused |-> "not yet"]
Refused == [refused |-> "refuses"]

ConfigTypeOK ==
  /\ config \in Config
  /\ environment \in [{"server", "controller"} -> Environments \cup {"unread"}]
  /\ serves \in Endpoint \cup [refused : Unused]
  /\ asks \in Endpoint \cup [refused : Unused]

ConfigInit ==
  /\ config \in Config
  /\ environment = [program \in {"server", "controller"} |-> "unread"]
  /\ serves = NotYet /\ asks = NotYet

-----------------------------------------------------------------------------
\* ServerConfig.load: parser and fields; a field that is absent has its default.
ServerLoads ==
  /\ config.file \in {"good", "oversized"}
  /\ config.transport # "bad" /\ config.host # "bad" /\ config.port # "bad"
  /\ config.tokenFile # "bad"
  /\ config.others = "good"

\* load_http_token, with the CE_MCP_TOKEN of the sidecar: a relative tokenFile was resolved
\* against the file that a link names.
ServerToken(own) ==
  CASE own # "absent" -> own
    [] own = "absent" /\ config.tokenFile = "absent" -> "bad"
    [] own = "absent" /\ config.tokenFile = "relative" /\ config.linked # "none" -> config.linked
    [] OTHER -> config.beside

\* load_http_token and StaticTokenVerifier, which counts characters.
ServerTakes(token) == token \in {"one", "two", "long"}

\* create_http_app.
ServerBinds == config.host \in {"absent", "loopback"}

\* run, with the --config and --ce-pid that the bridge passes.
ServerStarts ==
  /\ serves = NotYet
  /\ \/ ~ServerLoads /\ serves' = Refused /\ UNCHANGED environment
     \/ ServerLoads /\ config.transport # "streamable-http"
        /\ serves' = [refused |-> "stdio"] /\ UNCHANGED environment
     \/ /\ ServerLoads /\ config.transport = "streamable-http"
        /\ \E own \in Environments :
             /\ environment' = [environment EXCEPT !["server"] = own]
             /\ serves' = IF ServerTakes(ServerToken(own)) /\ ServerBinds
                          THEN [host |-> "loopback", token |-> ServerToken(own),
                                port |-> IF config.port = "good" THEN "good" ELSE "default"]
                          ELSE Refused
  /\ UNCHANGED <<config, asks>>

\* ControllerConfig.load: the same fields, and no defaults.
ControllerLoads ==
  /\ config.file = "good"
  /\ config.others # "unknownField"
  /\ config.transport = "streamable-http" /\ config.host = "loopback" /\ config.port = "good"
  /\ config.tokenFile \in {"relative", "absolute"}

\* Its token counts bytes.
ControllerTakes(token) == token \in {"one", "two", "wide"}

\* Mutant: the tokenFile comes first, whatever the environment has.
FileTokenFirst(own) == config.beside

\* The CE_MCP_TOKEN of the controller, or the tokenFile beside config.json as it is named.
ControllerToken(own) == IF own # "absent" THEN own ELSE config.beside

ControllerRuns ==
  /\ asks = NotYet
  /\ \/ ~ControllerLoads /\ asks' = Refused /\ UNCHANGED environment
     \/ /\ ControllerLoads
        /\ \E own \in Environments :
             /\ environment' = [environment EXCEPT !["controller"] = own]
             /\ asks' = IF ControllerTakes(ControllerToken(own))
                        THEN [host |-> "loopback", port |-> "good", token |-> ControllerToken(own)]
                        ELSE Refused
  /\ UNCHANGED <<config, serves>>

ConfigNext == ServerStarts \/ ControllerRuns

ConfigSpec == ConfigInit /\ [][ConfigNext]_configVars

-----------------------------------------------------------------------------
\* The two programs have different environments, or a relative tokenFile means two files.
TokensDiffer ==
  \/ environment["server"] \notin {"unread", environment["controller"]}
  \/ environment["server"] = "absent" /\ config.tokenFile = "relative" /\ config.linked # "none"

\* "The controller reads config.json using the server's strict field set", and its token
\* "in its own environment when present, otherwise from the resolved tokenFile"
\* (host-control-v1.md 45-48): what the controller asks for is what the sidecar of that root
\* serves.  With another CE_MCP_TOKEN in its environment, or a link for a config.json, it may
\* be another token of the same endpoint, or one that the sidecar does not take; otherwise
\* the sidecar refuses only for a field that the controller does not read, or for a token too
\* short in characters.
ControllerAsksItsServer ==
  asks \in Endpoint /\ serves # NotYet =>
    \/ serves = asks
    \/ TokensDiffer /\ (serves = Refused \/ (serves \in Endpoint /\ serves.port = asks.port))
    \/ serves = Refused /\ (config.others = "badValue" \/ asks.token = "wide")
=============================================================================
