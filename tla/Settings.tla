------------------------------ MODULE Settings ------------------------------
(***************************************************************************)
(* Which address the listener binds and which one the processes beside it  *)
(* post to: load_config and watch_url of settings.py, what the adapter     *)
(* (platform.py) and the plugin (plugin.py) make of them when they start,  *)
(* and the owner who edits the files in between.                           *)
(*                                                                         *)
(* A settings layer gives a host and a port, or leaves them unset.         *)
(***************************************************************************)
CONSTANTS
  Layers,   \* what a layer may say in this instance
  Urls,     \* what HERMES_WATCH_URL may say in a plugin's environment
  Default   \* the dataclass defaults

Hosts == {"any", "lan", "loopback"}   \* "any": 0.0.0.0 or ::
Ports == {"8787", "9393", "9500"}

\* What int() accepts: "99999" stands for the ports past 65535.
Casts == Ports \union {"0", "99999"}

\* "bad" is a port no cast accepts.
Layer == [host: Hosts \union {"unset"}, port: Casts \union {"unset", "bad"}]

Unset == [host |-> "unset", port |-> "unset"]

ASSUME SettingsAssumption ==
  /\ Layers \subseteq Layer /\ Default \in [host: Hosts, port: Ports]
  /\ Urls \subseteq [host: Hosts \ {"any"}, port: Ports] \union {Unset}

VARIABLES
  json,      \* config.json
  extra,     \* config.yaml, gateway.platforms.pixel_watch.extra
  listener,  \* the address bound, with the environment it was started in
  edited,    \* history: were the files edited since the listener started?
  client     \* a plugin in another process: where it posts, its environment,
             \* and whether it can be expected to know the listener

vars == <<json, extra, listener, edited, client>>

Down == [host |-> "none", port |-> "none", env |-> Unset]
NoClient == [host |-> "none", port |-> "none", told |-> FALSE]

Init ==
  /\ json \in {l \in Layers : l.port # "bad"} /\ extra \in Layers
  /\ listener = Down /\ edited = FALSE
  /\ client = NoClient

-----------------------------------------------------------------------------

\* One layer over what the lower ones gave: a cast that fails changes nothing.
Over(config, layer) ==
  [k \in {"host", "port"} |->
     IF layer[k] \in {"unset", "bad"} THEN config[k] ELSE layer[k]]

\* Mutant: the files over the environment.
FilesLast(env) == Over(Over(Over(Default, env), json), extra)

\* load_config: defaults, config.json, config.yaml, environment.
LoadConfig(env) == Over(Over(Over(Default, json), extra), env)

\* Mutant: the address bound is the address posted to.
AsBound(host) == host

\* watch_url: a wildcard is no address to post to.
Reachable(host) == IF host = "any" THEN "loopback" ELSE host

\* HERMES_WATCH_URL, when it is set, says where to post.
WatchUrl(env, url) ==
  IF url # Unset THEN url
  ELSE [host |-> Reachable(LoadConfig(env).host), port |-> LoadConfig(env).port]

\* _validate_config, and int() of what the environment says where the file
\* says nothing: the gateway comes up without the platform.
AdapterAccepts(env) ==
  /\ extra.port \in Ports \union {"unset"}
  /\ extra.port = "unset" => env.port # "bad"

\* extra_or_secret: the file, then the environment, then load_config().
\* Mutant: without the fallback to load_config().
BindsWithoutFallback(env) == Over(Over(Default, env), extra)

Binds(env) == Over(Over(LoadConfig(env), env), extra)

\* Of port 0 the system makes one of its choice.
Bound(port) == IF port = "0" THEN "chosen" ELSE port

-----------------------------------------------------------------------------

\* The adapter is built and binds, unless another listener holds the port.
ListenerStarts(env) ==
  /\ listener = Down /\ AdapterAccepts(env) /\ Binds(env).port # "99999"
  /\ listener' = [host |-> Binds(env).host, port |-> Bound(Binds(env).port),
                  env |-> env]
  /\ edited' = FALSE
  /\ client' = [client EXCEPT !.told = FALSE]
  /\ UNCHANGED <<json, extra>>

ListenerStops ==
  /\ listener # Down
  /\ listener' = Down
  /\ client' = [client EXCEPT !.told = FALSE]
  /\ UNCHANGED <<json, extra, edited>>

\* WatchPlugin: load_config() and watch_url() once, when the process starts.
PluginStarts(env, url) ==
  /\ client = NoClient
  /\ client' = [host |-> WatchUrl(env, url).host,
                port |-> WatchUrl(env, url).port,
                told |-> /\ listener # Down /\ ~edited
                         /\ listener.env = env /\ url = Unset]
  /\ UNCHANGED <<json, extra, listener, edited>>

PluginEnds ==
  /\ client # NoClient
  /\ client' = NoClient
  /\ UNCHANGED <<json, extra, listener, edited>>

\* The owner edits a file; nobody reads it again.
Edits(layer) ==
  /\ \/ layer.port # "bad" /\ json' = layer /\ UNCHANGED extra
     \/ extra' = layer /\ UNCHANGED json
  /\ edited' = (listener # Down)
  /\ UNCHANGED <<listener, client>>

Next ==
  \/ \E l \in Layers : \/ ListenerStarts(l) \/ Edits(l)
                       \/ \E url \in Urls : PluginStarts(l, url)
  \/ ListenerStops \/ PluginEnds

Spec == Init /\ [][Next]_vars

-----------------------------------------------------------------------------

TypeOK ==
  /\ json \in Layer /\ extra \in Layer
  /\ listener = Down
       \/ listener \in [host: Hosts, port: Ports \union {"chosen"}, env: Layer]
  /\ edited \in BOOLEAN
  /\ client = NoClient
       \/ client \in [host: Hosts \ {"any"}, port: Casts, told: BOOLEAN]

\* Does what is posted to this address arrive at the listener?
Arrives(address) ==
  /\ address.port = listener.port
  /\ listener.host \in {"any", address.host}

\* Each key is set in the file or in the environment, not in both.
SetOnce(env) ==
  \A k \in {"host", "port"} : extra[k] = "unset" \/ env[k] \in {"unset", "bad"}

\* settings.py:70-72: the plugin posts to the address the listener binds, if
\* it started after the listener, with the settings the listener started with
\* and without a HERMES_WATCH_URL of its own, and until the listener stops.
\* Left out are a key set both in the file and in the environment, on which
\* the two disagree, and port 0, of which nobody is told what became.
PluginFindsListener ==
  /\ client.told /\ ~edited
  /\ SetOnce(listener.env) /\ listener.port # "chosen"
  => Arrives(client)
=============================================================================
