--------------------------- MODULE SettingsProofs ---------------------------
(* Theorems about Settings, for whatever the layers say.                   *)
EXTENDS Settings, TLAPS

Key == {"host", "port"}

\* What the listener bound, and what the plugin was told, comes from the files
\* as they are, unless they were edited since.
Agreed ==
  /\ listener # Down /\ ~edited =>
       /\ AdapterAccepts(listener.env)
       /\ listener["host"] = Binds(listener.env)["host"]
       /\ listener["port"] = Bound(Binds(listener.env)["port"])
  /\ client.told /\ ~edited =>
       /\ listener # Down
       /\ \A k \in Key : client[k] = WatchUrl(listener.env, Unset)[k]
  /\ client.told => listener # Down

SettingsInv == TypeOK /\ Agreed

LEMMA OverFact ==
  ASSUME NEW config, \A k \in Key : config[k] \in Hosts \union Casts,
         config["host"] \in Hosts, config["port"] \in Casts, NEW layer \in Layer
  PROVE  /\ Over(config, layer)["host"] =
              IF layer.host = "unset" THEN config["host"] ELSE layer.host
         /\ Over(config, layer)["port"] =
              IF layer.port \in {"unset", "bad"} THEN config["port"] ELSE layer.port
         /\ Over(config, layer)["host"] \in Hosts
         /\ Over(config, layer)["port"] \in Casts
  BY DEF Over, Layer, Hosts, Ports, Casts, Key

LEMMA LoadFact ==
  ASSUME SettingsInv, NEW env \in Layers
  PROVE  /\ LoadConfig(env)["host"] \in Hosts
         /\ LoadConfig(env)["port"] \in Casts
         /\ Binds(env)["host"] \in Hosts /\ Binds(env)["port"] \in Casts
  <1>1. /\ json \in Layer /\ extra \in Layer /\ env \in Layer
        /\ Default.host \in Hosts /\ Default.port \in Casts
    BY SettingsAssumption DEF SettingsInv, TypeOK, Casts
  <1> DEFINE a == Over(Default, json)
             b == Over(a, extra)
             c == Over(b, env)
             d == Over(c, env)
             e == Over(d, extra)
  <1>2. a["host"] \in Hosts /\ a["port"] \in Casts BY <1>1, OverFact DEF Key
  <1> HIDE DEF a
  <1>3. b["host"] \in Hosts /\ b["port"] \in Casts
    BY <1>1, <1>2, OverFact DEF Key
  <1> HIDE DEF b
  <1>4. c["host"] \in Hosts /\ c["port"] \in Casts
    BY <1>1, <1>3, OverFact DEF Key
  <1> HIDE DEF c
  <1>5. d["host"] \in Hosts /\ d["port"] \in Casts
    BY <1>1, <1>4, OverFact DEF Key
  <1> HIDE DEF d
  <1>6. e["host"] \in Hosts /\ e["port"] \in Casts
    BY <1>1, <1>5, OverFact DEF Key
  <1>7. LoadConfig(env) = c BY DEF LoadConfig, a, b, c
  <1>8. Binds(env) = e BY <1>7 DEF Binds, d, e
  <1> HIDE DEF e
  <1> QED BY <1>4, <1>6, <1>7, <1>8

LEMMA UrlType ==
  ASSUME SettingsInv, NEW env \in Layers, NEW url \in Urls
  PROVE  /\ WatchUrl(env, url)["host"] \in Hosts \ {"any"}
         /\ WatchUrl(env, url)["port"] \in Casts
  <1>1. /\ LoadConfig(env)["host"] \in Hosts /\ LoadConfig(env)["port"] \in Casts
    BY LoadFact
  <1>2. CASE url = Unset
    BY <1>1, <1>2 DEF WatchUrl, Reachable, Hosts
  <1>3. CASE url # Unset
    BY <1>3, SettingsAssumption DEF WatchUrl, Casts
  <1> QED BY <1>2, <1>3

\* A key that is set once is bound as load_config reads it.
LEMMA BindsIsLoaded ==
  ASSUME SettingsInv, NEW env \in Layer, AdapterAccepts(env), SetOnce(env)
  PROVE  \A k \in Key : Binds(env)[k] = LoadConfig(env)[k]
  <1>1. /\ json \in Layer /\ extra \in Layer
        /\ Default.host \in Hosts /\ Default.port \in Casts
    BY SettingsAssumption DEF SettingsInv, TypeOK, Casts
  <1> DEFINE a == Over(Default, json)
             b == Over(a, extra)
             c == Over(b, env)
             d == Over(c, env)
             e == Over(d, extra)
  <1>2. a["host"] \in Hosts /\ a["port"] \in Casts BY <1>1, OverFact DEF Key
  <1> HIDE DEF a
  <1>3. /\ b["host"] \in Hosts /\ b["port"] \in Casts
        /\ b["host"] = IF extra.host = "unset" THEN a["host"] ELSE extra.host
        /\ b["port"] = IF extra.port \in {"unset", "bad"} THEN a["port"]
                       ELSE extra.port
    BY <1>1, <1>2, OverFact DEF Key
  <1> HIDE DEF b
  <1>4. /\ c["host"] \in Hosts /\ c["port"] \in Casts
        /\ c["host"] = IF env.host = "unset" THEN b["host"] ELSE env.host
        /\ c["port"] = IF env.port \in {"unset", "bad"} THEN b["port"]
                       ELSE env.port
    BY <1>1, <1>3, OverFact DEF Key
  <1> HIDE DEF c
  <1>5. /\ d["host"] \in Hosts /\ d["port"] \in Casts
        /\ d["host"] = IF env.host = "unset" THEN c["host"] ELSE env.host
        /\ d["port"] = IF env.port \in {"unset", "bad"} THEN c["port"]
                       ELSE env.port
    BY <1>1, <1>4, OverFact DEF Key
  <1> HIDE DEF d
  <1>6. /\ e["host"] = IF extra.host = "unset" THEN d["host"] ELSE extra.host
        /\ e["port"] = IF extra.port \in {"unset", "bad"} THEN d["port"]
                       ELSE extra.port
    BY <1>1, <1>5, OverFact DEF Key
  <1>7. LoadConfig(env) = c BY DEF LoadConfig, a, b, c
  <1>8. Binds(env) = e BY <1>7 DEF Binds, d, e
  <1> HIDE DEF e
  <1>9. /\ extra.port # "bad" /\ env.host # "bad"
        /\ extra.host = "unset" \/ env.host = "unset"
        /\ extra.port = "unset" \/ env.port \in {"unset", "bad"}
    BY DEF AdapterAccepts, SetOnce, Layer, Hosts, Ports
  <1>a. e["host"] = c["host"] BY <1>3, <1>4, <1>5, <1>6, <1>9
  <1>b. e["port"] = c["port"] BY <1>3, <1>4, <1>5, <1>6, <1>9
  <1> QED BY <1>7, <1>8, <1>a, <1>b DEF Key

LEMMA SettingsInit == Init => SettingsInv
  <1> SUFFICES ASSUME Init PROVE SettingsInv OBVIOUS
  <1>1. json \in Layer /\ extra \in Layer BY SettingsAssumption DEF Init
  <1>2. ~client.told BY DEF Init, NoClient
  <1>3. TypeOK BY <1>1 DEF Init, TypeOK
  <1>4. Agreed BY <1>2 DEF Init, Agreed
  <1> QED BY <1>3, <1>4 DEF SettingsInv

LEMMA ToldOff ==
  ASSUME client = NoClient
           \/ client \in [host: Hosts \ {"any"}, port: Casts, told: BOOLEAN],
         client' = [client EXCEPT !.told = FALSE]
  PROVE  /\ ~client'.told
         /\ client' = NoClient
              \/ client' \in [host: Hosts \ {"any"}, port: Casts, told: BOOLEAN]
  <1>1. CASE client = NoClient
    <2>1. client' = NoClient BY <1>1 DEF NoClient
    <2> QED BY <2>1 DEF NoClient
  <1>2. CASE client \in [host: Hosts \ {"any"}, port: Casts, told: BOOLEAN]
    BY <1>2
  <1> QED BY <1>1, <1>2

LEMMA SettingsStep == ASSUME SettingsInv, [Next]_vars PROVE SettingsInv'
  <1>1. ASSUME NEW env \in Layers, ListenerStarts(env) PROVE SettingsInv'
    <2>1. /\ listener' = [host |-> Binds(env).host,
                          port |-> Bound(Binds(env).port), env |-> env]
          /\ edited' = FALSE /\ client' = [client EXCEPT !.told = FALSE]
          /\ UNCHANGED <<json, extra>> /\ AdapterAccepts(env)
          /\ Binds(env).port # "99999"
      BY <1>1 DEF ListenerStarts
    <2>2. Binds(env)["host"] \in Hosts /\ Binds(env)["port"] \in Casts
          /\ env \in Layer
      BY LoadFact, SettingsAssumption
    <2>3. listener' \in [host: Hosts, port: Ports \union {"chosen"}, env: Layer]
      BY <2>1, <2>2 DEF Bound, Casts
    <2>4. /\ ~client'.told
          /\ client' = NoClient \/
               client' \in [host: Hosts \ {"any"}, port: Casts, told: BOOLEAN]
      BY <2>1, ToldOff DEF SettingsInv, TypeOK
    <2>5. /\ listener'.env = env /\ listener'["host"] = Binds(env)["host"]
          /\ listener'["port"] = Bound(Binds(env)["port"])
      BY <2>1
    <2>7. Agreed'
      BY <2>1, <2>4, <2>5 DEF Agreed, Binds, LoadConfig, AdapterAccepts
    <2> QED BY <2>1, <2>3, <2>4, <2>7 DEF SettingsInv, TypeOK
  <1>2. CASE ListenerStops
    <2>1. /\ listener' = Down /\ client' = [client EXCEPT !.told = FALSE]
          /\ UNCHANGED <<json, extra, edited>>
      BY <1>2 DEF ListenerStops
    <2>2. /\ ~client'.told
          /\ client' = NoClient \/
               client' \in [host: Hosts \ {"any"}, port: Casts, told: BOOLEAN]
      BY <2>1, ToldOff DEF SettingsInv, TypeOK
    <2> QED BY <2>1, <2>2 DEF SettingsInv, TypeOK, Agreed
  <1>3. ASSUME NEW env \in Layers, NEW url \in Urls, PluginStarts(env, url)
        PROVE  SettingsInv'
    <2> DEFINE told == /\ listener # Down /\ ~edited
                       /\ listener.env = env /\ url = Unset
               u == WatchUrl(env, url)
    <2>1. /\ client' = [host |-> u.host, port |-> u.port, told |-> told]
          /\ UNCHANGED <<json, extra, listener, edited>>
      BY <1>3 DEF PluginStarts
    <2>2. told \in BOOLEAN OBVIOUS
    <2>3. told => listener # Down /\ listener.env = env /\ url = Unset OBVIOUS
    <2>4. u["host"] \in Hosts \ {"any"} /\ u["port"] \in Casts
      BY UrlType
    <2>7. told => u = WatchUrl(listener.env, Unset) BY <2>3
    <2> HIDE DEF told, u
    <2>5. client' \in [host: Hosts \ {"any"}, port: Casts, told: BOOLEAN]
          /\ client'.told = told
          /\ \A k \in Key : client'[k] = u[k]
      BY <2>1, <2>2, <2>4 DEF Key
    <2>6. Agreed'
      BY <2>1, <2>3, <2>5, <2>7
      DEF SettingsInv, Agreed, Binds, LoadConfig, WatchUrl, AdapterAccepts
    <2> QED BY <2>1, <2>5, <2>6 DEF SettingsInv, TypeOK
  <1>4. CASE PluginEnds
    <2>1. client' = NoClient /\ UNCHANGED <<json, extra, listener, edited>>
      BY <1>4 DEF PluginEnds
    <2> QED BY <2>1 DEF SettingsInv, TypeOK, Agreed, NoClient, Binds, LoadConfig,
                        WatchUrl, AdapterAccepts
  <1>5. ASSUME NEW layer \in Layers, Edits(layer) PROVE SettingsInv'
    <2>1. /\ json' \in Layer /\ extra' \in Layer
          /\ edited' = (listener # Down) /\ UNCHANGED <<listener, client>>
      BY <1>5, SettingsAssumption DEF Edits, SettingsInv, TypeOK
    <2> QED BY <2>1 DEF SettingsInv, TypeOK, Agreed
  <1>6. CASE UNCHANGED vars
    BY <1>6 DEF vars, SettingsInv, TypeOK, Agreed, Binds, LoadConfig, WatchUrl,
                AdapterAccepts
  <1> QED BY <1>1, <1>2, <1>3, <1>4, <1>5, <1>6 DEF Next

LEMMA SettingsAlways == Spec => []SettingsInv
  BY SettingsInit, SettingsStep, PTL DEF Spec

\* A plugin that started with the listener's settings posts to the address
\* the listener binds, until the files change or the listener stops.
THEOREM PostsArrive == Spec => []PluginFindsListener
  <1>1. ASSUME SettingsInv PROVE PluginFindsListener
    <2>1. SUFFICES ASSUME client.told, ~edited, SetOnce(listener.env),
                          listener.port # "chosen"
                   PROVE  Arrives(client)
      BY DEF PluginFindsListener
    <2> DEFINE env == listener.env
    <2>2. /\ listener # Down /\ AdapterAccepts(env)
          /\ listener["host"] = Binds(env)["host"]
          /\ listener["port"] = Bound(Binds(env)["port"])
          /\ \A k \in Key : client[k] = WatchUrl(env, Unset)[k]
      BY <1>1, <2>1 DEF SettingsInv, Agreed
    <2>3. env \in Layer BY <1>1, <2>2 DEF SettingsInv, TypeOK
    <2> HIDE DEF env
    <2>4. \A k \in Key : Binds(env)[k] = LoadConfig(env)[k]
      BY <1>1, <2>1, <2>2, <2>3, BindsIsLoaded DEF env
    <2>5. /\ listener["port"] = LoadConfig(env)["port"]
          /\ listener["host"] = LoadConfig(env)["host"]
      BY <2>1, <2>2, <2>4 DEF Key, Bound
    <2>6. /\ client["port"] = LoadConfig(env)["port"]
          /\ client["host"] = Reachable(LoadConfig(env)["host"])
      BY <2>2 DEF Key, WatchUrl
    <2> QED BY <2>5, <2>6 DEF Arrives, Reachable
  <1> QED BY <1>1, SettingsAlways, PTL

\* What is bound and what is posted to are addresses, never a wildcard to
\* post to.
THEOREM SettingsTyped == Spec => []TypeOK
  BY SettingsAlways, PTL DEF SettingsInv

=============================================================================
