-------------------------------- MODULE Config --------------------------------
(***************************************************************************)
(* Where every setting of the gateway comes from (src/config): built-in    *)
(* values, the file, the environment, and NormalizeConfig, which lets      *)
(* instances inherit from the defaults and from the sections of their      *)
(* channel; then ValidateConfig, and what the channel manager and the      *)
(* registry make of the result.                                            *)
(*                                                                         *)
(* A section of the file is a record of the keys it has, under the names   *)
(* of the fields they set; a key whose value has the wrong type is ignored *)
(* by the code and is left out.  The environment is such a record, too: a  *)
(* variable that is not set, or no number where one is read, is not in it, *)
(* and every word that is not yes reads as FALSE.  Paths are "", relative  *)
(* or absolute; other strings are any values.                              *)
(***************************************************************************)
EXTENDS Integers, Sequences, SequencesExt, FiniteSets

CONSTANTS
  Sections,     \* the contents the sections of the file take: see FileType
  Variables     \* the contents of the environment: a set of records

\* A section of the file is a record; three of them are lists of records.  The key of
\* the search service is in a section of its own.
ASSUME FileType ==
  /\ \A s \in DOMAIN Sections \cap {"agents", "instances", "managed_agents"} :
       \A list \in Sections[s] : list \in Seq(ToSet(list))
  /\ "search" \in DOMAIN Sections =>
       \A search \in Sections["search"] : DOMAIN search \subseteq {"brave_api_key"}
  /\ "defaults" \in DOMAIN Sections =>
       \A defaults \in Sections["defaults"] : "brave_api_key" \notin DOMAIN defaults
  /\ "agents" \in DOMAIN Sections =>
       \A agents \in Sections["agents"] : \A k \in DOMAIN agents :
         "brave_api_key" \notin DOMAIN agents[k]

VARIABLES
  file,         \* the configuration file: section name -> its contents
  environment,  \* what is set in the environment
  config,       \* what LoadConfig returned, or NotLoaded
  errors        \* what ValidateConfig returned

fvars == <<file, environment, config, errors>>

NotLoaded == <<>>

----------------------------------------------------------------------------
(* Sections of the file *)

Has(source, key) == key \in DOMAIN source

\* All source has and, beneath it, what other has.
Over(source, other) ==
  [key \in DOMAIN source \cup DOMAIN other |->
     IF Has(source, key) THEN source[key] ELSE other[key]]

Nothing == [key \in {} |-> key]
Section(source, s) == IF Has(source, s) THEN source[s] ELSE Nothing

\* target with the values source has for keys.
Overlay(target, source, keys) ==
  [f \in DOMAIN target |-> IF f \in keys /\ Has(source, f) THEN source[f]
                           ELSE target[f]]

Fields(target) == DOMAIN target

\* No variable sets the tool profile of an agent.
ASSUME VariablesType ==
  \A v \in Variables : \A source \in {v, Section(v, "double")} :
    "tool_profile" \notin DOMAIN Section(source, "defaults")

ApplyProviderConfig(target, source) == Overlay(target, source, {"api_key", "api_base"})

\* maxToolIterations sets both limits, unless maxIterations follows.
ApplyAgentDefaults(target, source) ==
  LET both == IF Has(source, "max_tool_iterations")
              THEN [target EXCEPT !.max_iterations = source.max_tool_iterations]
              ELSE target
  IN Overlay(both, source, Fields(target) \ {"brave_api_key", "name"})

ApplyRelayConnectionDefaults(target, source) == Overlay(target, source, Fields(target))

ApplyRelayManagedAgentConfig(target, source) ==
  LET named == IF Has(source, "agent")
               THEN [target EXCEPT !.local_agent = source.agent] ELSE target
  IN Overlay(named, source, Fields(target))

\* One agent, a default agent, or the first of several.
ApplyBindingConfig(target, source) ==
  IF Has(source, "agent") THEN source.agent
  ELSE IF Has(source, "default_agent") THEN source.default_agent
  ELSE IF Has(source, "agents") /\ source.agents # <<>> THEN Head(source.agents)
  ELSE target

\* What the four channel sections have in common.
ApplyChannelConfig(target, source, keys) ==
  LET bound == IF Has(source, "binding")
               THEN [target EXCEPT !.binding = ApplyBindingConfig(@, source.binding)]
               ELSE target
  IN Overlay(bound, source, keys \cup {"name", "enabled", "allow_from"})

ApplyTelegramConfig(target, source) == ApplyChannelConfig(target, source, {"token"})
ApplyLarkConfig(target, source) ==
  ApplyChannelConfig(target, source, {"app_id", "app_secret", "domain", "timeout_ms"})
ApplyQQBotConfig(target, source) ==
  ApplyChannelConfig(target, source, {"app_id", "client_secret", "token", "sandbox",
                                      "intents", "skip_tls_verify"})
ApplyWeixinConfig(target, source) ==
  ApplyChannelConfig(target, source, {"account_id", "base_url", "cdn_base_url",
                                      "route_tag", "app_id", "app_version"})

----------------------------------------------------------------------------
(* Built-in values *)

TelegramConfig ==
  [name |-> "telegram", enabled |-> FALSE, token |-> "", allow_from |-> <<>>,
   binding |-> ""]
LarkConfig ==
  [name |-> "lark", enabled |-> FALSE, app_id |-> "", app_secret |-> "",
   domain |-> "", timeout_ms |-> 10000, allow_from |-> <<>>, binding |-> ""]
QQBotConfig ==
  [name |-> "qqbot", enabled |-> FALSE, app_id |-> "", client_secret |-> "",
   token |-> "", sandbox |-> FALSE, intents |-> "", skip_tls_verify |-> FALSE,
   allow_from |-> <<>>, binding |-> ""]
WeixinConfig ==
  [name |-> "weixin", enabled |-> FALSE, account_id |-> "", base_url |-> "built in",
   cdn_base_url |-> "built in", route_tag |-> "", app_id |-> "kabot",
   app_version |-> "1.0.0", allow_from |-> <<>>, binding |-> ""]
ChannelTypes == {"telegram", "lark", "qqbot", "weixin"}

AgentDefaults ==
  [workspace |-> "~/.kabot/workspace", model |-> "anthropic/claude-opus-4-5",
   tool_profile |-> "full", brave_api_key |-> "", max_iterations |-> 20,
   max_tokens |-> 8192, temperature |-> "0.7", max_tool_iterations |-> 20,
   max_history_messages |-> 200]

RelayConnectionDefaults ==
  [scheme |-> "ws", host |-> "127.0.0.1", port |-> 8080, path |-> "absolute",
   use_tls |-> FALSE, skip_tls_verify |-> FALSE, heartbeat_interval_s |-> 10,
   reconnect_initial_delay_ms |-> 1000, reconnect_max_delay_ms |-> 30000]
RelayManagedAgentConfig ==
  [name |-> "", enabled |-> TRUE, local_agent |-> "", agent_id |-> "", token |-> "",
   scheme |-> "", host |-> "", port |-> 0, path |-> "", use_tls |-> FALSE,
   skip_tls_verify |-> FALSE, heartbeat_interval_s |-> 0,
   reconnect_initial_delay_ms |-> 0, reconnect_max_delay_ms |-> 0,
   auto_claim_tasks |-> FALSE]

Providers ==
  {"anthropic", "openai", "openrouter", "moonshot", "zhipu", "vllm", "gemini"}
ProvidersConfig ==
  [p \in Providers |-> [api_key |-> "", api_base |-> ""]]
Services ==
  [use_proxy_for_llm |-> FALSE, user_agent |-> "claude-code/0.2.1"]
HeartbeatConfig ==
  [enabled |-> TRUE, interval_s |-> 1800, cron_store_path |-> "",
   cron_http_host |-> "0.0.0.0", cron_http_port |-> 8089]
TaskSystemConfig ==
  [enabled |-> FALSE, poll_interval_s |-> 30, daily_summary_hour_local |-> 22,
   max_concurrent_tasks |-> 4, task_timeout_s |-> 300, shutdown_timeout_s |-> 30,
   max_tasks_per_plan |-> 20, max_plan_output_tokens |-> 8192]
QmdConfig ==
  [enabled |-> FALSE, command |-> "qmd", collection |-> "", index |-> "",
   max_results |-> 5, min_score |-> "0.3", timeout_s |-> 10,
   update_on_write |-> FALSE, update_embeddings |-> FALSE]
LoggingConfig == [level |-> "info", log_file |-> "", enable_stdout |-> TRUE]

BuiltIn ==
  [defaults |-> AgentDefaults, agents |-> <<>>,
   relay |-> RelayConnectionDefaults, managed_agents |-> <<>>,
   telegram |-> TelegramConfig, lark |-> LarkConfig, qqbot |-> QQBotConfig,
   weixin |-> WeixinConfig, instances |-> <<>>,
   providers |-> ProvidersConfig, llm |-> Services, heartbeat |-> HeartbeatConfig,
   task_system |-> TaskSystemConfig, qmd |-> QmdConfig, logging |-> LoggingConfig]

----------------------------------------------------------------------------
(* The file *)

\* An instance starts with a copy of the defaults the file has given so far.
FileAgents(c, data) ==
  LET search == Overlay(c.defaults, Section(data, "search"), {"brave_api_key"})
      defaults == ApplyAgentDefaults(search, Section(data, "defaults"))
      Instance(item) ==
        ApplyAgentDefaults(
          Over(defaults, [name |-> IF Has(item, "name") THEN item.name ELSE "default"]),
          item)
      agents == Section(data, "agents")
  IN [c EXCEPT !.defaults = defaults,
               !.agents = [k \in DOMAIN agents |-> Instance(agents[k])]]

FileRelay(c, data) ==
  LET managed == Section(data, "managed_agents")
      Managed(item) == ApplyRelayManagedAgentConfig(RelayManagedAgentConfig, item)
  IN [c EXCEPT !.relay = ApplyRelayConnectionDefaults(@, Section(data, "relay")),
               !.managed_agents = [k \in DOMAIN managed |-> Managed(managed[k])]]

\* An instance starts with a copy of the section of its type.
ChannelInstance(c, item) ==
  LET blank == [name |-> "", type |-> "", enabled |-> TRUE, allow_from |-> <<>>,
                binding |-> ""]
      own == ApplyChannelConfig(blank, item, {"type"})
      channel ==
        CASE own.type = "telegram" -> ApplyTelegramConfig(c.telegram, item)
          [] own.type = "lark" -> ApplyLarkConfig(c.lark, item)
          [] own.type = "qqbot" -> ApplyQQBotConfig(c.qqbot, item)
          [] own.type = "weixin" -> ApplyWeixinConfig(c.weixin, item)
          [] OTHER -> Nothing
  IN Over(own, [channel |-> channel])

FileChannels(c, data) ==
  LET sections ==
        [c EXCEPT !.telegram = ApplyTelegramConfig(@, Section(data, "telegram")),
                  !.lark = ApplyLarkConfig(@, Section(data, "lark")),
                  !.qqbot = ApplyQQBotConfig(@, Section(data, "qqbot")),
                  !.weixin = ApplyWeixinConfig(@, Section(data, "weixin"))]
      items == Section(data, "instances")
  IN [sections EXCEPT !.instances =
        [k \in DOMAIN items |-> ChannelInstance(sections, items[k])]]

FileProviders(c, data) ==
  LET given == Section(data, "providers")
  IN [c EXCEPT !.llm = Overlay(@, Section(data, "llm"), Fields(@)),
               !.providers = [p \in Providers |->
                                ApplyProviderConfig(@[p], Section(given, p))]]

FileServices(c, data) ==
  [c EXCEPT !.heartbeat = Overlay(@, Section(data, "heartbeat"), Fields(@)),
            !.task_system = Overlay(@, Section(data, "task_system"), Fields(@)),
            !.qmd = Overlay(@, Section(data, "qmd"), Fields(@)),
            !.logging = Overlay(@, Section(data, "logging"), Fields(@))]

ApplyConfigFromJson(c, data) ==
  FileServices(FileProviders(FileChannels(FileRelay(FileAgents(c, data),
    data), data), data), data)

----------------------------------------------------------------------------
(* The environment *)

\* A credential in the environment enables the channel, whatever else says no.
CredentialEnables(section, variables, credentials) ==
  IF \E key \in credentials : Has(variables, key)
  THEN [section EXCEPT !.enabled = TRUE] ELSE section

TelegramEnvironment(section, variables) ==
  CredentialEnables(Overlay(section, variables, {"enabled", "token", "allow_from"}),
                    variables, {"token"})
LarkEnvironment(section, variables) ==
  CredentialEnables(
    Overlay(section, variables, {"enabled", "app_id", "app_secret", "domain",
                                 "timeout_ms", "allow_from"}),
    variables, {"app_id", "app_secret"})
QQBotEnvironment(section, variables) ==
  CredentialEnables(
    Overlay(section, variables, {"enabled", "app_id", "client_secret", "token",
                                 "sandbox", "intents", "skip_tls_verify",
                                 "allow_from"}),
    variables, {"app_id", "client_secret", "token"})

\* The other variables have two names; the one with the double bars wins.
GetEnvFallback(env, s) == Over(Section(Section(env, "double"), s), Section(env, s))

ProvidersEnvironment(providers, env) ==
  LET Given(p) == GetEnvFallback(env, p)
      Keys(p) == IF p \in {"anthropic", "openai", "gemini"} THEN {"api_key"}
                 ELSE {"api_key", "api_base"}
  IN [p \in Providers |-> Overlay(providers[p], Given(p), Keys(p))]

\* KABOT_AGENT_MAX_TOOL_ITERATIONS is read last and sets both limits.
AgentsEnvironment(defaults, env) ==
  LET given == GetEnvFallback(env, "defaults")
      each == Overlay(defaults, given, Fields(defaults) \ {"tool_profile"})
  IN IF Has(given, "max_tool_iterations")
     THEN [each EXCEPT !.max_iterations = given.max_tool_iterations] ELSE each

QmdEnvironment(qmd, env) == Overlay(qmd, GetEnvFallback(env, "qmd"), Fields(qmd))
HeartbeatEnvironment(heartbeat, env) ==
  Overlay(heartbeat, GetEnvFallback(env, "heartbeat"), Fields(heartbeat))
TaskSystemEnvironment(system, env) ==
  Overlay(system, GetEnvFallback(env, "task_system"), Fields(system))

FromEnvironment(c, env) ==
  [c EXCEPT !.telegram = TelegramEnvironment(@, Section(env, "telegram")),
            !.lark = LarkEnvironment(@, Section(env, "lark")),
            !.qqbot = QQBotEnvironment(@, Section(env, "qqbot")),
            !.providers = ProvidersEnvironment(@, env),
            !.llm = Overlay(@, GetEnvFallback(env, "llm"), Fields(@)),
            !.defaults = AgentsEnvironment(@, env),
            !.qmd = QmdEnvironment(@, env),
            !.heartbeat = HeartbeatEnvironment(@, env),
            !.task_system = TaskSystemEnvironment(@, env)]

----------------------------------------------------------------------------
(* NormalizeConfig *)

\* An agent's value that is the file's default follows the default.
ApplyRuntimeAgentDefaults(agent, previous, current) ==
  [f \in DOMAIN agent |-> IF Has(previous, f) /\ agent[f] = previous[f]
                          THEN current[f] ELSE agent[f]]

NormalizeAgents(c, previous) ==
  LET agents == IF c.agents = <<>> THEN <<Over(c.defaults, [name |-> "default"])>>
                ELSE c.agents
  IN [k \in DOMAIN agents |->
        ApplyRuntimeAgentDefaults(agents[k], previous, c.defaults)]

OrElse(value, default) == IF value = "" THEN default ELSE value
Positive(value, default) == IF value <= 0 THEN default ELSE value
Slashed(path, default) == IF path = "" THEN default ELSE "absolute"

RelayDefaults(d) ==
  LET path == Slashed(d.path, "absolute")
  IN IF d.use_tls
     THEN [d EXCEPT !.path = path, !.scheme = "wss",
                    !.port = IF @ = 8080 THEN 443 ELSE @]
     ELSE [d EXCEPT !.path = path, !.scheme = OrElse(@, "ws")]

\* d is what RelayDefaults made of the defaults.
NormalizeRelayAgent(a, d, agents) ==
  LET scheme == OrElse(a.scheme, d.scheme)
      tls == a.use_tls \/ d.use_tls \/ scheme = "wss"
  IN [a EXCEPT
        !.local_agent = OrElse(OrElse(@, a.name), agents[1].name),
        !.host = OrElse(@, d.host), !.port = Positive(@, d.port),
        !.path = Slashed(@, d.path), !.use_tls = tls,
        !.skip_tls_verify = @ \/ d.skip_tls_verify,
        !.scheme = IF tls THEN "wss" ELSE OrElse(scheme, "ws"),
        !.heartbeat_interval_s = Positive(@, d.heartbeat_interval_s),
        !.reconnect_initial_delay_ms = Positive(@, d.reconnect_initial_delay_ms),
        !.reconnect_max_delay_ms = Positive(@, d.reconnect_max_delay_ms)]

\* Without instances, the enabled sections are the instances.
ChannelSections(c) ==
  LET Instance(type) ==
        LET name == OrElse(c[type].name, type)
        IN [name |-> name, type |-> type, enabled |-> c[type].enabled,
            allow_from |-> c[type].allow_from, binding |-> c[type].binding,
            channel |-> [c[type] EXCEPT !.name = name]]
      IfEnabled(type) == IF c[type].enabled THEN <<Instance(type)>> ELSE <<>>
  IN IF c.instances # <<>> THEN c.instances
     ELSE IfEnabled("telegram") \o IfEnabled("lark") \o IfEnabled("qqbot")
          \o IfEnabled("weixin")

Credentials(type, channel) ==
  CASE type = "telegram" -> channel.token # ""
    [] type = "lark" -> channel.app_id # "" /\ channel.app_secret # ""
    [] type = "qqbot" -> /\ channel.app_id # ""
                         /\ channel.client_secret # "" \/ channel.token # ""
    [] type = "weixin" -> channel.account_id # ""
    [] OTHER -> TRUE

\* Mutant of NormalizeInstance: an instance without credentials stays enabled.
NormalizeWithoutCredentials(i, agents) ==
  LET name == OrElse(OrElse(i.name, i.channel.name), i.type)
  IN [i EXCEPT !.name = name, !.channel.name = name,
               !.allow_from = IF @ = <<>> THEN i.channel.allow_from ELSE @,
               !.binding = OrElse(OrElse(@, i.channel.binding), agents[1].name)]

\* An instance of a known type inherits name, allow list and binding of its channel;
\* without credentials it is disabled; without an agent it gets the first one.
NormalizeInstance(i, agents) ==
  LET name == OrElse(OrElse(i.name, i.channel.name), i.type)
      known ==
        [i EXCEPT !.name = name, !.channel.name = name,
                  !.allow_from = IF @ = <<>> THEN i.channel.allow_from ELSE @,
                  !.binding = OrElse(@, i.channel.binding),
                  !.enabled = @ /\ Credentials(i.type, i.channel)]
      own == IF i.type \in ChannelTypes THEN known ELSE i
  IN [own EXCEPT !.binding = OrElse(@, agents[1].name)]

NormalizeConfig(c, previous) ==
  LET agents == NormalizeAgents(c, previous)
      relay == RelayDefaults(c.relay)
      instances == ChannelSections(c)
  IN [c EXCEPT
        !.agents = agents, !.relay = relay,
        !.managed_agents = [k \in DOMAIN @ |-> NormalizeRelayAgent(@[k], relay, agents)],
        !.instances = [k \in DOMAIN instances |->
                         NormalizeInstance(instances[k], agents)]]

\* Mutant of LoadConfig: the copy of the defaults is taken after the environment.
LoadConfigCopyLate(data, env) ==
  LET set == FromEnvironment(ApplyConfigFromJson(BuiltIn, data), env)
  IN NormalizeConfig(set, set.defaults)

LoadConfig(data, env) ==
  LET read == ApplyConfigFromJson(BuiltIn, data)
  IN NormalizeConfig(FromEnvironment(read, env), read.defaults)

----------------------------------------------------------------------------
(* ValidateConfig: an error is what is wrong and the name it is said of *)

Names(list) == {list[k].name : k \in DOMAIN list}
FindAgent(c, name) == name \in Names(c.agents)

\* What is wrong with the names of a list: one is empty, or used twice.
NameErrors(list, kind) ==
  {<<"empty name", kind>> : k \in {k \in DOMAIN list : list[k].name = ""}} \cup
  {<<"duplicate name", list[k].name>> :
     k \in {k \in DOMAIN list : /\ list[k].name # ""
                                /\ \E l \in 1..k - 1 : list[l].name = list[k].name}}

AgentErrors(c) ==
  NameErrors(c.agents, "agent") \cup
  {<<"tool profile", a.name>> :
     a \in {a \in ToSet(c.agents) : /\ a.name # ""
                                    /\ a.tool_profile \notin {"full", "message_only"}}}

\* Telegram and Lark need no credentials here: their instances are just disabled.
ChannelErrors(c) ==
  LET all == ToSet(c.instances)
  IN NameErrors(c.instances, "channel") \cup
     {<<"type", i.name>> : i \in {i \in all : i.type \notin ChannelTypes}} \cup
     {<<"credentials", i.name>> : i \in {i \in all : /\ i.type \in {"qqbot", "weixin"}
                                                     /\ ~Credentials(i.type, i.channel)}} \cup
     {<<"agent", i.name>> : i \in {i \in all : ~FindAgent(c, i.binding)}}

RelayErrors(c) ==
  LET Complete(a) ==
        /\ FindAgent(c, a.local_agent)
        /\ "" \notin {a.agent_id, a.token, a.host}
        /\ a.path = "absolute" /\ a.port > 0
        /\ a.heartbeat_interval_s > 0 /\ a.reconnect_initial_delay_ms > 0
        /\ a.reconnect_max_delay_ms >= a.reconnect_initial_delay_ms
        /\ a.scheme \in {"ws", "wss"}
  IN NameErrors(c.managed_agents, "relay") \cup
     {<<"relay agent", a.name>> : a \in {a \in ToSet(c.managed_agents) :
                                           a.name # "" /\ ~Complete(a)}}

ValidateConfig(c) == AgentErrors(c) \cup ChannelErrors(c) \cup RelayErrors(c)

----------------------------------------------------------------------------
(* What is made of it *)

\* InitChannels: the enabled instances, of two with one name the first.
Registered(c) ==
  {c.instances[k] : k \in
     {k \in DOMAIN c.instances :
        /\ c.instances[k].enabled /\ c.instances[k].type \in ChannelTypes
        /\ \A l \in 1..k - 1 : c.instances[l].enabled =>
             c.instances[l].channel.name # c.instances[k].channel.name}}

\* The agent a channel object writes into its messages.
BindingAgent(i) == IF i.type = "weixin" THEN i.binding ELSE i.channel.binding

\* ResolveAgentName for a message of the channel object of instance i.
ResolveAgentName(c, i) ==
  LET bound == {j \in ToSet(c.instances) : j.name = i.channel.name
                                           /\ FindAgent(c, j.binding)}
  IN IF FindAgent(c, BindingAgent(i)) THEN BindingAgent(i)
     ELSE IF bound # {} THEN (CHOOSE j \in bound : TRUE).binding
     ELSE c.agents[1].name

\* Start of a channel gives up without these.
CanStart(i) ==
  CASE i.type = "telegram" -> i.channel.token # ""
    [] i.type = "lark" -> "" \notin {i.channel.app_id, i.channel.app_secret}
    [] i.type = "qqbot" -> /\ i.channel.app_id # ""
                           /\ {i.channel.client_secret, i.channel.token} # {""}
    [] i.type = "weixin" -> i.channel.account_id # "" \/ i.channel.name # ""

FInit ==
  file = Nothing /\ environment = Nothing /\ config = NotLoaded /\ errors = {}

\* The operator writes a section of the file, or sets the environment, while no
\* gateway runs; then a gateway starts with them, and ends.
EditFile ==
  /\ config = NotLoaded
  /\ \E s \in DOMAIN Sections : \E contents \in Sections[s] :
       file' = Over([key \in {s} |-> contents], file)
  /\ UNCHANGED <<environment, config, errors>>

SetEnvironment ==
  /\ config = NotLoaded
  /\ environment' \in Variables
  /\ UNCHANGED <<file, config, errors>>

ReadConfig ==
  /\ config = NotLoaded
  /\ config' = LoadConfig(file, environment)
  /\ errors' = ValidateConfig(config')
  /\ UNCHANGED <<file, environment>>

GatewayEnds ==
  /\ config # NotLoaded
  /\ config' = NotLoaded /\ errors' = {}
  /\ UNCHANGED <<file, environment>>

Configure == EditFile \/ SetEnvironment \/ ReadConfig \/ GatewayEnds
FSpec == FInit /\ [][Configure]_fvars

----------------------------------------------------------------------------
(* Properties *)

Validated == config # NotLoaded /\ errors = {}

\* A gateway whose configuration is accepted serves every instance that is enabled:
\* its channel is registered and finds its credentials, lets in those the instance
\* names, and its messages reach the agent the instance is bound to.  The settings
\* pass through sections, instances, the environment and NormalizeConfig on the way.
EnabledIsServed ==
  Validated => \A i \in ToSet(config.instances) : i.enabled =>
    /\ i \in Registered(config) /\ CanStart(i)
    /\ i.channel.name = i.name /\ i.channel.allow_from = i.allow_from
    /\ ResolveAgentName(config, i) = i.binding

\* Where a setting of an agent is found first: in the instance, in the environment, in
\* the defaults of the file, among the built-in values.
Layers(item) ==
  LET both(s) == IF Has(s, "max_tool_iterations")
                 THEN [max_iterations |-> s.max_tool_iterations] ELSE Nothing
      variables == GetEnvFallback(environment, "defaults")
      defaults == Section(file, "defaults")
  IN <<Over(item, both(item)), Over(both(variables), variables),
       Over(defaults, Over(both(defaults), Section(file, "search"))), AgentDefaults>>

\* The loops of NormalizeConfig hand every setting down as the layers say, but for one
\* case: an instance that repeats the value of the file's defaults follows the
\* environment like one that says nothing.
SettingsInherited ==
  config # NotLoaded =>
    \A k \in DOMAIN Section(file, "agents") : \A f \in DOMAIN AgentDefaults :
      LET layers == Layers(file.agents[k])
          First(from) == CHOOSE l \in from..4 : /\ Has(layers[l], f)
                                                /\ \A m \in from..l - 1 : ~Has(layers[m], f)
          Value(from) == layers[First(from)][f]
      IN config.agents[k][f] = IF Value(1) = Value(3) THEN Value(2) ELSE Value(1)
=============================================================================
