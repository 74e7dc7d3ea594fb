---------------------------- MODULE GatewayProofs ----------------------------
(***************************************************************************)
(* Theorems about the parts of the gateway: its configuration, for any     *)
(* file and any environment; its processes, for any number of them and any *)
(* times their components take; the daily summary, for any agents, days    *)
(* and runs of the process; the thread pool, for any number of workers,    *)
(* tasks and waiters.                                                      *)
(***************************************************************************)
EXTENDS Config, Gateway, DailySummary, ThreadPool, FiniteSetTheorems, SequenceTheorems, TLAPS

----------------------------------------------------------------------------
(* Configuration: what the loaders keep *)

\* Overlay and Over keep what they are given.
LEMMA OverFacts ==
  ASSUME NEW f, NEW g
  PROVE  /\ DOMAIN Over(f, g) = DOMAIN f \cup DOMAIN g
         /\ \A key : Has(f, key) => Over(f, g)[key] = f[key]
         /\ \A key : ~Has(f, key) /\ Has(g, key) => Over(f, g)[key] = g[key]
BY DEF Over, Has

\* What an instance inherits: the allow list of its section unless it has its own, and
\* the agent of its section unless it names one.
BoundTo(base, source) ==
  IF Has(source, "binding") THEN ApplyBindingConfig(base.binding, source.binding)
  ELSE base.binding
Admits(base, source) ==
  IF Has(source, "allow_from") THEN source.allow_from ELSE base.allow_from

IsChannel(c) == {"name", "enabled", "allow_from", "binding"} \subseteq DOMAIN c

LEMMA ApplyChannelFacts ==
  ASSUME NEW base, NEW source, NEW keys, IsChannel(base), "binding" \notin keys
  PROVE  /\ DOMAIN ApplyChannelConfig(base, source, keys) = DOMAIN base
         /\ ApplyChannelConfig(base, source, keys).allow_from = Admits(base, source)
         /\ ApplyChannelConfig(base, source, keys).binding = BoundTo(base, source)
<1> DEFINE bound == IF Has(source, "binding")
               THEN [base EXCEPT !.binding = ApplyBindingConfig(@, source.binding)]
               ELSE base
           all == keys \cup {"name", "enabled", "allow_from"}
<1>1. ApplyChannelConfig(base, source, keys) = Overlay(bound, source, all)
  BY DEF ApplyChannelConfig
<1>2. /\ DOMAIN bound = DOMAIN base
      /\ bound.allow_from = base.allow_from
      /\ bound.binding = BoundTo(base, source)
  BY DEF IsChannel, BoundTo
<1>3. "binding" \notin all /\ "allow_from" \in all
  OBVIOUS
<1> HIDE DEF bound, all
<1>4. /\ DOMAIN Overlay(bound, source, all) = DOMAIN bound
      /\ \A f \in DOMAIN bound : Overlay(bound, source, all)[f] =
           IF f \in all /\ Has(source, f) THEN source[f] ELSE bound[f]
  BY DEF Overlay
<1>5. "binding" \in DOMAIN bound /\ "allow_from" \in DOMAIN bound
  BY <1>2 DEF IsChannel
<1> QED
  BY <1>1, <1>2, <1>3, <1>4, <1>5 DEF Admits

LEMMA BindingFact ==
  ASSUME NEW base, NEW source
  PROVE  ApplyBindingConfig("", source) \in {"", ApplyBindingConfig(base, source)}
BY DEF ApplyBindingConfig

----------------------------------------------------------------------------
(* Instances before and after NormalizeInstance *)

CredentialKeys ==
  [telegram |-> {"token"}, lark |-> {"app_id", "app_secret"},
   qqbot |-> {"app_id", "client_secret", "token"}, weixin |-> {"account_id"}]

InstanceOk(i) ==
  /\ {"name", "type", "enabled", "allow_from", "binding", "channel"} \subseteq DOMAIN i
  /\ i.type \in ChannelTypes =>
       /\ IsChannel(i.channel) /\ CredentialKeys[i.type] \subseteq DOMAIN i.channel
       /\ i.allow_from \in {<<>>, i.channel.allow_from}
       /\ i.binding \in {"", i.channel.binding}

SectionOk(c, type) ==
  type \in DOMAIN c /\ IsChannel(c[type]) /\ CredentialKeys[type] \subseteq DOMAIN c[type]

LEMMA InstanceIsOk ==
  ASSUME NEW c, NEW item, \A type \in ChannelTypes : SectionOk(c, type)
  PROVE  InstanceOk(ChannelInstance(c, item))
<1> DEFINE blank == [name |-> "", type |-> "", enabled |-> TRUE, allow_from |-> <<>>,
                     binding |-> ""]
           own == ApplyChannelConfig(blank, item, {"type"})
           channel == CASE own.type = "telegram" -> ApplyTelegramConfig(c.telegram, item)
                        [] own.type = "lark" -> ApplyLarkConfig(c.lark, item)
                        [] own.type = "qqbot" -> ApplyQQBotConfig(c.qqbot, item)
                        [] own.type = "weixin" -> ApplyWeixinConfig(c.weixin, item)
                        [] OTHER -> Nothing
           i == Over(own, [channel |-> channel])
<1>1. ChannelInstance(c, item) = i
  BY DEF ChannelInstance
<1>2. /\ IsChannel(blank) /\ blank.binding = "" /\ blank.allow_from = <<>>
      /\ DOMAIN blank = {"name", "type", "enabled", "allow_from", "binding"}
  BY DEF IsChannel
<1> HIDE DEF blank
<1>3. /\ DOMAIN own = DOMAIN blank
      /\ own.allow_from = Admits(blank, item)
      /\ own.binding = BoundTo(blank, item)
  BY <1>2, ApplyChannelFacts
<1>4. \A type \in ChannelTypes : own.type = type =>
        /\ DOMAIN channel = DOMAIN c[type]
        /\ channel.allow_from = Admits(c[type], item)
        /\ channel.binding = BoundTo(c[type], item)
  <2> HIDE DEF own
  <2>1. \A type \in ChannelTypes : IsChannel(c[type])
    BY DEF SectionOk
  <2>2. CASE own.type = "telegram"
    <3>1. channel = ApplyChannelConfig(c.telegram, item, {"token"})
      BY <2>2 DEF ApplyTelegramConfig
    <3> HIDE DEF channel
    <3>2. IsChannel(c.telegram)
      BY <2>1 DEF ChannelTypes
    <3>3. /\ DOMAIN channel = DOMAIN c.telegram
          /\ channel.allow_from = Admits(c.telegram, item)
          /\ channel.binding = BoundTo(c.telegram, item)
      BY <3>1, <3>2, ApplyChannelFacts
    <3> QED
      BY <2>2, <3>2, <3>3 DEF IsChannel
  <2>3. CASE own.type = "lark"
    <3>1. channel = ApplyChannelConfig(c.lark, item, {"app_id", "app_secret", "domain", "timeout_ms"})
      BY <2>3 DEF ApplyLarkConfig
    <3> HIDE DEF channel
    <3>2. IsChannel(c.lark)
      BY <2>1 DEF ChannelTypes
    <3>3. /\ DOMAIN channel = DOMAIN c.lark
          /\ channel.allow_from = Admits(c.lark, item)
          /\ channel.binding = BoundTo(c.lark, item)
      BY <3>1, <3>2, ApplyChannelFacts
    <3> QED
      BY <2>3, <3>2, <3>3 DEF IsChannel
  <2>4. CASE own.type = "qqbot"
    <3>1. channel = ApplyChannelConfig(c.qqbot, item, {"app_id", "client_secret", "token",
                      "sandbox", "intents", "skip_tls_verify"})
      BY <2>4 DEF ApplyQQBotConfig
    <3> HIDE DEF channel
    <3>2. IsChannel(c.qqbot)
      BY <2>1 DEF ChannelTypes
    <3>3. /\ DOMAIN channel = DOMAIN c.qqbot
          /\ channel.allow_from = Admits(c.qqbot, item)
          /\ channel.binding = BoundTo(c.qqbot, item)
      BY <3>1, <3>2, ApplyChannelFacts
    <3> QED
      BY <2>4, <3>2, <3>3 DEF IsChannel
  <2>5. CASE own.type = "weixin"
    <3>1. channel = ApplyChannelConfig(c.weixin, item, {"account_id", "base_url",
                      "cdn_base_url", "route_tag", "app_id", "app_version"})
      BY <2>5 DEF ApplyWeixinConfig
    <3> HIDE DEF channel
    <3>2. IsChannel(c.weixin)
      BY <2>1 DEF ChannelTypes
    <3>3. /\ DOMAIN channel = DOMAIN c.weixin
          /\ channel.allow_from = Admits(c.weixin, item)
          /\ channel.binding = BoundTo(c.weixin, item)
      BY <3>1, <3>2, ApplyChannelFacts
    <3> QED
      BY <2>5, <3>2, <3>3 DEF IsChannel
  <2> QED
    BY <2>2, <2>3, <2>4, <2>5 DEF ChannelTypes
<1> HIDE DEF own, channel
<1>5. /\ DOMAIN i = DOMAIN own \cup {"channel"}
      /\ \A f \in DOMAIN own : i[f] = own[f]
      /\ i.channel = channel
  <2> DEFINE tail == [channel |-> channel]
  <2>1. "channel" \notin DOMAIN own
    <3>1. DOMAIN own = {"name", "type", "enabled", "allow_from", "binding"}
      BY <1>2, <1>3
    <3> QED
      BY ONLY <3>1
  <2>2. DOMAIN tail = {"channel"} /\ tail["channel"] = channel /\ i = Over(own, tail)
    OBVIOUS
  <2> HIDE DEF tail
  <2> HIDE DEF i
  <2>3. /\ DOMAIN i = DOMAIN own \cup DOMAIN tail
        /\ \A f : Has(own, f) => i[f] = own[f]
        /\ \A f : ~Has(own, f) /\ Has(tail, f) => i[f] = tail[f]
    <3>1. /\ DOMAIN Over(own, tail) = DOMAIN own \cup DOMAIN tail
          /\ \A f : Has(own, f) => Over(own, tail)[f] = own[f]
          /\ \A f : ~Has(own, f) /\ Has(tail, f) => Over(own, tail)[f] = tail[f]
      BY DEF Over, Has
    <3> QED
      BY <2>2, <3>1, Zenon
  <2>4. \A f \in DOMAIN own : i[f] = own[f]
    BY <2>3 DEF Has
  <2>5. i["channel"] = channel
    BY <2>1, <2>2, <2>3 DEF Has
  <2> QED
    BY <2>2, <2>3, <2>4, <2>5
<1> HIDE DEF i
<1>6. ASSUME i.type \in ChannelTypes
      PROVE  /\ IsChannel(i.channel) /\ CredentialKeys[i.type] \subseteq DOMAIN i.channel
             /\ i.allow_from \in {<<>>, i.channel.allow_from}
             /\ i.binding \in {"", i.channel.binding}
  <2>1. i.type = own.type /\ i.allow_from = own.allow_from /\ i.binding = own.binding
    BY <1>2, <1>3, <1>5
  <2>2. /\ DOMAIN channel = DOMAIN c[i.type]
        /\ channel.allow_from = Admits(c[i.type], item)
        /\ channel.binding = BoundTo(c[i.type], item)
    BY <1>4, <1>6, <2>1
  <2>3. own.allow_from \in {<<>>, channel.allow_from}
    BY <1>2, <1>3, <2>2 DEF Admits
  <2>4. own.binding \in {"", channel.binding}
    BY <1>2, <1>3, <2>2, BindingFact DEF BoundTo
  <2> QED
    BY <1>5, <1>6, <2>1, <2>2, <2>3, <2>4 DEF SectionOk, IsChannel
<1> QED
  BY <1>1, <1>2, <1>3, <1>5, <1>6 DEF InstanceOk

\* NormalizeInstance makes instance and channel agree, and disables without credentials.
LEMMA NormalizedFacts ==
  ASSUME NEW i, NEW agents, InstanceOk(i)
  PROVE  LET n == NormalizeInstance(i, agents) IN
         /\ n.type = i.type
         /\ i.type \in ChannelTypes =>
              /\ n.enabled => Credentials(n.type, n.channel)
              /\ n.channel.name = n.name
              /\ n.channel.allow_from = n.allow_from
              /\ n.binding = OrElse(n.channel.binding, agents[1].name)
<1> DEFINE name == OrElse(OrElse(i.name, i.channel.name), i.type)
           known ==
             [i EXCEPT !.name = name, !.channel.name = name,
                       !.allow_from = IF @ = <<>> THEN i.channel.allow_from ELSE @,
                       !.binding = OrElse(@, i.channel.binding),
                       !.enabled = @ /\ Credentials(i.type, i.channel)]
           own == IF i.type \in ChannelTypes THEN known ELSE i
           n == [own EXCEPT !.binding = OrElse(@, agents[1].name)]
<1>1. NormalizeInstance(i, agents) = n
  BY DEF NormalizeInstance
<1>2. n.type = i.type
  BY DEF InstanceOk
<1>3. ASSUME i.type \in ChannelTypes
      PROVE  /\ n.enabled => Credentials(n.type, n.channel)
             /\ n.channel.name = n.name
             /\ n.channel.allow_from = n.allow_from
             /\ n.binding = OrElse(n.channel.binding, agents[1].name)
  <2>1. own = known
    BY <1>3
  <2> HIDE DEF own
  <2>2. /\ n.enabled = known.enabled /\ n.channel = known.channel /\ n.name = known.name
        /\ n.allow_from = known.allow_from
        /\ n.binding = OrElse(known.binding, agents[1].name)
    BY <2>1 DEF InstanceOk
  <2>3. /\ known.channel = [i.channel EXCEPT !.name = name]
        /\ known.name = name
        /\ known.allow_from = IF i.allow_from = <<>> THEN i.channel.allow_from ELSE i.allow_from
        /\ known.binding = OrElse(i.binding, i.channel.binding)
    BY DEF InstanceOk
  <2>4. known.enabled = (i.enabled /\ Credentials(i.type, i.channel))
    BY DEF InstanceOk
  <2>5. known.enabled => Credentials(i.type, i.channel)
    BY <2>4
  <2> HIDE DEF n, known, name
  <2>6. /\ known.channel.name = name
        /\ \A f \in DOMAIN i.channel : f # "name" => known.channel[f] = i.channel[f]
        /\ DOMAIN known.channel = DOMAIN i.channel
    BY <1>3, <2>3 DEF InstanceOk, IsChannel
  <2>7. Credentials(i.type, i.channel) => Credentials(i.type, known.channel)
    <3>1. CredentialKeys[i.type] \subseteq DOMAIN i.channel
      BY <1>3 DEF InstanceOk
    <3>2. CASE i.type = "telegram"
      <4>1. CredentialKeys["telegram"] = {"token"}
        BY DEF CredentialKeys
      <4>2. \A f \in {"token"} : known.channel[f] = i.channel[f]
        BY <2>6, <3>1, <3>2, <4>1
      <4> QED
        BY <3>2, <4>2 DEF Credentials
    <3>3. CASE i.type = "lark"
      <4>1. CredentialKeys["lark"] = {"app_id", "app_secret"}
        BY DEF CredentialKeys
      <4>2. \A f \in {"app_id", "app_secret"} : known.channel[f] = i.channel[f]
        BY <2>6, <3>1, <3>3, <4>1
      <4> QED
        BY <3>3, <4>2 DEF Credentials
    <3>4. CASE i.type = "qqbot"
      <4>1. CredentialKeys["qqbot"] = {"app_id", "client_secret", "token"}
        BY DEF CredentialKeys
      <4>2. \A f \in {"app_id", "client_secret", "token"} : known.channel[f] = i.channel[f]
        BY <2>6, <3>1, <3>4, <4>1
      <4> QED
        BY <3>4, <4>2 DEF Credentials
    <3>5. CASE i.type = "weixin"
      <4>1. CredentialKeys["weixin"] = {"account_id"}
        BY DEF CredentialKeys
      <4>2. \A f \in {"account_id"} : known.channel[f] = i.channel[f]
        BY <2>6, <3>1, <3>5, <4>1
      <4> QED
        BY <3>5, <4>2 DEF Credentials
    <3> QED
      BY <1>3, <3>2, <3>3, <3>4, <3>5 DEF ChannelTypes
  <2>8. known.channel.allow_from = known.allow_from
    BY <1>3, <2>3, <2>6 DEF InstanceOk, IsChannel
  <2>9. known.channel.binding = known.binding
    BY <1>3, <2>3, <2>6 DEF InstanceOk, IsChannel, OrElse
  <2> QED
    BY <1>2, <2>2, <2>3, <2>5, <2>6, <2>7, <2>8, <2>9
<1> QED
  BY <1>1, <1>2, <1>3

----------------------------------------------------------------------------
(* EnabledIsServed *)

LEMMA ServedIfValid ==
  ASSUME NEW c, NEW raw, NEW N \in Nat, DOMAIN raw = 1 .. N,
         c.instances = [k \in DOMAIN raw |-> NormalizeInstance(raw[k], c.agents)],
         \A k \in DOMAIN raw : InstanceOk(raw[k]),
         ValidateConfig(c) = {},
         NEW i \in ToSet(c.instances), i.enabled
  PROVE  /\ i \in Registered(c) /\ CanStart(i)
         /\ i.channel.name = i.name /\ i.channel.allow_from = i.allow_from
         /\ ResolveAgentName(c, i) = i.binding
<1> DEFINE list == c.instances
           D == DOMAIN raw
<1>1. DOMAIN list = D
  OBVIOUS
<1>2. \A k \in D : list[k] \in ToSet(list)
  BY DEF ToSet
<1>3. PICK k \in D : i = list[k]
  BY DEF ToSet
<1>4. /\ NameErrors(c.agents, "agent") = {} /\ NameErrors(list, "channel") = {}
      /\ {<<"type", x.name>> : x \in {x \in ToSet(list) : x.type \notin ChannelTypes}} = {}
      /\ {<<"agent", x.name>> : x \in {x \in ToSet(list) : ~FindAgent(c, x.binding)}} = {}
  BY DEF ValidateConfig, AgentErrors, ChannelErrors
<1>5. \A x \in ToSet(list) : x.type \in ChannelTypes /\ FindAgent(c, x.binding)
  <2> TAKE x \in ToSet(list)
  <2> HIDE DEF list
  <2>1. ASSUME x.type \notin ChannelTypes PROVE FALSE
    <3>1. <<"type", x.name>> \in {<<"type", y.name>> : y \in {y \in ToSet(list) : y.type \notin ChannelTypes}}
      BY <2>1
    <3> QED
      BY <1>4, <3>1
  <2>2. ASSUME ~FindAgent(c, x.binding) PROVE FALSE
    <3>1. <<"agent", x.name>> \in {<<"agent", y.name>> : y \in {y \in ToSet(list) : ~FindAgent(c, y.binding)}}
      BY <2>2
    <3> QED
      BY <1>4, <3>1
  <2> QED
    BY <2>1, <2>2
<1>6. \A l, m \in D : list[l].name = list[m].name => l = m
  <2>1. \A l \in D : list[l].name # ""
    BY <1>1, <1>4 DEF NameErrors
  <2>2. \A m \in D : \A l \in 1 .. m - 1 : list[l].name # list[m].name
    <3> SUFFICES ASSUME NEW m \in D, NEW l \in 1 .. m - 1, list[l].name = list[m].name
                 PROVE  FALSE
      OBVIOUS
    <3> HIDE DEF list
    <3>1. m \in {p \in DOMAIN list : /\ list[p].name # ""
                                     /\ \E j \in 1 .. p - 1 : list[j].name = list[p].name}
      BY <1>1, <2>1
    <3>2. <<"duplicate name", list[m].name>> \in NameErrors(list, "channel")
      BY <3>1 DEF NameErrors
    <3> QED
      BY <1>4, <3>2
  <2>3. SUFFICES ASSUME NEW l \in D, NEW m \in D, list[l].name = list[m].name, l < m
                 PROVE  FALSE
    OBVIOUS
  <2>4. l \in 1 .. m - 1
    BY <2>3
  <2> QED
    BY <2>2, <2>3, <2>4
<1>7. ~FindAgent(c, "")
  BY <1>4 DEF NameErrors, FindAgent, Names
<1>8. \A l \in D : /\ list[l].enabled => Credentials(list[l].type, list[l].channel)
                   /\ list[l].channel.name = list[l].name
                   /\ list[l].channel.allow_from = list[l].allow_from
                   /\ list[l].binding = OrElse(list[l].channel.binding, c.agents[1].name)
  <2> TAKE l \in D
  <2> DEFINE n == NormalizeInstance(raw[l], c.agents)
  <2>1. list[l] = n
    OBVIOUS
  <2>2. n.type \in ChannelTypes
    BY <1>2, <1>5, <2>1
  <2>3. InstanceOk(raw[l])
    OBVIOUS
  <2> HIDE DEF n, list
  <2>4. /\ n.type = raw[l].type
        /\ raw[l].type \in ChannelTypes =>
              /\ n.enabled => Credentials(n.type, n.channel)
              /\ n.channel.name = n.name
              /\ n.channel.allow_from = n.allow_from
              /\ n.binding = OrElse(n.channel.binding, c.agents[1].name)
    BY <2>3, NormalizedFacts DEF n
  <2> QED
    BY <2>1, <2>2, <2>4
<1> HIDE DEF list
<1>9. i \in Registered(c)
  <2>1. \A l \in 1 .. k - 1 : list[l].enabled => list[l].channel.name # list[k].channel.name
    <3> TAKE l \in 1 .. k - 1
    <3>1. l \in D /\ l # k
      BY <1>3
    <3> QED
      BY <1>3, <1>6, <1>8, <3>1
  <2> QED
    BY <1>1, <1>2, <1>3, <1>5, <2>1 DEF Registered, list
<1>10. CanStart(i)
  <2>1. Credentials(i.type, i.channel) /\ i.type \in ChannelTypes
    BY <1>2, <1>3, <1>5, <1>8
  <2> QED
    BY <2>1 DEF Credentials, CanStart, ChannelTypes
<1>11. ResolveAgentName(c, i) = i.binding
  <2> DEFINE bound == {j \in ToSet(c.instances) : j.name = i.channel.name
                                               /\ FindAgent(c, j.binding)}
  <2>1. i.binding = OrElse(i.channel.binding, c.agents[1].name) /\ i.channel.name = i.name
    BY <1>3, <1>8
  <2>2. FindAgent(c, i.binding)
    BY <1>5, <1>3, <1>2
  <2>3. bound = {i}
    <3>1. i \in bound
      BY <2>1, <2>2
    <3>2. ASSUME NEW j \in bound PROVE j = i
      <4>1. PICK l \in D : j = list[l]
        BY <1>1 DEF ToSet, list
      <4>2. list[l].name = list[k].name
        BY <1>3, <2>1, <4>1
      <4> QED
        BY <1>3, <1>6, <4>1, <4>2
    <3> QED
      BY <3>1, <3>2
  <2>4. (CHOOSE j \in bound : TRUE) = i
    BY <2>3
  <2>5. ResolveAgentName(c, i) = IF FindAgent(c, BindingAgent(i)) THEN BindingAgent(i) ELSE i.binding
    BY <2>3, <2>4 DEF ResolveAgentName
  <2>6. FindAgent(c, BindingAgent(i)) => BindingAgent(i) = i.binding
    <3>1. CASE i.type = "weixin"
      BY <3>1 DEF BindingAgent
    <3>2. CASE i.type # "weixin"
      BY <1>7, <2>1, <3>2 DEF BindingAgent, OrElse
    <3> QED
      BY <3>1, <3>2
  <2> QED
    BY <2>5, <2>6
<1> QED
  BY <1>3, <1>8, <1>9, <1>10, <1>11

\* What LoadConfig has made of the file before it normalises it.
Read(data) == ApplyConfigFromJson(BuiltIn, data)
Set(data, env) == FromEnvironment(Read(data), env)

ConfigOk(c) == DOMAIN c = DOMAIN BuiltIn /\ \A type \in ChannelTypes : SectionOk(c, type)

LEMMA BuiltInOk == ConfigOk(BuiltIn)
<1>1. \A type \in ChannelTypes : type \in DOMAIN BuiltIn
  BY DEF BuiltIn, ChannelTypes
<1>2. /\ BuiltIn.telegram = TelegramConfig /\ BuiltIn.lark = LarkConfig
      /\ BuiltIn.qqbot = QQBotConfig /\ BuiltIn.weixin = WeixinConfig
  BY DEF BuiltIn
<1>3. /\ IsChannel(TelegramConfig) /\ IsChannel(LarkConfig)
      /\ IsChannel(QQBotConfig) /\ IsChannel(WeixinConfig)
  BY DEF IsChannel, TelegramConfig, LarkConfig, QQBotConfig, WeixinConfig
<1>4. /\ CredentialKeys["telegram"] \subseteq DOMAIN TelegramConfig
      /\ CredentialKeys["lark"] \subseteq DOMAIN LarkConfig
      /\ CredentialKeys["qqbot"] \subseteq DOMAIN QQBotConfig
      /\ CredentialKeys["weixin"] \subseteq DOMAIN WeixinConfig
  BY DEF CredentialKeys, TelegramConfig, LarkConfig, QQBotConfig, WeixinConfig
<1> QED
  BY <1>1, <1>2, <1>3, <1>4 DEF ConfigOk, SectionOk, ChannelTypes

\* The sections of the channels keep their fields.
LEMMA SectionsKeepFields ==
  ASSUME NEW base, NEW source, IsChannel(base)
  PROVE  /\ DOMAIN ApplyTelegramConfig(base, source) = DOMAIN base
         /\ DOMAIN ApplyLarkConfig(base, source) = DOMAIN base
         /\ DOMAIN ApplyQQBotConfig(base, source) = DOMAIN base
         /\ DOMAIN ApplyWeixinConfig(base, source) = DOMAIN base
         /\ DOMAIN TelegramEnvironment(base, source) = DOMAIN base
         /\ DOMAIN LarkEnvironment(base, source) = DOMAIN base
         /\ DOMAIN QQBotEnvironment(base, source) = DOMAIN base
<1>1. \A keys : "binding" \notin keys => DOMAIN ApplyChannelConfig(base, source, keys) = DOMAIN base
  BY ApplyChannelFacts
<1>2. \A keys, credentials :
        DOMAIN CredentialEnables(Overlay(base, source, keys), source, credentials) = DOMAIN base
  BY DEF CredentialEnables, Overlay
<1> QED
  BY <1>1, <1>2 DEF ApplyTelegramConfig, ApplyLarkConfig, ApplyQQBotConfig, ApplyWeixinConfig,
     TelegramEnvironment, LarkEnvironment, QQBotEnvironment

LEMMA KeepsSection ==
  ASSUME NEW c, NEW d, ConfigOk(c), DOMAIN d = DOMAIN c,
         \A type \in ChannelTypes : DOMAIN d[type] = DOMAIN c[type]
  PROVE  ConfigOk(d)
BY DEF ConfigOk, SectionOk, IsChannel

\* The parts of the file that are not about channels.
LEMMA OtherParts ==
  ASSUME NEW c, NEW data, ConfigOk(c)
  PROVE  /\ ConfigOk(FileAgents(c, data)) /\ FileAgents(c, data).instances = c.instances
         /\ ConfigOk(FileRelay(c, data)) /\ FileRelay(c, data).instances = c.instances
         /\ FileRelay(c, data).agents = c.agents /\ FileRelay(c, data).defaults = c.defaults
         /\ ConfigOk(FileProviders(c, data)) /\ FileProviders(c, data).instances = c.instances
         /\ FileProviders(c, data).agents = c.agents /\ FileProviders(c, data).defaults = c.defaults
         /\ ConfigOk(FileServices(c, data)) /\ FileServices(c, data).instances = c.instances
         /\ FileServices(c, data).agents = c.agents /\ FileServices(c, data).defaults = c.defaults
<1>0. DOMAIN c = {"defaults", "agents", "relay", "managed_agents", "telegram", "lark", "qqbot",
                  "weixin", "instances", "providers", "llm", "heartbeat", "task_system", "qmd",
                  "logging"}
  BY DEF ConfigOk, BuiltIn
<1>1. /\ ConfigOk(FileAgents(c, data)) /\ FileAgents(c, data).instances = c.instances
  <2> DEFINE d == FileAgents(c, data)
  <2>1. \E x, y : d = [c EXCEPT !.defaults = x, !.agents = y]
    BY Zenon DEF FileAgents
  <2> HIDE DEF d
  <2>2. PICK x, y : d = [c EXCEPT !.defaults = x, !.agents = y]
    BY <2>1
  <2>3. DOMAIN d = DOMAIN c /\ d.instances = c.instances
    BY <1>0, <2>2
  <2>4. \A type \in ChannelTypes : d[type] = c[type]
    BY <1>0, <2>2 DEF ChannelTypes
  <2>5. ConfigOk(d)
    BY <2>3, <2>4, KeepsSection
  <2> QED
    BY <2>3, <2>5 DEF d
<1>2. /\ ConfigOk(FileRelay(c, data)) /\ FileRelay(c, data).instances = c.instances
         /\ FileRelay(c, data).agents = c.agents /\ FileRelay(c, data).defaults = c.defaults
  <2> DEFINE d == FileRelay(c, data)
  <2>1. \E x, y : d = [c EXCEPT !.relay = x, !.managed_agents = y]
    BY Zenon DEF FileRelay
  <2> HIDE DEF d
  <2>2. PICK x, y : d = [c EXCEPT !.relay = x, !.managed_agents = y]
    BY <2>1
  <2>3. /\ DOMAIN d = DOMAIN c /\ d.instances = c.instances
        /\ d.agents = c.agents /\ d.defaults = c.defaults
    BY <1>0, <2>2
  <2>4. \A type \in ChannelTypes : d[type] = c[type]
    BY <1>0, <2>2 DEF ChannelTypes
  <2>5. ConfigOk(d)
    BY <2>3, <2>4, KeepsSection
  <2> QED
    BY <2>3, <2>5 DEF d
<1>3. /\ ConfigOk(FileProviders(c, data)) /\ FileProviders(c, data).instances = c.instances
         /\ FileProviders(c, data).agents = c.agents /\ FileProviders(c, data).defaults = c.defaults
  <2> DEFINE d == FileProviders(c, data)
  <2>1. \E x, y : d = [c EXCEPT !.llm = x, !.providers = y]
    BY Zenon DEF FileProviders
  <2> HIDE DEF d
  <2>2. PICK x, y : d = [c EXCEPT !.llm = x, !.providers = y]
    BY <2>1
  <2>3. /\ DOMAIN d = DOMAIN c /\ d.instances = c.instances
        /\ d.agents = c.agents /\ d.defaults = c.defaults
    BY <1>0, <2>2
  <2>4. \A type \in ChannelTypes : d[type] = c[type]
    BY <1>0, <2>2 DEF ChannelTypes
  <2>5. ConfigOk(d)
    BY <2>3, <2>4, KeepsSection
  <2> QED
    BY <2>3, <2>5 DEF d
<1>4. /\ ConfigOk(FileServices(c, data)) /\ FileServices(c, data).instances = c.instances
         /\ FileServices(c, data).agents = c.agents /\ FileServices(c, data).defaults = c.defaults
  <2> DEFINE d == FileServices(c, data)
  <2>1. \E x, y, z, u : d = [c EXCEPT !.heartbeat = x, !.task_system = y, !.qmd = z, !.logging = u]
    BY Zenon DEF FileServices
  <2> HIDE DEF d
  <2>2. PICK x, y, z, u : d = [c EXCEPT !.heartbeat = x, !.task_system = y, !.qmd = z, !.logging = u]
    BY <2>1
  <2>3. /\ DOMAIN d = DOMAIN c /\ d.instances = c.instances
        /\ d.agents = c.agents /\ d.defaults = c.defaults
    BY <1>0, <2>2
  <2>4. \A type \in ChannelTypes : d[type] = c[type]
    BY <1>0, <2>2 DEF ChannelTypes
  <2>5. ConfigOk(d)
    BY <2>3, <2>4, KeepsSection
  <2> QED
    BY <2>3, <2>5 DEF d
<1> QED
  BY <1>1, <1>2, <1>3, <1>4

LEMMA ChannelPart ==
  ASSUME NEW c, NEW data, ConfigOk(c)
  PROVE  /\ ConfigOk(FileChannels(c, data))
         /\ FileChannels(c, data).agents = c.agents /\ FileChannels(c, data).defaults = c.defaults
         /\ DOMAIN FileChannels(c, data).instances = DOMAIN Section(data, "instances")
         /\ \A k \in DOMAIN Section(data, "instances") : InstanceOk(FileChannels(c, data).instances[k])
<1> DEFINE sections ==
        [c EXCEPT !.telegram = ApplyTelegramConfig(@, Section(data, "telegram")),
                  !.lark = ApplyLarkConfig(@, Section(data, "lark")),
                  !.qqbot = ApplyQQBotConfig(@, Section(data, "qqbot")),
                  !.weixin = ApplyWeixinConfig(@, Section(data, "weixin"))]
      items == Section(data, "instances")
      list == [k \in DOMAIN items |-> ChannelInstance(sections, items[k])]
      d == [sections EXCEPT !.instances = list]
<1>0. DOMAIN c = {"defaults", "agents", "relay", "managed_agents", "telegram", "lark", "qqbot",
                  "weixin", "instances", "providers", "llm", "heartbeat", "task_system", "qmd",
                  "logging"}
  BY DEF ConfigOk, BuiltIn
<1>1. FileChannels(c, data) = d
  BY DEF FileChannels
<1>2. /\ DOMAIN sections = DOMAIN c /\ sections.agents = c.agents /\ sections.defaults = c.defaults
      /\ sections.telegram = ApplyTelegramConfig(c.telegram, Section(data, "telegram"))
      /\ sections.lark = ApplyLarkConfig(c.lark, Section(data, "lark"))
      /\ sections.qqbot = ApplyQQBotConfig(c.qqbot, Section(data, "qqbot"))
      /\ sections.weixin = ApplyWeixinConfig(c.weixin, Section(data, "weixin"))
  BY <1>0
<1> HIDE DEF sections
<1>3. \A type \in ChannelTypes : IsChannel(c[type])
  BY DEF ConfigOk, SectionOk
<1>4. \A type \in ChannelTypes : DOMAIN sections[type] = DOMAIN c[type]
  BY <1>2, <1>3, SectionsKeepFields DEF ChannelTypes
<1>5. ConfigOk(sections)
  BY <1>2, <1>4, KeepsSection
<1>6. \A item : InstanceOk(ChannelInstance(sections, item))
  BY <1>5, InstanceIsOk DEF ConfigOk
<1>7. DOMAIN list = DOMAIN items /\ \A k \in DOMAIN items : InstanceOk(list[k])
  BY <1>6
<1> HIDE DEF list
<1>8. /\ DOMAIN d = DOMAIN sections /\ d.instances = list
      /\ d.agents = c.agents /\ d.defaults = c.defaults
      /\ \A type \in ChannelTypes : d[type] = sections[type]
  BY <1>0, <1>2 DEF ChannelTypes
<1>9. ConfigOk(d)
  BY <1>5, <1>8, KeepsSection
<1> QED
  BY <1>1, <1>7, <1>8, <1>9

LEMMA EnvironmentPart ==
  ASSUME NEW c, NEW env, ConfigOk(c)
  PROVE  /\ ConfigOk(FromEnvironment(c, env))
         /\ FromEnvironment(c, env).instances = c.instances
         /\ FromEnvironment(c, env).agents = c.agents
         /\ FromEnvironment(c, env).defaults = AgentsEnvironment(c.defaults, env)
<1> DEFINE d == FromEnvironment(c, env)
<1>0. DOMAIN c = {"defaults", "agents", "relay", "managed_agents", "telegram", "lark", "qqbot",
                  "weixin", "instances", "providers", "llm", "heartbeat", "task_system", "qmd",
                  "logging"}
  BY DEF ConfigOk, BuiltIn
<1> DEFINE c1 == [c EXCEPT !.telegram = TelegramEnvironment(@, Section(env, "telegram"))]
           c2 == [c1 EXCEPT !.lark = LarkEnvironment(@, Section(env, "lark"))]
           c3 == [c2 EXCEPT !.qqbot = QQBotEnvironment(@, Section(env, "qqbot"))]
           c4 == [c3 EXCEPT !.providers = ProvidersEnvironment(@, env),
                            !.llm = Overlay(@, GetEnvFallback(env, "llm"), Fields(@)),
                            !.defaults = AgentsEnvironment(@, env)]
           c5 == [c4 EXCEPT !.qmd = QmdEnvironment(@, env),
                            !.heartbeat = HeartbeatEnvironment(@, env),
                            !.task_system = TaskSystemEnvironment(@, env)]
<1>1. d = c5
  BY DEF FromEnvironment
<1>2. DOMAIN c1 = DOMAIN c /\ \A f \in DOMAIN c : c1[f] =
        IF f = "telegram" THEN TelegramEnvironment(c.telegram, Section(env, "telegram")) ELSE c[f]
  BY <1>0
<1> HIDE DEF c1
<1>3. DOMAIN c2 = DOMAIN c /\ \A f \in DOMAIN c : c2[f] =
        IF f = "lark" THEN LarkEnvironment(c1.lark, Section(env, "lark")) ELSE c1[f]
  BY <1>0, <1>2
<1> HIDE DEF c2
<1>4. DOMAIN c3 = DOMAIN c /\ \A f \in DOMAIN c : c3[f] =
        IF f = "qqbot" THEN QQBotEnvironment(c2.qqbot, Section(env, "qqbot")) ELSE c2[f]
  BY <1>0, <1>3
<1> HIDE DEF c3
<1>5. DOMAIN c4 = DOMAIN c /\ \A f \in DOMAIN c :
        c4[f] = CASE f = "providers" -> ProvidersEnvironment(c3.providers, env)
                  [] f = "llm" -> Overlay(c3.llm, GetEnvFallback(env, "llm"), Fields(c3.llm))
                  [] f = "defaults" -> AgentsEnvironment(c3.defaults, env)
                  [] OTHER -> c3[f]
  BY <1>0, <1>4
<1> HIDE DEF c4
<1>6. DOMAIN c5 = DOMAIN c /\ \A f \in DOMAIN c :
        f \notin {"qmd", "heartbeat", "task_system"} => c5[f] = c4[f]
  BY <1>0, <1>5
<1> HIDE DEF c5
<1>7. /\ c5.instances = c.instances /\ c5.weixin = c.weixin
      /\ c5.agents = c.agents /\ c5.defaults = AgentsEnvironment(c.defaults, env)
      /\ c5.telegram = TelegramEnvironment(c.telegram, Section(env, "telegram"))
      /\ c5.lark = LarkEnvironment(c.lark, Section(env, "lark"))
      /\ c5.qqbot = QQBotEnvironment(c.qqbot, Section(env, "qqbot"))
  BY <1>0, <1>2, <1>3, <1>4, <1>5, <1>6
<1>8. IsChannel(c.telegram) /\ IsChannel(c.lark) /\ IsChannel(c.qqbot)
  BY DEF ConfigOk, SectionOk, ChannelTypes
<1>9. \A type \in ChannelTypes : DOMAIN c5[type] = DOMAIN c[type]
  BY <1>7, <1>8, SectionsKeepFields DEF ChannelTypes
<1>10. ConfigOk(c5)
  BY <1>6, <1>9, KeepsSection
<1> HIDE DEF d
<1>11. /\ ConfigOk(d) /\ d.instances = c.instances
       /\ d.agents = c.agents /\ d.defaults = AgentsEnvironment(c.defaults, env)
  BY <1>1, <1>7, <1>10
<1> QED
  BY <1>11 DEF d

\* Without instances the enabled sections are.
LEMMA SectionsAreInstances ==
  ASSUME NEW c, ConfigOk(c), NEW N \in Nat, DOMAIN c.instances = 1 .. N,
         \A k \in 1 .. N : InstanceOk(c.instances[k])
  PROVE  \E M \in Nat : /\ DOMAIN ChannelSections(c) = 1 .. M
                        /\ \A k \in 1 .. M : InstanceOk(ChannelSections(c)[k])
<1> DEFINE name(type) == OrElse(c[type].name, type)
           Instance(type) ==
             [name |-> name(type), type |-> type, enabled |-> c[type].enabled,
              allow_from |-> c[type].allow_from, binding |-> c[type].binding,
              channel |-> [c[type] EXCEPT !.name = name(type)]]
           IfEnabled(type) == IF c[type].enabled THEN <<Instance(type)>> ELSE <<>>
           V == {Instance(type) : type \in ChannelTypes}
           some == IfEnabled("telegram") \o IfEnabled("lark") \o IfEnabled("qqbot")
                   \o IfEnabled("weixin")
<1>1. ChannelSections(c) = IF c.instances # <<>> THEN c.instances ELSE some
  BY DEF ChannelSections
<1>2. ASSUME NEW type \in ChannelTypes
      PROVE  InstanceOk(Instance(type))
  <2>1. IsChannel(c[type]) /\ CredentialKeys[type] \subseteq DOMAIN c[type]
    BY DEF ConfigOk, SectionOk
  <2> DEFINE channel == [c[type] EXCEPT !.name = name(type)]
  <2>2. /\ DOMAIN channel = DOMAIN c[type] /\ channel.allow_from = c[type].allow_from
        /\ channel.binding = c[type].binding
    BY <2>1 DEF IsChannel
  <2> HIDE DEF channel
  <2>3. /\ IsChannel(channel) /\ CredentialKeys[type] \subseteq DOMAIN channel
        /\ c[type].allow_from \in {<<>>, channel.allow_from}
        /\ c[type].binding \in {"", channel.binding}
    BY <2>1, <2>2 DEF IsChannel
  <2> DEFINE i == [name |-> name(type), type |-> type, enabled |-> c[type].enabled,
                   allow_from |-> c[type].allow_from, binding |-> c[type].binding,
                   channel |-> channel]
  <2> HIDE DEF name
  <2>4. /\ DOMAIN i = {"name", "type", "enabled", "allow_from", "binding", "channel"}
        /\ i.type = type /\ i.allow_from = c[type].allow_from /\ i.binding = c[type].binding
        /\ i.channel = channel
    OBVIOUS
  <2>5. Instance(type) = i
    BY DEF channel
  <2> HIDE DEF i
  <2>6. InstanceOk(i)
    BY <2>3, <2>4 DEF InstanceOk
  <2> QED
    BY <2>5, <2>6
<1>3. \A type \in ChannelTypes : IfEnabled(type) \in Seq(V)
  <2> TAKE type \in ChannelTypes
  <2>1. Instance(type) \in V
    OBVIOUS
  <2> HIDE DEF Instance, V
  <2> QED
    BY <2>1
<1>4. \A x \in V : InstanceOk(x)
  BY <1>2
<1> HIDE DEF V, IfEnabled
<1>5. some \in Seq(V)
  BY <1>3 DEF ChannelTypes
<1> HIDE DEF some
<1>6. DOMAIN some = 1 .. Len(some) /\ Len(some) \in Nat /\ \A k \in 1 .. Len(some) : some[k] \in V
  BY <1>5
<1> QED
  BY <1>1, <1>4, <1>6

LEMMA LoadedInstances ==
  ASSUME NEW data, NEW env, NEW N \in Nat, DOMAIN Section(data, "instances") = 1 .. N,
         ValidateConfig(LoadConfig(data, env)) = {},
         NEW i \in ToSet(LoadConfig(data, env).instances), i.enabled
  PROVE  LET c == LoadConfig(data, env) IN
         /\ i \in Registered(c) /\ CanStart(i)
         /\ i.channel.name = i.name /\ i.channel.allow_from = i.allow_from
         /\ ResolveAgentName(c, i) = i.binding
<1> DEFINE c1 == FileAgents(BuiltIn, data)
           c2 == FileRelay(c1, data)
           c3 == FileChannels(c2, data)
           c4 == FileProviders(c3, data)
           c5 == FileServices(c4, data)
           c6 == FromEnvironment(c5, env)
           agents == NormalizeAgents(c6, c5.defaults)
           raw == ChannelSections(c6)
           relay == RelayDefaults(c6.relay)
           list == [k \in DOMAIN raw |-> NormalizeInstance(raw[k], agents)]
           c == LoadConfig(data, env)
<1>1. c = NormalizeConfig(c6, c5.defaults)
  BY DEF LoadConfig, ApplyConfigFromJson
<1>2. \E x : c = [c6 EXCEPT !.agents = agents, !.relay = relay, !.managed_agents = x,
                            !.instances = list]
  BY <1>1, Zenon DEF NormalizeConfig
<1> HIDE DEF c1
<1>3. ConfigOk(c1)
  BY BuiltInOk, OtherParts DEF c1
<1> HIDE DEF c2
<1>4. ConfigOk(c2)
  BY <1>3, OtherParts DEF c2
<1> HIDE DEF c3
<1>5. /\ ConfigOk(c3) /\ DOMAIN c3.instances = 1 .. N
      /\ \A k \in 1 .. N : InstanceOk(c3.instances[k])
  BY <1>4, ChannelPart DEF c3
<1> HIDE DEF c4
<1>6. ConfigOk(c4) /\ c4.instances = c3.instances
  BY <1>5, OtherParts DEF c4
<1> HIDE DEF c5
<1>7. ConfigOk(c5) /\ c5.instances = c3.instances
  BY <1>6, OtherParts DEF c5
<1> HIDE DEF c6
<1>8. ConfigOk(c6) /\ c6.instances = c3.instances
  BY <1>7, EnvironmentPart DEF c6
<1>9. PICK M \in Nat : DOMAIN raw = 1 .. M /\ \A k \in 1 .. M : InstanceOk(raw[k])
  BY <1>5, <1>8, SectionsAreInstances
<1>10. {"agents", "relay", "managed_agents", "instances"} \subseteq DOMAIN c6
  BY <1>8 DEF ConfigOk, BuiltIn
<1> HIDE DEF raw, agents, relay, list, c
<1>11. PICK x : c = [c6 EXCEPT !.agents = agents, !.relay = relay, !.managed_agents = x,
                              !.instances = list]
  BY <1>2
<1>12. c.agents = agents /\ c.instances = list
  BY <1>10, <1>11
<1>13. c.instances = [k \in DOMAIN raw |-> NormalizeInstance(raw[k], c.agents)]
  BY <1>12 DEF list
<1>14. ValidateConfig(c) = {} /\ i \in ToSet(c.instances)
  BY DEF c
<1>15. /\ i \in Registered(c) /\ CanStart(i)
       /\ i.channel.name = i.name /\ i.channel.allow_from = i.allow_from
       /\ ResolveAgentName(c, i) = i.binding
  BY <1>9, <1>13, <1>14, ServedIfValid
<1> QED
  BY <1>15 DEF c

\* What is on disk is of the types assumed, and what was read is what is on disk: the
\* file is not edited while a gateway runs.
FileInv ==
  /\ \A s \in DOMAIN file : s \in DOMAIN Sections /\ file[s] \in Sections[s]
  /\ environment \in Variables \cup {Nothing}
  /\ config # NotLoaded => /\ config = LoadConfig(file, environment)
                           /\ errors = ValidateConfig(config)

LEMMA FileInvariant == FSpec => []FileInv
<1>1. FInit => FileInv
  BY DEF FInit, FileInv, Nothing
<1>2. ASSUME FileInv, [Configure]_fvars
      PROVE  FileInv'
  <2>1. CASE EditFile
    <3>1. PICK s \in DOMAIN Sections : \E contents \in Sections[s] :
            file' = Over([key \in {s} |-> contents], file)
      BY <2>1 DEF EditFile
    <3>2. PICK contents \in Sections[s] : file' = Over([key \in {s} |-> contents], file)
      BY <3>1
    <3>3. \A t \in DOMAIN file' : t \in DOMAIN Sections /\ file'[t] \in Sections[t]
      BY <1>2, <3>2 DEF Over, Has, FileInv
    <3> QED
      BY <1>2, <2>1, <3>3 DEF EditFile, FileInv
  <2>2. CASE SetEnvironment
    BY <1>2, <2>2 DEF SetEnvironment, FileInv
  <2>3. CASE ReadConfig
    BY <1>2, <2>3 DEF ReadConfig, FileInv
  <2>4. CASE GatewayEnds
    BY <1>2, <2>4 DEF GatewayEnds, FileInv
  <2>5. CASE UNCHANGED fvars
    BY <1>2, <2>5 DEF fvars, FileInv
  <2> QED
    BY <1>2, <2>1, <2>2, <2>3, <2>4, <2>5 DEF Configure
<1> QED
  BY <1>1, <1>2, PTL DEF FSpec

\* Every instance an accepted configuration enables is served, for any file and any
\* environment: NormalizeConfig and ValidateConfig leave no instance whose channel
\* object disagrees with it, lacks credentials or answers for another agent.
THEOREM EnabledAreServed == FSpec => []EnabledIsServed
<1>1. FileInv => EnabledIsServed
  <2> SUFFICES ASSUME FileInv, Validated, NEW i \in ToSet(config.instances), i.enabled
               PROVE  /\ i \in Registered(config) /\ CanStart(i)
                      /\ i.channel.name = i.name /\ i.channel.allow_from = i.allow_from
                      /\ ResolveAgentName(config, i) = i.binding
    BY DEF EnabledIsServed
  <2>1. config = LoadConfig(file, environment) /\ ValidateConfig(config) = {}
    BY DEF FileInv, Validated
  <2>2. \E N \in Nat : DOMAIN Section(file, "instances") = 1 .. N
    <3>1. CASE Has(file, "instances")
      <4> DEFINE list == file["instances"]
      <4>1. "instances" \in DOMAIN Sections /\ list \in Sections["instances"]
        BY <3>1 DEF FileInv, Has
      <4>2. list \in Seq(ToSet(list))
        BY <4>1, FileType
      <4>3. DOMAIN list = 1 .. Len(list) /\ Len(list) \in Nat
        <5> HIDE DEF list
        <5> QED
          BY <4>2
      <4> QED
        BY <3>1, <4>3 DEF Section
    <3>2. CASE ~Has(file, "instances")
      <4>1. DOMAIN Section(file, "instances") = {}
        BY <3>2 DEF Section, Nothing
      <4>2. 1 .. 0 = {}
        OBVIOUS
      <4> QED
        BY <4>1, <4>2
    <3> QED
      BY <3>1, <3>2
  <2>3. PICK N \in Nat : DOMAIN Section(file, "instances") = 1 .. N
    BY <2>2
  <2> QED
    BY <2>1, <2>3, LoadedInstances
<1> QED
  BY <1>1, FileInvariant, PTL

----------------------------------------------------------------------------
(* SettingsInherited *)

Both(source) ==
  IF Has(source, "max_tool_iterations")
  THEN [max_iterations |-> source.max_tool_iterations] ELSE Nothing

LEMMA BothFacts ==
  ASSUME NEW source, NEW f
  PROVE  /\ Has(Both(source), f) <=> f = "max_iterations" /\ Has(source, "max_tool_iterations")
         /\ Has(Both(source), f) => Both(source)[f] = source["max_tool_iterations"]
BY DEF Both, Has, Nothing

LEMMA ApplyDefaultsFacts ==
  ASSUME NEW base, NEW source, NEW f \in DOMAIN base
  PROVE  ApplyAgentDefaults(base, source)[f] =
           IF f \notin {"brave_api_key", "name"} /\ Has(Over(source, Both(source)), f)
           THEN Over(source, Both(source))[f] ELSE base[f]
<1> DEFINE both == IF Has(source, "max_tool_iterations")
                   THEN [base EXCEPT !.max_iterations = source.max_tool_iterations]
                   ELSE base
<1>1. DOMAIN both = DOMAIN base
  OBVIOUS
<1>2. both[f] = IF Has(Both(source), f) THEN Both(source)[f] ELSE base[f]
  BY BothFacts
<1>3. ApplyAgentDefaults(base, source)[f] =
        IF f \notin {"brave_api_key", "name"} /\ Has(source, f) THEN source[f] ELSE both[f]
  <2> HIDE DEF both
  <2>1. ApplyAgentDefaults(base, source) =
          Overlay(both, source, Fields(base) \ {"brave_api_key", "name"})
    BY DEF ApplyAgentDefaults, both
  <2> QED
    BY <1>1, <2>1 DEF Overlay, Fields
<1> HIDE DEF both
<1>4. /\ Has(Over(source, Both(source)), f) <=> Has(source, f) \/ Has(Both(source), f)
      /\ Has(Over(source, Both(source)), f) =>
           Over(source, Both(source))[f] = IF Has(source, f) THEN source[f] ELSE Both(source)[f]
  BY DEF Over, Has
<1>5. f \in {"brave_api_key", "name"} => ~Has(Both(source), f)
  BY BothFacts
<1> QED
  BY <1>2, <1>3, <1>4, <1>5

LEMMA ApplyDefaultsDomain ==
  ASSUME NEW base, NEW source
  PROVE  DOMAIN ApplyAgentDefaults(base, source) = DOMAIN base
BY DEF ApplyAgentDefaults, Overlay

\* Where a value is found first.
FirstIn(layers, f, from) ==
  CHOOSE l \in from..4 : Has(layers[l], f) /\ \A m \in from..l - 1 : ~Has(layers[m], f)
ValueIn(layers, f, from) == layers[FirstIn(layers, f, from)][f]

LEMMA ValueFacts ==
  ASSUME NEW layers, NEW f, Has(layers[4], f), NEW from \in 1 .. 4
  PROVE  ValueIn(layers, f, from) = IF Has(layers[from], f) THEN layers[from][f]
                                    ELSE ValueIn(layers, f, from + 1)
<1> DEFINE P(n, l) == Has(layers[l], f) /\ \A m \in n .. l - 1 : ~Has(layers[m], f)
<1>1. \A n \in 1 .. 4 : \A l, m \in n .. 4 : P(n, l) /\ P(n, m) => l = m
  OBVIOUS
<1>2. CASE Has(layers[from], f)
  <2>1. from \in from .. 4 /\ P(from, from)
    BY <1>2
  <2>2. FirstIn(layers, f, from) = from
    BY <1>1, <2>1 DEF FirstIn
  <2> QED
    BY <1>2, <2>2 DEF ValueIn
<1>3. CASE ~Has(layers[from], f)
  <2>1. \A l : l \in from .. 4 /\ P(from, l) <=> l \in from + 1 .. 4 /\ P(from + 1, l)
    <3> TAKE l
    <3>1. ASSUME l \in from .. 4, P(from, l) PROVE l \in from + 1 .. 4 /\ P(from + 1, l)
      BY <1>3, <3>1
    <3>2. ASSUME l \in from + 1 .. 4, P(from + 1, l) PROVE l \in from .. 4 /\ P(from, l)
      <4>1. \A m \in from .. l - 1 : m = from \/ m \in from + 1 .. l - 1
        BY <3>2
      <4> QED
        BY <1>3, <3>2, <4>1
    <3> QED
      BY <3>1, <3>2
  <2>2. {l \in from .. 4 : P(from, l)} = {l \in from + 1 .. 4 : P(from + 1, l)}
    BY <2>1
  <2>3. \A n : FirstIn(layers, f, n) = CHOOSE l : l \in n .. 4 /\ P(n, l)
    BY DEF FirstIn
  <2> HIDE DEF P
  <2>4. (CHOOSE l : l \in from .. 4 /\ P(from, l)) = (CHOOSE l : l \in from + 1 .. 4 /\ P(from + 1, l))
    BY <2>1
  <2>5. FirstIn(layers, f, from) = FirstIn(layers, f, from + 1)
    BY <2>3, <2>4
  <2> QED
    BY <1>3, <2>5 DEF ValueIn
<1> QED
  BY <1>2, <1>3

\* The name of an agent is not among what it inherits.
LEMMA NameIsOwn == "name" \notin DOMAIN AgentDefaults
BY DEF AgentDefaults

\* What one agent of a loaded configuration gets, whatever the file and the environment.
LEMMA LoadedSettings ==
  ASSUME NEW data, NEW env, NEW k \in DOMAIN Section(data, "agents"),
         NEW f \in DOMAIN AgentDefaults, NEW item, item = Section(data, "agents")[k],
         NEW S, S = Section(data, "search"), NEW D, D = Section(data, "defaults"),
         NEW given, given = GetEnvFallback(env, "defaults"),
         NEW layers,
         layers = <<Over(item, Both(item)), Over(Both(given), given),
                    Over(D, Over(Both(D), S)), AgentDefaults>>,
         "tool_profile" \notin DOMAIN given, "brave_api_key" \notin DOMAIN item,
         DOMAIN S \subseteq {"brave_api_key"}, "brave_api_key" \notin DOMAIN D
  PROVE  LoadConfig(data, env).agents[k][f] =
           IF ValueIn(layers, f, 1) = ValueIn(layers, f, 3) THEN ValueIn(layers, f, 2)
           ELSE ValueIn(layers, f, 1)
<1> DEFINE search == Overlay(AgentDefaults, S, {"brave_api_key"})
           previous == ApplyAgentDefaults(search, D)
           Instance(x) ==
             ApplyAgentDefaults(
               Over(previous, [name |-> IF Has(x, "name") THEN x.name ELSE "default"]), x)
           list == [j \in DOMAIN Section(data, "agents") |-> Instance(Section(data, "agents")[j])]
           base == Over(previous, [name |-> IF Has(item, "name") THEN item.name ELSE "default"])
           agent == ApplyAgentDefaults(base, item)
           current == AgentsEnvironment(previous, env)
<1>1. /\ layers[1] = Over(item, Both(item)) /\ layers[2] = Over(Both(given), given)
      /\ layers[3] = Over(D, Over(Both(D), S)) /\ layers[4] = AgentDefaults
  OBVIOUS
<1>2. Has(layers[4], f)
  BY <1>1 DEF Has
<1>3. f # "name"
  BY NameIsOwn
<1>4. \A g : f = "brave_api_key" => ~Has(Both(g), f)
  BY BothFacts
<1>5. /\ ValueIn(layers, f, 1) = IF Has(layers[1], f) THEN layers[1][f] ELSE ValueIn(layers, f, 2)
      /\ ValueIn(layers, f, 2) = IF Has(layers[2], f) THEN layers[2][f] ELSE ValueIn(layers, f, 3)
      /\ ValueIn(layers, f, 3) = IF Has(layers[3], f) THEN layers[3][f] ELSE ValueIn(layers, f, 4)
      /\ ValueIn(layers, f, 4) = AgentDefaults[f]
  BY <1>1, <1>2, ValueFacts
<1>6. DOMAIN previous = DOMAIN AgentDefaults /\ previous[f] = ValueIn(layers, f, 3)
  <2>1. DOMAIN search = DOMAIN AgentDefaults
    BY DEF Overlay
  <2>2. search[f] = IF f = "brave_api_key" /\ Has(S, f) THEN S[f] ELSE AgentDefaults[f]
    BY DEF Overlay
  <2> HIDE DEF search
  <2>3. DOMAIN previous = DOMAIN AgentDefaults
    BY <2>1, ApplyDefaultsDomain
  <2>4. previous[f] =
          IF f \notin {"brave_api_key", "name"} /\ Has(Over(D, Both(D)), f)
          THEN Over(D, Both(D))[f] ELSE search[f]
    BY <2>1, ApplyDefaultsFacts
  <2>5. previous[f] = IF Has(layers[3], f) THEN layers[3][f] ELSE AgentDefaults[f]
    <3>1. CASE f = "brave_api_key"
      <4>1. ~Has(D, f) /\ ~Has(Both(D), f)
        BY <1>4, <3>1 DEF Has
      <4>2. /\ Has(layers[3], f) <=> Has(S, f)
            /\ Has(S, f) => layers[3][f] = S[f]
        BY <1>1, <4>1 DEF Over, Has
      <4> QED
        BY <2>2, <2>4, <3>1, <4>2
    <3>2. CASE f # "brave_api_key"
      <4>1. ~Has(S, f)
        BY <3>2 DEF Has
      <4>2. /\ Has(layers[3], f) <=> Has(Over(D, Both(D)), f)
            /\ Has(layers[3], f) => layers[3][f] = Over(D, Both(D))[f]
        BY <1>1, <4>1 DEF Over, Has
      <4> QED
        BY <1>3, <2>2, <2>4, <3>2, <4>2
    <3> QED
      BY <3>1, <3>2
  <2> QED
    BY <1>5, <2>3, <2>5
<1>7. current[f] = ValueIn(layers, f, 2)
  <2> DEFINE each == Overlay(previous, given, Fields(previous) \ {"tool_profile"})
  <2> HIDE DEF previous
  <2>1. DOMAIN each = DOMAIN previous
    BY DEF Overlay
  <2>2. each[f] = IF Has(given, f) THEN given[f] ELSE previous[f]
    BY <1>6 DEF Overlay, Fields, Has
  <2>3. current = IF Has(given, "max_tool_iterations")
                  THEN [each EXCEPT !.max_iterations = given.max_tool_iterations] ELSE each
    BY DEF AgentsEnvironment
  <2> HIDE DEF each, current
  <2>4. current[f] = IF Has(Both(given), f) THEN Both(given)[f] ELSE each[f]
    BY <1>6, <2>1, <2>3, BothFacts
  <2>5. /\ Has(layers[2], f) <=> Has(Both(given), f) \/ Has(given, f)
        /\ Has(layers[2], f) =>
             layers[2][f] = IF Has(Both(given), f) THEN Both(given)[f] ELSE given[f]
    BY <1>1 DEF Over, Has
  <2> QED
    BY <1>5, <1>6, <2>2, <2>4, <2>5
<1>8. /\ f \in DOMAIN agent
      /\ agent[f] = IF Has(layers[1], f) THEN layers[1][f] ELSE previous[f]
  <2> HIDE DEF previous
  <2>1. f \in DOMAIN base /\ base[f] = previous[f]
    BY <1>6 DEF Over, Has
  <2> HIDE DEF base
  <2>2. f \in DOMAIN agent
    BY <2>1, ApplyDefaultsDomain
  <2>3. agent[f] = IF f \notin {"brave_api_key", "name"} /\ Has(Over(item, Both(item)), f)
                   THEN Over(item, Both(item))[f] ELSE base[f]
    BY <2>1, ApplyDefaultsFacts
  <2>4. f = "brave_api_key" => ~Has(layers[1], f)
    BY <1>1, <1>4 DEF Over, Has
  <2> QED
    BY <1>1, <1>3, <2>1, <2>2, <2>3, <2>4
<1>9. list[k] = agent /\ DOMAIN list # {}
  OBVIOUS
<1> HIDE DEF agent, base, current, list
<1> DEFINE c1 == FileAgents(BuiltIn, data)
           c2 == FileRelay(c1, data)
           c3 == FileChannels(c2, data)
           c4 == FileProviders(c3, data)
           c5 == FileServices(c4, data)
           c6 == FromEnvironment(c5, env)
           agents == NormalizeAgents(c6, c5.defaults)
           c == LoadConfig(data, env)
<1>10. c = NormalizeConfig(c6, c5.defaults)
  BY DEF LoadConfig, ApplyConfigFromJson
<1>11. \E x, y, z : c = [c6 EXCEPT !.agents = agents, !.relay = x, !.managed_agents = y,
                                   !.instances = z]
  BY <1>10, Zenon DEF NormalizeConfig
<1>12. ConfigOk(c1) /\ c1.defaults = previous /\ c1.agents = list
  <2>1. ConfigOk(c1)
    BY BuiltInOk, OtherParts
  <2>2. c1 = [BuiltIn EXCEPT !.defaults = previous, !.agents = list]
    BY Zenon DEF FileAgents, BuiltIn, list
  <2>3. {"defaults", "agents"} \subseteq DOMAIN BuiltIn
    BY DEF BuiltIn
  <2> HIDE DEF previous, c1
  <2> QED
    BY <2>1, <2>2, <2>3
<1> HIDE DEF previous, c1
<1>13. ConfigOk(c2) /\ c2.defaults = previous /\ c2.agents = list
  BY <1>12, OtherParts
<1> HIDE DEF c2
<1>14. ConfigOk(c3) /\ c3.defaults = previous /\ c3.agents = list
  BY <1>13, ChannelPart
<1> HIDE DEF c3
<1>15. ConfigOk(c4) /\ c4.defaults = previous /\ c4.agents = list
  BY <1>14, OtherParts
<1> HIDE DEF c4
<1>16. ConfigOk(c5) /\ c5.defaults = previous /\ c5.agents = list
  BY <1>15, OtherParts
<1> HIDE DEF c5
<1>17. ConfigOk(c6) /\ c6.defaults = current /\ c6.agents = list
  BY <1>16, EnvironmentPart DEF current
<1> HIDE DEF c6
<1>18. agents[k][f] = IF agent[f] = previous[f] THEN current[f] ELSE agent[f]
  <2>1. c6.agents # <<>>
    BY <1>9, <1>17
  <2>2. k \in DOMAIN list
    BY DEF list
  <2>3. agents[k] = ApplyRuntimeAgentDefaults(agent, previous, current)
    BY <1>9, <1>16, <1>17, <2>1, <2>2 DEF NormalizeAgents
  <2> HIDE DEF agents
  <2> QED
    BY <1>6, <1>8, <2>3 DEF ApplyRuntimeAgentDefaults, Has
<1> HIDE DEF agents, c
<1>19. PICK x, y, z : c = [c6 EXCEPT !.agents = agents, !.relay = x, !.managed_agents = y,
                                     !.instances = z]
  BY <1>11
<1>20. c.agents = agents
  <2>1. "agents" \in DOMAIN c6
    BY <1>17 DEF ConfigOk, BuiltIn
  <2> QED
    BY <1>19, <2>1
<1>21. c.agents[k][f] = IF agent[f] = previous[f] THEN current[f] ELSE agent[f]
  BY <1>18, <1>20
<1>22. c.agents[k][f] = IF ValueIn(layers, f, 1) = ValueIn(layers, f, 3)
                        THEN ValueIn(layers, f, 2) ELSE ValueIn(layers, f, 1)
  BY <1>5, <1>6, <1>7, <1>8, <1>21
<1> QED
  BY <1>22 DEF c

\* Every agent of a configuration has the settings its layers give it, for any file and
\* any environment: the order in which LoadConfig and NormalizeConfig copy, overlay and
\* compare loses none, and mixes no two, but for the repeated default the property names.
THEOREM SettingsAreInherited == FSpec => []SettingsInherited
<1>1. FileInv => SettingsInherited
  <2> SUFFICES ASSUME FileInv, config # NotLoaded,
                      NEW k \in DOMAIN Section(file, "agents"), NEW f \in DOMAIN AgentDefaults
               PROVE  LET layers == Layers(file.agents[k])
                          First(from) == CHOOSE l \in from..4 : /\ Has(layers[l], f)
                                                                /\ \A m \in from..l - 1 : ~Has(layers[m], f)
                          Value(from) == layers[First(from)][f]
                      IN config.agents[k][f] = IF Value(1) = Value(3) THEN Value(2) ELSE Value(1)
    BY DEF SettingsInherited
  <2> DEFINE item == file.agents[k]
             S == Section(file, "search")
             D == Section(file, "defaults")
             given == GetEnvFallback(environment, "defaults")
             layers == Layers(item)
  <2>1. layers = <<Over(item, Both(item)), Over(Both(given), given),
                   Over(D, Over(Both(D), S)), AgentDefaults>>
    BY DEF Layers, Both
  <2>2. Has(file, "agents") /\ item = Section(file, "agents")[k]
    BY DEF Section, Nothing, Has
  <2>3. "brave_api_key" \notin DOMAIN item
    <3>1. "agents" \in DOMAIN Sections /\ file["agents"] \in Sections["agents"]
      BY <2>2 DEF Has, FileInv
    <3>2. k \in DOMAIN file["agents"]
      BY <2>2 DEF Section
    <3> QED
      BY <3>1, <3>2, FileType
  <2>4. DOMAIN S \subseteq {"brave_api_key"}
    <3>1. CASE Has(file, "search")
      <4>1. "search" \in DOMAIN Sections /\ S \in Sections["search"]
        BY <3>1 DEF FileInv, Has, Section
      <4> QED
        BY <4>1, FileType
    <3>2. CASE ~Has(file, "search")
      BY <3>2 DEF Section, Nothing
    <3> QED
      BY <3>1, <3>2
  <2>5. "brave_api_key" \notin DOMAIN D
    <3>1. CASE Has(file, "defaults")
      <4>1. "defaults" \in DOMAIN Sections /\ D \in Sections["defaults"]
        BY <3>1 DEF FileInv, Has, Section
      <4> QED
        BY <4>1, FileType
    <3>2. CASE ~Has(file, "defaults")
      BY <3>2 DEF Section, Nothing
    <3> QED
      BY <3>1, <3>2
  <2>6. "tool_profile" \notin DOMAIN given
    <3> DEFINE double == Section(environment, "double")
    <3>1. CASE environment \in Variables
      <4>1. \A source \in {environment, double} :
              "tool_profile" \notin DOMAIN Section(source, "defaults")
        BY <3>1, VariablesType
      <4> QED
        BY <4>1 DEF GetEnvFallback, Over
    <3>2. CASE environment = Nothing
      <4>1. \A s : DOMAIN Section(Nothing, s) = {} /\ Section(Nothing, s) = Nothing
        BY DEF Section, Nothing, Has
      <4> QED
        BY <3>2, <4>1 DEF GetEnvFallback, Over
    <3> QED
      BY <3>1, <3>2 DEF FileInv
  <2>7. config = LoadConfig(file, environment)
    BY DEF FileInv
  <2> HIDE DEF item, S, D, given, layers
  <2>8. config.agents[k][f] =
          IF ValueIn(layers, f, 1) = ValueIn(layers, f, 3) THEN ValueIn(layers, f, 2)
          ELSE ValueIn(layers, f, 1)
    BY <2>1, <2>2, <2>3, <2>4, <2>5, <2>6, <2>7, LoadedSettings DEF S, D, given
  <2> QED
    BY <2>8, Zenon DEF ValueIn, FirstIn, layers, item
<1> QED
  BY <1>1, FileInvariant, PTL

----------------------------------------------------------------------------
(* Gateway *)

Lead == Handling \cup {"claim", "build"}

GTypeInv ==
  /\ pc \in [Processes -> Handling \cup Gone \cup {"check", "claim", "build", "wait"}]
  /\ pidFile \in Processes \cup {NoProcess}
  /\ timer \in [Processes -> Nat] /\ guard \in [Processes -> Nat]
  /\ target \in [Processes -> Processes \cup {NoProcess}]
  /\ signal \in [Processes -> {"none", "TERM", "HUP"}]
  /\ restart_requested \in [Processes -> BOOLEAN]
  /\ \A p \in Processes : /\ pc[p] = "serve" => timer[p] <= 1
                          /\ pc[p] = "wait" => timer[p] <= kRestartWait

\* A process that looks at the pid file finds the gateway there is: it has been
\* signalled less than a second ago, if at all.
CheckInv ==
  \A p, q \in Processes : pc[p] = "check" /\ pc[q] \in Lead =>
    pc[q] = "serve" \/ (pc[q] = "leave" /\ timer[q] = kPoll)

\* A restart waits for the gateway there is.  It has been told to end, and once it has
\* seen that, the guard ends it two seconds before the restart loses patience.
WaitInv ==
  \A p, q \in Processes : pc[p] = "wait" /\ pc[q] \in Lead =>
    /\ target[p] = q
    /\ \/ pc[q] = "serve" /\ signal[q] = "TERM" /\ timer[p] >= 7 + timer[q]
       \/ /\ pc[q] \in {"leave", "stop", "end"} /\ ~restart_requested[q]
          /\ guard[q] <= kGuardDelay /\ timer[p] >= guard[q] + 2

OneInv ==
  /\ GTypeInv
  /\ \A p, q \in Processes : pc[p] \in Lead /\ pc[q] \in Lead => p = q
  /\ \A p, q \in Processes : pc[p] \in {"check", "wait"} /\ pc[q] \in {"check", "wait"} => p = q
  /\ \A p \in Processes : pc[p] \in {"build", "start", "serve", "leave", "stop"} => pidFile = p
  /\ CheckInv /\ WaitInv

LEMMA OneInit == GInit => OneInv
BY GatewayAssumption DEF GInit, OneInv, GTypeInv, CheckInv, WaitInv, Lead, Handling, Gone, Off, kRestartWait

LEMMA OneStep == ASSUME Patient, OneInv, [GNext]_gvars PROVE OneInv'
<1> USE GatewayAssumption DEF OneInv, GTypeInv, CheckInv, WaitInv, Lead, Handling, Gone, Off,
        kRestartWait, kGuardDelay, kPoll, Goto
<1>1. ASSUME NEW p \in Processes, RejectConfig(p)
      PROVE  OneInv'
  BY <1>1 DEF RejectConfig
<1>2. ASSUME NEW p \in Processes, CheckPidFile(p)
      PROVE  OneInv'
  BY <1>2 DEF CheckPidFile, Running
<1>3. ASSUME NEW p \in Processes, WritePidFile(p)
      PROVE  OneInv'
  BY <1>3 DEF WritePidFile
<1>4. ASSUME NEW p \in Processes, InstallHandlers(p)
      PROVE  OneInv'
  BY <1>4 DEF InstallHandlers
<1>5. ASSUME NEW p \in Processes, Started(p)
      PROVE  OneInv'
  BY <1>5 DEF Started
<1>6. ASSUME NEW p \in Processes, PollSignal(p)
      PROVE  OneInv'
  <2>1. pc[p] = "serve" /\ timer[p] = 0 /\ timer' = [timer EXCEPT ![p] = 1]
        /\ UNCHANGED <<pidFile, signal, target>>
    BY <1>6 DEF PollSignal
  <2>2. CASE signal[p] = "none"
    BY <1>6, <2>1, <2>2 DEF PollSignal
  <2>3. CASE signal[p] # "none"
    <3>1. /\ pc' = [pc EXCEPT ![p] = "leave"] /\ guard' = [guard EXCEPT ![p] = 5]
          /\ restart_requested' = [restart_requested EXCEPT ![p] = signal[p] = "HUP"]
      BY <1>6, <2>3 DEF PollSignal
    <3>2. restart_requested' \in [Processes -> BOOLEAN]
      BY <3>1
    <3>3. signal[p] = "TERM" => ~restart_requested'[p]
      <4>1. restart_requested'[p] = (signal[p] = "HUP")
        BY <3>1, Zenon
      <4> QED
        BY <4>1
    <3>4. \A q \in Processes \ {p} : restart_requested'[q] = restart_requested[q]
      BY <3>1
    <3>5. GTypeInv'
      BY <2>1, <3>1, <3>2
    <3>6. CheckInv'
      BY <2>1, <3>1
    <3>7. WaitInv'
      BY <2>1, <3>1, <3>3, <3>4
    <3> QED
      BY <2>1, <3>1, <3>5, <3>6, <3>7
  <2> QED
    BY <2>2, <2>3
<1>7. ASSUME NEW p \in Processes, LeaveLoop(p)
      PROVE  OneInv'
  BY <1>7 DEF LeaveLoop
<1>8. ASSUME NEW p \in Processes, Stopped(p)
      PROVE  OneInv'
  BY <1>8 DEF Stopped
<1>9. ASSUME NEW p \in Processes, ExitOrRestart(p)
      PROVE  OneInv'
  BY <1>9 DEF ExitOrRestart, Execv
<1>10. ASSUME NEW p \in Processes, GuardFires(p)
      PROVE  OneInv'
  BY <1>10 DEF GuardFires
<1>11. ASSUME NEW p \in Processes, GiveUpWaiting(p)
      PROVE  OneInv'
  BY <1>11 DEF GiveUpWaiting, Execv, Running
<1>12. ASSUME NEW p \in Processes, StartGateway(p)
      PROVE  OneInv'
  BY <1>12 DEF StartGateway, MayCommand, Settled
<1>13. ASSUME NEW p \in Processes, RestartGateway(p)
      PROVE  OneInv'
  BY <1>13 DEF RestartGateway, MayCommand, Settled, Running
<1>14. ASSUME NEW p \in Processes, Interrupt(p)
      PROVE  OneInv'
  BY <1>14 DEF Interrupt, Running, Deliver
<1>15. ASSUME NEW p \in Processes, Kill(p)
      PROVE  OneInv'
  BY <1>15 DEF Kill
<1>16. ASSUME HupGateway PROVE OneInv'
  BY <1>16 DEF HupGateway, MayCommand, Settled, Running, Deliver
<1>17. ASSUME Tick PROVE OneInv'
  BY <1>17 DEF Tick, MaySleep, Timed, Countdown
<1>18. ASSUME UNCHANGED gvars PROVE OneInv'
  BY <1>18 DEF gvars
<1> QED
  BY <1>1, <1>2, <1>3, <1>4, <1>5, <1>6, <1>7, <1>8, <1>9, <1>10, <1>11, <1>12, <1>13, <1>14, <1>15, <1>16, <1>17, <1>18 DEF GNext, GatewayStep, Operate

\* When the commands wait for each other, at most one process is past its check of the
\* pid file, and while one serves the pid file names it: for any number of processes
\* and any times of their components, with interrupts and kills at any moment.  The
\* eight seconds of a restart outlast the second of the loop and the five of the guard
\* (RunGateway, RestartGateway, WaitForExit).
THEOREM OneServes == ASSUME Patient PROVE GSpec => []OneGateway
<1>1. OneInv => OneGateway
  BY DEF OneInv, OneGateway, Lead, Handling
<1> QED
  BY <1>1, OneInit, OneStep, PTL DEF GSpec

----------------------------------------------------------------------------
(* DailySummary *)

Dates == [date : Nat, status : {"none", "skipped", "uploaded", "failed"}]

DTypeInv ==
  /\ jobs \in [LocalAgents -> Nat] /\ due \in [LocalAgents -> Nat]
  /\ job_ids \subseteq LocalAgents
  /\ phase \in {"down", "off", "running", "stopped"}
  /\ records \in [LocalAgents -> Dates] /\ saved \in [LocalAgents -> Dates]
  /\ today \in Nat /\ struck \in BOOLEAN /\ notes \subseteq LocalAgents
  /\ thread \in [agent : LocalAgents \cup {"none"}, result : {"none", "uploaded", "failed"}]
  /\ thread.result # "none" => thread.agent \in LocalAgents
  /\ confirmed \in [LocalAgents -> Nat]

\* The cron thread has the agent's notes in hand, with this result.
Uploading(a, result) == thread # Idle /\ thread.agent = a /\ thread.result = result

\* An upload that was confirmed is known to the cron thread, or recorded, or no job of
\* the agent will run today any more: a crash has taken what was due.
ConfirmedInv(a) ==
  /\ confirmed[a] <= 1
  /\ confirmed[a] = 1 => /\ a \in notes /\ struck
                         /\ ~Uploading(a, "none") /\ ~Uploading(a, "failed")
                         /\ \/ Uploading(a, "uploaded")
                            \/ due[a] = 0
                            \/ AlreadyUploaded(a)

SummaryInv ==
  /\ DTypeInv
  /\ phase = "down" => job_ids = {}
  /\ \A a \in LocalAgents : ConfirmedInv(a)
  /\ thread # Idle => thread.agent \in notes
  /\ ~struck => thread = Idle /\ \A a \in LocalAgents : due[a] = 0
  /\ JobsAsConfigured

LEMMA TimesIsNat == ASSUME NEW e PROVE Times(ManagedLocalAgents, e) \in Nat
<1>1. DOMAIN ManagedLocalAgents = 1 .. Len(ManagedLocalAgents) /\ Len(ManagedLocalAgents) \in Nat
  BY SummaryAssumption
<1>2. IsFiniteSet(1 .. Len(ManagedLocalAgents))
  BY <1>1, FS_Interval
<1>3. {k \in DOMAIN ManagedLocalAgents : ManagedLocalAgents[k] = e} \subseteq 1 .. Len(ManagedLocalAgents)
  BY <1>1
<1> QED
  BY <1>2, <1>3, FS_Subset, FS_CardinalityType DEF Times

LEMMA SummaryInit == DInit => SummaryInv
<1> SUFFICES ASSUME DInit PROVE SummaryInv
  OBVIOUS
<1>1. DTypeInv
  BY DEF DInit, DTypeInv, Dates, NoRecord, Idle
<1>2. \A a \in LocalAgents : ConfirmedInv(a)
  BY DEF DInit, ConfirmedInv
<1> QED
  BY <1>1, <1>2 DEF DInit, SummaryInv, JobsAsConfigured

LEMMA SummaryStep == SummaryInv /\ [DNext]_dvars => SummaryInv'
<1> SUFFICES ASSUME SummaryInv, [DNext]_dvars PROVE SummaryInv'
  OBVIOUS
<1> USE DEF SummaryInv, DTypeInv, ConfirmedInv, Uploading, AlreadyUploaded, Dates, Idle,
            JobsAsConfigured
<1>1. CASE StartRuntime
  <2>1. jobs' = [a \in LocalAgents |-> Times(ManagedLocalAgents, a)]
    <3>1. \A a \in LocalAgents : RemoveDailySummaryJobs(jobs)[a] = 0
      BY <1>1 DEF StartRuntime, RemoveDailySummaryJobs
    <3>2. \A a \in LocalAgents : 0 + Times(ManagedLocalAgents, a) = Times(ManagedLocalAgents, a)
      BY TimesIsNat
    <3> QED
      BY <1>1, <3>1, <3>2 DEF StartRuntime, EnsureDailySummaryJobs
  <2>2. jobs' \in [LocalAgents -> Nat]
    BY <2>1, TimesIsNat
  <2> QED
    BY <1>1, <2>1, <2>2 DEF StartRuntime, EnsureDailySummaryJobs
<1>2. CASE StartWithoutTasks
  BY <1>2 DEF StartWithoutTasks
<1>3. CASE StopRuntime
  BY <1>3 DEF StopRuntime, RemoveDailySummaryJobs
<1>4. CASE ProcessEnds \/ Crash
  <2>1. ProcessGone
    BY <1>4 DEF ProcessEnds, Crash
  <2> QED
    BY <2>1 DEF ProcessGone, NoRecord
<1>5. CASE HourStrikes
  BY <1>5 DEF HourStrikes
<1>6. CASE NextDay
  <2>1. DTypeInv'
    <3>1. /\ confirmed' = [a \in LocalAgents |-> 0] /\ today' = today + 1
          /\ struck' = FALSE /\ notes' = {}
          /\ UNCHANGED <<jobs, due, job_ids, phase, records, saved, thread>>
      BY <1>6 DEF NextDay
    <3>2. struck' \in BOOLEAN
      <4>1. struck' = FALSE
        BY <3>1
      <4> QED
        BY <4>1, Zenon
    <3>a. today' \in Nat /\ confirmed' \in [LocalAgents -> Nat]
      BY <3>1
    <3>3. DTypeInv
      OBVIOUS
    <3> HIDE DEF SummaryInv
    <3> QED
      BY <3>1, <3>2, <3>3, <3>a
  <2>2. (\A a \in LocalAgents : ConfirmedInv(a))'
    <3>a. confirmed' = [a \in LocalAgents |-> 0]
      BY <1>6 DEF NextDay
    <3>1. \A a \in LocalAgents : confirmed'[a] = 0
      BY <3>a
    <3> QED
      BY <3>1
  <2> QED
    BY <1>6, <2>1, <2>2 DEF NextDay
<1>7. CASE UploadDailySummary
  <2>1. PICK result \in {"uploaded", "failed"} :
          /\ thread' = [thread EXCEPT !.result = result]
          /\ confirmed' = IF result = "uploaded"
                          THEN [confirmed EXCEPT ![thread.agent] = @ + 1] ELSE confirmed
    BY <1>7 DEF UploadDailySummary
  <2>2. /\ thread # Idle /\ thread.result = "none"
        /\ UNCHANGED <<jobs, due, job_ids, phase, records, saved, today, struck, notes>>
    BY <1>7 DEF UploadDailySummary
  <2>3. thread.agent \in LocalAgents
    BY <2>2
  <2>4. thread'.agent = thread.agent /\ thread'.result = result /\ thread' # Idle
    BY <2>1
  <2>5. DTypeInv'
    BY <2>1, <2>2, <2>3
  <2>6. (\A a \in LocalAgents : ConfirmedInv(a))'
    <3>1. SUFFICES ASSUME NEW a \in LocalAgents PROVE ConfirmedInv(a)'
      OBVIOUS
    <3>2. CASE a = thread.agent
      <4>a. confirmed[a] \in Nat /\ ConfirmedInv(a) /\ Uploading(a, "none")
        BY <2>2, <3>2
      <4>b. ~(confirmed[a] = 1) /\ confirmed[a] <= 1
        <5> HIDE DEF Uploading
        <5> QED
          BY <4>a DEF ConfirmedInv
      <4>c. confirmed[a] \in Nat
        BY <4>a
      <4>1. confirmed[a] = 0
        <5> HIDE DEF SummaryInv
        <5> QED
          BY <4>b, <4>c
      <4>2. confirmed'[a] = IF result = "uploaded" THEN 1 ELSE 0
        BY <2>1, <3>2, <4>1
      <4>3. a \in notes /\ struck
        BY <2>2, <2>3, <3>2
      <4> QED
        BY <2>2, <2>4, <3>2, <4>2, <4>3
    <3>3. CASE a # thread.agent
      <4>1. confirmed'[a] = confirmed[a]
        BY <2>1, <3>3
      <4> QED
        BY <2>2, <2>4, <3>3, <4>1
    <3> QED
      BY <3>2, <3>3
  <2>7. thread'.agent \in notes' /\ struck'
    BY <2>2, <2>4
  <2> HIDE DEF DTypeInv, ConfirmedInv
  <2> QED
    BY <2>2, <2>5, <2>6, <2>7
<1>8. CASE RecordUpload
  BY <1>8 DEF RecordUpload, Remember
<1>9. ASSUME NEW a \in LocalAgents, HandleCron(a) \/ TakeNotes(a)
      PROVE  SummaryInv'
  <2>1. CASE DeclineCron(a)
    BY <2>1 DEF DeclineCron, Fired
  <2>2. CASE NothingToUpload(a)
    BY <2>2 DEF NothingToUpload, Fired, Remember
  <2>3. CASE SkipUploaded(a)
    BY <2>3 DEF SkipUploaded, Fired
  <2>4. CASE BeginUpload(a)
    BY <2>4 DEF BeginUpload, Fired
  <2>5. CASE TakeNotes(a)
    BY <2>5 DEF TakeNotes
  <2> QED
    BY <1>9, <2>1, <2>2, <2>3, <2>4, <2>5 DEF HandleCron
<1>10. CASE UNCHANGED dvars
  BY <1>10 DEF dvars
<1> QED
  BY <1>1, <1>2, <1>3, <1>4, <1>5, <1>6, <1>7, <1>8, <1>9, <1>10 DEF DNext

LEMMA SummaryInvariant == DSpec => []SummaryInv
BY SummaryInit, SummaryStep, PTL DEF DSpec

\* The server confirms one upload of an agent's notes a day at most, for any agents
\* and jobs, however the process crashes between the upload and its record and starts
\* again, with or without the task system (UploadDailySummary, SaveState).
THEOREM NotesUploadedOnce == DSpec => []UploadedOnce
<1>1. SummaryInv => UploadedOnce
  BY DEF SummaryInv, ConfirmedInv, UploadedOnce
<1> QED
  BY <1>1, SummaryInvariant, PTL

\* While the task runtime runs, the job file has the jobs of its configuration and no
\* more, whatever runs of the process have left in it (EnsureDailySummaryJobs,
\* RemoveDailySummaryJobs).
THEOREM JobsAreAsConfigured == DSpec => []JobsAsConfigured
<1>1. SummaryInv => JobsAsConfigured
  BY DEF SummaryInv
<1> QED
  BY <1>1, SummaryInvariant, PTL

----------------------------------------------------------------------------
(* The thread pool.  A worker holds a task between the pop and the end of  *)
(* the task, and is counted between the two changes of the count; once a   *)
(* worker has left, the pool is stopped and the queue stays empty.         *)
HoldsInv ==
  \A w \in Workers : task[w] # None <=> worker[w] \in {"popped", "running"}

StopInv ==
  /\ stop <=> closer # "begin"
  /\ \A w \in Workers : worker[w] = "exited" => stop /\ tasks = <<>>
  /\ closer = "end" => \A w \in Workers : worker[w] = "exited"

Counted == {w \in Workers : worker[w] \in {"running", "ran"}}
CountInv == active_count = Cardinality(Counted)

Inv == TypeOK /\ HoldsInv /\ StopInv /\ CountInv /\ OnePlace

----------------------------------------------------------------------------
(* Helpers *)

\* What Append and Tail do to the elements of a queue.
LEMMA QueueFacts ==
  ASSUME NEW S, NEW q \in Seq(S)
  PROVE  /\ \A e \in S : /\ Append(q, e) \in Seq(S)
                         /\ Len(Append(q, e)) = Len(q) + 1
                         /\ Append(q, e)[Len(q) + 1] = e
                         /\ \A i \in 1 .. Len(q) : Append(q, e)[i] = q[i]
         /\ q # <<>> => /\ Len(q) > 0
                        /\ Head(q) \in S /\ Head(q) = q[1]
                        /\ Tail(q) \in Seq(S)
                        /\ Len(Tail(q)) = Len(q) - 1
                        /\ \A i \in 1 .. Len(Tail(q)) : Tail(q)[i] = q[i + 1]
  OBVIOUS

\* A notification wakes one sleeping worker or nobody.
LEMMA NotifiedWorker ==
  ASSUME TypeOK, NotifyOne(worker, worker')
  PROVE  \/ worker' = worker /\ \A w \in Workers : worker[w] # "asleep"
         \/ \E w \in Workers : /\ worker[w] = "asleep"
                               /\ worker' = [worker EXCEPT ![w] = "awake"]
<1>1. DOMAIN worker = Workers
  BY DEF TypeOK
<1> QED
  BY <1>1 DEF NotifyOne

\* The same for those who wait for the pool to be empty.
LEMMA NotifiedWaiter ==
  ASSUME TypeOK, NotifyOne(waiter, waiter')
  PROVE  waiter' \in [Waiters -> {"begin", "awake", "asleep", "true", "false"}]
<1>1. DOMAIN waiter = Waiters
  BY DEF TypeOK
<1> QED
  BY <1>1 DEF NotifyOne, TypeOK

\* A set that one element joins, ...
LEMMA CountOneMore ==
  ASSUME NEW S \in SUBSET Workers, NEW w \in Workers, w \notin S
  PROVE  /\ Cardinality(S \cup {w}) = Cardinality(S) + 1
         /\ Cardinality(S) \in Nat
<1>1. IsFiniteSet(S)
  BY PoolAssumption, FS_Subset
<1> QED
  BY <1>1, FS_AddElement, FS_CardinalityType

\* ... or leaves.
LEMMA CountOneLess ==
  ASSUME NEW S \in SUBSET Workers, NEW w \in S
  PROVE  /\ Cardinality(S \ {w}) = Cardinality(S) - 1
         /\ Cardinality(S) \in Nat \ {0}
<1>1. IsFiniteSet(S)
  BY PoolAssumption, FS_Subset
<1>2. Cardinality(S \ {w}) = Cardinality(S) - 1
  BY <1>1, FS_RemoveElement
<1>3. Cardinality(S) \in Nat /\ Cardinality(S \ {w}) \in Nat
  BY <1>1, FS_CardinalityType, FS_Subset
<1> QED
  BY <1>2, <1>3

----------------------------------------------------------------------------
(* The count *)

\* active_count_ is the number of workers between the two changes.
LEMMA CountStep ==
  ASSUME Inv, [Next]_vars
  PROVE  CountInv' /\ active_count' \in Nat
<1> USE DEF Inv, TypeOK, CountInv, Counted
<1>0. Counted \in SUBSET Workers /\ active_count \in Nat
  OBVIOUS
<1>1. CASE active_count' = active_count /\ Counted' = Counted
  BY <1>1
<1>2. ASSUME NEW t \in Tasks, Push(t) PROVE active_count' = active_count /\ Counted' = Counted
  BY <1>2 DEF Push
<1>3. ASSUME NEW t \in Tasks, NotifyWorker(t)
      PROVE active_count' = active_count /\ Counted' = Counted
  BY <1>3, NotifiedWorker DEF NotifyWorker
<1>4. ASSUME NEW w \in Workers, Sleep(w) \/ Exit(w) \/ Pop(w) \/ WakesUnasked(w) \/ Run(w)
      PROVE active_count' = active_count /\ Counted' = Counted
  BY <1>4 DEF Sleep, Exit, Pop, WakesUnasked, Run
<1>5. ASSUME NEW w \in Workers, NotifyWaiter(w)
      PROVE active_count' = active_count /\ Counted' = Counted
  BY <1>5 DEF NotifyWaiter
<1>6. ASSUME NEW w \in Workers, CountUp(w) PROVE CountInv' /\ active_count' \in Nat
  <2>1. w \notin Counted /\ Counted' = Counted \cup {w} /\ active_count' = active_count + 1
    BY <1>6 DEF CountUp
  <2> HIDE DEF Counted
  <2> QED
    BY <1>0, <2>1, CountOneMore
<1>7. ASSUME NEW w \in Workers, CountDown(w) PROVE CountInv' /\ active_count' \in Nat
  <2>1. w \in Counted /\ Counted' = Counted \ {w} /\ active_count' = active_count - 1
    BY <1>7 DEF CountDown
  <2>2. active_count = Cardinality(Counted)
    OBVIOUS
  <2> HIDE DEF Inv, TypeOK, Counted
  <2>3. Cardinality(Counted \ {w}) = Cardinality(Counted) - 1 /\ Cardinality(Counted) \in Nat \ {0}
    BY <1>0, <2>1, CountOneLess
  <2> QED
    BY <2>1, <2>2, <2>3
<1>8. ASSUME SetStop \/ Joined PROVE active_count' = active_count /\ Counted' = Counted
  BY <1>8 DEF SetStop, Joined
<1>9. ASSUME NotifyAll PROVE active_count' = active_count /\ Counted' = Counted
  BY <1>9 DEF NotifyAll
<1>10. ASSUME NEW x \in Waiters, WaitBegins(x) \/ WaitEvaluates(x) \/ WaitTimesOut(x)
       PROVE active_count' = active_count /\ Counted' = Counted
  BY <1>10 DEF WaitBegins, WaitEvaluates, WaitTimesOut
<1>11. ASSUME UNCHANGED vars PROVE active_count' = active_count /\ Counted' = Counted
  BY <1>11 DEF vars
<1> HIDE DEF Inv, TypeOK, CountInv, Counted
<1> QED
  BY <1>0, <1>1, <1>2, <1>3, <1>4, <1>5, <1>6, <1>7, <1>8, <1>9, <1>10, <1>11
  DEF Next, WorkerNext

----------------------------------------------------------------------------
(* Types, and what a worker holds *)

\* Each step keeps the types, what a worker holds, and the order of the stop.
LEMMA TypeStep ==
  ASSUME Inv, [Next]_vars
  PROVE  TypeOK' /\ HoldsInv' /\ StopInv'
<1>0. active_count' \in Nat
  BY CountStep
<1> USE <1>0, PoolAssumption DEF Inv, TypeOK, HoldsInv, StopInv, WorkerPc
<1>1. ASSUME NEW t \in Tasks, Push(t) PROVE TypeOK' /\ HoldsInv' /\ StopInv'
  <2>1. Append(tasks, t) \in Seq(Tasks)
    BY QueueFacts
  <2>2. CASE stop
    BY <1>1, <2>2 DEF Push
  <2>3. CASE ~stop
    BY <1>1, <2>1, <2>3 DEF Push
  <2> QED
    BY <2>2, <2>3
<1>2. ASSUME NEW t \in Tasks, NotifyWorker(t) PROVE TypeOK' /\ HoldsInv' /\ StopInv'
  BY <1>2, NotifiedWorker DEF NotifyWorker
<1>3. ASSUME NEW w \in Workers, Sleep(w) \/ Exit(w) \/ WakesUnasked(w)
      PROVE TypeOK' /\ HoldsInv' /\ StopInv'
  BY <1>3 DEF Sleep, Exit, WakesUnasked
<1>4. ASSUME NEW w \in Workers, Pop(w) PROVE TypeOK' /\ HoldsInv' /\ StopInv'
  <2>1. Head(tasks) \in Tasks /\ Tail(tasks) \in Seq(Tasks) /\ tasks # <<>>
    BY <1>4, QueueFacts DEF Pop
  <2> QED
    BY <1>4, <2>1 DEF Pop
<1>5. ASSUME NEW w \in Workers, CountUp(w) \/ CountDown(w) PROVE TypeOK' /\ HoldsInv' /\ StopInv'
  BY <1>5 DEF CountUp, CountDown
<1>6. ASSUME NEW w \in Workers, Run(w) PROVE TypeOK' /\ HoldsInv' /\ StopInv'
  <2>1. task[w] \in Tasks
    BY <1>6 DEF Run
  <2> QED
    BY <1>6, <2>1 DEF Run
<1>7. ASSUME NEW w \in Workers, NotifyWaiter(w) PROVE TypeOK' /\ HoldsInv' /\ StopInv'
  BY <1>7, NotifiedWaiter DEF NotifyWaiter
<1>8. ASSUME SetStop \/ Joined PROVE TypeOK' /\ HoldsInv' /\ StopInv'
  BY <1>8 DEF SetStop, Joined
<1>9. ASSUME NotifyAll PROVE TypeOK' /\ HoldsInv' /\ StopInv'
  BY <1>9 DEF NotifyAll
<1>10. ASSUME NEW x \in Waiters, WaitBegins(x) \/ WaitEvaluates(x) \/ WaitTimesOut(x)
       PROVE TypeOK' /\ HoldsInv' /\ StopInv'
  BY <1>10 DEF WaitBegins, WaitEvaluates, WaitTimesOut
<1>11. ASSUME UNCHANGED vars PROVE TypeOK' /\ HoldsInv' /\ StopInv'
  BY <1>11 DEF vars
<1> HIDE DEF Inv, TypeOK, HoldsInv, StopInv
<1> QED
  BY <1>1, <1>2, <1>3, <1>4, <1>5, <1>6, <1>7, <1>8, <1>9, <1>10, <1>11
  DEF Next, WorkerNext

----------------------------------------------------------------------------
(* One place for every accepted task *)

\* Submit appends a task that was nowhere.
LEMMA PushKeepsPlaces ==
  ASSUME Inv, NEW t \in Tasks, Push(t)
  PROVE  OnePlace'
<1> USE DEF Inv, TypeOK
<1>1. CASE stop
  <2>1. Accepted' = Accepted /\ tasks' = tasks /\ task' = task /\ ran' = ran
    BY <1>1 DEF Push, Accepted
  <2>2. OnePlace
    OBVIOUS
  <2> HIDE DEF Inv, TypeOK
  <2> QED
    BY <2>1, <2>2 DEF OnePlace, Queued, Held
<1>2. CASE ~stop
  <2>1. /\ Accepted' = Accepted \cup {t}
        /\ task' = task /\ ran' = ran /\ tasks' = Append(tasks, t)
    BY <1>2 DEF Push, Accepted
  <2>2. t \notin Queued \cup Held \cup ran
    BY DEF Push, Accepted, OnePlace
  <2>3. /\ Len(tasks') = Len(tasks) + 1 /\ tasks'[Len(tasks) + 1] = t
        /\ \A i \in 1 .. Len(tasks) : tasks'[i] = tasks[i]
        /\ Len(tasks) \in Nat
    BY <2>1, QueueFacts
  <2>4. Queued' = Queued \cup {t}
    BY <2>3 DEF Queued
  <2>5. Held' = Held
    BY <2>1 DEF Held
  <2>6. \A i, j \in 1 .. Len(tasks') : tasks'[i] = tasks'[j] => i = j
    BY <2>2, <2>3 DEF OnePlace, Queued
  <2> HIDE DEF TypeOK
  <2>7. /\ Accepted' = Queued' \cup Held' \cup ran'
        /\ Queued' \cap Held' = {} /\ Queued' \cap ran' = {} /\ Held' \cap ran' = {}
    BY <2>1, <2>2, <2>4, <2>5 DEF OnePlace
  <2> QED
    BY <2>1, <2>6, <2>7 DEF OnePlace
<1> QED
  BY <1>1, <1>2

\* A worker takes the first task of the queue out of it.
LEMMA PopKeepsPlaces ==
  ASSUME Inv, NEW w \in Workers, Pop(w)
  PROVE  OnePlace'
<1> DEFINE h == Head(tasks)
<1>1. /\ Len(tasks) > 0 /\ Len(tasks) \in Nat
      /\ h \in Tasks /\ h = tasks[1]
      /\ Len(tasks') = Len(tasks) - 1
      /\ \A i \in 1 .. Len(tasks') : tasks'[i] = tasks[i + 1]
  BY QueueFacts DEF Inv, TypeOK, Pop
<1>2. /\ Accepted' = Accepted /\ ran' = ran
      /\ task' = [task EXCEPT ![w] = h] /\ task[w] = None /\ h # None
      /\ task \in [Workers -> Tasks \cup {None}]
  BY <1>1, PoolAssumption DEF Inv, TypeOK, HoldsInv, Pop, Accepted
<1> HIDE DEF h
<1>3. h \in Queued /\ h \notin Held /\ h \notin ran
  BY <1>1 DEF Inv, OnePlace, Queued
<1>4. Queued' = Queued \ {h}
  <2>1. \A e \in Queued' : e \in Queued /\ e # h
    <3> SUFFICES ASSUME NEW i \in 1 .. Len(tasks') PROVE tasks'[i] \in Queued /\ tasks'[i] # h
      BY DEF Queued
    <3>1. i + 1 \in 1 .. Len(tasks) /\ 1 \in 1 .. Len(tasks) /\ i + 1 # 1 /\ tasks'[i] = tasks[i + 1]
      BY <1>1
    <3> QED
      BY <1>1, <3>1 DEF Queued, Inv, OnePlace
  <2>2. \A e \in Queued : e = h \/ e \in Queued'
    <3> SUFFICES ASSUME NEW i \in 1 .. Len(tasks), tasks[i] # h PROVE tasks[i] \in Queued'
      BY DEF Queued
    <3>1. i - 1 \in 1 .. Len(tasks') /\ (i - 1) + 1 = i
      BY <1>1
    <3>2. tasks'[i - 1] = tasks[i]
      BY <1>1, <3>1
    <3> QED
      BY <3>1, <3>2 DEF Queued
  <2> QED
    BY <2>1, <2>2
<1>5. Held' = Held \cup {h}
  BY <1>2 DEF Held
<1>6. \A i, j \in 1 .. Len(tasks') : tasks'[i] = tasks'[j] => i = j
  <2> SUFFICES ASSUME NEW i \in 1 .. Len(tasks'), NEW j \in 1 .. Len(tasks'),
                      tasks'[i] = tasks'[j]
               PROVE  i = j
    OBVIOUS
  <2>1. i + 1 \in 1 .. Len(tasks) /\ j + 1 \in 1 .. Len(tasks) /\ tasks[i + 1] = tasks[j + 1]
    BY <1>1
  <2>2. i + 1 = j + 1
    BY <2>1 DEF Inv, OnePlace
  <2> QED
    BY <2>2
<1>7. \A u, v \in Workers : task'[u] = task'[v] /\ task'[u] # None => u = v
  BY <1>2, <1>3 DEF Inv, OnePlace, Held
<1>8. /\ Accepted' = Queued' \cup Held' \cup ran'
      /\ Queued' \cap Held' = {} /\ Queued' \cap ran' = {} /\ Held' \cap ran' = {}
  BY <1>2, <1>3, <1>4, <1>5 DEF Inv, OnePlace
<1> QED
  BY <1>6, <1>7, <1>8 DEF OnePlace

\* A worker executes the task it holds.
LEMMA RunKeepsPlaces ==
  ASSUME Inv, NEW w \in Workers, Run(w)
  PROVE  OnePlace'
<1> DEFINE t == task[w]
<1>1. /\ t \in Tasks /\ t # None
      /\ Accepted' = Accepted /\ tasks' = tasks /\ ran' = ran \cup {t}
      /\ task' = [task EXCEPT ![w] = None]
      /\ task \in [Workers -> Tasks \cup {None}]
  BY PoolAssumption DEF Inv, TypeOK, HoldsInv, Run, Accepted
<1>2. t \in Held /\ t \notin Queued /\ t \notin ran
  BY <1>1 DEF Inv, OnePlace, Held
<1>3. \A u \in Workers : task[u] = t => u = w
  BY <1>1 DEF Inv, OnePlace
<1>4. \A u \in Workers : task'[u] = IF u = w THEN None ELSE task[u]
  BY <1>1
<1> HIDE DEF t
<1>5. Held' = Held \ {t}
  <2>1. t = task[w]
    BY DEF t
  <2> QED
    BY <1>1, <1>3, <1>4, <2>1 DEF Held
<1>6. Queued' = Queued
  BY <1>1 DEF Queued
<1>7. \A u, v \in Workers : task'[u] = task'[v] /\ task'[u] # None => u = v
  BY <1>4 DEF Inv, OnePlace
<1>8. \A i, j \in 1 .. Len(tasks') : tasks'[i] = tasks'[j] => i = j
  BY <1>1 DEF Inv, OnePlace
<1>9. /\ Accepted' = Queued' \cup Held' \cup ran'
      /\ Queued' \cap Held' = {} /\ Queued' \cap ran' = {} /\ Held' \cap ran' = {}
  BY <1>1, <1>2, <1>5, <1>6 DEF Inv, OnePlace
<1> QED
  BY <1>7, <1>8, <1>9 DEF OnePlace

\* Each step keeps every accepted task in its one place.
LEMMA PlacesStep ==
  ASSUME Inv, [Next]_vars
  PROVE  OnePlace'
<1>1. CASE tasks' = tasks /\ task' = task /\ ran' = ran /\ Accepted' = Accepted
  BY <1>1 DEF Inv, OnePlace, Queued, Held
<1>2. ASSUME NEW t \in Tasks, NotifyWorker(t) PROVE OnePlace'
  BY <1>1, <1>2 DEF NotifyWorker, Accepted, Inv, TypeOK
<1>3. ASSUME NEW w \in Workers,
             Sleep(w) \/ Exit(w) \/ WakesUnasked(w) \/ CountUp(w) \/ CountDown(w) \/ NotifyWaiter(w)
      PROVE  OnePlace'
  BY <1>1, <1>3
  DEF Sleep, Exit, WakesUnasked, CountUp, CountDown, NotifyWaiter, Accepted
<1>4. ASSUME SetStop \/ NotifyAll \/ Joined PROVE OnePlace'
  BY <1>1, <1>4 DEF SetStop, NotifyAll, Joined, Accepted
<1>5. ASSUME NEW x \in Waiters, WaitBegins(x) \/ WaitEvaluates(x) \/ WaitTimesOut(x)
      PROVE  OnePlace'
  BY <1>1, <1>5 DEF WaitBegins, WaitEvaluates, WaitTimesOut, Accepted
<1>6. ASSUME UNCHANGED vars PROVE OnePlace'
  BY <1>1, <1>6 DEF vars, Accepted
<1> QED
  BY <1>2, <1>3, <1>4, <1>5, <1>6, PushKeepsPlaces, PopKeepsPlaces, RunKeepsPlaces
  DEF Next, WorkerNext

----------------------------------------------------------------------------
(* The invariant and what follows from it *)

\* The pool starts in the invariant.
LEMMA InitInv == Init => Inv
<1> SUFFICES ASSUME Init PROVE Inv
  OBVIOUS
<1>1. TypeOK
  <2>1. tasks \in Seq(Tasks) /\ ran \in SUBSET Tasks /\ active_count \in Nat
    BY DEF Init
  <2>2. worker \in [Workers -> WorkerPc] /\ task \in [Workers -> Tasks \cup {None}]
    BY DEF Init, WorkerPc
  <2>3. /\ submit \in [Tasks -> {"begin", "notify", "accepted", "refused"}]
        /\ waiter \in [Waiters -> {"begin", "awake", "asleep", "true", "false"}]
    BY DEF Init
  <2> QED
    BY <2>1, <2>2, <2>3 DEF Init, TypeOK
<1>2. HoldsInv /\ StopInv
  BY DEF Init, HoldsInv, StopInv
<1>3. Counted = {}
  BY DEF Init, Counted
<1>4. CountInv
  BY <1>3, FS_EmptySet DEF Init, CountInv
<1>5. Queued = {} /\ Held = {} /\ Accepted = {} /\ ran = {}
  BY DEF Init, Queued, Held, Accepted
<1>6. \A i, j \in 1 .. Len(tasks) : tasks[i] = tasks[j] => i = j
  BY DEF Init
<1>7. \A v, w \in Workers : task[v] = task[w] /\ task[v] # None => v = w
  BY DEF Init
<1> QED
  BY <1>1, <1>2, <1>4, <1>5, <1>6, <1>7 DEF Inv, OnePlace

\* Every reachable state is in the invariant.
LEMMA Invariant == Spec => []Inv
<1>1. Inv /\ [Next]_vars => Inv'
  BY CountStep, TypeStep, PlacesStep DEF Inv
<1> QED
  BY <1>1, InitInv, PTL DEF Spec

\* Every variable keeps its type. The count of active tasks, unsigned in the
\* code, is never taken below zero.
THEOREM CountNeverWraps == Spec => []TypeOK
<1>1. Inv => TypeOK
  BY DEF Inv
<1> QED
  BY <1>1, Invariant, PTL

\* An accepted task is in exactly one place: in the queue once, with one
\* worker, or executed (ThreadPool: Submit and WorkerLoop), whatever the
\* number of workers and of threads that submit.
THEOREM NoneLostNoneTwice == Spec => []OnePlace
<1>1. Inv => OnePlace
  BY DEF Inv
<1> QED
  BY <1>1, Invariant, PTL

\* When Shutdown has joined the workers, every task that was ever accepted
\* has been executed and none is counted as active, so that TaskRuntime::Stop's
\* WaitForEmpty returns at once. A pool without a worker would not do this.
THEOREM DrainedWhenStopped == Spec => []ShutdownDrains
<1>1. Inv => ShutdownDrains
  <2> SUFFICES ASSUME Inv, closer = "end"
               PROVE  Accepted = ran /\ active_count = 0
    BY DEF ShutdownDrains
  <2>1. \A w \in Workers : worker[w] = "exited" /\ tasks = <<>> /\ task[w] = None
    BY DEF Inv, StopInv, HoldsInv
  <2>2. tasks = <<>>
    BY <2>1, PoolAssumption
  <2>3. Queued = {} /\ Held = {}
    BY <2>1, <2>2 DEF Queued, Held
  <2>4. Counted = {}
    BY <2>1 DEF Counted
  <2>5. active_count = 0
    BY <2>4, FS_EmptySet DEF Inv, CountInv
  <2> QED
    BY <2>3, <2>5 DEF Inv, OnePlace
<1> QED
  BY <1>1, Invariant, PTL

----------------------------------------------------------------------------
(* Wakeups *)

AwakeOnes == {w \in Workers : worker[w] = "awake"}
NotifyComes == {t \in Tasks : submit[t] = "notify"}

\* The two sets that are counted are finite.
LEMMA BothFinite ==
  /\ IsFiniteSet(AwakeOnes) /\ IsFiniteSet(NotifyComes)
  /\ Cardinality(AwakeOnes) \in Nat /\ Cardinality(NotifyComes) \in Nat
<1>1. AwakeOnes \in SUBSET Workers /\ NotifyComes \in SUBSET Tasks
  BY DEF AwakeOnes, NotifyComes
<1>2. IsFiniteSet(AwakeOnes) /\ IsFiniteSet(NotifyComes)
  BY <1>1, PoolAssumption, FS_Subset
<1> QED
  BY <1>2, FS_CardinalityType

\* No step leaves more tasks in the queue than workers on their way to it and
\* notifications to come, while a worker sleeps.
LEMMA WakeupStep ==
  ASSUME Inv, NoLostWakeup, [Next]_vars
  PROVE  NoLostWakeup'
<1> DEFINE Asleep == \E w \in Workers : worker[w] = "asleep"
           A == Cardinality(AwakeOnes)
           N == Cardinality(NotifyComes)
<1>0. /\ Asleep => Len(tasks) <= A + N
      /\ A \in Nat /\ N \in Nat /\ Len(tasks) \in Nat
      /\ worker \in [Workers -> WorkerPc]
      /\ submit \in [Tasks -> {"begin", "notify", "accepted", "refused"}]
      /\ IsFiniteSet(AwakeOnes) /\ IsFiniteSet(NotifyComes)
  BY BothFinite DEF NoLostWakeup, AwakeOnes, NotifyComes, Inv, TypeOK
<1>1. (IsFiniteSet(AwakeOnes) /\ IsFiniteSet(NotifyComes) /\ A \in Nat /\ N \in Nat)'
  BY BothFinite, PTL
<1>2. (Asleep' => Len(tasks') <= A' + N') => NoLostWakeup'
  BY DEF NoLostWakeup, AwakeOnes, NotifyComes
<1> HIDE DEF A, N, Asleep
<1>3. CASE tasks' = tasks /\ worker' = worker /\ submit' = submit
  <2>1. A' = A /\ N' = N /\ (Asleep' <=> Asleep)
    BY <1>3 DEF A, N, Asleep, AwakeOnes, NotifyComes
  <2> QED
    BY <1>0, <1>2, <1>3, <2>1
<1>4. CASE ~Asleep' \/ tasks' = <<>>
  BY <1>1, <1>2, <1>4
<1>5. ASSUME NEW t \in Tasks, Push(t) PROVE NoLostWakeup'
  <2>1. CASE stop
    <3>1. tasks' = tasks /\ worker' = worker /\ NotifyComes' = NotifyComes
      BY <1>0, <1>5, <2>1 DEF Push, NotifyComes
    <3>2. A' = A /\ N' = N /\ (Asleep' <=> Asleep)
      BY <3>1 DEF A, N, Asleep, AwakeOnes
    <3> QED
      BY <1>0, <1>2, <3>1, <3>2
  <2>2. CASE ~stop
    <3>1. /\ NotifyComes' = NotifyComes \cup {t} /\ t \notin NotifyComes
          /\ tasks' = Append(tasks, t) /\ worker' = worker
      BY <1>0, <1>5, <2>2 DEF Push, NotifyComes
    <3>2. N' = N + 1
      BY <1>0, <3>1, FS_AddElement DEF N
    <3>3. Len(tasks') = Len(tasks) + 1
      BY <3>1, QueueFacts DEF Inv, TypeOK
    <3>4. A' = A /\ (Asleep' <=> Asleep)
      BY <3>1 DEF A, Asleep, AwakeOnes
    <3> QED
      BY <1>0, <1>2, <3>2, <3>3, <3>4
  <2> QED
    BY <2>1, <2>2
<1>6. ASSUME NEW w \in Workers, WakesUnasked(w) \/ NotifyWaiter(w) PROVE NoLostWakeup'
  <2>1. /\ AwakeOnes' = AwakeOnes \cup {w} /\ w \notin AwakeOnes
        /\ tasks' = tasks /\ submit' = submit /\ (Asleep' => Asleep)
    BY <1>0, <1>6 DEF WakesUnasked, NotifyWaiter, AwakeOnes, Asleep
  <2>2. A' = A + 1
    BY <1>0, <2>1, FS_AddElement DEF A
  <2>3. N' = N
    BY <2>1 DEF N, NotifyComes
  <2> QED
    BY <1>0, <1>2, <2>1, <2>2, <2>3
<1>7. ASSUME NEW t \in Tasks, NotifyWorker(t) PROVE NoLostWakeup'
  <2>1. /\ NotifyComes' = NotifyComes \ {t} /\ t \in NotifyComes /\ tasks' = tasks
    BY <1>0, <1>7 DEF NotifyWorker, NotifyComes
  <2>2. N' = N - 1
    BY <1>0, <2>1, FS_RemoveElement DEF N
  <2>3. \/ worker' = worker /\ \A w \in Workers : worker[w] # "asleep"
        \/ \E w \in Workers : /\ worker[w] = "asleep"
                              /\ worker' = [worker EXCEPT ![w] = "awake"]
    BY <1>7, NotifiedWorker DEF NotifyWorker, Inv
  <2>4. CASE worker' = worker /\ \A w \in Workers : worker[w] # "asleep"
    BY <1>4, <2>4 DEF Asleep
  <2>5. ASSUME NEW w \in Workers, worker[w] = "asleep", worker' = [worker EXCEPT ![w] = "awake"]
        PROVE  NoLostWakeup'
    <3>1. AwakeOnes' = AwakeOnes \cup {w} /\ w \notin AwakeOnes /\ Asleep
      BY <1>0, <2>5 DEF AwakeOnes, Asleep
    <3>2. A' = A + 1
      BY <1>0, <3>1, FS_AddElement DEF A
    <3> QED
      BY <1>0, <1>2, <2>1, <2>2, <3>1, <3>2
  <2> QED
    BY <2>3, <2>4, <2>5
<1>8. ASSUME NEW w \in Workers, Sleep(w) \/ Exit(w) PROVE NoLostWakeup'
  BY <1>4, <1>8 DEF Sleep, Exit
<1>9. ASSUME NEW w \in Workers, Pop(w) PROVE NoLostWakeup'
  <2>1. /\ AwakeOnes' = AwakeOnes \ {w} /\ w \in AwakeOnes
        /\ tasks # <<>> /\ tasks' = Tail(tasks) /\ submit' = submit /\ (Asleep' => Asleep)
    BY <1>0, <1>9 DEF Pop, AwakeOnes, Asleep
  <2>2. A' = A - 1
    BY <1>0, <2>1, FS_RemoveElement DEF A
  <2>3. Len(tasks') = Len(tasks) - 1
    BY <2>1, QueueFacts DEF Inv, TypeOK
  <2>4. N' = N
    BY <2>1 DEF N, NotifyComes
  <2> QED
    BY <1>0, <1>2, <2>1, <2>2, <2>3, <2>4
<1>10. ASSUME NEW w \in Workers, CountUp(w) \/ Run(w) \/ CountDown(w) PROVE NoLostWakeup'
  <2>1. /\ AwakeOnes' = AwakeOnes /\ tasks' = tasks /\ submit' = submit
        /\ (Asleep' => Asleep)
    BY <1>0, <1>10 DEF CountUp, Run, CountDown, AwakeOnes, Asleep
  <2>2. A' = A /\ N' = N
    BY <2>1 DEF A, N, NotifyComes
  <2> QED
    BY <1>0, <1>2, <2>1, <2>2
<1>11. ASSUME NotifyAll PROVE NoLostWakeup'
  <2>1. ~Asleep'
    BY <1>0, <1>11 DEF NotifyAll, Asleep
  <2> QED
    BY <1>4, <2>1
<1>12. ASSUME SetStop \/ Joined PROVE NoLostWakeup'
  BY <1>3, <1>12 DEF SetStop, Joined
<1>13. ASSUME NEW x \in Waiters, WaitBegins(x) \/ WaitEvaluates(x) \/ WaitTimesOut(x)
       PROVE  NoLostWakeup'
  BY <1>3, <1>13 DEF WaitBegins, WaitEvaluates, WaitTimesOut
<1>14. ASSUME UNCHANGED vars PROVE NoLostWakeup'
  BY <1>3, <1>14 DEF vars
<1> QED
  BY <1>5, <1>6, <1>7, <1>8, <1>9, <1>10, <1>11, <1>12, <1>13, <1>14
  DEF Next, WorkerNext

\* While a worker sleeps, every queued task has a worker on its way to the
\* queue or a notification to come: Submit notifies after it has released the
\* mutex (ThreadPool: Submit), and no wakeup is lost by that.
THEOREM NoWakeupIsLost == Spec => []NoLostWakeup
<1>1. Init => NoLostWakeup
  BY DEF Init, NoLostWakeup
<1>2. Inv /\ NoLostWakeup /\ [Next]_vars => NoLostWakeup'
  BY WakeupStep
<1> QED
  BY <1>1, <1>2, Invariant, PTL DEF Spec

=============================================================================
