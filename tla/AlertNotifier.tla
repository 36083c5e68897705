---------------------------- MODULE AlertNotifier ---------------------------
(***************************************************************************)
(* alerts.Notifier: a breach or a recovery goes to every enabled channel   *)
(* of its rule, by a goroutine each that makes one attempt.  What a        *)
(* provider makes of a notice is an operator per provider; some services   *)
(* keep an alert open until a message with the same identity closes it.    *)
(* Texts are abstracted to what they name, and to their tone.              *)
(***************************************************************************)
EXTENDS Integers, FiniteSets

CONSTANTS
  NotifiedRules, NotifiedDevices,
  CriticalRules,   \* rules of severity critical; the others' is warning
  ChannelSettings, \* what a channel may be: its type and the keys its config has
  NoName,
  MaxNotices       \* bound: breaches, resends and recoveries in all

ASSUME NameAssumption == NoName \notin BOOLEAN
ASSUME NoticesAssumption == MaxNotices \in Nat

VARIABLES
  channel,     \* one channel of the rules, as it was set up; channels never meet
  active,      \* <<rule, device>> that breach, as the evaluator sees it
  renamed,     \* rules and devices that have got another name
  flying,      \* notices the goroutines of dispatch hold
  openAtService, \* ids of the alerts that are open at the service
  notices,     \* how many were sent
  (* history, read by properties only *)
  accident     \* something happened that may set the service apart

notifierVars == <<channel, active, renamed, flying, openAtService, notices, accident>>

-----------------------------------------------------------------------------
(* What the providers send to a channel c for a notice n.  verb: "tell"    *)
(* leaves nothing open, "open" and "close" act on the alert with that id.  *)
(* says: what the text names.                                              *)

Up(n) == n.severity = "resolved"
(* Mutant: only what is critical is down.                                  *)
ToneOfCritical(n) == IF n.severity = "critical" THEN "down" ELSE "up"

Tone(n) == IF Up(n) THEN "up" ELSE "down"

(* The title is the rule's; the message holds title, body and severity.    *)
Title(n) == <<n.rule, n.title>>
Everything == {"rule", "device"}
DisplayName(n) == IF n.name = NoName THEN Title(n) ELSE <<n.device, n.name>>
NameSays(n) == IF n.name = NoName THEN {"rule"} ELSE {"device"}

NoPayload == [verb |-> "none", id |-> NoName, tone |-> "plain", says |-> {}]
TellOnly(tone, says) == [verb |-> "tell", id |-> NoName, tone |-> tone, says |-> says]
Alarm(verb, id, tone, says) == [verb |-> verb, id |-> id, tone |-> tone, says |-> says]

(* cfgString takes the first of several names that holds a value; without  *)
(* one for each key that is required nothing is sent.                      *)
Needs(c, keys, payload) ==
  IF \A alternatives \in keys : alternatives \cap c.config # {} THEN payload ELSE NoPayload

Webhook(c, n) == Needs(c, {{"url", "webhook_url"}}, TellOnly("plain", Everything))
Email(c, n) ==
  Needs(c, {{"smtp_host", "host"}, {"from"}, {"to"}}, TellOnly("plain", Everything))
Telegram(c, n) ==
  Needs(c, {{"bot_token", "token"}, {"chat_id"}}, TellOnly("plain", Everything))
WhatsApp(c, n) ==
  Needs(c, {{"account_sid"}, {"auth_token"}, {"from"}, {"to"}}, TellOnly("plain", Everything))
Discord(c, n) == Needs(c, {{"webhook_url", "url"}}, TellOnly("plain", Everything))
Gotify(c, n) ==
  Needs(c, {{"server_url", "url"}, {"app_token", "token"}}, TellOnly("plain", Everything))
Pushover(c, n) ==
  Needs(c, {{"user_key"}, {"app_token", "token"}}, TellOnly("plain", Everything))
Matrix(c, n) ==
  Needs(c, {{"homeserver_url", "url"}, {"access_token", "token"}, {"room_id"}},
        TellOnly("plain", Everything))
Signal(c, n) ==
  Needs(c, {{"signal_url", "url"}, {"number"}, {"recipients"}}, TellOnly("plain", Everything))
Kook(c, n) == Needs(c, {{"bot_token"}, {"guild_id"}}, TellOnly("plain", Everything))
(* Stackfield gets the body, which names the rule and the device.          *)
Stackfield(c, n) == Needs(c, {{"webhook_url"}}, TellOnly("plain", Everything))

(* The card holds the title; the message is not put into it.               *)
Teams(c, n) == Needs(c, {{"webhook_url", "url"}}, TellOnly(Tone(n), {"rule"}))
Ntfy(c, n) == Needs(c, {{"server_url", "url"}, {"topic"}}, TellOnly(Tone(n), Everything))
GoogleChat(c, n) == Needs(c, {{"webhook_url", "url"}}, TellOnly(Tone(n), Everything))
Mattermost(c, n) == Needs(c, {{"webhook_url", "url"}}, TellOnly(Tone(n), Everything))
Bark(c, n) == Needs(c, {{"endpoint", "url"}}, TellOnly(Tone(n), Everything))
LineChannel(c, n) ==
  Needs(c, {{"channel_access_token"}, {"user_id"}}, TellOnly(Tone(n), Everything))
WeCom(c, n) == Needs(c, {{"bot_key"}}, TellOnly(Tone(n), Everything))
Feishu(c, n) == Needs(c, {{"webhook_url"}}, TellOnly(Tone(n), Everything))
HomeAssistant(c, n) ==
  Needs(c, {{"base_url"}, {"long_lived_token"}},
        TellOnly(IF "persistent" \in c.config THEN "plain" ELSE Tone(n), Everything))
RocketChat(c, n) == Needs(c, {{"webhook_url"}}, TellOnly(Tone(n), Everything))
DingDing(c, n) == Needs(c, {{"webhook_url"}, {"secret_key"}}, TellOnly(Tone(n), Everything))
LunaSea(c, n) ==
  Needs(c, {{IF "device" \in c.config THEN "device_id" ELSE "user_id"}},
        TellOnly(Tone(n), Everything))
ServerChan(c, n) == Needs(c, {{"send_key"}}, TellOnly(Tone(n), Everything))

(* Every message triggers, a recovery with the severity of a breach; there *)
(* is no key, so each one opens an incident of its own.                    *)
PagerDuty(c, n) ==
  Needs(c, {{"routing_key", "integration_key"}}, Alarm("open", n.n, "down", Everything))

(* Mutant: the title of a recovery tells it is one.                        *)
OpsgenieTitled(c, n) ==
  Needs(c, {{"api_key"}},
        Alarm(IF Up(n) THEN "close" ELSE "open", <<Title(n), Up(n)>>, Tone(n), Everything))

(* The alias is the title: it is the same for all devices of a rule.       *)
Opsgenie(c, n) ==
  Needs(c, {{"api_key"}},
        Alarm(IF Up(n) THEN "close" ELSE "open", Title(n), Tone(n), Everything))

(* These name the device: its alerts of different rules are one.           *)
Alerta(c, n) ==
  Needs(c, {{"api_endpoint"}, {"api_key"}},
        Alarm(IF Up(n) THEN "close" ELSE "open", DisplayName(n), Tone(n), NameSays(n)))
Squadcast(c, n) ==
  Needs(c, {{"webhook_url"}},
        Alarm(IF Up(n) THEN "close" ELSE "open", DisplayName(n), Tone(n), Everything))
PagerTree(c, n) ==
  Needs(c, {{"integration_url"}},
        Alarm(IF Up(n) THEN "close" ELSE "open", DisplayName(n), Tone(n), NameSays(n)))
(* Without auto_resolve a recovery is not sent.                            *)
Splunk(c, n) ==
  IF Up(n) /\ "auto_resolve" \notin c.config THEN NoPayload
  ELSE Needs(c, {{"rest_url"}},
             Alarm(IF Up(n) THEN "close" ELSE "open", DisplayName(n), Tone(n), Everything))

(* The summary is the identity, and that of a recovery is another one.     *)
GoAlert(c, n) ==
  Needs(c, {{"base_url"}, {"token"}},
        Alarm(IF Up(n) THEN "close" ELSE "open", <<Title(n), n.device, n.severity>>,
              Tone(n), Everything))

Payload(c, n) ==
  CASE c.type \in {"webhook", "slack"} -> Webhook(c, n)
    [] c.type = "email" -> Email(c, n)
    [] c.type = "telegram" -> Telegram(c, n)
    [] c.type = "pagerduty" -> PagerDuty(c, n)
    [] c.type = "whatsapp" -> WhatsApp(c, n)
    [] c.type = "discord" -> Discord(c, n)
    [] c.type = "teams" -> Teams(c, n)
    [] c.type = "ntfy" -> Ntfy(c, n)
    [] c.type = "gotify" -> Gotify(c, n)
    [] c.type = "pushover" -> Pushover(c, n)
    [] c.type = "matrix" -> Matrix(c, n)
    [] c.type = "google_chat" -> GoogleChat(c, n)
    [] c.type = "mattermost" -> Mattermost(c, n)
    [] c.type = "opsgenie" -> Opsgenie(c, n)
    [] c.type = "signal" -> Signal(c, n)
    [] c.type = "bark" -> Bark(c, n)
    [] c.type = "line" -> LineChannel(c, n)
    [] c.type = "alerta" -> Alerta(c, n)
    [] c.type = "squadcast" -> Squadcast(c, n)
    [] c.type = "pagertree" -> PagerTree(c, n)
    [] c.type = "splunk" -> Splunk(c, n)
    [] c.type = "stackfield" -> Stackfield(c, n)
    [] c.type = "wecom" -> WeCom(c, n)
    [] c.type = "feishu" -> Feishu(c, n)
    [] c.type = "home_assistant" -> HomeAssistant(c, n)
    [] c.type = "rocket_chat" -> RocketChat(c, n)
    [] c.type = "dingding" -> DingDing(c, n)
    [] c.type = "kook" -> Kook(c, n)
    [] c.type = "lunasea" -> LunaSea(c, n)
    [] c.type = "serverchan" -> ServerChan(c, n)
    [] c.type = "goalert" -> GoAlert(c, n)
    [] OTHER -> NoPayload

-----------------------------------------------------------------------------
NotifierInit ==
  /\ channel \in ChannelSettings
  /\ active = {}
  /\ renamed = {}
  /\ flying = {} /\ openAtService = {} /\ notices = 0
  /\ accident = FALSE

SeverityOf(r) == IF r \in CriticalRules THEN "critical" ELSE "warning"

(* The notice of rule r and device d: the names are looked up now.         *)
Notice(r, d, severity, resolved) ==
  [n |-> notices + 1, rule |-> r, device |-> d, severity |-> severity,
   title |-> r \in renamed, name |-> IF resolved THEN d \in renamed ELSE NoName]

(* NotifyWithSubject; the list of channels may fail to load, the channel   *)
(* may be disabled, and the device's name may fail to resolve.             *)
Notify(r, d, severity) ==
  /\ notices < MaxNotices
  /\ notices' = notices + 1
  /\ \/ flying' = flying \cup {Notice(r, d, severity, TRUE)} /\ UNCHANGED accident
     \/ flying' = flying \cup {Notice(r, d, severity, FALSE)} /\ accident' = TRUE
     \/ UNCHANGED flying /\ accident' = TRUE
  /\ UNCHANGED <<channel, renamed, openAtService>>

(* What the channel would send for a breach now.                           *)
Told(p) == Payload(channel, Notice(p[1], p[2], SeverityOf(p[1]), TRUE))

(* Two alerts of the channel would be one at the service.                  *)
Shares(r, d) == \E p \in active : p # <<r, d>> /\ Told(p).id = Told(<<r, d>>).id

Fire(r, d) ==
  /\ <<r, d>> \notin active /\ ~Shares(r, d)
  /\ active' = active \cup {<<r, d>>}
  /\ Notify(r, d, SeverityOf(r))

(* As Fire, beside an alert that the service cannot tell from it: the      *)
(* first recovery closes both.                                             *)
FireShared(r, d) ==
  /\ <<r, d>> \notin active /\ Shares(r, d)
  /\ notices < MaxNotices
  /\ notices' = notices + 1
  /\ active' = active \cup {<<r, d>>}
  /\ flying' = flying \cup {Notice(r, d, SeverityOf(r), TRUE)}
  /\ accident' = TRUE
  /\ UNCHANGED <<channel, renamed, openAtService>>

Resend(r, d) ==
  /\ <<r, d>> \in active
  /\ UNCHANGED active
  /\ Notify(r, d, SeverityOf(r))

Recover(r, d) ==
  /\ <<r, d>> \in active
  /\ active' = active \ {<<r, d>>}
  /\ Notify(r, d, "resolved")

(* What the service does with it: an id that is open is not opened twice,  *)
(* one that is not open is not closed.                                     *)
Service(p) ==
  CASE p.verb = "open" -> openAtService \cup {p.id}
    [] p.verb = "close" -> openAtService \ {p.id}
    [] OTHER -> openAtService

(* The request of a goroutine arrives, before or after those of others.    *)
Deliver(n) ==
  /\ n \in flying
  /\ flying' = flying \ {n}
  /\ openAtService' = Service(Payload(channel, n))
  /\ accident' = (accident \/ \E m \in flying : m.n < n.n)
  /\ UNCHANGED <<channel, active, renamed, notices>>

(* It fails, or the 8 seconds are over: the error is logged.               *)
FailDelivery(n) ==
  /\ n \in flying
  /\ flying' = flying \ {n}
  /\ accident' = TRUE
  /\ UNCHANGED <<channel, active, renamed, openAtService, notices>>

(* A rule or a device gets another name; what is open keeps the old one.   *)
(* Bound: one of them, once.                                               *)
RenameSubject(x) ==
  /\ renamed = {}
  /\ renamed' = {x}
  /\ accident' = (accident \/ flying # {} \/ openAtService # {} \/ \E p \in active : x \in {p[1], p[2]})
  /\ UNCHANGED <<channel, active, flying, openAtService, notices>>

NotifierNext ==
  \/ \E r \in NotifiedRules, d \in NotifiedDevices :
       Fire(r, d) \/ FireShared(r, d) \/ Resend(r, d) \/ Recover(r, d)
  \/ \E n \in flying : Deliver(n) \/ FailDelivery(n)
  \/ \E x \in NotifiedRules \cup NotifiedDevices : RenameSubject(x)

NotifierSpec == NotifierInit /\ [][NotifierNext]_notifierVars

-----------------------------------------------------------------------------
(* Properties.                                                             *)

NoticeSeverities == {"critical", "warning", "resolved"}
NotifierTypeOK ==
  /\ channel \in ChannelSettings /\ active \subseteq NotifiedRules \X NotifiedDevices
  /\ renamed \subseteq NotifiedRules \cup NotifiedDevices /\ notices \in 0..MaxNotices
  /\ flying \subseteq [n : 1..notices, rule : NotifiedRules, device : NotifiedDevices,
                      severity : NoticeSeverities, title : BOOLEAN, name : BOOLEAN \cup {NoName}]
  /\ \A m, n \in flying : m.n = n.n => m = n
  /\ accident \in BOOLEAN

(* The services that a recovery can reach.                                 *)
Tracking ==
  \/ channel.type \in {"opsgenie", "alerta", "squadcast", "pagertree"}
  \/ channel.type = "splunk" /\ "auto_resolve" \in channel.config

(* With nothing under way, such a service has open what the evaluator      *)
(* takes for breaching, unless a message was lost, overtook another or     *)
(* was not sent, a name changed, or two alerts had one identity; one whose *)
(* channel lacks a key has nothing open.                                   *)
ServiceAgrees ==
  Tracking /\ flying = {} /\ ~accident =>
    openAtService = {Told(p).id : p \in {q \in active : Told(q).verb = "open"}}

(* Whoever is told of something is told the rule or the device, and where  *)
(* a text has a tone, breaches of any severity and recoveries differ in it.*)
NoticeIsReadable ==
  \A n \in flying :
    LET p == Payload(channel, n) IN
      /\ p.verb # "none" => p.says # {}
      /\ p.tone # "plain" /\ channel.type # "pagerduty" => (p.tone = "up" <=> Up(n))

NotifiesTruly == ServiceAgrees /\ NoticeIsReadable
=============================================================================
