------------------------------- MODULE Settings -------------------------------
(***************************************************************************)
(* Where the settings of a command come from: core/src/config.rs,           *)
(* core/src/session.rs, and the commands of cli/src/main.rs with their      *)
(* arguments in cli/src/args.rs.  One action is one source.                 *)
(*                                                                         *)
(* A source of settings is [rate, risky, url, id, db], a session profile is *)
(* [scope, token, cookies, header, validate, refresh, roles]; NoSetting     *)
(* stands for what a source does not say, except for cookies (name ->       *)
(* value) and roles (name -> profile), which can be empty; header is a      *)
(* whole Cookie header, again name -> value.  The other headers of a        *)
(* profile are merged as its cookies are, and are left out.                 *)
(***************************************************************************)
EXTENDS Naturals, Sequences, FiniteSets

CONSTANTS
  Commands,    \* the commands that are run, each with what its sources say:
               \* [command, file, env, cli, config_profile, env_file, env_profile, option, role]
  Defaults,    \* AppConfig::default()
  Tokens,      \* what a refresh command can print
  NoSetting,
  Unreadable   \* a file that is absent or wrong

Fields == {"rate", "risky", "url", "id", "db"}

SessionFields == {"scope", "token", "cookies", "header", "validate", "refresh", "roles"}

NoProfile == NoSetting

IsSource(source) == source = [field \in Fields |-> source[field]]

IsProfile(profile) == profile = [field \in SessionFields |-> profile[field]]

\* A default is a setting, and so is a flag; a role is one of a profile's.
ASSUME SettingsAssumption ==
  /\ IsSource(Defaults) /\ Defaults.risky \in BOOLEAN
  /\ "default" # NoSetting /\ "generated" # NoSetting /\ NoSetting \notin Tokens
  /\ \A c \in Commands :
       /\ c.command \in {"single", "single --config", "file", "network", "schedule", "worker",
                         "serve"}
       /\ IsSource(c.env) /\ IsSource(c.cli) /\ c.cli.risky \in BOOLEAN
       /\ c.file # Unreadable => IsSource(c.file)
       /\ IsProfile(c.env_profile) /\ c.env_profile.roles = <<>> /\ c.env_profile.cookies = <<>>
       /\ \A profile \in {c.config_profile, c.env_file} \cup ({c.option} \ {Unreadable}) :
            profile # NoProfile =>
              /\ IsProfile(profile)
              /\ \A name \in DOMAIN profile.roles : IsProfile(profile.roles[name])

VARIABLES
  invoked,      \* the command
  loading,    \* its next source, "ready" or "failed"
  config,     \* the AppConfig, but for
  session,    \* its session_profile
  printed,    \* what the refresh command printed
  validated   \* the session that the validate URL accepted

settingsVars == <<invoked, loading, config, session, printed, validated>>

-----------------------------------------------------------------------------

\* What the later source says replaces what the earlier one says.
Over(earlier, later) ==
  [field \in DOMAIN earlier |-> IF later[field] = NoSetting THEN earlier[field] ELSE later[field]]

\* HashMap::extend.
Extended(earlier, later) ==
  [name \in DOMAIN earlier \cup DOMAIN later |->
     IF name \in DOMAIN later THEN later[name] ELSE earlier[name]]

\* SessionProfile::apply_env_overrides: scope, validate URL, token, and a whole Cookie
\* header.
WithEnvironment(profile, env) ==
  [Over(profile, env) EXCEPT !.roles = profile.roles, !.refresh = profile.refresh,
                             !.cookies = profile.cookies]

\* select_role: the role over the profile, its cookies added to those of the profile;
\* the other roles are forgotten.
Selected(profile, role) ==
  [Over(profile, role) EXCEPT !.cookies = Extended(profile.cookies, role.cookies), !.roles = <<>>]

\* cookie_header_for_url: a Cookie header goes before the cookies.
CookiesSent(profile) == IF profile.header # NoSetting THEN profile.header ELSE profile.cookies

Scans == {"single", "single --config", "file", "network"}

Go(from, to) == loading = from /\ loading' = to

\* Nothing is read yet.
SettingsStart ==
  /\ loading = "file"
  /\ config = Defaults
  /\ session = NoProfile
  /\ printed = NoSetting
  /\ validated = NoProfile

SettingsInit == invoked \in Commands /\ SettingsStart

\* AppConfig::load, or load_or_default, for which a file that cannot be read counts
\* as none. The file given by --config is read without the environment.
LoadFile ==
  /\ Go("file", IF invoked.command # "single --config" THEN "environment"
                ELSE IF invoked.file = Unreadable THEN "failed"
                ELSE "options")
  /\ config' = IF invoked.file = Unreadable THEN config ELSE Over(config, invoked.file)
  /\ session' = IF invoked.file = Unreadable THEN NoProfile ELSE invoked.config_profile
  /\ UNCHANGED <<invoked, printed, validated>>

\* AppConfig::apply_env_overrides. The variables of a session make a session where
\* there is none.
ApplyEnvironment ==
  /\ Go("environment", IF invoked.command \in {"worker", "serve"} THEN "ready" ELSE "options")
  /\ config' = Over(config, invoked.env)
  /\ LET loaded == IF invoked.env_file # NoProfile THEN invoked.env_file ELSE session
     IN  session' = IF loaded # NoProfile THEN WithEnvironment(loaded, invoked.env_profile)
                     ELSE IF \E f \in {"scope", "validate", "token", "header"} :
                               invoked.env_profile[f] # NoSetting
                     THEN invoked.env_profile
                     ELSE NoProfile
  /\ UNCHANGED <<invoked, printed, validated>>

\* with_session_profile ends the command when its file cannot be read.
FailOptions ==
  /\ invoked.option = Unreadable
  /\ Go("options", "failed")
  /\ UNCHANGED <<invoked, config, session, printed, validated>>

\* The rate and with_session_profile; a scheduled scan takes allow_risky_rules from
\* its profile alone, and has no role.
ApplyOptions ==
  /\ invoked.option # Unreadable
  /\ Go("options", IF invoked.command = "schedule" THEN "refresh" ELSE "role")
  /\ config' = [config EXCEPT
       !.rate  = IF invoked.command \in {"single", "single --config", "schedule"}
                       /\ invoked.cli.rate # NoSetting THEN invoked.cli.rate ELSE @,
       !.risky = IF invoked.command = "schedule" THEN invoked.cli.risky ELSE @]
  /\ session' = IF invoked.option = NoProfile THEN session
                ELSE WithEnvironment(invoked.option, invoked.env_profile)
  /\ UNCHANGED <<invoked, printed, validated>>

HasRole   == session # NoProfile /\ invoked.role \in DOMAIN session.roles
Refreshes == session # NoProfile /\ session.refresh # NoSetting
Validates == session # NoProfile /\ session.validate # NoSetting

\* select_session_role; without a session, or a role of this name, the command ends.
ChooseRole ==
  /\ \/ invoked.role = NoSetting /\ Go("role", "refresh") /\ UNCHANGED session
     \/ /\ invoked.role # NoSetting /\ HasRole
        /\ Go("role", "refresh")
        /\ session' = Selected(session, session.roles[invoked.role])
     \/ /\ invoked.role # NoSetting /\ ~HasRole
        /\ Go("role", "failed")
        /\ UNCHANGED session
  /\ UNCHANGED <<invoked, config, printed, validated>>

\* refresh_session_from_command: no command, or one that fails, or prints a token.
RefreshSession ==
  /\ \/ ~Refreshes /\ Go("refresh", "validate") /\ UNCHANGED <<session, printed>>
     \/ Refreshes /\ Go("refresh", "failed") /\ UNCHANGED <<session, printed>>
     \/ /\ Refreshes
        /\ Go("refresh", "validate")
        /\ printed' \in Tokens
        /\ session' = [session EXCEPT !.token = printed']
  /\ UNCHANGED <<invoked, config, validated>>

\* validate_session_profile: no URL, or one that refuses the session, or accepts it.
ValidateSession ==
  LET next == IF invoked.command = "schedule" THEN "ready" ELSE "oast"
  IN  /\ \/ ~Validates /\ Go("validate", next) /\ UNCHANGED validated
         \/ Validates /\ Go("validate", "failed") /\ UNCHANGED validated
         \/ Validates /\ Go("validate", next) /\ validated' = session
      /\ UNCHANGED <<invoked, config, session, printed>>

\* Faulty variant: the defaults are given before the options are read.
OastOptionsEarly(settings, cli) ==
  [settings EXCEPT
     !.url = IF cli.url # NoSetting THEN cli.url ELSE @,
     !.db  = IF cli.db # NoSetting THEN cli.db
             ELSE IF settings.url # NoSetting /\ settings.db = NoSetting THEN "default" ELSE @,
     !.id  = IF cli.id # NoSetting THEN cli.id
             ELSE IF settings.url # NoSetting /\ settings.id = NoSetting THEN "generated" ELSE @]

\* apply_oast_options.
OastOptions(settings, cli) ==
  LET url == IF cli.url # NoSetting THEN cli.url ELSE settings.url
      db  == IF cli.db # NoSetting THEN cli.db ELSE settings.db
  IN  [settings EXCEPT
         !.url = url,
         !.db  = IF url # NoSetting /\ db = NoSetting THEN "default" ELSE db,
         !.id  = IF cli.id # NoSetting THEN cli.id
                 ELSE IF url # NoSetting /\ @ = NoSetting THEN "generated" ELSE @]

\* --allow-risky-rules only ever allows.
ApplyOast ==
  /\ Go("oast", "ready")
  /\ config' = OastOptions([config EXCEPT !.risky = IF invoked.cli.risky THEN TRUE ELSE @],
                           invoked.cli)
  /\ UNCHANGED <<invoked, session, printed, validated>>

SettingsNext ==
  \/ LoadFile \/ ApplyEnvironment \/ FailOptions \/ ApplyOptions \/ ChooseRole
  \/ RefreshSession \/ ValidateSession \/ ApplyOast

SettingsSpec == SettingsInit /\ [][SettingsNext]_settingsVars

-----------------------------------------------------------------------------

\* The last source that says something of a field: the command line (for a schedule
\* its target profile), the environment, the file, the defaults.
OnCommandLine(field) ==
  /\ invoked.cli[field] # NoSetting
  /\ \/ invoked.command \in {"single", "single --config"}
     \/ field # "rate" /\ invoked.command \in {"file", "network"}
     \/ field = "rate" /\ invoked.command = "schedule"

LastSaid(field) ==
  IF OnCommandLine(field) THEN invoked.cli[field]
  ELSE IF invoked.env[field] # NoSetting THEN invoked.env[field]
  ELSE IF invoked.file # Unreadable THEN Over(Defaults, invoked.file)[field] ELSE Defaults[field]

\* The environment says something that the code does not read.
Unread(field) ==
  invoked.command = "single --config" /\ invoked.env[field] # NoSetting /\ ~OnCommandLine(field)

\* The profile that the session comes from.
Chosen ==
  IF invoked.option # NoProfile THEN invoked.option
  ELSE IF invoked.command # "single --config" /\ invoked.env_file # NoProfile THEN invoked.env_file
  ELSE IF invoked.file = Unreadable THEN NoProfile ELSE invoked.config_profile

\* Some source asks for risky rules.
SomeoneOptsIn ==
  TRUE \in {invoked.cli.risky, invoked.env.risky, Defaults.risky}
         \cup (IF invoked.file = Unreadable THEN {} ELSE {invoked.file.risky})

\* Every setting of a command that goes on has the value of the last source that says
\* something, but for the environment where the command does not read it; a scan
\* with a callback URL can always find its callbacks; risky rules are never allowed
\* unless a source asks for them, and always if the command line does.
ConfigFollows ==
  /\ \A field \in {"rate", "url"} : Unread(field) \/ config[field] = LastSaid(field)
  /\ invoked.command \in Scans =>
       /\ config.url # NoSetting => NoSetting \notin {config.id, config.db}
       /\ ~invoked.cli.risky /\ (invoked.command # "single --config" \/ invoked.env.risky = NoSetting)
            => config.risky = IF invoked.env.risky # NoSetting THEN invoked.env.risky
                              ELSE IF invoked.file # Unreadable THEN Over(Defaults, invoked.file).risky
                              ELSE Defaults.risky
  /\ invoked.command \in Scans \cup {"schedule"} /\ invoked.cli.risky => config.risky = TRUE
  /\ config.risky = TRUE => SomeoneOptsIn

\* A session that was chosen is never replaced by another silently: with a role, the
\* command has exactly what the role says, over the profile and the environment, or
\* it ends (a role's cookies are in the session; whether they are sent, see CookiesSent); without,
\* what the environment says; a session that must be refreshed or validated is used
\* as it was accepted, with the fresh token.
SessionFollows ==
  session # NoProfile =>
    /\ invoked.command \in Scans /\ invoked.role # NoSetting =>
         LET role == Chosen.roles[invoked.role]
         IN  /\ session.roles = <<>>
             /\ \A name \in DOMAIN role.cookies :
                  name \in DOMAIN session.cookies /\ session.cookies[name] = role.cookies[name]
             /\ role.header # NoSetting => CookiesSent(session) = role.header
             /\ role.scope # NoSetting => session.scope = role.scope
             /\ role.token # NoSetting /\ session.refresh = NoSetting =>
                  session.token = role.token
    /\ (invoked.command \notin Scans \/ invoked.role = NoSetting)
         /\ (invoked.command # "single --config" \/ invoked.option # NoProfile) =>
         /\ \A f \in {"scope", "validate"} :
              invoked.env_profile[f] # NoSetting => session[f] = invoked.env_profile[f]
         /\ invoked.env_profile.header # NoSetting => CookiesSent(session) = invoked.env_profile.header
    /\ invoked.command \in Scans \cup {"schedule"} =>
         /\ session.refresh # NoSetting => printed \in Tokens /\ session.token = printed
         /\ session.validate # NoSetting => validated = session

\* What a command is run with follows from its sources, in their order (config.rs,
\* session.rs, main.rs).
SettingsFollowSources == loading = "ready" => ConfigFollows /\ SessionFollows

=============================================================================
