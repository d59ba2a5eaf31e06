--------------------------- MODULE ProviderConfig ---------------------------
(***************************************************************************)
(* config.mjs: the providers file, created when it is missing, and the     *)
(* profile a run is given from it.  Other processes create, replace and    *)
(* remove the file between any two steps.                                  *)
(***************************************************************************)
EXTENDS Naturals, Sequences

CONSTANTS
  MaxOthers,    \* bound: what other processes do to the file
  Requests,     \* the --provider and --base-url a run may be given
  Contents      \* what a providers file written by somebody else may hold

MAX_CREATE_RACE_ATTEMPTS == 3

(* A provider names an endpoint, where its credential comes from ("none",   *)
(* "inline", "env", or "empty" for a variable that is not set), and whether *)
(* it declares served ids.                                                  *)
None == "(none)"
Provider(endpoint, credential, declares) ==
  [endpoint |-> endpoint, credential |-> credential, declares |-> declares]

Nobody == Provider(None, "none", FALSE)

(* The file: missing, there but not readable as a file, or holding a        *)
(* configuration; and what loadConfig writes, a provider with neither.      *)
Absent == [state |-> "absent"]
Dangling == [state |-> "dangling"]
DEFAULT_CONFIG == [state |-> "present", valid |-> TRUE, default |-> "local",
                   providers |-> [local |-> Provider("here", "none", FALSE)]]

(* Where somebody put a file there is one.                                  *)
ASSUME ContentsAssumption == \A c \in Contents : c.state = "present"

VARIABLES
  file,         \* Absent, Dangling (it exists and reads as missing) or a content
  repairable,   \* chmod succeeds on it
  others,       \* what other processes have done to it
  written,      \* they have a file of their own there
  request,      \* this run's options
  attempt,      \* creations this run lost
  at,           \* this run's next step
  profile       \* what it is given: a profile, or why not

configVars == <<file, repairable, others, written, request, attempt, at, profile>>

Failed(why) == [kind |-> "failed", why |-> why]
NoProfile == Failed("pending")

-----------------------------------------------------------------------------
(* `resolveProfile`.  The options are a provider's name or None, and an     *)
(* endpoint or None.                                                        *)
RequireProvider(config, name) ==
  IF name \in DOMAIN config.providers THEN config.providers[name] ELSE Nobody

AD_HOC_PROFILE_NAME == "custom"

BuildProfile(name, p, withheld, adHoc) ==
  IF p.credential = "empty" THEN Failed("empty variable")
  ELSE [kind |-> "profile", name |-> name, endpoint |-> p.endpoint, credential |-> p.credential,
        declares |-> p.declares, withheld |-> withheld, adHoc |-> adHoc]

(* A credential and declared ids belong to the endpoint they were           *)
(* configured for.                                                          *)
OverrideKeeping(named, endpoint) == \* mutant: only the credential is dropped
  IF named = Nobody THEN Provider(endpoint, "none", FALSE)
  ELSE IF named.endpoint = endpoint THEN named
  ELSE Provider(endpoint, "none", named.declares)

Override(named, endpoint) ==
  IF named = Nobody THEN Provider(endpoint, "none", FALSE)
  ELSE IF named.endpoint = endpoint THEN named
  ELSE Provider(endpoint, "none", FALSE)

ResolveProfile(config, r) ==
  LET name  == IF r.provider # None THEN r.provider ELSE config.default
      named == RequireProvider(config, name)
  IN  IF r.provider # None /\ named = Nobody THEN Failed("unknown provider")
      ELSE IF r.baseUrl # None
        THEN LET own == IF r.provider = None THEN Nobody ELSE named IN
             BuildProfile(IF own = Nobody THEN AD_HOC_PROFILE_NAME ELSE r.provider, Override(own, r.baseUrl),
                          own # Nobody /\ own.endpoint # r.baseUrl /\ own.credential # "none", TRUE)
      ELSE IF named = Nobody THEN Failed("no provider") ELSE BuildProfile(name, named, FALSE, FALSE)

-----------------------------------------------------------------------------
ConfigInit ==
  /\ file \in {Absent, Dangling} \cup Contents
  /\ repairable \in BOOLEAN
  /\ others = 0 /\ written = (file \in Contents)
  /\ request \in Requests
  /\ attempt = 0 /\ at = "read" /\ profile = NoProfile

NoRequest == [provider |-> None, baseUrl |-> None]

ConfigIdle ==
  /\ file = Absent /\ repairable = TRUE /\ others = 0 /\ written = FALSE
  /\ request = NoRequest /\ attempt = 0 /\ at = "done" /\ profile = NoProfile

EndConfig ==
  /\ file' = Absent /\ repairable' = TRUE /\ others' = 0 /\ written' = FALSE
  /\ request' = NoRequest /\ attempt' = 0 /\ at' = "done" /\ profile' = NoProfile

(* `loadConfigAttempt` reads; the permissions of what it read are repaired  *)
(* before its content is looked at.                                         *)
Settle(outcome) == profile' = outcome /\ at' = "done"

ReadConfig ==
  /\ at = "read"
  /\ IF file \in {Absent, Dangling}
       THEN IF attempt >= MAX_CREATE_RACE_ATTEMPTS
              THEN Settle(Failed("cannot be read"))
              ELSE at' = "create" /\ UNCHANGED profile
     ELSE IF ~repairable THEN Settle(Failed("permissions"))
     ELSE IF ~file.valid THEN Settle(Failed("invalid"))
     ELSE Settle(ResolveProfile(file, request))
  /\ UNCHANGED <<file, repairable, others, written, request, attempt>>

(* The write is exclusive: whatever is there by now is read instead.        *)
CreateTruncating == \* mutant: 'w' in place of 'wx'
  /\ at = "create" /\ file # Dangling
  /\ file' = DEFAULT_CONFIG
  /\ Settle(ResolveProfile(DEFAULT_CONFIG, request))
  /\ UNCHANGED <<repairable, others, written, request, attempt>>

CreateConfig ==
  /\ at = "create"
  /\ IF file = Absent
       THEN /\ file' = DEFAULT_CONFIG
            /\ Settle(ResolveProfile(DEFAULT_CONFIG, request))
            /\ UNCHANGED attempt
       ELSE /\ attempt' = attempt + 1 /\ at' = "read"
            /\ UNCHANGED <<file, profile>>
  /\ UNCHANGED <<repairable, others, written, request>>

(* Somebody else puts a file there, replaces it, or removes it.             *)
OthersWrite ==
  /\ others < MaxOthers /\ at # "done"
  /\ \E to \in Contents \cup {Absent} :
       /\ to # file
       /\ file' = to /\ written' = (to \in Contents)
  /\ others' = others + 1
  /\ UNCHANGED <<repairable, request, attempt, at, profile>>

ConfigNext == ReadConfig \/ CreateConfig \/ OthersWrite

-----------------------------------------------------------------------------
(* The run never replaces a file somebody else put there, in whatever gap   *)
(* of its own check and write it appeared.  (config.mjs loadConfigAttempt's *)
(* exclusive write)                                                         *)
ConfigIsKept == written => file \in Contents

(* What a run sends with its requests, and what it takes for the ids its    *)
(* server reports, were configured for the endpoint it asks: pointing a     *)
(* provider elsewhere leaves both behind, and says that a credential was    *)
(* left.  (config.mjs resolveProfile)                                       *)
BelongsToEndpoint ==
  profile.kind = "profile" /\ file \notin {Absent, Dangling} /\ others = 0 =>
    LET owners(field) == {n \in DOMAIN file.providers :
                            /\ file.providers[n].endpoint = profile.endpoint
                            /\ file.providers[n][field] = profile[field]}
    IN  /\ profile.declares => owners("declares") # {}
        /\ profile.credential # "none" => owners("credential") # {}
        /\ profile.withheld => profile.credential = "none"

(* The file stays its author's, and what is read from it goes only where it  *)
(* was meant to.  (config.mjs loadConfig, resolveProfile)                    *)
ConfigIsHonoured == ConfigIsKept /\ BelongsToEndpoint
=============================================================================
