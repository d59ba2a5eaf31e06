------------------------------ MODULE JobAuth ------------------------------
(***************************************************************************)
(* What a job's row says of the endpoint and the credential it was         *)
(* submitted with (job-auth.mjs `authPolicyFor`, task-submit.mjs), and     *)
(* what a worker makes of it and of the providers file as it then is       *)
(* (`resolveCredential`, cmd-task-worker.mjs `transportProfile`).  The     *)
(* credential is never stored; only which source it comes from is.         *)
(***************************************************************************)
EXTENDS ProviderConfig

CONSTANTS
  BaseOf,       \* an endpoint's URL without its query
  OriginOf,     \* a base URL's origin: a gateway's tenants share one
  QueryOf       \* an endpoint's query, NoQuery for none

(* An endpoint is its base URL and its query, and providers and options     *)
(* name endpoints.                                                          *)
ASSUME EndpointAssumption ==
  LET endpoints == DOMAIN BaseOf IN
  /\ "here" \in endpoints
  /\ \A a, b \in endpoints : BaseOf[a] = BaseOf[b] /\ QueryOf[a] = QueryOf[b] => a = b
  /\ \A c \in Contents : \A n \in DOMAIN c.providers : c.providers[n].endpoint \in endpoints
  /\ \A r \in Requests : r.baseUrl \in endpoints \cup {None}

VARIABLES
  job,          \* the row: its transport, auth, declared ids and schema_version
  sent          \* what the worker sends with, or that it refused

authVars == <<job, sent>>

NoQuery == ""
NoRow == [version |-> 0]
NotYet == [kind |-> "pending"]
Refused(why) == [kind |-> "refused", why |-> why]

(* Rows are kept for as long as it takes: an earlier build, which wrote     *)
(* less into them, may have submitted this one.                             *)
RowVersions == 1..3

-----------------------------------------------------------------------------
Keyed(p) == p.credential # "none"

(* Version 1 wrote no `apiKeyAuthorized`, and versions 1 and 2 no source.   *)
Authorisation(p, version) ==
  [mode |-> "profile", profile |-> p.name, origin |-> OriginOf[BaseOf[p.endpoint]],
   authorized |-> IF version = 1 THEN "absent" ELSE IF Keyed(p) THEN "yes" ELSE "no",
   source |-> IF version = 3 /\ Keyed(p) THEN p.credential ELSE "absent"]

WithoutCredential == [mode |-> "none"]

PolicyByQuery(p, version) == \* mutant: an ad hoc endpoint's query is looked up too
  IF Keyed(p) \/ (version > 1 /\ QueryOf[p.endpoint] # NoQuery) THEN Authorisation(p, version)
  ELSE WithoutCredential

AuthPolicyFor(p, version) ==
  IF Keyed(p) \/ (version > 1 /\ ~p.adHoc /\ QueryOf[p.endpoint] # NoQuery) THEN Authorisation(p, version)
  ELSE WithoutCredential

(* A query from the providers file is committed, not stored: it can be      *)
(* compared with another and no more.                                       *)
TransportFor(p, version) ==
  [base |-> BaseOf[p.endpoint], query |-> QueryOf[p.endpoint],
   hashed |-> version > 1 /\ ~p.adHoc /\ QueryOf[p.endpoint] # NoQuery]

(* `buildJob`: what was resolved, the served ids declared with it included. *)
Submit ==
  /\ at = "done" /\ profile.kind = "profile" /\ job = NoRow
  /\ \E version \in RowVersions :
       job' = [transport |-> TransportFor(profile, version), auth |-> AuthPolicyFor(profile, version),
               declares |-> profile.declares, version |-> version]
  /\ others' = 0
  /\ UNCHANGED <<file, repairable, written, request, attempt, at, profile, sent>>

(* The providers file is edited while the job waits its turn.               *)
Edit ==
  /\ job # NoRow /\ sent = NotYet /\ others < MaxOthers
  /\ \E to \in Contents \cup {Absent} : to # file /\ file' = to
  /\ others' = others + 1
  /\ UNCHANGED <<repairable, written, request, attempt, at, profile, job, sent>>

-----------------------------------------------------------------------------
(* The provider as it is now: its file is read once, for the credential and *)
(* the query together.                                                      *)
Current(config, name) ==
  IF ~config.valid THEN Failed("invalid") ELSE ResolveProfile(config, [provider |-> name, baseUrl |-> None])

SameOrigin(transport, p) == OriginOf[transport.base] = OriginOf[BaseOf[p.endpoint]] \* mutant: a tenant of the same gateway will do
SameEndpoint(transport, p) ==
  transport.base = BaseOf[p.endpoint] /\ transport.query = QueryOf[p.endpoint]

AuthorizedByMode(j) == j.auth.mode = "profile" \* mutant: what names a profile authorises its credential
KeyAuthorized(j) ==
  j.auth.authorized = "yes" \/ (j.auth.authorized = "absent" /\ j.version = 1)

(* Named variables are compared by name, a version that has no pin is not   *)
(* held to one.                                                             *)
SourceByKind(j, p) == j.version \in {1, 2} \/ (j.auth.source = "inline") = (p.credential = "inline") \* mutant: any variable will do
SourceHolds(j, p) == j.version \in {1, 2} \/ j.auth.source = p.credential

ResolveCredential(j, config) ==
  IF j.auth.mode = "none" THEN [kind |-> "nothing"]
  ELSE IF j.auth.origin # OriginOf[j.transport.base] THEN Refused("not authorised here")
  ELSE LET p == Current(config, j.auth.profile) IN
       IF p.kind = "failed" THEN Refused("not resolved")
       ELSE IF ~SameEndpoint(j.transport, p) THEN Refused("another endpoint")
       ELSE IF ~KeyAuthorized(j) THEN [kind |-> "resolved", key |-> "none", query |-> QueryOf[p.endpoint]]
       ELSE IF ~Keyed(p) THEN Refused("no credential")
       ELSE IF ~SourceHolds(j, p) THEN Refused("another source")
       ELSE [kind |-> "resolved", key |-> p.credential, query |-> QueryOf[p.endpoint]]

(* `transportProfile`: endpoint and declared ids are the row's.             *)
TransportProfile(j, config) ==
  LET resolved == ResolveCredential(j, config)
      found    == resolved.kind = "resolved"
  IN  IF resolved.kind = "refused" THEN resolved
      ELSE IF j.transport.hashed /\ (~found \/ resolved.query = NoQuery) THEN Refused("no query")
      ELSE [kind |-> "request", base |-> j.transport.base,
            query |-> IF j.transport.hashed THEN resolved.query ELSE j.transport.query,
            key |-> IF found THEN resolved.key ELSE "none", declares |-> j.declares]

(* The worker's own read creates the file when there is none.               *)
RunJob ==
  /\ job # NoRow /\ sent = NotYet
  /\ file' = IF file = Absent /\ job.auth.mode # "none" THEN DEFAULT_CONFIG ELSE file
  /\ sent' = TransportProfile(job, file')
  /\ UNCHANGED <<repairable, others, written, request, attempt, at, profile, job>>

-----------------------------------------------------------------------------
AuthInit == ConfigInit /\ job = NoRow /\ sent = NotYet
AuthIdle == ConfigIdle /\ job = NoRow /\ sent = NotYet
AuthNext == (ConfigNext /\ UNCHANGED authVars) \/ Submit \/ Edit \/ RunJob

-----------------------------------------------------------------------------
(* Whatever became of the providers file and whichever build submitted it,  *)
(* a job is sent to the endpoint it was submitted for, with a credential if *)
(* it had one then and not otherwise: one that its file now gives to that   *)
(* endpoint, of the source it had then where the row says which.  With the  *)
(* file unedited it is never refused.  (job-auth.mjs resolveCredential,     *)
(* authPolicyFor; cmd-task-worker.mjs transportProfile)                     *)
SentAsAuthorised ==
  /\ sent.kind = "request" =>
       /\ sent.base = BaseOf[profile.endpoint] /\ sent.query = QueryOf[profile.endpoint]
       /\ sent.declares = profile.declares
       /\ (sent.key = "none") = (profile.credential = "none")
       /\ sent.key # "none" =>
            /\ \E n \in DOMAIN file.providers :
                 file.providers[n].endpoint = profile.endpoint /\ file.providers[n].credential = sent.key
            /\ job.version = 3 => sent.key = profile.credential
  /\ sent.kind = "refused" => others > 0
=============================================================================
