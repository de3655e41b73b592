----------------------------- MODULE Providers ------------------------------
(***************************************************************************)
(* The registry of model providers and the choice of one for a call: the   *)
(* panel's requests on the table providers (api/routers/providers.py), the *)
(* gateway's scan, classification and selection (gateway/proxy.py with its *)
(* services and gateway/database.py), and the client the API uses for its  *)
(* own reports (api/services/llm_client.py).                               *)
(*                                                                         *)
(* A row without an owner belongs to the platform: every organisation sees *)
(* it, only a super-admin writes it.  A PATCH decides on the row it read   *)
(* and later updates the columns it was given, of whatever row is there by *)
(* then; a call keeps the row its SELECT returned.  Requests the panel     *)
(* refuses write nothing and are left out.                                 *)
(***************************************************************************)
EXTENDS Integers

CONSTANTS Providers,  \* identifiers of rows
          Tenants,    \* organisations
          Users,      \* who writes: the organisation, and whether a super-admin
          Models,     \* models agents declare
          Requests,   \* requests of the panel
          Calls,      \* calls that go to a model
          Rows0,      \* the rows at the start, some written before they were validated
          NewRows,    \* the rows the panel is asked to create
          Patches,    \* the changes it is asked to make, by column
          Contents,   \* the messages calls carry
          None

\* LEVELS: public, internal, confidential, privileged.
Levels == 0..3
Unset == "unset"

\* The providers whose key of the platform the gateway has in its settings and in its
\* environment.
Keyed == {"anthropic", "deepseek"}

\* An own key is good or broken: the gateway's secret decrypts it or not.
Columns == [url |-> BOOLEAN, env |-> {Unset, "listed", "unlisted"},
            own |-> {Unset, "good", "broken"}, ceiling |-> Levels, models |-> SUBSET Models,
            active |-> BOOLEAN, healthy |-> BOOLEAN, priority |-> Nat]
Row == [owner: Tenants \union {None}, type: Keyed \union {"other"}, url: Columns.url,
        env: Columns.env, own: Columns.own, ceiling: Columns.ceiling, models: Columns.models,
        active: Columns.active, healthy: Columns.healthy, priority: Columns.priority]

\* A message: plain text or structured content, whether personal data is recognised in
\* it, and the level of what it says besides.
Message == [text: BOOLEAN, pii: BOOLEAN, level: Levels]

ASSUME ProvidersAssumption ==
  /\ Users \subseteq [tenant: Tenants, super: BOOLEAN]
  /\ \E Rows \in SUBSET Providers: Rows0 \in [Rows -> Row]
  /\ NewRows \subseteq Row
  /\ \A patch \in Patches: /\ DOMAIN patch \subseteq DOMAIN Columns
                           /\ \A c \in DOMAIN patch: patch[c] \in Columns[c]
  /\ Contents \subseteq SUBSET Message
  /\ None \notin Tenants \union Providers

VARIABLES row,        \* providers: what each row holds
          status,     \* providers: the rows in the table
          req,        \* requests of the panel
          call,       \* calls to a model
          recorded,   \* audit_log: the providers its rows refer to
          unchecked   \* rows that hold what no validation has seen together

vars == <<row, status, req, call, recorded, unchecked>>

Idle == [pc |-> "idle"]
Request == [pc: {"validated", "served"}, kind: {"patch", "health", "delete"}, user: Users,
            on: Providers, patch: Patches, overtaken: BOOLEAN]
Call == [pc: {"routed", "sent", "recorded", "lost"}, kind: {"gateway", "report"},
         tenant: Tenants, model: Models \union {None}, messages: SUBSET Message,
         on: Providers \union {None}, key: {"none", "platform", "environment", "own"},
         url: BOOLEAN, ceiling: Levels, models: SUBSET Models]

TypeOK ==
  /\ row \in [Providers -> Row]
  /\ status \in [Providers -> {"new", "present", "deleted"}]
  /\ \A r \in Requests: req[r] = Idle \/ req[r] \in Request
  /\ \A c \in Calls: call[c].pc \in {"idle", "refused"} \/ call[c] \in Call
  /\ recorded \subseteq Providers
  /\ unchecked \subseteq Providers
-----------------------------------------------------------------------------
\* _validate_key_config and _validate_own_key: a platform key only by a name on the list,
\* and with neither an own address nor an own key.
Valid(r) == r.env # Unset => r.env = "listed" /\ ~r.url /\ r.own = Unset

Given(patch, column, old) == IF column \in DOMAIN patch THEN patch[column] ELSE old

\* The row r with the columns of a patch.
Patched(r, patch) ==
  [owner |-> r.owner, type |-> r.type,
   url |-> Given(patch, "url", r.url), env |-> Given(patch, "env", r.env),
   own |-> Given(patch, "own", r.own), ceiling |-> Given(patch, "ceiling", r.ceiling),
   models |-> Given(patch, "models", r.models), active |-> Given(patch, "active", r.active),
   healthy |-> Given(patch, "healthy", r.healthy), priority |-> Given(patch, "priority", r.priority)]

\* catalog_read: the platform's rows and those of the organisation.
Visible(p, t) == status[p] = "present" /\ row[p].owner \in {None, t}

\* _deny_platform_write.
MayWrite(user, owner) == owner = None => user.super

NoRow == [owner |-> None, type |-> "other", url |-> FALSE, env |-> Unset, own |-> Unset,
          ceiling |-> 0, models |-> {}, active |-> FALSE, healthy |-> FALSE, priority |-> 0]

Init ==
  /\ row = [p \in Providers |-> IF p \in DOMAIN Rows0 THEN Rows0[p] ELSE NoRow]
  /\ status = [p \in Providers |-> IF p \in DOMAIN Rows0 THEN "present" ELSE "new"]
  /\ req = [r \in Requests |-> Idle]
  /\ call = [c \in Calls |-> Idle]
  /\ recorded = {}
  /\ unchecked = {p \in DOMAIN Rows0: ~Valid(Rows0[p])}
-----------------------------------------------------------------------------
\* create_provider: a row of the organisation, or of the platform in platform mode, active
\* and healthy by default.
Create(p, user, new) ==
  /\ status[p] = "new"
  /\ Valid(new) /\ new.active /\ new.healthy
  /\ new.owner \in {None, user.tenant} /\ MayWrite(user, new.owner)
  /\ row' = [row EXCEPT ![p] = new]
  /\ status' = [status EXCEPT ![p] = "present"]
  /\ UNCHANGED <<req, call, recorded, unchecked>>

\* Mutant: what is validated is the body alone.
ReadBody(r, user, kind, p, patch) ==
  /\ req[r] = Idle
  /\ Visible(p, user.tenant) /\ MayWrite(user, row[p].owner)
  /\ kind = "patch" => Valid(Patched(NoRow, patch))
  /\ req' = [req EXCEPT ![r] = [pc |-> "validated", kind |-> kind, user |-> user, on |-> p,
                                patch |-> patch, overtaken |-> FALSE]]
  /\ UNCHANGED <<row, status, call, recorded, unchecked>>

\* Mutant: the platform's rows are not denied.
ReadUndenied(r, user, kind, p, patch) ==
  /\ req[r] = Idle
  /\ Visible(p, user.tenant)
  /\ kind = "patch" => Valid(Patched(row[p], patch))
  /\ req' = [req EXCEPT ![r] = [pc |-> "validated", kind |-> kind, user |-> user, on |-> p,
                                patch |-> patch, overtaken |-> FALSE]]
  /\ UNCHANGED <<row, status, call, recorded, unchecked>>

\* _get_writable, and update_provider's validation of the row as it would be.
Read(r, user, kind, p, patch) ==
  /\ req[r] = Idle
  /\ Visible(p, user.tenant) /\ MayWrite(user, row[p].owner)
  /\ kind = "patch" => DOMAIN patch # {} /\ Valid(Patched(row[p], patch))
  /\ kind = "health" => DOMAIN patch = {"healthy"}
  /\ kind = "delete" => DOMAIN patch = {}
  /\ req' = [req EXCEPT ![r] = [pc |-> "validated", kind |-> kind, user |-> user, on |-> p,
                                patch |-> patch, overtaken |-> FALSE]]
  /\ UNCHANGED <<row, status, call, recorded, unchecked>>

\* Request r is served; those that have read the row it wrote, when wrote, are overtaken.
Serve(r, wrote) ==
  req' = [s \in Requests |->
    CASE s = r -> [req[r] EXCEPT !.pc = "served"]
      [] s # r /\ wrote /\ req[s] # Idle /\ req[s].pc = "validated" /\ req[s].on = req[r].on
           -> [req[s] EXCEPT !.overtaken = TRUE]
      [] OTHER -> req[s]]

\* update_provider and set_health; a row that has been deleted meanwhile is not there to
\* be updated.
Update(r) ==
  LET q == req[r]
      there == status[q.on] = "present"
  IN /\ q # Idle /\ q.pc = "validated" /\ q.kind # "delete"
     /\ row' = IF there THEN [row EXCEPT ![q.on] = Patched(@, q.patch)] ELSE row
     /\ unchecked' = IF ~there \/ q.kind = "health" THEN unchecked
                     ELSE IF q.overtaken THEN unchecked \union {q.on}
                     ELSE unchecked \ {q.on}
     /\ Serve(r, there)
     /\ UNCHANGED <<status, call, recorded>>

\* Mutant: the log's rows do not keep the provider they refer to.
DeleteReferred(r) ==
  LET q == req[r] IN
  /\ q # Idle /\ q.pc = "validated" /\ q.kind = "delete"
  /\ status' = [status EXCEPT ![q.on] = "deleted"]
  /\ Serve(r, TRUE)
  /\ UNCHANGED <<row, call, recorded, unchecked>>

\* delete_provider: the foreign key of audit_log keeps a provider a call has used.
Delete(r) ==
  LET q == req[r] IN
  /\ q # Idle /\ q.pc = "validated" /\ q.kind = "delete"
  /\ status' = IF q.on \in recorded THEN status ELSE [status EXCEPT ![q.on] = "deleted"]
  /\ Serve(r, q.on \notin recorded)
  /\ UNCHANGED <<row, call, recorded, unchecked>>
-----------------------------------------------------------------------------
\* PIIScanner.scan, one message: plain text is redacted, after which it shows the level it
\* did, a lower one, what gave the level being gone, or the confidential one: the marks left
\* in place of a PESEL number or an identity card are keywords.  Structured content passes
\* as it is.
Redacted(m) ==
  IF m.text /\ m.pii
  THEN {[m EXCEPT !.pii = FALSE, !.level = l]: l \in {k \in Levels: k <= m.level \/ k = 2}}
  ELSE {m}

\* What the messages of a call may be after the scan.
Redactions(messages) ==
  {clean \in SUBSET UNION {Redacted(m): m \in messages}:
     \A m \in messages: clean \intersect Redacted(m) # {}}

\* Mutant: the lowest level is looked for first.
LowestLevel(messages) ==
  LET hit(l) == \E m \in messages: m.level = l
  IN IF hit(1) THEN 1 ELSE IF hit(2) THEN 2 ELSE IF hit(3) THEN 3 ELSE 0

\* classify: the highest level any of the messages shows, structured ones included.
Level(messages) ==
  LET hit(l) == \E m \in messages: m.level = l
  IN IF hit(3) THEN 3 ELSE IF hit(2) THEN 2 ELSE IF hit(1) THEN 1 ELSE 0

\* get_providers_for_sensitivity and select_provider: the rows a call may go to.
Eligible(t, model, level) ==
  {p \in Providers: /\ Visible(p, t) /\ row[p].active /\ row[p].healthy
                    /\ row[p].ceiling >= level
                    /\ ~(row[p].owner # None /\ row[p].own = "broken")
                    /\ model \in row[p].models}

First(rows) == {p \in rows: \A q \in rows: row[p].priority <= row[q].priority}

\* resolve_api_key and api_key_from_env: the organisation's own key, or one of the platform
\* by its name on the list.  Every key of the platform is set.
ResolvedKey(r) ==
  IF r.owner # None /\ r.own = "good" THEN "own"
  ELSE IF r.env = "listed" /\ ~r.url THEN "platform" ELSE "none"

\* Mutant: an own address does not stop the default key.
KeyAnywhere(r) ==
  IF ResolvedKey(r) = "none" /\ r.type \in Keyed THEN "platform" ELSE ResolvedKey(r)

\* handle_chat_completion: the key the gateway hands to its client, by default that of the
\* platform, which is for the provider's own address.
KeyOf(r) ==
  IF ResolvedKey(r) = "none" /\ ~r.url /\ r.type \in Keyed THEN "platform" ELSE ResolvedKey(r)

\* litellm (external): a call without a key is made with the one the environment holds for
\* the provider's type, whatever address it goes to.
KeySent(r) == IF KeyOf(r) = "none" /\ r.type \in Keyed THEN "environment" ELSE KeyOf(r)

\* handle_chat_completion: scan, classification, and the row selected.
Route(c, t, model, messages) ==
  /\ call[c] = Idle
  /\ \E clean \in Redactions(messages):
       LET rows == Eligible(t, model, Level(clean))
       IN \/ /\ rows = {}
             /\ call' = [call EXCEPT ![c] = [pc |-> "refused"]]
          \/ \E p \in First(rows):
               call' = [call EXCEPT ![c] =
                 [pc |-> "routed", kind |-> "gateway", tenant |-> t, model |-> model,
                  messages |-> clean, on |-> p, key |-> KeySent(row[p]), url |-> row[p].url,
                  ceiling |-> row[p].ceiling, models |-> row[p].models]]
  /\ UNCHANGED <<row, status, req, recorded, unchecked>>

\* _tenant_anthropic_provider.
OwnClients(t) ==
  {p \in Providers: /\ status[p] = "present" /\ row[p].owner = t /\ row[p].active
                    /\ row[p].type = "anthropic" /\ row[p].own # Unset}

\* anthropic_client: the organisation's key at its address; without such a row, or when it
\* cannot be read or its key not decrypted, the platform's key at the provider's.
Consult(c, t) ==
  LET report(p, key, url) ==
        [pc |-> "routed", kind |-> "report", tenant |-> t, model |-> None, messages |-> {},
         on |-> p, key |-> key, url |-> url, ceiling |-> 0, models |-> {}]
  IN /\ call[c] = Idle
     /\ \/ call' = [call EXCEPT ![c] = report(None, "platform", FALSE)]
        \/ \E p \in First(OwnClients(t)):
             /\ row[p].own = "good"
             /\ call' = [call EXCEPT ![c] = report(p, "own", row[p].url)]
     /\ UNCHANGED <<row, status, req, recorded, unchecked>>

\* The request to the provider, with the row as it was selected.
Forward(c) ==
  /\ call[c].pc = "routed"
  /\ call' = [call EXCEPT ![c].pc = "sent"]
  /\ UNCHANGED <<row, status, req, recorded, unchecked>>

\* Mutant: reports are recorded too, under no provider.
RecordReports(c) ==
  /\ call[c].pc = "sent"
  /\ recorded' = recorded \union {call[c].on}
  /\ call' = [call EXCEPT ![c].pc = "recorded"]
  /\ UNCHANGED <<row, status, req, unchecked>>

\* write_audit: the record names the provider, which the foreign key looks up.
Record(c) ==
  /\ call[c].pc = "sent" /\ call[c].kind = "gateway"
  /\ IF status[call[c].on] = "present"
     THEN /\ recorded' = recorded \union {call[c].on}
          /\ call' = [call EXCEPT ![c].pc = "recorded"]
     ELSE /\ call' = [call EXCEPT ![c].pc = "lost"]
          /\ UNCHANGED recorded
  /\ UNCHANGED <<row, status, req, unchecked>>
-----------------------------------------------------------------------------
Next ==
  \/ \E p \in Providers, user \in Users, new \in NewRows: Create(p, user, new)
  \/ \E r \in Requests, user \in Users, kind \in {"patch", "health", "delete"}:
       \E p \in Providers, patch \in Patches: Read(r, user, kind, p, patch)
  \/ \E r \in Requests: Update(r)
  \/ \E r \in Requests: Delete(r)
  \/ \E c \in Calls, t \in Tenants, model \in Models, messages \in Contents:
       Route(c, t, model, messages)
  \/ \E c \in Calls, t \in Tenants: Consult(c, t)
  \/ \E c \in Calls: Forward(c)
  \/ \E c \in Calls: Record(c)

Spec == Init /\ [][Next]_vars
-----------------------------------------------------------------------------
\* An own key is only ever used for the organisation it belongs to, the gateway itself hands
\* no key of the platform to an own address, and only a call of the gateway is ever made with
\* a key nobody handed over, whatever rows overlapping PATCHes and rows older than their
\* validation leave behind (resolve_api_key, handle_chat_completion, anthropic_client).  It
\* says nothing of where such a call goes: see PlatformKeysGoToTheProvider.
KeysStayHome ==
  \A c \in Calls: call[c].pc \notin {"idle", "refused"} =>
    /\ call[c].key = "platform" => ~call[c].url
    /\ call[c].key = "own" => call[c].on # None /\ row[call[c].on].owner = call[c].tenant
    /\ call[c].key = "environment" => call[c].kind = "gateway"

\* "Domyslny klucz platformy tylko dla oficjalnego endpointu dostawcy - nigdy dla providera z
\* wlasnym base_url" (gateway/proxy.py:406-407: the platform's default key only at the
\* provider's official endpoint, never for a provider with a base_url of its own).
PlatformKeysGoToTheProvider ==
  \A c \in Calls: call[c].pc \notin {"idle", "refused"} =>
    (call[c].key \in {"platform", "environment"} => ~call[c].url)

\* What the gateway sends has no message above the ceiling of the row it was selected by,
\* no recognised personal data left in plain text, and the model the agent declared.
ContentFitsProvider ==
  \A c \in Calls: call[c].pc \notin {"idle", "refused"} /\ call[c].kind = "gateway" =>
    /\ \A m \in call[c].messages: m.level <= call[c].ceiling /\ (m.text => ~m.pii)
    /\ call[c].model \in call[c].models
    /\ row[call[c].on].owner \in {None, call[c].tenant}

\* A row whose configuration the panel would refuse was never validated as it is: it is
\* older than the validation, or a PATCH was overtaken by another write of the row.
InvalidOnlyIfOvertaken ==
  \A p \in Providers: status[p] = "present" /\ ~Valid(row[p]) => p \in unchecked

\* A row of the platform changes only by a super-admin's request, an organisation's own
\* only by that organisation's: in platform mode row-level security stops nobody.
OwnersOnly ==
  [][\A p \in Providers:
       status[p] = "present" /\ (row'[p] # row[p] \/ status'[p] # status[p]) =>
         \E r \in Requests: /\ req[r] # Idle /\ req[r].pc = "validated" /\ req[r].on = p
                            /\ req'[r].pc = "served"
                            /\ IF row[p].owner = None THEN req[r].user.super
                               ELSE row[p].owner = req[r].user.tenant]_vars

\* A provider some row of the log names is never deleted, however selections, deletions and
\* records interleave; and where a deletion came first, so that the foreign key refuses the
\* record of a call, no other call has a record that names the provider (delete_provider,
\* write_audit).  A record can also fail for other reasons, which GatewayCall has.
LogKeepsItsProviders ==
  /\ \A p \in recorded: status[p] = "present"
  /\ \A c \in Calls: call[c].pc = "lost" => call[c].on \notin recorded
=============================================================================
