-------------------------- MODULE ProvidersProofs --------------------------
(***************************************************************************)
(* Safety of the providers' rows and of the calls that use them, for any   *)
(* number of rows, organisations, requests and calls.                      *)
(***************************************************************************)
EXTENDS Providers, TLAPS

Active(c) == call[c].pc \notin {"idle", "refused"}
Pending(r) == req[r] # Idle /\ req[r].pc = "validated"

\* The inductive invariant.  A request under way is on a row that exists, which its user
\* may write; and, unless it was overtaken, its patch still makes a row that would be
\* accepted, because that row is the one it was validated against.
Functions == DOMAIN req = Requests /\ DOMAIN call = Calls
             /\ req = [r \in Requests |-> req[r]] /\ call = [c \in Calls |-> call[c]]
RequestsMayWrite ==
  \A r \in Requests: Pending(r) =>
    /\ status[req[r].on] # "new"
    /\ MayWrite(req[r].user, row[req[r].on].owner)
    /\ row[req[r].on].owner \in {None, req[r].user.tenant}
PatchesFit ==
  \A r \in Requests: Pending(r) =>
    /\ req[r].kind = "health" => DOMAIN req[r].patch = {"healthy"}
    /\ req[r].kind = "patch" /\ ~req[r].overtaken =>
         status[req[r].on] = "deleted" \/ Valid(Patched(row[req[r].on], req[r].patch))
CallsName ==
  \A c \in Calls: Active(c) =>
    /\ call[c].kind = "gateway" => call[c].on \in Providers
    /\ call[c].on \in Providers => status[call[c].on] # "new"
    /\ call[c].pc \in {"recorded", "lost"} => call[c].kind = "gateway"
LostIsGone == \A c \in Calls: call[c].pc = "lost" => status[call[c].on] = "deleted"

TypeInv == TypeOK /\ Functions /\ CallsName
WriteInv == RequestsMayWrite /\ PatchesFit
LogHolds == LostIsGone /\ \A p \in recorded: status[p] = "present"
IInv == /\ TypeInv /\ WriteInv
        /\ KeysStayHome /\ ContentFitsProvider /\ InvalidOnlyIfOvertaken /\ LogHolds

-----------------------------------------------------------------------------
LEMMA RowIs ==
  Row = [owner: Tenants \union {None}, type: Keyed \union {"other"}, url: BOOLEAN,
         env: {Unset, "listed", "unlisted"}, own: {Unset, "good", "broken"},
         ceiling: Levels, models: SUBSET Models, active: BOOLEAN, healthy: BOOLEAN,
         priority: Nat]
BY DEF Row, Columns

\* A patch makes a row of a row, and leaves its owner.
LEMMA PatchedType ==
  ASSUME NEW r \in Row, NEW patch \in Patches
  PROVE  Patched(r, patch) \in Row /\ Patched(r, patch).owner = r.owner
<1>1. DOMAIN patch \subseteq DOMAIN Columns /\ \A c \in DOMAIN patch: patch[c] \in Columns[c]
  BY ProvidersAssumption
<1>2. /\ Given(patch, "url", r.url) \in BOOLEAN
      /\ Given(patch, "env", r.env) \in {Unset, "listed", "unlisted"}
      /\ Given(patch, "own", r.own) \in {Unset, "good", "broken"}
      /\ Given(patch, "ceiling", r.ceiling) \in Levels
      /\ Given(patch, "models", r.models) \in SUBSET Models
      /\ Given(patch, "active", r.active) \in BOOLEAN
      /\ Given(patch, "healthy", r.healthy) \in BOOLEAN
      /\ Given(patch, "priority", r.priority) \in Nat
  <2>1. Given(patch, "url", r.url) \in BOOLEAN /\ Given(patch, "env", r.env) \in {Unset, "listed", "unlisted"}
    BY <1>1 DEF Given, Columns, Row
  <2>2. /\ Given(patch, "own", r.own) \in {Unset, "good", "broken"}
        /\ Given(patch, "ceiling", r.ceiling) \in Levels
    BY <1>1 DEF Given, Columns, Row
  <2>3. Given(patch, "models", r.models) \in SUBSET Models /\ Given(patch, "active", r.active) \in BOOLEAN
    BY <1>1 DEF Given, Columns, Row
  <2>4. Given(patch, "healthy", r.healthy) \in BOOLEAN /\ Given(patch, "priority", r.priority) \in Nat
    BY <1>1 DEF Given, Columns, Row
  <2>5. QED
    BY <2>1, <2>2, <2>3, <2>4
<1>3. r \in [owner: Tenants \union {None}, type: Keyed \union {"other"}, url: BOOLEAN,
             env: {Unset, "listed", "unlisted"}, own: {Unset, "good", "broken"},
             ceiling: Levels, models: SUBSET Models, active: BOOLEAN, healthy: BOOLEAN,
             priority: Nat]
  BY RowIs
<1>4. Patched(r, patch) \in [owner: Tenants \union {None}, type: Keyed \union {"other"}, url: BOOLEAN,
             env: {Unset, "listed", "unlisted"}, own: {Unset, "good", "broken"},
             ceiling: Levels, models: SUBSET Models, active: BOOLEAN, healthy: BOOLEAN,
             priority: Nat]
  BY <1>2, <1>3 DEF Patched
<1>5. QED
  BY <1>4, RowIs DEF Patched

\* The health of a row is no part of its configuration.
LEMMA HealthHarmless ==
  ASSUME NEW r \in Row, NEW patch \in Patches, DOMAIN patch = {"healthy"}
  PROVE  Valid(Patched(r, patch)) <=> Valid(r)
BY DEF Valid, Patched, Given, Row

LEMMA NoRowType == NoRow \in Row
BY DEF NoRow, Row, Columns, Levels

\* A redacted message is a message; as plain text it has no personal data left.
LEMMA RedactedType ==
  ASSUME NEW messages \in Contents, NEW clean \in Redactions(messages)
  PROVE  /\ clean \in SUBSET Message
         /\ \A m \in clean: m.text => ~m.pii
<1>1. messages \in SUBSET Message
  BY ProvidersAssumption
<1>2. ASSUME NEW m \in messages, NEW n \in Redacted(m)
      PROVE  n \in Message /\ (n.text => ~n.pii)
  <2>1. m \in Message
    BY <1>1
  <2>2. CASE m.text /\ m.pii
    <3>1. PICK l \in Levels: n = [m EXCEPT !.pii = FALSE, !.level = l]
      BY <1>2, <2>2 DEF Redacted
    <3>2. QED
      BY <2>1, <3>1 DEF Message
  <2>3. CASE ~(m.text /\ m.pii)
    BY <1>2, <2>1, <2>3 DEF Redacted
  <2>4. QED
    BY <2>2, <2>3
<1>3. \A n \in clean: \E m \in messages: n \in Redacted(m)
  BY DEF Redactions
<1>4. QED
  BY <1>2, <1>3

\* The level found is at least that of every message.
LEMMA LevelBounds ==
  ASSUME NEW messages \in SUBSET Message
  PROVE  \A m \in messages: m.level <= Level(messages)
BY DEF Level, Message, Levels

LEMMA KeySentType ==
  ASSUME NEW r \in Row
  PROVE  /\ KeySent(r) \in {"none", "platform", "environment", "own"}
         /\ KeySent(r) = "platform" => ~r.url
         /\ KeySent(r) = "own" => r.owner # None
BY DEF KeySent, KeyOf, ResolvedKey, Row
-----------------------------------------------------------------------------
\* A call that has just been routed is as every call to a model has to be.
LEMMA RouteGood ==
  ASSUME TypeInv, NEW c \in Calls, NEW t \in Tenants, NEW model \in Models,
         NEW messages \in Contents, Route(c, t, model, messages)
  PROVE  \/ call' = [call EXCEPT ![c] = [pc |-> "refused"]]
         \/ \E x \in Call:
              /\ call' = [call EXCEPT ![c] = x]
              /\ x.pc = "routed" /\ x.kind = "gateway" /\ x.tenant = t
              /\ x.on \in Providers /\ status[x.on] = "present"
              /\ x.key = "platform" => ~x.url
              /\ x.key = "own" => row[x.on].owner = t
              /\ \A m \in x.messages: m.level <= x.ceiling /\ (m.text => ~m.pii)
              /\ x.model \in x.models
              /\ row[x.on].owner \in {None, t}
<1>1. CASE call' = [call EXCEPT ![c] = [pc |-> "refused"]]
  BY <1>1
<1>2. ASSUME NEW clean \in Redactions(messages),
             NEW p \in First(Eligible(t, model, Level(clean))),
             call' = [call EXCEPT ![c] =
               [pc |-> "routed", kind |-> "gateway", tenant |-> t, model |-> model,
                messages |-> clean, on |-> p, key |-> KeySent(row[p]), url |-> row[p].url,
                ceiling |-> row[p].ceiling, models |-> row[p].models]]
      PROVE \E x \in Call:
              /\ call' = [call EXCEPT ![c] = x]
              /\ x.pc = "routed" /\ x.kind = "gateway" /\ x.tenant = t
              /\ x.on \in Providers /\ status[x.on] = "present"
              /\ x.key = "platform" => ~x.url
              /\ x.key = "own" => row[x.on].owner = t
              /\ \A m \in x.messages: m.level <= x.ceiling /\ (m.text => ~m.pii)
              /\ x.model \in x.models
              /\ row[x.on].owner \in {None, t}
  <2> DEFINE x == [pc |-> "routed", kind |-> "gateway", tenant |-> t, model |-> model,
                   messages |-> clean, on |-> p, key |-> KeySent(row[p]), url |-> row[p].url,
                   ceiling |-> row[p].ceiling, models |-> row[p].models]
  <2>1. /\ p \in Providers /\ status[p] = "present" /\ row[p].owner \in {None, t}
        /\ row[p].ceiling >= Level(clean) /\ model \in row[p].models
    BY DEF First, Eligible, Visible
  <2>2. row[p] \in Row
    BY <2>1 DEF TypeInv, TypeOK
  <2>3. clean \in SUBSET Message /\ \A m \in clean: m.text => ~m.pii
    BY RedactedType
  <2>4. \A m \in clean: m.level <= Level(clean) /\ m.level \in Levels
    BY <2>3, LevelBounds DEF Message
  <2>5. row[p].ceiling \in Levels /\ row[p].models \in SUBSET Models /\ row[p].url \in BOOLEAN
    BY <2>2, RowIs
  <2>6. Level(clean) \in Levels
    BY DEF Level, Levels
  <2>7. \A m \in clean: m.level <= row[p].ceiling
    BY <2>1, <2>4, <2>5, <2>6 DEF Levels
  <2>8. /\ KeySent(row[p]) \in {"none", "platform", "environment", "own"}
        /\ KeySent(row[p]) = "platform" => ~row[p].url
        /\ KeySent(row[p]) = "own" => row[p].owner # None
    BY <2>2, KeySentType
  <2>9. x \in Call
    BY <2>1, <2>3, <2>5, <2>8 DEF Call
  <2>10. QED
    BY <1>2, <2>1, <2>3, <2>7, <2>8, <2>9
<1>3. QED
  BY <1>1, <1>2 DEF Route

LEMMA ConsultGood ==
  ASSUME TypeInv, NEW c \in Calls, NEW t \in Tenants, Consult(c, t)
  PROVE  \E x \in Call:
           /\ call' = [call EXCEPT ![c] = x]
           /\ x.pc = "routed" /\ x.kind = "report" /\ x.tenant = t
           /\ x.on \in Providers => status[x.on] = "present"
           /\ x.key = "platform" => ~x.url
           /\ x.key = "own" => x.on \in Providers /\ row[x.on].owner = t
           /\ x.key # "environment"
<1> DEFINE report(p, key, url) ==
        [pc |-> "routed", kind |-> "report", tenant |-> t, model |-> None, messages |-> {},
         on |-> p, key |-> key, url |-> url, ceiling |-> 0, models |-> {}]
<1>1. report(None, "platform", FALSE) \in Call
  BY DEF Call, Levels
<1>2. CASE call' = [call EXCEPT ![c] = report(None, "platform", FALSE)]
  BY <1>1, <1>2, ProvidersAssumption
<1>3. ASSUME NEW p \in First(OwnClients(t)), row[p].own = "good",
             call' = [call EXCEPT ![c] = report(p, "own", row[p].url)]
      PROVE \E x \in Call:
           /\ call' = [call EXCEPT ![c] = x]
           /\ x.pc = "routed" /\ x.kind = "report" /\ x.tenant = t
           /\ x.on \in Providers => status[x.on] = "present"
           /\ x.key = "platform" => ~x.url
           /\ x.key = "own" => x.on \in Providers /\ row[x.on].owner = t
           /\ x.key # "environment"
  <2>1. p \in Providers /\ status[p] = "present" /\ row[p].owner = t
    BY DEF First, OwnClients
  <2>2. row[p].url \in BOOLEAN
    BY <2>1, RowIs DEF TypeInv, TypeOK
  <2>3. report(p, "own", row[p].url) \in Call
    BY <2>1, <2>2 DEF Call, Levels
  <2>4. QED
    BY <1>3, <2>1, <2>3
<1>4. QED
  BY <1>2, <1>3 DEF Consult
-----------------------------------------------------------------------------
\* A request is served once; the others keep what they ask, and those on the row that was
\* written are overtaken.
LEMMA Served ==
  ASSUME TypeInv, NEW r \in Requests, Pending(r), NEW wrote \in BOOLEAN, Serve(r, wrote)
  PROVE  /\ \A s \in Requests: req'[s] = Idle \/ req'[s] \in Request
         /\ DOMAIN req' = Requests /\ req' = [s \in Requests |-> req'[s]]
         /\ req'[r].pc = "served"
         /\ \A s \in Requests: Pending(s)' =>
              /\ s # r /\ Pending(s)
              /\ req'[s].kind = req[s].kind /\ req'[s].user = req[s].user
              /\ req'[s].on = req[s].on /\ req'[s].patch = req[s].patch
              /\ req'[s].overtaken \/ req'[s] = req[s]
              /\ wrote /\ req[s].on = req[r].on => req'[s].overtaken
<1> DEFINE hit(s) == s # r /\ wrote /\ Pending(s) /\ req[s].on = req[r].on
<1>1. /\ req[r] \in Request
      /\ \A s \in Requests: req[s] = Idle \/ req[s] \in Request
  BY DEF TypeInv, TypeOK, Pending
<1>2. /\ req'[r] = [req[r] EXCEPT !.pc = "served"]
      /\ \A s \in Requests: hit(s) => req'[s] = [req[s] EXCEPT !.overtaken = TRUE]
      /\ \A s \in Requests: s # r /\ ~hit(s) => req'[s] = req[s]
      /\ DOMAIN req' = Requests /\ req' = [s \in Requests |-> req'[s]]
  BY DEF Serve, Pending
<1>3. [req[r] EXCEPT !.pc = "served"] \in Request /\ [req[r] EXCEPT !.pc = "served"].pc = "served"
  BY <1>1 DEF Request
<1>4. ASSUME NEW s \in Requests, hit(s)
      PROVE  /\ req'[s] \in Request /\ req'[s].overtaken
             /\ req'[s].kind = req[s].kind /\ req'[s].user = req[s].user
             /\ req'[s].on = req[s].on /\ req'[s].patch = req[s].patch
  <2>1. req[s] \in Request
    BY <1>1, <1>4 DEF Pending
  <2>2. req'[s] = [req[s] EXCEPT !.overtaken = TRUE]
    BY <1>2, <1>4
  <2>3. QED
    BY <2>1, <2>2 DEF Request
<1>5. \A s \in Requests: req'[s] = Idle \/ req'[s] \in Request
  BY <1>1, <1>2, <1>3, <1>4
<1>6. ASSUME NEW s \in Requests, Pending(s)'
      PROVE  /\ s # r /\ Pending(s)
             /\ req'[s].kind = req[s].kind /\ req'[s].user = req[s].user
             /\ req'[s].on = req[s].on /\ req'[s].patch = req[s].patch
             /\ req'[s].overtaken \/ req'[s] = req[s]
             /\ wrote /\ req[s].on = req[r].on => req'[s].overtaken
  <2>1. s # r
    BY <1>2, <1>3, <1>6 DEF Pending
  <2>2. CASE hit(s)
    BY <1>4, <2>1, <2>2
  <2>3. CASE ~hit(s)
    <3>1. req'[s] = req[s]
      BY <1>2, <2>1, <2>3
    <3>2. Pending(s)
      BY <1>6, <3>1 DEF Pending
    <3>3. QED
      BY <2>1, <2>3, <3>1, <3>2
  <2>4. QED
    BY <2>2, <2>3
<1>7. QED
  BY <1>2, <1>3, <1>5, <1>6

\* A write that leaves the owners of the rows that exist disturbs no call.
LEMMA WriteKeepsCalls ==
  ASSUME TypeInv, KeysStayHome, ContentFitsProvider, UNCHANGED call,
         \A p \in Providers: status[p] # "new" =>
           status'[p] # "new" /\ row'[p].owner = row[p].owner
  PROVE  CallsName' /\ KeysStayHome' /\ ContentFitsProvider'
<1>1. \A c \in Calls: Active(c) =>
        call[c].on \in Providers \union {None} /\ call[c].kind \in {"gateway", "report"}
  BY DEF TypeInv, TypeOK, Active, Call
<1>2. CallsName'
  BY DEF TypeInv, CallsName, Active
<1>3. KeysStayHome'
  BY <1>1 DEF TypeInv, CallsName, KeysStayHome, Active
<1>4. ContentFitsProvider'
  BY <1>1 DEF TypeInv, CallsName, ContentFitsProvider, Active
<1>5. QED
  BY <1>2, <1>3, <1>4

\* A step of one call leaves the others, so only that call has to be looked at.
LEMMA CallStep ==
  ASSUME TypeInv, WriteInv, KeysStayHome, ContentFitsProvider, InvalidOnlyIfOvertaken,
         NEW c \in Calls, NEW x, call' = [call EXCEPT ![c] = x],
         UNCHANGED <<row, status, req, unchecked>>,
         recorded' \subseteq Providers,
         x.pc \in {"idle", "refused"} \/
           /\ x \in Call
           /\ x.kind = "gateway" => x.on \in Providers
           /\ x.on \in Providers => status[x.on] # "new"
           /\ x.pc \in {"recorded", "lost"} => x.kind = "gateway"
           /\ x.key = "platform" => ~x.url
           /\ x.key = "own" => x.on # None /\ row[x.on].owner = x.tenant
           /\ x.key = "environment" => x.kind = "gateway"
           /\ x.kind = "gateway" =>
                /\ \A m \in x.messages: m.level <= x.ceiling /\ (m.text => ~m.pii)
                /\ x.model \in x.models /\ row[x.on].owner \in {None, x.tenant}
  PROVE  TypeInv' /\ WriteInv' /\ KeysStayHome' /\ ContentFitsProvider' /\ InvalidOnlyIfOvertaken'
<1>1. /\ \A d \in Calls: call'[d] = IF d = c THEN x ELSE call[d]
      /\ DOMAIN call' = Calls /\ call' = [d \in Calls |-> call'[d]]
  BY DEF TypeInv, Functions
<1>2. TypeOK'
  BY <1>1 DEF TypeInv, TypeOK
<1>3. Functions'
  BY <1>1 DEF TypeInv, Functions
<1>4. CallsName'
  BY <1>1 DEF TypeInv, CallsName, Active
<1>5. WriteInv'
  BY DEF WriteInv, RequestsMayWrite, PatchesFit, Pending, MayWrite
<1>6. KeysStayHome'
  BY <1>1 DEF KeysStayHome
<1>7. ContentFitsProvider'
  BY <1>1 DEF ContentFitsProvider
<1>8. InvalidOnlyIfOvertaken'
  BY DEF InvalidOnlyIfOvertaken
<1>9. QED
  BY <1>2, <1>3, <1>4, <1>5, <1>6, <1>7, <1>8 DEF TypeInv
-----------------------------------------------------------------------------
LEMMA InitInv == Init => IInv
<1> SUFFICES ASSUME Init PROVE IInv
  OBVIOUS
<1>1. /\ \A p \in DOMAIN Rows0: p \in Providers /\ Rows0[p] \in Row
      /\ DOMAIN Rows0 \subseteq Providers
  BY ProvidersAssumption
<1>2. \A p \in Providers: (IF p \in DOMAIN Rows0 THEN Rows0[p] ELSE NoRow) \in Row
  BY <1>1, NoRowType
<1>3. TypeOK
  <2>1. row \in [Providers -> Row]
    BY <1>2 DEF Init
  <2>2. QED
    BY <1>1, <2>1 DEF Init, TypeOK, Idle
<1>4. Functions /\ CallsName
  BY DEF Init, Functions, CallsName, Active, Idle
<1>5. WriteInv
  BY DEF Init, WriteInv, RequestsMayWrite, PatchesFit, Pending
<1>6. KeysStayHome /\ ContentFitsProvider
  BY DEF Init, KeysStayHome, ContentFitsProvider, Idle
<1>7. InvalidOnlyIfOvertaken
  BY <1>1 DEF Init, InvalidOnlyIfOvertaken
<1>8. LogHolds
  BY DEF Init, LogHolds, LostIsGone, Idle
<1>9. QED
  BY <1>3, <1>4, <1>5, <1>6, <1>7, <1>8 DEF IInv, TypeInv

\* A new row is none that a request or a call is about.
LEMMA CreateInv ==
  ASSUME IInv, NEW p \in Providers, NEW user \in Users, NEW new \in NewRows, Create(p, user, new)
  PROVE  IInv'
<1>1. new \in Row /\ Valid(new) /\ status[p] = "new"
  BY ProvidersAssumption DEF Create
<1>2. /\ row' \in [Providers -> Row] /\ status' \in [Providers -> {"new", "present", "deleted"}]
      /\ row'[p] = new
      /\ \A q \in Providers: q # p => row'[q] = row[q] /\ status'[q] = status[q]
      /\ \A q \in Providers: status[q] # "new" => row'[q] = row[q] /\ status'[q] = status[q]
  BY <1>1 DEF IInv, TypeInv, TypeOK, Create
<1>3. UNCHANGED <<req, call, recorded, unchecked>>
  BY DEF Create
<1>4. TypeOK' /\ Functions'
  BY <1>2, <1>3 DEF IInv, TypeInv, TypeOK, Functions
<1>5. CallsName' /\ KeysStayHome' /\ ContentFitsProvider'
  <2>1. \A q \in Providers: status[q] # "new" =>
          status'[q] # "new" /\ row'[q].owner = row[q].owner
    BY <1>2
  <2>2. QED
    BY <1>3, <2>1, WriteKeepsCalls DEF IInv
<1>6. \A r \in Requests: Pending(r) => req[r].on \in Providers /\ status[req[r].on] # "new"
  BY DEF IInv, TypeInv, TypeOK, WriteInv, RequestsMayWrite, Pending, Request
<1>7. RequestsMayWrite'
  BY <1>2, <1>3, <1>6 DEF IInv, WriteInv, RequestsMayWrite, Pending, MayWrite
<1>8. PatchesFit'
  BY <1>2, <1>3, <1>6 DEF IInv, WriteInv, PatchesFit, Pending
<1>9. InvalidOnlyIfOvertaken'
  BY <1>1, <1>2, <1>3 DEF IInv, InvalidOnlyIfOvertaken
<1>10. LogHolds'
  <2>1. \A q \in recorded: q \in Providers
    BY DEF IInv, TypeInv, TypeOK
  <2>2. \A c \in Calls: call[c].pc = "lost" => call[c].on \in Providers
    BY DEF IInv, TypeInv, CallsName, Active
  <2>3. QED
    BY <1>2, <1>3, <2>1, <2>2 DEF IInv, LogHolds, LostIsGone
<1>11. QED
  BY <1>4, <1>5, <1>7, <1>8, <1>9, <1>10 DEF IInv, TypeInv, WriteInv

\* A request that passes its checks is on a row its user may write, and its patch fits.
LEMMA ReadInv ==
  ASSUME IInv, NEW r \in Requests, NEW user \in Users, NEW kind \in {"patch", "health", "delete"},
         NEW p \in Providers, NEW patch \in Patches, Read(r, user, kind, p, patch)
  PROVE  IInv'
<1> DEFINE x == [pc |-> "validated", kind |-> kind, user |-> user, on |-> p,
                 patch |-> patch, overtaken |-> FALSE]
<1>1. /\ \A s \in Requests: req'[s] = IF s = r THEN x ELSE req[s]
      /\ DOMAIN req' = Requests /\ req' = [s \in Requests |-> req'[s]]
      /\ UNCHANGED <<row, status, call, recorded, unchecked>>
  BY DEF Read, IInv, TypeInv, Functions
<1>2. x \in Request
  BY DEF Request
<1>3. /\ status[p] = "present" /\ row[p].owner \in {None, user.tenant}
      /\ MayWrite(user, row[p].owner)
      /\ kind = "patch" => Valid(Patched(row[p], patch))
      /\ kind = "health" => DOMAIN patch = {"healthy"}
  BY DEF Read, Visible
<1>4. TypeOK' /\ Functions'
  BY <1>1, <1>2 DEF IInv, TypeInv, TypeOK, Functions
<1>5. CallsName' /\ KeysStayHome' /\ ContentFitsProvider' /\ LogHolds'
  BY <1>1 DEF IInv, TypeInv, CallsName, Active, KeysStayHome, ContentFitsProvider, LogHolds, LostIsGone
<1>6. InvalidOnlyIfOvertaken'
  BY <1>1 DEF IInv, InvalidOnlyIfOvertaken
<1>7. RequestsMayWrite'
  <2> SUFFICES ASSUME NEW s \in Requests, Pending(s)'
               PROVE  /\ status[req'[s].on] # "new"
                      /\ MayWrite(req'[s].user, row[req'[s].on].owner)
                      /\ row[req'[s].on].owner \in {None, req'[s].user.tenant}
    BY <1>1 DEF RequestsMayWrite, MayWrite
  <2>1. CASE s = r
    BY <1>1, <1>3, <2>1
  <2>2. CASE s # r
    BY <1>1, <2>2 DEF IInv, WriteInv, RequestsMayWrite, Pending
  <2>3. QED
    BY <2>1, <2>2
<1>8. PatchesFit'
  <2> SUFFICES ASSUME NEW s \in Requests, Pending(s)'
               PROVE  /\ req'[s].kind = "health" => DOMAIN req'[s].patch = {"healthy"}
                      /\ req'[s].kind = "patch" /\ ~req'[s].overtaken =>
                           \/ status[req'[s].on] = "deleted"
                           \/ Valid(Patched(row[req'[s].on], req'[s].patch))
    BY <1>1 DEF PatchesFit
  <2>1. CASE s = r
    BY <1>1, <1>3, <2>1
  <2>2. CASE s # r
    BY <1>1, <2>2 DEF IInv, WriteInv, PatchesFit, Pending
  <2>3. QED
    BY <2>1, <2>2
<1>9. QED
  BY <1>4, <1>5, <1>6, <1>7, <1>8 DEF IInv, TypeInv, WriteInv

\* A PATCH that was not overtaken leaves a row the panel would accept.
LEMMA UpdateInv ==
  ASSUME IInv, NEW r \in Requests, Update(r)
  PROVE  IInv'
<1> DEFINE on == req[r].on
           there == status[on] = "present"
<1>1. Pending(r) /\ req[r].kind # "delete"
  BY DEF Update, Pending
<1>2. /\ req[r] \in Request /\ on \in Providers /\ req[r].patch \in Patches
      /\ req[r].kind \in {"patch", "health"} /\ row[on] \in Row
  BY <1>1 DEF IInv, TypeInv, TypeOK, Pending, Request
<1>3. Patched(row[on], req[r].patch) \in Row /\ Patched(row[on], req[r].patch).owner = row[on].owner
  BY <1>2, PatchedType
<1>4. /\ row' = IF there THEN [row EXCEPT ![on] = Patched(row[on], req[r].patch)] ELSE row
      /\ unchecked' = IF ~there \/ req[r].kind = "health" THEN unchecked
                      ELSE IF req[r].overtaken THEN unchecked \union {on}
                      ELSE unchecked \ {on}
      /\ Serve(r, there)
      /\ UNCHANGED <<status, call, recorded>>
  BY DEF Update
<1>5. /\ row' \in [Providers -> Row]
      /\ \A p \in Providers: row'[p].owner = row[p].owner
      /\ \A p \in Providers: p # on \/ ~there => row'[p] = row[p]
      /\ there => row'[on] = Patched(row[on], req[r].patch)
  BY <1>2, <1>3, <1>4 DEF IInv, TypeInv, TypeOK
<1>6. /\ unchecked' \subseteq Providers
      /\ \A p \in Providers: p # on /\ p \in unchecked => p \in unchecked'
      /\ ~there \/ req[r].kind = "health" => unchecked' = unchecked
      /\ there /\ req[r].kind # "health" /\ req[r].overtaken => on \in unchecked'
  <2>1. unchecked \subseteq Providers
    BY DEF IInv, TypeInv, TypeOK
  <2>2. CASE ~there \/ req[r].kind = "health"
    BY <1>4, <2>1, <2>2
  <2>3. CASE there /\ req[r].kind # "health" /\ req[r].overtaken
    BY <1>2, <1>4, <2>1, <2>3
  <2>4. CASE there /\ req[r].kind # "health" /\ ~req[r].overtaken
    <3>1. unchecked' = unchecked \ {on}
      BY <1>4, <2>4
    <3>2. QED
      BY <2>1, <2>4, <3>1
  <2>5. QED
    BY <2>2, <2>3, <2>4
<1>7. /\ \A s \in Requests: req'[s] = Idle \/ req'[s] \in Request
      /\ DOMAIN req' = Requests /\ req' = [s \in Requests |-> req'[s]]
      /\ \A s \in Requests: Pending(s)' =>
           /\ s # r /\ Pending(s)
           /\ req'[s].kind = req[s].kind /\ req'[s].user = req[s].user
           /\ req'[s].on = req[s].on /\ req'[s].patch = req[s].patch
           /\ req'[s].overtaken \/ req'[s] = req[s]
           /\ there /\ req[s].on = on => req'[s].overtaken
  BY <1>1, <1>4, Served DEF IInv
<1>8. TypeOK' /\ Functions'
  BY <1>4, <1>5, <1>6, <1>7 DEF IInv, TypeInv, TypeOK, Functions
<1>9. CallsName' /\ KeysStayHome' /\ ContentFitsProvider'
  BY <1>4, <1>5, WriteKeepsCalls DEF IInv
<1>10. \A s \in Requests: Pending(s) => req[s] \in Request /\ req[s].on \in Providers
  BY DEF IInv, TypeInv, TypeOK, Pending, Request
<1>11. RequestsMayWrite'
  BY <1>4, <1>5, <1>7, <1>10 DEF IInv, WriteInv, RequestsMayWrite, MayWrite
<1>12. PatchesFit'
  <2> SUFFICES ASSUME NEW s \in Requests, Pending(s)'
               PROVE  /\ req'[s].kind = "health" => DOMAIN req'[s].patch = {"healthy"}
                      /\ req'[s].kind = "patch" /\ ~req'[s].overtaken =>
                           \/ status[req'[s].on] = "deleted"
                           \/ Valid(Patched(row'[req'[s].on], req'[s].patch))
    BY <1>4 DEF PatchesFit
  <2>1. Pending(s) /\ req[s].on \in Providers
    BY <1>7, <1>10
  <2>2. req'[s].kind = "health" => DOMAIN req'[s].patch = {"healthy"}
    BY <1>7, <2>1 DEF IInv, WriteInv, PatchesFit
  <2>3. ASSUME req'[s].kind = "patch", ~req'[s].overtaken
        PROVE  \/ status[req'[s].on] = "deleted"
               \/ Valid(Patched(row'[req'[s].on], req'[s].patch))
    <3>1. req'[s] = req[s] /\ ~(there /\ req[s].on = on)
      BY <1>7, <2>3
    <3>2. row'[req[s].on] = row[req[s].on]
      BY <1>5, <2>1, <3>1
    <3>3. QED
      BY <2>1, <2>3, <3>1, <3>2 DEF IInv, WriteInv, PatchesFit
  <2>4. QED
    BY <2>2, <2>3
<1>13. InvalidOnlyIfOvertaken'
  <2> SUFFICES ASSUME NEW p \in Providers, status[p] = "present", ~Valid(row'[p])
               PROVE  p \in unchecked'
    BY <1>4 DEF InvalidOnlyIfOvertaken
  <2>1. CASE p # on \/ ~there
    BY <1>5, <1>6, <2>1 DEF IInv, InvalidOnlyIfOvertaken
  <2>2. CASE p = on /\ there /\ req[r].kind = "health"
    <3>1. DOMAIN req[r].patch = {"healthy"}
      BY <1>1, <2>2 DEF IInv, WriteInv, PatchesFit
    <3>2. ~Valid(row[on])
      <4>1. Valid(Patched(row[on], req[r].patch)) <=> Valid(row[on])
        BY <1>2, <3>1, HealthHarmless
      <4>2. row'[p] = Patched(row[on], req[r].patch)
        BY <1>5, <2>2
      <4>3. ~Valid(Patched(row[on], req[r].patch))
        BY <4>2
      <4>4. QED
        BY <4>1, <4>3
    <3>3. QED
      BY <1>6, <2>2, <3>2 DEF IInv, InvalidOnlyIfOvertaken
  <2>3. CASE p = on /\ there /\ req[r].kind = "patch"
    <3>1. CASE req[r].overtaken
      BY <1>6, <2>3, <3>1
    <3>2. CASE ~req[r].overtaken
      BY <1>1, <1>5, <2>3, <3>2 DEF IInv, WriteInv, PatchesFit
    <3>3. QED
      BY <3>1, <3>2
  <2>4. QED
    BY <1>2, <2>1, <2>2, <2>3
<1>14. LogHolds'
  BY <1>4 DEF IInv, LogHolds, LostIsGone
<1>15. QED
  BY <1>8, <1>9, <1>11, <1>12, <1>13, <1>14 DEF IInv, TypeInv, WriteInv

\* A provider the log names stays; another leaves the table, and its row is written no more.
LEMMA DeleteInv ==
  ASSUME IInv, NEW r \in Requests, Delete(r)
  PROVE  IInv'
<1> DEFINE on == req[r].on
           gone == on \notin recorded
<1>1. Pending(r)
  BY DEF Delete, Pending
<1>2. on \in Providers /\ status[on] # "new"
  BY <1>1 DEF IInv, TypeInv, TypeOK, WriteInv, RequestsMayWrite, Pending, Request
<1>3. /\ status' = IF on \in recorded THEN status ELSE [status EXCEPT ![on] = "deleted"]
      /\ Serve(r, gone)
      /\ UNCHANGED <<row, call, recorded, unchecked>>
  BY DEF Delete
<1>4. /\ status' \in [Providers -> {"new", "present", "deleted"}]
      /\ \A p \in Providers: p # on \/ ~gone => status'[p] = status[p]
      /\ gone => status'[on] = "deleted"
  BY <1>2, <1>3 DEF IInv, TypeInv, TypeOK
<1>5. /\ \A s \in Requests: req'[s] = Idle \/ req'[s] \in Request
      /\ DOMAIN req' = Requests /\ req' = [s \in Requests |-> req'[s]]
      /\ \A s \in Requests: Pending(s)' =>
           /\ s # r /\ Pending(s)
           /\ req'[s].kind = req[s].kind /\ req'[s].user = req[s].user
           /\ req'[s].on = req[s].on /\ req'[s].patch = req[s].patch
           /\ req'[s].overtaken \/ req'[s] = req[s]
  BY <1>1, <1>3, Served DEF IInv
<1>6. TypeOK' /\ Functions'
  BY <1>3, <1>4, <1>5 DEF IInv, TypeInv, TypeOK, Functions
<1>7. CallsName' /\ KeysStayHome' /\ ContentFitsProvider'
  <2>1. \A p \in Providers: status[p] # "new" =>
          status'[p] # "new" /\ row'[p].owner = row[p].owner
    BY <1>3, <1>4
  <2>2. QED
    BY <1>3, <2>1, WriteKeepsCalls DEF IInv
<1>8. \A s \in Requests: Pending(s) => req[s] \in Request /\ req[s].on \in Providers
  BY DEF IInv, TypeInv, TypeOK, Pending, Request
<1>9. RequestsMayWrite'
  BY <1>3, <1>4, <1>5, <1>8 DEF IInv, WriteInv, RequestsMayWrite, MayWrite
<1>10. PatchesFit'
  <2> SUFFICES ASSUME NEW s \in Requests, Pending(s)'
               PROVE  /\ req'[s].kind = "health" => DOMAIN req'[s].patch = {"healthy"}
                      /\ req'[s].kind = "patch" /\ ~req'[s].overtaken =>
                           \/ status'[req'[s].on] = "deleted"
                           \/ Valid(Patched(row[req'[s].on], req'[s].patch))
    BY <1>3 DEF PatchesFit
  <2>1. Pending(s) /\ req[s].on \in Providers
    BY <1>5, <1>8
  <2>2. req'[s].kind = "health" => DOMAIN req'[s].patch = {"healthy"}
    BY <1>5, <2>1 DEF IInv, WriteInv, PatchesFit
  <2>3. ASSUME req'[s].kind = "patch", ~req'[s].overtaken
        PROVE  \/ status'[req'[s].on] = "deleted"
               \/ Valid(Patched(row[req'[s].on], req'[s].patch))
    <3>1. req'[s] = req[s]
      BY <1>5, <2>3
    <3>2. status[req[s].on] = "deleted" \/ Valid(Patched(row[req[s].on], req[s].patch))
      BY <2>1, <2>3, <3>1 DEF IInv, WriteInv, PatchesFit
    <3>3. status[req[s].on] = "deleted" => status'[req[s].on] = "deleted"
      BY <1>4, <2>1
    <3>4. QED
      BY <3>1, <3>2, <3>3
  <2>4. QED
    BY <2>2, <2>3
<1>11. InvalidOnlyIfOvertaken'
  BY <1>2, <1>3, <1>4 DEF IInv, InvalidOnlyIfOvertaken
<1>12. LogHolds'
  <2>1. \A p \in recorded: p \in Providers /\ status'[p] = "present"
    BY <1>4 DEF IInv, TypeInv, TypeOK, LogHolds, LostIsGone
  <2>2. ASSUME NEW c \in Calls, call[c].pc = "lost"
        PROVE  status'[call[c].on] = "deleted"
    <3>1. call[c].on \in Providers /\ status[call[c].on] = "deleted"
      BY <2>2 DEF IInv, TypeInv, CallsName, Active, LogHolds, LostIsGone
    <3>2. QED
      BY <1>4, <3>1
  <2>3. QED
    BY <1>3, <2>1, <2>2 DEF LogHolds, LostIsGone
<1>13. QED
  BY <1>6, <1>7, <1>9, <1>10, <1>11, <1>12 DEF IInv, TypeInv, WriteInv
-----------------------------------------------------------------------------
LEMMA RouteInv ==
  ASSUME IInv, NEW c \in Calls, NEW t \in Tenants, NEW model \in Models,
         NEW messages \in Contents, Route(c, t, model, messages)
  PROVE  IInv'
<1>1. UNCHANGED <<row, status, req, recorded, unchecked>> /\ recorded \subseteq Providers
  BY DEF Route, IInv, TypeInv, TypeOK
<1>2. CASE call' = [call EXCEPT ![c] = [pc |-> "refused"]]
  <2>1. TypeInv' /\ WriteInv' /\ KeysStayHome' /\ ContentFitsProvider' /\ InvalidOnlyIfOvertaken'
    BY <1>1, <1>2, CallStep DEF IInv
  <2>2. LogHolds'
    BY <1>1, <1>2 DEF IInv, TypeInv, Functions, LogHolds, LostIsGone
  <2>3. QED
    BY <2>1, <2>2 DEF IInv
<1>3. ASSUME NEW x \in Call, call' = [call EXCEPT ![c] = x],
             x.pc = "routed", x.kind = "gateway", x.tenant = t,
             x.on \in Providers, status[x.on] = "present",
             x.key = "platform" => ~x.url,
             x.key = "own" => row[x.on].owner = t,
             \A m \in x.messages: m.level <= x.ceiling /\ (m.text => ~m.pii),
             x.model \in x.models,
             row[x.on].owner \in {None, t}
      PROVE  IInv'
  <2>1. x.on # None /\ x.pc \notin {"recorded", "lost"} /\ status[x.on] # "new"
    BY <1>3, ProvidersAssumption
  <2>2. TypeInv' /\ WriteInv' /\ KeysStayHome' /\ ContentFitsProvider' /\ InvalidOnlyIfOvertaken'
    BY <1>1, <1>3, <2>1, CallStep DEF IInv
  <2>3. LogHolds'
    BY <1>1, <1>3 DEF IInv, TypeInv, Functions, LogHolds, LostIsGone
  <2>4. QED
    BY <2>2, <2>3 DEF IInv
<1>4. QED
  BY <1>2, <1>3, RouteGood DEF IInv

LEMMA ConsultInv ==
  ASSUME IInv, NEW c \in Calls, NEW t \in Tenants, Consult(c, t)
  PROVE  IInv'
<1>1. UNCHANGED <<row, status, req, recorded, unchecked>> /\ recorded \subseteq Providers
  BY DEF Consult, IInv, TypeInv, TypeOK
<1>2. ASSUME NEW x \in Call, call' = [call EXCEPT ![c] = x],
             x.pc = "routed", x.kind = "report", x.tenant = t,
             x.on \in Providers => status[x.on] = "present",
             x.key = "platform" => ~x.url,
             x.key = "own" => x.on \in Providers /\ row[x.on].owner = t,
             x.key # "environment"
      PROVE  IInv'
  <2>1. x.key = "own" => x.on # None
    BY <1>2, ProvidersAssumption
  <2>2. x.on \in Providers => status[x.on] # "new"
    BY <1>2
  <2>3. TypeInv' /\ WriteInv' /\ KeysStayHome' /\ ContentFitsProvider' /\ InvalidOnlyIfOvertaken'
    BY <1>1, <1>2, <2>1, <2>2, CallStep DEF IInv
  <2>4. LogHolds'
    BY <1>1, <1>2 DEF IInv, TypeInv, Functions, LogHolds, LostIsGone
  <2>5. QED
    BY <2>3, <2>4 DEF IInv
<1>3. QED
  BY <1>2, ConsultGood DEF IInv

\* What has been fixed when a call was routed does not change when it is sent or recorded.
LEMMA ProgressInv ==
  ASSUME IInv, NEW c \in Calls, Forward(c) \/ Record(c)
  PROVE  IInv'
<1>1. PICK pc \in {"sent", "recorded", "lost"}:
        /\ call' = [call EXCEPT ![c].pc = pc]
        /\ UNCHANGED <<row, status, req, unchecked>>
        /\ call[c].pc \in {"routed", "sent"}
        /\ pc = "sent" => UNCHANGED recorded
        /\ pc = "recorded" => /\ call[c].kind = "gateway" /\ status[call[c].on] = "present"
                              /\ recorded' = recorded \union {call[c].on}
        /\ pc = "lost" => /\ call[c].kind = "gateway" /\ status[call[c].on] # "present"
                          /\ UNCHANGED recorded
  <2>1. CASE Forward(c)
    BY <2>1 DEF Forward
  <2>2. CASE Record(c) /\ status[call[c].on] = "present"
    BY <2>2 DEF Record
  <2>3. CASE Record(c) /\ status[call[c].on] # "present"
    BY <2>3 DEF Record
  <2>4. QED
    BY <2>1, <2>2, <2>3
<1> DEFINE x == [call[c] EXCEPT !.pc = pc]
<1>2. Active(c) /\ call[c] \in Call
  BY <1>1 DEF Active, IInv, TypeInv, TypeOK
<1>3. /\ x \in Call /\ x.pc = pc /\ x.kind = call[c].kind /\ x.tenant = call[c].tenant
      /\ x.model = call[c].model /\ x.messages = call[c].messages /\ x.on = call[c].on
      /\ x.key = call[c].key /\ x.url = call[c].url /\ x.ceiling = call[c].ceiling
      /\ x.models = call[c].models
  BY <1>2 DEF Call
<1>4. call' = [call EXCEPT ![c] = x]
  BY <1>1 DEF IInv, TypeInv, Functions
<1>5. /\ x.kind = "gateway" => x.on \in Providers
      /\ x.on \in Providers => status[x.on] # "new"
      /\ x.pc \in {"recorded", "lost"} => x.kind = "gateway"
  BY <1>1, <1>2, <1>3 DEF IInv, TypeInv, CallsName
<1>6. /\ x.key = "platform" => ~x.url
      /\ x.key = "own" => x.on # None /\ row[x.on].owner = x.tenant
      /\ x.key = "environment" => x.kind = "gateway"
  BY <1>2, <1>3 DEF IInv, KeysStayHome, Active
<1>7. x.kind = "gateway" =>
        /\ \A m \in x.messages: m.level <= x.ceiling /\ (m.text => ~m.pii)
        /\ x.model \in x.models /\ row[x.on].owner \in {None, x.tenant}
  BY <1>2, <1>3 DEF IInv, ContentFitsProvider, Active
<1>8. recorded' \subseteq Providers
  BY <1>1, <1>3, <1>5 DEF IInv, TypeInv, TypeOK
<1>9. TypeInv' /\ WriteInv' /\ KeysStayHome' /\ ContentFitsProvider' /\ InvalidOnlyIfOvertaken'
  BY <1>1, <1>3, <1>4, <1>5, <1>6, <1>7, <1>8, CallStep DEF IInv
<1>10. LogHolds'
  <2>1. \A d \in Calls: call'[d] = IF d = c THEN x ELSE call[d]
    BY <1>4 DEF IInv, TypeInv, Functions
  <2>2. ASSUME pc = "lost" PROVE status[x.on] = "deleted"
    BY <1>1, <1>3, <1>5, <2>2 DEF IInv, TypeInv, TypeOK
  <2>3. \A p \in recorded': status'[p] = "present"
    BY <1>1 DEF IInv, LogHolds, LostIsGone
  <2>4. QED
    BY <1>1, <1>3, <2>1, <2>2, <2>3 DEF IInv, LogHolds, LostIsGone
<1>11. QED
  BY <1>9, <1>10 DEF IInv

LEMMA StepInv ==
  ASSUME IInv, [Next]_vars
  PROVE  IInv'
<1>1. CASE UNCHANGED vars
  BY <1>1 DEF vars, IInv, TypeInv, TypeOK, Functions, CallsName, Active, WriteInv, RequestsMayWrite,
              MayWrite, PatchesFit, Pending, KeysStayHome, ContentFitsProvider,
              InvalidOnlyIfOvertaken, LogHolds, LostIsGone
<1>2. CASE \E p \in Providers, user \in Users, new \in NewRows: Create(p, user, new)
  BY <1>2, CreateInv
<1>3. CASE \E r \in Requests, user \in Users, kind \in {"patch", "health", "delete"}:
             \E p \in Providers, patch \in Patches: Read(r, user, kind, p, patch)
  BY <1>3, ReadInv
<1>4. CASE \E r \in Requests: Update(r)
  BY <1>4, UpdateInv
<1>5. CASE \E r \in Requests: Delete(r)
  BY <1>5, DeleteInv
<1>6. CASE \E c \in Calls, t \in Tenants, model \in Models, messages \in Contents:
             Route(c, t, model, messages)
  BY <1>6, RouteInv
<1>7. CASE \E c \in Calls, t \in Tenants: Consult(c, t)
  BY <1>7, ConsultInv
<1>8. CASE \E c \in Calls: Forward(c) \/ Record(c)
  BY <1>8, ProgressInv
<1>9. QED
  BY <1>1, <1>2, <1>3, <1>4, <1>5, <1>6, <1>7, <1>8 DEF Next

LEMMA Invariance == Spec => []IInv
<1>1. IInv /\ [Next]_vars => IInv'
  BY StepInv
<1>2. QED
  BY InitInv, <1>1, PTL DEF Spec

\* Every row, request and call has the fields the code gives it.
THEOREM TypeCorrect == Spec => []TypeOK
<1>1. IInv => TypeOK
  BY DEF IInv, TypeInv
<1>2. QED
  BY Invariance, <1>1, PTL

\* Whatever PATCHes overtake one another, no organisation's key is used for another, the
\* gateway hands no key of the platform to an address a row gives, and only a call of the
\* gateway goes out with a key nobody handed over (resolve_api_key, handle_chat_completion,
\* anthropic_client).  Where that key goes is not said: PlatformKeysGoToTheProvider fails.
THEOREM KeysCorrect == Spec => []KeysStayHome
<1>1. IInv => KeysStayHome
  BY DEF IInv
<1>2. QED
  BY Invariance, <1>1, PTL

\* The gateway sends nothing above the ceiling of the provider it selected, nor personal
\* data it recognised in plain text (handle_chat_completion).
THEOREM ContentCorrect == Spec => []ContentFitsProvider
<1>1. IInv => ContentFitsProvider
  BY DEF IInv
<1>2. QED
  BY Invariance, <1>1, PTL

\* Only a PATCH that another write of the row has overtaken leaves a row whose
\* configuration would be refused (update_provider).
THEOREM ValidCorrect == Spec => []InvalidOnlyIfOvertaken
<1>1. IInv => InvalidOnlyIfOvertaken
  BY DEF IInv
<1>2. QED
  BY Invariance, <1>1, PTL

\* A provider the log names is never deleted, and where the foreign key refused the record of
\* one call no other call has a record that names the provider (delete_provider, write_audit).
THEOREM LogCorrect == Spec => []LogKeepsItsProviders
<1>1. IInv => LogKeepsItsProviders
  BY DEF IInv, LogHolds, LostIsGone, LogKeepsItsProviders
<1>2. QED
  BY Invariance, <1>1, PTL

LEMMA OwnersStep ==
  ASSUME IInv, [Next]_vars, NEW p \in Providers, status[p] = "present",
         row'[p] # row[p] \/ status'[p] # status[p]
  PROVE  \E r \in Requests: /\ req[r] # Idle /\ req[r].pc = "validated" /\ req[r].on = p
                            /\ req'[r].pc = "served"
                            /\ IF row[p].owner = None THEN req[r].user.super
                               ELSE row[p].owner = req[r].user.tenant
<1>1. ASSUME NEW q \in Providers, NEW user \in Users, NEW new \in NewRows, Create(q, user, new)
      PROVE  row'[p] = row[p] /\ status'[p] = status[p]
  BY <1>1 DEF Create, IInv, TypeInv, TypeOK
<1>2. PICK r \in Requests: Update(r) \/ Delete(r)
  BY <1>1 DEF Next, vars, Read, Route, Consult, Forward, Record
<1>3. Pending(r) /\ req[r].on \in Providers
  BY <1>2 DEF Update, Delete, Pending, IInv, TypeInv, TypeOK, Request
<1>4. req[r].on = p
  BY <1>2, <1>3 DEF Update, Delete, IInv, TypeInv, TypeOK
<1>5. req'[r].pc = "served"
  <2>1. PICK wrote \in BOOLEAN: Serve(r, wrote)
    BY <1>2 DEF Update, Delete
  <2>2. QED
    BY <1>3, <2>1, Served DEF IInv
<1>6. /\ row[p].owner = None => req[r].user.super
      /\ row[p].owner # None => row[p].owner = req[r].user.tenant
  BY <1>3, <1>4 DEF IInv, WriteInv, RequestsMayWrite, MayWrite
<1>7. QED
  BY <1>3, <1>4, <1>5, <1>6 DEF Pending

\* A row changes only by a request of somebody who may write it: a super-admin a row of the
\* platform, the organisation its own (_get_writable, _deny_platform_write).
THEOREM OwnersCorrect == Spec => OwnersOnly
<1> DEFINE Step == \A p \in Providers:
       status[p] = "present" /\ (row'[p] # row[p] \/ status'[p] # status[p]) =>
         \E r \in Requests: /\ req[r] # Idle /\ req[r].pc = "validated" /\ req[r].on = p
                            /\ req'[r].pc = "served"
                            /\ IF row[p].owner = None THEN req[r].user.super
                               ELSE row[p].owner = req[r].user.tenant
<1>1. IInv /\ [Next]_vars => [Step]_vars
  BY OwnersStep
<1>2. OwnersOnly <=> [][Step]_vars
  BY DEF OwnersOnly
<1> HIDE DEF Step
<1>3. QED
  BY Invariance, <1>1, <1>2, PTL DEF Spec
=============================================================================
