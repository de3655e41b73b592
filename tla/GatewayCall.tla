---------------------------- MODULE GatewayCall ----------------------------
(***************************************************************************)
(* A chat completion call through the gateway (gateway/proxy.py) and what  *)
(* it leaves behind: rows of the audit log and events of the live feed,    *)
(* written by background tasks (gateway/audit_logger.py), tasks of the     *)
(* oversight queue (Oversight), prompts handed to a model.  Calls of one   *)
(* organisation, interleaved at the awaits of the handler; the agents and  *)
(* the policies change meanwhile.  Agents are read from the database, the  *)
(* policies through a cache that lags behind it: what is in force was read *)
(* earlier, one read at a time (PolicyCache says by whom and under which   *)
(* lock).  Which provider is chosen, and what the model answers, is left   *)
(* open.                                                                   *)
(***************************************************************************)
EXTENDS Naturals, FiniteSets

CONSTANTS Agents,    \* agent ids that callers name
          Prompts,   \* contents, as far as the keywords of the policies tell them apart
          Calls,     \* call ids
          RuleTypes, \* the rule_types of the policies the organisation writes
          NoAgent,   \* no row of `agents` in this organisation
          NoRules    \* no entry of the organisation in _deny_rules, no read under way

\* A policy is known by its rule_type and the contents its keywords match.
Policies == [kind: RuleTypes, prompt: Prompts]
AgentRows == [status: {"active", "suspended"}, oversight: BOOLEAN]

\* "autonomous": the agent was active and needed no oversight; "undenied", "unwatched":
\* no deny policy, no require_oversight policy matched the prompt.
PolicyMoments == {"undenied", "unwatched"}
Moments == {"autonomous"} \union PolicyMoments

\* Rules as read: the contents they deny and, as history, what has been true in the
\* database at some moment since they were read.
Rules == [denied: SUBSET Prompts, seen: [Prompts -> SUBSET PolicyMoments]]

ASSUME CallAssumption ==
  /\ NoAgent \notin AgentRows /\ NoRules \notin Rules
  /\ Agents # {} /\ Prompts # {}
  /\ RuleTypes \subseteq {"deny", "require_oversight"}

VARIABLES demo,      \* settings.demo_mode
          agent,     \* the agents table
          policies,  \* the active policies in the database
          rules,     \* _deny_rules of the organisation
          reading,   \* what the read under way will bring: of a first load or a refresh
          call,      \* handle_chat_completion of each call
          sent,      \* calls whose prompt was handed to a model
          queued,    \* calls with a row in oversight_queue
          task,      \* write_audit of each call, a background task
          audit,     \* audit_log
          feed,      \* calls with an event on a live-feed channel
          since      \* history: what has been true at some moment of the call; of the
                     \* policies, also before it, since the rules in force were read

vars == <<demo, agent, policies, rules, reading, call, sent, queued, task, audit, feed, since>>

PCs == {"new", "lookup", "rules", "push", "announce", "route", "model", "answered"}
Answers == {"refused", "unknown_agent", "agent_inactive", "policies_unavailable", "blocked",
            "oversight_required", "no_eligible_provider", "llm_error", "call_completed",
            "server_error"}
Audited == {"unknown_agent", "agent_inactive", "blocked", "oversight_required",
            "no_eligible_provider", "llm_error", "call_completed"}

TypeOK ==
  /\ demo \in BOOLEAN
  /\ agent \in [Agents -> AgentRows \union {NoAgent}]
  /\ policies \in SUBSET Policies
  /\ rules \in Rules \union {NoRules}
  /\ reading \in Rules \union {NoRules}
  /\ call \in [Calls -> [pc: PCs, agent: Agents, prompt: Prompts, oversight: BOOLEAN,
                         answer: Answers \union {"none"}]]
  /\ sent \in SUBSET Calls
  /\ queued \in SUBSET Calls
  /\ task \in [Calls -> {"none", "insert", "publish", "done", "lost"}]
  /\ audit \in SUBSET (Calls \X Audited)
  /\ feed \in SUBSET Calls
  /\ since \in [Calls -> SUBSET Moments]

Matches(kind, P, p) == [kind |-> kind, prompt |-> p] \in P

\* What is true at this moment of content p, and for a call of an agent with this row.
Unmatched(P, p) ==
  (IF Matches("deny", P, p) THEN {} ELSE {"undenied"})
  \union (IF Matches("require_oversight", P, p) THEN {} ELSE {"unwatched"})
Now(row, P, p) ==
  (IF row = [status |-> "active", oversight |-> FALSE] THEN {"autonomous"} ELSE {})
  \union Unmatched(P, p)

InProgress(c) == call[c].pc \notin {"new", "answered"}

NewCall == [pc |-> "new", agent |-> CHOOSE a \in Agents: TRUE,
            prompt |-> CHOOSE p \in Prompts: TRUE, oversight |-> FALSE, answer |-> "none"]

Init ==
  /\ demo \in BOOLEAN
  /\ agent = [a \in Agents |-> NoAgent]
  /\ policies = {}
  /\ rules = NoRules /\ reading = NoRules
  /\ call = [c \in Calls |-> NewCall]
  /\ sent = {} /\ queued = {} /\ audit = {} /\ feed = {}
  /\ task = [c \in Calls |-> "none"]
  /\ since = [c \in Calls |-> {}]
-----------------------------------------------------------------------------
\* Meanwhile, in the panel: agents are registered and changed, policies come and go.

Witnessed(rows, P) ==
  [c \in Calls |->
     IF InProgress(c) THEN since[c] \union Now(rows[call[c].agent], P, call[c].prompt)
                      ELSE since[c]]

ChangeAgent(a, row) ==
  /\ row # agent[a]
  /\ agent' = [agent EXCEPT ![a] = row]
  /\ since' = Witnessed(agent', policies)
  /\ UNCHANGED <<demo, policies, rules, reading, call, sent, queued, task, audit, feed>>

Aged(read, P) ==
  IF read = NoRules
  THEN NoRules
  ELSE [read EXCEPT !.seen = [p \in Prompts |-> @[p] \union Unmatched(P, p)]]

\* The change is committed; what the handlers go by is what was read.
ChangePolicy(rule) ==
  /\ policies' = IF rule \in policies THEN policies \ {rule} ELSE policies \union {rule}
  /\ rules' = Aged(rules, policies')
  /\ reading' = Aged(reading, policies')
  /\ since' = Witnessed(agent, policies')
  /\ UNCHANGED <<demo, agent, call, sent, queued, task, audit, feed>>
-----------------------------------------------------------------------------
\* The rule cache: the read, which the database answers at some moment, ...

\* fetch_active_policies, of which load_rules keeps the deny rules.
ReadNow == [denied |-> {p \in Prompts: Matches("deny", policies, p)},
            seen |-> [p \in Prompts |-> Unmatched(policies, p)]]

handling == <<demo, agent, policies, call, sent, queued, task, audit, feed, since>>

\* ... for a call that finds no rules, or for the refresh loop.
ReadRules ==
  /\ reading = NoRules
  /\ rules = NoRules => \E c \in Calls: call[c].pc = "rules"
  /\ reading' = ReadNow
  /\ UNCHANGED <<handling, rules>>

\* load_rules.
StoreRules ==
  /\ reading # NoRules
  /\ rules' = reading
  /\ reading' = NoRules
  /\ UNCHANGED handling

\* A refresh fails: the rules in force stay.
RefreshFails ==
  /\ rules # NoRules /\ reading # NoRules
  /\ reading' = NoRules
  /\ UNCHANGED <<handling, rules>>
-----------------------------------------------------------------------------
\* handle_chat_completion, from await to await.

Advance(c, pc) ==
  /\ call' = [call EXCEPT ![c].pc = pc]
  /\ UNCHANGED task

\* An answer that the handler audits on its way out, fire and forget ...
Answer(c, answer) ==
  /\ call' = [call EXCEPT ![c].pc = "answered", ![c].answer = answer]
  /\ task' = [task EXCEPT ![c] = "insert"]

\* ... and one it does not.
AnswerUnaudited(c, answer) ==
  /\ call' = [call EXCEPT ![c].pc = "answered", ![c].answer = answer]
  /\ UNCHANGED task

environment == <<demo, agent, policies, rules, reading>>
effects == <<sent, queued>>
records == <<audit, feed>>

\* The key belongs to another agent, or X-Agent-ID or the messages are missing.
Refuse(c) ==
  /\ call[c].pc = "new"
  /\ AnswerUnaudited(c, "refused")
  /\ UNCHANGED <<environment, effects, records, since>>

\* What has been true of content p since the rules in force, or about to be, were read.
SeenSoFar(p) ==
  CASE rules # NoRules -> rules.seen[p]
    [] rules = NoRules /\ reading # NoRules -> reading.seen[p]
    [] OTHER -> Unmatched(policies, p)

Arrive(c, a, p) ==
  /\ call[c].pc = "new"
  /\ call' = [call EXCEPT ![c] = [NewCall EXCEPT !.pc = "lookup", !.agent = a, !.prompt = p]]
  /\ since' = [since EXCEPT ![c] = Now(agent[a], policies, p) \union SeenSoFar(p)]
  /\ UNCHANGED <<environment, effects, task, records>>

\* get_agent, the two checks, and the scan of the input.
GetAgent(c) ==
  LET row == agent[call[c].agent]
  IN /\ call[c].pc = "lookup"
     /\ IF row = NoAgent
        THEN Answer(c, "unknown_agent")
        ELSE IF row.status # "active"
        THEN Answer(c, "agent_inactive")
        ELSE /\ call' = [call EXCEPT ![c].pc = "rules", ![c].oversight = row.oversight]
             /\ UNCHANGED task
     /\ UNCHANGED <<environment, effects, records, since>>

\* evaluate: the deny rules in force first, then the agent's own flag.
Decision(c) ==
  CASE call[c].prompt \in rules.denied -> "blocked"
    [] call[c].prompt \notin rules.denied /\ call[c].oversight -> "oversight_required"
    [] OTHER -> "allowed"

\* Mutant: the provider is chosen before the decision is looked at.
RouteBeforeDecision(c) ==
  /\ call[c].pc = "rules"
  /\ Advance(c, "route")
  /\ UNCHANGED <<environment, effects, records, since>>

\* Mutant: the audit task is started before the push, which may still fail.
AuditBeforePush(c) ==
  /\ call[c].pc = "rules"
  /\ rules # NoRules
  /\ \/ Decision(c) = "blocked" /\ Answer(c, "blocked")
     \/ Decision(c) = "oversight_required" /\ Answer(c, "oversight_required")
     \/ Decision(c) = "allowed" /\ ~demo /\ Advance(c, "route")
     \/ Decision(c) = "allowed" /\ demo /\ Answer(c, "call_completed")
  /\ UNCHANGED <<environment, effects, records, since>>

\* ensure_loaded returns, evaluate, and the branch on the decision.
Decide(c) ==
  /\ call[c].pc = "rules"
  /\ rules # NoRules
  /\ \/ Decision(c) = "blocked" /\ Answer(c, "blocked")
     \/ Decision(c) = "oversight_required" /\ Advance(c, "push")
     \/ Decision(c) = "allowed" /\ ~demo /\ Advance(c, "route")
     \/ Decision(c) = "allowed" /\ demo /\ Answer(c, "call_completed")
  /\ UNCHANGED <<environment, effects, records, since>>

\* Mutant: the error is swallowed, and the call is judged by no rules at all.
JudgedByNone(c) ==
  /\ call[c].pc = "rules"
  /\ rules = NoRules
  /\ \/ call[c].oversight /\ Advance(c, "push")
     \/ ~call[c].oversight /\ ~demo /\ Advance(c, "route")
  /\ reading' = NoRules
  /\ UNCHANGED <<demo, agent, policies, rules, effects, records, since>>

\* "Fail closed": the read of a first load fails, and ensure_loaded raises.
RulesUnavailable(c) ==
  /\ call[c].pc = "rules"
  /\ rules = NoRules
  /\ AnswerUnaudited(c, "policies_unavailable")
  /\ reading' = NoRules
  /\ UNCHANGED <<demo, agent, policies, rules, effects, records, since>>

\* push_oversight_task: the row is committed, ...
PushTask(c) ==
  /\ call[c].pc = "push"
  /\ Advance(c, "announce")
  /\ queued' = queued \union {c}
  /\ UNCHANGED <<environment, sent, records, since>>

\* ... its event is published, and the caller gets the oversight id.
AnnounceTask(c) ==
  /\ call[c].pc = "announce"
  /\ Answer(c, "oversight_required")
  /\ UNCHANGED <<environment, effects, records, since>>

\* select_provider finds one, and the prompt goes out; or there is none.
Route(c) ==
  /\ call[c].pc = "route"
  /\ \/ Advance(c, "model") /\ sent' = sent \union {c}
     \/ Answer(c, "no_eligible_provider") /\ UNCHANGED sent
  /\ UNCHANGED <<environment, queued, records, since>>

Complete(c) ==
  /\ call[c].pc = "model"
  /\ Answer(c, "llm_error") \/ Answer(c, "call_completed")
  /\ UNCHANGED <<environment, effects, records, since>>

\* Mutant: every failure is audited too, as an event the log has no name for.
FailAudited(c) ==
  /\ call[c].pc \in {"lookup", "push", "announce", "route", "model"}
  /\ Answer(c, "server_error")
  /\ UNCHANGED <<environment, effects, records, since>>

\* An exception nobody handles (the agent or provider query, the push, an answer of
\* the model without choices), or the client hangs up: nothing is audited.
Fail(c) ==
  /\ call[c].pc \in {"lookup", "push", "announce", "route", "model"}
  /\ AnswerUnaudited(c, "server_error")
  /\ UNCHANGED <<environment, effects, records, since>>
-----------------------------------------------------------------------------
\* write_audit: INSERT in a transaction of its own, then the event.

OnFeed(answer) == answer # "oversight_required"

\* Mutant: the event goes out before the row is committed.
PublishFirst(c) ==
  /\ task[c] = "insert"
  /\ feed' = feed \union {c}
  /\ task' = [task EXCEPT ![c] = "done"]
  /\ UNCHANGED <<environment, call, effects, audit, since>>

InsertRow(c) ==
  /\ task[c] = "insert"
  /\ audit' = audit \union {<<c, call[c].answer>>}
  /\ task' = [task EXCEPT ![c] = IF OnFeed(call[c].answer) THEN "publish" ELSE "done"]
  /\ UNCHANGED <<environment, call, effects, feed, since>>

PublishRow(c) ==
  /\ task[c] = "publish"
  /\ feed' = feed \union {c}
  /\ task' = [task EXCEPT ![c] = "done"]
  /\ UNCHANGED <<environment, call, effects, audit, since>>

\* The exception is logged and swallowed, or the task is gone: with the process, or
\* because nothing holds a reference to it.
LoseTask(c) ==
  /\ task[c] \in {"insert", "publish"}
  /\ task' = [task EXCEPT ![c] = "lost"]
  /\ UNCHANGED <<environment, call, effects, records, since>>
-----------------------------------------------------------------------------
Handling(c) ==
  \/ Refuse(c) \/ (\E a \in Agents, p \in Prompts: Arrive(c, a, p))
  \/ GetAgent(c) \/ Decide(c) \/ RulesUnavailable(c)
  \/ PushTask(c) \/ AnnounceTask(c) \/ Route(c) \/ Complete(c) \/ Fail(c)

Recording(c) == InsertRow(c) \/ PublishRow(c) \/ LoseTask(c)

Next ==
  \/ \E a \in Agents, row \in AgentRows: ChangeAgent(a, row)
  \/ \E rule \in Policies: ChangePolicy(rule)
  \/ ReadRules \/ StoreRules \/ RefreshFails
  \/ \E c \in Calls: Handling(c) \/ Recording(c)

Spec == Init /\ [][Next]_vars
-----------------------------------------------------------------------------
Answered(c) == call[c].pc = "answered"

\* A prompt goes to a model only if its agent was at some moment of the call active
\* without oversight ("natychmiastowy efekt" of a suspension), and its content not denied
\* at some moment since the rules in force when the call came were read: a deny policy
\* binds the calls that come after a refresh has seen it, whatever is read, stored or
\* fails while they run.
ForwardingWasPermitted == \A c \in sent: {"autonomous", "undenied"} \subseteq since[c]

\* The decision of the policies wins over a failure of the routing: a call whose
\* content has been denied ever since the rules in force when it came were read never
\* gets as far as the queue or the providers.
DenialWins ==
  \A c \in Calls: Answered(c) /\ "undenied" \notin since[c] =>
    /\ call[c].answer \notin {"oversight_required", "no_eligible_provider", "llm_error",
                              "call_completed"}
    /\ c \notin sent /\ c \notin queued

\* What the audit log says of a call is what happened to it: one row at most, the
\* answer the caller got, a task in the queue behind an 'oversight_required', a prompt
\* sent behind a completion or a model error and behind nothing else.
AuditTellsTruth ==
  \A row \in audit:
    LET c == row[1]  event == row[2]
    IN /\ \A other \in audit: other[1] = c => other = row
       /\ Answered(c) /\ event = call[c].answer
       /\ event = "oversight_required" <=> c \in queued
       /\ event \in {"llm_error", "call_completed"} /\ ~demo <=> c \in sent

\* Every call keeps the promises of CallLedger: one truthful answer, after what was done
\* for it and never after anything else, one row of that answer at most, an event of that
\* row only, and nothing taken back.
Ledger == INSTANCE CallLedger WITH answer <- [c \in Calls |-> call[c].answer],
                                   log <- audit, shown <- feed
KeepsLedger == Ledger!Spec

\* "niezmienny zapis kazdego wywolania": a call whose prompt went to a model is in the
\* log once the call is answered and its background task is through.
EveryCallRecorded ==
  \A c \in sent: Answered(c) /\ task[c] \notin {"insert", "publish"} =>
    \E event \in Audited: <<c, event>> \in audit

\* "oversight_required" rules are enforced: a call whose content an active
\* require_oversight policy has matched ever since the rules in force when it came were
\* read is not handed to a model.
OversightRulesApply == \A c \in sent: "unwatched" \in since[c]
=============================================================================
