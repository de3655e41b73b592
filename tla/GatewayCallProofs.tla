-------------------------- MODULE GatewayCallProofs -------------------------
(***************************************************************************)
(* What may reach a model, and what the records say of it, for any number  *)
(* of agents, contents, policies and calls in progress, and whenever the   *)
(* rules are read, stored or not to be had.                                *)
(***************************************************************************)
EXTENDS GatewayCall, TLAPS

Routed == {"llm_error", "call_completed"}
Undenied == {"oversight_required", "no_eligible_provider", "llm_error", "call_completed"}

\* What has been done for a call is known from where it is.
FlowInv(c) ==
  /\ call[c].pc # "answered" =>
       /\ task[c] = "none"
       /\ c \in sent <=> call[c].pc = "model"
       /\ c \in queued <=> call[c].pc = "announce"
  /\ call[c].pc \in {"route", "model"} => ~demo
  /\ task[c] # "none" =>
       /\ call[c].pc = "answered"
       /\ call[c].answer \in Audited
       /\ call[c].answer = "oversight_required" <=> c \in queued
       /\ call[c].answer \in Routed /\ ~demo <=> c \in sent

\* What the handler has read was true at some moment of the call, the present included.
MomentInv(c) ==
  /\ call[c].pc = "rules" /\ ~call[c].oversight => "autonomous" \in since[c]
  /\ call[c].pc \in {"push", "announce"} \/ c \in queued => "undenied" \in since[c]
  /\ call[c].pc \in {"route", "model"} \/ c \in sent =>
       "autonomous" \in since[c] /\ "undenied" \in since[c]
  /\ call[c].pc = "answered" /\ call[c].answer \in Undenied => "undenied" \in since[c]
  /\ InProgress(c) =>
       /\ Now(agent[call[c].agent], policies, call[c].prompt) \subseteq since[c]
       /\ \A read \in {rules, reading}:
             read # NoRules => read.seen[call[c].prompt] \subseteq since[c]

\* A row is written once, from the answer; the event follows it.
RowInv(c) ==
  /\ \A event \in Audited: <<c, event>> \in audit =>
       task[c] \in {"publish", "done", "lost"} /\ event = call[c].answer
  /\ task[c] = "publish" =>
       call[c].answer # "oversight_required" /\ <<c, call[c].answer>> \in audit
  /\ c \in feed => \E event \in Audited \ {"oversight_required"}: <<c, event>> \in audit

CallInv == \A c \in Calls: FlowInv(c) /\ MomentInv(c) /\ RowInv(c)

\* What rules do not deny was not denied when they were read; a read is no older than
\* the rules it will replace.
ReadInv(read) ==
  read # NoRules =>
    \A p \in Prompts: /\ Unmatched(policies, p) \subseteq read.seen[p]
                      /\ p \notin read.denied => "undenied" \in read.seen[p]
RulesInv ==
  /\ ReadInv(rules) /\ ReadInv(reading)
  /\ rules # NoRules /\ reading # NoRules =>
       \A p \in Prompts: reading.seen[p] \subseteq rules.seen[p]

IInv == TypeOK /\ RulesInv /\ CallInv

LEMMA DecisionFacts ==
  ASSUME NEW c
  PROVE  /\ Decision(c) = "oversight_required" => call[c].prompt \notin rules.denied
         /\ Decision(c) = "allowed" => call[c].prompt \notin rules.denied /\ ~call[c].oversight
BY DEF Decision

\* The moments name what they say.
LEMMA NowFacts ==
  ASSUME NEW row, NEW P, NEW p
  PROVE  /\ Unmatched(P, p) \subseteq PolicyMoments
         /\ "undenied" \in Unmatched(P, p) <=> ~Matches("deny", P, p)
         /\ Now(row, P, p) \subseteq Moments
         /\ Unmatched(P, p) \subseteq Now(row, P, p)
         /\ "autonomous" \in Now(row, P, p) <=> row = [status |-> "active", oversight |-> FALSE]
<1>1. Unmatched(P, p) \subseteq PolicyMoments
  BY DEF Unmatched, PolicyMoments
<1>2. "undenied" \in Unmatched(P, p) <=> ~Matches("deny", P, p)
  BY DEF Unmatched
<1>3. "autonomous" \notin PolicyMoments
  BY DEF PolicyMoments
<1>4. QED
  BY <1>1, <1>2, <1>3 DEF Now, Moments

\* Rules keep what was read, and gather what has been true since.
LEMMA AgedFacts ==
  ASSUME NEW read \in Rules \union {NoRules}, NEW P
  PROVE  /\ Aged(read, P) \in Rules \union {NoRules}
         /\ Aged(read, P) # NoRules <=> read # NoRules
         /\ read # NoRules =>
              /\ Aged(read, P).denied = read.denied
              /\ \A p \in Prompts: Aged(read, P).seen[p] = read.seen[p] \union Unmatched(P, p)
<1>1. NoRules \notin Rules
  BY CallAssumption
<1>2. CASE read = NoRules
  BY <1>1, <1>2 DEF Aged
<1>3. CASE read # NoRules
  <2>1. Aged(read, P) = [denied |-> read.denied,
                         seen |-> [p \in Prompts |-> read.seen[p] \union Unmatched(P, p)]]
    BY <1>3 DEF Aged, Rules
  <2>2. [p \in Prompts |-> read.seen[p] \union Unmatched(P, p)] \in [Prompts -> SUBSET PolicyMoments]
    BY <1>3, NowFacts DEF Rules
  <2>3. Aged(read, P) \in Rules
    BY <1>3, <2>1, <2>2 DEF Rules
  <2>4. /\ Aged(read, P).denied = read.denied
        /\ \A p \in Prompts: Aged(read, P).seen[p] = read.seen[p] \union Unmatched(P, p)
    BY <2>1
  <2>5. QED
    BY <1>1, <1>3, <2>3, <2>4
<1>4. QED
  BY <1>2, <1>3

\* What is read now is true now.
LEMMA ReadNowFacts ==
  ASSUME policies \in SUBSET Policies
  PROVE  /\ ReadNow \in Rules /\ ReadNow # NoRules
         /\ \A p \in Prompts: /\ ReadNow.seen[p] = Unmatched(policies, p)
                              /\ p \notin ReadNow.denied => "undenied" \in ReadNow.seen[p]
<1>1. [p \in Prompts |-> Unmatched(policies, p)] \in [Prompts -> SUBSET PolicyMoments]
  BY NowFacts
<1>2. ReadNow \in Rules
  BY <1>1 DEF ReadNow, Rules
<1>3. \A p \in Prompts: /\ ReadNow.seen[p] = Unmatched(policies, p)
                        /\ p \notin ReadNow.denied => ~Matches("deny", policies, p)
  BY DEF ReadNow
<1>4. QED
  BY <1>2, <1>3, NowFacts, CallAssumption

CallRows == [pc: PCs, agent: Agents, prompt: Prompts, oversight: BOOLEAN,
             answer: Answers \union {"none"}]

\* An answer, audited or not, ends the call and touches no other.
LEMMA AnswerFacts ==
  ASSUME call \in [Calls -> CallRows], NEW c \in Calls, NEW answer \in Answers,
         Answer(c, answer) \/ AnswerUnaudited(c, answer)
  PROVE  /\ call' \in [Calls -> CallRows]
         /\ call'[c].pc = "answered" /\ call'[c].answer = answer
         /\ \A d \in Calls: d # c => call'[d] = call[d]
<1>1. call[c] \in CallRows
  OBVIOUS
<1>2. call' = [call EXCEPT ![c] =
                 [pc |-> "answered", agent |-> call[c].agent, prompt |-> call[c].prompt,
                  oversight |-> call[c].oversight, answer |-> answer]]
  BY <1>1 DEF Answer, AnswerUnaudited, CallRows
<1>3. QED
  BY <1>1, <1>2 DEF CallRows, PCs

\* So does a step from one await to the next.
LEMMA AdvanceFacts ==
  ASSUME call \in [Calls -> CallRows], NEW c \in Calls, NEW pc \in PCs, Advance(c, pc)
  PROVE  /\ call' \in [Calls -> CallRows]
         /\ call'[c] = [pc |-> pc, agent |-> call[c].agent, prompt |-> call[c].prompt,
                        oversight |-> call[c].oversight, answer |-> call[c].answer]
         /\ \A d \in Calls: d # c => call'[d] = call[d]
BY DEF Advance, CallRows
-----------------------------------------------------------------------------
LEMMA TypeInductive == IInv /\ [Next]_vars => TypeOK'
<1> SUFFICES ASSUME TypeOK, CallInv, [Next]_vars PROVE TypeOK'
  BY DEF IInv
<1> USE DEF TypeOK, environment, effects, records, handling
<1>1. ASSUME NEW rows, NEW P PROVE Witnessed(rows, P) \in [Calls -> SUBSET Moments]
  BY NowFacts DEF Witnessed
<1>2. ASSUME NEW a \in Agents, NEW row \in AgentRows, ChangeAgent(a, row) PROVE TypeOK'
  BY <1>1, <1>2 DEF ChangeAgent
<1>3. ASSUME NEW rule \in Policies, ChangePolicy(rule) PROVE TypeOK'
  BY <1>1, <1>3, AgedFacts DEF ChangePolicy
<1>4. ASSUME NEW c \in Calls, Handling(c) PROVE TypeOK'
  <2> USE DEF PCs, Answers
  <2> DEFINE TasksTyped == task \in [Calls -> {"none", "insert", "publish", "done", "lost"}]
  <2>1. call \in [Calls -> CallRows] /\ TasksTyped
    BY DEF CallRows
  <2>2. ASSUME NEW answer \in Answers, Answer(c, answer) \/ AnswerUnaudited(c, answer)
        PROVE  call' \in [Calls -> CallRows] /\ TasksTyped'
    <3>1. call' \in [Calls -> CallRows]
      BY ONLY <2>1, <2>2, AnswerFacts
    <3>2. TasksTyped'
      BY <2>1, <2>2 DEF Answer, AnswerUnaudited
    <3>3. QED
      BY <3>1, <3>2
  <2>3. ASSUME NEW pc \in PCs, Advance(c, pc)
        PROVE  call' \in [Calls -> CallRows] /\ TasksTyped'
    BY <2>1, <2>3, AdvanceFacts DEF Advance
  <2>4. ASSUME NEW a \in Agents, NEW p \in Prompts, Arrive(c, a, p)
        PROVE  TypeOK'
    <3>1. call' \in [Calls -> CallRows]
      BY <2>1, <2>4 DEF Arrive, NewCall, CallRows
    <3>2. SeenSoFar(p) \subseteq PolicyMoments
      BY <2>4, NowFacts DEF SeenSoFar, Rules
    <3>3. Now(agent[a], policies, p) \union SeenSoFar(p) \in SUBSET Moments
      BY <3>2, NowFacts DEF Moments
    <3>4. QED
      BY <2>4, <3>1, <3>3 DEF Arrive, CallRows
  <2>5. ASSUME GetAgent(c)
        PROVE  call' \in [Calls -> CallRows] /\ TasksTyped'
    <3>1. CASE agent[call[c].agent] = NoAgent \/ agent[call[c].agent].status # "active"
      BY <2>2, <2>5, <3>1 DEF GetAgent
    <3>2. CASE ~(agent[call[c].agent] = NoAgent \/ agent[call[c].agent].status # "active")
      <4>1. agent[call[c].agent].oversight \in BOOLEAN
        BY <3>2 DEF AgentRows
      <4>2. call' = [call EXCEPT ![c] =
                       [pc |-> "rules", agent |-> call[c].agent, prompt |-> call[c].prompt,
                        oversight |-> agent[call[c].agent].oversight, answer |-> call[c].answer]]
        BY <2>1, <2>5, <3>2 DEF GetAgent, CallRows
      <4>3. call' \in [Calls -> CallRows]
        BY ONLY <2>1, <4>1, <4>2, c \in Calls DEF CallRows, PCs
      <4>4. TasksTyped'
        BY <2>1, <2>5, <3>2 DEF GetAgent
      <4>5. QED
        BY <4>3, <4>4
    <3>3. QED
      BY <3>1, <3>2
  <2>6. CASE \E a \in Agents, p \in Prompts: Arrive(c, a, p)
    BY <2>4, <2>6
  <2>7. CASE ~\E a \in Agents, p \in Prompts: Arrive(c, a, p)
    <3>1. call' \in [Calls -> CallRows] /\ TasksTyped'
      BY <1>4, <2>2, <2>3, <2>5, <2>7 DEF Handling, Refuse, Decide, RulesUnavailable, PushTask,
         AnnounceTask, Route, Complete, Fail
    <3>2. QED
      BY <1>4, <2>7, <3>1 DEF Handling, Refuse, GetAgent, Decide, RulesUnavailable, PushTask,
         AnnounceTask, Route, Complete, Fail, CallRows
  <2>8. QED
    BY <2>6, <2>7
<1>5. ASSUME NEW c \in Calls, Recording(c) PROVE TypeOK'
  <2>1. CASE InsertRow(c)
    BY <2>1 DEF InsertRow, CallInv, FlowInv
  <2>2. CASE PublishRow(c)
    BY <2>2 DEF PublishRow
  <2>3. CASE LoseTask(c)
    BY <2>3 DEF LoseTask
  <2>4. QED
    BY <1>5, <2>1, <2>2, <2>3 DEF Recording
<1>6. CASE UNCHANGED vars
  BY <1>6 DEF vars
<1>7. CASE ReadRules \/ StoreRules \/ RefreshFails
  BY <1>7, ReadNowFacts DEF ReadRules, StoreRules, RefreshFails
<1>8. QED
  BY <1>2, <1>3, <1>4, <1>5, <1>6, <1>7 DEF Next
-----------------------------------------------------------------------------
\* What a step leaves alone stays as it should be.
LEMMA Untouched ==
  ASSUME NEW d \in Calls, FlowInv(d), MomentInv(d), RowInv(d),
         UNCHANGED <<demo, agent, policies, rules>>, reading' \in {reading, NoRules},
         call'[d] = call[d], task'[d] = task[d], since'[d] = since[d],
         d \in sent' <=> d \in sent, d \in queued' <=> d \in queued, d \in feed' <=> d \in feed,
         \A event \in Audited: <<d, event>> \in audit' <=> <<d, event>> \in audit
  PROVE  FlowInv(d)' /\ MomentInv(d)' /\ RowInv(d)'
<1>1. FlowInv(d)'
  BY DEF FlowInv
<1>2. MomentInv(d)'
  BY DEF MomentInv, InProgress, Now, Unmatched, Matches
<1>3. RowInv(d)'
  <2>1. \A event \in Audited: <<d, event>> \in audit' =>
          task'[d] \in {"publish", "done", "lost"} /\ event = call'[d].answer
    BY DEF RowInv
  <2>2. task'[d] = "publish" =>
          call'[d].answer # "oversight_required" /\ <<d, call'[d].answer>> \in audit'
    BY DEF RowInv, FlowInv
  <2>3. d \in feed' => \E event \in Audited \ {"oversight_required"}: <<d, event>> \in audit'
    BY DEF RowInv
  <2>4. QED
    BY <2>1, <2>2, <2>3 DEF RowInv
<1>4. QED
  BY <1>1, <1>2, <1>3

\* A change in the panel adds what is true now to what has been true.
LEMMA PanelKeeps ==
  ASSUME TypeOK, CallInv, NEW rows, NEW P, agent' = rows, policies' = P,
         \/ UNCHANGED <<policies, rules, reading>>
         \/ rules' = Aged(rules, P) /\ reading' = Aged(reading, P),
         since' = Witnessed(rows, P),
         UNCHANGED <<demo, call, sent, queued, task, audit, feed>>
  PROVE  CallInv'
<1> SUFFICES ASSUME NEW d \in Calls PROVE FlowInv(d)' /\ MomentInv(d)' /\ RowInv(d)'
  BY DEF CallInv
<1>1. FlowInv(d) /\ MomentInv(d) /\ RowInv(d)
  BY DEF CallInv
<1>2. /\ since[d] \subseteq since'[d]
      /\ InProgress(d) => Now(rows[call[d].agent], P, call[d].prompt) \subseteq since'[d]
  BY DEF Witnessed, TypeOK
<1>3. FlowInv(d)'
  BY <1>1 DEF FlowInv
<1>4. MomentInv(d)'
  <2>1. InProgress(d)' => Now(agent'[call'[d].agent], policies', call'[d].prompt) \subseteq since'[d]
    BY <1>2 DEF InProgress
  <2>2. ASSUME InProgress(d), NEW read \in {rules, reading}, read # NoRules
        PROVE  /\ read.seen[call[d].prompt] \subseteq since'[d]
               /\ Aged(read, P).seen[call[d].prompt] \subseteq since'[d]
    <3>1. read.seen[call[d].prompt] \subseteq since[d]
      BY <1>1, <2>2 DEF MomentInv
    <3>2. Unmatched(P, call[d].prompt) \subseteq since'[d]
      BY <1>2, <2>2, NowFacts
    <3>3. Aged(read, P).seen[call[d].prompt] =
            read.seen[call[d].prompt] \union Unmatched(P, call[d].prompt)
      <4>1. read \in Rules \union {NoRules} /\ call[d].prompt \in Prompts
        BY DEF TypeOK
      <4>2. QED
        BY <2>2, <4>1, AgedFacts
    <3>4. QED
      BY <1>2, <3>1, <3>2, <3>3
  <2>3. InProgress(d)' => \A read \in {rules', reading'}:
          read # NoRules => read.seen[call'[d].prompt] \subseteq since'[d]
    <3>1. CASE UNCHANGED <<policies, rules, reading>>
      BY <2>2, <3>1 DEF InProgress
    <3>2. CASE rules' = Aged(rules, P) /\ reading' = Aged(reading, P)
      <4>1. /\ rules' # NoRules <=> rules # NoRules
            /\ reading' # NoRules <=> reading # NoRules
        BY <3>2, AgedFacts DEF TypeOK
      <4>2. QED
        BY <2>2, <3>2, <4>1 DEF InProgress
    <3>3. QED
      BY <3>1, <3>2
  <2>4. QED
    BY <1>1, <1>2, <2>1, <2>3 DEF MomentInv
<1>5. RowInv(d)'
  BY <1>1 DEF RowInv
<1>6. QED
  BY <1>3, <1>4, <1>5

\* What the rules have seen of the database includes what is true in it now.
LEMMA RulesInductive == TypeOK /\ RulesInv /\ [Next]_vars => RulesInv'
<1> SUFFICES ASSUME TypeOK, RulesInv, [Next]_vars PROVE RulesInv'
  OBVIOUS
<1> USE DEF RulesInv, ReadInv
<1>1. policies \in SUBSET Policies /\ {rules, reading} \subseteq Rules \union {NoRules}
  BY DEF TypeOK
<1>2. ASSUME NEW rule \in Policies, ChangePolicy(rule) PROVE RulesInv'
  <2> DEFINE P == policies'
  <2>1. rules' = Aged(rules, P) /\ reading' = Aged(reading, P)
    BY <1>2 DEF ChangePolicy
  <2>2. ASSUME NEW read \in {rules, reading}, read # NoRules, NEW p \in Prompts
        PROVE  /\ Unmatched(P, p) \subseteq Aged(read, P).seen[p]
               /\ p \notin Aged(read, P).denied => "undenied" \in Aged(read, P).seen[p]
    BY <1>1, <2>2, AgedFacts
  <2>3. /\ rules' # NoRules <=> rules # NoRules
        /\ reading' # NoRules <=> reading # NoRules
    BY <1>1, <2>1, AgedFacts
  <2>4. rules # NoRules /\ reading # NoRules =>
          \A p \in Prompts: reading'.seen[p] \subseteq rules'.seen[p]
    BY <1>1, <2>1, AgedFacts
  <2>5. \A p: Unmatched(policies, p)' = Unmatched(P, p)
    BY DEF Unmatched, Matches
  <2> HIDE DEF P
  <2>6. QED
    BY <2>1, <2>2, <2>3, <2>4, <2>5
<1>3. CASE UNCHANGED <<policies, rules>> /\ reading' \in {reading, NoRules}
  BY <1>3 DEF Unmatched, Matches
<1>4. CASE ReadRules
  <2>1. reading' = ReadNow /\ UNCHANGED <<policies, rules>>
    BY <1>4 DEF ReadRules, handling
  <2>2. \A p \in Prompts: rules # NoRules => ReadNow.seen[p] \subseteq rules.seen[p]
    BY <1>1, ReadNowFacts
  <2>3. ReadInv(reading)'
    <3>1. \A p: Unmatched(policies, p)' = Unmatched(policies, p)
      BY <2>1 DEF Unmatched, Matches
    <3>2. QED
      BY <1>1, <2>1, <3>1, ReadNowFacts
  <2>4. ReadInv(rules)'
    BY <2>1 DEF Unmatched, Matches
  <2>5. QED
    BY <2>1, <2>2, <2>3, <2>4
<1>5. CASE StoreRules
  BY <1>5 DEF StoreRules, handling, Unmatched, Matches
<1>6. CASE RefreshFails
  BY <1>3, <1>6 DEF RefreshFails, handling
<1>7. ASSUME NEW a \in Agents, NEW row \in AgentRows, ChangeAgent(a, row) PROVE RulesInv'
  BY <1>3, <1>7 DEF ChangeAgent
<1>8. ASSUME NEW c \in Calls, Handling(c) \/ Recording(c) PROVE RulesInv'
  <2>1. UNCHANGED <<policies, rules>> /\ reading' \in {reading, NoRules}
    BY <1>8 DEF Handling, Refuse, Arrive, GetAgent, Decide, RulesUnavailable, PushTask,
                AnnounceTask, Route, Complete, Fail, Recording, InsertRow, PublishRow, LoseTask,
                environment
  <2>2. QED
    BY <1>3, <2>1
<1>9. CASE UNCHANGED vars
  BY <1>3, <1>9 DEF vars
<1>10. QED
  BY <1>2, <1>4, <1>5, <1>6, <1>7, <1>8, <1>9 DEF Next

\* A step of the rule cache is about no call, and brings rules no older than the calls
\* in progress have witnessed.
LEMMA CacheKeeps ==
  ASSUME TypeOK, CallInv, ReadRules \/ StoreRules \/ RefreshFails
  PROVE  CallInv'
<1> SUFFICES ASSUME NEW d \in Calls PROVE FlowInv(d)' /\ MomentInv(d)' /\ RowInv(d)'
  BY DEF CallInv
<1>1. FlowInv(d) /\ MomentInv(d) /\ RowInv(d)
  BY DEF CallInv
<1>2. UNCHANGED handling
  BY DEF ReadRules, StoreRules, RefreshFails
<1>3. FlowInv(d)' /\ RowInv(d)'
  BY <1>1, <1>2 DEF FlowInv, RowInv, handling
<1>4. ASSUME InProgress(d), NEW read \in {rules', reading'}, read # NoRules
      PROVE  read.seen[call[d].prompt] \subseteq since[d]
  <2>1. read \in {rules, reading} \/ read = ReadNow
    BY <1>4 DEF ReadRules, StoreRules, RefreshFails
  <2>2. ReadNow.seen[call[d].prompt] \subseteq since[d]
    <3>1. call[d].prompt \in Prompts /\ policies \in SUBSET Policies
      BY DEF TypeOK
    <3>2. ReadNow.seen[call[d].prompt] = Unmatched(policies, call[d].prompt)
      BY <3>1, ReadNowFacts
    <3>3. QED
      BY <1>1, <1>4, <3>2, NowFacts DEF MomentInv
  <2>3. QED
    BY <1>1, <1>4, <2>1, <2>2 DEF MomentInv
<1>5. MomentInv(d)'
  <2>1. UNCHANGED <<agent, policies, call, since, sent, queued>>
    BY <1>2 DEF handling
  <2>2. InProgress(d)' => InProgress(d)
    BY <2>1 DEF InProgress
  <2>3. \A row, p: Now(row, policies, p)' = Now(row, policies, p)
    BY <2>1 DEF Now, Unmatched, Matches
  <2>4. QED
    BY <1>1, <1>4, <2>1, <2>2 DEF MomentInv, Now, Unmatched, Matches
<1>6. QED
  BY <1>3, <1>5
-----------------------------------------------------------------------------
\* A call in progress has left no record.
LEMMA NoRecordYet ==
  ASSUME NEW c \in Calls, FlowInv(c), RowInv(c), call[c].pc # "answered",
         UNCHANGED records, task'[c] \in {"none", "insert"}
  PROVE  RowInv(c)'
BY DEF FlowInv, RowInv, records

\* An exit that is not audited, wherever it leaves the handler.
LEMMA UnauditedKeeps ==
  ASSUME TypeOK, NEW c \in Calls, FlowInv(c), MomentInv(c), RowInv(c),
         call[c].pc # "answered", NEW answer \in Answers \ Undenied,
         AnswerUnaudited(c, answer), UNCHANGED <<demo, effects, records, since>>
  PROVE  FlowInv(c)' /\ MomentInv(c)' /\ RowInv(c)'
<1>1. call \in [Calls -> CallRows]
  BY DEF TypeOK, CallRows
<1>2. call'[c].pc = "answered" /\ call'[c].answer = answer
  BY <1>1, AnswerFacts
<1>3. task'[c] = "none"
  BY DEF FlowInv, AnswerUnaudited
<1>4. FlowInv(c)'
  BY <1>2, <1>3 DEF FlowInv
<1>5. MomentInv(c)'
  BY <1>2 DEF MomentInv, InProgress, effects
<1>6. RowInv(c)'
  BY <1>3, NoRecordYet
<1>7. QED
  BY <1>4, <1>5, <1>6

\* An audited exit: the answer must fit what has been done, and a denial what was true.
LEMMA AuditedKeeps ==
  ASSUME TypeOK, NEW c \in Calls, FlowInv(c), MomentInv(c), RowInv(c),
         call[c].pc # "answered", NEW answer \in Audited,
         Answer(c, answer), UNCHANGED <<environment, effects, records, since>>,
         answer = "oversight_required" <=> c \in queued,
         answer \in Routed /\ ~demo <=> c \in sent,
         answer \in Undenied => "undenied" \in since[c]
  PROVE  FlowInv(c)' /\ MomentInv(c)' /\ RowInv(c)'
<1>1. call \in [Calls -> CallRows] /\ answer \in Answers
  BY DEF TypeOK, CallRows, Audited, Answers
<1>2. call'[c].pc = "answered" /\ call'[c].answer = answer
  BY <1>1, AnswerFacts
<1>3. task'[c] = "insert"
  BY DEF TypeOK, Answer
<1>4. FlowInv(c)'
  BY <1>2, <1>3 DEF FlowInv, effects, environment
<1>5. MomentInv(c)'
  BY <1>2 DEF MomentInv, InProgress, effects, environment
<1>6. RowInv(c)'
  BY <1>3, NoRecordYet
<1>7. QED
  BY <1>4, <1>5, <1>6

\* A step of a handler is about its own call.
LEMMA HandlingUntouched ==
  ASSUME TypeOK, NEW c \in Calls, Handling(c), NEW d \in Calls, d # c
  PROVE  /\ UNCHANGED <<demo, agent, policies, rules, records>>
         /\ reading' \in {reading, NoRules}
         /\ call'[d] = call[d] /\ task'[d] = task[d] /\ since'[d] = since[d]
         /\ d \in sent' <=> d \in sent
         /\ d \in queued' <=> d \in queued
<1> USE DEF TypeOK, environment, records, effects
<1>1. CASE \E a \in Agents, p \in Prompts: Arrive(c, a, p)
  BY <1>1 DEF Arrive
<1>2. CASE Refuse(c) \/ GetAgent(c) \/ Decide(c) \/ RulesUnavailable(c)
  BY <1>2 DEF Refuse, GetAgent, Decide, RulesUnavailable, Answer, AnswerUnaudited, Advance
<1>3. CASE PushTask(c) \/ AnnounceTask(c) \/ Route(c) \/ Complete(c) \/ Fail(c)
  BY <1>3 DEF PushTask, AnnounceTask, Route, Complete, Fail, Answer, AnswerUnaudited, Advance
<1>4. QED
  BY <1>1, <1>2, <1>3 DEF Handling

LEMMA HandlingKeeps ==
  ASSUME TypeOK, RulesInv, CallInv, NEW c \in Calls, Handling(c)
  PROVE  FlowInv(c)' /\ MomentInv(c)' /\ RowInv(c)'
<1> DEFINE Goal == FlowInv(c)' /\ MomentInv(c)' /\ RowInv(c)'
<1>1. FlowInv(c) /\ MomentInv(c) /\ RowInv(c)
  BY DEF CallInv
<1>2. call \in [Calls -> CallRows]
  BY DEF TypeOK, CallRows
<1>3. CASE Refuse(c)
  BY <1>1, <1>3, UnauditedKeeps DEF Refuse, Answers, Undenied, environment
<1>4. ASSUME NEW a \in Agents, NEW p \in Prompts, Arrive(c, a, p) PROVE Goal
  <2> USE <1>4 DEF Arrive, environment, effects, records
  <2>1. /\ call'[c].pc = "lookup" /\ call'[c].agent = a /\ call'[c].prompt = p
        /\ task'[c] = "none" /\ c \notin sent /\ c \notin queued
        /\ since'[c] = Now(agent[a], policies, p) \union SeenSoFar(p)
    BY <1>1, <1>2 DEF NewCall, FlowInv, TypeOK
  <2>2. FlowInv(c)'
    BY <2>1 DEF FlowInv
  <2>3. \A read \in {rules, reading}: read # NoRules => read.seen[p] \subseteq since'[c]
    BY <2>1 DEF SeenSoFar, RulesInv
  <2>4. MomentInv(c)'
    BY <2>1, <2>3 DEF MomentInv, Now, Unmatched, Matches
  <2>5. RowInv(c)'
    BY <1>1, <2>1, NoRecordYet
  <2>6. QED
    BY <2>2, <2>4, <2>5
<1>5. CASE GetAgent(c)
  <2> DEFINE row == agent[call[c].agent]
  <2> USE <1>5 DEF GetAgent
  <2>1. CASE row = NoAgent \/ row.status # "active"
    <3>1. PICK answer \in {"unknown_agent", "agent_inactive"}: Answer(c, answer)
      BY <2>1
    <3>2. c \notin queued /\ c \notin sent
      BY <1>1 DEF FlowInv
    <3>3. QED
      BY <1>1, <3>1, <3>2, AuditedKeeps DEF Audited, Undenied, Routed
  <2>2. CASE ~(row = NoAgent \/ row.status # "active")
    <3>1. row \in AgentRows /\ row.status = "active" /\ row.oversight \in BOOLEAN
      BY <1>2, <2>2 DEF TypeOK, CallRows, AgentRows
    <3>2. /\ call'[c].pc = "rules" /\ call'[c].oversight = row.oversight
          /\ call'[c].agent = call[c].agent /\ call'[c].prompt = call[c].prompt
          /\ task'[c] = "none" /\ c \notin sent /\ c \notin queued
      BY <1>1, <1>2, <2>2 DEF FlowInv, CallRows
    <3>3. FlowInv(c)'
      BY <3>2 DEF FlowInv, effects
    <3>4. Now(row, policies, call[c].prompt) \subseteq since[c]
      BY <1>1 DEF MomentInv, InProgress
    <3>5. ~row.oversight => "autonomous" \in since[c]
      <4>1. ~row.oversight => row = [status |-> "active", oversight |-> FALSE]
        BY <3>1 DEF AgentRows
      <4>2. QED
        BY <3>4, <4>1, NowFacts
    <3>6. MomentInv(c)'
      BY <1>1, <3>2, <3>4, <3>5 DEF MomentInv, InProgress, Now, Unmatched, Matches, environment,
                                    effects
    <3>7. RowInv(c)'
      BY <1>1, <3>2, NoRecordYet
    <3>8. QED
      BY <3>3, <3>6, <3>7
  <2>3. QED
    BY <2>1, <2>2
<1>6. CASE Decide(c)
  <2> USE <1>6 DEF Decide
  <2>1. /\ c \notin queued /\ c \notin sent /\ task[c] = "none"
        /\ Now(agent[call[c].agent], policies, call[c].prompt) \subseteq since[c]
        /\ \A read \in {rules, reading}:
             read # NoRules => read.seen[call[c].prompt] \subseteq since[c]
    BY <1>1 DEF FlowInv, MomentInv, InProgress
  <2>2. CASE Decision(c) = "blocked" /\ Answer(c, "blocked")
    BY <1>1, <2>1, <2>2, AuditedKeeps DEF Audited, Undenied, Routed
  <2>3. call[c].prompt \notin rules.denied => "undenied" \in since[c]
    <3>1. call[c].prompt \in Prompts
      BY <1>2 DEF CallRows
    <3>2. call[c].prompt \notin rules.denied => "undenied" \in rules.seen[call[c].prompt]
      BY <3>1 DEF RulesInv, ReadInv
    <3>3. QED
      BY <2>1, <3>2
  <2>4. CASE Decision(c) = "allowed" /\ demo /\ Answer(c, "call_completed")
    BY <1>1, <2>1, <2>3, <2>4, DecisionFacts, AuditedKeeps DEF Audited, Undenied, Routed
  <2>5. ASSUME NEW pc \in {"push", "route"}, Advance(c, pc), "undenied" \in since[c],
               pc = "route" => ~demo /\ "autonomous" \in since[c]
        PROVE  Goal
    <3>1. /\ call'[c].pc = pc /\ call'[c].agent = call[c].agent
          /\ call'[c].prompt = call[c].prompt /\ task'[c] = "none"
      BY <1>2, <2>1, <2>5, AdvanceFacts DEF PCs, Advance
    <3>2. FlowInv(c)'
      BY <2>1, <2>5, <3>1 DEF FlowInv, effects, environment
    <3>3. MomentInv(c)'
      BY <2>1, <2>5, <3>1 DEF MomentInv, Now, Unmatched, Matches, effects, environment
    <3>4. RowInv(c)'
      BY <1>1, <3>1, NoRecordYet
    <3>5. QED
      BY <3>2, <3>3, <3>4
  <2>6. CASE Decision(c) = "oversight_required" /\ Advance(c, "push")
    BY <2>3, <2>5, <2>6, DecisionFacts
  <2>7. CASE Decision(c) = "allowed" /\ ~demo /\ Advance(c, "route")
    BY <1>1, <2>3, <2>5, <2>7, DecisionFacts DEF MomentInv
  <2>8. QED
    BY <2>2, <2>4, <2>6, <2>7
<1>7. CASE RulesUnavailable(c)
  BY <1>1, <1>7, UnauditedKeeps DEF RulesUnavailable, Answers, Undenied
<1>8. CASE PushTask(c)
  <2> USE <1>8 DEF PushTask, environment
  <2>1. /\ call'[c].pc = "announce" /\ call'[c].agent = call[c].agent
        /\ call'[c].prompt = call[c].prompt /\ task'[c] = "none"
    BY <1>1, <1>2, AdvanceFacts DEF PCs, Advance, FlowInv
  <2>2. FlowInv(c)'
    BY <1>1, <2>1 DEF FlowInv
  <2>3. MomentInv(c)'
    BY <1>1, <2>1 DEF MomentInv, InProgress, Now, Unmatched, Matches
  <2>4. RowInv(c)'
    BY <1>1, <2>1, NoRecordYet
  <2>5. QED
    BY <2>2, <2>3, <2>4
<1>9. CASE AnnounceTask(c)
  BY <1>1, <1>9, AuditedKeeps DEF AnnounceTask, FlowInv, MomentInv, Audited, Routed
<1>10. CASE Route(c)
  <2> USE <1>10 DEF Route, environment
  <2>1. CASE Advance(c, "model") /\ sent' = sent \union {c}
    <3>1. /\ call'[c].pc = "model" /\ call'[c].agent = call[c].agent
          /\ call'[c].prompt = call[c].prompt /\ task'[c] = "none"
      BY <1>1, <1>2, <2>1, AdvanceFacts DEF PCs, Advance, FlowInv
    <3>2. FlowInv(c)'
      BY <1>1, <2>1, <3>1 DEF FlowInv
    <3>3. MomentInv(c)'
      BY <1>1, <2>1, <3>1 DEF MomentInv, InProgress, Now, Unmatched, Matches
    <3>4. RowInv(c)'
      BY <1>1, <3>1, NoRecordYet
    <3>5. QED
      BY <3>2, <3>3, <3>4
  <2>2. CASE Answer(c, "no_eligible_provider") /\ UNCHANGED sent
    BY <1>1, <2>2, AuditedKeeps DEF FlowInv, MomentInv, Audited, Routed, effects
  <2>3. QED
    BY <2>1, <2>2
<1>11. CASE Complete(c)
  <2>1. PICK answer \in Routed: Answer(c, answer)
    BY <1>11 DEF Complete, Routed
  <2>2. QED
    BY <1>1, <1>11, <2>1, AuditedKeeps DEF Complete, FlowInv, MomentInv, Audited, Routed
<1>12. CASE Fail(c)
  BY <1>1, <1>12, UnauditedKeeps DEF Fail, Answers, Undenied, environment
<1>13. QED
  BY <1>3, <1>4, <1>5, <1>6, <1>7, <1>8, <1>9, <1>10, <1>11, <1>12 DEF Handling
-----------------------------------------------------------------------------
\* A step of a background task is about its own records.
LEMMA RecordingKeeps ==
  ASSUME TypeOK, CallInv, NEW c \in Calls, Recording(c)
  PROVE  CallInv'
<1> USE DEF TypeOK, environment, effects, records
<1>1. \A d \in Calls: FlowInv(d) /\ MomentInv(d) /\ RowInv(d)
  BY DEF CallInv
<1>2. /\ UNCHANGED <<environment, effects, call, since>>
      /\ task[c] \in {"insert", "publish"}
      /\ task'[c] \in {"publish", "done", "lost"}
  BY DEF Recording, InsertRow, PublishRow, LoseTask
<1>3. ASSUME NEW d \in Calls, d # c PROVE FlowInv(d)' /\ MomentInv(d)' /\ RowInv(d)'
  <2>1. /\ task'[d] = task[d]
        /\ d \in feed' <=> d \in feed
        /\ \A event \in Audited: <<d, event>> \in audit' <=> <<d, event>> \in audit
    BY <1>3 DEF Recording, InsertRow, PublishRow, LoseTask
  <2>2. QED
    BY <1>1, <1>2, <2>1, Untouched
<1>4. FlowInv(c)'
  BY <1>1, <1>2 DEF FlowInv
<1>5. MomentInv(c)'
  BY <1>1, <1>2 DEF MomentInv, InProgress, Now, Unmatched, Matches
<1>6. RowInv(c)'
  <2>1. CASE InsertRow(c)
    <3>1. /\ call[c].answer \in Audited /\ c \notin feed
          /\ \A event \in Audited: <<c, event>> \notin audit
      BY <1>1, <2>1 DEF InsertRow, FlowInv, RowInv
    <3>2. \A event \in Audited: <<c, event>> \in audit' <=> event = call[c].answer
      BY <2>1, <3>1 DEF InsertRow
    <3>3. task'[c] = "publish" => call[c].answer # "oversight_required"
      BY <2>1 DEF InsertRow, OnFeed
    <3>4. QED
      BY <1>2, <2>1, <3>1, <3>2, <3>3 DEF InsertRow, RowInv
  <2>2. CASE PublishRow(c)
    <3>1. /\ call[c].answer \in Audited \ {"oversight_required"}
          /\ <<c, call[c].answer>> \in audit
      BY <1>1, <2>2 DEF PublishRow, FlowInv, RowInv
    <3>2. task'[c] = "done"
      BY <2>2 DEF PublishRow
    <3>3. \A event \in Audited: <<c, event>> \in audit' => event = call'[c].answer
      BY <1>1, <2>2 DEF PublishRow, RowInv
    <3>4. QED
      BY <2>2, <3>1, <3>2, <3>3 DEF PublishRow, RowInv
  <2>3. CASE LoseTask(c)
    <3>1. task'[c] = "lost"
      BY <2>3 DEF LoseTask
    <3>2. QED
      BY <1>1, <2>3, <3>1 DEF LoseTask, RowInv
  <2>4. QED
    BY <2>1, <2>2, <2>3 DEF Recording
<1>7. QED
  BY <1>3, <1>4, <1>5, <1>6 DEF CallInv

LEMMA CallInvInductive == IInv /\ [Next]_vars => CallInv'
<1> SUFFICES ASSUME TypeOK, RulesInv, CallInv, [Next]_vars PROVE CallInv'
  BY DEF IInv
<1>1. ASSUME NEW a \in Agents, NEW row \in AgentRows, ChangeAgent(a, row) PROVE CallInv'
  BY <1>1, PanelKeeps DEF ChangeAgent
<1>2. ASSUME NEW rule \in Policies, ChangePolicy(rule) PROVE CallInv'
  BY <1>2, PanelKeeps DEF ChangePolicy
<1>3. ASSUME NEW c \in Calls, Handling(c) PROVE CallInv'
  <2>1. ASSUME NEW d \in Calls, d # c PROVE FlowInv(d)' /\ MomentInv(d)' /\ RowInv(d)'
    <3>1. FlowInv(d) /\ MomentInv(d) /\ RowInv(d)
      BY DEF CallInv
    <3>2. /\ UNCHANGED <<demo, agent, policies, rules>> /\ reading' \in {reading, NoRules}
          /\ feed' = feed /\ audit' = audit
      BY <1>3, <2>1, HandlingUntouched DEF records
    <3>3. QED
      BY <1>3, <2>1, <3>1, <3>2, HandlingUntouched, Untouched
  <2>2. QED
    BY <1>3, <2>1, HandlingKeeps DEF CallInv
<1>4. ASSUME NEW c \in Calls, Recording(c) PROVE CallInv'
  BY <1>4, RecordingKeeps
<1>5. CASE ReadRules \/ StoreRules \/ RefreshFails
  BY <1>5, CacheKeeps
<1>6. CASE UNCHANGED vars
  BY <1>6 DEF vars, CallInv, FlowInv, MomentInv, RowInv, InProgress, Now, Unmatched, Matches
<1>7. QED
  BY <1>1, <1>2, <1>3, <1>4, <1>5, <1>6 DEF Next

LEMMA Initially == Init => IInv
<1> SUFFICES ASSUME Init PROVE IInv
  OBVIOUS
<1> USE DEF Init, NewCall
<1>1. TypeOK
  BY CallAssumption DEF TypeOK, PCs
<1>2. CallInv
  BY DEF CallInv, FlowInv, MomentInv, RowInv, InProgress
<1>3. RulesInv
  BY DEF RulesInv, ReadInv
<1>4. QED
  BY <1>1, <1>2, <1>3 DEF IInv

\* The inductive invariant holds in every reachable state.
THEOREM Invariance == Spec => []IInv
<1>1. Init => IInv
  BY Initially
<1>2. IInv /\ [Next]_vars => IInv'
  BY TypeInductive, RulesInductive, CallInvInductive DEF IInv
<1>3. QED
  BY <1>1, <1>2, PTL DEF Spec
-----------------------------------------------------------------------------
\* The calls, their background tasks and their records keep their types.
THEOREM TypeCorrect == Spec => []TypeOK
<1>1. IInv => TypeOK
  BY DEF IInv
<1>2. QED
  BY <1>1, Invariance, PTL

\* A prompt is handed to a model only if, since its call came, the agent was at some
\* moment active without oversight and the content at some moment not denied.
THEOREM ForwardingCorrect == Spec => []ForwardingWasPermitted
<1>1. IInv => ForwardingWasPermitted
  BY DEF IInv, TypeOK, CallInv, MomentInv, ForwardingWasPermitted
<1>2. QED
  BY <1>1, Invariance, PTL

\* A call whose content is denied all along gets no answer that a routed, queued or
\* completed call gets, and leaves neither a prompt nor a task behind.
THEOREM DenialCorrect == Spec => []DenialWins
<1>1. IInv => DenialWins
  BY DEF IInv, CallInv, MomentInv, DenialWins, Answered, Undenied
<1>2. QED
  BY <1>1, Invariance, PTL

\* Every row of the audit log says what happened to its call, and no call has two.
THEOREM AuditCorrect == Spec => []AuditTellsTruth
<1>1. ASSUME IInv, NEW c \in Calls, NEW event \in Audited, <<c, event>> \in audit
      PROVE  /\ \A other \in audit: other[1] = c => other = <<c, event>>
             /\ Answered(c) /\ event = call[c].answer
             /\ event = "oversight_required" <=> c \in queued
             /\ event \in Routed /\ ~demo <=> c \in sent
  <2>1. FlowInv(c) /\ RowInv(c)
    BY <1>1 DEF IInv, CallInv
  <2>2. event = call[c].answer /\ task[c] # "none"
    BY <1>1, <2>1 DEF RowInv
  <2>3. ASSUME NEW other \in audit, other[1] = c PROVE other = <<c, event>>
    <3>1. PICK e \in Audited: other = <<c, e>>
      BY <1>1, <2>3 DEF IInv, TypeOK
    <3>2. QED
      BY <2>1, <2>2, <2>3, <3>1 DEF RowInv
  <2>4. QED
    BY <2>1, <2>2, <2>3 DEF FlowInv, Answered
<1>2. IInv => AuditTellsTruth
  <2> SUFFICES ASSUME IInv, NEW row \in audit
      PROVE  LET c == row[1]  event == row[2]
             IN /\ \A other \in audit: other[1] = c => other = row
                /\ Answered(c) /\ event = call[c].answer
                /\ event = "oversight_required" <=> c \in queued
                /\ event \in {"llm_error", "call_completed"} /\ ~demo <=> c \in sent
    BY DEF AuditTellsTruth
  <2>1. PICK c \in Calls, event \in Audited: row = <<c, event>>
    BY DEF IInv, TypeOK
  <2>2. QED
    BY <1>1, <2>1 DEF Routed
<1>3. QED
  BY <1>2, Invariance, PTL

\* The live feed shows a call only when its row is in the log, and none that went to
\* oversight: the queue announces those itself.
FeedFollowsAudit ==
  \A c \in feed: \E event \in Audited \ {"oversight_required"}: <<c, event>> \in audit

\* The live feed never runs ahead of the audit log.
THEOREM FeedCorrect == Spec => []FeedFollowsAudit
<1>1. IInv => FeedFollowsAudit
  BY DEF IInv, TypeOK, CallInv, RowInv, FeedFollowsAudit
<1>2. QED
  BY <1>1, Invariance, PTL
-----------------------------------------------------------------------------
\* Where records get lost, and nowhere else: an answered call whose prompt went to a model
\* is in the log, once its background task is through, unless an exception nobody handles
\* ended the handler or write_audit was lost.
RecordedUnlessLost ==
  \A c \in sent: Answered(c) /\ task[c] \notin {"insert", "publish"} =>
    \/ \E event \in Audited: <<c, event>> \in audit
    \/ call[c].answer = "server_error"
    \/ task[c] = "lost"

\* A task is through when its row is there; an answer without a task is a failure.
GapInv(c) ==
  /\ task[c] = "done" => <<c, call[c].answer>> \in audit
  /\ call[c].pc = "answered" /\ task[c] = "none" /\ c \in sent => call[c].answer = "server_error"
GapsKnown == \A c \in Calls: GapInv(c)

LEMMA HandlingLeavesNoGap ==
  ASSUME IInv, NEW c \in Calls, Handling(c)
  PROVE  GapInv(c)'
<1> USE DEF environment, effects, records
<1>1. /\ FlowInv(c) /\ call \in [Calls -> CallRows]
      /\ task \in [Calls -> {"none", "insert", "publish", "done", "lost"}]
  BY DEF IInv, CallInv, TypeOK, CallRows
<1>2. call[c].pc # "answered" /\ task[c] = "none"
  BY <1>1 DEF Handling, Refuse, Arrive, GetAgent, Decide, RulesUnavailable, PushTask,
              AnnounceTask, Route, Complete, Fail, FlowInv
<1>3. ASSUME NEW answer, Answer(c, answer) PROVE GapInv(c)'
  <2>1. task'[c] = "insert"
    BY <1>1, <1>3 DEF Answer
  <2>2. QED
    BY <2>1 DEF GapInv
<1>4. ASSUME NEW pc \in PCs, pc # "answered", Advance(c, pc) PROVE GapInv(c)'
  <2>1. task'[c] = "none" /\ call'[c].pc = pc
    BY <1>1, <1>2, <1>4, AdvanceFacts DEF Advance
  <2>2. QED
    BY <1>4, <2>1 DEF GapInv
<1>5. ASSUME NEW answer \in Answers, AnswerUnaudited(c, answer), sent' = sent,
             answer = "server_error" \/ c \notin sent
      PROVE  GapInv(c)'
  <2>1. task'[c] = "none"
    BY <1>2, <1>5 DEF AnswerUnaudited
  <2>2. call'[c].answer = answer
    BY <1>1, <1>5, AnswerFacts
  <2>3. QED
    BY <1>5, <2>1, <2>2 DEF GapInv
<1>6. CASE Refuse(c) \/ RulesUnavailable(c) \/ Fail(c)
  BY <1>1, <1>5, <1>6 DEF Refuse, RulesUnavailable, Fail, FlowInv, Answers
<1>7. CASE \E a \in Agents, p \in Prompts: Arrive(c, a, p)
  <2>1. task'[c] = "none" /\ call'[c].pc = "lookup"
    BY <1>1, <1>2, <1>7 DEF Arrive, NewCall
  <2>2. QED
    BY <2>1 DEF GapInv
<1>8. CASE GetAgent(c)
  <2> DEFINE row == agent[call[c].agent]
  <2>1. CASE row = NoAgent \/ row.status # "active"
    BY <1>3, <1>8, <2>1 DEF GetAgent
  <2>2. CASE ~(row = NoAgent \/ row.status # "active")
    <3>1. task'[c] = "none" /\ call'[c].pc = "rules"
      BY <1>1, <1>2, <1>8, <2>2 DEF GetAgent, CallRows
    <3>2. QED
      BY <3>1 DEF GapInv
  <2>3. QED
    BY <2>1, <2>2
<1>9. CASE Decide(c) \/ PushTask(c) \/ AnnounceTask(c) \/ Route(c) \/ Complete(c)
  BY <1>3, <1>4, <1>9 DEF Decide, PushTask, AnnounceTask, Route, Complete, PCs
<1>10. QED
  BY <1>6, <1>7, <1>8, <1>9 DEF Handling

LEMMA GapsStep == IInv /\ GapsKnown /\ [Next]_vars => GapsKnown'
<1> SUFFICES ASSUME IInv, GapsKnown, [Next]_vars, NEW d \in Calls PROVE GapInv(d)'
  BY DEF GapsKnown
<1>1. /\ GapInv(d) /\ FlowInv(d) /\ RowInv(d)
      /\ task \in [Calls -> {"none", "insert", "publish", "done", "lost"}]
  BY DEF GapsKnown, IInv, CallInv, TypeOK
<1>2. ASSUME NEW c \in Calls, Handling(c) PROVE GapInv(d)'
  <2>1. CASE d = c
    BY <1>2, <2>1, HandlingLeavesNoGap
  <2>2. CASE d # c
    <3>1. /\ call'[d] = call[d] /\ task'[d] = task[d] /\ audit' = audit
          /\ d \in sent' <=> d \in sent
      BY <1>2, <2>2, HandlingUntouched DEF IInv, records
    <3>2. QED
      BY <1>1, <3>1 DEF GapInv
  <2>3. QED
    BY <2>1, <2>2
<1>3. ASSUME NEW c \in Calls, Recording(c) PROVE GapInv(d)'
  <2>1. /\ call' = call /\ sent' = sent /\ audit \subseteq audit'
        /\ task'[d] = "none" => task[d] = "none"
        /\ task'[d] = "done" =>
             \/ task[d] = "done"
             \/ task[d] = "publish"
             \/ d = c /\ InsertRow(c)
    BY <1>1, <1>3 DEF Recording, InsertRow, PublishRow, LoseTask, effects, records
  <2>2. InsertRow(c) => <<c, call[c].answer>> \in audit'
    BY DEF InsertRow
  <2>3. QED
    BY <1>1, <2>1, <2>2 DEF GapInv, RowInv
<1>4. ASSUME UNCHANGED <<call, task, sent, audit>> PROVE GapInv(d)'
  BY <1>1, <1>4 DEF GapInv
<1>5. QED
  BY <1>2, <1>3, <1>4 DEF Next, ChangeAgent, ChangePolicy, ReadRules, StoreRules, RefreshFails, handling,
     vars

\* A forwarded call misses its row only by a handler that failed or a task that was lost.
THEOREM RecordsCorrect == Spec => []RecordedUnlessLost
<1>1. Init => GapsKnown
  BY DEF Init, NewCall, GapsKnown, GapInv
<1>2. IInv /\ GapsKnown => RecordedUnlessLost
  <2> SUFFICES ASSUME IInv, GapsKnown, NEW c \in sent, Answered(c),
                      task[c] \notin {"insert", "publish"}, task[c] # "lost",
                      call[c].answer # "server_error"
               PROVE  \E event \in Audited: <<c, event>> \in audit
    BY DEF RecordedUnlessLost
  <2>1. c \in Calls /\ GapInv(c) /\ task[c] \in {"none", "done"}
    BY DEF GapsKnown, IInv, TypeOK
  <2>2. task[c] = "done" /\ <<c, call[c].answer>> \in audit
    BY <2>1 DEF GapInv, Answered
  <2>3. QED
    BY <2>1, <2>2 DEF IInv, TypeOK
<1>3. QED
  BY <1>1, <1>2, GapsStep, Invariance, PTL DEF Spec
-----------------------------------------------------------------------------
\* What the refinement needs besides: an answer comes with the end of the call, and an
\* event waits for one publication.
AnswersComeLast ==
  \A c \in Calls: /\ call[c].answer = "none" <=> call[c].pc # "answered"
                  /\ task[c] = "publish" => c \notin feed

\* What the callers got, as the ledger sees it.
Got == [c \in Calls |-> call[c].answer]

\* What a step of a handler is to its caller: an answer, or a step without one.
LEMMA HandlingShows ==
  ASSUME TypeOK, AnswersComeLast, NEW c \in Calls, Handling(c)
  PROVE  /\ \A d \in Calls: d # c => call'[d] = call[d]
         /\ \/ call'[c].answer = call[c].answer /\ call'[c].pc # "answered"
               /\ task'[c] = task[c]
            \/ call'[c].answer \in Answers /\ call'[c].pc = "answered"
               /\ task'[c] \in {task[c], "insert"}
<1> DEFINE Shows == \/ /\ call'[c].answer = call[c].answer /\ call'[c].pc # "answered"
                       /\ task'[c] = task[c]
                    \/ /\ call'[c].answer \in Answers /\ call'[c].pc = "answered"
                       /\ task'[c] \in {task[c], "insert"}
<1> SUFFICES Shows
  BY HandlingUntouched
<1>1. call \in [Calls -> CallRows] /\ task \in [Calls -> {"none", "insert", "publish", "done", "lost"}]
  BY DEF TypeOK, CallRows
<1>2. ASSUME NEW answer \in Answers, Answer(c, answer) \/ AnswerUnaudited(c, answer) PROVE Shows
  <2>1. task'[c] \in {task[c], "insert"}
    BY <1>1, <1>2 DEF Answer, AnswerUnaudited
  <2>2. call'[c].pc = "answered" /\ call'[c].answer = answer
    BY <1>1, <1>2, AnswerFacts
  <2>3. QED
    BY <2>1, <2>2
<1>3. ASSUME NEW pc \in PCs, pc # "answered", Advance(c, pc) PROVE Shows
  <2>1. task' = task
    BY <1>3 DEF Advance
  <2>2. call'[c].pc = pc /\ call'[c].answer = call[c].answer
    BY <1>1, <1>3, AdvanceFacts DEF Advance
  <2>3. QED
    BY <1>3, <2>1, <2>2
<1>4. CASE \E a \in Agents, p \in Prompts: Arrive(c, a, p)
  BY <1>1, <1>4 DEF Arrive, NewCall, AnswersComeLast
<1> HIDE DEF Shows
<1>5. CASE GetAgent(c)
  <2> DEFINE row == agent[call[c].agent]
  <2>1. CASE row = NoAgent \/ row.status # "active"
    BY <1>2, <1>5, <2>1 DEF GetAgent, Answers
  <2>2. CASE ~(row = NoAgent \/ row.status # "active")
    BY <1>1, <1>5, <2>2 DEF GetAgent, CallRows, Shows
  <2>3. QED
    BY <2>1, <2>2
<1>6. CASE Refuse(c) \/ RulesUnavailable(c) \/ AnnounceTask(c) \/ Complete(c) \/ Fail(c)
  BY <1>2, <1>6 DEF Refuse, RulesUnavailable, AnnounceTask, Complete, Fail, Answers
<1>7. CASE Decide(c) \/ PushTask(c) \/ Route(c)
  BY <1>2, <1>3, <1>7 DEF Decide, PushTask, Route, Answers, PCs
<1>8. QED
  BY <1>4, <1>5, <1>6, <1>7 DEF Handling

LEMMA AnswersStep == IInv /\ AnswersComeLast /\ [Next]_vars => AnswersComeLast'
<1> SUFFICES ASSUME IInv, AnswersComeLast, [Next]_vars PROVE AnswersComeLast'
  OBVIOUS
<1>1. ASSUME NEW c \in Calls, Handling(c), NEW d \in Calls
      PROVE  /\ call'[d].answer = "none" <=> call'[d].pc # "answered"
             /\ task'[d] = "publish" => d \notin feed'
  <2>1. feed' = feed
    BY <1>1 DEF Handling, Refuse, Arrive, GetAgent, Decide, RulesUnavailable, PushTask,
                AnnounceTask, Route, Complete, Fail, records
  <2>2. CASE d = c
    <3>1. "none" \notin Answers
      BY DEF Answers
    <3>2. /\ \/ call'[c].answer = call[c].answer /\ call'[c].pc # "answered"
                /\ task'[c] = task[c]
             \/ call'[c].answer \in Answers /\ call'[c].pc = "answered"
                /\ task'[c] \in {task[c], "insert"}
      BY <1>1, HandlingShows DEF IInv
    <3>3. call[c].pc # "answered"
      BY <1>1 DEF Handling, Refuse, Arrive, GetAgent, Decide, RulesUnavailable, PushTask,
                  AnnounceTask, Route, Complete, Fail
    <3>4. QED
      BY <2>1, <2>2, <3>1, <3>2, <3>3 DEF AnswersComeLast
  <2>3. CASE d # c
    BY <1>1, <2>1, <2>3, HandlingUntouched DEF IInv, AnswersComeLast
  <2>4. QED
    BY <2>2, <2>3
<1>2. ASSUME NEW c \in Calls, Recording(c), NEW d \in Calls
      PROVE  /\ call'[d].answer = "none" <=> call'[d].pc # "answered"
             /\ task'[d] = "publish" => d \notin feed'
  <2>1. call' = call
    BY <1>2 DEF Recording, InsertRow, PublishRow, LoseTask
  <2>2. task'[d] = "publish" => d \notin feed'
    <3>1. task \in [Calls -> {"none", "insert", "publish", "done", "lost"}]
      BY DEF IInv, TypeOK
    <3>2. CASE InsertRow(c)
      <4>1. c \notin feed
        BY <3>2 DEF InsertRow, IInv, CallInv, RowInv
      <4>2. QED
        BY <3>1, <3>2, <4>1 DEF InsertRow, AnswersComeLast
    <3>3. CASE PublishRow(c)
      BY <3>1, <3>3 DEF PublishRow, AnswersComeLast
    <3>4. CASE LoseTask(c)
      BY <3>1, <3>4 DEF LoseTask, records, AnswersComeLast
    <3>5. QED
      BY <1>2, <3>2, <3>3, <3>4 DEF Recording
  <2>3. QED
    BY <2>1, <2>2 DEF AnswersComeLast
<1>3. ASSUME UNCHANGED <<call, task, feed>> PROVE AnswersComeLast'
  BY <1>3 DEF AnswersComeLast
<1>4. QED
  BY <1>1, <1>2, <1>3 DEF Next, ChangeAgent, ChangePolicy, ReadRules, StoreRules, RefreshFails, handling,
     vars, AnswersComeLast
-----------------------------------------------------------------------------
\* The steps of the ledger.
LEMMA LedgerAnswers ==
  ASSUME IInv, AnswersComeLast, NEW c \in Calls, call[c].pc # "answered", NEW answer \in Answers,
         Answer(c, answer) \/ AnswerUnaudited(c, answer),
         answer \in Ledger!Unrecorded \/ Ledger!Truthful(c, answer),
         UNCHANGED <<demo, sent, queued, audit, feed>>
  PROVE  Ledger!Answer(c, answer)
<1>1. call \in [Calls -> CallRows]
  BY DEF IInv, TypeOK, CallRows
<1>2. /\ call'[c].answer = answer
      /\ \A d \in Calls: d # c => call'[d] = call[d]
  BY <1>1, AnswerFacts
<1>3. Got' = [Got EXCEPT ![c] = answer]
  BY <1>2 DEF Got
<1>4. Got[c] = "none"
  BY DEF AnswersComeLast, Got
<1>5. QED
  BY <1>3, <1>4 DEF Ledger!Answer, Got

\* A step without an answer leaves the answers alone.
LEMMA LedgerWaits ==
  ASSUME IInv, AnswersComeLast, NEW c \in Calls, NEW pc \in PCs, Advance(c, pc)
  PROVE  Got' = Got
<1>1. call \in [Calls -> CallRows]
  BY DEF IInv, TypeOK, CallRows
<1>2. QED
  BY <1>1, AdvanceFacts DEF Advance, Got

LEMMA LedgerHandles ==
  ASSUME IInv, AnswersComeLast, NEW c \in Calls, Handling(c)
  PROVE  Ledger!Next \/ UNCHANGED <<demo, Got, sent, queued, audit, feed>>
<1> DEFINE Goal == Ledger!Next \/ UNCHANGED <<demo, Got, sent, queued, audit, feed>>
<1> USE DEF environment, effects, records
<1>1. /\ TypeOK /\ FlowInv(c)
      /\ call \in [Calls -> CallRows] /\ call[c] \in CallRows
  BY DEF IInv, CallInv, TypeOK, CallRows
<1>2. Answers = Ledger!Recorded \union Ledger!Unrecorded
  BY DEF Answers, Ledger!Recorded, Ledger!Unrecorded, Ledger!Modelled
<1>3. ASSUME NEW answer \in Answers, Ledger!Answer(c, answer) PROVE Goal
  BY <1>2, <1>3 DEF Ledger!Next
<1>4. ASSUME NEW answer \in Answers, Answer(c, answer) \/ AnswerUnaudited(c, answer),
             call[c].pc # "answered",
             answer \in Ledger!Unrecorded \/ Ledger!Truthful(c, answer),
             UNCHANGED <<demo, sent, queued, audit, feed>>
      PROVE  Goal
  BY <1>3, <1>4, LedgerAnswers
<1>5. CASE Refuse(c) \/ RulesUnavailable(c) \/ Fail(c)
  BY <1>4, <1>5 DEF Refuse, RulesUnavailable, Fail, Answers, Ledger!Unrecorded
<1>6. CASE \E a \in Agents, p \in Prompts: Arrive(c, a, p)
  <2>1. Got' = Got
    BY <1>1, <1>6 DEF Arrive, NewCall, AnswersComeLast, Got
  <2>2. QED
    BY <1>6, <2>1 DEF Arrive
<1>7. CASE GetAgent(c)
  <2> DEFINE row == agent[call[c].agent]
  <2>1. CASE row = NoAgent \/ row.status # "active"
    <3>1. PICK answer \in {"unknown_agent", "agent_inactive"}: Answer(c, answer)
      BY <1>7, <2>1 DEF GetAgent
    <3>2. Ledger!Truthful(c, answer)
      BY <1>1, <1>7 DEF GetAgent, FlowInv, Ledger!Truthful, Ledger!Modelled
    <3>3. QED
      BY <1>4, <1>7, <3>1, <3>2 DEF GetAgent, Answers
  <2>2. CASE ~(row = NoAgent \/ row.status # "active")
    <3>1. Got' = Got
      BY <1>1, <1>7, <2>2 DEF GetAgent, CallRows, Got
    <3>2. QED
      BY <1>7, <3>1 DEF GetAgent
  <2>3. QED
    BY <2>1, <2>2
<1>8. CASE Decide(c)
  <2>1. c \notin sent /\ c \notin queued
    BY <1>1, <1>8 DEF Decide, FlowInv
  <2>2. CASE Answer(c, "blocked") \/ (demo /\ Answer(c, "call_completed"))
    <3>1. Ledger!Truthful(c, "blocked") /\ (demo => Ledger!Truthful(c, "call_completed"))
      BY <2>1 DEF Ledger!Truthful, Ledger!Modelled
    <3>2. QED
      BY <1>4, <1>8, <2>2, <3>1 DEF Decide, Answers
  <2>3. CASE Advance(c, "push") \/ Advance(c, "route")
    BY <1>8, <2>3, LedgerWaits DEF Decide, PCs
  <2>4. QED
    BY <1>8, <2>2, <2>3 DEF Decide
<1>9. CASE PushTask(c)
  <2>1. Got' = Got /\ Got[c] = "none" /\ c \notin sent \union queued
    BY <1>1, <1>9, LedgerWaits DEF PushTask, PCs, FlowInv, AnswersComeLast, Got
  <2>2. Ledger!Queue(c)
    BY <1>9, <2>1 DEF PushTask, Ledger!Queue, Ledger!Untouched, Got
  <2>3. QED
    BY <2>2 DEF Ledger!Next
<1>10. CASE AnnounceTask(c)
  <2>1. Ledger!Truthful(c, "oversight_required")
    BY <1>1, <1>10 DEF AnnounceTask, FlowInv, Ledger!Truthful, Ledger!Modelled
  <2>2. QED
    BY <1>4, <1>10, <2>1 DEF AnnounceTask, Answers
<1>11. CASE Route(c)
  <2>1. CASE Advance(c, "model") /\ sent' = sent \union {c}
    <3>1. Got' = Got /\ Got[c] = "none" /\ c \notin sent \union queued /\ ~demo
      BY <1>1, <1>11, <2>1, LedgerWaits DEF Route, PCs, FlowInv, AnswersComeLast, Got
    <3>2. Ledger!Send(c)
      BY <1>11, <2>1, <3>1 DEF Route, Ledger!Send, Ledger!Untouched, Got
    <3>3. QED
      BY <3>2 DEF Ledger!Next
  <2>2. CASE Answer(c, "no_eligible_provider") /\ UNCHANGED sent
    <3>1. Ledger!Truthful(c, "no_eligible_provider")
      BY <1>1, <1>11 DEF Route, FlowInv, Ledger!Truthful, Ledger!Modelled
    <3>2. QED
      BY <1>4, <1>11, <2>2, <3>1 DEF Route, Answers
  <2>3. QED
    BY <1>11, <2>1, <2>2 DEF Route
<1>12. CASE Complete(c)
  <2>1. PICK answer \in Routed: Answer(c, answer)
    BY <1>12 DEF Complete, Routed
  <2>2. Ledger!Truthful(c, answer)
    BY <1>1, <1>12, <2>1 DEF Complete, FlowInv, Routed, Ledger!Truthful, Ledger!Modelled
  <2>3. QED
    BY <1>4, <1>12, <2>1, <2>2 DEF Complete, Answers, Routed
<1>13. QED
  BY <1>5, <1>6, <1>7, <1>8, <1>9, <1>10, <1>11, <1>12 DEF Handling

LEMMA LedgerRecords ==
  ASSUME IInv, AnswersComeLast, NEW c \in Calls, Recording(c)
  PROVE  Ledger!Next \/ UNCHANGED <<demo, Got, sent, queued, audit, feed>>
<1> USE DEF environment, effects, records
<1>1. /\ FlowInv(c) /\ RowInv(c) /\ audit \subseteq Calls \X Audited
      /\ Got[c] = call[c].answer
  BY DEF IInv, CallInv, TypeOK, Got
<1>2. CASE InsertRow(c)
  <2>1. Got' = Got /\ call[c].answer \in Ledger!Recorded
    BY <1>1, <1>2 DEF InsertRow, FlowInv, Got, Audited, Ledger!Recorded, Ledger!Modelled
  <2>2. \A row \in audit: row[1] # c
    BY <1>1, <1>2 DEF InsertRow, RowInv
  <2>3. Ledger!Record(c)
    BY <1>1, <1>2, <2>1, <2>2 DEF InsertRow, Ledger!Record, Got
  <2>4. QED
    BY <2>3 DEF Ledger!Next
<1>3. CASE PublishRow(c)
  <2>1. /\ Got' = Got /\ c \notin feed
        /\ call[c].answer # "oversight_required" /\ <<c, call[c].answer>> \in audit
    BY <1>1, <1>3 DEF PublishRow, RowInv, AnswersComeLast, Got
  <2>2. Ledger!Show(c)
    BY <1>1, <1>3, <2>1 DEF PublishRow, Ledger!Show, Got
  <2>3. QED
    BY <2>2 DEF Ledger!Next
<1>4. CASE LoseTask(c)
  BY <1>4 DEF LoseTask, Got
<1>5. QED
  BY <1>2, <1>3, <1>4 DEF Recording

\* The handlers and their background tasks, among changes of agents and policies, keep
\* the promises CallLedger makes of every call.
THEOREM Refinement == Spec => KeepsLedger
<1>1. Init => Ledger!Init /\ AnswersComeLast
  BY DEF Init, NewCall, Ledger!Init, AnswersComeLast
<1>2. IInv /\ AnswersComeLast /\ [Next]_vars =>
        [Ledger!Next]_<<demo, Got, sent, queued, audit, feed>>
  <2> SUFFICES ASSUME IInv, AnswersComeLast, [Next]_vars
               PROVE  Ledger!Next \/ UNCHANGED <<demo, Got, sent, queued, audit, feed>>
    OBVIOUS
  <2>1. CASE \E c \in Calls: Handling(c) \/ Recording(c)
    BY <2>1, LedgerHandles, LedgerRecords
  <2>2. CASE UNCHANGED <<demo, call, sent, queued, audit, feed>>
    BY <2>2 DEF Got
  <2>3. QED
    BY <2>1, <2>2 DEF Next, ChangeAgent, ChangePolicy, ReadRules, StoreRules, RefreshFails, handling,
     vars
<1>3. QED
  BY <1>1, <1>2, AnswersStep, Invariance, PTL DEF Spec, KeepsLedger, Ledger!Spec, Ledger!ledger, Got
=============================================================================
