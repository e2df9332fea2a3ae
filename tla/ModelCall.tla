------------------------------ MODULE ModelCall ------------------------------
(***************************************************************************)
(* How an agent talks to models and vendors: the harness                    *)
(* (autoessay/harness/runner.py) retries, judges and audits one call at a   *)
(* time, and the client below it (autoessay/llm_client.py) walks a chain of *)
(* providers.  An agent makes Steps calls, from the places CallSites lists; *)
(* calls through one AuditWriter share one AgentInvocation row.             *)
(*                                                                         *)
(* A call is of kind "llm" (run_llm_step), "tool" (run_tool_step) or        *)
(* "turns" (the two streamed turns of the first rewrite round, which bypass *)
(* the harness).  What a provider answers is abstracted to the cases the    *)
(* code tells apart; what a judged answer is worth is chosen when judged.   *)
(***************************************************************************)
EXTENDS CallSites, Sequences, FiniteSets, SequencesExt

CONSTANTS
    NProviders,     \* length of the configured provider chain
    Steps,          \* calls of the agent that are followed
    Sites,          \* the places it calls from
    Breakdowns      \* times the worker is killed or its alarm rings, at most

ASSUME ChainAssumption == NProviders \in Nat \ {0} /\ Steps \in Nat
ASSUME SitesAssumption == Sites # {} /\ Sites \subseteq DOMAIN CallSite

VARIABLES
    pc,         \* where the agent is in the current call
    site,       \* where the current or last call was made
    attempt,    \* attempt_number; for "turns" the turn
    asked,      \* the answers of the providers asked in this attempt, in order
    decided,    \* the status the current attempt is being closed with
    client,     \* the http client of the call: none, open
    rows,       \* ProviderCall rows, as committed
    log,        \* rows with a line in llm_calls.jsonl or tool_calls.jsonl
    inv,        \* per kind of writer, its AgentInvocation row: [status, retries]
    outcomes,   \* of each finished call, its status and what the agent took from it
    broken      \* breakdowns so far

vars == <<pc, site, attempt, asked, decided, client, rows, log, inv, outcomes, broken>>

at == CallSite[site]
kind == at.kind

\* What a provider can do with a request.  "ok" is a 200 whose content parses as
\* JSON, "badJson" one whose content does not, "blank" one with no content,
\* "badBody" one whose body is no
\* JSON at all, "empty" another 2xx; "busy" a 5xx, 401, 403, 408 or 429; "caller"
\* a 400, 404 or 422; "odd" any other status; "silent" a timeout or a network
\* error; "cut" a connection the server closes (RemoteProtocolError).
Answers == {"ok", "badJson", "blank", "badBody", "empty", "busy", "caller", "odd", "silent", "cut"}

\* What a vendor's tool can do.
ToolAnswers == {"ok", "transient", "vendor"}

\* What the schema, the sentinels and the hooks make of a parsed answer.
Judgements == {"clean", "badSchema", "sentinel", "hookRejects", "hookFallsBack"}
Verdicts == {"clean", "badSchema", "sentinel"} \cup at.objections

FinalStatuses == {"accepted", "rejected_fallback_used", "failed_schema_violation",
                  "failed_transport", "failed_vendor"}

BadContent == {"badJson", "blank"}

\* A streamed answer is served whatever its content; the harness asks for JSON.
Serves(a) == a = "ok" \/ (kind = "turns" /\ a \in BadContent)

\* Answers that end the walk: a caller's error in both clients; without streaming
\* also an unusual status and an error the client does not catch.
Aborts(a) == a = "caller" \/ (kind = "llm" /\ a \in {"odd", "cut"})

-----------------------------------------------------------------------------
(* What chat_completion raises when no provider served: the status of the last *)
(* response if that is an error, else the last exception.  Only a content that *)
(* failed to parse becomes a schema violation.                                 *)
Responded(a) == a \in BadContent \cup {"badBody", "empty", "busy"}
Excepted(a) == a # "empty"
LastOf(s, Test(_)) ==
    LET hits == {i \in DOMAIN s : Test(s[i])} IN IF hits = {} THEN "none" ELSE s[Max(hits)]

\* A slip: the chain's status wins over a later content failure.
Surfaces_AnyStatus(s) ==
    IF ~\E i \in DOMAIN s : s[i] = "busy" THEN (IF LastOf(s, Excepted) \in BadContent THEN "json" ELSE "transport")
    ELSE "transport"

Surfaces(s) ==
    IF LastOf(s, Responded) # "busy" /\ LastOf(s, Excepted) \in BadContent
    THEN "json" ELSE "transport"

-----------------------------------------------------------------------------
NoInvocation == [status |-> "none", retries |-> 0]

Init ==
    /\ pc = "idle" /\ site = (CHOOSE c \in Sites : TRUE) /\ attempt = 0
    /\ asked = <<>> /\ decided = "none" /\ client = "none"
    /\ rows = <<>> /\ log = {} /\ inv = [w \in {"own", "shared"} |-> NoInvocation]
    /\ outcomes = <<>> /\ broken = 0

\* record_pending / record_tool_pending: the row is committed before the request,
\* and the first of an AuditWriter creates the invocation.
Recorded(n) ==
    /\ rows' = Append(rows, [step |-> Len(outcomes) + 1, attempt |-> n, status |-> "pending"])
    /\ LET c == CallSite[site'] IN
       inv' = IF n = 1 /\ (c.writer = "own" \/ inv[c.writer] = NoInvocation)
              THEN [inv EXCEPT ![c.writer] = [status |-> "started", retries |-> 0]] ELSE inv

\* A failure that makes the agent ask again: whom it asks then.
Again == [four_axes |-> "one_axis", shadow_baseline |-> "shadow_baseline",
          cite_marker_repair |-> "cite_marker_repair"]

\* Where the agent may call next.
MayCall(c) ==
    outcomes # <<>> =>
        /\ Last(outcomes).taken # "fails"
        /\ Last(outcomes).taken = "asks again" => c = Again[site]

\* The agent makes its next call.
Begin(c) ==
    /\ pc = "idle" /\ Len(outcomes) < Steps /\ MayCall(c)
    /\ site' = c /\ attempt' = 1 /\ asked' = <<>> /\ pc' = "asking"
    /\ client' = IF CallSite[c].kind = "tool" THEN "none" ELSE "open"
    /\ IF CallSite[c].kind = "turns" THEN UNCHANGED <<rows, inv>> ELSE Recorded(1)
    /\ UNCHANGED <<decided, log, outcomes, broken>>

\* A slip: the row is committed before the files are written.
Settle_RowFirst(status) ==
    /\ pc' = "committing" /\ decided' = status
    /\ UNCHANGED <<site, attempt, client, rows, log, inv, outcomes, broken>>

\* The attempt is settled with a status: the response file and the log line are
\* written next.  The two turns have no row to settle.
Settle(status) ==
    /\ pc' = "logging" /\ decided' = status
    /\ UNCHANGED <<site, attempt, client, rows, log, inv, outcomes, broken>>

\* What the agent goes on with.
Taken(status) ==
    CASE status \in {"accepted", "revised"} ->
             {"content"} \cup (IF at.rechecked THEN at.refused ELSE {})
      [] status = "rejected_fallback_used"  -> {"fallback"}
      [] status = "failed_schema_violation" -> at.refused
      [] OTHER                              -> at.lost

\* The call is over and the agent has its result; the finally closes the client.
Return(result) ==
    /\ \E t \in Taken(result) : outcomes' = Append(outcomes, [status |-> result, taken |-> t])
    /\ pc' = "idle" /\ client' = "none"
    /\ decided' = "none" /\ asked' = <<>>

\* An answer that did not pass: another attempt while the budget lasts, else the
\* call site's fallback, else a schema violation.
Invalid ==
    Settle(IF attempt < at.attempts THEN "retrying"
           ELSE IF at.fallback = "always" THEN "rejected_fallback_used"
           ELSE "failed_schema_violation")

-----------------------------------------------------------------------------
(* The provider chain: LLMClient.chat_completion and _stream_one_provider.     *)

\* The two streamed turns: the second starts when the first gave a critique.
TurnServed(a) ==
    IF a = "blank" THEN Return("none") /\ UNCHANGED attempt
    ELSE IF attempt = 1
    THEN /\ attempt' = 2 /\ asked' = <<>>
         /\ UNCHANGED <<pc, decided, client, outcomes>>
    ELSE Return("revised") /\ UNCHANGED attempt

Serve(a) ==
    /\ pc = "asking" /\ kind # "tool" /\ Serves(a)
    /\ IF kind = "llm"
       THEN /\ pc' = "judging" /\ asked' = Append(asked, a)
            /\ UNCHANGED <<attempt, decided, client, outcomes>>
       ELSE TurnServed(a)
    /\ UNCHANGED <<site, rows, log, inv, broken>>

\* Any other answer: the walk goes on to the next provider.
FallThrough(a) ==
    /\ pc = "asking" /\ kind # "tool" /\ ~Serves(a) /\ ~Aborts(a)
    /\ Len(asked) + 1 < NProviders
    /\ asked' = Append(asked, a)
    /\ UNCHANGED <<pc, site, attempt, decided, client, rows, log, inv, outcomes, broken>>

\* The chain is exhausted, or the answer ends the walk.
GiveUp(a) ==
    /\ pc = "asking" /\ kind # "tool" /\ ~Serves(a)
    /\ Aborts(a) \/ Len(asked) + 1 = NProviders
    /\ IF kind = "turns"
       THEN Return("none") /\ UNCHANGED <<site, attempt, rows, log, inv, broken>>
       ELSE /\ asked' = Append(asked, a)
            /\ IF ~Aborts(a) /\ Surfaces(asked') = "json" THEN Invalid ELSE Settle("failed_transport")

-----------------------------------------------------------------------------
(* run_llm_step and run_tool_step on what came back.                           *)

\* validate_response, check_sentinels and run_post_llm on a parsed answer.
JudgeAnswer(j) ==
    /\ pc = "judging" /\ kind = "llm" /\ j \in Verdicts
    /\ CASE j = "clean" -> Settle("accepted")
         [] j = "hookFallsBack" /\ at.fallback # "none" -> Settle("rejected_fallback_used")
         [] OTHER -> Invalid
    /\ UNCHANGED asked

\* The vendor answered or raised.
VendorAnswers(a) ==
    /\ pc = "asking" /\ kind = "tool"
    /\ asked' = Append(asked, a)
    /\ CASE a = "ok" -> /\ pc' = "judging"
                        /\ UNCHANGED <<site, attempt, decided, client, rows, log, inv, outcomes, broken>>
         [] a = "transient" -> Settle(IF attempt < at.attempts THEN "retrying" ELSE "failed_transport")
         [] a = "vendor" -> Settle("failed_vendor")

\* A tool's answer is judged once: a bad one is not retried.
JudgeTool(j) ==
    /\ pc = "judging" /\ kind = "tool" /\ j \in Verdicts
    /\ Settle(IF j = "clean" THEN "accepted" ELSE "failed_schema_violation")
    /\ UNCHANGED asked

-----------------------------------------------------------------------------
(* AuditWriter: files first, then the row, then the invocation.                *)

WriteLog ==
    /\ pc = "logging"
    /\ log' = log \cup {Len(rows)} /\ pc' = "committing"
    /\ UNCHANGED <<site, attempt, asked, decided, client, rows, inv, outcomes, broken>>

\* A slip: the row is looked up by request, not by attempt.
CommitRow_ByRequest ==
    /\ pc = "committing"
    /\ rows' = [i \in DOMAIN rows |->
                    IF rows[i].step = Len(outcomes) + 1 /\ rows[i].attempt = 1
                    THEN [rows[i] EXCEPT !.status = decided] ELSE rows[i]]
    /\ pc' = IF decided = "retrying" THEN "again" ELSE "closing"
    /\ UNCHANGED <<site, attempt, asked, decided, client, log, inv, outcomes, broken>>

\* finish_attempt commits the row.
CommitRow ==
    /\ pc = "committing"
    /\ rows' = [rows EXCEPT ![Len(rows)].status = decided]
    /\ pc' = IF decided = "retrying" THEN "again" ELSE "closing"
    /\ UNCHANGED <<site, attempt, asked, decided, client, log, inv, outcomes, broken>>

\* A slip: the retry does not count.
NextAttempt_SameNumber ==
    /\ pc = "again"
    /\ asked' = <<>> /\ decided' = "none" /\ pc' = "asking"
    /\ UNCHANGED <<attempt, rows, inv, site, client, log, outcomes, broken>>

\* The next attempt, with the corrective suffix.
NextAttempt ==
    /\ pc = "again"
    /\ attempt' = attempt + 1 /\ asked' = <<>> /\ decided' = "none" /\ pc' = "asking"
    /\ Recorded(attempt + 1)
    /\ UNCHANGED <<site, client, log, outcomes, broken>>

\* finish_invocation, at the end of every call.
FinishInvocation ==
    /\ pc = "closing"
    /\ inv' = [inv EXCEPT ![at.writer] = [status |-> decided, retries |-> attempt - 1]]
    /\ Return(decided)
    /\ UNCHANGED <<site, attempt, rows, log, broken>>

-----------------------------------------------------------------------------
(* The worker can be killed anywhere; the job's alarm, rung while a request is  *)
(* awaited, cancels the call, and the agent's "except Exception" may go on.     *)

Kill ==
    /\ pc # "dead" /\ broken < Breakdowns
    /\ pc' = "dead" /\ client' = "none" /\ broken' = broken + 1
    /\ UNCHANGED <<site, attempt, asked, decided, rows, log, inv, outcomes>>

Alarm ==
    /\ pc = "asking" /\ broken < Breakdowns
    /\ broken' = broken + 1
    /\ Return(IF kind = "turns" THEN "none" ELSE "interrupted")
    /\ UNCHANGED <<site, attempt, rows, log, inv>>

CallStep ==
    \/ \E a \in Answers : Serve(a) \/ FallThrough(a) \/ GiveUp(a)
    \/ \E j \in Judgements : JudgeAnswer(j) \/ JudgeTool(j)
    \/ \E a \in ToolAnswers : VendorAnswers(a)
    \/ WriteLog \/ CommitRow \/ NextAttempt \/ FinishInvocation

Next ==
    \/ \E c \in Sites : Begin(c)
    \/ CallStep
    \/ Kill
    \/ Alarm

Spec == Init /\ [][Next]_vars

\* A call in progress goes on: requests have timeouts and the rest is local.
FairSpec == Spec /\ WF_vars(CallStep)

-----------------------------------------------------------------------------
\* The audit trail tells what happened: a call that ended has one row per
\* attempt, one after the other and numbered from 1, every row but the last
\* "retrying", the last one with the status the agent was given, and a line in the
\* log for each; the invocation shows the last call.  Only a call cut short by the
\* alarm leaves a row pending.
EveryCallIsAudited ==
    pc = "idle" =>
        \A s \in DOMAIN outcomes : outcomes[s].status \in FinalStatuses =>
            \E first, last \in DOMAIN rows :
                /\ first <= last
                /\ \A i \in DOMAIN rows : rows[i].step = s <=> i \in first..last
                /\ s = Len(outcomes) => inv[at.writer] = [status  |-> outcomes[s].status,
                                                         retries |-> last - first]
                /\ \A i \in first..last :
                       /\ rows[i].attempt = i - first + 1
                       /\ rows[i].status = IF i = last THEN outcomes[s].status ELSE "retrying"
                       /\ i \in log

\* The log is ahead of the database whenever the worker dies: a row that was
\* settled has its line.
LogCoversRows == \A i \in DOMAIN rows : rows[i].status # "pending" => i \in log

\* A call is reported as a transport failure only if it could not be had: a
\* provider refused the request itself, or every provider of the chain was asked,
\* none served, and the last problem was not a content that a corrective retry
\* could have repaired.
FailureMeansExhausted ==
    (kind = "llm" /\ decided = "failed_transport") =>
        \/ Aborts(Last(asked))
        \/ /\ Len(asked) = NProviders
           /\ \A i \in DOMAIN asked : ~Serves(asked[i])
           /\ Last(asked) \notin BadContent

\* Every call ends, however the providers answer, unless the worker dies.
EveryCallEnds == (pc # "idle") ~> (pc \in {"idle", "dead"})
=============================================================================
