--------------------------- MODULE ProviderRequest --------------------------
(* One attempt at a model provider: the credential is resolved, refreshed     *)
(* over HTTP where it has run out, the request is sent, the answer is read as *)
(* a stream, and the attempt is settled with one exchange on record.  Every   *)
(* HTTP request runs in a scope with an inactivity timer, an absolute         *)
(* deadline and the owner's cancellation.  Several attempts share one file of *)
(* credentials.  Time is discrete: a timer that has run down fires before the *)
(* clock moves on.                                                            *)
EXTENDS Integers, Sequences, FiniteSets, SequencesExt, FiniteSetsExt

CONSTANTS Attempts,
          Configs,      \* where a candidate's credential may come from
          Profiles,     \* what the credentials file holds at first
          Scripts,      \* what providers send: [protocol, status, evidence, events]
          RefreshReplies, \* what the token endpoint may answer
          Inactivity,   \* ticks of silence a request survives
          Deadline,     \* ticks a request survives at all
          CaptureLimit, \* failed requests that are kept for diagnosis
          Tokens,       \* bound: tokens the endpoint issues
          Unpublished   \* TRUE: an event log entry may end with its outcome unknown

ProviderAssumption == Inactivity \in Nat \ {0} /\ Deadline > Inactivity /\ CaptureLimit \in Nat

VARIABLES att,      \* the attempts
          file,     \* the profile in the credentials file
          issued,   \* tokens the endpoint has issued
          captures  \* failed requests kept

vars == <<att, file, issued, captures>>

Off == -1
Plain == [status |-> 0, embedded |-> 0, tokens |-> {}, retry |-> FALSE]
NoProfile == [access |-> 0, refresh |-> 0, expired |-> FALSE, there |-> FALSE]
Closed == [name |-> "none", timer |-> Off, deadline |-> Off, aborted |-> "no", listening |-> FALSE, opened |-> FALSE]
NoParse == [pending |-> <<>>, finalized |-> {}, calls |-> <<>>, message |-> FALSE]
Start(config, script) ==
  [phase |-> "start", config |-> config, script |-> script, owner |-> FALSE, scope |-> Closed, profile |-> NoProfile,
   token |-> 0, stale |-> FALSE, heard |-> "no", cut |-> FALSE, fresh |-> NoProfile, rest |-> script.events, parse |-> NoParse,
   exchanges |-> 0, sent |-> FALSE, cause |-> "none", outcome |-> "none"]

-----------------------------------------------------------------------------
(* Credentials *)

\* An explicit profile, the account's before the provider's, then a key, then the one profile that matches.
CredentialSource(c) ==
  CASE c.accountProfile \/ c.providerProfile -> "profile"
    [] c.accountKey \/ c.providerKey -> "key"
    [] c.matches = 1 -> "profile"
    [] c.matches > 1 -> "ambiguous"
    [] OTHER -> IF c.codex THEN "missing" ELSE "none"
\* The responses protocol takes a key and nothing else.
ResponsesCredential(c) ==
  IF c.accountProfile \/ c.providerProfile THEN "ambiguous"
  ELSE IF c.accountKey \/ c.providerKey THEN "key" ELSE "missing"
ResolveCredential(a) ==
  IF att[a].script.protocol = "responses" THEN ResponsesCredential(att[a].config) ELSE CredentialSource(att[a].config)
NeedsRefresh(p) == p.expired /\ p.refresh > 0

-----------------------------------------------------------------------------
(* What a provider's failure means *)

FirstOf(rules, default) ==
  IF \E k \in DOMAIN rules : rules[k][1] THEN rules[Min({k \in DOMAIN rules : rules[k][1]})][2] ELSE default
ClassifyDirectProviderFailure(e, opened) ==
  LET m == IF opened THEN e.embedded ELSE 0
      over == "overload" \in e.tokens
      auth == "auth" \in e.tokens
      context == (opened \/ e.status = 400) /\ "context" \in e.tokens
      content == "content" \in e.tokens
  IN FirstOf(<< <<over /\ (403 \in {e.status, m} \/ auth), "auth_permanent">>,
                <<401 \in {e.status, m}, "auth_permanent">>,
                <<429 \in {e.status, m} \/ "rate" \in e.tokens, "rate_limit">>,
                <<~over /\ (m >= 500 \/ e.status >= 500 \/ "transient" \in e.tokens), "server_transient">>,
                <<context /\ content, "provider_protocol_error">>,
                <<context, "input_context_exhausted">>,
                <<content, "content_policy">>,
                <<403 \in {e.status, m} \/ auth, "auth_permanent">>,
                <<opened /\ e.status = 200 /\ "prompt" \in e.tokens, "provider_protocol_error">>,
                <<over, "server_overloaded">>,
                <<e.retry, "rate_limit">> >>, "none")
ClassifyHttpFailure(e) ==
  LET k == ClassifyDirectProviderFailure(e, FALSE) IN IF k = "none" THEN "provider_protocol_error" ELSE k
CreateCodexStreamError(e) ==
  LET k == ClassifyDirectProviderFailure(e, TRUE) IN IF k = "none" THEN "provider_protocol_error" ELSE k
\* A response object that is not completed.
NonCompletedFailure(e) ==
  FirstOf(<< <<"incomplete" \in e.tokens, IF e.status = 200 /\ "length" \in e.tokens THEN "output_token_limit_exceeded" ELSE "provider_protocol_error">>,
             <<"cancelled" \in e.tokens, "server_transient">>,
             <<ClassifyDirectProviderFailure([e EXCEPT !.tokens = IF e.status = 200 THEN @ ELSE {}], TRUE) # "none",
               ClassifyDirectProviderFailure([e EXCEPT !.tokens = IF e.status = 200 THEN @ ELSE {}], TRUE)>> >>,
          "server_transient")
ClassifyTransportFailure(cause) ==
  CASE cause \in {"inactivity", "deadline", "reset"} -> "timeout"
    [] cause = "abort" -> "cancelled"
    [] OTHER -> "unknown"

-----------------------------------------------------------------------------
(* The scope of one HTTP request *)

\* Seeded fault: the deadline is armed anew with the data.
RenewBoth(s) == IF s.aborted = "no" THEN [s EXCEPT !.timer = Inactivity, !.deadline = Deadline] ELSE s
OnData(s) == IF s.aborted = "no" THEN [s EXCEPT !.timer = Inactivity] ELSE s
OpenScope(name) == [OnData([Closed EXCEPT !.name = name, !.listening = TRUE]) EXCEPT !.deadline = Deadline]
CloseScope(s, unknown) == IF unknown THEN s ELSE [s EXCEPT !.timer = Off, !.deadline = Off, !.listening = FALSE]
InScope(a) == att[a].phase \in {"fetch", "body"}
\* The error a scope ends with: an abort of its own signal gives the owner's reason before a timer's.
ScopeReason(a, error) ==
  IF error = "rejected" THEN IF att[a].owner THEN "owner" ELSE att[a].scope.aborted ELSE error

Settle(a, cause, outcome, unknown) ==
  att' = [att EXCEPT ![a] = [@ EXCEPT !.phase = "done", !.outcome = IF unknown THEN "publication_unknown" ELSE outcome, !.cause = cause,
                                      !.scope = CloseScope(@, unknown),
                                      !.exchanges = IF att[a].sent /\ ~unknown THEN @ + 1 ELSE @]]
Captured(a, kind) == att[a].sent /\ ~att[a].owner /\ kind # "cancelled"
Capture(a, kind, unknown) ==
  captures' = IF Captured(a, kind) /\ ~unknown /\ captures < CaptureLimit THEN captures + 1 ELSE captures

-----------------------------------------------------------------------------
(* The attempt *)

\* The plan is checked and the credential is resolved, from the file as it is now.
Begin(a) ==
  LET source == ResolveCredential(a)
      setup(o) == att' = [att EXCEPT ![a].phase = "done", ![a].outcome = o, ![a].cause = "setup"]
  IN /\ att[a].phase = "start"
     /\ UNCHANGED <<file, issued, captures>>
     /\ IF att[a].owner THEN setup("owner")
        ELSE IF source \in {"missing", "ambiguous"} \/ (source = "profile" /\ ~file.there) THEN setup("local_setup_error")
        ELSE IF source = "profile" /\ NeedsRefresh(file)
        THEN att' = [att EXCEPT ![a].phase = "fetch", ![a].profile = file, ![a].scope = OpenScope("refresh")]
        ELSE att' = [att EXCEPT ![a].phase = "ready", ![a].profile = file,
                                ![a].token = IF source = "profile" THEN file.access ELSE 0,
                                ![a].stale = source = "profile" /\ file.expired]
\* The request goes out.
Send(a) ==
  /\ att[a].phase = "ready"
  /\ UNCHANGED <<file, issued, captures>>
  /\ IF att[a].owner
     THEN att' = [att EXCEPT ![a].phase = "done", ![a].outcome = "owner", ![a].cause = "setup"]
     ELSE att' = [att EXCEPT ![a].phase = "fetch", ![a].sent = TRUE, ![a].scope = OpenScope("provider")]

\* Aborts: the owner's, and the two timers'.  The first one is the signal's reason.
OwnerAbort(a) ==
  /\ ~att[a].owner /\ att[a].phase # "done"
  /\ att' = [att EXCEPT ![a].owner = TRUE,
                        ![a].scope = IF @.listening THEN [@ EXCEPT !.timer = Off, !.deadline = Off, !.aborted = IF @ = "no" THEN "owner" ELSE @] ELSE @]
  /\ UNCHANGED <<file, issued, captures>>
Fires(a, which) ==
  /\ IF which = "inactivity" THEN att[a].scope.timer = 0 ELSE att[a].scope.deadline = 0
  /\ att' = [att EXCEPT ![a].scope = [@ EXCEPT !.timer = IF which = "inactivity" THEN Off ELSE @,
                                               !.deadline = IF which = "deadline" THEN Off ELSE @,
                                               !.aborted = IF @ = "no" /\ InScope(a) THEN which ELSE @],
                        ![a].cut = @ \/ (att[a].scope.name = "refresh" /\ InScope(a))]
  /\ UNCHANGED <<file, issued, captures>>
Due(a) == 0 \in {att[a].scope.timer, att[a].scope.deadline}
Tick ==
  /\ \A a \in Attempts : ~Due(a)
  /\ \E a \in Attempts : att[a].scope.timer > 0 \/ att[a].scope.deadline > 0
  /\ att' = [a \in Attempts |-> [att[a] EXCEPT !.scope.timer = IF @ > 0 THEN @ - 1 ELSE @, !.scope.deadline = IF @ > 0 THEN @ - 1 ELSE @]]
  /\ UNCHANGED <<file, issued, captures>>

\* The provider's side of a request ends: by an error of its own or by the abort.
Ends(a, error, unknown) ==
  LET reason == ScopeReason(a, error)
      kind == IF error = "rejected" /\ reason # "owner" THEN ClassifyTransportFailure(reason)
              ELSE IF error = "network" THEN ClassifyTransportFailure(error) ELSE error
  IN /\ att[a].scope.name = "provider"
     /\ Settle(a, error, IF reason = "owner" THEN "owner" ELSE kind, unknown)
     /\ Capture(a, IF reason = "owner" THEN "cancelled" ELSE kind, unknown)
     /\ UNCHANGED <<file, issued>>
\* The same for a refresh: nothing is sent, nothing is on record.
RefreshEnds(a, error, unknown) ==
  LET reason == ScopeReason(a, error)
  IN /\ att[a].scope.name = "refresh"
     /\ Settle(a, error, IF reason = "owner" THEN "owner" ELSE IF error = "rate_limit" THEN error ELSE "server_transient", unknown)
     /\ UNCHANGED <<file, issued, captures>>
Publishes == IF Unpublished THEN BOOLEAN ELSE {FALSE}
\* The endpoint gave nothing usable: the old token is left to be tried.
Declines(a) ==
  /\ att' = [att EXCEPT ![a].phase = "ready", ![a].token = att[a].profile.access, ![a].stale = TRUE, ![a].heard = "answered",
                        ![a].scope = CloseScope(@, FALSE)]
  /\ UNCHANGED <<file, issued, captures>>
\* A body whose text is not needed for an answer: it breaks, and is taken for empty. What is left to say is the
\* status of a failed request, and nothing of a refresh.
IsBestEffort(a) == att[a].phase = "body" /\ (att[a].scope.name = "refresh" \/ att[a].script.status # 200)
ReadBodyTextBestEffort(a, unknown) ==
  LET kind == ClassifyHttpFailure([att[a].script.evidence EXCEPT !.tokens = {}, !.embedded = 0])
  IN IF att[a].scope.name = "refresh"
     THEN IF unknown THEN RefreshEnds(a, "network", TRUE) ELSE Declines(a)
     ELSE Settle(a, "unread", kind, unknown) /\ Capture(a, kind, unknown) /\ UNCHANGED <<file, issued>>
\* An aborted request is rejected by its signal, another one breaks by itself.
Breaks(a) ==
  /\ InScope(a)
  /\ \E unknown \in Publishes :
       IF att[a].scope.aborted # "no" THEN Ends(a, "rejected", unknown) \/ RefreshEnds(a, "rejected", unknown)
       ELSE IF IsBestEffort(a) THEN ReadBodyTextBestEffort(a, unknown)
       ELSE Ends(a, "network", unknown) \/ RefreshEnds(a, "network", unknown)

\* Seeded fault: an endpoint in trouble is taken for one that declines.
RefreshReplyLenient(a, reply) ==
  /\ att[a].phase = "fetch" /\ att[a].scope.name = "refresh" /\ reply \in {"rate_limit", "server_transient"}
  /\ UNCHANGED <<file, issued, captures>>
  /\ att' = [att EXCEPT ![a].phase = "ready", ![a].token = att[a].profile.access, ![a].stale = TRUE, ![a].heard = "trouble",
                        ![a].scope = CloseScope(@, FALSE)]
\* The token endpoint answers, first with its headers: a status in trouble ends the attempt, another failed one
\* declines, and the body of a good one is read.
RefreshReply(a, reply) ==
  /\ att[a].phase = "fetch" /\ att[a].scope.name = "refresh" /\ att[a].scope.aborted \in {"no", "owner"}
  /\ CASE att[a].owner -> RefreshEnds(a, "rejected", FALSE)
       [] reply \in {"rate_limit", "server_transient"} -> RefreshEnds(a, reply, FALSE)
       [] reply = "declined" -> Declines(a)
       [] OTHER -> att' = [att EXCEPT ![a].phase = "body", ![a].scope.opened = TRUE] /\ UNCHANGED <<file, issued, captures>>
\* Then with its body: more of it, all of it with a token, or all of it without one.
RefreshBody(a) ==
  /\ att[a].phase = "body" /\ att[a].scope.name = "refresh" /\ att[a].scope.aborted \in {"no", "owner"}
  /\ \/ att' = [att EXCEPT ![a].scope = OnData(@)] /\ UNCHANGED <<file, issued, captures>>
     \/ Declines(a)
     \/ /\ issued < Tokens
        /\ issued' = issued + 1
        /\ att' = [att EXCEPT ![a].phase = "granted", ![a].scope = CloseScope(@, FALSE),
                              ![a].fresh = [access |-> issued + 1, refresh |-> issued + 1, expired |-> FALSE, there |-> TRUE]]
        /\ UNCHANGED <<file, captures>>
\* The file is read again and replaced as a whole, unless the owner or the profile has gone.
CommitRefreshedAuthProfile(a) ==
  /\ att[a].phase = "granted"
  /\ UNCHANGED <<issued, captures>>
  /\ IF att[a].owner
     THEN att' = [att EXCEPT ![a].phase = "done", ![a].outcome = "owner", ![a].cause = "setup"] /\ UNCHANGED file
     ELSE IF ~file.there
     THEN att' = [att EXCEPT ![a].phase = "done", ![a].outcome = "error", ![a].cause = "setup"] /\ UNCHANGED file
     ELSE att' = [att EXCEPT ![a].phase = "ready", ![a].token = att[a].fresh.access] /\ file' = att[a].fresh
\* The operator takes the profile out of the file.
RemoveProfile ==
  /\ file.there /\ file' = NoProfile
  /\ UNCHANGED <<att, issued, captures>>

\* The provider's headers: a failed status is classified once its body is read.
Headers(a) ==
  /\ att[a].phase = "fetch" /\ att[a].scope.name = "provider"
  /\ att' = [att EXCEPT ![a].phase = "body", ![a].scope.opened = TRUE]
  /\ UNCHANGED <<file, issued, captures>>

-----------------------------------------------------------------------------
(* The answer *)

Known(p, id) == \E k \in DOMAIN p.pending : p.pending[k].id = id
PendingOf(p, id) == p.pending[CHOOSE k \in DOMAIN p.pending : p.pending[k].id = id]
Without(p, id) == SelectSeq(p.pending, LAMBDA c : c.id # id)
FinalizeCodexToolCall(p, id, args) ==
  [p EXCEPT !.finalized = @ \cup {id}, !.pending = Without(p, id),
            !.calls = IF id \in p.finalized THEN @ ELSE Append(@, [id |-> id, args |-> args])]
\* What an event of the stream does: [parse, end], where end is "more", a completion or a failure.
More(p) == [parse |-> p, end |-> "more"]
Stop(p, end) == [parse |-> p, end |-> end]
CompletedCodexResult(p) == IF p.calls # <<>> THEN "tool_calls" ELSE IF p.message THEN "message" ELSE "parse_error"
HandleOpenAICodexEvent(p, e) ==
  CASE e.is = "added" -> More([p EXCEPT !.pending = Append(@, [id |-> e.id, args |-> 0])])
    [] e.is = "delta" ->
         IF Known(p, e.id)
         THEN More([p EXCEPT !.pending = [k \in DOMAIN @ |-> IF @[k].id = e.id THEN [@[k] EXCEPT !.args = @ + 1] ELSE @[k]]])
         ELSE Stop(p, "parse_error")
    [] e.is = "argsdone" -> IF Known(p, e.id) THEN More(FinalizeCodexToolCall(p, e.id, PendingOf(p, e.id).args)) ELSE Stop(p, "parse_error")
    [] e.is = "itemdone" -> More(FinalizeCodexToolCall(p, e.id, IF Known(p, e.id) THEN PendingOf(p, e.id).args ELSE e.args))
    [] e.is = "message" -> More([p EXCEPT !.message = TRUE])
    [] e.is = "failed" -> Stop(p, CreateCodexStreamError(e.evidence))
    [] e.is = "completed" -> Stop(p, CompletedCodexResult(p))
    [] e.is = "eof" -> Stop(p, "parse_error")
    [] OTHER -> More(p)
\* Chat and responses bodies are read to their end and parsed as one object.
ParseBody(p, e) ==
  CASE e.is = "failed" -> Stop(p, NonCompletedFailure(e.evidence))
    [] e.is = "completed" -> Stop(p, "message")
    [] e.is = "filtered" -> Stop(p, "filtered")
    [] e.is = "eof" -> Stop(p, "parse_error")
    [] OTHER -> More(p)
\* Only what is dispatched counts as activity of a stream; every byte counts for a body.
IsActivity(a, e) == e.is \notin (IF att[a].script.protocol = "codex" THEN {"comment", "eof"} ELSE {"eof"})
Succeeded == {"message", "tool_calls", "filtered"}
\* An answer the provider has filtered is an answer, and is kept for diagnosis all the same.
Noteworthy(end) == end \notin Succeeded \/ end = "filtered"
Delivers(a) ==
  /\ att[a].phase = "body" /\ att[a].scope.name = "provider" /\ att[a].rest # <<>>
  /\ LET e == Head(att[a].rest)
         scope == IF IsActivity(a, e) THEN OnData(att[a].scope) ELSE att[a].scope
         step == IF att[a].script.status # 200
                 THEN IF e.is = "eof" THEN Stop(att[a].parse, ClassifyHttpFailure(att[a].script.evidence)) ELSE More(att[a].parse)
                 ELSE IF att[a].script.protocol = "codex" THEN HandleOpenAICodexEvent(att[a].parse, e) ELSE ParseBody(att[a].parse, e)
     IN IF step.end = "more"
        THEN /\ att' = [att EXCEPT ![a].rest = IF e.is = "comment" /\ Len(@) = 1 THEN @ ELSE Tail(@), ![a].scope = scope, ![a].parse = step.parse]
             /\ UNCHANGED <<file, issued, captures>>
        ELSE \E unknown \in Publishes :
             /\ att' = [att EXCEPT ![a] = [@ EXCEPT !.parse = step.parse, !.phase = "done", !.rest = Tail(@),
                                           !.outcome = IF unknown THEN "publication_unknown" ELSE step.end,
                                           !.cause = IF step.end \in Succeeded THEN "answer" ELSE "provider",
                                           !.scope = CloseScope(@, unknown), !.exchanges = IF unknown THEN @ ELSE @ + 1]]
             /\ captures' = IF Noteworthy(step.end) /\ Captured(a, step.end) /\ ~unknown /\ captures < CaptureLimit THEN captures + 1 ELSE captures
             /\ UNCHANGED <<file, issued>>

Init ==
  /\ att \in [Attempts -> {Start(c, s) : c \in Configs, s \in Scripts}]
  /\ file \in Profiles
  /\ issued = 0 /\ captures = 0
Abort(a) == OwnerAbort(a) \/ Fires(a, "inactivity") \/ Fires(a, "deadline")
Own(a) == Begin(a) \/ Send(a) \/ CommitRefreshedAuthProfile(a)
Next ==
  \/ Tick \/ RemoveProfile
  \/ \E a \in Attempts : Own(a) \/ Abort(a) \/ Breaks(a) \/ Headers(a) \/ Delivers(a) \/ RefreshBody(a)
  \/ \E a \in Attempts, r \in RefreshReplies : RefreshReply(a, r)
\* The code's own steps are taken, time passes, timers fire, and an aborted
\* request is rejected; nothing is assumed of the provider or of the owner.
Rejected(a) == att[a].scope.aborted # "no" /\ Breaks(a)
Fairness == /\ WF_vars(Tick)
            /\ \A a \in Attempts : /\ WF_vars(Own(a))
                                   /\ WF_vars(Fires(a, "inactivity")) /\ WF_vars(Fires(a, "deadline"))
                                   /\ WF_vars(Rejected(a))
Spec == Init /\ [][Next]_vars /\ Fairness

-----------------------------------------------------------------------------
(* Properties *)

\* Outside its request an attempt holds no timer and does not listen to its
\* owner: nothing fires into a later request or keeps the process alive
\* (consumeProviderRequest's finally).
ScopesClose ==
  \A a \in Attempts : ~InScope(a) /\ att[a].outcome # "publication_unknown" =>
    att[a].scope.timer = Off /\ att[a].scope.deadline = Off /\ ~att[a].scope.listening

\* A cancellation that races with a timeout is the owner's, a failure that is
\* the provider's own is never relabelled as either, and nothing is reported
\* as cancelled that its owner did not cancel.
OwnerWins ==
  \A a \in Attempts : att[a].phase = "done" =>
    /\ att[a].outcome = "owner" => att[a].owner /\ att[a].cause \in {"rejected", "setup"}
    /\ att[a].outcome = "timeout" => att[a].cause = "rejected"
    /\ att[a].cause = "rejected" /\ att[a].owner => att[a].outcome \in {"owner", "publication_unknown"}

\* A request that went out leaves exactly one exchange on record, and an
\* attempt that ended before it leaves none (executeLlmProviderAttempt).
OneExchange ==
  \A a \in Attempts : att[a].phase = "done" /\ att[a].outcome # "publication_unknown" =>
    att[a].exchanges = (IF att[a].sent THEN 1 ELSE 0)

\* A credential that has run out is sent only where it cannot be renewed, or after
\* the token endpoint has answered its refresh and not with 429 or 5xx: one that was
\* in trouble, out of reach or silent, or whose answer a timer cut off, ends the
\* attempt (usableProfileAccessToken, consumeRefreshRequest, readBodyTextBestEffort).
NoStaleRequest ==
  \A a \in Attempts : att[a].sent /\ att[a].stale =>
    att[a].profile.refresh = 0 \/ (att[a].heard = "answered" /\ ~att[a].cut)

\* The credentials file is replaced only by what the endpoint issued to an
\* attempt that then goes on to use it (commitRefreshedAuthProfile).
FileIsUsed ==
     file' # file /\ file'.there => \E a \in Attempts : att'[a].phase = "ready" /\ att'[a].token = file'.access /\ ~att'[a].owner

\* The calls a stream announces: each identity once, in the order in which they
\* are finished first, with every piece that was sent before that.
Delivered(a) == SubSeq(att[a].script.events, 1, Len(att[a].script.events) - Len(att[a].rest))
Finishing(s) == {k \in DOMAIN s : s[k].is \in {"argsdone", "itemdone"} /\ \A j \in 1 .. k - 1 : s[j].is \in {"argsdone", "itemdone"} => s[j].id # s[k].id}
Pieces(s, k) == Cardinality({j \in 1 .. k - 1 : s[j].is = "delta" /\ s[j].id = s[k].id})
\* What a finished stream hands to the agent are exactly the calls the provider
\* announced (handleOpenAICodexEvent, finalizeCodexToolCall).
CallsAreWhole ==
  \A a \in Attempts : att[a].outcome = "tool_calls" =>
    LET s == Delivered(a)
    IN /\ Len(att[a].parse.calls) = Cardinality(Finishing(s))
       /\ \A k \in Finishing(s) : \E n \in DOMAIN att[a].parse.calls :
            /\ att[a].parse.calls[n].id = s[k].id
            /\ n = Cardinality({j \in Finishing(s) : j <= k})
            /\ att[a].parse.calls[n].args = IF \E j \in 1 .. k - 1 : s[j].is = "added" /\ s[j].id = s[k].id THEN Pieces(s, k) ELSE s[k].args

\* A refused credential is never reported as something to wait for: whatever
\* else the provider says, 401 or an overload with a refusal is final
\* (classifyDirectProviderFailure).
RefusalIsFinal ==
  \A a \in Attempts : LET e == att[a].script.evidence
                          last == Len(Delivered(a))
                          f == IF last > 0 THEN Delivered(a)[last].evidence ELSE Plain
                          refused(v, opened) == 401 \in {v.status, IF opened THEN v.embedded ELSE 0} \/ ({"overload", "auth"} \subseteq v.tokens)
    IN \/ /\ att[a].cause = "provider"
          /\ IF att[a].script.status # 200 THEN refused(e, FALSE) ELSE Delivered(a)[last].is = "failed" /\ refused(f, TRUE)
       \/ att[a].cause = "unread" /\ e.status = 401
       => att[a].outcome \notin {"rate_limit", "server_transient", "server_overloaded", "timeout"}

\* The requests that are kept failed, or were filtered, after they went out,
\* none of them cancelled, up to the limit (capture in executeLlmProviderAttempt).
Failed(a) == att[a].phase = "done" /\ att[a].sent /\ Noteworthy(att[a].outcome) /\ att[a].outcome \notin {"owner", "publication_unknown"}
CapturesAreFailures == captures <= CaptureLimit /\ captures <= Cardinality({a \in Attempts : Failed(a)})

\* Every attempt ends, even when the provider sends forever and never
\* finishes: the deadline is not renewed (consumeProviderRequest).
Attempting(a) == att[a].phase # "done"
=============================================================================
