------------------------------ MODULE WebTools ------------------------------
(* The web tools: a call is admitted, every hop of its redirects is looked up *)
(* and requested by hand, the body is read up to a limit, and what was read   *)
(* is saved, or packed into a result of bounded size whose head never ends    *)
(* inside something the redaction has touched.  Bodies are sequences of       *)
(* characters with their sizes; pages and calls are parameters.               *)
EXTENDS Integers, Sequences, FiniteSets, SequencesExt, FiniteSetsExt

CONSTANTS Calls,        \* what agents ask for
          Webs,         \* url -> page, what there is to fetch
          MaxRedirects, \* redirects that are followed
          ResultLimit,  \* bytes of a settled result
          Overhead,     \* bytes of a result's fixed part
          UrlCost       \* bytes of the pointer to the whole text

WebAssumption == {MaxRedirects, ResultLimit, Overhead, UrlCost} \subseteq Nat

VARIABLES call, web,
          s,        \* the call's progress
          requests, \* the requests so far: [url, reached, terminals, outcome]
          ready,    \* the runtime accepts interventions
          open,     \* the record accepts the save
          effects   \* [saved: what was saved, stash: what was stashed, audits]

vars == <<call, web, s, requests, ready, open, effects>>

Nowhere == [head |-> 0, complete |-> FALSE, pointer |-> FALSE, fits |-> FALSE]
Idle == [phase |-> "start", url |-> 0, redirects |-> 0, owner |-> FALSE, timed |-> FALSE, at |-> 0, kept |-> 0,
         exceeded |-> FALSE, error |-> "none", outcome |-> "none", packed |-> Nowhere]
Page == web[s.url]

-----------------------------------------------------------------------------
(* Text *)

Size(chars, n, f) == MapThenSumSet(LAMBDA k : chars[k][f], 1 .. n)
RawBytes(page) == Size(page.chars, Len(page.chars), "raw")
\* The characters that lie whole within the bytes that were kept; at the natural end, all of them.
DecodeFetchedText(page, kept, exceeded) ==
  IF exceeded THEN Max({n \in 0 .. Len(page.chars) : Size(page.chars, n, "raw") <= kept}) ELSE Len(page.chars)

\* What the redaction recognises in the first n characters: spans that are not to be cut, joined where they overlap.
RelevantSpans(page, n) ==
  {<<t[1], IF t[2] > n THEN n ELSE t[2]>> : t \in {u \in page.spans : u[1] < n /\ (page.unstable > n \/ u[1] < page.unstable)}}
Overlaps(a, b) == a[1] < b[2] /\ b[1] < a[2]
Joined(spans, t) ==
  LET grow[k \in 0 .. Cardinality(spans)] == IF k = 0 THEN {t} ELSE {u \in spans : \E v \in grow[k - 1] : u = v \/ Overlaps(u, v)}
  IN grow[Cardinality(spans)]
RedactTextWithStablePrefixesForOutbound(page, n) ==
  LET relevant == RelevantSpans(page, n)
  IN [length |-> n,
      maxPrefixEnd |-> IF page.unstable < n THEN page.unstable ELSE n,
      indivisibleSpans |-> {<<Min({u[1] : u \in Joined(relevant, t)}), Max({u[2] : u \in Joined(relevant, t)})>> : t \in relevant}]

\* The largest index whose result still fits.
LargestFitting(high, fits(_)) ==
  LET search[r \in (0 .. high) \X (0 .. high)] ==
        IF r[1] >= r[2] THEN r[1]
        ELSE LET middle == r[1] + (r[2] - r[1] + 1) \div 2 IN IF fits(middle) THEN search[<<middle, r[2]>>] ELSE search[<<r[1], middle - 1>>]
  IN search[<<0, high>>]
Endpoints(page, stable, inlineCap) ==
  {0} \cup {k \in 1 .. stable.length :
              /\ k <= stable.maxPrefixEnd
              /\ Size(page.chars, k, "out") <= inlineCap
              /\ Size(page.chars, k, "out") < Size(page.chars, stable.length, "out")
              /\ ~\E t \in stable.indivisibleSpans : t[1] < k /\ k < t[2]}
PackWebfetchText(page, n, inlineCap) ==
  LET stable == RedactTextWithStablePrefixesForOutbound(page, n)
      whole == Size(page.chars, n, "out")
      ends == SetToSortSeq(Endpoints(page, stable, inlineCap), <)
      fits(i) == Overhead + UrlCost + Size(page.chars, ends[i + 1], "cost") <= ResultLimit
  IN IF stable.maxPrefixEnd = n /\ whole <= inlineCap /\ Overhead + Size(page.chars, n, "cost") <= ResultLimit
     THEN [head |-> n, complete |-> TRUE, pointer |-> FALSE, fits |-> TRUE]
     ELSE IF whole = 0 \/ Overhead + UrlCost > ResultLimit THEN Nowhere
     ELSE [head |-> ends[LargestFitting(Len(ends) - 1, fits) + 1], complete |-> FALSE, pointer |-> TRUE, fits |-> TRUE]

-----------------------------------------------------------------------------
(* Ends of a call *)

\* A call that is audited has one entry, whatever comes of it.
Audited == call.tool = "record"
Audits(n) == IF Audited THEN [effects EXCEPT !.audits = @ + n] ELSE effects
Done(outcome) == s' = [s EXCEPT !.phase = "done", !.outcome = outcome]
\* An error is a failed result, unless the call was cancelled; an audited call passes every error on.
Rethrown(error) == s.owner \/ Audited
Thrown(error) ==
  /\ s' = [s EXCEPT !.phase = "done", !.error = error,
                    !.outcome = IF ~Rethrown(error) THEN "failed" ELSE IF error = "owner" THEN "execution_failed" ELSE "thrown"]
  /\ effects' = Audits(1)

\* The observation of the current request is closed.
Terminal(outcome) == [requests EXCEPT ![Len(requests)] = [@ EXCEPT !.terminals = @ + 1, !.outcome = outcome]]
\* A failure is the owner's or the timer's where one of them has aborted the request.
FailureOutcome == IF s.owner THEN "cancelled" ELSE IF s.timed THEN "timeout" ELSE "failed"
HttpOutcome(page) == IF page.ok THEN "completed" ELSE "http_error"

-----------------------------------------------------------------------------
(* Steps *)

Saves == call.save # "none"
Begin ==
  /\ s' = [s EXCEPT !.phase = "lookup", !.url = call.url]
  /\ UNCHANGED effects
\* A call that asks for what cannot be, or what it may not do, ends before any request.
Enter ==
  /\ s.phase = "start"
  /\ UNCHANGED <<call, web, requests, ready, open>>
  /\ CASE ~call.valid \/ s.owner -> Done("rejected") /\ UNCHANGED effects
       [] Audited -> IF ~ready \/ ~open THEN Done("failed") /\ effects' = Audits(1) ELSE Begin
       [] call.tool = "webfetch" ->
            IF (call.metadata /\ Saves) \/ (Saves /\ ~call.granted) \/ (call.save = "record" /\ ~open)
            THEN Done("failed") /\ UNCHANGED effects
            ELSE Begin
       [] OTHER -> Begin

\* An address: <<4, first byte, second byte>>, <<6, prefix>>, or <<0>> for what is neither.
PrivateIpv4(a, b) == a \in {0, 10, 127} \/ (a = 169 /\ b = 254) \/ (a = 172 /\ b \in 16 .. 31) \/ (a = 192 /\ b = 168) \/ a >= 224
PrivateIpv6(prefix) == prefix \in {"::1", "fe80:", "fc", "fd", "::ffff:127.", "::ffff:10.", "::"}
Refused(address) == CASE address[1] = 4 -> PrivateIpv4(address[2], address[3])
                      [] address[1] = 6 -> PrivateIpv6(address[2])
                      [] OTHER -> TRUE
\* assertPublicHttpTarget
IsPublicTarget(answer) == answer # {} /\ \A address \in answer : ~Refused(address)

\* A hop: its host is looked up, and nothing is sent when an address of the answer is
\* refused.  The request then resolves the name again, to whatever it answers by then.
Hop(checked) ==
  IF s.redirects > MaxRedirects \/ ~checked THEN Thrown("refused") /\ UNCHANGED requests
  ELSE IF s.owner THEN Thrown("owner") /\ UNCHANGED requests
  ELSE /\ \E address \in UNION Page.answers :
            requests' = Append(requests, [url |-> s.url, reached |-> address, terminals |-> 0, outcome |-> "none"])
       /\ s' = [s EXCEPT !.phase = "request", !.timed = FALSE]
       /\ UNCHANGED effects
\* Seeded fault: only the first hop is looked up.
LookupFirst ==
  /\ s.phase = "lookup" /\ UNCHANGED <<call, web, ready, open>>
  /\ \E answer \in Page.answers : Hop(s.redirects > 0 \/ IsPublicTarget(answer))
Lookup ==
  /\ s.phase = "lookup" /\ UNCHANGED <<call, web, ready, open>>
  /\ \E answer \in Page.answers : Hop(IsPublicTarget(answer))
\* Headers: a redirect is followed by hand, its body is discarded.
Respond ==
  /\ s.phase = "request"
  /\ UNCHANGED <<call, web, ready, open>>
  /\ CASE Page.to \in DOMAIN web ->
            /\ requests' = Terminal("completed")
            /\ s' = [s EXCEPT !.phase = "lookup", !.url = Page.to, !.redirects = @ + 1]
            /\ UNCHANGED effects
       [] Page.to = -1 -> Thrown("location") /\ requests' = Terminal(FailureOutcome)
       [] OTHER ->
            /\ UNCHANGED effects
            /\ IF call.metadata
               THEN requests' = Terminal(HttpOutcome(Page)) /\ s' = [s EXCEPT !.phase = "fetched"]
               ELSE UNCHANGED requests /\ s' = [s EXCEPT !.phase = "body", !.at = 0]
\* A piece of the body: only the text of an answer that is not saved may be cut at the limit.
IsTextResponse == call.mode = "text" \/ Page.text
MayCut == call.tool = "webfetch" /\ ~Saves /\ Page.ok /\ IsTextResponse
Read ==
  /\ s.phase = "body" /\ s.at < Len(Page.chunks)
  /\ LET bytes == Page.chunks[s.at + 1]
     IN IF s.kept + bytes <= call.max
        THEN s' = [s EXCEPT !.at = @ + 1, !.kept = @ + bytes] /\ UNCHANGED <<requests, effects>>
        ELSE IF ~MayCut THEN Thrown("limit") /\ requests' = Terminal(FailureOutcome)
        ELSE /\ s' = [s EXCEPT !.kept = call.max, !.exceeded = TRUE, !.phase = "fetched"]
             /\ requests' = Terminal(HttpOutcome(Page))
             /\ UNCHANGED effects
  /\ UNCHANGED <<call, web, ready, open>>
EndOfBody ==
  /\ s.phase = "body" /\ s.at = Len(Page.chunks) /\ ~Page.endless
  /\ s' = [s EXCEPT !.phase = "fetched"]
  /\ requests' = Terminal(HttpOutcome(Page))
  /\ UNCHANGED <<call, web, ready, open, effects>>
\* A body may go on with empty pieces.
EmptyPiece == s.phase = "body" /\ Page.endless /\ UNCHANGED vars

\* The owner and the timer of the request; either one rejects what is under way.
InFlight == s.phase \in {"request", "body"}
OwnerAbort == s.phase # "done" /\ ~s.owner /\ s' = [s EXCEPT !.owner = TRUE] /\ UNCHANGED <<call, web, requests, ready, open, effects>>
Timeout == InFlight /\ ~s.timed /\ s' = [s EXCEPT !.timed = TRUE] /\ UNCHANGED <<call, web, requests, ready, open, effects>>
Rejects ==
  /\ InFlight /\ (s.owner \/ s.timed)
  /\ requests' = Terminal(FailureOutcome)
  /\ \E error \in {IF s.owner /\ ~s.timed THEN "owner" ELSE "timeout", IF s.owner THEN "owner" ELSE "timeout"} : Thrown(error)
  /\ UNCHANGED <<call, web, ready, open>>
NetworkError ==
  /\ InFlight
  /\ requests' = Terminal(FailureOutcome)
  /\ Thrown("network")
  /\ UNCHANGED <<call, web, ready, open>>

\* What was fetched is turned into the call's result.
Admitted == open
Saved(what) == [effects EXCEPT !.saved = @ \cup {what}]
SaveFetched(n) ==
  IF call.save = "record" /\ ~Admitted THEN Done("failed") /\ UNCHANGED effects
  ELSE Done("succeeded") /\ effects' = Saved([to |-> call.save, length |-> n, open |-> open, ready |-> TRUE])
PackFetched(n) ==
  LET packed == PackWebfetchText(Page, n, IF call.inline < call.max THEN call.inline ELSE call.max)
  IN IF Size(Page.chars, n, "dec") > call.max \/ ~packed.fits THEN Thrown("too_large")
     ELSE /\ s' = [s EXCEPT !.phase = "done", !.outcome = "succeeded", !.packed = packed]
          /\ effects' = IF packed.pointer THEN [effects EXCEPT !.stash = {n}] ELSE effects
Finish ==
  /\ s.phase = "fetched" /\ ~Audited
  /\ UNCHANGED <<call, web, requests, ready, open>>
  /\ LET n == DecodeFetchedText(Page, s.kept, s.exceeded)
     IN IF call.metadata THEN Done("succeeded") /\ UNCHANGED effects
        ELSE IF ~Page.ok THEN Done("failed") /\ UNCHANGED effects
        ELSE IF call.tool = "websearch" \/ ~IsTextResponse THEN Done("succeeded") /\ UNCHANGED effects
        ELSE IF Saves THEN SaveFetched(n)
        ELSE PackFetched(n)
\* An audited save: cancellation, readiness and admission once more, then one entry.
FinishAudited ==
  /\ s.phase = "fetched" /\ Audited
  /\ UNCHANGED <<call, web, requests, ready, open>>
  /\ IF ~Page.ok \/ ~IsTextResponse THEN Thrown("answer")
     ELSE IF s.owner THEN Thrown("owner")
     ELSE IF ~ready \/ ~Admitted THEN Done("failed") /\ effects' = Audits(1)
     ELSE /\ Done("succeeded")
          /\ effects' = [Saved([to |-> "record", length |-> Len(Page.chars), open |-> open, ready |-> ready]) EXCEPT !.audits = @ + 1]

\* The rest of the system: the runtime starts and stops, the record is taken and given back.
Turns ==
  /\ s.phase # "done" /\ call.save = "record"
  /\ \/ ready' = ~ready /\ UNCHANGED open
     \/ open' = ~open /\ UNCHANGED ready
  /\ UNCHANGED <<call, web, s, requests, effects>>

Init ==
  /\ call \in Calls /\ web \in Webs
  /\ s = Idle /\ requests = <<>>
  /\ ready \in BOOLEAN /\ open \in BOOLEAN
  /\ effects = [saved |-> {}, stash |-> {}, audits |-> 0]
Own == Enter \/ Lookup \/ Finish \/ FinishAudited
Next == Own \/ Respond \/ Read \/ EndOfBody \/ EmptyPiece \/ OwnerAbort \/ Timeout \/ Rejects \/ NetworkError \/ Turns
\* The code's own steps are taken, a lookup answers, the timer runs down, and what it aborts is rejected.
Spec == Init /\ [][Next]_vars /\ WF_vars(Own) /\ WF_vars(Timeout) /\ WF_vars(Rejects)

-----------------------------------------------------------------------------
(* Properties *)

\* Every request is observed to end exactly once, none before the next one
\* begins, whichever way the chain of redirects ends (fetchPublic).
OneTerminal ==
  \A k \in DOMAIN requests :
    /\ requests[k].terminals = IF k = Len(requests) /\ InFlight THEN 0 ELSE 1
    /\ k < Len(requests) => requests[k].outcome = "completed"

\* The blocks of addresses that are not public, <<first byte, second byte, bits>>.
Blocks == {<<0, 0, 8>>, <<10, 0, 8>>, <<127, 0, 8>>, <<169, 254, 16>>, <<172, 16, 12>>, <<192, 168, 16>>, <<224, 0, 3>>}
Inside(address, block) == (256 * address[2] + address[3]) \div 2 ^ (16 - block[3]) = (256 * block[1] + block[2]) \div 2 ^ (16 - block[3])

\* No hop of a chain reaches an IPv4 address of a block that is not public, and
\* the chain is bounded, as long as the host's name answers the request as it
\* answered the check before it: a name that changes its answer between the two
\* is not held to the check (fetchPublic, assertPublicHttpTarget).
OnlyPublic ==
  /\ Len(requests) <= MaxRedirects + 1
  /\ \A k \in DOMAIN requests :
       Cardinality(web[requests[k].url].answers) = 1 /\ requests[k].reached[1] = 4
         => \A block \in Blocks : ~Inside(requests[k].reached, block)

\* What is saved is the whole text of a good answer, saved while the record
\* and the runtime still accept it, by a call that then reports success.
SavesAreWhole ==
  \A e \in effects.saved :
    /\ s.phase = "done" /\ s.outcome = "succeeded"
    /\ Page.ok /\ e.length = Len(Page.chars) /\ RawBytes(Page) <= call.max
    /\ e.to = "record" => e.open /\ e.ready

\* A call that is audited leaves exactly one entry once it has passed its
\* arguments, and no other call leaves any (runAuditedAnalystTool).
OneAudit == effects.audits = IF Audited /\ s.phase = "done" /\ s.outcome # "rejected" THEN 1 ELSE 0

\* The head of a result is the longest prefix that ends outside everything
\* the redaction has touched and fits both limits; it is called complete
\* exactly when nothing is left out, and otherwise the whole text is stashed
\* (packWebfetchText).
Cuttable(n, k) ==
  /\ Size(Page.chars, k, "out") <= (IF call.inline < call.max THEN call.inline ELSE call.max)
  /\ k <= Page.unstable
  /\ ~\E t \in Page.spans : t[1] < k /\ k < (IF t[2] > n THEN n ELSE t[2])
HeadIsLongest ==
  s.packed.fits =>
    LET n == DecodeFetchedText(Page, s.kept, s.exceeded)
        p == s.packed
        size(k) == Overhead + (IF k < n THEN UrlCost ELSE 0) + Size(Page.chars, k, "cost")
        good == {k \in 0 .. n : Cuttable(n, k) /\ size(k) <= ResultLimit}
    IN /\ p.complete = (p.head = n) /\ p.pointer = ~p.complete
       /\ p.head \in good /\ \A k \in good : k <= p.head
       /\ effects.stash = IF p.pointer THEN {n} ELSE {}

\* A call ends, whatever the page sends (the timer of every request).
Fetching == s.phase # "done"
=============================================================================
