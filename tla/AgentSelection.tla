---------------------------- MODULE AgentSelection ----------------------------
(* The selected agent session of the web client: its summary, fetched by one   *)
(* flight that hints extend, the history segment picked in it, and the raw LLM *)
(* exchange, whose latest request wins.  Components mount and unmount in any   *)
(* order, answers come late, and every selection is owned by a token.          *)
EXTENDS Naturals, FiniteSets, Sequences, TLAPS

CONSTANTS Sessions, Segments,
          MaxTok,   \* bound: selections of each kind
          MaxRev,   \* bound: revisions of a session on the server
          MaxGen,   \* bound: requests for segments and for exchanges
          Parts     \* what the run exercises: summary, segment, exchange

SelectionAssumption == MaxTok \in Nat /\ MaxRev \in Nat /\ MaxGen \in Nat /\ Parts \subseteq {"summary", "segment", "exchange"}

VARIABLES srv,   \* revision of each session on the server
          hints, \* invalidations of a session not yet delivered, by what they concern
          id,    \* the session of each conversation token
          act,   \* activeConversationToken, 0 for none
          sum,   \* the summary: flight, again, shown, err
          ask,   \* the summary request of each token: none, sent or read
          seg,   \* the picked segment: gen, pick, shown, loading, and the requests under way
          xid, xact, \* the same for the raw exchange
          x      \* gen, shown, loaded, the errors (of a first load, of a refresh), and the requests under way

vars == <<srv, hints, id, act, sum, ask, seg, xid, xact, x>>
Nothing == [s |-> "none", v |-> 0]
\* A request: none, sent, or read with the revision its answer carries
NoAsk == [st |-> "none", v |-> 0]
Sent == [st |-> "sent", v |-> 0]
Read(v) == [st |-> "read", v |-> v]

NoSummary == [flight |-> FALSE, again |-> FALSE, shown |-> Nothing, err |-> FALSE]
NoSegment == [gen |-> 0, pick |-> "none", shown |-> Nothing, loading |-> FALSE, reqs |-> {}]
NoExchange == [gen |-> 0, shown |-> Nothing, loaded |-> FALSE, err |-> {}, reqs |-> {}]

Init ==
  /\ srv = [s \in Sessions |-> 0] /\ hints = {}
  /\ id = <<>> /\ act = 0 /\ sum = NoSummary /\ ask = <<>> /\ seg = NoSegment
  /\ xid = <<>> /\ xact = 0 /\ x = NoExchange

\* The server publishes a revision and then invalidates what shows it.
Change(s) ==
  /\ srv[s] < MaxRev /\ srv' = [srv EXCEPT ![s] = @ + 1]
  /\ hints' = hints \cup ({s} \X (Parts \ {"segment"}))
  /\ UNCHANGED <<id, act, sum, ask, seg, xid, xact, x>>

-----------------------------------------------------------------------------
(* The conversation selection *)

\* What a new selection resets
Begun == NoSummary
\* A new versionRequest and an abort; the requests under way may still answer.
Unpicked(g) == [gen |-> g.gen + 1, pick |-> "none", shown |-> Nothing, loading |-> FALSE, reqs |-> g.reqs]

\* beginConversationSelection
Begin(s) ==
  /\ {"summary", "segment"} \cap Parts # {} /\ Len(id) < MaxTok
  /\ id' = Append(id, s) /\ ask' = Append(ask, NoAsk) /\ act' = Len(id) + 1
  /\ sum' = Begun /\ seg' = Unpicked(seg)
  /\ UNCHANGED <<srv, hints, xid, xact, x>>
\* clearConversationSelection; for another token than the active one nothing.
Clear(t) ==
  /\ t = act /\ t # 0 /\ act' = 0 /\ sum' = NoSummary /\ seg' = Unpicked(seg)
  /\ UNCHANGED <<srv, hints, id, ask, xid, xact, x>>

\* fetchSelectedSession
Want(t) ==
  IF t # act \/ t = 0 THEN UNCHANGED <<sum, ask>>
  ELSE IF sum.flight THEN sum' = [sum EXCEPT !.again = TRUE] /\ UNCHANGED ask
  ELSE sum' = [sum EXCEPT !.flight = TRUE, !.again = FALSE] /\ ask' = [ask EXCEPT ![t] = Sent]

\* Frames, answers and clicks are tasks of their own: none runs between the end
\* of a flight's loop and the reset of the flight.
\* The acknowledged lease, its resynchronisation, or the reload button of a
\* component, which may no longer be the selected one.
Fetch(t) ==
  /\ "summary" \in Parts /\ t \in 1..Len(id) /\ Want(t)
  /\ UNCHANGED <<srv, hints, id, act, seg, xid, xact, x>>
\* selectedSummaryHint: while no summary is known every hint of a card concerns it.
Hint(s) ==
  /\ <<s, "summary">> \in hints /\ hints' = hints \ {<<s, "summary">>}
  /\ IF act # 0 /\ (id[act] = s \/ sum.shown = Nothing) THEN Want(act) ELSE UNCHANGED <<sum, ask>>
  /\ UNCHANGED <<srv, id, act, seg, xid, xact, x>>

SummaryRead(t) ==
  /\ ask[t] = Sent /\ ask' = [ask EXCEPT ![t] = Read(srv[id[t]])]
  /\ UNCHANGED <<srv, hints, id, act, sum, seg, xid, xact, x>>
\* One round of the loop ends: what the store shows now, and whether it asks again.
Round(t, after) ==
  IF sum.again THEN sum' = [after EXCEPT !.again = FALSE] /\ ask' = [ask EXCEPT ![t] = Sent]
  ELSE sum' = [after EXCEPT !.flight = FALSE] /\ ask' = [ask EXCEPT ![t] = NoAsk]
Drop(t) == UNCHANGED sum /\ ask' = [ask EXCEPT ![t] = NoAsk]
SummaryAnswers(t) ==
  /\ ask[t].st = "read" /\ UNCHANGED <<srv, hints, id, act, seg, xid, xact, x>>
  /\ IF t = act THEN Round(t, [sum EXCEPT !.shown = [s |-> id[t], v |-> ask[t].v], !.err = FALSE]) ELSE Drop(t)
SummaryFails(t) ==
  /\ ask[t] # NoAsk /\ UNCHANGED <<srv, hints, id, act, seg, xid, xact, x>>
  /\ IF t = act THEN Round(t, [sum EXCEPT !.err = TRUE]) ELSE Drop(t)

\* selectConversationVersion, with null for none
Pick(t, g) ==
  /\ "segment" \in Parts /\ t = act /\ t # 0 /\ seg.gen < MaxGen
  /\ seg' = [seg EXCEPT !.gen = @ + 1, !.pick = g, !.shown = Nothing, !.loading = g # "none",
               !.reqs = IF g = "none" THEN @ ELSE @ \cup {[t |-> t, n |-> seg.gen + 1, g |-> g]}]
  /\ UNCHANGED <<srv, hints, id, act, sum, ask, xid, xact, x>>
\* The answer belongs to the active token and to the last request.
Current(r) == r.t = act /\ r.n = seg.gen
\* An answer or a failure; an aborted request gives either, which is ignored.
SegmentSettles(r) ==
  /\ r \in seg.reqs
  /\ \E ok \in BOOLEAN :
       seg' = IF Current(r) THEN [seg EXCEPT !.reqs = @ \ {r}, !.loading = FALSE,
                                    !.shown = IF ok THEN [s |-> id[r.t], v |-> r.g] ELSE Nothing]
              ELSE [seg EXCEPT !.reqs = @ \ {r}]
  /\ UNCHANGED <<srv, hints, id, act, sum, ask, xid, xact, x>>

-----------------------------------------------------------------------------
(* The raw exchange *)

\* beginLlmExchangeSelection; an error of a refresh is not reset.
BeginExchange(s) ==
  /\ "exchange" \in Parts /\ Len(xid) < MaxTok /\ xid' = Append(xid, s) /\ xact' = Len(xid) + 1
  /\ x' = [x EXCEPT !.gen = @ + 1, !.shown = Nothing, !.loaded = FALSE, !.err = @ \ {"first"}]
  /\ UNCHANGED <<srv, hints, id, act, sum, ask, seg>>
\* clearLlmExchange
ClearExchange(t) ==
  /\ t = xact /\ t # 0 /\ xact' = 0 /\ x' = [x EXCEPT !.gen = @ + 1, !.shown = Nothing, !.loaded = FALSE]
  /\ UNCHANGED <<srv, hints, id, act, sum, ask, seg, xid>>

\* fetchLlmExchange: the previous request is given up.
Exchanged == [x EXCEPT !.gen = @ + 1, !.reqs = @ \cup {[t |-> xact, n |-> x.gen + 1, a |-> Sent]}]
FetchExchange == xact # 0 /\ x.gen < MaxGen /\ x' = Exchanged /\ UNCHANGED <<srv, hints, id, act, sum, ask, seg, xid, xact>>
ExchangeHint(s) ==
  /\ <<s, "exchange">> \in hints /\ hints' = hints \ {<<s, "exchange">>}
  /\ x' = IF xact # 0 /\ xid[xact] = s THEN Exchanged ELSE x
  /\ UNCHANGED <<srv, id, act, sum, ask, seg, xid, xact>>
ExchangeRead(r) ==
  /\ r \in x.reqs /\ r.a = Sent /\ x' = [x EXCEPT !.reqs = (@ \ {r}) \cup {[r EXCEPT !.a = Read(srv[xid[r.t]])]}]
  /\ UNCHANGED <<srv, hints, id, act, sum, ask, seg, xid, xact>>
\* The answer belongs to the active token and to the last request.
Latest(r) == r.t = xact /\ r.n = x.gen
\* Revision 0 has no exchange: not found is shown as an empty one.
ExchangeAnswers(r) ==
  /\ r \in x.reqs /\ r.a # Sent
  /\ x' = IF Latest(r) THEN [x EXCEPT !.reqs = @ \ {r}, !.shown = [s |-> xid[r.t], v |-> r.a.v], !.loaded = TRUE, !.err = {}]
          ELSE [x EXCEPT !.reqs = @ \ {r}]
  /\ UNCHANGED <<srv, hints, id, act, sum, ask, seg, xid, xact>>
ExchangeFails(r) ==
  /\ r \in x.reqs
  /\ x' = [x EXCEPT !.reqs = @ \ {r},
                    !.err = IF ~Latest(r) THEN @ ELSE @ \cup {IF x.loaded THEN "refresh" ELSE "first"}]
  /\ UNCHANGED <<srv, hints, id, act, sum, ask, seg, xid, xact>>

Next ==
  \/ \E s \in Sessions : Change(s) \/ Begin(s) \/ Hint(s) \/ BeginExchange(s) \/ ExchangeHint(s)
  \/ \E t \in 1..Len(id) : Clear(t) \/ Fetch(t) \/ SummaryRead(t) \/ SummaryAnswers(t) \/ SummaryFails(t)
  \/ \E t \in 1..Len(id), g \in Segments \cup {"none"} : Pick(t, g)
  \/ \E r \in seg.reqs : SegmentSettles(r)
  \/ \E t \in 1..Len(xid) : ClearExchange(t)
  \/ FetchExchange
  \/ \E r \in x.reqs : ExchangeRead(r) \/ ExchangeAnswers(r) \/ ExchangeFails(r)

\* Requests are answered or fail; a delivered invalidation is handled.
Fairness ==
  /\ \A t \in 1..MaxTok : WF_vars(t \in DOMAIN id /\ SummaryRead(t)) /\ WF_vars(t \in DOMAIN id /\ SummaryAnswers(t))
  /\ \A s \in Sessions : WF_vars(Hint(s))
Spec == Init /\ [][Next]_vars /\ Fairness

-----------------------------------------------------------------------------
\* Every variable of the store holds what its declaration says.
TypeOK ==
  /\ srv \in [Sessions -> 0..MaxRev] /\ hints \subseteq Sessions \X Parts
  /\ id \in Seq(Sessions) /\ act \in 0..Len(id) /\ Len(ask) = Len(id)
  /\ \A t \in 1..Len(id) : ask[t] \in {NoAsk, Sent} \cup {Read(v) : v \in 0..MaxRev}
  /\ sum.flight \in BOOLEAN /\ sum.again \in BOOLEAN /\ sum.err \in BOOLEAN
  /\ seg.pick \in Segments \cup {"none"} /\ xact \in 0..Len(xid) /\ x.err \subseteq {"first", "refresh"}

\* Whatever the order in which answers come back, the summary, the segment and
\* the exchange that are shown are the ones of the session selected now, and the
\* segment is the one picked last; nothing is shown when nothing is selected.
ShownIsSelected ==
  /\ sum.shown # Nothing => (act # 0 /\ sum.shown.s = id[act])
  /\ seg.shown # Nothing => (act # 0 /\ seg.shown = [s |-> id[act], v |-> seg.pick])
  /\ x.shown # Nothing => (xact # 0 /\ x.shown.s = xid[xact])

\* A summary that is shown with no error, no request under way and no
\* invalidation on its way is the server's: a change during a flight is asked again.
QuietIsFresh ==
  (act # 0 /\ sum.shown # Nothing /\ ~sum.flight /\ ~sum.err /\ <<id[act], "summary">> \notin hints)
     => sum.shown.v = srv[id[act]]

\* The same of the raw exchange, whose requests overlap: an older answer that
\* arrives after a newer one is not shown.
ExchangeIsFresh ==
  (xact # 0 /\ x.loaded /\ x.err = {} /\ <<xid[xact], "exchange">> \notin hints /\ ~\E r \in x.reqs : Latest(r))
     => x.shown.v = srv[xid[xact]]

\* The loading mark of a segment has a request under way that will remove it, and
\* a session selected since is not left loading by the last one.
LoadingHasRequest == seg.loading => \E r \in seg.reqs : r.t = act /\ r.n = seg.gen

\* Once the changes cease the session that is selected shows the newest, or that
\* it could not be read, however often a summary was asked for meanwhile; before
\* its lease is acknowledged nothing has asked for one.
Unasked == act = 0 \/ (sum.shown = Nothing /\ ~sum.flight)
Served == Unasked \/ sum.err \/ sum.shown.v = srv[id[act]]
-----------------------------------------------------------------------------
(* The safety properties hold for every number of sessions, segments,          *)
(* selections, revisions and requests.                                         *)

Asks == {NoAsk, Sent} \cup {Read(v) : v \in 0..MaxRev}
Shown == {Nothing} \cup [s : Sessions, v : 0..MaxRev]
SegmentRequests == [t : Nat, n : Nat, g : Segments \cup {"none"}]
ExchangeRequests == [t : Nat, n : Nat, a : Asks]
SegmentShown == {Nothing} \cup [s : Sessions, v : Segments \cup {"none"}]
SegmentStates ==
  [gen : Nat, pick : Segments \cup {"none"}, shown : SegmentShown,
   loading : BOOLEAN, reqs : SUBSET SegmentRequests]
ExchangeStates ==
  [gen : Nat, shown : Shown, loaded : BOOLEAN, err : SUBSET {"first", "refresh"}, reqs : SUBSET ExchangeRequests]

\* The values of the variables
Typed ==
  /\ srv \in [Sessions -> 0..MaxRev] /\ hints \subseteq Sessions \X Parts
  /\ id \in Seq(Sessions) /\ act \in 0..Len(id) /\ ask \in Seq(Asks) /\ Len(ask) = Len(id)
  /\ sum \in [flight : BOOLEAN, again : BOOLEAN, shown : Shown, err : BOOLEAN]
  /\ seg \in SegmentStates
  /\ xid \in Seq(Sessions) /\ xact \in 0..Len(xid)
  /\ x \in ExchangeStates

\* A flight is a request of the active token, and while no hint is on its way
\* the newest revision is shown, has been read, or will be read.
FlightInv ==
  /\ sum.flight <=> (act # 0 /\ ask[act] # NoAsk)
  /\ sum.shown # Nothing => (act # 0 /\ sum.shown.s = id[act])
  /\ "summary" \notin Parts => (~sum.flight /\ sum.shown = Nothing)
  /\ (act # 0 /\ <<id[act], "summary">> \notin hints)
       => \/ sum.flight /\ (sum.again \/ ask[act] = Sent \/ ask[act] = Read(srv[id[act]]))
          \/ ~sum.flight /\ (sum.shown = Nothing \/ sum.err \/ sum.shown.v = srv[id[act]])

\* A request of the last generation is the active token's, for the picked segment.
SegmentInv ==
  /\ seg.shown # Nothing => (act # 0 /\ seg.shown = [s |-> id[act], v |-> seg.pick])
  /\ \A r \in seg.reqs : r.n <= seg.gen /\ (r.n = seg.gen => (r.t = act /\ act # 0 /\ r.g = seg.pick))
  /\ seg.loading => \E r \in seg.reqs : Current(r)

\* The same of the exchange, whose requests are of any age.
ExchangeInv ==
  /\ x.shown # Nothing => (xact # 0 /\ x.shown.s = xid[xact])
  /\ "exchange" \notin Parts => xact = 0
  /\ \A r \in x.reqs : r.t \in 1..Len(xid) /\ r.n <= x.gen /\ r.a # NoAsk
  /\ (xact # 0 /\ <<xid[xact], "exchange">> \notin hints)
       => /\ \A r \in x.reqs : Latest(r) => (r.a = Sent \/ r.a.v = srv[xid[xact]])
          /\ (x.loaded /\ x.err = {} /\ ~\E r \in x.reqs : Latest(r)) => x.shown.v = srv[xid[xact]]

SelectionInv == Typed /\ FlightInv /\ SegmentInv /\ ExchangeInv

\* A new token extends the tokens; the earlier ones keep their session.
LEMMA Appended ==
  ASSUME NEW S, NEW q \in Seq(S), NEW e \in S
  PROVE  /\ Append(q, e) \in Seq(S) /\ Len(q) \in Nat /\ Len(Append(q, e)) = Len(q) + 1
         /\ Append(q, e)[Len(q) + 1] = e /\ \A i \in 1..Len(q) : Append(q, e)[i] = q[i]
  OBVIOUS

\* A token's request is replaced in place.
LEMMA Replaced ==
  ASSUME NEW S, NEW q \in Seq(S), NEW e \in S, NEW t \in 1..Len(q)
  PROVE  LET p == [q EXCEPT ![t] = e] IN
         p \in Seq(S) /\ Len(p) = Len(q) /\ p[t] = e /\ \A i \in 1..Len(q) : i # t => p[i] = q[i]
  OBVIOUS

\* The states of a request are distinct, and a read one carries its revision.
LEMMA AskStates ==
  ASSUME SelectionAssumption
  PROVE  /\ NoAsk \in Asks /\ Sent \in Asks /\ NoAsk # Sent
         /\ \A v \in 0..MaxRev : Read(v) \in Asks /\ Read(v) # NoAsk /\ Read(v) # Sent /\ Read(v).v = v /\ Read(v).st = "read"
         /\ \A a \in Asks : (a # NoAsk /\ a # Sent) => (a.v \in 0..MaxRev /\ a = Read(a.v))
         /\ \A a \in Asks : a.st = "read" => (a # NoAsk /\ a # Sent)
<1>1. NoAsk.st = "none" /\ Sent.st = "sent" /\ NoAsk \in Asks /\ Sent \in Asks
  BY DEF Asks, NoAsk, Sent
<1>2. \A v \in 0..MaxRev : Read(v) \in Asks /\ Read(v).v = v /\ Read(v).st = "read"
  BY DEF Asks, Read
<1>3. \A a \in Asks : a = NoAsk \/ a = Sent \/ \E v \in 0..MaxRev : a = Read(v)
  BY DEF Asks
<1> QED BY <1>1, <1>2, <1>3

\* Giving up the picked segment keeps its requests, which are older from then on.
LEMMA UnpickedState ==
  ASSUME NEW g \in SegmentStates
  PROVE  /\ Unpicked(g) \in SegmentStates /\ Unpicked(g).gen = g.gen + 1 /\ Unpicked(g).shown = Nothing
         /\ Unpicked(g).loading = FALSE /\ Unpicked(g).reqs = g.reqs
<1>1. Unpicked(g) = [gen |-> g.gen + 1, pick |-> "none", shown |-> Nothing, loading |-> FALSE, reqs |-> g.reqs]
  BY DEF Unpicked
<1>2. g.gen + 1 \in Nat /\ g.reqs \in SUBSET SegmentRequests
  BY DEF SegmentStates
<1>3. Nothing \in SegmentShown
  BY DEF SegmentShown
<1> QED BY <1>1, <1>2, <1>3 DEF SegmentStates

\* The initial state of the store has the inductive invariant.
LEMMA InitSelection ==
  ASSUME SelectionAssumption, Init
  PROVE  SelectionInv
<1> USE DEF SelectionAssumption
<1>1. Typed
  BY DEF Init, Typed, Shown, NoSummary, NoSegment, NoExchange, Nothing, SegmentStates, SegmentShown, ExchangeStates
<1>2. FlightInv
  BY DEF Init, FlightInv, NoSummary, Nothing
<1>3. SegmentInv
  BY DEF Init, SegmentInv, NoSegment, Nothing
<1>4. ExchangeInv
  BY DEF Init, ExchangeInv, NoExchange, Nothing
<1> QED BY <1>1, <1>2, <1>3, <1>4 DEF SelectionInv

\* What no step of the summary touches
LEMMA FlightFrame ==
  ASSUME FlightInv, UNCHANGED <<srv, hints, id, act, sum, ask>>
  PROVE  FlightInv'
  BY DEF FlightInv

\* What no step of the segment touches
LEMMA SegmentFrame ==
  ASSUME SegmentInv, UNCHANGED <<id, act, seg>>
  PROVE  SegmentInv'
  BY DEF SegmentInv, Current

\* What no step of the exchange touches
LEMMA ExchangeFrame ==
  ASSUME ExchangeInv, UNCHANGED <<srv, hints, xid, xact, x>>
  PROVE  ExchangeInv'
  BY DEF ExchangeInv, Latest

\* A hint that is not about the exchange leaves its freshness alone.
LEMMA OtherHint ==
  ASSUME ExchangeInv, UNCHANGED <<srv, xid, xact, x>>,
         \A s \in Sessions : <<s, "exchange">> \in hints => <<s, "exchange">> \in hints',
         Typed
  PROVE  ExchangeInv'
<1>1. xact # 0 => xid[xact] \in Sessions
  BY DEF Typed
<1> QED BY <1>1 DEF ExchangeInv, Latest

\* A change on the server sends a hint for what shows the session.
LEMMA ChangeStep ==
  ASSUME SelectionAssumption, SelectionInv, NEW s \in Sessions, Change(s)
  PROVE  SelectionInv'
<1> USE DEF SelectionAssumption, SelectionInv
<1>1. Typed'
  BY DEF Typed, Change
<1>2. \A u \in Sessions : u # s => srv'[u] = srv[u]
  BY DEF Typed, Change
<1>3. \A p \in Parts : p # "segment" => <<s, p>> \in hints'
  BY DEF Change
<1>4. hints \subseteq hints'
  BY DEF Change
<1>5. FlightInv'
  <2>1. act # 0 => id[act] \in Sessions
    BY DEF Typed
  <2>2. CASE "summary" \in Parts
    <3>1. (act # 0 /\ <<id[act], "summary">> \notin hints') => (id[act] # s /\ <<id[act], "summary">> \notin hints)
      BY <1>3, <1>4, <2>2
    <3> QED BY <1>2, <2>1, <2>2, <3>1 DEF FlightInv, Change
  <2>3. CASE "summary" \notin Parts
    BY <2>3 DEF FlightInv, Change
  <2> QED BY <2>2, <2>3
<1>6. SegmentInv'
  BY SegmentFrame DEF Change
<1>7. ExchangeInv'
  <2>1. xact # 0 => xid[xact] \in Sessions
    BY DEF Typed
  <2>2. CASE "exchange" \in Parts
    <3>1. (xact # 0 /\ <<xid[xact], "exchange">> \notin hints') => (xid[xact] # s /\ <<xid[xact], "exchange">> \notin hints)
      BY <1>3, <1>4, <2>2
    <3> QED BY <1>2, <2>1, <2>2, <3>1 DEF ExchangeInv, Change, Latest
  <2>3. CASE "exchange" \notin Parts
    BY <2>3 DEF ExchangeInv, Change, Latest
  <2> QED BY <2>2, <2>3
<1> QED BY <1>1, <1>5, <1>6, <1>7

\* A new selection shows nothing and owns no request.
LEMMA BeginStep ==
  ASSUME SelectionAssumption, SelectionInv, NEW s \in Sessions, Begin(s)
  PROVE  SelectionInv'
<1> USE DEF SelectionAssumption, SelectionInv
<1>1. /\ id' \in Seq(Sessions) /\ Len(id') = Len(id) + 1 /\ Len(id) \in Nat
      /\ ask' \in Seq(Asks) /\ Len(ask') = Len(ask) + 1 /\ ask'[Len(id) + 1] = NoAsk
  <2>1. id \in Seq(Sessions) /\ ask \in Seq(Asks) /\ Len(ask) = Len(id) /\ id' = Append(id, s) /\ ask' = Append(ask, NoAsk)
    BY DEF Typed, Begin
  <2>2. NoAsk \in Asks
    BY AskStates
  <2>3. id' \in Seq(Sessions) /\ Len(id') = Len(id) + 1 /\ Len(id) \in Nat
    BY <2>1, Appended
  <2>4. ask' \in Seq(Asks) /\ Len(ask') = Len(ask) + 1 /\ ask'[Len(ask) + 1] = NoAsk
    BY <2>1, <2>2, Appended
  <2> QED BY <2>1, <2>3, <2>4
<1>2. seg' \in SegmentStates /\ seg'.gen = seg.gen + 1 /\ seg'.shown = Nothing /\ seg'.loading = FALSE /\ seg'.reqs = seg.reqs
  BY UnpickedState DEF Typed, Begin
<1>3. Typed'
  BY <1>1, <1>2 DEF Typed, Begin, Begun, NoSummary, Shown, Nothing
<1>4. FlightInv'
  BY <1>1 DEF FlightInv, Begin, Begun, NoSummary
<1>5. SegmentInv'
  <2>1. \A r \in seg.reqs : r.n \in Nat /\ seg.gen \in Nat
    BY DEF Typed, SegmentStates, SegmentRequests
  <2> QED BY <1>2, <2>1 DEF SegmentInv
<1>6. ExchangeInv'
  BY ExchangeFrame DEF Begin
<1> QED BY <1>3, <1>4, <1>5, <1>6

\* An unmounted component leaves nothing shown.
LEMMA ClearStep ==
  ASSUME SelectionAssumption, SelectionInv, NEW t \in 1..Len(id), Clear(t)
  PROVE  SelectionInv'
<1> USE DEF SelectionAssumption, SelectionInv
<1>2. seg' \in SegmentStates /\ seg'.gen = seg.gen + 1 /\ seg'.shown = Nothing /\ seg'.loading = FALSE /\ seg'.reqs = seg.reqs
  BY UnpickedState DEF Typed, Clear
<1>3. Typed'
  BY <1>2 DEF Typed, Clear, NoSummary, Shown, Nothing
<1>4. FlightInv'
  BY DEF FlightInv, Clear, NoSummary
<1>5. SegmentInv'
  <2>1. \A r \in seg.reqs : r.n \in Nat /\ seg.gen \in Nat
    BY DEF Typed, SegmentStates, SegmentRequests
  <2> QED BY <1>2, <2>1 DEF SegmentInv
<1>6. ExchangeInv'
  BY ExchangeFrame DEF Clear
<1> QED BY <1>3, <1>4, <1>5, <1>6

\* Asking for the summary of a token: a flight takes the question along.
LEMMA WantStep ==
  ASSUME SelectionAssumption, SelectionInv, NEW t \in 1..Len(id), Want(t), UNCHANGED <<srv, id, act>>,
         "summary" \in Parts, t = act
  PROVE  /\ sum' \in [flight : BOOLEAN, again : BOOLEAN, shown : Shown, err : BOOLEAN]
         /\ ask' \in Seq(Asks) /\ Len(ask') = Len(ask)
         /\ sum'.flight /\ ask'[act] # NoAsk /\ sum'.shown = sum.shown
         /\ sum'.again \/ ask'[act] = Sent
<1> USE DEF SelectionAssumption, SelectionInv
<1>1. sum \in [flight : BOOLEAN, again : BOOLEAN, shown : Shown, err : BOOLEAN] /\ ask \in Seq(Asks) /\ act \in 1..Len(ask)
  BY DEF Typed
<1>2. CASE sum.flight
  BY <1>1, <1>2 DEF Want, FlightInv
<1>3. CASE ~sum.flight
  <2>1. sum' = [sum EXCEPT !.flight = TRUE, !.again = FALSE] /\ ask' = [ask EXCEPT ![act] = Sent]
    BY <1>3 DEF Want
  <2>2. ask' \in Seq(Asks) /\ Len(ask') = Len(ask) /\ ask'[act] = Sent
    BY <1>1, <2>1, Replaced, AskStates
  <2> QED BY <1>1, <2>1, <2>2, AskStates
<1> QED BY <1>2, <1>3

\* A question of a token leaves the other views alone, and the flight owed.
LEMMA FetchStep ==
  ASSUME SelectionAssumption, SelectionInv, NEW t \in 1..Len(id), Fetch(t)
  PROVE  SelectionInv'
<1> USE DEF SelectionAssumption, SelectionInv
<1>1. SegmentInv' /\ ExchangeInv'
  BY SegmentFrame, ExchangeFrame DEF Fetch
<1>2. CASE t # act
  <2>1. UNCHANGED <<sum, ask>>
    BY <1>2 DEF Fetch, Want
  <2> QED BY <1>1, <2>1, FlightFrame DEF Fetch, Typed
<1>3. CASE t = act
  <2>1. /\ sum' \in [flight : BOOLEAN, again : BOOLEAN, shown : Shown, err : BOOLEAN]
        /\ ask' \in Seq(Asks) /\ Len(ask') = Len(ask)
        /\ sum'.flight /\ ask'[act] # NoAsk /\ sum'.shown = sum.shown
        /\ sum'.again \/ ask'[act] = Sent
    BY <1>3, WantStep DEF Fetch
  <2>2. Typed'
    BY <2>1 DEF Fetch, Typed
  <2>3. FlightInv'
    BY <1>3, <2>1 DEF Fetch, FlightInv, Typed
  <2> QED BY <1>1, <2>2, <2>3
<1> QED BY <1>2, <1>3

\* A hint of the selected session is turned into a question.
LEMMA HintStep ==
  ASSUME SelectionAssumption, SelectionInv, NEW s \in Sessions, Hint(s)
  PROVE  SelectionInv'
<1> USE DEF SelectionAssumption, SelectionInv
<1>1. "summary" \in Parts
  BY DEF Hint, Typed
<1>2. \A u \in Sessions, p \in Parts : (<<u, p>> \in hints /\ <<u, p>> # <<s, "summary">>) => <<u, p>> \in hints'
  BY DEF Hint
<1>3. ExchangeInv'
  <2>1. \A u \in Sessions : <<u, "exchange">> \in hints => <<u, "exchange">> \in hints'
    BY <1>2 DEF Typed
  <2> QED BY <2>1, OtherHint DEF Hint
<1>4. SegmentInv'
  BY SegmentFrame DEF Hint
<1>5. hints' \subseteq hints
  BY DEF Hint
<1>6. CASE act # 0 /\ (id[act] = s \/ sum.shown = Nothing)
  <2>1. act \in 1..Len(id) /\ Want(act)
    BY <1>6 DEF Hint, Typed
  <2>2. /\ sum' \in [flight : BOOLEAN, again : BOOLEAN, shown : Shown, err : BOOLEAN]
        /\ ask' \in Seq(Asks) /\ Len(ask') = Len(ask)
        /\ sum'.flight /\ ask'[act] # NoAsk /\ sum'.shown = sum.shown
        /\ sum'.again \/ ask'[act] = Sent
    BY <1>1, <2>1, WantStep DEF Hint
  <2>3. Typed'
    BY <1>5, <2>2 DEF Hint, Typed
  <2>4. FlightInv'
    BY <1>1, <2>1, <2>2 DEF Hint, FlightInv, Typed
  <2> QED BY <1>3, <1>4, <2>3, <2>4
<1>7. CASE ~(act # 0 /\ (id[act] = s \/ sum.shown = Nothing))
  <2>1. UNCHANGED <<sum, ask>>
    BY <1>7 DEF Hint
  <2>2. Typed'
    BY <1>5, <2>1 DEF Hint, Typed
  <2>3. act # 0 => (id[act] \in Sessions /\ id[act] # s)
    BY <1>7 DEF Typed
  <2>4. (act # 0 /\ <<id[act], "summary">> \in hints) => <<id[act], "summary">> \in hints'
    BY <1>1, <1>2, <2>3
  <2>5. FlightInv'
    BY <2>1, <2>4 DEF Hint, FlightInv
  <2> QED BY <1>3, <1>4, <2>2, <2>5
<1> QED BY <1>6, <1>7

\* The server's answer carries the revision of the moment it is read.
LEMMA SummaryReadStep ==
  ASSUME SelectionAssumption, SelectionInv, NEW t \in 1..Len(id), SummaryRead(t)
  PROVE  SelectionInv'
<1> USE DEF SelectionAssumption, SelectionInv
<1>1. SegmentInv' /\ ExchangeInv'
  BY SegmentFrame, ExchangeFrame DEF SummaryRead
<1>2. id[t] \in Sessions /\ srv[id[t]] \in 0..MaxRev /\ ask \in Seq(Asks) /\ t \in 1..Len(ask)
  BY DEF Typed
<1>3. Read(srv[id[t]]) \in Asks /\ Read(srv[id[t]]) # NoAsk
  BY <1>2, AskStates
<1>4. /\ ask' \in Seq(Asks) /\ Len(ask') = Len(ask) /\ ask'[t] = Read(srv[id[t]])
      /\ \A i \in 1..Len(ask) : i # t => ask'[i] = ask[i]
  BY <1>2, <1>3, Replaced DEF SummaryRead
<1>5. Typed'
  BY <1>4 DEF SummaryRead, Typed
<1>6. FlightInv'
  <2>1. ask[t] # NoAsk
    BY AskStates DEF SummaryRead
  <2>2. CASE t = act
    BY <1>3, <1>4, <2>1, <2>2 DEF FlightInv, SummaryRead
  <2>3. CASE t # act
    <3>1. act # 0 => ask'[act] = ask[act]
      BY <1>4, <2>3 DEF Typed
    <3> QED BY <3>1, <2>3 DEF FlightInv, SummaryRead
  <2> QED BY <2>2, <2>3
<1> QED BY <1>1, <1>5, <1>6

\* A request of a selection that is gone ends without a trace.
LEMMA DropStep ==
  ASSUME SelectionAssumption, SelectionInv, NEW t \in 1..Len(id), t # act, Drop(t),
         UNCHANGED <<srv, hints, id, act, seg, xid, xact, x>>
  PROVE  SelectionInv'
<1> USE DEF SelectionAssumption, SelectionInv
<1>1. SegmentInv' /\ ExchangeInv'
  BY SegmentFrame, ExchangeFrame
<1>2. ask \in Seq(Asks) /\ t \in 1..Len(ask) /\ NoAsk \in Asks
  BY AskStates DEF Typed
<1>3. /\ ask' \in Seq(Asks) /\ Len(ask') = Len(ask)
      /\ \A i \in 1..Len(ask) : i # t => ask'[i] = ask[i]
  BY <1>2, Replaced DEF Drop
<1>4. Typed'
  BY <1>3 DEF Drop, Typed
<1>5. act # 0 => ask'[act] = ask[act]
  BY <1>3 DEF Typed
<1>6. FlightInv'
  BY <1>5 DEF FlightInv, Drop
<1> QED BY <1>1, <1>4, <1>6

\* A round of the flight ends: it asks again when a question came meanwhile, and
\* otherwise what it shows is the newest or is marked as failed.
LEMMA RoundStep ==
  ASSUME SelectionAssumption, SelectionInv, NEW t \in 1..Len(id), t = act, ask[t] # NoAsk,
         NEW after \in [flight : BOOLEAN, again : BOOLEAN, shown : Shown, err : BOOLEAN],
         after.flight = sum.flight, after.again = sum.again, after.shown # Nothing => after.shown.s = id[act],
         \/ after.err
         \/ (<<id[act], "summary">> \notin hints /\ ~sum.again) => after.shown.v = srv[id[act]],
         Round(t, after), UNCHANGED <<srv, hints, id, act, seg, xid, xact, x>>
  PROVE  SelectionInv'
<1> USE DEF SelectionAssumption, SelectionInv
<1>1. SegmentInv' /\ ExchangeInv'
  BY SegmentFrame, ExchangeFrame
<1>2. ask \in Seq(Asks) /\ t \in 1..Len(ask) /\ NoAsk \in Asks /\ Sent \in Asks /\ Sent # NoAsk /\ t # 0
  BY AskStates DEF Typed
<1>3. sum.flight /\ "summary" \in Parts
  BY <1>2 DEF FlightInv
<1>4. CASE sum.again
  <2>1. sum' = [after EXCEPT !.again = FALSE] /\ ask' = [ask EXCEPT ![t] = Sent]
    BY <1>4 DEF Round
  <2>2. ask' \in Seq(Asks) /\ Len(ask') = Len(ask) /\ ask'[t] = Sent
    BY <1>2, <2>1, Replaced
  <2>3. Typed'
    BY <2>1, <2>2 DEF Typed
  <2>4. FlightInv'
    BY <1>2, <1>3, <2>1, <2>2 DEF FlightInv
  <2> QED BY <1>1, <2>3, <2>4
<1>5. CASE ~sum.again
  <2>1. sum' = [after EXCEPT !.flight = FALSE] /\ ask' = [ask EXCEPT ![t] = NoAsk]
    BY <1>5 DEF Round
  <2>2. ask' \in Seq(Asks) /\ Len(ask') = Len(ask) /\ ask'[t] = NoAsk
    BY <1>2, <2>1, Replaced
  <2>3. Typed'
    BY <2>1, <2>2 DEF Typed
  <2>4. FlightInv'
    BY <1>2, <1>3, <1>5, <2>1, <2>2 DEF FlightInv
  <2> QED BY <1>1, <2>3, <2>4
<1> QED BY <1>4, <1>5

\* An answer is shown for the token that is active, and dropped for another.
LEMMA SummaryAnswersStep ==
  ASSUME SelectionAssumption, SelectionInv, NEW t \in 1..Len(id), SummaryAnswers(t)
  PROVE  SelectionInv'
<1> USE DEF SelectionAssumption, SelectionInv
<1>1. CASE t # act
  BY <1>1, DropStep DEF SummaryAnswers
<1>2. CASE t = act
  <2> DEFINE after == [sum EXCEPT !.shown = [s |-> id[t], v |-> ask[t].v], !.err = FALSE]
  <2>1. ask[t] \in Asks /\ ask[t].st = "read"
    BY DEF Typed, SummaryAnswers
  <2>2. ask[t] # NoAsk /\ ask[t] # Sent /\ ask[t].v \in 0..MaxRev /\ ask[t] = Read(ask[t].v)
    BY <2>1, AskStates
  <2>3. id[t] \in Sessions /\ srv[id[t]] \in 0..MaxRev
    BY DEF Typed
  <2>4. /\ after \in [flight : BOOLEAN, again : BOOLEAN, shown : Shown, err : BOOLEAN]
        /\ after.flight = sum.flight /\ after.again = sum.again /\ after.shown = [s |-> id[t], v |-> ask[t].v]
    BY <2>2, <2>3 DEF Typed, Shown
  <2>5. ask[t] = Read(srv[id[t]]) => ask[t].v = srv[id[t]]
    BY <2>3, AskStates
  <2>6. (<<id[act], "summary">> \notin hints /\ ~sum.again) => after.shown.v = srv[id[act]]
    BY <1>2, <2>2, <2>4, <2>5 DEF FlightInv, Typed
  <2>7. Round(t, after) /\ UNCHANGED <<srv, hints, id, act, seg, xid, xact, x>>
    BY <1>2 DEF SummaryAnswers
  <2> HIDE DEF after
  <2> QED BY <1>2, <2>2, <2>4, <2>6, <2>7, RoundStep
<1> QED BY <1>1, <1>2

\* A failure is shown as one, unless a question came meanwhile.
LEMMA SummaryFailsStep ==
  ASSUME SelectionAssumption, SelectionInv, NEW t \in 1..Len(id), SummaryFails(t)
  PROVE  SelectionInv'
<1> USE DEF SelectionAssumption, SelectionInv
<1>1. CASE t # act
  BY <1>1, DropStep DEF SummaryFails
<1>2. CASE t = act
  <2> DEFINE after == [sum EXCEPT !.err = TRUE]
  <2>1. /\ after \in [flight : BOOLEAN, again : BOOLEAN, shown : Shown, err : BOOLEAN]
        /\ after.flight = sum.flight /\ after.again = sum.again /\ after.shown = sum.shown /\ after.err
    BY DEF Typed
  <2>2. Round(t, after) /\ UNCHANGED <<srv, hints, id, act, seg, xid, xact, x>> /\ ask[t] # NoAsk
    BY <1>2 DEF SummaryFails
  <2>3. after.shown # Nothing => after.shown.s = id[act]
    BY <2>1 DEF FlightInv
  <2> HIDE DEF after
  <2> QED BY <1>2, <2>1, <2>2, <2>3, RoundStep
<1> QED BY <1>1, <1>2

\* A pick gives up the request before it: only its own is of the last generation.
LEMMA PickStep ==
  ASSUME SelectionAssumption, SelectionInv, NEW t \in 1..Len(id), NEW g \in Segments \cup {"none"}, Pick(t, g)
  PROVE  SelectionInv'
<1> USE DEF SelectionAssumption, SelectionInv
<1> DEFINE new == [t |-> t, n |-> seg.gen + 1, g |-> g]
<1>1. FlightInv' /\ ExchangeInv'
  BY FlightFrame, ExchangeFrame DEF Pick
<1>2. seg.gen \in Nat /\ \A r \in seg.reqs : r \in SegmentRequests /\ r.n \in Nat
  BY DEF Typed, SegmentStates, SegmentRequests
<1>3. new \in SegmentRequests /\ new.n = seg.gen + 1 /\ new.t = t /\ new.g = g
  BY <1>2 DEF Typed, SegmentRequests
<1>4. /\ seg' = [gen |-> seg.gen + 1, pick |-> g, shown |-> Nothing, loading |-> g # "none",
                  reqs |-> IF g = "none" THEN seg.reqs ELSE seg.reqs \cup {new}]
  BY DEF Pick, Typed, SegmentStates
<1> HIDE DEF new
<1>5. seg'.reqs = (IF g = "none" THEN seg.reqs ELSE seg.reqs \cup {new}) /\ seg'.gen = seg.gen + 1
      /\ seg'.pick = g /\ seg'.shown = Nothing /\ seg'.loading = (g # "none")
  BY <1>4
<1>6. Typed'
  <2>1. seg' \in SegmentStates
    BY <1>2, <1>3, <1>4 DEF SegmentStates, SegmentShown
  <2> QED BY <2>1 DEF Typed, Pick
<1>7. SegmentInv'
  <2>1. t = act /\ act' = act /\ act # 0
    BY DEF Pick
  <2>2. \A r \in seg'.reqs : r.n <= seg'.gen /\ (r.n = seg'.gen => (r.t = act' /\ act' # 0 /\ r.g = seg'.pick))
    <3> SUFFICES ASSUME NEW r \in seg'.reqs
                 PROVE  r.n <= seg'.gen /\ (r.n = seg'.gen => (r.t = act' /\ act' # 0 /\ r.g = seg'.pick))
      OBVIOUS
    <3>1. CASE r \in seg.reqs
      BY <1>2, <1>5, <3>1 DEF SegmentInv
    <3>2. CASE r = new
      BY <1>2, <1>3, <1>5, <2>1, <3>2
    <3> QED BY <1>5, <3>1, <3>2
  <2>3. seg'.loading => \E r \in seg'.reqs : r.t = act' /\ r.n = seg'.gen
    BY <1>3, <1>5, <2>1
  <2> QED BY <1>5, <2>2, <2>3 DEF SegmentInv, Current
<1> QED BY <1>1, <1>6, <1>7

\* Only the last request of the active token changes what is shown.
LEMMA SegmentSettlesStep ==
  ASSUME SelectionAssumption, SelectionInv, NEW r \in seg.reqs, SegmentSettles(r)
  PROVE  SelectionInv'
<1> USE DEF SelectionAssumption, SelectionInv
<1>1. FlightInv' /\ ExchangeInv'
  BY FlightFrame, ExchangeFrame DEF SegmentSettles
<1>2. UNCHANGED <<id, act>>
  BY DEF SegmentSettles
<1>3. seg \in SegmentStates /\ r \in SegmentRequests /\ r.g \in Segments \cup {"none"}
  BY DEF Typed, SegmentStates, SegmentRequests
<1>4. CASE Current(r)
  <2>1. r.t = act /\ act # 0 /\ r.g = seg.pick /\ id[act] \in Sessions
    BY <1>4 DEF SegmentInv, Current, Typed
  <2>2. PICK ok \in BOOLEAN : seg' = [seg EXCEPT !.reqs = @ \ {r}, !.loading = FALSE,
                                        !.shown = IF ok THEN [s |-> id[r.t], v |-> r.g] ELSE Nothing]
    BY <1>4 DEF SegmentSettles
  <2>3. /\ seg'.reqs = seg.reqs \ {r} /\ seg'.loading = FALSE /\ seg'.gen = seg.gen /\ seg'.pick = seg.pick
        /\ seg'.shown = (IF ok THEN [s |-> id[r.t], v |-> r.g] ELSE Nothing)
        /\ seg' = [gen |-> seg.gen, pick |-> seg.pick, shown |-> seg'.shown, loading |-> FALSE, reqs |-> seg'.reqs]
    BY <1>3, <2>2 DEF SegmentStates
  <2>4. seg' \in SegmentStates
    <3>1. seg'.shown \in SegmentShown
      BY <1>3, <2>1, <2>3 DEF SegmentShown
    <3>2. seg.gen \in Nat /\ seg.pick \in Segments \cup {"none"} /\ seg'.reqs \in SUBSET SegmentRequests
      BY <1>3, <2>3 DEF SegmentStates
    <3> QED BY <2>3, <3>1, <3>2 DEF SegmentStates
  <2>5. Typed'
    BY <2>4 DEF Typed, SegmentSettles
  <2>6. SegmentInv'
    BY <1>2, <2>1, <2>3 DEF SegmentInv, Current
  <2> QED BY <1>1, <2>5, <2>6
<1>5. CASE ~Current(r)
  <2>1. seg' = [seg EXCEPT !.reqs = @ \ {r}]
    BY <1>5 DEF SegmentSettles
  <2>2. /\ seg'.reqs = seg.reqs \ {r} /\ seg'.loading = seg.loading /\ seg'.gen = seg.gen
        /\ seg'.pick = seg.pick /\ seg'.shown = seg.shown /\ seg' \in SegmentStates
    BY <1>3, <2>1 DEF SegmentStates
  <2>3. Typed'
    BY <2>2 DEF Typed, SegmentSettles
  <2>4. SegmentInv'
    BY <1>2, <1>5, <2>2 DEF SegmentInv, Current
  <2> QED BY <1>1, <2>3, <2>4
<1> QED BY <1>4, <1>5

\* What is known of the requests of an exchange
LEMMA ExchangeTyped ==
  ASSUME SelectionAssumption, SelectionInv
  PROVE  /\ x \in ExchangeStates /\ x.gen \in Nat /\ x.reqs \subseteq ExchangeRequests
         /\ \A r \in x.reqs : /\ r \in ExchangeRequests /\ r.n \in Nat /\ r.n <= x.gen /\ r.a \in Asks /\ r.a # NoAsk
                              /\ r.t \in 1..Len(xid) /\ xid[r.t] \in Sessions /\ srv[xid[r.t]] \in 0..MaxRev
         /\ xact # 0 => (xid[xact] \in Sessions /\ srv[xid[xact]] \in 0..MaxRev)
  BY DEF SelectionInv, Typed, ExchangeInv, ExchangeStates, ExchangeRequests

\* A new exchange selection shows nothing, and every request is older than it.
LEMMA BeginExchangeStep ==
  ASSUME SelectionAssumption, SelectionInv, NEW s \in Sessions, BeginExchange(s)
  PROVE  SelectionInv'
<1> USE DEF SelectionAssumption, SelectionInv
<1>1. FlightInv' /\ SegmentInv'
  BY FlightFrame, SegmentFrame DEF BeginExchange
<1>2. /\ xid' \in Seq(Sessions) /\ Len(xid') = Len(xid) + 1 /\ Len(xid) \in Nat /\ xact' = Len(xid) + 1
  BY Appended DEF BeginExchange, Typed
<1>3. /\ x' \in ExchangeStates /\ x'.gen = x.gen + 1 /\ x'.shown = Nothing /\ x'.loaded = FALSE /\ x'.reqs = x.reqs
  <2>1. x' = [gen |-> x.gen + 1, shown |-> Nothing, loaded |-> FALSE, err |-> x.err \ {"first"}, reqs |-> x.reqs]
    BY ExchangeTyped DEF BeginExchange, ExchangeStates
  <2>2. x.err \in SUBSET {"first", "refresh"} /\ Nothing \in Shown
    BY ExchangeTyped DEF ExchangeStates, Shown
  <2> QED BY <2>1, <2>2, ExchangeTyped DEF ExchangeStates
<1>4. Typed'
  BY <1>2, <1>3 DEF Typed, BeginExchange
<1>5. ExchangeInv'
  <2>1. \A r \in x.reqs : r.t \in 1..(Len(xid) + 1) /\ r.n < x.gen + 1 /\ r.a # NoAsk
    BY <1>2, ExchangeTyped
  <2>2. "exchange" \in Parts /\ x.gen \in Nat
    BY ExchangeTyped DEF BeginExchange
  <2>3. \A r \in x.reqs : r.n \in Nat
    BY ExchangeTyped
  <2> QED BY <1>2, <1>3, <2>1, <2>2, <2>3 DEF ExchangeInv, Latest
<1> QED BY <1>1, <1>4, <1>5

\* Clearing the exchange shows nothing and gives up its requests.
LEMMA ClearExchangeStep ==
  ASSUME SelectionAssumption, SelectionInv, NEW t \in 1..Len(xid), ClearExchange(t)
  PROVE  SelectionInv'
<1> USE DEF SelectionAssumption, SelectionInv
<1>1. FlightInv' /\ SegmentInv'
  BY FlightFrame, SegmentFrame DEF ClearExchange
<1>2. /\ x' \in ExchangeStates /\ x'.gen = x.gen + 1 /\ x'.shown = Nothing /\ x'.reqs = x.reqs
  <2>1. x' = [gen |-> x.gen + 1, shown |-> Nothing, loaded |-> FALSE, err |-> x.err, reqs |-> x.reqs]
    BY ExchangeTyped DEF ClearExchange, ExchangeStates
  <2>2. x.err \in SUBSET {"first", "refresh"} /\ Nothing \in Shown
    BY ExchangeTyped DEF ExchangeStates, Shown
  <2> QED BY <2>1, <2>2, ExchangeTyped DEF ExchangeStates
<1>3. Typed'
  BY <1>2 DEF Typed, ClearExchange
<1>4. ExchangeInv'
  <2>1. \A r \in x.reqs : r.t \in 1..Len(xid) /\ r.n <= x.gen + 1 /\ r.a # NoAsk
    BY ExchangeTyped
  <2>2. xact' = 0 /\ xid' = xid
    BY DEF ClearExchange
  <2> QED BY <1>2, <2>1, <2>2 DEF ExchangeInv
<1> QED BY <1>1, <1>3, <1>4

\* A new request of the exchange is the only one of the last generation.
LEMMA ExchangedStep ==
  ASSUME SelectionAssumption, SelectionInv, xact # 0, x' = Exchanged,
         UNCHANGED <<srv, id, act, sum, ask, seg, xid, xact>>
  PROVE  ExchangeInv' /\ x' \in ExchangeStates
<1> USE DEF SelectionAssumption, SelectionInv
<1> DEFINE new == [t |-> xact, n |-> x.gen + 1, a |-> Sent]
<1>1. xact \in 1..Len(xid) /\ xact \in Nat
  BY DEF Typed
<1>2. new \in ExchangeRequests /\ new.t = xact /\ new.n = x.gen + 1 /\ new.a = Sent /\ Sent # NoAsk
  BY <1>1, ExchangeTyped, AskStates DEF ExchangeRequests
<1>3. x' = [x EXCEPT !.gen = @ + 1, !.reqs = @ \cup {new}]
  BY DEF Exchanged
<1> HIDE DEF new
<1>4. /\ x'.gen = x.gen + 1 /\ x'.reqs = x.reqs \cup {new} /\ x'.shown = x.shown /\ x'.loaded = x.loaded /\ x'.err = x.err
      /\ x' \in ExchangeStates
  <2>1. x' = [gen |-> x.gen + 1, shown |-> x.shown, loaded |-> x.loaded, err |-> x.err, reqs |-> x.reqs \cup {new}]
    BY <1>3, ExchangeTyped DEF ExchangeStates
  <2>2. /\ x.gen + 1 \in Nat /\ x.shown \in Shown /\ x.loaded \in BOOLEAN /\ x.err \in SUBSET {"first", "refresh"}
        /\ x.reqs \cup {new} \in SUBSET ExchangeRequests
    BY <1>2, ExchangeTyped DEF ExchangeStates
  <2> QED BY <2>1, <2>2 DEF ExchangeStates
<1>5. \A r \in x'.reqs : r.t \in 1..Len(xid) /\ r.n <= x'.gen /\ r.a # NoAsk
  BY <1>1, <1>2, <1>4, ExchangeTyped
<1>6. \A r \in x'.reqs : r.n = x'.gen => r = new
  BY <1>4, ExchangeTyped
<1>7. new \in x'.reqs /\ new.n = x'.gen /\ new.t = xact'
  BY <1>2, <1>4
<1> QED BY <1>2, <1>4, <1>5, <1>6, <1>7 DEF ExchangeInv, Latest

\* Asking for the exchange
LEMMA FetchExchangeStep ==
  ASSUME SelectionAssumption, SelectionInv, FetchExchange
  PROVE  SelectionInv'
<1>1. FlightInv' /\ SegmentInv'
  BY FlightFrame, SegmentFrame DEF FetchExchange, SelectionInv
<1>2. ExchangeInv' /\ x' \in ExchangeStates
  BY ExchangedStep DEF FetchExchange
<1> QED BY <1>1, <1>2 DEF SelectionInv, Typed, FetchExchange

\* A hint of the selected exchange becomes a request.
LEMMA ExchangeHintStep ==
  ASSUME SelectionAssumption, SelectionInv, NEW s \in Sessions, ExchangeHint(s)
  PROVE  SelectionInv'
<1> USE DEF SelectionAssumption, SelectionInv
<1>1. "exchange" \in Parts /\ hints' \subseteq hints
  BY DEF ExchangeHint, Typed
<1>2. \A u \in Sessions, p \in Parts : (<<u, p>> \in hints /\ <<u, p>> # <<s, "exchange">>) => <<u, p>> \in hints'
  BY DEF ExchangeHint
<1>3. SegmentInv'
  BY SegmentFrame DEF ExchangeHint
<1>4. FlightInv'
  <2>1. act # 0 => id[act] \in Sessions
    BY DEF Typed
  <2>2. CASE "summary" \in Parts
    <3>1. (act # 0 /\ <<id[act], "summary">> \in hints) => <<id[act], "summary">> \in hints'
      BY <1>2, <2>1, <2>2
    <3> QED BY <2>2, <3>1 DEF FlightInv, ExchangeHint
  <2>3. CASE "summary" \notin Parts
    BY <2>3 DEF FlightInv, ExchangeHint
  <2> QED BY <2>2, <2>3
<1>5. CASE xact # 0 /\ xid[xact] = s
  <2>1. ExchangeInv' /\ x' \in ExchangeStates
    BY <1>5, ExchangedStep DEF ExchangeHint
  <2> QED BY <1>1, <1>3, <1>4, <2>1 DEF Typed, ExchangeHint
<1>6. CASE ~(xact # 0 /\ xid[xact] = s)
  <2>1. xact # 0 => xid[xact] \in Sessions
    BY DEF Typed
  <2>2. (xact # 0 /\ <<xid[xact], "exchange">> \in hints) => <<xid[xact], "exchange">> \in hints'
    BY <1>1, <1>2, <1>6, <2>1
  <2>3. x' = x /\ UNCHANGED <<srv, xid, xact>>
    BY <1>6 DEF ExchangeHint
  <2>4. ExchangeInv'
    BY <2>2, <2>3 DEF ExchangeInv, Latest
  <2> QED BY <1>1, <1>3, <1>4, <2>3, <2>4 DEF Typed, ExchangeHint
<1> QED BY <1>5, <1>6

\* The server's answer replaces the request by the same one with its revision.
LEMMA ExchangeReadStep ==
  ASSUME SelectionAssumption, SelectionInv, NEW r \in x.reqs, ExchangeRead(r)
  PROVE  SelectionInv'
<1> USE DEF SelectionAssumption, SelectionInv
<1> DEFINE new == [r EXCEPT !.a = Read(srv[xid[r.t]])]
<1>1. FlightInv' /\ SegmentInv'
  BY FlightFrame, SegmentFrame DEF ExchangeRead
<1>2. Read(srv[xid[r.t]]) \in Asks /\ Read(srv[xid[r.t]]) # NoAsk /\ Read(srv[xid[r.t]]).v = srv[xid[r.t]]
  BY ExchangeTyped, AskStates
<1>3. new \in ExchangeRequests /\ new.t = r.t /\ new.n = r.n /\ new.a = Read(srv[xid[r.t]])
  BY <1>2, ExchangeTyped DEF ExchangeRequests
<1>4. x' = [x EXCEPT !.reqs = (@ \ {r}) \cup {new}]
  BY DEF ExchangeRead
<1> HIDE DEF new
<1>5. /\ x'.gen = x.gen /\ x'.reqs = (x.reqs \ {r}) \cup {new} /\ x'.shown = x.shown /\ x'.loaded = x.loaded /\ x'.err = x.err
      /\ x' \in ExchangeStates
  <2>1. x' = [gen |-> x.gen, shown |-> x.shown, loaded |-> x.loaded, err |-> x.err, reqs |-> (x.reqs \ {r}) \cup {new}]
    BY <1>4, ExchangeTyped DEF ExchangeStates
  <2>2. /\ x.gen \in Nat /\ x.shown \in Shown /\ x.loaded \in BOOLEAN /\ x.err \in SUBSET {"first", "refresh"}
        /\ (x.reqs \ {r}) \cup {new} \in SUBSET ExchangeRequests
    BY <1>3, ExchangeTyped DEF ExchangeStates
  <2> QED BY <2>1, <2>2 DEF ExchangeStates
<1>6. UNCHANGED <<srv, hints, xid, xact>>
  BY DEF ExchangeRead
<1>7. Typed'
  BY <1>5 DEF Typed, ExchangeRead
<1>8. \A q \in x'.reqs : q.t \in 1..Len(xid) /\ q.n <= x'.gen /\ q.a # NoAsk
  BY <1>2, <1>3, <1>5, ExchangeTyped
<1>9. (\E q \in x.reqs : q.t = xact /\ q.n = x.gen) => \E q \in x'.reqs : q.t = xact /\ q.n = x.gen
  BY <1>3, <1>5
<1>10. (xact # 0 /\ <<xid[xact], "exchange">> \notin hints)
         => \A q \in x'.reqs : (q.t = xact /\ q.n = x.gen) => (q.a = Sent \/ q.a.v = srv[xid[xact]])
  BY <1>2, <1>3, <1>5 DEF ExchangeInv, Latest
<1>11. ExchangeInv'
  BY <1>5, <1>6, <1>8, <1>9, <1>10 DEF ExchangeInv, Latest
<1> QED BY <1>1, <1>7, <1>11

\* A request that ends leaves the others; what is shown changes only by the
\* answer of the last one, which is the newest unless a hint is on its way.
LEMMA ExchangeEnds ==
  ASSUME SelectionAssumption, SelectionInv, NEW r \in x.reqs, UNCHANGED <<srv, hints, id, act, sum, ask, seg, xid, xact>>,
         x' \in ExchangeStates, x'.reqs = x.reqs \ {r}, x'.gen = x.gen,
         x'.shown # Nothing => (xact # 0 /\ x'.shown.s = xid[xact]),
         \/ Latest(r) /\ x'.err # {}
         \/ Latest(r) /\ r.a # Sent /\ x'.shown.v = r.a.v
         \/ ~Latest(r) /\ x'.shown = x.shown /\ x'.loaded = x.loaded /\ x'.err = x.err
  PROVE  SelectionInv'
<1> USE DEF SelectionAssumption, SelectionInv
<1>1. FlightInv' /\ SegmentInv' /\ Typed'
  BY FlightFrame, SegmentFrame DEF Typed
<1>2. ExchangeInv'
  <2>1. /\ "exchange" \notin Parts => xact = 0
        /\ \A q \in x'.reqs : q.t \in 1..Len(xid) /\ q.n <= x'.gen /\ q.a # NoAsk
        /\ (xact # 0 /\ <<xid[xact], "exchange">> \notin hints)
              => \A q \in x'.reqs : (q.t = xact /\ q.n = x.gen) => (q.a = Sent \/ q.a.v = srv[xid[xact]])
    BY DEF ExchangeInv, Latest
  <2>2. ASSUME xact # 0, <<xid[xact], "exchange">> \notin hints, x'.loaded, x'.err = {},
               ~\E q \in x'.reqs : q.t = xact /\ q.n = x.gen
        PROVE  x'.shown.v = srv[xid[xact]]
    <3>1. CASE Latest(r)
      BY <2>2, <3>1 DEF ExchangeInv
    <3>2. CASE ~Latest(r)
      <4>1. ~\E q \in x.reqs : Latest(q)
        BY <2>2, <3>2 DEF Latest
      <4> QED BY <2>2, <3>2, <4>1 DEF ExchangeInv
    <3> QED BY <3>1, <3>2
  <2> QED BY <2>1, <2>2 DEF ExchangeInv, Latest
<1> QED BY <1>1, <1>2

\* The answer of the last request is shown; an older one is not.
LEMMA ExchangeAnswersStep ==
  ASSUME SelectionAssumption, SelectionInv, NEW r \in x.reqs, ExchangeAnswers(r)
  PROVE  SelectionInv'
<1> USE DEF SelectionAssumption, SelectionInv
<1>1. r.a # Sent /\ r.a.v \in 0..MaxRev /\ xid[r.t] \in Sessions
  BY ExchangeTyped, AskStates DEF ExchangeAnswers
<1>2. CASE Latest(r)
  <2>1. x' = [gen |-> x.gen, shown |-> [s |-> xid[r.t], v |-> r.a.v], loaded |-> TRUE, err |-> {}, reqs |-> x.reqs \ {r}]
    BY <1>2, ExchangeTyped DEF ExchangeAnswers, ExchangeStates
  <2>2. x.gen \in Nat /\ [s |-> xid[r.t], v |-> r.a.v] \in Shown /\ x.reqs \ {r} \in SUBSET ExchangeRequests
    BY <1>1, ExchangeTyped DEF Shown
  <2>3. x' \in ExchangeStates
    BY <2>1, <2>2 DEF ExchangeStates
  <2>4. xact # 0 /\ r.t = xact
    BY <1>2, ExchangeTyped DEF Latest, Typed
  <2>5. x'.reqs = x.reqs \ {r} /\ x'.gen = x.gen /\ x'.shown.s = xid[xact] /\ x'.shown.v = r.a.v
    BY <2>1, <2>4
  <2> QED BY <1>1, <1>2, <2>3, <2>4, <2>5, ExchangeEnds DEF ExchangeAnswers
<1>3. CASE ~Latest(r)
  <2>1. x' = [x EXCEPT !.reqs = @ \ {r}]
    BY <1>3 DEF ExchangeAnswers
  <2>2. x' \in ExchangeStates /\ x'.reqs = x.reqs \ {r} /\ x'.gen = x.gen /\ x'.shown = x.shown /\ x'.loaded = x.loaded /\ x'.err = x.err
    BY <2>1, ExchangeTyped DEF ExchangeStates
  <2> QED BY <1>3, <2>2, ExchangeEnds DEF ExchangeAnswers, ExchangeInv
<1> QED BY <1>2, <1>3

\* A failure of the last request is marked; one of an older request is not.
LEMMA ExchangeFailsStep ==
  ASSUME SelectionAssumption, SelectionInv, NEW r \in x.reqs, ExchangeFails(r)
  PROVE  SelectionInv'
<1> USE DEF SelectionAssumption, SelectionInv
<1> DEFINE e == IF ~Latest(r) THEN x.err ELSE x.err \cup {IF x.loaded THEN "refresh" ELSE "first"}
<1>1. e \in SUBSET {"first", "refresh"} /\ (Latest(r) => e # {}) /\ (~Latest(r) => e = x.err)
  BY ExchangeTyped DEF ExchangeStates
<1>2. x' = [gen |-> x.gen, shown |-> x.shown, loaded |-> x.loaded, err |-> e, reqs |-> x.reqs \ {r}]
  BY ExchangeTyped DEF ExchangeFails, ExchangeStates
<1> HIDE DEF e
<1>3. x' \in ExchangeStates
  BY <1>1, <1>2, ExchangeTyped DEF ExchangeStates
<1>4. x'.reqs = x.reqs \ {r} /\ x'.gen = x.gen /\ x'.shown = x.shown /\ x'.loaded = x.loaded /\ x'.err = e
  BY <1>2
<1> QED BY <1>1, <1>3, <1>4, ExchangeEnds DEF ExchangeFails, ExchangeInv

\* Every step of the store keeps the inductive invariant.
LEMMA SelectionStep ==
  ASSUME SelectionAssumption, SelectionInv, [Next]_vars
  PROVE  SelectionInv'
<1>1. CASE UNCHANGED vars
  BY <1>1, FlightFrame, SegmentFrame, ExchangeFrame DEF SelectionInv, Typed, vars
<1>2. CASE Next
  BY <1>2, ChangeStep, BeginStep, HintStep, BeginExchangeStep, ExchangeHintStep, ClearStep, FetchStep, SummaryReadStep,
     SummaryAnswersStep, SummaryFailsStep, PickStep, SegmentSettlesStep, ClearExchangeStep, FetchExchangeStep,
     ExchangeReadStep, ExchangeAnswersStep, ExchangeFailsStep DEF Next
<1> QED BY <1>1, <1>2

\* The inductive invariant holds in every state: values are of their type, a
\* flight is the active token's, and requests are of the generation they carry.
LEMMA SelectionHolds == ASSUME SelectionAssumption PROVE Spec => []SelectionInv
<1>1. Init => SelectionInv
  BY InitSelection
<1>2. SelectionInv /\ [Next]_vars => SelectionInv'
  BY SelectionStep
<1> QED BY <1>1, <1>2, PTL DEF Spec

\* What the store shows of the session, its segment and its exchange is always the
\* current selection's, for every order in which requests are answered, fail and
\* are overtaken (fetchSelectedSession, selectConversationVersion, fetchLlmExchange).
THEOREM SelectionIsShown == ASSUME SelectionAssumption PROVE Spec => []ShownIsSelected
<1>1. SelectionInv => ShownIsSelected
  BY DEF SelectionInv, FlightInv, SegmentInv, ExchangeInv, ShownIsSelected
<1> QED BY <1>1, SelectionHolds, PTL

\* A quiet view is fresh: a change on the server is shown, being asked for, on its
\* way as a hint, or the view is marked as failed, for every number of changes,
\* flights, hints that extend them and overlapping requests.
THEOREM ViewsAreFresh == ASSUME SelectionAssumption PROVE Spec => [](QuietIsFresh /\ ExchangeIsFresh)
<1>1. SelectionInv => QuietIsFresh
  BY DEF SelectionInv, FlightInv, QuietIsFresh
<1>2. SelectionInv => ExchangeIsFresh
  BY DEF SelectionInv, ExchangeInv, ExchangeIsFresh
<1> QED BY <1>1, <1>2, SelectionHolds, PTL

\* A segment is shown as loading only while the request that ends it is under way.
THEOREM LoadingIsOwned == ASSUME SelectionAssumption PROVE Spec => []LoadingHasRequest
<1>1. SelectionInv => LoadingHasRequest
  BY DEF SelectionInv, SegmentInv, LoadingHasRequest, Current
<1> QED BY <1>1, SelectionHolds, PTL

\* The variables keep the types their declarations state.
THEOREM SelectionTyped == ASSUME SelectionAssumption PROVE Spec => []TypeOK
<1>1. ASSUME SelectionAssumption, SelectionInv PROVE TypeOK
  BY <1>1 DEF SelectionInv, Typed, TypeOK, SegmentStates, ExchangeStates, Asks
<1> QED BY <1>1, SelectionHolds, PTL
=============================================================================
