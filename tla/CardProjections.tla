-------------------------- MODULE CardProjections ---------------------------
(* cards/card-service.ts and the readers above it: what a publication of a   *)
(* card appends to its history, what the service announces to the clients,    *)
(* and what the operator API and the card tools answer.  A queue mutation     *)
(* replaces the head and leaves no history; every other change leaves one     *)
(* immutable artifact that names the fields it changed.                       *)
EXTENDS Naturals, Sequences, FiniteSets, SequencesExt

CONSTANTS Cards,         \* the cards that can exist, the root included
          ParentOf,      \* the parent of each card but the root
          Root,
          Notes,         \* notification ids
          Titles,        \* values of the editable fields
          Recorded,      \* cards whose type configures a record
          Contents,      \* contents of a record
          MaxVersions,   \* bound: versions of all cards together
          MaxFacts,      \* bound: native source facts published
          MaxRecord      \* bound: accepted versions of a record

Status == {"backlog", "running", "changed", "stopped", "blocked", "failed", "done", "cancelled"}
Business == {"life", "title", "members", "order", "git", "text", "pend"}
Ordinary == Business \ {"pend"}
Sources == [running |-> {"backlog", "blocked", "changed"},
            changed |-> {"blocked", "done", "failed"},
            cancelled |-> {"backlog", "running", "blocked", "changed", "stopped", "failed"}]

VARIABLES card,          \* the current card of each head
          hist,          \* its chain of artifacts, oldest first
          record,        \* the configured record: baseline, accepted versions, draft
          refused,       \* the store refused a version the service had admitted
          announced      \* targets the last step published

vars == <<card, hist, record, refused, announced>>

Exists(c) == hist[c] # <<>>
Deleted(c) == Exists(c) /\ Last(hist[c]).deleted
None == "none"
NoRecord == [claimed |-> FALSE, baseline |-> None, accepted |-> <<>>, draft |-> None]
NewCard(title) ==
  [life |-> "backlog", title |-> title, members |-> <<>>, order |-> <<>>, git |-> 0,
   text |-> 0, pend |-> <<>>, seq |-> 1]

-----------------------------------------------------------------------------
(* Readers *)

Ancestors == 
  LET up[n \in 0..Cardinality(Cards), c \in Cards] ==
        IF n = 0 \/ c = Root THEN {} ELSE {ParentOf[c]} \cup up[n - 1, ParentOf[c]]
  IN [c \in Cards |-> up[Cardinality(Cards), c]]
Linked(c) == Exists(c) /\ (c # Root => c \in ToSet(card[ParentOf[c]].members))

\* readLinkedCard: every link of the path, no tombstone on it; the target itself
\* may be one when its history is asked for.
Committed(c) == Linked(c) /\ \A a \in Ancestors[c] : Linked(a) /\ ~Deleted(a)
Active(c) == Committed(c) /\ ~Deleted(c)
ActiveChildren(c) == SelectSeq(card[c].order, LAMBDA d : ~Deleted(d))

NotFound == [kind |-> "card-not-found"]
FoundAs(value) == [kind |-> "found", value |-> value]

\* projectCardVersionChangeForOutbound: the fields a history entry says changed.
OutboundFields(entry) ==
  CASE entry.kind = "initial" -> {}
    [] entry.kind = "status" -> {"life"}
    [] OTHER -> entry.fields \ {"pend"}

\* The operator API: the detail of a card, its hierarchy row and its children's,
\* its version list.
Row(c) == [id |-> c, title |-> card[c].title, status |-> card[c].life]
GetCard(c) ==
  IF ~Active(c) THEN NotFound
  ELSE FoundAs([title |-> card[c].title, life |-> card[c].life, git |-> card[c].git,
                text |-> card[c].text, seq |-> card[c].seq])
GetChildren(c) ==
  IF ~Active(c) THEN NotFound
  ELSE FoundAs([parent |-> Row(c),
                children |-> [i \in 1..Len(ActiveChildren(c)) |-> Row(ActiveChildren(c)[i])]])
ListCardVersions(c) ==
  IF ~Committed(c) THEN NotFound
  ELSE FoundAs([i \in 1..Len(hist[c]) |->
                  [version |-> hist[c][i].version, deleted |-> hist[c][i].deleted,
                   fields |-> OutboundFields(hist[c][i])]])

\* readCardVersion: the artifact of exactly that version, if the sparse chain has it.
Versions(c) == {hist[c][i].version : i \in 1..Len(hist[c])}
Artifact(c, v) == CHOOSE a \in ToSet(hist[c]) : a.version = v

\* diffCardVersions and projectCardDiff: the fields that differ between a version
\* and another one or the current card, the pending queue left out.
DiffFields(left, right) == {f \in Ordinary : left[f] # right[f]}
Current == 0
DiffCard(c, from, to) ==
  LET target == IF to # Current THEN to
                ELSE IF Deleted(c) THEN Last(hist[c]).version ELSE card[c].seq
      known == to = Current \/ to \in Versions(c)
  IN CASE ~Committed(c) -> NotFound
       [] Committed(c) /\ from > target -> [kind |-> "invalid-pivots"]
       [] Committed(c) /\ from <= target /\ (from \notin Versions(c) \/ ~known) ->
            [kind |-> "version-not-found"]
       [] OTHER ->
            LET right == IF to = Current /\ ~Deleted(c) THEN card[c] ELSE Artifact(c, target).card
                gone == IF to = Current THEN Deleted(c) ELSE Artifact(c, target).deleted
                left == Artifact(c, from)
            IN FoundAs([target |-> target,
                        fields |-> DiffFields(left.card, right)
                                     \cup (IF left.deleted # gone THEN {"deleted"} ELSE {})])
\* What an open diff against the current card shows.
CurrentDiffs(c) ==
  IF ~Committed(c) THEN NotFound
  ELSE FoundAs([v \in Versions(c) |-> DiffCard(c, v, Current)])

\* getRecord and listRecordHistory: the accepted versions of a configured record, its
\* template and its draft, or that it has none yet.  The revision and the head's id,
\* which every publication changes, are left out.
GetRecord(c) == IF ~Active(c) THEN NotFound ELSE FoundAs(record[c])

\* projectRecord and recordView: what a view of a record shows, if it has it.
AcceptedView(r) == IF r.accepted = <<>> THEN None ELSE Last(r.accepted)
RecordView(r, view) ==
  CASE view = "accepted" -> AcceptedView(r)
    [] view = "draft" -> r.draft
    [] OTHER -> IF r.baseline # None THEN r.baseline
                ELSE IF r.draft # None THEN r.draft ELSE AcceptedView(r)
\* effectiveRecordContent, which the file tools, the prompts and the mutations use.
EffectiveRecordContent(r) ==
  IF r.draft # None THEN r.draft ELSE IF r.baseline # None THEN r.baseline ELSE AcceptedView(r)

\* diffRecordVersions: an accepted version, and another one or the record as it is.
AcceptedRecord(c, v) == [NoRecord EXCEPT !.accepted = <<record[c].accepted[v]>>, !.claimed = TRUE]
SelectPivots(c, from, to) ==
  LET n == Len(record[c].accepted) IN
  CASE ~Active(c) -> NotFound
    [] Active(c) /\ from > (IF to = Current THEN n ELSE to) -> [kind |-> "invalid-pivots"]
    [] Active(c) /\ to # Current /\ from <= to /\ to > n -> [kind |-> "version-not-found"]
    [] OTHER -> FoundAs(<<AcceptedRecord(c, from),
                          IF to = Current THEN record[c] ELSE AcceptedRecord(c, to)>>)
\* diffRecord: both sides in the view asked for, or the side that lacks it.
DiffRecord(c, from, to, view) ==
  LET pivots == SelectPivots(c, from, to) IN
  IF pivots.kind # "found" THEN pivots
  ELSE IF \E i \in 1..2 : RecordView(pivots.value[i], view) = None THEN [kind |-> "view-unavailable"]
  ELSE FoundAs([before |-> RecordView(pivots.value[1], view), after |-> RecordView(pivots.value[2], view)])

\* list_cards and get_tree: the rows of an agent's discovery, and the observation
\* that stands for them.
ListedUnder(c) == {d \in Cards : Active(d) /\ (d = c \/ c \in Ancestors[d])}
TreeRows(c) == {Row(d) : d \in ListedUnder(c)}
Observation(c) == {<<d, card[d].seq>> : d \in ListedUnder(c)}

-----------------------------------------------------------------------------
(* Publication *)

\* actualDelta over the business fields.
ActualDelta(prior, next) == {f \in Business : prior[f] # next[f]}

\* validateTerminal, and the child_link and reorder cases.
ValidTerminal(prior, next) ==
  /\ prior.life = "running" /\ next.life \in {"done", "failed", "blocked"}
  /\ next.pend = <<>> /\ ActualDelta(prior, next) \subseteq {"life", "text", "pend"}
ValidChildren(prior, next, kind) ==
  \/ /\ kind = "child_link" /\ ActualDelta(prior, next) = {"members", "order"}
     /\ Front(next.members) = prior.members /\ Front(next.order) = prior.order
     /\ Last(next.members) = Last(next.order) /\ Last(next.members) \notin ToSet(prior.members)
  \/ /\ kind = "reorder" /\ ActualDelta(prior, next) = {"order"}
     /\ Len(next.order) = Len(prior.order)
     /\ IsInjective(next.order) /\ ToSet(next.order) = ToSet(prior.order)

\* validateCardTransition, for a version about to be published ("live") and for
\* two neighbours of the chain ("history").
ValidateCardTransition(prior, next, kind, fields, linkage) ==
  LET delta == ActualDelta(prior, next) IN
  /\ IF linkage = "live" THEN next.seq = prior.seq + 1 ELSE next.seq > prior.seq
  /\ fields = delta
  /\ CASE kind = "git_source" -> delta = {"git"} /\ next.git # 0
       [] kind = "update" ->
            prior.life \in {"backlog", "changed", "stopped"} /\ delta = {"title"}
       [] kind = "notification_enqueue" ->
            /\ delta = {"pend"} /\ Len(next.pend) = Len(prior.pend) + 1
            /\ Front(next.pend) = prior.pend /\ Last(next.pend) \notin ToSet(prior.pend)
       [] kind = "notification_remove" ->
            /\ delta = {"pend"}
            /\ next.pend = SelectSeq(prior.pend, LAMBDA n : n \in ToSet(next.pend))
       [] kind = "status" ->
            /\ \/ <<prior.life, next.life>> \in {<<"running", "stopped">>, <<"stopped", "running">>}
               \/ next.life \in DOMAIN Sources /\ prior.life \in Sources[next.life]
            /\ next.pend = IF next.life = "cancelled" THEN <<>> ELSE prior.pend
            /\ delta \subseteq {"life", "pend"} /\ "life" \in delta
       [] kind = "terminal" -> ValidTerminal(prior, next)
       [] OTHER -> ValidChildren(prior, next, kind)

\* Seeded fault: the parent's rows are not announced with the card's.
EffectsOwn(c, names) == (({"detail", "history", "diff", "children"} \cup names) \X {c})

\* publishCardVersionEffects.
Effects(c, names) ==
  ({"detail", "history", "diff", "children"} \X {c})
    \cup (IF c = Root THEN {} ELSE {<<"children", ParentOf[c]>>})
    \cup (names \X {c})

\* cardVersionArtifactSchema, ordinaryCardPayload and ordinaryChange: the artifact
\* leaves out the queue.
Entry(next, kind, fields) ==
  [version |-> next.seq, kind |-> kind, fields |-> fields \ {"pend"}, deleted |-> FALSE,
   card |-> [next EXCEPT !.pend = <<>>]]
Queued(kind) == kind \in {"notification_enqueue", "notification_remove"}

\* publishVersion over publishCardVersion: the version is checked against the
\* current card, an artifact is kept unless only the queue changed, the head is
\* replaced, and the effects follow.
PublishVersion(c, next, kind, fields) ==
  IF ~ValidateCardTransition(card[c], next, kind, fields, "live")
  THEN refused' = TRUE /\ announced' = {} /\ UNCHANGED <<card, hist, record>>
  ELSE /\ card' = [card EXCEPT ![c] = next]
       /\ hist' = [hist EXCEPT ![c] = IF Queued(kind) THEN @ ELSE Append(@, Entry(next, kind, fields))]
       /\ announced' = Effects(c, {})
       /\ UNCHANGED <<record, refused>>

Bumped(c) == [card[c] EXCEPT !.seq = @ + 1]
MayPublish(c) == Active(c) /\ ~refused /\ MapThenSumSet(LAMBDA d : card[d].seq, Cards) < MaxVersions

Init ==
  /\ card = [c \in Cards |-> NewCard(CHOOSE t \in Titles : TRUE)]
  /\ hist = [c \in Cards |-> IF c = Root THEN <<Entry(card[c], "initial", {})>> ELSE <<>>]
  /\ record = [c \in Cards |-> NoRecord]
  /\ refused = FALSE /\ announced = {}

\* create: the initial card is published before the link, so only the parent's
\* version is announced.
Create(c, title) ==
  LET p == ParentOf[c] IN
  /\ ~Exists(c) /\ MayPublish(p) /\ card[p].life \in {"backlog", "running", "changed", "stopped", "blocked"}
  /\ LET next == [Bumped(p) EXCEPT !.members = Append(@, c), !.order = Append(@, c)]
         fields == {"members", "order"} IN
     /\ card' = [card EXCEPT ![p] = next, ![c] = NewCard(title)]
     /\ hist' = [hist EXCEPT ![p] = Append(@, Entry(next, "child_link", fields)),
                             ![c] = <<Entry(NewCard(title), "initial", {})>>]
     /\ announced' = Effects(p, {})
     /\ refused' = ~ValidateCardTransition(card[p], next, "child_link", fields, "live")
  /\ UNCHANGED record

\* editCard: a blocked or failed card becomes changed first, and the edit builds on
\* the version that left; a patch that changes nothing publishes nothing.
EditCard(c, title) ==
  /\ MayPublish(c) /\ title # card[c].title
  /\ card[c].life \in {"backlog", "changed", "stopped", "blocked", "failed"}
  /\ LET reopen == card[c].life \in {"blocked", "failed"}
         base == IF reopen THEN [Bumped(c) EXCEPT !.life = "changed"] ELSE card[c]
         next == [base EXCEPT !.title = title, !.seq = @ + 1]
         first == IF reopen THEN <<Entry(base, "status", {"life"})>> ELSE <<>>
     IN /\ card' = [card EXCEPT ![c] = next]
        /\ hist' = [hist EXCEPT ![c] = Append(@ \o first, Entry(next, "update", {"title"}))]
        /\ refused' = ~ /\ reopen => ValidateCardTransition(card[c], base, "status", {"life"}, "live")
                        /\ ValidateCardTransition(base, next, "update", {"title"}, "live")
        /\ announced' = Effects(c, {}) /\ UNCHANGED record

\* setStatus, stopRunning and activateStopped: cancelling empties the queue.
SetStatus(c, to) ==
  /\ MayPublish(c)
  /\ \/ to \in DOMAIN Sources /\ card[c].life \in Sources[to]
     \/ <<card[c].life, to>> \in {<<"running", "stopped">>, <<"stopped", "running">>}
  /\ LET clears == to = "cancelled" /\ card[c].pend # <<>> IN
       PublishVersion(c, [Bumped(c) EXCEPT !.life = to, !.pend = IF clears THEN <<>> ELSE @], "status",
                      {"life"} \cup (IF clears THEN {"pend"} ELSE {}))

\* enqueueNotification, removeNotifications: removing none of them is a no-op.
EnqueueNotification(c, n) ==
  /\ MayPublish(c) /\ card[c].life \in {"backlog", "running", "changed", "stopped", "blocked"} /\ n \notin ToSet(card[c].pend)
  /\ PublishVersion(c, [Bumped(c) EXCEPT !.pend = Append(@, n)], "notification_enqueue", {"pend"})
RemoveNotifications(c, ns) ==
  /\ MayPublish(c) /\ ns \cap ToSet(card[c].pend) # {}
  /\ PublishVersion(c, [Bumped(c) EXCEPT !.pend = SelectSeq(@, LAMBDA n : n \notin ns)],
                    "notification_remove", {"pend"})

\* commitActivationOutcome: the result, its text and the empty queue in one version.
CommitActivationOutcome(c, status, text) ==
  /\ MayPublish(c) /\ card[c].life = "running"
  /\ PublishVersion(c, [Bumped(c) EXCEPT !.life = status, !.text = text, !.pend = <<>>], "terminal",
                    {"life"} \cup (IF text # card[c].text THEN {"text"} ELSE {})
                             \cup (IF card[c].pend # <<>> THEN {"pend"} ELSE {}))

\* reorderChildren: the active children as asked, the retained tombstones after
\* them; an order that is the one shown is a no-op.
ReorderChildren(c, order) ==
  /\ MayPublish(c)
  /\ Len(order) = Len(ActiveChildren(c)) /\ ToSet(order) = ToSet(ActiveChildren(c))
  /\ order # ActiveChildren(c)
  /\ PublishVersion(c, [Bumped(c) EXCEPT !.order = order \o SelectSeq(@, LAMBDA d : Deleted(d))],
                    "reorder", {"order"})

\* publishGitFacts: facts equal to the present ones publish nothing.
PublishGitFacts(c, facts) ==
  /\ MayPublish(c) /\ facts # card[c].git
  /\ PublishVersion(c, [Bumped(c) EXCEPT !.git = facts], "git_source", {"git"})

\* The loop of deleteSubtrees at one card: its children went before it.  The
\* tombstone keeps the card as it was and empties the queue.
DeleteCard(c) ==
  /\ c # Root /\ MayPublish(c) /\ card[c].life # "running" /\ ActiveChildren(c) = <<>>
  /\ hist' = [hist EXCEPT ![c] = Append(@, [version |-> card[c].seq + 1, kind |-> "delete",
                fields |-> {"deleted"}, deleted |-> TRUE, card |-> [card[c] EXCEPT !.pend = <<>>]])]
  /\ card' = [card EXCEPT ![c].pend = <<>>]
  /\ announced' = Effects(c, {"record"})
  /\ UNCHANGED <<record, refused>>

RecordStep(c, new, targets) ==
  /\ c \in Recorded /\ Active(c) /\ ~refused
  /\ record' = [record EXCEPT ![c] = new]
  /\ announced' = targets /\ UNCHANGED <<card, hist, refused>>

\* initializeRecord: the template of a record that was never claimed.
InitializeRecord(c, content) ==
  /\ ~record[c].claimed
  /\ RecordStep(c, [NoRecord EXCEPT !.claimed = TRUE, !.baseline = content], {<<"record", c>>})
\* openRecord, editRecord, discardRecord: a draft over the baseline or a blank one,
\* and no announcement.
OpenRecord(c) ==
  /\ record[c].draft = None /\ Len(record[c].accepted) < MaxRecord
  /\ RecordStep(c, [record[c] EXCEPT !.claimed = TRUE, !.baseline = None,
                      !.draft = IF record[c].baseline # None THEN record[c].baseline ELSE "blank"], {})
EditRecord(c, content) ==
  /\ record[c].draft \notin {None, content}
  /\ RecordStep(c, [record[c] EXCEPT !.draft = content], {})
DiscardRecord(c) ==
  /\ record[c].draft # None /\ RecordStep(c, [record[c] EXCEPT !.draft = None], {})

\* closeRecord (of the draft) and acceptRecord (without one): a new accepted version.
AcceptRecord(c, content) ==
  /\ Len(record[c].accepted) < MaxRecord /\ record[c].draft \in {None, content}
  /\ RecordStep(c, [NoRecord EXCEPT !.claimed = TRUE, !.accepted = Append(record[c].accepted, content)],
                {<<"record", c>>})

Next ==
  \E c \in Cards :
    \/ c # Root /\ \E t \in Titles : Create(c, t)
    \/ \E t \in Titles : EditCard(c, t)
    \/ \E s \in Status : SetStatus(c, s)
    \/ \E n \in Notes : EnqueueNotification(c, n)
    \/ \E ns \in SUBSET Notes : RemoveNotifications(c, ns)
    \/ \E s \in {"done", "failed", "blocked"}, x \in {1, 2} : CommitActivationOutcome(c, s, x)
    \/ \E o \in SetToSeqs(ToSet(ActiveChildren(c))) : ReorderChildren(c, o)
    \/ \E g \in 1..MaxFacts : PublishGitFacts(c, g)
    \/ DeleteCard(c)
    \/ \E x \in Contents : InitializeRecord(c, x) \/ EditRecord(c, x) \/ AcceptRecord(c, x)
    \/ OpenRecord(c) \/ DiscardRecord(c)

Spec == Init /\ [][Next]_vars

-----------------------------------------------------------------------------
(* Properties *)

View(scope, c) ==
  CASE scope = "detail" -> GetCard(c)
    [] scope = "children" -> GetChildren(c)
    [] scope = "history" -> ListCardVersions(c)
    [] scope = "diff" -> CurrentDiffs(c)
    [] scope = "record" -> GetRecord(c)
Scopes == {"detail", "children", "history", "diff", "record"}

\* Opening, editing and discarding a draft: nothing accepted changes.
OnlyTheDraft(c) ==
  /\ record[c].draft # None \/ record'[c].draft # None
  /\ record'[c].accepted = record[c].accepted

\* Whatever a client was shown of a card and a publication changed is announced
\* with it (publishCardVersionEffects, acceptRecord): the row in its parent's
\* children and the records of a deleted card too.  A card whose ancestor is
\* deleted becomes unreachable without a target of its own: targets do not cascade.
\* A view of a record goes silently stale in its draft, and in the template a draft
\* takes the place of, never in what was accepted.
ChangesAreAnnounced ==
     \A c \in Cards, s \in Scopes :
       \/ <<s, c>> \in announced' \/ View(s, c).kind # "found" \/ View(s, c)' = View(s, c)
       \/ s = "record" /\ OnlyTheDraft(c)
       \/ \E a \in Ancestors[c] : ~Deleted(a) /\ Deleted(a)'

\* The checks of the service and of the store agree: a version the service admits
\* (editCard, setStatus, commitActivationOutcome, reorderChildren...) is never
\* refused by validateCardTransition, which would leave an edit of a failed card half made.
AdmittedIsPublished == ~refused

\* Every history can be read back: readHistory checks each artifact against the one
\* before it, over the queue mutations that left none and the queues a
\* cancellation or a result emptied.
HistoryReadsBack ==
  \A c \in Cards : \A i \in 2..Len(hist[c]) :
    LET left == hist[c][i - 1] right == hist[c][i] IN
      IF right.deleted THEN ActualDelta(left.card, right.card) = {}
      ELSE ValidateCardTransition(left.card, right.card, right.kind, right.fields, "history")

\* The history accounts for every difference: a field that diffCardVersions shows
\* between two versions, or between a version and the current card, is one that
\* some listed change in between names to the operator.
DiffIsExplained ==
  \A c \in Cards : Committed(c) => \A from \in Versions(c), to \in Versions(c) \cup {Current} :
    LET d == DiffCard(c, from, to) IN
      IF d.kind # "found" THEN to # Current /\ from > to
      ELSE d.value.fields \subseteq
             UNION {OutboundFields(e) : e \in {x \in ToSet(hist[c]) : x.version > from /\ x.version <= d.value.target}}

\* The surfaces agree on what a record says now: the record API's effective view, the
\* content the file tools and prompts read, and the current side of an effective
\* diff; and nothing accepted differs from itself.
RecordSurfacesAgree ==
  \A c \in Recorded :
    /\ RecordView(record[c], "effective") = EffectiveRecordContent(record[c])
    /\ Active(c) => \A v \in 1..Len(record[c].accepted) :
         LET now == DiffRecord(c, v, Current, "effective")
             kept == DiffRecord(c, v, Current, "accepted")
         IN /\ now.kind = "found" /\ now.value.after = EffectiveRecordContent(record[c])
            /\ kept.kind = "found"
            /\ v = Len(record[c].accepted) => kept.value.before = kept.value.after

\* Two discovery pages with the same observation list the same cards with the same
\* titles and states (list_cards, get_tree).
ObservationPins ==
     \A c \in Cards : Observation(c)' = Observation(c) => TreeRows(c)' = TreeRows(c)
=============================================================================
