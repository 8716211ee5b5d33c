----------------------------- MODULE CardsStore -----------------------------
(* The cards store of the web client: every scope (the children of a card,    *)
(* and of the selected card its detail, descriptors, record, history, entry   *)
(* and diff) has one request that owns it; invalidations and reconnections    *)
(* refresh what is accepted; a late answer finds its owner gone.              *)
EXTENDS Integers, FiniteSets, FiniteSetsExt

CONSTANTS Cards, Shown, \* the scopes a run looks at
          MaxChanges, MaxDrops, MaxFails, MaxActs, MaxRequests

Selected == {"detail", "descriptors", "record", "history", "entry", "diff"}
Scopes == Selected \cup {"children"}
Root == "project"
CardsStoreAssumption == Root \in Cards /\ Shown \subseteq Scopes /\ {MaxChanges, MaxDrops, MaxFails, MaxActs} \subseteq Nat /\ MaxRequests \in Nat \ {0}

VARIABLES ver, gone,   \* the server: version of a card, its deletion
          link, frames, \* the socket, invalidations on it
          ui,          \* slots, owners, requests; missed: the hint a scope never heard (history)
          selected, visible, key, \* selected card, history panel, version compared
          left

vars == <<ver, gone, link, frames, ui, selected, visible, key, left>>

None == "none"
Empty == [card |-> None, ver |-> -1, status |-> "none", loading |-> FALSE, error |-> "none"]
Spend(b) == left[b] > 0 /\ left' = [left EXCEPT ![b] = @ - 1]

Init ==
  /\ ver = [c \in Cards |-> 0] /\ gone = {} /\ link = "first" /\ frames = {}
  /\ ui = [slot |-> [s \in Scopes |-> Empty], owner |-> [s \in Scopes |-> 0], reqs |-> {}, missed |-> {}]
  /\ selected = None /\ visible = FALSE /\ key = 0
  /\ left = [changes |-> MaxChanges, drops |-> MaxDrops, fails |-> MaxFails, acts |-> MaxActs]

-----------------------------------------------------------------------------
(* Requests and their owners *)

Accepted(u, s) == u.slot[s].status # "none"
Free(u) == 1..MaxRequests \ {r.id : r \in u.reqs}
Begin(u, s, c, then) ==
  IF s \notin Shown THEN u
  ELSE LET id == Min(Free(u)) IN
    [slot   |-> [u.slot EXCEPT ![s].loading = TRUE, ![s].error = "none", ![s].status = IF Accepted(u, s) THEN "stale" ELSE "none"],
     owner  |-> [u.owner EXCEPT ![s] = id], missed |-> u.missed \ {s},
     reqs   |-> u.reqs \cup {[id |-> id, scope |-> s, card |-> c, had |-> Accepted(u, s), read |-> -1, then |-> then]}]
\* startDetail, startHistory, startDiff, startEntry, loadRecordDescriptors and the
\* refresh of children and records: the previous owner is replaced.
Start(u, s, c) == Begin(u, s, c, FALSE)
\* startChildren and startRecord without a reason join the request under way.
Join(u, s, c) == IF u.owner[s] # 0 THEN u ELSE Start(u, s, c)
\* clearSelectionData, clearSelectedSubordinates, clearCardHistoryState.
Clear(u, ss) == [u EXCEPT !.slot = [s \in Scopes |-> IF s \in ss THEN Empty ELSE u.slot[s]],
                          !.owner = [s \in Scopes |-> IF s \in ss THEN 0 ELSE u.owner[s]], !.missed = @ \ ss]
Choose(u, c) == IF selected = c THEN u ELSE Clear(u, Selected)
Room(n) == Cardinality(Free(ui)) >= n
Server == UNCHANGED <<ver, gone, link, frames>>

-----------------------------------------------------------------------------
(* What the operator does *)

Act == Spend("acts") /\ Server
EnsureChildren ==
  /\ "children" \in Shown /\ ~Accepted(ui, "children") /\ ui.slot["children"].error = "none" /\ Room(1) /\ Act
  /\ ui' = Join(ui, "children", Root) /\ UNCHANGED <<selected, visible, key>>
FetchDetail(c) ==
  /\ "detail" \in Shown /\ Room(1) /\ Act /\ ui' = Start(Choose(ui, c), "detail", c) /\ selected' = c
  /\ IF selected = c THEN UNCHANGED <<visible, key>> ELSE visible' = FALSE /\ key' = 0
\* loadCardRecords, once the descriptors are there.
LoadRecords ==
  /\ Accepted(ui, "detail") /\ Accepted(ui, "descriptors") /\ ui.owner["descriptors"] = 0 /\ Room(1) /\ Act
  /\ ui' = Join(ui, "record", selected) /\ UNCHANGED <<selected, visible, key>>
OpenHistory(c) ==
  /\ "history" \in Shown /\ Room(1) /\ Act /\ ui' = Start(Choose(ui, c), "history", c) /\ selected' = c /\ visible' = TRUE
  /\ key' = IF selected = c THEN key ELSE 0
CloseHistory == /\ visible /\ Act /\ visible' = FALSE /\ key' = 0 /\ ui' = Clear(ui, {"history", "entry", "diff"}) /\ UNCHANGED selected
\* selectCardHistoryVersion
SelectVersion(k) ==
  /\ visible /\ Accepted(ui, "history") /\ k # key /\ Room(2) /\ Act /\ key' = k
  /\ ui' = Start(Start([ui EXCEPT !.slot = [@ EXCEPT !["entry"] = Empty, !["diff"] = Empty]], "entry", selected), "diff", selected)
  /\ UNCHANGED <<selected, visible>>
ClearSelection == selected # None /\ Act /\ selected' = None /\ visible' = FALSE /\ key' = 0 /\ ui' = Clear(ui, Selected)
\* retryChildren, retryCardDetail, retryRecord, retryHistory, retryDiff.
Retry(s) ==
  /\ \/ ui.slot[s].status = "failed"
     \/ s \in {"children", "record"} /\ ui.slot[s].error = "load" /\ ui.owner[s] = 0
  /\ Room(1) /\ Act /\ ui' = Start(ui, s, IF s = "children" THEN Root ELSE selected) /\ UNCHANGED <<selected, visible, key>>

-----------------------------------------------------------------------------
(* The server and its answers *)

Hinted == {"children", "detail", "record", "history", "diff"} \cap Shown
Change(c) ==
  /\ Spend("changes") /\ c \notin gone /\ ver' = [ver EXCEPT ![c] = @ + 1] /\ gone' \in {gone, gone \cup ({c} \ {Root})}
  /\ frames' = IF link = "up" THEN frames \cup {<<s, IF s = "children" THEN Root ELSE c>> : s \in Hinted} ELSE frames
  /\ UNCHANGED <<link, ui, selected, visible, key>>
\* Seeded fault: an answer is taken by whoever the store shows now.
OwnsAny(r) == TRUE
Owns(r) == ui.owner[r.scope] = r.id
\* The children of the root change with every card.
Now(s, c) == IF s = "children" THEN SumSet({ver[d] * (IF d = Root THEN 1 ELSE 10) : d \in Cards}) ELSE ver[c]
Serve(r) == /\ r \in ui.reqs /\ r.read = -1 /\ Owns(r) /\ ui' = [ui EXCEPT !.reqs = (@ \ {r}) \cup {[r EXCEPT !.read = IF r.card \in gone THEN -2 ELSE Now(r.scope, r.card)]}]
            /\ Server /\ UNCHANGED <<selected, visible, key, left>>

Ended(u, r) == [u EXCEPT !.reqs = @ \ {r}]
\* What follows the descriptors of a reconnection.
Then(u, r) == IF r.then /\ selected = r.card /\ Accepted(u, "detail") /\ Accepted(u, "descriptors") THEN Join(u, "record", r.card) ELSE u
Settled(u, r, new) == [Ended(u, r) EXCEPT !.slot = [@ EXCEPT ![r.scope] = new], !.owner = [@ EXCEPT ![r.scope] = 0]]
Answer(r) ==
  /\ r \in ui.reqs /\ (r.read >= 0 \/ ~Owns(r)) /\ Server /\ UNCHANGED <<selected, visible, key, left>>
  /\ ui' = IF ~Owns(r) THEN Then(Ended(ui, r), r)
           ELSE LET u == Settled(ui, r, [card |-> r.card, ver |-> r.read, status |-> "fresh", loading |-> FALSE, error |-> "none"]) IN
                IF r.scope = "detail" /\ ~Accepted(u, "descriptors") /\ u.owner["descriptors"] = 0 THEN Start(u, "descriptors", r.card) ELSE Then(u, r)
\* A detail that is not found takes the selection's data with it.
Absent(u) == Clear(u, Selected \ {"detail"})
Failed(r) ==
  /\ r \in ui.reqs /\ Server
  /\ \/ r.read = -2 /\ UNCHANGED left
     \/ r.read # -2 /\ Owns(r) /\ Spend("fails")
  /\ IF ~Owns(r) THEN ui' = Then(Ended(ui, r), r) /\ UNCHANGED <<visible, key>>
     ELSE IF r.scope = "detail" /\ r.read = -2
     THEN ui' = Absent(Settled(ui, r, [Empty EXCEPT !.error = "absent"])) /\ visible' = FALSE /\ key' = 0
     ELSE /\ ui' = Then(Settled(ui, r, IF r.had THEN [ui.slot[r.scope] EXCEPT !.status = "failed", !.loading = FALSE]
                                       ELSE [ui.slot[r.scope] EXCEPT !.loading = FALSE, !.error = "load"]), r)
          /\ UNCHANGED <<visible, key>>
  /\ UNCHANGED selected

-----------------------------------------------------------------------------
(* Freshness *)

Owned(s, c) == s = "children" \/ c = selected
\* onInvalidate: only what is accepted, and of the selected card.
Refreshable(s, c) == Accepted(ui, s) /\ Owned(s, c)
Invalidate(s, c) ==
  /\ <<s, c>> \in frames /\ frames' = frames \ {<<s, c>>} /\ Room(1)
  /\ ui' = IF Refreshable(s, c) THEN Start(ui, s, IF s = "children" THEN Root ELSE selected)
           ELSE IF Owned(s, c) /\ ui.owner[s] # 0 THEN [ui EXCEPT !.missed = @ \cup {s}] ELSE ui
  /\ UNCHANGED <<ver, gone, link, selected, visible, key, left>>
\* The first open is the baseline of the bootstrap's own loads.
FirstOpen == /\ link = "first" /\ link' = "up" /\ ui' = [ui EXCEPT !.missed = {s \in Scopes : ui.owner[s] # 0 \/ Accepted(ui, s)}]
             /\ UNCHANGED <<ver, gone, frames, selected, visible, key, left>>
Drop == /\ link = "up" /\ Spend("drops") /\ link' = "down" /\ frames' = {} /\ UNCHANGED <<ver, gone, ui, selected, visible, key>>
\* onReconnect: what is accepted and has not failed is read again.
Again == {s \in {"children", "detail", "history", "diff"} : Accepted(ui, s) /\ ui.slot[s].status # "failed"}
Reopen ==
  /\ link = "down" /\ link' = "up" /\ Room(Cardinality(Again) + 1)
  /\ LET u == FoldSet(LAMBDA s, v : Start(v, s, IF s = "children" THEN Root ELSE selected), [ui EXCEPT !.missed = @ \cup {s \in Scopes : ui.owner[s] # 0 /\ ~Accepted(ui, s)}], Again)
     IN ui' = IF "detail" \in Again THEN Begin(u, "descriptors", selected, TRUE) ELSE u
  /\ UNCHANGED <<ver, gone, frames, selected, visible, key, left>>

-----------------------------------------------------------------------------
Next ==
  \/ EnsureChildren \/ LoadRecords \/ CloseHistory \/ ClearSelection \/ FirstOpen \/ Drop \/ Reopen
  \/ \E c \in Cards : FetchDetail(c) \/ OpenHistory(c) \/ Change(c)
  \/ \E k \in 1..2 : SelectVersion(k)
  \/ \E s \in Shown : Retry(s)
  \/ \E r \in ui.reqs : Serve(r) \/ Answer(r) \/ Failed(r)
  \/ \E s \in Hinted, c \in Cards : Invalidate(s, c)
Spec == Init /\ [][Next]_vars

-----------------------------------------------------------------------------
(* Properties *)

\* What is shown of the selected card is of that card, whatever answers come
\* late from an earlier selection.
ShowsTheSelected == \A s \in Selected : ui.slot[s].card \in {None, selected}

\* A spinner turns exactly as long as a request owns the scope.
LoadingIsOwned == \A s \in Scopes : ui.slot[s].loading <=> ui.owner[s] # 0

\* After the selected card was not found nothing of it is shown or read but what
\* is asked for explicitly.
AbsentShowsNothing == ui.slot["detail"].error = "absent" => \A s \in {"descriptors", "record", "entry", "diff"} : ~Accepted(ui, s) /\ ui.owner[s] = 0

\* A scope marked fresh shows the server's state once every hint and request is
\* settled, unless its hint came before there was anything to refresh.
FreshIsTrue ==
  link = "up" /\ frames = {} /\ ui.reqs = {} =>
    \A s \in Hinted \ ui.missed : ui.slot[s].status = "fresh" => ui.slot[s].card \in gone \/ ui.slot[s].ver = Now(s, ui.slot[s].card)
=============================================================================
