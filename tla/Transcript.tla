----------------------------- MODULE Transcript -----------------------------
(* A transcript in the web client (conversation-fetch, the Analyst chat) over  *)
(* the incremental read of a session: cursors of one segment, compaction       *)
(* under a reader, one lease that hands the transcript over, and optimistic    *)
(* messages that the durable rows replace.                                     *)
EXTENDS Integers, Sequences, FiniteSets, FiniteSetsExt, SequencesExt

CONSTANTS MaxRows, MaxCompactions, MaxDrops, MaxFails, MaxSends, MaxActs, MaxRequests

TranscriptAssumption == {MaxRows, MaxCompactions, MaxDrops, MaxFails, MaxSends, MaxActs} \subseteq Nat /\ MaxRequests \in Nat \ {0}

VARIABLES log,   \* server: seg, rows (one kind per message id), first id of the segment, covered notice, posted
          sync,  \* link, lease (the claim the socket serves), frame waiting, batch in flight
          chat,  \* entries, cursor, owner of the transcript, errors, identity, handoff, pending, send (0 idle, -1 posting, a request)
          reqs, left
vars == <<log, sync, chat, reqs, left>>

None == 0
NoCursor == [seg |-> 0, msg |-> 0]
Frame(kind, seg, msg) == [kind |-> kind, seg |-> seg, msg |-> msg]
NoFrame == Frame("none", 0, 0)
Ack == Frame("ack", 0, 0)
Spend(b) == left[b] > 0 /\ left' = [left EXCEPT ![b] = @ - 1]
\* What transcript.reset leaves of the transcript.
Cleared(c) == [c EXCEPT !.entries = <<>>, !.base = FALSE, !.cursor = NoCursor, !.owner = None, !.loading = FALSE, !.error = FALSE]

Init ==
  /\ log = [seg |-> 1, rows |-> <<>>, from |-> 1, covered |-> 0, posted |-> "none"]
  /\ sync = [link |-> "up", lease |-> 0, frame |-> NoFrame, batch |-> None]
  /\ chat = [entries |-> <<>>, base |-> FALSE, cursor |-> NoCursor, owner |-> None, loading |-> FALSE, error |-> FALSE,
             identity |-> "pending", claim |-> 0, acked |-> FALSE, pending |-> {}, send |-> 0]
  /\ reqs = {}
  /\ left = [rows |-> MaxRows, compactions |-> MaxCompactions, drops |-> MaxDrops, fails |-> MaxFails, sends |-> MaxSends, acts |-> MaxActs]

-----------------------------------------------------------------------------
(* The server: rows, segments and the incremental read *)

LastId == Len(log.rows)
\* appendConversationRows and publishCompaction announce the segment and its last
\* visible row; a lease keeps the latest frame, an acknowledgement outweighs it.
Announce(l) ==
  sync' = IF sync.link = "up" /\ sync.lease # 0 /\ sync.frame # Ack
          THEN [sync EXCEPT !.frame = Frame("rows", l.seg, IF Len(l.rows) >= l.from THEN Len(l.rows) ELSE 0)] ELSE sync
Append1(l, kind) == [l EXCEPT !.rows = Append(@, kind)]
AppendRow(kind) == /\ Spend("rows") /\ log' = Append1(log, kind) /\ Announce(log') /\ UNCHANGED <<chat, reqs>>
\* The summary covers every row up to the cut and inherits the latest notice.
Compact(cut) ==
  /\ Spend("compactions")
  /\ LET notices == {i \in log.from..cut : log.rows[i] = "notice"}
     IN log' = [log EXCEPT !.seg = @ + 1, !.from = cut + 1, !.covered = IF notices = {} THEN @ ELSE Max(notices)]
  /\ Announce(log') /\ UNCHANGED <<chat, reqs>>
\* coveredRequiredFactRows: the inherited notice, until a row of the segment is a later one.
Covered == IF log.covered # 0 /\ ~\E i \in log.from..LastId : log.rows[i] = "notice" THEN <<log.covered>> ELSE <<>>
Whole == Covered \o [i \in 1..(LastId - log.from + 1) |-> log.from + i - 1]
\* foldConversation
Fold(cursor) ==
  IF cursor # NoCursor /\ cursor.seg # log.seg THEN [status |-> 409, entries |-> <<>>]
  ELSE IF cursor = NoCursor THEN [status |-> 200, entries |-> Whole]
  ELSE IF ~Contains(Whole, cursor.msg) THEN [status |-> 400, entries |-> <<>>]
  ELSE [status |-> 200, entries |-> SubSeq(Whole, (CHOOSE i \in DOMAIN Whole : Whole[i] = cursor.msg) + 1, Len(Whole))]

-----------------------------------------------------------------------------
(* createConversationFetch *)

Ids == 1..MaxRequests
Free == Ids \ {r.id : r \in reqs}
\* cursor.value?.message_id ? cursor.value : null
Usable(c) == IF c.msg = 0 THEN NoCursor ELSE c
Request(c) == [id |-> Min(Free), cursor |-> Usable(c), answer |-> [status |-> 0, entries |-> <<>>], seg |-> 0]
Fetching(c) == [c EXCEPT !.owner = Min(Free), !.loading = TRUE, !.error = FALSE]
Current(r) == r.id = chat.owner /\ chat.acked
Serve(r) ==
  /\ r \in reqs /\ r.answer.status = 0 /\ Current(r)
  /\ reqs' = (reqs \ {r}) \cup {[r EXCEPT !.answer = Fold(r.cursor), !.seg = log.seg]} /\ UNCHANGED <<log, sync, chat, left>>
Joined(r) == IF r.cursor = NoCursor \/ r.cursor.seg # r.seg THEN r.answer.entries ELSE chat.entries \o r.answer.entries
\* authoritativeContainsPending, over the rows of the response.
Confirmed(r) == {p \in chat.pending : \E i \in DOMAIN r.answer.entries : log.rows[r.answer.entries[i]] = p}
Accept(r) ==
  [chat EXCEPT !.entries = Joined(r), !.base = TRUE, !.owner = None, !.loading = FALSE, !.error = FALSE,
     !.cursor = [seg |-> r.seg, msg |-> IF r.answer.entries # <<>> THEN Last(r.answer.entries) ELSE r.cursor.msg],
     !.pending = @ \ Confirmed(r)]
Freed(r) == IF sync.batch = r.id THEN [sync EXCEPT !.batch = None] ELSE sync
Sent(c, r) == IF c.send = r.id THEN [c EXCEPT !.send = 0] ELSE c
Answered(r) ==
  /\ r \in reqs /\ (r.answer.status # 0 \/ ~Current(r))
  /\ IF Current(r) /\ r.answer.status = 409
     THEN reqs' = (reqs \ {r}) \cup {[r EXCEPT !.cursor = NoCursor, !.answer.status = 0]} /\ UNCHANGED <<sync, chat>>
     ELSE /\ reqs' = reqs \ {r} /\ sync' = Freed(r)
          /\ chat' = Sent(IF ~Current(r) THEN chat ELSE IF r.answer.status = 200 THEN Accept(r) ELSE [chat EXCEPT !.owner = None, !.loading = FALSE, !.error = TRUE], r)
  /\ UNCHANGED <<log, left>>
RequestFails(r) ==
  /\ r \in reqs /\ Current(r) /\ Spend("fails") /\ reqs' = reqs \ {r} /\ sync' = Freed(r)
  /\ chat' = Sent([chat EXCEPT !.owner = None, !.loading = FALSE, !.error = TRUE], r) /\ UNCHANGED log

-----------------------------------------------------------------------------
(* The Analyst chat: identity, lease, send *)

\* beginIdentityResolution, and the answer to it.
Resolve ==
  /\ Spend("acts") /\ chat' = [Cleared(chat) EXCEPT !.identity = "pending", !.claim = 0, !.acked = FALSE, !.pending = {}]
  /\ UNCHANGED <<log, sync, reqs>>
Resolved == /\ chat.identity = "pending" /\ chat' = [chat EXCEPT !.identity = "resolved"] /\ UNCHANGED <<log, sync, reqs, left>>
\* claimTranscriptLease; the socket acknowledges the new lease in its own time.
Cancelled(c) == [c EXCEPT !.owner = None, !.loading = FALSE]
Claim ==
  /\ Spend("acts") /\ chat.identity = "resolved"
  /\ LET k == sync.lease + 1 IN
     /\ chat' = [Cancelled(chat) EXCEPT !.claim = k, !.acked = FALSE]
     /\ sync' = [sync EXCEPT !.lease = k, !.frame = IF sync.link = "up" THEN Ack ELSE NoFrame, !.batch = None]
  /\ UNCHANGED <<log, reqs>>
Release ==
  /\ Spend("acts") /\ sync.lease # 0 /\ sync.lease = chat.claim
  /\ chat' = [Cancelled(chat) EXCEPT !.claim = 0, !.acked = FALSE]
  /\ sync' = [sync EXCEPT !.frame = NoFrame, !.batch = None] /\ UNCHANGED <<log, reqs>>
\* onFrame of another segment forgets the cursor, of the same last row is nothing.
FrameCursor(f) == IF f # Ack /\ chat.cursor.seg # 0 /\ f.seg # chat.cursor.seg THEN NoCursor ELSE chat.cursor
Idle(f) == IF chat.claim # sync.lease THEN TRUE ELSE IF f = Ack THEN FALSE
           ELSE ~chat.acked \/ (chat.cursor.seg = f.seg /\ chat.cursor.msg = f.msg)
Deliver ==
  /\ sync.frame # NoFrame /\ sync.batch = None /\ sync.link = "up" /\ Free # {}
  /\ IF Idle(sync.frame) THEN sync' = [sync EXCEPT !.frame = NoFrame] /\ UNCHANGED <<chat, reqs>>
     ELSE LET c == [chat EXCEPT !.acked = TRUE, !.cursor = FrameCursor(sync.frame)]
          IN /\ chat' = Fetching(c) /\ reqs' = reqs \cup {Request(c.cursor)}
             /\ sync' = [sync EXCEPT !.frame = NoFrame, !.batch = Min(Free)]
  /\ UNCHANGED <<log, left>>
Drop == /\ sync.link = "up" /\ Spend("drops") /\ sync' = [sync EXCEPT !.link = "down", !.frame = NoFrame, !.batch = None] /\ UNCHANGED <<log, chat, reqs>>
\* The lease is subscribed anew and acknowledged anew.
Reopen == /\ sync.link = "down" /\ sync' = [sync EXCEPT !.link = "up", !.frame = IF sync.lease = 0 THEN NoFrame ELSE Ack] /\ UNCHANGED <<log, chat, reqs, left>>

Text(n) == <<"x", "y">>[(n % 2) + 1]
SendMessage ==
  /\ Spend("sends") /\ chat.identity = "resolved" /\ chat.send = 0 /\ log.posted = "none"
  /\ chat' = [chat EXCEPT !.send = -1, !.pending = @ \cup {Text(left.sends)}]
  /\ log' = [log EXCEPT !.posted = Text(left.sends)] /\ UNCHANGED <<sync, reqs>>
Posted == /\ log.posted \in {"x", "y"} /\ log' = [Append1(log, log.posted) EXCEPT !.posted = "done"] /\ Announce(log') /\ UNCHANGED <<chat, reqs, left>>
\* The turn ended: the rows are there, fetchMessages reads them.
SendAccepted ==
  /\ chat.send = -1 /\ log.posted = "done" /\ log' = [log EXCEPT !.posted = "none"]
  /\ IF chat.acked /\ chat.claim # 0
     THEN Free # {} /\ chat' = [Fetching(chat) EXCEPT !.send = Min(Free)] /\ reqs' = reqs \cup {Request(chat.cursor)}
     ELSE chat' = [chat EXCEPT !.send = 0] /\ UNCHANGED reqs
  /\ UNCHANGED <<sync, left>>
SendRefused ==
  /\ chat.send = -1 /\ log.posted \in {"x", "y"} /\ Spend("fails")
  /\ chat' = [chat EXCEPT !.send = 0, !.pending = @ \ {log.posted}] /\ log' = [log EXCEPT !.posted = "none"] /\ UNCHANGED <<sync, reqs>>

Next ==
  \/ \E k \in {"text", "notice"} : AppendRow(k)
  \/ \E cut \in log.from..LastId : Compact(cut)
  \/ \E r \in reqs : Serve(r) \/ Answered(r) \/ RequestFails(r)
  \/ Resolve \/ Resolved \/ Claim \/ Release \/ Deliver \/ Drop \/ Reopen \/ SendMessage \/ Posted \/ SendAccepted \/ SendRefused
Fairness == WF_vars(Deliver) /\ WF_vars(Reopen) /\ WF_vars(Resolved) /\ WF_vars(Posted) /\ WF_vars(SendAccepted) /\ WF_vars(\E r \in reqs : Serve(r) \/ Answered(r))
Spec == Init /\ [][Next]_vars /\ Fairness

-----------------------------------------------------------------------------
(* Properties *)

\* The rows shown ascend without a repetition or a hole, whatever segments,
\* retries and superseded reads they were put together from; only an inherited
\* notice may stand before them.
RowsAreOneRun ==
  \A i, j \in DOMAIN chat.entries : i < j => chat.entries[i] < chat.entries[j] /\ (i > 1 => chat.entries[j] - chat.entries[i] = j - i)

\* An Analyst panel that holds an acknowledged lease, with nothing under way and
\* no error shown, shows every row of the current segment.
QuietShowsAll ==
  sync.link = "up" /\ sync.frame = NoFrame /\ chat.acked /\ chat.claim = sync.lease /\ reqs = {} /\ ~chat.error =>
    /\ chat.base /\ chat.cursor.seg = log.seg
    /\ \A i \in log.from..LastId : Contains(chat.entries, i)

\* No message is shown both as sent and as durable once its row is on screen.
NotTwice == reqs = {} /\ chat.send = 0 /\ chat.base => \A i \in DOMAIN chat.entries : log.rows[chat.entries[i]] \notin chat.pending

\* A panel that loads does not load for ever.
Loading == chat.loading
=============================================================================
