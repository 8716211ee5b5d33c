-------------------------- MODULE DiscoveryPaging ---------------------------
(* The byte-bounded answers of the discovery tools: an agent reads a listing, *)
(* a search, a catalog of versions, the tail of a log or a text page by page, *)
(* copying the position each page returns, while the project goes on          *)
(* changing.  An item is the byte positions at which the characters of its    *)
(* canonical JSON end; a page is sized by its fixed envelope, its items or    *)
(* slices and the position it returns.                                        *)
EXTENDS Integers, Sequences, FiniteSets, SequencesExt, FiniteSetsExt

CONSTANTS Stores,      \* the contents to read: sequences of items
          Surfaces,    \* the tools: "live", "search", "catalog", "tail", "text"
          Caps,        \* the budgets a reader asks for
          Envelope,    \* bytes of an answer without items
          NextBytes,   \* bytes of a position
          SliceBytes,  \* fixed bytes of a slice of an item
          MaxItems,    \* max_results of a search
          TailLength,  \* limit of a tail
          Extra,       \* an item that is added while a reader is paging
          MaxChanges   \* bound: changes while a reader is paging

DiscoveryAssumption == MaxItems \in Nat \ {0} /\ TailLength \in Nat \ {0} /\ Envelope \in Nat

VARIABLES store,    \* what there is
          surface, cap,
          pos,      \* the position the reader asks for next
          got,      \* the characters it has put together
          last,     \* the answer it got last
          exposed,  \* what that answer is on record to have shown
          reader,   \* "reading", "done", "refused"
          changes,  \* changes so far
          moved     \* a change that may move what was already read

vars == <<store, surface, cap, pos, got, last, exposed, reader, changes, moved>>

Origin == [i |-> 0, b |-> 0]
End == [i |-> -1, b |-> 0]     \* no next position
Answer(kind, size, chars, next) == [kind |-> kind, size |-> size, chars |-> chars, next |-> next]
Refusal(kind) == Answer(kind, 0, <<>>, End)

-----------------------------------------------------------------------------
(* Items *)

Bytes(item) == Last(item.ends)
Boundaries(item) == {0} \cup ToSet(item.ends)
\* The characters between two boundaries.
Chars(item, from, to) ==
  SelectSeq([k \in DOMAIN item.ends |-> <<item.id, k>>],
            LAMBDA c : item.ends[c[2]] > from /\ item.ends[c[2]] <= to)
Whole(item) == Chars(item, 0, Bytes(item))
\* Seeded fault: bytes are cut where the budget ends.
CutAnywhere(item, start, end) == end
BoundaryAtOrBefore(item, start, end) == Max({start} \cup {b \in Boundaries(item) : b >= start /\ b <= end})

-----------------------------------------------------------------------------
(* What each tool selects of the store *)

\* list_card_versions: the committed versions in the order of their numbers.
Catalog(s) == s
\* list_cards, get_tree, get_card: the cards the authority reaches.
Visible(s) == SelectSeq(s, LAMBDA x : x.seen)
\* The newest entries of a log or of a conversation segment.
Tail1(s) == IF Len(s) <= TailLength THEN s ELSE SubSeq(s, Len(s) - TailLength + 1, Len(s))
Selected == CASE surface = "catalog" -> Catalog(store)
              [] surface = "live" -> Visible(store)
              [] surface = "tail" -> Tail1(store)
              [] OTHER -> store

-----------------------------------------------------------------------------
(* packCollectionData *)

Fits(size, next) == Envelope + size + (IF next = End THEN 0 ELSE NextBytes) <= cap
Page(size, chars, next) ==
  IF Fits(size, next) THEN Answer("page", Envelope + size + (IF next = End THEN 0 ELSE NextBytes), chars, next)
  ELSE Refusal("budget")
SliceSize(n) == SliceBytes + 2 * n

\* The binary search for the longest slice that fits.
Search(item, off, size, index, first) ==
  LET found[low, high \in 0..Bytes(item)] ==
        IF low >= high THEN low
        ELSE LET mid == low + (high - low + 1) \div 2
                 end == BoundaryAtOrBefore(item, off, mid) IN
             IF Fits(size + SliceSize(end - off), [i |-> index, b |-> end]) THEN found[mid, high] ELSE found[low, mid - 1]
  IN found[first, Bytes(item) - 1]

\* searchWindow: a search keeps only the matches from the position on.
WindowEnd(total) == IF surface = "search" THEN Min({total, pos.i + MaxItems}) ELSE total
Kept(index) == surface # "search" \/ (index >= pos.i /\ index < pos.i + MaxItems)

\* The position after a completed item.
After(index, total) == IF index + 1 < total THEN [i |-> index + 1, b |-> 0] ELSE End

\* The item at the position: whole where it fits, else what is left of it as
\* one slice, else the longest slice, which ends the page.
Leads(coll) ==
  LET item == coll[pos.i + 1]
      n == Bytes(item)
      next == After(pos.i, Len(coll)) IN
  IF pos.b # 0 /\ (pos.b >= n \/ pos.b \notin Boundaries(item)) THEN Refusal("position")
  ELSE IF pos.b = 0 /\ Fits(n, next) THEN Answer("item", n, Whole(item), next)
  ELSE IF Fits(SliceSize(n - pos.b), next) THEN Answer("item", SliceSize(n - pos.b), Chars(item, pos.b, n), next)
  ELSE LET first == Min({b \in Boundaries(item) : b > pos.b}) IN
       IF first >= n \/ ~Fits(SliceSize(first - pos.b), [i |-> pos.i, b |-> first]) THEN Refusal("budget")
       ELSE LET end == BoundaryAtOrBefore(item, pos.b, Search(item, pos.b, 0, pos.i, first)) IN
            Page(SliceSize(end - pos.b), Chars(item, pos.b, end), [i |-> pos.i, b |-> end])
\* The items after it, whole, while they fit and the window lasts.
Follows(coll, lead) ==
  LET fill[k \in pos.i + 1..Len(coll), size \in 0..cap] ==
        IF k = WindowEnd(Len(coll)) THEN [k |-> k, size |-> size]
        ELSE IF Kept(k) /\ Fits(size + Bytes(coll[k + 1]), After(k, Len(coll))) THEN fill[k + 1, size + Bytes(coll[k + 1])]
        ELSE [k |-> k, size |-> size]
      stop == fill[pos.i + 1, lead.size]
      more == FlattenSeq([j \in 1..(stop.k - pos.i - 1) |-> Whole(coll[pos.i + 1 + j])])
  IN IF stop.k < WindowEnd(Len(coll)) /\ ~Kept(stop.k) THEN Refusal("missing")
     ELSE Page(stop.size, lead.chars \o more, After(stop.k - 1, Len(coll)))

PackCollection(coll) ==
  IF pos.i >= Len(coll) THEN IF pos.b # 0 THEN Refusal("position") ELSE Page(0, <<>>, End)
  ELSE LET lead == Leads(coll) IN IF lead.kind = "item" THEN Follows(coll, lead) ELSE lead

-----------------------------------------------------------------------------
(* packTextSliceData *)

TextFits(n) == Envelope + n <= cap
SearchText(text, off) ==
  LET found[low, high \in 0..Bytes(text)] ==
        IF low >= high THEN low
        ELSE LET mid == low + (high - low + 1) \div 2 IN
             IF TextFits(BoundaryAtOrBefore(text, off, off + mid) - off) THEN found[mid, high] ELSE found[low, mid - 1]
  IN found[0, Bytes(text) - off]
\* The longest slice from the offset on.  An answer that holds nothing but its
\* envelope is an answer too.
PackText(text) ==
  LET total == Bytes(text)
      off == Min({pos.b, total}) IN
  IF ~TextFits(0) THEN Refusal("budget")
  ELSE LET end == BoundaryAtOrBefore(text, off, off + SearchText(text, off)) IN
       Answer("page", Envelope + end - off, Chars(text, off, end), IF end < total THEN [i |-> 0, b |-> end] ELSE End)

\* A file that is too large is described and not read; a binary one is refused.
PackFile(text) ==
  CASE text.form = "large" -> Refusal("large") [] text.form = "binary" -> Refusal("binary") [] OTHER -> PackText(text)
\* What is kept on record of the exposure of a document by a page of it.
Exposure(a) == IF pos.b = 0 /\ a.size = Envelope + Bytes(store[1]) THEN "full" ELSE "slice"

-----------------------------------------------------------------------------
Init ==
  /\ store \in Stores /\ surface \in Surfaces /\ cap \in Caps
  /\ (surface = "text") => Len(store) = 1
  /\ pos = Origin /\ got = <<>> /\ last = Refusal("none") /\ exposed = "none" /\ reader = "reading" /\ changes = 0 /\ moved = FALSE

\* One call of the tool with the position of the previous answer.
Read ==
  /\ reader = "reading"
  /\ \E a \in {IF surface = "text" THEN PackFile(store[1]) ELSE PackCollection(Selected)} :
       /\ last' = a
       /\ got' = got \o a.chars
       /\ exposed' = IF surface = "text" /\ a.kind = "page" THEN Exposure(a) ELSE "none"
       /\ IF a.kind # "page" THEN reader' = "refused" /\ UNCHANGED pos
          ELSE IF a.next = End THEN reader' = "done" /\ UNCHANGED pos
          ELSE reader' = "reading" /\ pos' = a.next
  /\ UNCHANGED <<store, surface, cap, changes, moved>>

\* The project appends to what is being read.
Grow ==
  /\ reader = "reading" /\ changes < MaxChanges /\ surface # "text"
  /\ store' = Append(store, Extra) /\ changes' = changes + 1
  /\ moved' = (moved \/ (surface = "tail" /\ Len(store) >= TailLength))
  /\ UNCHANGED <<surface, cap, pos, got, last, exposed, reader>>
\* The project takes something away: a card is deleted, a file replaced.
Shrink ==
  /\ reader = "reading" /\ changes < MaxChanges /\ surface \in {"live", "search"}
  /\ \E k \in DOMAIN store : store' = RemoveAt(store, k)
  /\ changes' = changes + 1 /\ moved' = TRUE
  /\ UNCHANGED <<surface, cap, pos, got, last, exposed, reader>>
Rest == reader # "reading" /\ UNCHANGED vars

Next == Read \/ Grow \/ Shrink \/ Rest
\* A reader that gets a next position goes on with it.
Spec == Init /\ [][Next]_vars /\ WF_vars(Read)

-----------------------------------------------------------------------------
\* Over input that is stable, or only grows at its end, the pages put together
\* are the whole of it, each character once and in order, whatever the budget
\* made of items and slices.
PagesAreWhole ==
  (reader = "done" /\ ~moved) =>
    got = (IF surface = "text" THEN Whole(store[1]) ELSE FlattenSeq([k \in DOMAIN Selected |-> Whole(Selected[k])]))

\* No answer is larger than the budget asked for.
WithinBudget == last.size <= cap

\* A position the tool itself gave out is accepted over stable input, and the
\* packer never runs out of its window.
PositionsHold == (last.kind \in {"position", "missing"}) => (moved /\ last.kind = "position")

\* A document is on record as shown in full only where one page held all of it.
ExposureIsTrue == (exposed = "full") => last.chars = Whole(store[1])

\* A page that is not the last moves the reader on, so that paging ends.
Advances ==
     (surface # "text" /\ reader = "reading" /\ reader' = "reading" /\ last' # last)
       => (pos'.i > pos.i \/ (pos'.i = pos.i /\ pos'.b > pos.b))

\* A slice is as long as the budget allows: nothing shorter is handed out.
SlicesAreLongest ==
     \A k \in DOMAIN Selected :
       (surface # "text" /\ reader = "reading" /\ pos'.b # 0 /\ pos'.i = k - 1 /\ pos' # pos) =>
         \A b \in Boundaries(Selected[k]) :
           (b > pos'.b /\ b < Bytes(Selected[k])) =>
             ~Fits(SliceSize(b - (IF pos.i = k - 1 THEN pos.b ELSE 0)), [i |-> k - 1, b |-> b])

\* A collection is read to its end or refused for its budget.
Paging == surface # "text" /\ reader = "reading"

=============================================================================
