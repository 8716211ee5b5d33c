-------------------------- MODULE WorkflowCompiler --------------------------
(* The compiler of configured workflows (card-process-config) and a walk       *)
(* through what it accepts: whatever source passes its checks yields a state   *)
(* table in which no activation is stuck, DONE never passes over a            *)
(* notification, and the reserved correction node is entered natively only.    *)
EXTENDS Integers, FiniteSets

CONSTANT Sources \* the configurations a run compiles

Entries == {"STOPPED", "BACKLOG"}   \* ENTRY_PORTS, the other ports like BACKLOG
Terminals == {"DONE", "BLOCKED", "FAILED"}
Reserved == "git-rebase-correction"
NoNode == "none"
\* A source: recipient and agents (session, write, edit and child tools, capacity of
\* its models), records of the card type with its bootstraps, nodes (executor, record
\* requirements, output record), entries, permitted child types with their records,
\* git policy.
Requirement(name, mode, gate) == [name |-> name, mode |-> mode, gate |-> gate]
Edge(to, pend, promote, exports) == [to |-> to, pend |-> pend, promote |-> promote, exports |-> exports]
To(n) == Edge(n, NoNode, "current", {})

VARIABLES src, stage, \* git, inputs, topology, search, closure, bind, ready, then at, ended or fault; refused
          reach, live, \* sets the topology check has built
          at, arrived, saved, \* walk: position (a node or terminal), how it got there, entry saved
          waiting,     \* a notification is queued
          below,       \* type of the deepest descendant
          have         \* records of the card with accepted, authored content
vars == <<src, stage, reach, live, at, arrived, saved, waiting, below, have>>

Nodes == DOMAIN src.nodes
Agent(n) == src.nodes[n].agent
IsAction(n) == Agent(n) \in {"action", "producer"} \* a producer's operation declares output
Required(n) == src.nodes[n].records
Writes(n) == ~IsAction(n) /\ src.agents[Agent(n)].write
Recipient(n) == Agent(n) = src.recipient
Edges(n) == src.nodes[n].edges
InCorrection == src.git /\ at = Reserved
IsTerminal(t) == t \in Terminals

Init == /\ src \in Sources /\ stage = "git" /\ reach = {} /\ live = {} /\ at = NoNode /\ arrived = "none" /\ saved = "BACKLOG"
        /\ waiting = FALSE /\ below = "project" /\ have = {}

-----------------------------------------------------------------------------
(* compileCardTypeInputs *)

CardSession(a) == a \in DOMAIN src.agents /\ src.agents[a].session = "card"
ChildrenValid(t) == \A c \in src.types[t].children : c # "project" /\ c \in DOMAIN src.types
RecordsValid == Cardinality(src.bootstrap) = 1 /\ src.bootstrap \subseteq src.types["project"].records
\* An agent needs a write or edit tool for each record it must deliver, and the write
\* tool where the record starts empty or must change; an action reads accepted ones
\* and writes its output record.
RequirementValid(n, q) ==
  IF IsAction(n) THEN q.name = src.nodes[n].output \/ (q.mode = "continue" /\ q.gate = "exists")
  ELSE /\ Writes(n) \/ src.agents[Agent(n)].edit
       /\ q.mode = "clean" \/ q.gate = "updated" => Writes(n)
OutputValid(n) ==
  LET out == src.nodes[n].output
  IN out # NoNode => /\ Agent(n) = "producer" /\ out \in src.types["project"].records \ src.bootstrap
                     /\ Requirement(out, "continue", "updated") \in Required(n)
RequirementsValid(n) == OutputValid(n) /\ \A q \in Required(n) : RequirementValid(n, q)
ExecutionValid(n) == IsAction(n) \/ CardSession(Agent(n))
\* An edge to a node has no alternative; an export is a requirement of its source.
EdgeInputsValid(n, e) == IF IsTerminal(e.to) THEN e.exports \subseteq {q.name : q \in Required(n)} ELSE e.pend = NoNode
InputsValid ==
  /\ CardSession(src.recipient) /\ (\A t \in DOMAIN src.types : ChildrenValid(t)) /\ RecordsValid /\ Nodes # {}
  /\ \A n \in Nodes : /\ ExecutionValid(n) /\ Edges(n) # {} /\ (ExecutionValid(n) => RequirementsValid(n))
                      /\ \A e \in Edges(n) : EdgeInputsValid(n, e)
                      /\ src.nodes[n].context \subseteq src.types["project"].records

-----------------------------------------------------------------------------
(* compileGitWorkflowPolicy *)

GitEdgesValid == Reserved \notin Nodes /\ \A n \in Nodes : \A e \in Edges(n) : Reserved \notin {e.to, e.pend, e.promote}
GitValid ==
  src.git => /\ CardSession(src.correction) /\ ~src.agents[src.correction].children /\ src.agents[src.correction].write
             /\ GitEdgesValid /\ \A p \in Entries : src.entry[p] # Reserved

-----------------------------------------------------------------------------
(* validateCardTypeTopology *)

Targets(n) == {e.to : e \in Edges(n)} \cup {e.pend : e \in Edges(n)}
TargetsExist == \A n \in Nodes : \A e \in Edges(n) : e.to \in Nodes \cup Terminals /\ e.pend \in Nodes \cup {NoNode}
\* Exactly the DONE edges of other agents declare where queued notifications go.
AlternativesValid ==
  \A n \in Nodes : \A e \in Edges(n) :
    /\ e.pend # NoNode <=> e.to = "DONE" /\ ~Recipient(n)
    /\ e.pend # NoNode => Recipient(e.pend)
EntriesValid == (\A p \in Entries : src.entry[p] \in Nodes) /\ Recipient(src.entry["STOPPED"])
LocalValid == (\E n \in Nodes : Recipient(n)) /\ TargetsExist /\ AlternativesValid /\ EntriesValid
\* The two searches, one round at a time: visit from the entries, and back from
\* the terminal edges until nothing changes.
Visited(s) == s \cup UNION {Targets(n) \cap Nodes : n \in s}
\* Seeded fault: a node that reaches itself counts as live.
LeadingLoop(s) == s \cup {n \in Nodes : Targets(n) \cap (s \cup {n}) # {}}
Leading(s) == s \cup {n \in Nodes : Targets(n) \cap s # {}}
PathRound == reach' = Visited(reach) /\ live' = Leading(live)
RECURSIVE From(_)
From(s) == IF Visited(s) = s THEN s ELSE From(Visited(s))
PromotionsValid == \A n \in Nodes : \A e \in Edges(n) : e.promote = "current" \/ (e.promote \in Nodes /\ n \in From({e.promote}))
ExactlyReached == reach = Nodes /\ live = Nodes

\* validateDescendantContextClosure
Kids(s) == s \cup UNION {src.types[t].children : t \in s}
RECURSIVE KidsOf(_)
KidsOf(s) == IF Kids(s) = s THEN s ELSE KidsOf(Kids(s))
ClosureValid == \A n \in Nodes, t \in KidsOf(src.types["project"].children) : src.nodes[n].context \subseteq src.types[t].records

\* bindRuntimeWorkflows: every agent a state of the table runs has capacity.
Participants == {Agent(n) : n \in {m \in Nodes : ~IsAction(m)}} \cup (IF src.git THEN {src.correction} ELSE {})
BindValid == \A a \in Participants : src.agents[a].capacity > 0

Stay == UNCHANGED <<src, at, arrived, saved, waiting, below, have>>
Step(from, ok, to) == stage = from /\ stage' = (IF ok THEN to ELSE "refused") /\ Stay
CompileGit == Step("git", GitValid, "inputs") /\ UNCHANGED <<reach, live>>
CompileInputs == Step("inputs", InputsValid, "topology") /\ UNCHANGED <<reach, live>>
ValidateLocal ==
  /\ Step("topology", LocalValid, "search")
  /\ reach' = {src.entry[p] : p \in Entries} /\ live' = {n \in Nodes : \E e \in Edges(n) : IsTerminal(e.to)}
Search == /\ stage = "search" /\ PathRound /\ Stay
          /\ stage' = IF reach' # reach \/ live' # live THEN "search" ELSE IF ExactlyReached /\ PromotionsValid THEN "closure" ELSE "refused"
ValidateClosure == Step("closure", ClosureValid, "bind") /\ UNCHANGED <<reach, live>>
Bind == Step("bind", BindValid, "ready") /\ UNCHANGED <<reach, live>>

-----------------------------------------------------------------------------
(* buildCardTypeStateTable, walked as the card process does *)

Walk == UNCHANGED <<src, reach, live, have>>
Activate(p) == /\ stage = "ready" /\ stage' = "at" /\ at' = src.entry[p] /\ arrived' = "entry" /\ saved' = p /\ Walk /\ UNCHANGED <<waiting, below>>
ActivateCorrection(p) == /\ stage = "ready" /\ src.git /\ stage' = "at" /\ at' = Reserved /\ arrived' = "native" /\ saved' = p /\ Walk /\ UNCHANGED <<waiting, below>>
Notified == /\ stage = "at" /\ ~waiting /\ waiting' = TRUE /\ Walk /\ UNCHANGED <<stage, at, arrived, saved, below>>
\* notification:interrupt re-enters at the STOPPED entry's node.
Interrupt == /\ stage = "at" /\ ~InCorrection /\ waiting /\ ~Recipient(at) /\ at' = src.entry["STOPPED"] /\ arrived' = "interrupt" /\ Walk /\ UNCHANGED <<stage, saved, waiting, below>>
Deliver == /\ stage = "at" /\ ~InCorrection /\ waiting /\ Recipient(at) /\ waiting' = FALSE /\ Walk /\ UNCHANGED <<stage, at, arrived, saved, below>>
\* The gate of a requirement can hold: the executor writes the record, or its accepted
\* content serves; an edit needs content to change.
Met(n, q) ==
  IF IsAction(n) THEN q.name = src.nodes[n].output \/ q.name \in have
  ELSE Writes(n) \/ (q.mode = "continue" /\ q.name \in have /\ (q.gate = "exists" \/ src.agents[Agent(n)].edit))
CanAccept(n) == \A q \in Required(n) : Met(n, q)
Result(e) ==
  /\ stage = "at" /\ ~InCorrection /\ e \in Edges(at) /\ CanAccept(at) /\ (Recipient(at) => ~waiting)
  /\ LET to == IF e.to = "DONE" /\ waiting THEN e.pend ELSE e.to
     IN at' = to /\ stage' = IF to = NoNode THEN "fault" ELSE IF IsTerminal(to) THEN "ended" ELSE "at"
  /\ arrived' = "result" /\ have' = have \cup {q.name : q \in Required(at)} /\ UNCHANGED <<src, reach, live, saved, waiting, below>>
\* Content accepted for another: the analyst's record tools, or a record no node requires.
Author(r) == /\ stage = "at" /\ have' = have \cup {r} /\ UNCHANGED <<src, stage, reach, live, at, arrived, saved, waiting, below>>
ExecutionFails(t) == /\ stage = "at" /\ t \in {"FAILED", "BLOCKED"} /\ at' = t /\ stage' = "ended" /\ arrived' = "runtime" /\ Walk /\ UNCHANGED <<saved, waiting, below>>
Correction == /\ stage = "at" /\ src.git /\ at' = Reserved /\ arrived' = "native" /\ Walk /\ UNCHANGED <<stage, saved, waiting, below>>
Verified == /\ stage = "at" /\ InCorrection /\ at' = src.entry[saved] /\ arrived' = "verified" /\ Walk /\ UNCHANGED <<stage, saved, waiting, below>>
\* An activation creates a child of a permitted type, which does so in turn.
Create(t) == /\ stage = "at" /\ t \in src.types[below].children /\ below' = t /\ Walk /\ UNCHANGED <<stage, at, arrived, saved, waiting>>
Over == stage \in {"refused", "ended", "fault"} /\ UNCHANGED vars

Next ==
  \/ CompileGit \/ CompileInputs \/ ValidateLocal \/ Search \/ ValidateClosure \/ Bind
  \/ \E p \in Entries : Activate(p) \/ ActivateCorrection(p)
  \/ Notified \/ Interrupt \/ Deliver \/ Correction \/ Verified
  \/ \E t \in Terminals : ExecutionFails(t)
  \/ (stage = "at" /\ ~InCorrection) /\ \E e \in Edges(at) : Result(e)
  \/ \E t \in DOMAIN src.types : Create(t)
  \/ \E r \in src.types["project"].records : Author(r)
  \/ Over
Spec == Init /\ [][Next]_vars

-----------------------------------------------------------------------------
(* Properties *)

Runs(n) == IF src.git /\ n = Reserved THEN src.correction ELSE Agent(n)
\* Every position an activation can reach is a compiled state with an executor
\* the startup bound to a model with capacity.
EveryStateRuns ==
  stage = "at" => at \in Nodes \cup (IF src.git THEN {Reserved} ELSE {}) /\ ((at \in Nodes /\ IsAction(at)) \/ src.agents[Runs(at)].capacity > 0)

\* From wherever an activation is, accepted results alone can lead it to a
\* terminal: no loop without a way out, no node whose gate its executor cannot meet.
\* The compiler lets one such gate through: a record that must exist, is absent, and
\* whose executor, an action or an agent with the edit tool only, cannot create it.
Finishing[k \in 0..3] == IF k = 0 THEN {n \in Nodes : CanAccept(n) /\ \E e \in Edges(n) : IsTerminal(e.to)}
                         ELSE Finishing[k - 1] \cup {n \in Nodes : CanAccept(n) /\ \E e \in Edges(n) : e.to \in Finishing[k - 1] \/ e.pend \in Finishing[k - 1]}
Lacking(n) == \E q \in Required(n) : q.gate = "exists" /\ q.name \notin have /\ ~Writes(n)
NeverStuck == stage = "at" /\ at \in Nodes => at \in Finishing[3] \/ \E n \in From({at}) : Lacking(n)

\* A card is DONE over no notification that is still queued, and no accepted
\* result faults for want of a node to take it to.
DoneIsTold == stage # "fault" /\ (stage = "ended" /\ at = "DONE" => ~waiting)

\* The correction node is entered by the native event alone, and its outcome
\* is never DONE.
CorrectionIsNative == stage = "at" /\ InCorrection => arrived = "native"

\* A record shown of the descendants is declared by every type that can come
\* about below the card.
ContextDeclared == stage = "at" /\ below # "project" => \A n \in Nodes : src.nodes[n].context \subseteq src.types[below].records
=============================================================================
