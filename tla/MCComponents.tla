------------------------------- MODULE MCComponents -------------------------
(* The components that are checked one by one, each as an instance of its     *)
(* module with small constants.  A behaviour starts one of the instances in   *)
(* Parts and runs it alone: the state space of a run is the union of theirs.  *)
(* The variables of the instance that runs are the first of v1..v16; its      *)
(* invariants and step properties are stated under the name of the part.      *)
EXTENDS Integers, Sequences, FiniteSets, SequencesExt

CONSTANT Parts   \* the parts a run starts

VARIABLES part,   \* the instance that runs in this behaviour
          v1, v2, v3, v4, v5, v6, v7, v8, v9, v10, v11, v12, v13, v14, v15, v16   \* its variables
all == <<part, v1, v2, v3, v4, v5, v6, v7, v8, v9, v10, v11, v12, v13, v14, v15, v16>>

-----------------------------------------------------------------------------
(* Values of the constants *)

\* LifecycleLock: three incarnations over two PIDs, the third reuses the first one's.
PidOfProcess == [p1 |-> "x", p2 |-> "y", p3 |-> "x"]

\* CardProjections: two siblings, and a line of three cards.
Siblings == [a |-> "project", b |-> "project"]
Line == [a |-> "project", b |-> "a"]

\* CardAlgorithms: project with the child goal, goal with the children task and task2.
TreeCards == {"project", "goal", "task", "task2"}
TreeParent == [project |-> "none", goal |-> "project", task |-> "goal", task2 |-> "goal"]
TreeAnc == [project |-> {}, goal |-> {"project"}, task |-> {"project", "goal"}, task2 |-> {"project", "goal"}]

\* DiscoveryPaging: items of one to five characters of one to four bytes.
Item(id, ends, seen) == [id |-> id, ends |-> ends, seen |-> seen, form |-> "plain"]
ItemA == Item(1, <<2, 3, 6>>, TRUE)
ItemB == Item(2, <<1>>, TRUE)
ItemC == Item(3, <<3, 6, 7, 9>>, TRUE)
ItemD == Item(4, <<1, 3>>, FALSE)
ItemE == Item(6, <<1, 3, 4, 8, 11>>, TRUE)
PagedStores == {<<[ItemA EXCEPT !.form = "large"]>>, <<[ItemA EXCEPT !.form = "binary"]>>, <<ItemE, ItemB>>, <<ItemA>>, <<ItemC>>,
                <<ItemB, ItemA>>, <<ItemA, ItemD, ItemC>>, <<ItemB, ItemC, ItemB, ItemA>>, <<ItemC, ItemC, ItemB>>}

\* ProviderRequest: streams that finish, fail, break off, announce a call twice or
\* never end, refusals of every kind, and credentials that have run out.
KeyConfig == [accountProfile |-> FALSE, providerProfile |-> FALSE, accountKey |-> TRUE, providerKey |-> FALSE, matches |-> 0, codex |-> TRUE]
SharedConfig == [KeyConfig EXCEPT !.accountKey = FALSE, !.providerProfile = TRUE]
KeyConfigs == {KeyConfig} \cup {[KeyConfig EXCEPT !.accountKey = FALSE, !.matches = n] : n \in 0..2}
Ran == [access |-> -1, refresh |-> 9, expired |-> TRUE, there |-> TRUE]
RanProfiles == {Ran, [Ran EXCEPT !.refresh = 0]}
GoodProfiles == {[Ran EXCEPT !.expired = FALSE], [access |-> 0, refresh |-> 0, expired |-> FALSE, there |-> FALSE]}
Evidence(status, embedded, tokens) == [status |-> status, embedded |-> embedded, tokens |-> tokens, retry |-> FALSE]
NoEvidence == Evidence(0, 0, {})
Ev(is) == [is |-> is, id |-> 0, args |-> 0, evidence |-> NoEvidence]
CallEv(is, id) == [Ev(is) EXCEPT !.id = id]
Broken(e) == [Ev("failed") EXCEPT !.evidence = e]
Script(protocol, status, evidence, events) == [protocol |-> protocol, status |-> status, evidence |-> evidence, events |-> events]
Stream(events) == Script("codex", 200, NoEvidence, events)
Denied(protocol, e) == Script(protocol, e.status, e, <<Ev("bytes"), Ev("eof")>>)
RaceScripts == {Stream(<<Ev("message"), Ev("completed")>>), Denied("codex", Evidence(401, 0, {}))}
ManyScripts ==
  {Stream(<<CallEv("added", 1), CallEv("delta", 1), CallEv("added", 2), CallEv("delta", 1), CallEv("argsdone", 1), CallEv("delta", 2), CallEv("itemdone", 1), CallEv("itemdone", 2), Ev("completed")>>),
   Stream(<<CallEv("itemdone", 1), Ev("message"), Ev("completed")>>),
   Stream(<<CallEv("delta", 1)>>), Stream(<<Ev("completed")>>), Stream(<<Ev("message"), Ev("eof")>>),
   Stream(<<Ev("bytes"), Ev("comment")>>), Stream(<<>>), Script("chat", 200, NoEvidence, <<Ev("comment")>>),
   Script("chat", 200, NoEvidence, <<Ev("bytes"), Ev("completed")>>), Script("responses", 200, NoEvidence, <<Ev("bytes"), Ev("eof")>>),
   Script("chat", 200, NoEvidence, <<Ev("filtered")>>)}
  \cup {Stream(<<Broken(e)>>) : e \in {Evidence(200, m, t) : m \in {0, 401, 429, 503}, t \in {{}, {"overload"}, {"overload", "auth"}, {"context"}, {"context", "content"}, {"prompt"}}}}
  \cup {Script("responses", 200, NoEvidence, <<Broken(Evidence(200, 0, t))>>) : t \in {{"incomplete"}, {"incomplete", "length"}, {"cancelled"}, {"rate"}, {}}}
  \cup {Denied("chat", Evidence(s, 0, t)) : s \in {400, 401, 403, 429, 503}, t \in {{}, {"overload"}, {"auth", "overload"}, {"context"}, {"content"}}}

\* WebTools: chains of redirects, bodies that end at, before and after the limit or
\* never, and texts of one to four characters with redacted spans.
Char == [raw |-> 1, dec |-> 1, out |-> 1, cost |-> 1]
Wide == [raw |-> 2, dec |-> 2, out |-> 2, cost |-> 2]
Quote == [Char EXCEPT !.cost = 3]
Replaced == [Char EXCEPT !.dec = 3, !.out = 3, !.cost = 3]
PublicHost == {<<4, 172, 32>>, <<4, 223, 255>>, <<6, "2001:">>}
GoodPage == [answers |-> {{<<4, 172, 32>>}}, to |-> 0, ok |-> TRUE, text |-> TRUE, chunks |-> <<>>, endless |-> FALSE,
             chars |-> <<>>, spans |-> {}, unstable |-> 99]
PageOf(chars, chunks) == [GoodPage EXCEPT !.chars = chars, !.chunks = chunks]
Hop(to) == [GoodPage EXCEPT !.to = to]
FourChars == <<Char, Wide, Quote, Char>>
LastPages == {PageOf(FourChars, <<3, 2>>), [PageOf(FourChars, <<5>>) EXCEPT !.ok = FALSE], [PageOf(FourChars, <<2, 3>>) EXCEPT !.text = FALSE],
              [PageOf(<<Char>>, <<1>>) EXCEPT !.endless = TRUE], [GoodPage EXCEPT !.answers = {{}}], [GoodPage EXCEPT !.to = -1]}
PrivateHosts == {{<<4, 172, 31>>, <<4, 8, 8>>}, {<<4, 172, 16>>}, {<<4, 169, 254>>}, {<<4, 192, 168>>}, {<<4, 224, 0>>}, {<<4, 127, 0>>}, {<<6, "fc">>}, {<<0>>}}
HiddenPages == {[GoodPage EXCEPT !.answers = {h}] : h \in PrivateHosts \cup {PublicHost}} \cup {[GoodPage EXCEPT !.answers = {PublicHost, {<<4, 10, 1>>}}]}
ChainWebs == {<<Hop(2), b, PageOf(FourChars, <<3, 2>>)>> : b \in HiddenPages} \cup
  {<<a, b, c>> : a \in {Hop(2)} \cup LastPages, b \in {Hop(3)} \cup LastPages, c \in {Hop(1), PageOf(FourChars, <<3, 2>>)}}
Fetch == [tool |-> "webfetch", valid |-> TRUE, url |-> 1, metadata |-> FALSE, save |-> "none", granted |-> TRUE, mode |-> "auto", max |-> 5, inline |-> 5]
ChainCalls == {Fetch, [Fetch EXCEPT !.tool = "websearch"], [Fetch EXCEPT !.metadata = TRUE], [Fetch EXCEPT !.metadata = TRUE, !.save = "file"],
               [Fetch EXCEPT !.save = "file", !.max = 4], [Fetch EXCEPT !.save = "record"], [Fetch EXCEPT !.save = "file", !.granted = FALSE],
               [Fetch EXCEPT !.tool = "record", !.save = "record"], [Fetch EXCEPT !.tool = "record", !.save = "record", !.valid = FALSE]}
Texts == UNION {[1 .. n -> {Char, Wide, Quote, Replaced}] : n \in 0 .. 3} \cup [1 .. 4 -> {Char, Quote}]
Marks == {{}, {<<0, 2>>}, {<<0, 2>>, <<1, 4>>}, {<<0, 1>>, <<2, 4>>}}
RawSize(t) == FoldSeq(LAMBDA c, n : c.raw + n, 0, t)
TextWebs == {<<[PageOf(t, <<RawSize(t)>>) EXCEPT !.spans = m, !.unstable = u]>> : t \in Texts, m \in Marks, u \in {1, 99}}
TextCalls == {[Fetch EXCEPT !.max = m, !.inline = i] : m \in {5, 20}, i \in {1, 3, 20}}

\* WorkGc: two files of a card's directory, one of a card that is gone, and a process
\* log, with a reference by path, one by an alias of a directory and one with a pattern.
WorkFiles == {"a", "b", "log"}
WorkDir == [a |-> "tmp", b |-> "tmp", log |-> "proc"]
WorkOwner == [a |-> "c", b |-> "deleted", log |-> "none"]
WorkRefs == {"path", "alias", "glob"}
WorkNames == [path |-> {"a"}, alias |-> {}, glob |-> {}]
WorkResolves == [path |-> {}, alias |-> {"tmp"}, glob |-> {}]

\* WorkflowCompiler: every graph over two nodes, and one graph under every choice of
\* records, capabilities, types and git policy.
Edge(to, pend, promote, exports) == [to |-> to, pend |-> pend, promote |-> promote, exports |-> exports]
EdgeTo(n) == Edge(n, "none", "current", {})
AgentOf(write, children, capacity) == [session |-> "card", write |-> write, edit |-> TRUE, children |-> children, capacity |-> capacity]
NodeOf(agent, records, context, edges) == [agent |-> agent, records |-> records, output |-> "none", context |-> context, edges |-> edges]
Review(mode, gate) == [name |-> "review", mode |-> mode, gate |-> gate]
GraphEdges == {EdgeTo("a"), EdgeTo("b"), EdgeTo("missing"), Edge("BLOCKED", "none", "current", {})}
  \cup {Edge("DONE", p, q, {}) : p \in {"none", "a"}, q \in {"current", "a"}}
GraphNodes == {NodeOf(k, {}, {}, {e, f}) : k \in {"planner", "executor", "action"}, e \in GraphEdges, f \in GraphEdges}
GraphSources ==
  {[recipient |-> "planner", agents |-> [a \in {"planner", "executor"} |-> AgentOf(TRUE, FALSE, 1)], bootstrap |-> {"status"},
    types |-> [t \in {"project"} |-> [children |-> {}, records |-> {"status"}]], nodes |-> [a |-> x, b |-> y],
    entry |-> [STOPPED |-> s, BACKLOG |-> "b"], git |-> FALSE, correction |-> "executor"] : x \in GraphNodes, y \in GraphNodes, s \in {"a", "b"}}
Correction == "git-rebase-correction"
PolicySources ==
  {[recipient |-> "planner", bootstrap |-> b, entry |-> [STOPPED |-> "a", BACKLOG |-> "b"], git |-> g, correction |-> "fixer",
    agents |-> [planner |-> AgentOf(TRUE, TRUE, 1), executor |-> AgentOf(w, FALSE, 1), fixer |-> AgentOf(TRUE, ch, c),
                analyst |-> [AgentOf(TRUE, FALSE, 1) EXCEPT !.session = "global"]],
    types |-> [project |-> [children |-> {"goal"}, records |-> {"status", "review"}], goal |-> [children |-> {"task"} \cup k, records |-> {"status", "review"}],
               task |-> [children |-> {}, records |-> r]],
    nodes |-> [n \in {"a", "b"} \cup ({t} \ {"a"}) |->
                 CASE n = "a" -> NodeOf("planner", {}, {"review"}, {Edge("DONE", "none", "current", {}), EdgeTo("b")})
                   [] n = "b" -> NodeOf(x, u, {}, {EdgeTo(t), Edge("BLOCKED", "none", "current", o)})
                   [] OTHER -> NodeOf("executor", {}, {}, {EdgeTo("a")})]] :
     b \in {{"status"}, {"status", "review"}}, g \in BOOLEAN, w \in BOOLEAN, ch \in BOOLEAN, c \in 0..1, k \in {{}, {"project"}},
     r \in {{"status"}, {"status", "review"}}, u \in {{}, {Review("clean", "updated")}}, o \in {{}, {"review"}}, t \in {"a", Correction}, x \in {"executor", "analyst"}}

\* One graph under every requirement of a record, met by agents and actions of every power.
RecordSources ==
  {[recipient |-> "planner", bootstrap |-> {"status"}, entry |-> [STOPPED |-> "a", BACKLOG |-> "b"], git |-> FALSE, correction |-> "executor",
    agents |-> [planner |-> AgentOf(p, FALSE, 1), executor |-> [AgentOf(w, FALSE, 1) EXCEPT !.edit = d]],
    types |-> [project |-> [children |-> {}, records |-> {"status", "review"}]],
    nodes |-> [a |-> NodeOf("planner", {Review("continue", h)}, {}, {Edge("DONE", "none", "current", {"review"}), EdgeTo("b")}),
               b |-> [NodeOf(x, {Review(m, g)}, {}, {EdgeTo("a"), Edge("BLOCKED", "none", "b", {"review"})}) EXCEPT !.output = o]]] :
     p \in BOOLEAN, w \in BOOLEAN, d \in BOOLEAN, h \in {"exists", "updated"}, x \in {"executor", "action", "producer"},
     m \in {"clean", "continue"}, g \in {"exists", "updated"}, o \in {"none", "review", "status"}}

\* WorkspaceTools: an ordinary directory with a generated one inside, a skipped one, a
\* credential, links, Saivage's own directory (the name 0), and a directory outside.
Dirs == {<<>>, <<1>>, <<1, 0>>, <<1, 0, 1>>, <<1, 0, 1, 1>>, <<1, 0, 1, 2>>, <<1, 2>>, <<1, 2, 2>>, <<1, 4>>, <<2>>}
PlainFiles == {<<1, 0, 1, 2, 1>>, <<1, 0, 2>>, <<1, 2, 1>>, <<1, 2, 2, 1>>, <<1, 2, 3>>, <<1, 3>>, <<1, 4, 1>>, <<1, 7>>, <<2, 1>>}
AbsentPaths == {<<1, 0, 1, 1, 1>>, <<1, 6>>, <<1, 6, 1>>, <<1, 3, 1>>}
LinkTo == [p \in {<<1, 5>>, <<2, 5>>} |-> <<1, 2>>] @@ [p \in {<<1, 10>>, <<1, 0, 1, 1, 2>>, <<2, 6>>} |-> <<1, 0>>] @@ (<<1, 8>> :> <<2>> @@ <<1, 9>> :> <<1, 7>>)
AllPaths == Dirs \cup PlainFiles \cup AbsentPaths \cup DOMAIN LinkTo
FirstKinds == {[p \in AllPaths |-> IF p \in Dirs THEN "dir" ELSE IF p \in PlainFiles THEN "file" ELSE IF p \in AbsentPaths THEN "none" ELSE "link"]}
RecordPaths == {<<5, 1>>, <<5, 2>>, <<5, 2, 1>>}
IgnorePolicies == {[bad |-> FALSE, dirs |-> {}], [bad |-> FALSE, dirs |-> {<<2, 2>>}], [bad |-> TRUE, dirs |-> {}]}
Url(scheme, path) == [scheme |-> scheme, path |-> path]
SearchRoots == {Url("native", <<1>>), Url("project", <<1, 2>>), Url("native", <<1, 5>>), Url("native", <<1, 2, 2>>),
                Url("system", <<2>>), Url("work", <<1, 0, 1>>), Url("tmp", <<1, 0, 1, 2>>), Url("native", <<1, 0>>), Url("native", <<1, 3>>),
                Url("native", <<1, 8>>), Url("record", <<5>>), Url("record", <<6>>)}
SearchVolatile == {<<1, 2, 1>>, <<1, 2, 2>>, <<1, 6>>, <<1, 6, 1>>, <<1, 2>>}
ToolTargets == {Url("native", <<1, 3>>), Url("native", <<1, 0, 2>>), Url("project", <<1, 6, 1>>), Url("native", <<1, 3, 1>>),
                Url("system", <<2, 5, 1>>), Url("system", <<1, 0, 2>>), Url("tmp", <<1, 0, 1, 1, 1>>), Url("tmp", <<1, 0, 1, 2, 1>>),
                Url("project", <<1, 5, 1>>), Url("work", <<1, 0, 1, 2, 1>>), Url("project", <<1, 7>>), Url("system", <<2, 1>>),
                Url("project", <<1, 2>>), Url("record", <<5, 2>>), Url("record", <<5, 2, 1>>),
                Url("tmp", <<1, 0, 1, 1, 2, 2>>), Url("system", <<2, 6, 2>>), Url("project", <<1, 10, 2>>)}
ToolPatches == {{<<1, 3>>}, {<<1, 3>>, <<1, 2, 1>>}, {<<1, 3>>, <<1, 0, 2>>}, {<<1, 2, 1>>, <<1, 10, 2>>}}

\* NodeExecution: agents with and without the notifications, with every requirement of a
\* record; native source preparation, which does not look at the goal, before DONE.
NodeContracts ==
  {n \in [recipient : BOOLEAN, reviewer : BOOLEAN, native : BOOLEAN, clean : BOOLEAN, updated : BOOLEAN, goal : {"DONE", "next"}] :
     (n.clean => n.updated) /\ (n.native => n.clean = n.updated /\ n.goal = "DONE")}

-----------------------------------------------------------------------------
(* Processes, agents and services *)

Process == INSTANCE CardProcess WITH
  MaxNodes <- 2, MaxInterrupts <- 2,
  actor <- v1, act <- v2, ops <- v3, tracker <- v4, cur <- v5, claim <- v6, strays <- v7, sup <- v8, draft <- v9
NodeRun == INSTANCE NodeExecution WITH
  Contracts <- NodeContracts, Notes <- {"n1"}, MaxRearms <- 1, MaxChanges <- 1, MaxRuns <- 2,
  node <- v1, pc <- v2, out <- v3, rearms <- v4, pending <- v5, told <- v6, removing <- v7, rec <- v8, written <- v9,
  tree <- v10, seen <- v11, moved <- v12, fin <- v13, broken <- v14, target <- v15, runs <- v16
Llm == INSTANCE LlmActor WITH
  MaxTurns <- 3,
  ph <- v1, disp <- v2, inv <- v3, rows <- v4, child <- v5, res <- v6, strays <- v7, abort <- v8, gate <- v9,
  revoked <- v10, join <- v11, fault <- v12, turns <- v13
Invoke == INSTANCE InvocationService WITH
  Route <- 2, MaxRetries <- 1, Recovery <- 1, Rates <- {2}, FirstBackoff <- 1, LastBackoff <- 2, Block <- 3,
  Timeout <- 3, MaxOverloads <- 2, MaxOthers <- 1,
  mode <- v1, pc <- v2, rec <- v3, avail <- v4, left <- v5, cur <- v6, wake <- v7, mandatory <- v8, recovery <- v9,
  calls <- v10, settled <- v11, overloads <- v12, others <- v13
Log == INSTANCE ExecutionLog WITH
  Operations <- {1}, Natives <- {3}, Quality <- {}, MaxCommands <- 1,
  log <- v1, inv <- v2, fault <- v3
Native == INSTANCE ExecutionLog WITH
  Operations <- {}, Natives <- {3}, Quality <- {}, MaxCommands <- 3,
  log <- v1, inv <- v2, fault <- v3
Analysis == INSTANCE ExecutionLog WITH
  Operations <- {2}, Natives <- {}, Quality <- {2}, MaxCommands <- 1,
  log <- v1, inv <- v2, fault <- v3
Kills == INSTANCE ProcessGroups WITH
  Groups <- {"g1", "g2"}, Captured <- {"g1"}, Terms <- {"tree"},
  os <- v1, rec <- v2, eye <- v3, run <- v4, term <- v5, scope <- v6, admit <- v7
Races == INSTANCE ProcessGroups WITH
  Groups <- {"g1"}, Captured <- {"g1"}, Terms <- {"kill", "scope", "tree"},
  os <- v1, rec <- v2, eye <- v3, run <- v4, term <- v5, scope <- v6, admit <- v7
App == INSTANCE AppLifecycle WITH
  Held <- FALSE,
  app <- v1, dir <- v2, lock <- v3, live <- v4, root <- v5
HeldApp == INSTANCE AppLifecycle WITH
  Held <- TRUE,
  app <- v1, dir <- v2, lock <- v3, live <- v4, root <- v5
Extern == INSTANCE ExternalAnalyst WITH
  Calls <- {"c1", "c2"}, Procs <- {"p1", "p2"},
  open <- v1, hold <- v2, joins <- v3, proc <- v4, call <- v5, clean <- v6, owner <- v7, fault <- v8
Session == INSTANCE AnalystSession WITH
  MaxTurns <- 4,
  sess <- v1, op <- v2, llm <- v3, call <- v4, told <- v5, caller <- v6, port <- v7, admission <- v8, cleanup <- v9,
  turns <- v10
Watch == INSTANCE Oversight WITH
  Interval <- 3, MaxTimeout <- 2,
  status <- v1, closing <- v2, timer <- v3, left <- v4, check <- v5, call <- v6, quiet <- v7, effect <- v8,
  stopped <- v9, owner <- v10
Mcp == INSTANCE McpRuntime WITH
  Calls <- {"c1", "c2"}, MaxCatalogs <- 3,
  stdio <- v1, srv <- v2, catalog <- v3, made <- v4, proc <- v5, observer <- v6, op <- v7, queue <- v8, stopper <- v9,
  stale <- v10, left <- v11, reused <- v12
Manager == INSTANCE McpManager WITH
  Callers <- {"c1", "c2"}, MaxRuntimes <- 3, MaxRevisions <- 3,
  def <- v1, rev <- v2, rt <- v3, own <- v4, made <- v5, call <- v6, admission <- v7
Requests == INSTANCE ProviderRequest WITH
  Attempts <- {"a1", "a2"}, Configs <- {SharedConfig}, Profiles <- RanProfiles, Scripts <- RaceScripts,
  RefreshReplies <- {"ok", "declined", "rate_limit", "server_transient"}, Inactivity <- 2,
  Deadline <- 3, CaptureLimit <- 1, Tokens <- 2, Unpublished <- FALSE,
  att <- v1, file <- v2, issued <- v3, captures <- v4
StreamOf == INSTANCE ProviderRequest WITH
  Attempts <- {"a1"}, Configs <- KeyConfigs, Profiles <- GoodProfiles, Scripts <- ManyScripts,
  RefreshReplies <- {"ok"}, Inactivity <- 2, Deadline <- 3, CaptureLimit <- 1, Tokens <- 2, Unpublished <- TRUE,
  att <- v1, file <- v2, issued <- v3, captures <- v4

-----------------------------------------------------------------------------
(* Durable state and its projections *)

Lock == INSTANCE LifecycleLock WITH
  Procs <- {"p1", "p2", "p3"}, Pids <- {"x", "y"}, PidOf <- PidOfProcess, NoProc <- "none",
  pc <- v1, mode <- v2, seen <- v3, rec <- v4, lock <- v5, identity <- v6, report <- v7
Heads == INSTANCE HeadPublication WITH
  MaxFiles <- 4, Damages <- 0,
  files <- v1, pred <- v2, docs <- v3, docsStable <- v4, log <- v5, synced <- v6, docsSynced <- v7, bad <- v8,
  pc <- v9, mode <- v10, acked <- v11, damage <- v12
Damage == INSTANCE HeadPublication WITH
  MaxFiles <- 4, Damages <- 1,
  files <- v1, pred <- v2, docs <- v3, docsStable <- v4, log <- v5, synced <- v6, docsSynced <- v7, bad <- v8,
  pc <- v9, mode <- v10, acked <- v11, damage <- v12
Store == INSTANCE CardStore WITH
  Segments <- {1, 2}, MaxDepth <- 2, MaxCards <- 4, MaxMoves <- 0, MaxDeps <- 1, MaxRoots <- 2, Repairs <- 0,
  claimed <- v1, head <- v2, prev <- v3, op <- v4, created <- v5, moves <- v6, repairs <- v7
Relinks == INSTANCE CardStore WITH
  Segments <- {1, 2, 3}, MaxDepth <- 2, MaxCards <- 3, MaxMoves <- 1, MaxDeps <- 0, MaxRoots <- 1, Repairs <- 1,
  claimed <- v1, head <- v2, prev <- v3, op <- v4, created <- v5, moves <- v6, repairs <- v7
Mend == INSTANCE Repair WITH
  Kinds <- {"card", "record", "optional", "conversation"}, MaxDocs <- 3, MaxCrashes <- 2, MaxEdits <- 0,
  kind <- v1, f <- v2, start <- v3, attic <- v4, phase <- v5, discard <- v6, steps <- v7, seen <- v8, crashes <- v9,
  edits <- v10, window <- v11, discarded <- v12
Edited == INSTANCE Repair WITH
  Kinds <- {"card", "record", "optional", "conversation"}, MaxDocs <- 2, MaxCrashes <- 0, MaxEdits <- 2,
  kind <- v1, f <- v2, start <- v3, attic <- v4, phase <- v5, discard <- v6, steps <- v7, seen <- v8, crashes <- v9,
  edits <- v10, window <- v11, discarded <- v12
History == INSTANCE CardProjections WITH
  Cards <- {"project", "a", "b"}, ParentOf <- Line, Root <- "project", Notes <- {"n1"}, Titles <- {1, 2},
  MaxVersions <- 7, Contents <- {"x", "y"}, Recorded <- {}, MaxFacts <- 1, MaxRecord <- 0,
  card <- v1, hist <- v2, record <- v3, refused <- v4, announced <- v5
Announce == INSTANCE CardProjections WITH
  Cards <- {"project", "a", "b"}, ParentOf <- Siblings, Root <- "project", Notes <- {"n1"}, Titles <- {1, 2},
  MaxVersions <- 6, Contents <- {"x", "y"}, Recorded <- {"a"}, MaxFacts <- 1, MaxRecord <- 2,
  card <- v1, hist <- v2, record <- v3, refused <- v4, announced <- v5
Trees == INSTANCE CardAlgorithms WITH
  Cards <- TreeCards, Root <- "project", NoCard <- "none", Parent <- TreeParent, Anc <- TreeAnc,
  DependsOn <- [c \in TreeCards |-> {}],
  st <- v1

-----------------------------------------------------------------------------
(* Records, conversations and work files *)

Record == INSTANCE RecordStore WITH
  Records <- {"status"}, Required <- "status", Output <- "status", Bootstrap <- {}, Templated <- {"status"},
  Modes <- {"clean", "continue"}, Texts <- {"x"}, MaxEntries <- 2, MaxRev <- 6,
  head <- v1, prev <- v2, docs <- v3, status <- v4, node <- v5, fetch <- v6, up <- v7, authored <- v8, fault <- v9,
  passed <- v10, late <- v11
Both == INSTANCE RecordStore WITH
  Records <- {"notes", "status"}, Required <- "status", Output <- "status", Bootstrap <- {"notes"},
  Templated <- {"status"}, Modes <- {"clean"}, Texts <- {"x"}, MaxEntries <- 2, MaxRev <- 5,
  head <- v1, prev <- v2, docs <- v3, status <- v4, node <- v5, fetch <- v6, up <- v7, authored <- v8, fault <- v9,
  passed <- v10, late <- v11
Talk == INSTANCE Conversation WITH
  MaxRows <- 7, MaxCompactions <- 1, MaxCrashes <- 2,
  seg <- v1, log <- v2, covered <- v3, phase <- v4, running <- v5, next <- v6, crashes <- v7
Compact == INSTANCE Compaction WITH
  Sizes <- <<2, 2, 3, 1>>, Images <- {2}, Capacity <- 4, Ceiling <- 6, Trigger <- 4, MaxFolds <- 5,
  SummarySizes <- {1, 3},
  strategy <- v1, ends <- v2, rejected <- v3, ei <- v4, cursor <- v5, sum <- v6, latest <- v7, folds <- v8,
  corrected <- v9, completed <- v10, failure <- v11, aborted <- v12, phase <- v13, result <- v14, pack <- v15
Facts == INSTANCE ContextComposition WITH
  Shapes <- {"text", "prompt", "keyed", "recovered", "refusal", "observe1", "observe2"}, MaxRows <- 5,
  MaxCompactions <- 2,
  log <- v1, covered <- v2, hist <- v3, cuts <- v4
Exchanges == INSTANCE ContextComposition WITH
  Shapes <- {"evidence", "private", "keyed", "retry", "call", "callevidence", "callimage", "callprivate", "issue"},
  MaxRows <- 6, MaxCompactions <- 2,
  log <- v1, covered <- v2, hist <- v3, cuts <- v4
Gc == INSTANCE WorkGc WITH
  Files <- WorkFiles, Dir <- WorkDir, Owner <- WorkOwner, Owners <- {"c"}, Foreign <- {}, RefNames <- WorkRefs,
  Names <- WorkNames, Resolves <- WorkResolves, Wild <- {"glob"}, Limits <- {1, 99}, MaxChanges <- 2,
  file <- v1, refs <- v2, live <- v3, pc <- v4, req <- v5, todo <- v6, seen <- v7, marks <- v8, retainAll <- v9,
  queue <- v10, picked <- v11, gone <- v12, resp <- v13, abort <- v14, changes <- v15

-----------------------------------------------------------------------------
(* Tools and the workflow compiler *)

Paged == INSTANCE DiscoveryPaging WITH
  Stores <- PagedStores, Surfaces <- {"live", "search", "catalog", "tail", "text"},
  Caps <- {5, 8, 10, 12, 15, 18, 23, 30}, Envelope <- 5, NextBytes <- 2, SliceBytes <- 1, MaxItems <- 2,
  TailLength <- 2, Extra <- Item(5, <<1, 4>>, TRUE), MaxChanges <- 2,
  store <- v1, surface <- v2, cap <- v3, pos <- v4, got <- v5, last <- v6, exposed <- v7, reader <- v8, changes <- v9,
  moved <- v10
Search == INSTANCE WorkspaceTools WITH
  Paths <- AllPaths, Project <- <<1>>, Work <- <<1, 0, 1>>, OwnTmp <- <<1, 0, 1, 1>>, OtherTmp <- <<1, 0, 1, 2>>,
  Saivage <- 0, Skipped <- {4}, Records <- RecordPaths, Secret <- {<<1, 7>>}, LinkTo <- LinkTo,
  InitialKinds <- FirstKinds, Policies <- IgnorePolicies, Volatile <- SearchVolatile, Roots <- SearchRoots,
  Targets <- {}, Patches <- {}, MaxChanges <- 2, MaxCalls <- 0,
  kind <- v1, author <- v2, policy <- v3, quiet <- v4, walk <- v5, steady <- v6, answer <- v7, changes <- v8,
  calls <- v9, patch <- v10
Writes == INSTANCE WorkspaceTools WITH
  Paths <- AllPaths, Project <- <<1>>, Work <- <<1, 0, 1>>, OwnTmp <- <<1, 0, 1, 1>>, OtherTmp <- <<1, 0, 1, 2>>,
  Saivage <- 0, Skipped <- {4}, Records <- RecordPaths, Secret <- {<<1, 7>>}, LinkTo <- LinkTo,
  InitialKinds <- FirstKinds, Policies <- IgnorePolicies, Volatile <- {<<1, 3>>}, Roots <- {Url("native", <<1, 3>>)},
  Targets <- ToolTargets, Patches <- ToolPatches, MaxChanges <- 1, MaxCalls <- 2,
  kind <- v1, author <- v2, policy <- v3, quiet <- v4, walk <- v5, steady <- v6, answer <- v7, changes <- v8,
  calls <- v9, patch <- v10
Chain == INSTANCE WebTools WITH
  Calls <- ChainCalls, Webs <- ChainWebs, MaxRedirects <- 2, ResultLimit <- 10, Overhead <- 2, UrlCost <- 1,
  call <- v1, web <- v2, s <- v3, requests <- v4, ready <- v5, open <- v6, effects <- v7
Pack == INSTANCE WebTools WITH
  Calls <- TextCalls, Webs <- TextWebs, MaxRedirects <- 2, ResultLimit <- 8, Overhead <- 2, UrlCost <- 1,
  call <- v1, web <- v2, s <- v3, requests <- v4, ready <- v5, open <- v6, effects <- v7
Graphed == INSTANCE WorkflowCompiler WITH
  Sources <- GraphSources,
  src <- v1, stage <- v2, reach <- v3, live <- v4, at <- v5, arrived <- v6, saved <- v7, waiting <- v8, below <- v9, have <- v10
Policed == INSTANCE WorkflowCompiler WITH
  Sources <- PolicySources \cup RecordSources,
  src <- v1, stage <- v2, reach <- v3, live <- v4, at <- v5, arrived <- v6, saved <- v7, waiting <- v8, below <- v9, have <- v10

-----------------------------------------------------------------------------
(* The web client *)

Live == INSTANCE LiveSync WITH
  Scopes <- {"a", "b"}, Consumers <- {"c1", "c2"}, Resources <- {}, Changing <- {"a", "b"}, MaxChanges <- 2,
  MaxDrops <- 1, MaxOpens <- 2, MaxFails <- 0, MaxRefreshes <- 0,
  ver <- v1, pending <- v2, link <- v3, up <- v4, down <- v5, subs <- v6, entry <- v7, ackGen <- v8, view <- v9,
  excused <- v10, reqs <- v11, flight <- v12, left <- v13
Runtime == INSTANCE LiveSync WITH
  Scopes <- {"a"}, Consumers <- {"c1"}, Resources <- {"runtime"}, Changing <- {"runtime"}, MaxChanges <- 2,
  MaxDrops <- 1, MaxOpens <- 1, MaxFails <- 1, MaxRefreshes <- 1,
  ver <- v1, pending <- v2, link <- v3, up <- v4, down <- v5, subs <- v6, entry <- v7, ackGen <- v8, view <- v9,
  excused <- v10, reqs <- v11, flight <- v12, left <- v13
TreeView == INSTANCE CardsStore WITH
  Cards <- {"project", "c"}, Shown <- {"children", "detail"}, MaxChanges <- 1, MaxDrops <- 1, MaxFails <- 1,
  MaxActs <- 3, MaxRequests <- 4,
  ver <- v1, gone <- v2, link <- v3, frames <- v4, ui <- v5, selected <- v6, visible <- v7, key <- v8, left <- v9
Versions == INSTANCE CardsStore WITH
  Cards <- {"project", "c"}, Shown <- {"history", "entry", "diff"}, MaxChanges <- 1, MaxDrops <- 1, MaxFails <- 0,
  MaxActs <- 3, MaxRequests <- 3,
  ver <- v1, gone <- v2, link <- v3, frames <- v4, ui <- v5, selected <- v6, visible <- v7, key <- v8, left <- v9
RecordView == INSTANCE CardsStore WITH
  Cards <- {"project", "c"}, Shown <- {"detail", "descriptors", "record"}, MaxChanges <- 1, MaxDrops <- 1,
  MaxFails <- 0, MaxActs <- 2, MaxRequests <- 4,
  ver <- v1, gone <- v2, link <- v3, frames <- v4, ui <- v5, selected <- v6, visible <- v7, key <- v8, left <- v9
Chat == INSTANCE Transcript WITH
  MaxRows <- 3, MaxCompactions <- 1, MaxDrops <- 1, MaxFails <- 0, MaxSends <- 0, MaxActs <- 2, MaxRequests <- 2,
  log <- v1, sync <- v2, chat <- v3, reqs <- v4, left <- v5
Send == INSTANCE Transcript WITH
  MaxRows <- 1, MaxCompactions <- 1, MaxDrops <- 1, MaxFails <- 1, MaxSends <- 1, MaxActs <- 1, MaxRequests <- 3,
  log <- v1, sync <- v2, chat <- v3, reqs <- v4, left <- v5
Summary == INSTANCE AgentSelection WITH
  Sessions <- {"s1", "s2"}, Segments <- {}, MaxTok <- 2, MaxRev <- 2, MaxGen <- 0, Parts <- {"summary"},
  srv <- v1, hints <- v2, id <- v3, act <- v4, sum <- v5, ask <- v6, seg <- v7, xid <- v8, xact <- v9, x <- v10
Segment == INSTANCE AgentSelection WITH
  Sessions <- {"s1", "s2"}, Segments <- {"g1", "g2"}, MaxTok <- 3, MaxRev <- 0, MaxGen <- 6, Parts <- {"segment"},
  srv <- v1, hints <- v2, id <- v3, act <- v4, sum <- v5, ask <- v6, seg <- v7, xid <- v8, xact <- v9, x <- v10
Exchange == INSTANCE AgentSelection WITH
  Sessions <- {"s1", "s2"}, Segments <- {}, MaxTok <- 2, MaxRev <- 1, MaxGen <- 4, Parts <- {"exchange"},
  srv <- v1, hints <- v2, id <- v3, act <- v4, sum <- v5, ask <- v6, seg <- v7, xid <- v8, xact <- v9, x <- v10

-----------------------------------------------------------------------------
(* Smaller instances, for progress *)

Races0 == INSTANCE ProcessGroups WITH
  Groups <- {"g1"}, Captured <- {"g1"}, Terms <- {"kill", "tree"},
  os <- v1, rec <- v2, eye <- v3, run <- v4, term <- v5, scope <- v6, admit <- v7
Invoke0 == INSTANCE InvocationService WITH
  Route <- 2, MaxRetries <- 1, Recovery <- 1, Rates <- {2}, FirstBackoff <- 1, LastBackoff <- 1, Block <- 2,
  Timeout <- 2, MaxOverloads <- 1, MaxOthers <- 0,
  mode <- v1, pc <- v2, rec <- v3, avail <- v4, left <- v5, cur <- v6, wake <- v7, mandatory <- v8, recovery <- v9,
  calls <- v10, settled <- v11, overloads <- v12, others <- v13
Extern0 == INSTANCE ExternalAnalyst WITH
  Calls <- {"c1", "c2"}, Procs <- {"p1"},
  open <- v1, hold <- v2, joins <- v3, proc <- v4, call <- v5, clean <- v6, owner <- v7, fault <- v8
Mcp0 == INSTANCE McpRuntime WITH
  Calls <- {"c1"}, MaxCatalogs <- 2,
  stdio <- v1, srv <- v2, catalog <- v3, made <- v4, proc <- v5, observer <- v6, op <- v7, queue <- v8, stopper <- v9,
  stale <- v10, left <- v11, reused <- v12
Talk0 == INSTANCE Conversation WITH
  MaxRows <- 6, MaxCompactions <- 1, MaxCrashes <- 1,
  seg <- v1, log <- v2, covered <- v3, phase <- v4, running <- v5, next <- v6, crashes <- v7
Compact0 == INSTANCE Compaction WITH
  Sizes <- <<2, 3, 1>>, Images <- {1}, Capacity <- 4, Ceiling <- 5, Trigger <- 3, MaxFolds <- 3,
  SummarySizes <- {1, 3},
  strategy <- v1, ends <- v2, rejected <- v3, ei <- v4, cursor <- v5, sum <- v6, latest <- v7, folds <- v8,
  corrected <- v9, completed <- v10, failure <- v11, aborted <- v12, phase <- v13, result <- v14, pack <- v15
Gc0 == INSTANCE WorkGc WITH
  Files <- WorkFiles, Dir <- WorkDir, Owner <- WorkOwner, Owners <- {"c"}, Foreign <- {}, RefNames <- WorkRefs,
  Names <- WorkNames, Resolves <- WorkResolves, Wild <- {"glob"}, Limits <- {1}, MaxChanges <- 1,
  file <- v1, refs <- v2, live <- v3, pc <- v4, req <- v5, todo <- v6, seen <- v7, marks <- v8, retainAll <- v9,
  queue <- v10, picked <- v11, gone <- v12, resp <- v13, abort <- v14, changes <- v15
Paged0 == INSTANCE DiscoveryPaging WITH
  Stores <- PagedStores, Surfaces <- {"live", "search", "catalog", "tail", "text"},
  Caps <- {8, 12, 18}, Envelope <- 5, NextBytes <- 2, SliceBytes <- 1, MaxItems <- 2,
  TailLength <- 2, Extra <- Item(5, <<1, 4>>, TRUE), MaxChanges <- 2,
  store <- v1, surface <- v2, cap <- v3, pos <- v4, got <- v5, last <- v6, exposed <- v7, reader <- v8, changes <- v9,
  moved <- v10
Search0 == INSTANCE WorkspaceTools WITH
  Paths <- AllPaths, Project <- <<1>>, Work <- <<1, 0, 1>>, OwnTmp <- <<1, 0, 1, 1>>, OtherTmp <- <<1, 0, 1, 2>>,
  Saivage <- 0, Skipped <- {4}, Records <- RecordPaths, Secret <- {<<1, 7>>}, LinkTo <- LinkTo,
  InitialKinds <- FirstKinds, Policies <- IgnorePolicies, Volatile <- {<<1, 2, 1>>, <<1, 2, 2>>},
  Roots <- {Url("native", <<1>>), Url("record", <<5>>)}, Targets <- {}, Patches <- {}, MaxChanges <- 2, MaxCalls <- 0,
  kind <- v1, author <- v2, policy <- v3, quiet <- v4, walk <- v5, steady <- v6, answer <- v7, changes <- v8,
  calls <- v9, patch <- v10
Chain0 == INSTANCE WebTools WITH
  Calls <- {Fetch, [Fetch EXCEPT !.tool = "record", !.save = "record"]}, Webs <- {w \in ChainWebs : w[1] = Hop(2)},
  MaxRedirects <- 2, ResultLimit <- 10, Overhead <- 2, UrlCost <- 1,
  call <- v1, web <- v2, s <- v3, requests <- v4, ready <- v5, open <- v6, effects <- v7
Live0 == INSTANCE LiveSync WITH
  Scopes <- {"a"}, Consumers <- {"c1"}, Resources <- {"runtime"}, Changing <- {"a", "runtime"}, MaxChanges <- 1,
  MaxDrops <- 1, MaxOpens <- 1, MaxFails <- 1, MaxRefreshes <- 0,
  ver <- v1, pending <- v2, link <- v3, up <- v4, down <- v5, subs <- v6, entry <- v7, ackGen <- v8, view <- v9,
  excused <- v10, reqs <- v11, flight <- v12, left <- v13
Summary0 == INSTANCE AgentSelection WITH
  Sessions <- {"s1", "s2"}, Segments <- {}, MaxTok <- 2, MaxRev <- 1, MaxGen <- 0, Parts <- {"summary"},
  srv <- v1, hints <- v2, id <- v3, act <- v4, sum <- v5, ask <- v6, seg <- v7, xid <- v8, xact <- v9, x <- v10
Send0 == INSTANCE Transcript WITH
  MaxRows <- 1, MaxCompactions <- 0, MaxDrops <- 1, MaxFails <- 1, MaxSends <- 1, MaxActs <- 1, MaxRequests <- 2,
  log <- v1, sync <- v2, chat <- v3, reqs <- v4, left <- v5

-----------------------------------------------------------------------------
(* One part runs in a behaviour; the slots it does not use are 0. *)

Init ==
  /\ part \in Parts
  /\ \/ part = "process" /\ Process!Init /\ v10 = 0 /\ v11 = 0 /\ v12 = 0 /\ v13 = 0 /\ v14 = 0 /\ v15 = 0 /\ v16 = 0
     \/ part = "node" /\ NodeRun!Init
     \/ part = "llm" /\ Llm!Init /\ v14 = 0 /\ v15 = 0 /\ v16 = 0
     \/ part = "invocation" /\ Invoke!Init /\ v14 = 0 /\ v15 = 0 /\ v16 = 0
     \/ part = "log" /\ Log!Init /\ v4 = 0 /\ v5 = 0 /\ v6 = 0 /\ v7 = 0 /\ v8 = 0 /\ v9 = 0 /\ v10 = 0 /\ v11 = 0 /\ v12 = 0 /\ v13 = 0 /\ v14 = 0 /\ v15 = 0 /\ v16 = 0
     \/ part = "native" /\ Native!Init /\ v4 = 0 /\ v5 = 0 /\ v6 = 0 /\ v7 = 0 /\ v8 = 0 /\ v9 = 0 /\ v10 = 0 /\ v11 = 0 /\ v12 = 0 /\ v13 = 0 /\ v14 = 0 /\ v15 = 0 /\ v16 = 0
     \/ part = "analysis" /\ Analysis!Init /\ v4 = 0 /\ v5 = 0 /\ v6 = 0 /\ v7 = 0 /\ v8 = 0 /\ v9 = 0 /\ v10 = 0 /\ v11 = 0 /\ v12 = 0 /\ v13 = 0 /\ v14 = 0 /\ v15 = 0 /\ v16 = 0
     \/ part = "groups" /\ Kills!Init /\ v8 = 0 /\ v9 = 0 /\ v10 = 0 /\ v11 = 0 /\ v12 = 0 /\ v13 = 0 /\ v14 = 0 /\ v15 = 0 /\ v16 = 0
     \/ part = "races" /\ Races!Init /\ v8 = 0 /\ v9 = 0 /\ v10 = 0 /\ v11 = 0 /\ v12 = 0 /\ v13 = 0 /\ v14 = 0 /\ v15 = 0 /\ v16 = 0
     \/ part = "app" /\ App!Init /\ v6 = 0 /\ v7 = 0 /\ v8 = 0 /\ v9 = 0 /\ v10 = 0 /\ v11 = 0 /\ v12 = 0 /\ v13 = 0 /\ v14 = 0 /\ v15 = 0 /\ v16 = 0
     \/ part = "held" /\ HeldApp!Init /\ v6 = 0 /\ v7 = 0 /\ v8 = 0 /\ v9 = 0 /\ v10 = 0 /\ v11 = 0 /\ v12 = 0 /\ v13 = 0 /\ v14 = 0 /\ v15 = 0 /\ v16 = 0
     \/ part = "extern" /\ Extern!Init /\ v9 = 0 /\ v10 = 0 /\ v11 = 0 /\ v12 = 0 /\ v13 = 0 /\ v14 = 0 /\ v15 = 0 /\ v16 = 0
     \/ part = "session" /\ Session!Init /\ v11 = 0 /\ v12 = 0 /\ v13 = 0 /\ v14 = 0 /\ v15 = 0 /\ v16 = 0
     \/ part = "oversight" /\ Watch!Init /\ v11 = 0 /\ v12 = 0 /\ v13 = 0 /\ v14 = 0 /\ v15 = 0 /\ v16 = 0
     \/ part = "mcp" /\ Mcp!Init /\ v13 = 0 /\ v14 = 0 /\ v15 = 0 /\ v16 = 0
     \/ part = "manager" /\ Manager!Init /\ v8 = 0 /\ v9 = 0 /\ v10 = 0 /\ v11 = 0 /\ v12 = 0 /\ v13 = 0 /\ v14 = 0 /\ v15 = 0 /\ v16 = 0
     \/ part = "attempts" /\ Requests!Init /\ v5 = 0 /\ v6 = 0 /\ v7 = 0 /\ v8 = 0 /\ v9 = 0 /\ v10 = 0 /\ v11 = 0 /\ v12 = 0 /\ v13 = 0 /\ v14 = 0 /\ v15 = 0 /\ v16 = 0
     \/ part = "stream" /\ StreamOf!Init /\ v5 = 0 /\ v6 = 0 /\ v7 = 0 /\ v8 = 0 /\ v9 = 0 /\ v10 = 0 /\ v11 = 0 /\ v12 = 0 /\ v13 = 0 /\ v14 = 0 /\ v15 = 0 /\ v16 = 0
     \/ part = "lock" /\ Lock!Init /\ v8 = 0 /\ v9 = 0 /\ v10 = 0 /\ v11 = 0 /\ v12 = 0 /\ v13 = 0 /\ v14 = 0 /\ v15 = 0 /\ v16 = 0
     \/ part = "head" /\ Heads!Init /\ v13 = 0 /\ v14 = 0 /\ v15 = 0 /\ v16 = 0
     \/ part = "damage" /\ Damage!Init /\ v13 = 0 /\ v14 = 0 /\ v15 = 0 /\ v16 = 0
     \/ part = "store" /\ Store!Init /\ v8 = 0 /\ v9 = 0 /\ v10 = 0 /\ v11 = 0 /\ v12 = 0 /\ v13 = 0 /\ v14 = 0 /\ v15 = 0 /\ v16 = 0
     \/ part = "relinks" /\ Relinks!Init /\ v8 = 0 /\ v9 = 0 /\ v10 = 0 /\ v11 = 0 /\ v12 = 0 /\ v13 = 0 /\ v14 = 0 /\ v15 = 0 /\ v16 = 0
     \/ part = "repair" /\ Mend!Init /\ v13 = 0 /\ v14 = 0 /\ v15 = 0 /\ v16 = 0
     \/ part = "edited" /\ Edited!Init /\ v13 = 0 /\ v14 = 0 /\ v15 = 0 /\ v16 = 0
     \/ part = "history" /\ History!Init /\ v6 = 0 /\ v7 = 0 /\ v8 = 0 /\ v9 = 0 /\ v10 = 0 /\ v11 = 0 /\ v12 = 0 /\ v13 = 0 /\ v14 = 0 /\ v15 = 0 /\ v16 = 0
     \/ part = "announce" /\ Announce!Init /\ v6 = 0 /\ v7 = 0 /\ v8 = 0 /\ v9 = 0 /\ v10 = 0 /\ v11 = 0 /\ v12 = 0 /\ v13 = 0 /\ v14 = 0 /\ v15 = 0 /\ v16 = 0
     \/ part = "trees" /\ Trees!Init /\ v2 = 0 /\ v3 = 0 /\ v4 = 0 /\ v5 = 0 /\ v6 = 0 /\ v7 = 0 /\ v8 = 0 /\ v9 = 0 /\ v10 = 0 /\ v11 = 0 /\ v12 = 0 /\ v13 = 0 /\ v14 = 0 /\ v15 = 0 /\ v16 = 0
     \/ part = "record" /\ Record!Init /\ v12 = 0 /\ v13 = 0 /\ v14 = 0 /\ v15 = 0 /\ v16 = 0
     \/ part = "records" /\ Both!Init /\ v12 = 0 /\ v13 = 0 /\ v14 = 0 /\ v15 = 0 /\ v16 = 0
     \/ part = "conversation" /\ Talk!Init /\ v8 = 0 /\ v9 = 0 /\ v10 = 0 /\ v11 = 0 /\ v12 = 0 /\ v13 = 0 /\ v14 = 0 /\ v15 = 0 /\ v16 = 0
     \/ part = "compaction" /\ Compact!Init /\ v16 = 0
     \/ part = "facts" /\ Facts!Init /\ v5 = 0 /\ v6 = 0 /\ v7 = 0 /\ v8 = 0 /\ v9 = 0 /\ v10 = 0 /\ v11 = 0 /\ v12 = 0 /\ v13 = 0 /\ v14 = 0 /\ v15 = 0 /\ v16 = 0
     \/ part = "exchanges" /\ Exchanges!Init /\ v5 = 0 /\ v6 = 0 /\ v7 = 0 /\ v8 = 0 /\ v9 = 0 /\ v10 = 0 /\ v11 = 0 /\ v12 = 0 /\ v13 = 0 /\ v14 = 0 /\ v15 = 0 /\ v16 = 0
     \/ part = "gc" /\ Gc!Init /\ v16 = 0
     \/ part = "paging" /\ Paged!Init /\ v11 = 0 /\ v12 = 0 /\ v13 = 0 /\ v14 = 0 /\ v15 = 0 /\ v16 = 0
     \/ part = "paging0" /\ Paged0!Init /\ v11 = 0 /\ v12 = 0 /\ v13 = 0 /\ v14 = 0 /\ v15 = 0 /\ v16 = 0
     \/ part = "search" /\ Search!Init /\ v11 = 0 /\ v12 = 0 /\ v13 = 0 /\ v14 = 0 /\ v15 = 0 /\ v16 = 0
     \/ part = "writes" /\ Writes!Init /\ v11 = 0 /\ v12 = 0 /\ v13 = 0 /\ v14 = 0 /\ v15 = 0 /\ v16 = 0
     \/ part = "chain" /\ Chain!Init /\ v8 = 0 /\ v9 = 0 /\ v10 = 0 /\ v11 = 0 /\ v12 = 0 /\ v13 = 0 /\ v14 = 0 /\ v15 = 0 /\ v16 = 0
     \/ part = "pack" /\ Pack!Init /\ v8 = 0 /\ v9 = 0 /\ v10 = 0 /\ v11 = 0 /\ v12 = 0 /\ v13 = 0 /\ v14 = 0 /\ v15 = 0 /\ v16 = 0
     \/ part = "graphs" /\ Graphed!Init /\ v11 = 0 /\ v12 = 0 /\ v13 = 0 /\ v14 = 0 /\ v15 = 0 /\ v16 = 0
     \/ part = "policies" /\ Policed!Init /\ v11 = 0 /\ v12 = 0 /\ v13 = 0 /\ v14 = 0 /\ v15 = 0 /\ v16 = 0
     \/ part = "live" /\ Live!Init /\ v14 = 0 /\ v15 = 0 /\ v16 = 0
     \/ part = "runtime" /\ Runtime!Init /\ v14 = 0 /\ v15 = 0 /\ v16 = 0
     \/ part = "tree" /\ TreeView!Init /\ v10 = 0 /\ v11 = 0 /\ v12 = 0 /\ v13 = 0 /\ v14 = 0 /\ v15 = 0 /\ v16 = 0
     \/ part = "versions" /\ Versions!Init /\ v10 = 0 /\ v11 = 0 /\ v12 = 0 /\ v13 = 0 /\ v14 = 0 /\ v15 = 0 /\ v16 = 0
     \/ part = "recordview" /\ RecordView!Init /\ v10 = 0 /\ v11 = 0 /\ v12 = 0 /\ v13 = 0 /\ v14 = 0 /\ v15 = 0 /\ v16 = 0
     \/ part = "chat" /\ Chat!Init /\ v6 = 0 /\ v7 = 0 /\ v8 = 0 /\ v9 = 0 /\ v10 = 0 /\ v11 = 0 /\ v12 = 0 /\ v13 = 0 /\ v14 = 0 /\ v15 = 0 /\ v16 = 0
     \/ part = "send" /\ Send!Init /\ v6 = 0 /\ v7 = 0 /\ v8 = 0 /\ v9 = 0 /\ v10 = 0 /\ v11 = 0 /\ v12 = 0 /\ v13 = 0 /\ v14 = 0 /\ v15 = 0 /\ v16 = 0
     \/ part = "summary" /\ Summary!Init /\ v11 = 0 /\ v12 = 0 /\ v13 = 0 /\ v14 = 0 /\ v15 = 0 /\ v16 = 0
     \/ part = "segment" /\ Segment!Init /\ v11 = 0 /\ v12 = 0 /\ v13 = 0 /\ v14 = 0 /\ v15 = 0 /\ v16 = 0
     \/ part = "exchange" /\ Exchange!Init /\ v11 = 0 /\ v12 = 0 /\ v13 = 0 /\ v14 = 0 /\ v15 = 0 /\ v16 = 0
     \/ part = "races0" /\ Races0!Init /\ v8 = 0 /\ v9 = 0 /\ v10 = 0 /\ v11 = 0 /\ v12 = 0 /\ v13 = 0 /\ v14 = 0 /\ v15 = 0 /\ v16 = 0
     \/ part = "invocation0" /\ Invoke0!Init /\ v14 = 0 /\ v15 = 0 /\ v16 = 0
     \/ part = "extern0" /\ Extern0!Init /\ v9 = 0 /\ v10 = 0 /\ v11 = 0 /\ v12 = 0 /\ v13 = 0 /\ v14 = 0 /\ v15 = 0 /\ v16 = 0
     \/ part = "mcp0" /\ Mcp0!Init /\ v13 = 0 /\ v14 = 0 /\ v15 = 0 /\ v16 = 0
     \/ part = "conversation0" /\ Talk0!Init /\ v8 = 0 /\ v9 = 0 /\ v10 = 0 /\ v11 = 0 /\ v12 = 0 /\ v13 = 0 /\ v14 = 0 /\ v15 = 0 /\ v16 = 0
     \/ part = "compaction0" /\ Compact0!Init /\ v16 = 0
     \/ part = "gc0" /\ Gc0!Init /\ v16 = 0
     \/ part = "search0" /\ Search0!Init /\ v11 = 0 /\ v12 = 0 /\ v13 = 0 /\ v14 = 0 /\ v15 = 0 /\ v16 = 0
     \/ part = "chain0" /\ Chain0!Init /\ v8 = 0 /\ v9 = 0 /\ v10 = 0 /\ v11 = 0 /\ v12 = 0 /\ v13 = 0 /\ v14 = 0 /\ v15 = 0 /\ v16 = 0
     \/ part = "live0" /\ Live0!Init /\ v14 = 0 /\ v15 = 0 /\ v16 = 0
     \/ part = "summary0" /\ Summary0!Init /\ v11 = 0 /\ v12 = 0 /\ v13 = 0 /\ v14 = 0 /\ v15 = 0 /\ v16 = 0
     \/ part = "send0" /\ Send0!Init /\ v6 = 0 /\ v7 = 0 /\ v8 = 0 /\ v9 = 0 /\ v10 = 0 /\ v11 = 0 /\ v12 = 0 /\ v13 = 0 /\ v14 = 0 /\ v15 = 0 /\ v16 = 0
Next ==
  \/ part = "process" /\ Process!Next /\ UNCHANGED <<part, v10, v11, v12, v13, v14, v15, v16>>
  \/ part = "node" /\ NodeRun!Next /\ UNCHANGED <<part>>
  \/ part = "llm" /\ Llm!Next /\ UNCHANGED <<part, v14, v15, v16>>
  \/ part = "invocation" /\ Invoke!Next /\ UNCHANGED <<part, v14, v15, v16>>
  \/ part = "log" /\ Log!Next /\ UNCHANGED <<part, v4, v5, v6, v7, v8, v9, v10, v11, v12, v13, v14, v15, v16>>
  \/ part = "native" /\ Native!Next /\ UNCHANGED <<part, v4, v5, v6, v7, v8, v9, v10, v11, v12, v13, v14, v15, v16>>
  \/ part = "analysis" /\ Analysis!Next /\ UNCHANGED <<part, v4, v5, v6, v7, v8, v9, v10, v11, v12, v13, v14, v15, v16>>
  \/ part = "groups" /\ Kills!Next /\ UNCHANGED <<part, v8, v9, v10, v11, v12, v13, v14, v15, v16>>
  \/ part = "races" /\ Races!Next /\ UNCHANGED <<part, v8, v9, v10, v11, v12, v13, v14, v15, v16>>
  \/ part = "app" /\ App!Next /\ UNCHANGED <<part, v6, v7, v8, v9, v10, v11, v12, v13, v14, v15, v16>>
  \/ part = "held" /\ HeldApp!Next /\ UNCHANGED <<part, v6, v7, v8, v9, v10, v11, v12, v13, v14, v15, v16>>
  \/ part = "extern" /\ Extern!Next /\ UNCHANGED <<part, v9, v10, v11, v12, v13, v14, v15, v16>>
  \/ part = "session" /\ Session!Next /\ UNCHANGED <<part, v11, v12, v13, v14, v15, v16>>
  \/ part = "oversight" /\ Watch!Next /\ UNCHANGED <<part, v11, v12, v13, v14, v15, v16>>
  \/ part = "mcp" /\ Mcp!Next /\ UNCHANGED <<part, v13, v14, v15, v16>>
  \/ part = "manager" /\ Manager!Next /\ UNCHANGED <<part, v8, v9, v10, v11, v12, v13, v14, v15, v16>>
  \/ part = "attempts" /\ Requests!Next /\ UNCHANGED <<part, v5, v6, v7, v8, v9, v10, v11, v12, v13, v14, v15, v16>>
  \/ part = "stream" /\ StreamOf!Next /\ UNCHANGED <<part, v5, v6, v7, v8, v9, v10, v11, v12, v13, v14, v15, v16>>
  \/ part = "lock" /\ Lock!Next /\ UNCHANGED <<part, v8, v9, v10, v11, v12, v13, v14, v15, v16>>
  \/ part = "head" /\ Heads!Next /\ UNCHANGED <<part, v13, v14, v15, v16>>
  \/ part = "damage" /\ Damage!Next /\ UNCHANGED <<part, v13, v14, v15, v16>>
  \/ part = "store" /\ Store!Next /\ UNCHANGED <<part, v8, v9, v10, v11, v12, v13, v14, v15, v16>>
  \/ part = "relinks" /\ Relinks!Next /\ UNCHANGED <<part, v8, v9, v10, v11, v12, v13, v14, v15, v16>>
  \/ part = "repair" /\ Mend!Next /\ UNCHANGED <<part, v13, v14, v15, v16>>
  \/ part = "edited" /\ Edited!Next /\ UNCHANGED <<part, v13, v14, v15, v16>>
  \/ part = "history" /\ History!Next /\ UNCHANGED <<part, v6, v7, v8, v9, v10, v11, v12, v13, v14, v15, v16>>
  \/ part = "announce" /\ Announce!Next /\ UNCHANGED <<part, v6, v7, v8, v9, v10, v11, v12, v13, v14, v15, v16>>
  \/ part = "trees" /\ Trees!Next /\ UNCHANGED <<part, v2, v3, v4, v5, v6, v7, v8, v9, v10, v11, v12, v13, v14, v15, v16>>
  \/ part = "record" /\ Record!Next /\ UNCHANGED <<part, v12, v13, v14, v15, v16>>
  \/ part = "records" /\ Both!Next /\ UNCHANGED <<part, v12, v13, v14, v15, v16>>
  \/ part = "conversation" /\ Talk!Next /\ UNCHANGED <<part, v8, v9, v10, v11, v12, v13, v14, v15, v16>>
  \/ part = "compaction" /\ Compact!Next /\ UNCHANGED <<part, v16>>
  \/ part = "facts" /\ Facts!Next /\ UNCHANGED <<part, v5, v6, v7, v8, v9, v10, v11, v12, v13, v14, v15, v16>>
  \/ part = "exchanges" /\ Exchanges!Next /\ UNCHANGED <<part, v5, v6, v7, v8, v9, v10, v11, v12, v13, v14, v15, v16>>
  \/ part = "gc" /\ Gc!Next /\ UNCHANGED <<part, v16>>
  \/ part = "paging" /\ Paged!Next /\ UNCHANGED <<part, v11, v12, v13, v14, v15, v16>>
  \/ part = "paging0" /\ Paged0!Next /\ UNCHANGED <<part, v11, v12, v13, v14, v15, v16>>
  \/ part = "search" /\ Search!Next /\ UNCHANGED <<part, v11, v12, v13, v14, v15, v16>>
  \/ part = "writes" /\ Writes!Next /\ UNCHANGED <<part, v11, v12, v13, v14, v15, v16>>
  \/ part = "chain" /\ Chain!Next /\ UNCHANGED <<part, v8, v9, v10, v11, v12, v13, v14, v15, v16>>
  \/ part = "pack" /\ Pack!Next /\ UNCHANGED <<part, v8, v9, v10, v11, v12, v13, v14, v15, v16>>
  \/ part = "graphs" /\ Graphed!Next /\ UNCHANGED <<part, v11, v12, v13, v14, v15, v16>>
  \/ part = "policies" /\ Policed!Next /\ UNCHANGED <<part, v11, v12, v13, v14, v15, v16>>
  \/ part = "live" /\ Live!Next /\ UNCHANGED <<part, v14, v15, v16>>
  \/ part = "runtime" /\ Runtime!Next /\ UNCHANGED <<part, v14, v15, v16>>
  \/ part = "tree" /\ TreeView!Next /\ UNCHANGED <<part, v10, v11, v12, v13, v14, v15, v16>>
  \/ part = "versions" /\ Versions!Next /\ UNCHANGED <<part, v10, v11, v12, v13, v14, v15, v16>>
  \/ part = "recordview" /\ RecordView!Next /\ UNCHANGED <<part, v10, v11, v12, v13, v14, v15, v16>>
  \/ part = "chat" /\ Chat!Next /\ UNCHANGED <<part, v6, v7, v8, v9, v10, v11, v12, v13, v14, v15, v16>>
  \/ part = "send" /\ Send!Next /\ UNCHANGED <<part, v6, v7, v8, v9, v10, v11, v12, v13, v14, v15, v16>>
  \/ part = "summary" /\ Summary!Next /\ UNCHANGED <<part, v11, v12, v13, v14, v15, v16>>
  \/ part = "segment" /\ Segment!Next /\ UNCHANGED <<part, v11, v12, v13, v14, v15, v16>>
  \/ part = "exchange" /\ Exchange!Next /\ UNCHANGED <<part, v11, v12, v13, v14, v15, v16>>
  \/ part = "races0" /\ Races0!Next /\ UNCHANGED <<part, v8, v9, v10, v11, v12, v13, v14, v15, v16>>
  \/ part = "invocation0" /\ Invoke0!Next /\ UNCHANGED <<part, v14, v15, v16>>
  \/ part = "extern0" /\ Extern0!Next /\ UNCHANGED <<part, v9, v10, v11, v12, v13, v14, v15, v16>>
  \/ part = "mcp0" /\ Mcp0!Next /\ UNCHANGED <<part, v13, v14, v15, v16>>
  \/ part = "conversation0" /\ Talk0!Next /\ UNCHANGED <<part, v8, v9, v10, v11, v12, v13, v14, v15, v16>>
  \/ part = "compaction0" /\ Compact0!Next /\ UNCHANGED <<part, v16>>
  \/ part = "gc0" /\ Gc0!Next /\ UNCHANGED <<part, v16>>
  \/ part = "search0" /\ Search0!Next /\ UNCHANGED <<part, v11, v12, v13, v14, v15, v16>>
  \/ part = "chain0" /\ Chain0!Next /\ UNCHANGED <<part, v8, v9, v10, v11, v12, v13, v14, v15, v16>>
  \/ part = "live0" /\ Live0!Next /\ UNCHANGED <<part, v14, v15, v16>>
  \/ part = "summary0" /\ Summary0!Next /\ UNCHANGED <<part, v11, v12, v13, v14, v15, v16>>
  \/ part = "send0" /\ Send0!Next /\ UNCHANGED <<part, v6, v7, v8, v9, v10, v11, v12, v13, v14, v15, v16>>
Spec == Init /\ [][Next]_all

\* The constants of every instance are what its module expects of them.
ASSUME InstanceAssumption ==
  /\ Process!CardProcessAssumption /\ NodeRun!NodeExecutionAssumption /\ Llm!LlmActorAssumption /\ Invoke!InvocationAssumption
  /\ Invoke0!InvocationAssumption /\ Log!ExecutionLogAssumption /\ Native!ExecutionLogAssumption /\ Analysis!ExecutionLogAssumption /\ Kills!GroupsAssumption
  /\ Races!GroupsAssumption /\ Races0!GroupsAssumption /\ App!HeldAssumption /\ HeldApp!HeldAssumption /\ Extern!BoundsAssumption /\ Extern0!BoundsAssumption
  /\ Session!AnalystAssumption /\ Watch!OversightAssumption /\ Mcp!McpRuntimeAssumption /\ Mcp0!McpRuntimeAssumption
  /\ Manager!McpManagerAssumption /\ Requests!ProviderAssumption /\ StreamOf!ProviderAssumption
  /\ Lock!ProcAssumption /\ Mend!RepairAssumption /\ Edited!RepairAssumption
  /\ Record!RecordStoreAssumption /\ Both!RecordStoreAssumption /\ Talk!ConversationAssumption /\ Talk0!ConversationAssumption
  /\ Compact!CompactionAssumption /\ Compact0!CompactionAssumption /\ Facts!CompositionAssumption /\ Exchanges!CompositionAssumption
  /\ Gc!WorkGcAssumption /\ Gc0!WorkGcAssumption /\ Paged!DiscoveryAssumption /\ Paged0!DiscoveryAssumption /\ Search!WorkspaceAssumption /\ Writes!WorkspaceAssumption
  /\ Search0!WorkspaceAssumption /\ Chain!WebAssumption /\ Chain0!WebAssumption /\ Pack!WebAssumption
  /\ Live!LiveSyncAssumption /\ Runtime!LiveSyncAssumption /\ Live0!LiveSyncAssumption /\ TreeView!CardsStoreAssumption
  /\ Versions!CardsStoreAssumption /\ RecordView!CardsStoreAssumption /\ Chat!TranscriptAssumption /\ Send!TranscriptAssumption
  /\ Send0!TranscriptAssumption /\ Summary!SelectionAssumption /\ Summary0!SelectionAssumption /\ Segment!SelectionAssumption /\ Exchange!SelectionAssumption

-----------------------------------------------------------------------------
(* Processes, agents and services *)

\* The processor of a card (card-process.ts): whatever interruption, Stop and late
\* result overlap, no two of its nodes work at once, an interrupted node hands over no
\* result, a Stop abandons nothing but an agent's node, the outcome of an activation
\* is settled once, and a processor that was joined has nothing left at work.
ProcessorIsOrderly ==
  /\ [](part = "process" => /\ Process!OneNodeAtWork /\ Process!InterruptionExcludesResult
                            /\ Process!OnlyAgentsAbandoned /\ Process!JoinMeansQuiet)
  /\ [][part = "process" => Process!SettledOnce]_all

\* What a node hands over (node-execution.ts): a notification that left the queue is in
\* the conversation and none is left queued under a DONE; a review is of the subtree the
\* reviewer was shown last; what a clean requirement passes was written by this node;
\* and no authored draft stays open behind an execution that ended.
NodeHandsOverCurrent ==
  /\ [](part = "node" => NodeRun!DraftsSettled)
  /\ [][part = "node" => /\ NodeRun!NothingLost /\ NodeRun!NoDoneOverNotice
                         /\ NodeRun!ReviewIsCurrent /\ NodeRun!AcceptedIsFresh]_all

\* The rows of an agent (llm-actor.ts): a turn gets one outcome and a call one result
\* whichever of completion, cancellation, disposal and a late tool comes first; after a
\* revocation nothing is appended, and a graceful cancellation leaves no turn open.
AgentRowsPair ==
  /\ [](part = "llm" => Llm!RowsPaired /\ Llm!GracefulClosesTurn)
  /\ [][part = "llm" => Llm!NothingAfterRevocation]_all

\* The retry loop (invocation-service.ts): finite attempts but for overloads, which
\* stay in the route and keep the turn; no wait for what has happened or beside a
\* candidate that could be tried; horizons are not shortened by later failures; and
\* one exchange for every call, also of a turn that was aborted.
RetriesAreSound ==
  /\ [](part = "invocation" => Invoke!Budget /\ Invoke!ExchangesComplete)
  /\ [][part = "invocation" => /\ Invoke!WaitsForSomething /\ Invoke!OverloadPersists
                               /\ Invoke!OverloadKeepsTurn /\ Invoke!HorizonKept]_all

\* The execution log (action-execution-log.ts, contained operations): no row its writers
\* have to say is refused; an outcome is written when no process is left to act, and
\* before it is returned; nothing but a helper that passed is clean; and a step whose
\* owner is no longer current writes nothing more.
LogIsEvidence ==
  /\ [](part = "log" => Log!NeverRefused /\ Log!ClaimsAreSettled /\ Log!ResultsAreEvidence /\ Log!CleanIsEarned)
  /\ [](part = "native" => Native!NeverRefused /\ Native!ClaimsAreSettled /\ Native!ResultsAreEvidence)
  /\ [](part = "analysis" => Analysis!NeverRefused /\ Analysis!ClaimsAreSettled /\ Analysis!ResultsAreEvidence /\ Analysis!CleanIsEarned)
  /\ [][part = "native" => Native!NativeSilence]_all

\* The stop of processes and of the application (process-groups.ts, app.ts): a
\* termination accounts for every group it selected and reports none stopped that is
\* there; containment leaves no live group; only a group that is gone settles; the
\* lock is the last leaf tried, with the processes of its owner contained; and a signal
\* during the start is not forgotten.
StopContains ==
  /\ [](part = "groups" => Kills!ContainmentHolds /\ Kills!ReportIsTrue /\ Kills!ScopeFollowsGroups /\ Kills!ResolvedIsGone)
  /\ [](part = "races" => Races!ContainmentHolds /\ Races!ReportIsTrue /\ Races!ScopeFollowsGroups /\ Races!ResolvedIsGone)
  /\ [](part = "app" => App!OwnersExclude /\ App!LockReleasedLast)
  /\ [](part = "held" => HeldApp!LockReleasedLast)
  /\ [][part = "app" => App!SignalStopsStart]_all
  /\ [][part = "held" => HeldApp!SignalStopsStart]_all

\* Calls of the external analyst (external-mcp operations): a process that runs stays
\* listed and its outcome is not lost, whichever of overlapping waits, kills and
\* interruptions consumes it; a result is given for a group that is gone; a wait leaves
\* its process alone; the owner fails for a fault only; work is collected alone; and a
\* cleanup that succeeded left nothing running.
ExternalCallsAreSound ==
  /\ [](part = "extern" => /\ Extern!TypeOK /\ Extern!RunningIsListed /\ Extern!OutcomeNotLost /\ Extern!ResultIsFinal
                           /\ Extern!OwnerFailureHasCause /\ Extern!CollectsAlone /\ Extern!CleanupContains)
  /\ [][part = "extern" => Extern!WaitLeavesProcess]_all

\* The Analyst's session and the oversight checks (analyst-session.ts, oversight.ts): a
\* restart is scheduled only by the message after the response that asked for it, never
\* by a disposed turn; disposal is final; rows of a message follow the results before
\* it; no check overlaps another, starts early, or has an effect once cancelled.
SessionsAreFenced ==
  /\ [](part = "session" => Session!RestartWasAsked /\ Session!PendingWasTold /\ Session!IngressAfterResults)
  /\ [](part = "oversight" => Watch!NoOverlap /\ Watch!NoEffectAfterCancel /\ Watch!NextFindsSettled)
  /\ [][part = "session" => Session!DisposedSchedulesNothing /\ Session!DisposalFinal]_all
  /\ [][part = "oversight" => Watch!NotBeforeInterval]_all

\* MCP servers (mcp-runtime.ts, mcp-manager.ts): a contained runtime is quiet; no call
\* reaches a server against a catalog the caller has not seen, and none a connection
\* that was abandoned; no runtime loses its name while it holds a process, or runs a
\* definition that was replaced; and a closed manager starts nothing.
ServersAreOwned ==
  /\ [](part = "mcp" => Mcp!ContainedIsQuiet /\ Mcp!CallsMatchCatalog /\ Mcp!NoReuseAfterAbandon /\ Mcp!ReadyIsOpen)
  /\ [](part = "manager" => Manager!NoOrphan /\ Manager!RunsItsDefinition)
  /\ [][part = "manager" => Manager!NothingStartsClosed]_all

\* Requests to providers (provider-request.ts, auth profiles, the Codex stream): no timer
\* outlives its request; a cancellation that races a timeout is the owner's; one
\* exchange for a request that went out; no stale credential sent while the endpoint is
\* in trouble; the calls handed over are those announced; a refused credential is
\* never something to wait for; and the credentials file is replaced by what is used.
AttemptsAreHonest ==
  /\ [](part = "attempts" => /\ Requests!ScopesClose /\ Requests!OwnerWins /\ Requests!OneExchange
                             /\ Requests!NoStaleRequest /\ Requests!CapturesAreFailures)
  /\ [](part = "stream" => /\ StreamOf!ScopesClose /\ StreamOf!OwnerWins /\ StreamOf!OneExchange
                           /\ StreamOf!CallsAreWhole /\ StreamOf!RefusalIsFinal)
  /\ [][part = "attempts" => Requests!FileIsUsed]_all

-----------------------------------------------------------------------------
(* Durable state and its projections *)

\* The lifecycle lock (lock.ts): one holder at a time, as ExclusiveHolder says, whoever
\* dies between the open, the write and the unlink; the file names its holder, who
\* believes what it says; and an owner is reported dead or live truly, PID reuse included.
LockExcludes ==
  /\ [](part = "lock" => Lock!MutualExclusion /\ Lock!FileNamesHolder /\ Lock!RecordIsFile /\ Lock!BoundMatchesIdentity)
  /\ [][part = "lock" => Lock!ReportsAreTrue /\ [Lock!Exclusive!Next]_(Lock!holder)]_all

\* A published head (publish-head.ts): readable with the history behind it in every
\* state, after any crash or power loss; never older than the last acknowledged one; to
\* its readers one durable register (DurableRegister); and after one damage repair
\* costs at most the newest version.
HeadsSurvive ==
  /\ [](part = "head" => Heads!CurrentIsReadable /\ Heads!AckedIsKept /\ Heads!PreviousIsUsable)
  /\ [](part = "damage" => Damage!RepairLosesOne)
  /\ [][part = "head" => [Heads!Register!Next]_(Heads!Register!vars)]_all
  /\ [][part = "damage" => Damage!ReturnsReadable]_all

\* The card store (card-store.ts): wherever a creation or a deletion was interrupted, a
\* restart finds a graph it admits; an admitted deletion finds an order and can be asked
\* for again; the path to a card and the walk of the tree agree; an id is given once;
\* and the recursive walks select, settle, propagate and cancel what CardTree defines.
TreeSurvives ==
  /\ [](part = "store" => Store!RestartAdmits /\ Store!DeletionNeverConflicts /\ Store!DeletionIsResumable /\ Store!ReadersAgree)
  /\ [](part = "relinks" => Relinks!ReadersAgree)
  /\ [](part = "trees" => /\ Trees!ChainSelectionAgrees /\ Trees!SettlementCutsAreSuffixes /\ Trees!PropagationAgrees
                          /\ Trees!CancellationAgrees /\ Trees!CompletionGateAgrees)
  /\ [][part = "store" => Store!IdentityIsForever]_all
  /\ [][part = "relinks" => Relinks!IdentityIsForever]_all

\* The repair command (repair.ts): what inspection found restorable is restored; only
\* damage is moved to the attic; stopped and started again it restores one of the
\* selections that were there; and it applies only what it inspected.
RepairIsExact ==
  /\ [](part = "repair" => /\ Mend!RepairValidates /\ Mend!OnlyDamageIsMoved /\ Mend!RestoresOnce
                           /\ Mend!CanBeStartedAgain /\ Mend!DiscardedIsWhole)
  /\ [][part = "edited" => Edited!AppliesWhatItInspected]_all

\* What clients and agents see of cards (card-service.ts, history, discovery): a version
\* the service admits is never refused by the store; every history reads back and
\* explains every difference; whatever was shown and changed, drafts apart, is announced; an
\* observation pins the rows it names; and the surfaces of a record agree.
ProjectionsAgree ==
  /\ [](part = "history" => History!AdmittedIsPublished /\ History!HistoryReadsBack /\ History!DiffIsExplained)
  /\ [](part = "announce" => Announce!RecordSurfacesAgree)
  /\ [][part = "history" => History!ChangesAreAnnounced]_all
  /\ [][part = "announce" => Announce!ChangesAreAnnounced /\ Announce!ObservationPins]_all

-----------------------------------------------------------------------------
(* Records, conversations and work files *)

\* The record store (record-store.ts): every head parses and its predecessors are a
\* chain, after deaths and repair too; what is accepted was authored; no check fails
\* after admission and a clean requirement passes a new version only, unless the late
\* discard of an execution that Stop abandoned took a draft of the node; an open draft
\* is replaced by no writer from outside the workflow; and outside repair no accepted
\* version goes back.
RecordsAreWhole ==
  /\ [](part = "record" => /\ Record!HeadsParse /\ Record!HistoryIsChain /\ Record!AcceptedIsAuthored
                           /\ Record!NoFault /\ Record!CleanIsNew)
  /\ [](part = "records" => Both!HeadsParse /\ Both!HistoryIsChain /\ Both!AcceptedIsAuthored /\ Both!NoFault)
  /\ [][part = "record" => Record!DraftsAreKept /\ Record!AcceptedNeverGoesBack]_all
  /\ [][part = "records" => Both!DraftsAreKept]_all

\* Conversations (conversation store, recovery): whatever crashed, was abandoned or
\* compacted, the current segment is one the next read accepts and recovery does not
\* refuse; compaction only hides rows; and a segment knows its activation and the
\* newest recovery and refusal behind it.
ConversationRecovers ==
  part = "conversation" => /\ Talk!Readable /\ Talk!RecoverySucceeds /\ Talk!NothingLost
                           /\ Talk!FactsKept /\ Talk!RoundKept

\* Compaction (compaction.ts): a summary stands for exactly the rows it covers, through
\* packing, corrections and folds; what is published is smaller; memory is dropped only
\* when no summary qualifies; a request is packed full; an abort publishes nothing.
CompactionIsFaithful ==
  /\ [](part = "compaction" => Compact!SummaryCovers /\ Compact!Shrinks /\ Compact!OmissionLast /\ Compact!PackingMaximal)
  /\ [][part = "compaction" => Compact!AbortPublishesNothing]_all

\* What the model is shown (context composition): the newest recovery and refusal once
\* each, every message and exchange in exactly one place unless the summary declares its
\* omission, instructions in force verbatim, wherever the compactions cut; composition
\* never throws; and a notice that lost its slot is told to the summarizer or declared.
ContextIsWhole ==
  /\ [](part = "facts" => /\ Facts!NewestNoticeOnce /\ Facts!InstructionsInForce
                          /\ Facts!GenesisIsReadable /\ Facts!FactsOfTheWhole)
  /\ [](part = "exchanges" => Exchanges!NothingLostOrRepeated /\ Exchanges!AlwaysComposes)
  /\ [][part = "facts" => Facts!SupersededIsSummarised]_all

\* The collector of work files (work-gc.ts): nothing is unlinked that anything refers to
\* at that moment, that changed since it was inventoried, or beyond the target; and the
\* response accounts for every unlink, interrupted or not.
CollectionIsSafe ==
  /\ [](part = "gc" => Gc!ReportIsTrue)
  /\ [][part = "gc" => Gc!ReferencedIsKept /\ Gc!OnlyWhatWasSeen /\ Gc!NoMoreThanAsked]_all

-----------------------------------------------------------------------------
(* Tools and the workflow compiler *)

\* Paged discovery (discovery-page.ts): over stable input the pages are the whole of it,
\* once and in order, none over budget; positions handed out are accepted; a document is
\* on record as shown in full only if it was; and slices are as long as the budget allows.
PagingIsExact ==
  /\ [](part = "paging" => Paged!PagesAreWhole /\ Paged!WithinBudget /\ Paged!PositionsHold /\ Paged!ExposureIsTrue)
  /\ [][part = "paging" => Paged!Advances /\ Paged!SlicesAreLongest]_all


\* Web tools (webfetch, websearch): each request of a chain of redirects ends once and
\* goes to a public host, if its name answers twice alike; what is saved is the whole of
\* a good answer that is still admitted; one audit entry for an audited call; and the head of a result is the
\* longest that fits and cuts nothing redacted.
FetchIsGuarded ==
  /\ part = "chain" => Chain!OneTerminal /\ Chain!OnlyPublic /\ Chain!SavesAreWhole /\ Chain!OneAudit
  /\ part = "pack" => Pack!OneTerminal /\ Pack!OneAudit /\ Pack!HeadIsLongest

\* The workflow compiler (card-process-config.ts): of whatever it accepts, every reachable
\* position has an executor with capacity, accepted results can lead to a terminal (but
\* past a record that must exist and that its executor cannot create), DONE
\* leaves no notification queued, the correction node is entered by the native event
\* alone, and records shown of descendants are declared by every type below.
CompiledRuns ==
  /\ part = "graphs" => Graphed!EveryStateRuns /\ Graphed!NeverStuck /\ Graphed!DoneIsTold
  /\ part = "policies" => /\ Policed!EveryStateRuns /\ Policed!NeverStuck /\ Policed!DoneIsTold
                          /\ Policed!CorrectionIsNative /\ Policed!ContextDeclared

-----------------------------------------------------------------------------
(* The web client *)

\* What is shown belongs to what is selected (stores cards.ts, agents.ts, transcript):
\* late answers of an earlier selection, segment or lease never appear; a spinner has a
\* request that ends it; the rows of a transcript are one run and no message is shown twice.
ShownIsSelected ==
  /\ part = "tree" => TreeView!ShowsTheSelected /\ TreeView!LoadingIsOwned
  /\ part = "versions" => Versions!ShowsTheSelected /\ Versions!LoadingIsOwned
  /\ part = "recordview" => RecordView!ShowsTheSelected /\ RecordView!LoadingIsOwned /\ RecordView!AbsentShowsNothing
  /\ part = "chat" => Chat!RowsAreOneRun
  /\ part = "send" => Send!RowsAreOneRun /\ Send!NotTwice
  /\ part = "summary" => Summary!TypeOK /\ Summary!ShownIsSelected
  /\ part = "segment" => Segment!TypeOK /\ Segment!ShownIsSelected /\ Segment!LoadingHasRequest
  /\ part = "exchange" => Exchange!TypeOK /\ Exchange!ShownIsSelected

\* What is shown as current is current once nothing is on its way (sync hub, live store):
\* no change is lost between a lease and its acknowledgement, in coalesced frames, in a
\* refetch, over a reconnection, or to an older answer that overtakes a newer one; a
\* view left behind by a refetch that failed is excused, the runtime's if it says so.
QuietIsFresh ==
  /\ part = "live" => Live!QuiescentIsFresh /\ Live!AcknowledgedIsHeld
  /\ part = "runtime" => Runtime!RuntimeIsFresh /\ Runtime!AcknowledgedIsHeld
  /\ part = "tree" => TreeView!FreshIsTrue
  /\ part = "versions" => Versions!FreshIsTrue
  /\ part = "chat" => Chat!QuietShowsAll
  /\ part = "summary" => Summary!QuietIsFresh
  /\ part = "exchange" => Exchange!ExchangeIsFresh

-----------------------------------------------------------------------------
(* Progress: the fairness of each module's Spec, of the part that runs *)

FairServices ==
  /\ WF_(Process!vars)(part = "process" /\ Process!Live /\ Process!Deliver)
  /\ WF_(Process!vars)(part = "process" /\ Process!Live /\ \E tr \in Process!Trackers : Process!Start(tr) \/ Process!PassGuard(tr))
  /\ WF_(Process!vars)(part = "process" /\ Process!Live /\ Process!AnswerAbort)
  /\ WF_(Process!vars)(part = "process" /\ Process!Live /\ Process!JoinInterrupted)
  /\ WF_(Process!vars)(part = "process" /\ Process!Live /\ Process!Complete)
  /\ WF_(Process!vars)(part = "process" /\ Process!Live /\ Process!EndHook)
  /\ WF_(Process!vars)(part = "process" /\ Process!Live /\ Process!JoinActivation)
  /\ WF_(Process!vars)(part = "process" /\ ~Process!Live /\ Process!Halt)
  /\ WF_(Llm!vars)(part = "llm" /\ Llm!NoticeAbort) /\ WF_(Llm!vars)(part = "llm" /\ Llm!Consume)
  /\ WF_(Llm!vars)(part = "llm" /\ Llm!Reject) /\ WF_(Llm!vars)(part = "llm" /\ Llm!Joined)
  /\ WF_(Llm!vars)(part = "llm" /\ (Llm!StartChild \/ Llm!RejectChild)) /\ WF_(Llm!vars)(part = "llm" /\ Llm!EndChild)
  /\ WF_(Invoke0!vars)(part = "invocation0" /\ Invoke0!Admit) /\ WF_(Invoke0!vars)(part = "invocation0" /\ Invoke0!Loop)
  /\ WF_(Invoke0!vars)(part = "invocation0" /\ Invoke0!Wake) /\ WF_(Invoke0!vars)(part = "invocation0" /\ Invoke0!Resume)
  /\ WF_(Invoke0!vars)(part = "invocation0" /\ (Invoke0!Succeed \/ Invoke0!Fail))
  /\ WF_(Invoke0!vars)(part = "invocation0" /\ v2 = "sleep" /\ Invoke0!Tick)
  /\ WF_(Native!vars)(part = "native" /\ Native!Runs(3))
  /\ WF_(Races0!vars)(part = "races0" /\ Races0!Observe("g1")) /\ WF_(Races0!vars)(part = "races0" /\ Races0!Deadline("g1"))
  /\ WF_(Races0!vars)(part = "races0" /\ Races0!Finalize("g1"))
  /\ \A t \in {"kill", "tree"} : WF_(Races0!vars)(part = "races0" /\ Races0!Stage(t))
  /\ WF_(App!vars)(part = "app" /\ (App!LoadEnvironment \/ App!Commission \/ App!Publish \/ App!Compose \/ App!Serve \/ App!StartFails))
  /\ WF_(App!vars)(part = "app" /\ App!ContainStart) /\ WF_(App!vars)(part = "app" /\ App!Leaf) /\ WF_(App!vars)(part = "app" /\ App!Exit)
  /\ \A c \in {"c1", "c2"} : /\ WF_(Extern0!vars)(part = "extern0" /\ Extern0!TimesOut(c))
                             /\ WF_(Extern0!vars)(part = "extern0" /\ Extern0!KillReports(c))
                             /\ WF_(Extern0!vars)(part = "extern0" /\ Extern0!Refuse(c))
  /\ WF_(Extern0!vars)(part = "extern0" /\ Extern0!Dies("p1")) /\ WF_(Extern0!vars)(part = "extern0" /\ Extern0!Drain("p1"))
  /\ WF_(Extern0!vars)(part = "extern0" /\ Extern0!StartCleanup) /\ WF_(Extern0!vars)(part = "extern0" /\ Extern0!ClosureReports)
  /\ WF_(Extern0!vars)(part = "extern0" /\ Extern0!ClosureEnds) /\ WF_(Extern0!vars)(part = "extern0" /\ Extern0!CleanupEnds)
  /\ WF_(Session!vars)(part = "session" /\ (Session!Prepare \/ Session!Ingress \/ Session!SettleReturned \/ Session!RestartAnswered \/ Session!Complete))
  /\ WF_(Session!vars)(part = "session" /\ Session!Consume) /\ WF_(Session!vars)(part = "session" /\ Session!Joined)
  /\ WF_(Session!vars)(part = "session" /\ (Session!ConfirmedRestart \/ Session!RestartPublished \/ Session!RestartScheduled))
  /\ SF_(Session!vars)(part = "session" /\ (Session!TurnCompletes \/ Session!TurnFails \/ Session!TurnCancelled))
  /\ WF_(Session!vars)(part = "session" /\ (Session!TurnCalls \/ Session!TurnCompletes \/ Session!TurnFails))
  /\ WF_(Session!vars)(part = "session" /\ (Session!ToolThrows \/ Session!ToolDisposed \/ Session!ToolContinues))
  /\ WF_(Watch!vars)(part = "oversight" /\ Watch!Tick) /\ WF_(Watch!vars)(part = "oversight" /\ Watch!Fire)
  /\ WF_(Watch!vars)(part = "oversight" /\ Watch!Run) /\ WF_(Watch!vars)(part = "oversight" /\ Watch!CleanupDone)
  /\ SF_(Watch!vars)(part = "oversight" /\ Watch!TurnSettles)
  /\ WF_(Mcp0!vars)(part = "mcp0" /\ Mcp0!Dispatch) /\ WF_(Mcp0!vars)(part = "mcp0" /\ (Mcp0!Observe \/ Mcp0!ObserverLeaves))
  /\ WF_(Mcp0!vars)(part = "mcp0" /\ Mcp0!Contain) /\ WF_(Mcp0!vars)(part = "mcp0" /\ Mcp0!Stopped("caller"))
  /\ \A o \in {"c1", "start", "refresh"} : WF_(Mcp0!vars)(part = "mcp0" /\ Mcp0!Progress(o))
  /\ \A c \in {"c1", "c2"} :
       WF_(Manager!vars)(part = "manager" /\ (Manager!StartAfterStop(c) \/ Manager!StopEnds(c) \/ Manager!StartStopFails(c) \/ Manager!StartEnds(c)))
  /\ \A i \in 1..3 : WF_(Manager!vars)(part = "manager" /\ Manager!Contain(i)) /\ WF_(Manager!vars)(part = "manager" /\ Manager!Contained(i))
  /\ WF_(StreamOf!vars)(part = "stream" /\ StreamOf!Tick) /\ WF_(StreamOf!vars)(part = "stream" /\ StreamOf!Own("a1"))
  /\ WF_(StreamOf!vars)(part = "stream" /\ StreamOf!Fires("a1", "inactivity")) /\ WF_(StreamOf!vars)(part = "stream" /\ StreamOf!Fires("a1", "deadline"))
  /\ WF_(StreamOf!vars)(part = "stream" /\ StreamOf!Rejected("a1"))
FairData ==
  /\ WF_(Talk0!vars)(part = "conversation0" /\ Talk0!Boot) /\ WF_(Talk0!vars)(part = "conversation0" /\ Talk0!Stabilize)
  /\ WF_(Compact0!vars)(part = "compaction0" /\ Compact0!Work)
  /\ WF_(Gc0!vars)(part = "gc0" /\ Gc0!Collector)
  /\ WF_(Paged0!vars)(part = "paging0" /\ Paged0!Read)
  /\ WF_(Search0!vars)(part = "search0" /\ Search0!SearchStep)
  /\ WF_(Chain0!vars)(part = "chain0" /\ Chain0!Own) /\ WF_(Chain0!vars)(part = "chain0" /\ Chain0!Timeout)
  /\ WF_(Chain0!vars)(part = "chain0" /\ Chain0!Rejects)
FairClient ==
  /\ WF_(Live0!vars)(part = "live0" /\ Live0!Progress)
  /\ WF_(Send0!vars)(part = "send0" /\ Send0!Deliver) /\ WF_(Send0!vars)(part = "send0" /\ Send0!Reopen)
  /\ WF_(Send0!vars)(part = "send0" /\ Send0!Resolved) /\ WF_(Send0!vars)(part = "send0" /\ Send0!Posted)
  /\ WF_(Send0!vars)(part = "send0" /\ Send0!SendAccepted) /\ WF_(Send0!vars)(part = "send0" /\ \E r \in v4 : Send0!Serve(r) \/ Send0!Answered(r))
  /\ \A t \in 1..2 : /\ WF_(Summary0!vars)(part = "summary0" /\ t \in DOMAIN v3 /\ Summary0!SummaryRead(t))
                     /\ WF_(Summary0!vars)(part = "summary0" /\ t \in DOMAIN v3 /\ Summary0!SummaryAnswers(t))
  /\ \A s \in {"s1", "s2"} : WF_(Summary0!vars)(part = "summary0" /\ Summary0!Hint(s))
FairSpec == Spec /\ FairServices /\ FairData /\ FairClient

\* Whoever asks a part to stop is answered: the join of a processor and of an agent
\* interrupted, cancelled or halted at any moment; the exit of the application; the
\* cleanup of the Analyst, of oversight and of the external operations; the stop of an
\* MCP runtime; the observation and the settlement of a group that is gone.
StopPending(k) ==
  CASE part = "process" -> Process!JoinPending
    [] part = "llm" -> Llm!JoinWaits
    [] part = "app" -> App!Stopping
    [] part = "session" -> Session!CleanupWaits
    [] part = "oversight" -> Watch!CleanupWaits
    [] part = "extern0" -> Extern0!Cleaning
    [] part = "mcp0" -> Mcp0!StopWaits
    [] part = "races0" -> IF k = 1 THEN Races0!Unnoticed("g1") ELSE Races0!Unsettled("g1")
    [] OTHER -> FALSE
StopsEnd == \A k \in 1..2 : []<>~StopPending(k)

\* No call lasts for ever: an interrupted node has its successor, a cancelled turn its
\* answer; retries, attempts at a provider that sends without end, tools, searches,
\* pages, compaction, collection and the settlement after a crash all end, whatever
\* their neighbours stop, and oversight goes on checking.
CallPending(k) ==
  CASE part = "process" -> Process!NodeInterrupted
    [] part = "llm" -> Llm!CallerWaits
    [] part = "invocation0" -> Invoke0!Retrying
    [] part = "native" -> Native!Awaits(3)
    [] part = "session" -> Session!SenderWaits
    [] part = "oversight" -> Watch!Unwatched
    [] part = "extern0" -> Extern0!CallLasts(IF k = 1 THEN "c1" ELSE "c2")
    [] part = "manager" -> Manager!CallWaits(IF k = 1 THEN "c1" ELSE "c2")
    [] part = "stream" -> StreamOf!Attempting("a1")
    [] part = "conversation0" -> Talk0!Unsettled
    [] part = "compaction0" -> Compact0!Compacting
    [] part = "gc0" -> Gc0!Collecting
    [] part = "paging0" -> Paged0!Paging
    [] part = "search0" -> Search0!Searching
    [] part = "chain0" -> Chain0!Fetching
    [] OTHER -> FALSE
CallsEnd == \A k \in 1..2 : []<>~CallPending(k)

\* Once changes and failures of the link cease, every view shows the server's state or
\* that it cannot: leased scopes, the runtime, the selected agent's summary; and no
\* panel goes on loading.
ViewsConverge ==
  <>[](/\ part = "live0" => Live0!Converged
       /\ part = "summary0" => Summary0!Served
       /\ part = "send0" => ~Send0!Loading)
=============================================================================
