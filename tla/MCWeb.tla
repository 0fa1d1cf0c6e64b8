------------------------------- MODULE MCWeb -------------------------------
(* Instances of the six parts of the web console.  They share no state, so each
   behaviour moves one of them. *)
EXTENDS TaskPages, SignIn, Console, TaskGraph, SchedulePages, SmartRetry

CONSTANTS t1, t2, t3, t4, g1, w1, w2

VARIABLE part

-----------------------------------------------------------------------------
(* Task pages: four tasks of two names and two workers, each reported once or again
   later, three lists. *)
MCColumns(name, worker, runtime) ==
  [c \in Columns |-> IF c = "info" THEN [name |-> name, worker |-> worker, runtime |-> runtime]
                     ELSE None]
MCEvent(t, s, cols) == [task |-> t, state |-> s, ts |-> 0, retries |-> None, cols |-> cols]
MCIncoming ==
  {MCEvent(t1, "SUCCESS", MCColumns("a", "w", 3)), MCEvent(t2, "FAILURE", MCColumns("b", "w", 1)),
   MCEvent(t3, "STARTED", MCColumns("a", "x", 2)), MCEvent(t4, "RECEIVED", MCColumns("a", "w", None))}
MCValues == {e.cols["info"] : e \in MCIncoming}
MCCollate == [s \in States \cup {"w", "x"} |->
  CASE s = "w" -> 1 [] s = "x" -> 2 [] s = "RECEIVED" -> 3 [] s = "STARTED" -> 4
    [] s = "SUCCESS" -> 5 [] OTHER -> 0]
MCRowId == [t \in TaskIds |-> CASE t = t1 -> 1 [] t = t2 -> 2 [] t = t3 -> 3 [] OTHER -> 4]
MCList(states, f, key, dir) == [states |-> states, filter |-> f, key |-> key, dir |-> dir]
MCLists ==
  {MCList({}, NoFilter, None, "desc"),
   MCList({"RECEIVED", "SUCCESS"}, NoFilter, "runtime", "asc"),
   MCList({"FAILURE"}, [NoFilter EXCEPT !.worker = "w"], "runtime", "asc")}

(* Sign-in: Ann is in an allowed GitLab group on the second page; GitHub gives
   Bob's addresses as a list. *)
MCProfile ==
  [a \in Accounts |->
     IF a = "ann" THEN [email |-> "ann@x", emails |-> <<>>, groups |-> <<{"g1"}, {"g2"}>>]
     ELSE [email |-> None, groups |-> <<>>,
           emails |-> <<[email |-> "bob@y", primary |-> FALSE, verified |-> TRUE],
                        [email |-> "bob@x", primary |-> TRUE, verified |-> TRUE]>>]]
Unset == [k \in {"basic", "provider", "allowed", "groups", "key", "secret", "okta_base"} |-> None]
MCRaw(set, env) ==
  [settings |-> [k \in DOMAIN Unset |-> IF k \in DOMAIN set THEN set[k] ELSE None], env |-> env]
MCClient(p) == [Unset EXCEPT !.provider = p, !.key = "k", !.secret = "s"]
MCRawConfigs ==
  {MCRaw([basic |-> {"u"}], Unset), MCRaw([basic |-> {}], [Unset EXCEPT !.basic = {"u"}]), MCRaw([provider |-> "handler"], Unset),
   MCRaw([provider |-> "other"], Unset), MCRaw([provider |-> "github"], MCClient("okta")),
   MCRaw(Unset, MCClient("okta")), MCRaw([allowed |-> {"bob@x"}], MCClient("github")),
   MCRaw([groups |-> {"g2"}, allowed |-> {"ann@x", "bob@x"}], MCClient("gitlab")),
   MCRaw([groups |-> {"g3"}, allowed |-> {"ann@x"}], MCClient("gitlab")),
   MCRaw([basic |-> {"u"}], MCClient("google")), MCRaw(Unset, Unset)}

(* Console: an app on Redis and one without a broker URL, a worker each. *)
MCAppNames == <<"A", "B">>
MCBrokerOf == [A |-> "redis", B |-> ""]
MCTasksOf == [A |-> {"x"}, B |-> {"x", "y"}]
MCTaskQueues == [A |-> {}, B |-> {"prio"}]
MCTaskQueue == [A |-> "celery", B |-> "prio"]
MCAppOf == [w \in Workers |-> IF w = w1 THEN "A" ELSE "B"]
MCConsumes == [w \in Workers |-> IF w = w1 THEN {"celery"} ELSE {"prio"}]
MCSubmissions == {[name |-> "x", queue |-> None]}

(* Graph: a root, a child of it in a group, and a task of the root that names no
   parent. *)
MCLinks(parent, group, root) ==
  [c \in Columns |-> CASE c = "parent" -> parent [] c = "group" -> group
                       [] c = "root" -> root [] OTHER -> None]
MCLinkEvent(t, s, ts, cols) == [task |-> t, state |-> s, ts |-> ts, retries |-> None, cols |-> cols]
MCGraphEvents ==
  {MCLinkEvent(t1, "RECEIVED", 0, MCLinks(None, None, None)),
   MCLinkEvent(t2, "RECEIVED", 0, MCLinks(t1, g1, t1)),
   MCLinkEvent(t2, "SUCCESS", MaxTime, MCLinks(None, None, None)),
   MCLinkEvent(t3, "STARTED", MaxTime, MCLinks(None, None, t1))}
MCGraphEdges == {[root |-> t1, parent |-> None, child |-> t2, relation |-> "group"]}
MCNodes == TaskIds \cup {g1}

(* Smart retry: a diamond with a shortcut and a tail, cycles and a self-loop. *)
MCRelations ==
  {<<t1, t2>>, <<t1, t3>>, <<t1, t4>>, <<t2, t3>>, <<t2, t4>>, <<t3, t4>>,
   <<t4, t2>>, <<t4, t1>>, <<t3, t3>>}

-----------------------------------------------------------------------------
Rest(p) ==
  /\ p # "pages" => UNCHANGED pageVars
  /\ p # "sign-in" => UNCHANGED signVars
  /\ p # "console" => UNCHANGED consoleVars
  /\ p # "graph" => UNCHANGED graphVars
  /\ p # "schedules" => UNCHANGED scheduleVars
  /\ p # "retry" => UNCHANGED retryVars

WebInit ==
  /\ PagesInit /\ SignInInit /\ ConsoleInit /\ GraphInit /\ SchedulesInit /\ RetryInit
  /\ part \in {"pages", "sign-in", "console", "graph", "schedules", "retry"}
  /\ part # "console" => up = {}
  /\ part # "schedules" => usable = TRUE
  /\ part # "retry" => rootRelations = {}
  /\ part # "sign-in" => config = LoadAuthConfig(MCRaw(Unset, Unset))

PagesPart == part = "pages" /\ PagesNext /\ Rest(part)
SignInPart == part = "sign-in" /\ SignInNext /\ Rest(part)
ConsolePart == part = "console" /\ ConsoleNext /\ Rest(part)
GraphPart == part = "graph" /\ GraphNext /\ Rest(part)
SchedulesPart == part = "schedules" /\ SchedulesNext /\ Rest(part)
RetryPart ==
  /\ part = "retry"
  /\ \/ RetryNext
     \/ phase \in {"done", "raised"} /\ UNCHANGED retryVars
  /\ Rest(part)

WebNext ==
  /\ PagesPart \/ SignInPart \/ ConsolePart \/ GraphPart \/ SchedulesPart \/ RetryPart
  /\ UNCHANGED part

webVars == <<pageVars, signVars, consoleVars, graphVars, scheduleVars, retryVars, part>>

WebSpec == WebInit /\ [][WebNext]_webVars

(* Each part keeps its types; those that stand still are in their initial state. *)
WebTypeOK ==
  /\ part = "pages" => PagesTypeOK
  /\ part = "sign-in" => SignInTypeOK
  /\ part = "console" => ConsoleTypeOK
  /\ part = "graph" => GraphTypeOK
  /\ part = "schedules" => SchedulesTypeOK
  /\ part = "retry" => RetryTypeOK
=============================================================================
