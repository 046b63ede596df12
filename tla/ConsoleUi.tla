------------------------------- MODULE ConsoleUi -------------------------------
(***************************************************************************)
(* The operations console in a browser: sections that load when they are   *)
(* first opened, a schema browser and a read-only workbench.  Answers are  *)
(* used in the order they arrive, and each handler reads the page-wide     *)
(* state of its moment: the chosen database, the page number and whether   *)
(* the last result has more pages.                                         *)
(***************************************************************************)
EXTENDS Naturals, FiniteSets

CONSTANTS
  Databases,   \* databases of the inventory
  LastPage,    \* pages a statement has
  MaxAsked,    \* a bound on the requests in flight
  NoDatabase

ASSUME PagesAreNumbers == LastPage \in Nat \ {0} /\ MaxAsked \in Nat
ASSUME NoneIsNoDatabase == NoDatabase \notin Databases

VARIABLES
  console,  \* "checking", "open" or "left"
  opened,   \* sections opened so far
  section,  \* what each section shows
  database, page, hasMore,
  tree,     \* database whose tables the browser lists
  result,   \* database and page of the rows shown
  nextOn,   \* the button for the next page is enabled
  asked,    \* requests in flight
  raced     \* history: an answer of the workbench met a newer choice

consoleVars == <<console, opened, section, database, page, hasMore, tree,
                 result, nextOn, asked, raced>>

Sections == {"overview", "projects", "databases", "jobs", "system"}
Ask(k, d, p) == [kind |-> k, db |-> d, page |-> p]
Asks(kinds) == {r \in asked : r.kind \in kinds}
Rows(d, p) == [db |-> d, page |-> p]
NoRows == Rows(NoDatabase, 0)
Room == console = "open" /\ Cardinality(asked) < MaxAsked

ConsoleInit ==
  /\ console = "checking" /\ opened = {}
  /\ section = [s \in Sections |-> "blank"]
  /\ database = NoDatabase /\ page = 1 /\ hasMore = FALSE
  /\ tree = NoDatabase /\ result = NoRows /\ nextOn = TRUE
  /\ asked = {} /\ raced = FALSE

(* Only an administrator stays; any later 401 or 403 leaves the page, as   *)
(* signing out does.                                                       *)
Identified ==
  /\ console = "checking"
  /\ \E s \in Sections :
       \/ console' = "open" /\ opened' = {s} /\ asked' = {Ask(s, NoDatabase, 0)}
       \/ console' = "left" /\ UNCHANGED <<opened, asked>>
  /\ UNCHANGED <<section, database, page, hasMore, tree, result, nextOn, raced>>

Leave ==
  /\ console = "open" /\ console' = "left" /\ asked' = {}
  /\ UNCHANGED <<opened, section, database, page, hasMore, tree, result, nextOn, raced>>

(* A section loads once, whether its load succeeds or not.                 *)
OpenSection(s) ==
  /\ Room
  /\ opened' = opened \cup {s}
  /\ asked' = IF s \in opened THEN asked ELSE asked \cup {Ask(s, NoDatabase, 0)}
  /\ UNCHANGED <<console, section, database, page, hasMore, tree, result, nextOn, raced>>

SectionAnswer(r) ==
  /\ r.kind \in Sections \ {"databases"}
  /\ \E shows \in {"data", "failed"} : section' = [section EXCEPT ![r.kind] = shows]
  /\ asked' = asked \ {r}
  /\ UNCHANGED <<console, opened, database, page, hasMore, tree, result, nextOn, raced>>

MoreAsBefore == hasMore
MoreAfterChoice == FALSE

(* Choosing a database starts over at its first page and reads its schema. *)
LoadSchema(d, others) ==
  /\ database' = d /\ page' = 1 /\ hasMore' = MoreAfterChoice /\ tree' = NoDatabase
  /\ asked' = others \cup {Ask("schema", d, 0)}
  /\ raced' = (raced \/ {r \in others : r.kind \in {"schema", "query"}} # {})
  /\ UNCHANGED <<console, opened, result, nextOn>>

(* The inventory chooses its first reachable database.                     *)
InventoryAnswer(r) ==
  /\ r.kind = "databases"
  /\ \/ /\ section' = [section EXCEPT !["databases"] = "data"]
        /\ \E d \in Databases : LoadSchema(d, asked \ {r})
     \/ /\ section' = [section EXCEPT !["databases"] = "failed"]
        /\ asked' = asked \ {r}
        /\ UNCHANGED <<console, opened, database, page, hasMore, tree, result, nextOn, raced>>

ChooseDatabase(d) ==
  /\ Room /\ section["databases"] = "data"
  /\ LoadSchema(d, asked) /\ UNCHANGED section

(* A saved statement is read again and then brings its database along.     *)
LoadStatement(d) ==
  /\ Room /\ section["databases"] = "data"
  /\ asked' = asked \cup {Ask("statement", d, 0)}
  /\ UNCHANGED <<console, opened, section, database, page, hasMore, tree, result, nextOn, raced>>

StatementAnswer(r) ==
  /\ r.kind = "statement"
  /\ \/ LoadSchema(r.db, asked \ {r})
     \/ /\ asked' = asked \ {r}
        /\ UNCHANGED <<console, opened, database, page, hasMore, tree, result, nextOn, raced>>
  /\ UNCHANGED section

(* Tables, or an error where they would be.                                *)
SchemaAnswer(r) ==
  /\ r.kind = "schema"
  /\ tree' \in {r.db, NoDatabase}
  /\ asked' = asked \ {r}
  /\ UNCHANGED <<console, opened, section, database, page, hasMore, result, nextOn, raced>>

(* Run, previous and next ask for a page of the chosen database.           *)
RunQuery(p) ==
  /\ Room /\ section["databases"] = "data"
  /\ \/ p = 1
     \/ p = page - 1 /\ page > 1
     \/ p = page + 1 /\ hasMore /\ nextOn
  /\ asked' = asked \cup {Ask("query", database, p)}
  /\ raced' = (raced \/ Asks({"query"}) # {})
  /\ UNCHANGED <<console, opened, section, database, page, hasMore, tree, result, nextOn>>

(* The server reads one row more than a page holds, to know whether there  *)
(* is another.                                                             *)
HasMore(p) == p < LastPage

QueryAnswer(r) ==
  /\ r.kind = "query" /\ asked' = asked \ {r}
  /\ \/ /\ page' = r.page /\ result' = Rows(r.db, r.page)
        /\ hasMore' = HasMore(r.page) /\ nextOn' = HasMore(r.page)
     \/ /\ result' = NoRows /\ nextOn' = FALSE /\ UNCHANGED <<page, hasMore>>
  /\ UNCHANGED <<console, opened, section, database, tree, raced>>

(* Saving, deleting and exporting a statement change nothing the workbench *)
(* reads: their requests are left out.                                     *)
ConsoleNext ==
  \/ Identified \/ Leave
  \/ \E s \in Sections : OpenSection(s)
  \/ \E d \in Databases : ChooseDatabase(d) \/ LoadStatement(d)
  \/ \E p \in 1..LastPage : RunQuery(p)
  \/ \E r \in asked :
       SectionAnswer(r) \/ InventoryAnswer(r) \/ StatementAnswer(r)
         \/ SchemaAnswer(r) \/ QueryAnswer(r)

ConsoleSpec == ConsoleInit /\ [][ConsoleNext]_consoleVars

-----------------------------------------------------------------------------
(* Unless a choice overtook an answer, the tables listed are those of the  *)
(* chosen database, and where another page can be asked for, it continues  *)
(* the rows shown in their own database (loadSchema forgets the page and   *)
(* what follows it; runQuery takes the database of the moment).            *)
WorkbenchIsConsistent ==
  console = "open" /\ ~raced =>
    /\ tree \in {database, NoDatabase}
    /\ hasMore /\ nextOn => result = Rows(database, page)
=============================================================================
