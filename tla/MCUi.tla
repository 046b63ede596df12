--------------------------------- MODULE MCUi ---------------------------------
(* Three browser pages, each on its own: the analytics dashboard with two  *)
(* sites of which one has a domain filter, the operations console and the  *)
(* Bitcoin Signals page; and, on its own too, the check of a statement the *)
(* console sends.  Tabs with one report behave as the overview.            *)
EXTENDS AnalyticsUi, ConsoleUi, SignalsUi, SqlStatement

VARIABLE open  \* the page that is open

MCSites == {"sa", "sb"}
MCHosts == [sa |-> {"host"}, sb |-> {}]

(* Short texts over every symbol, longer ones over those that interact.    *)
Symbols == {"SELECT", "WITH", "UPDATE", "name", "1", "0xe", Newline, "'", DoubleQuote, "[", "]",
            "-", "/", "*", Semicolon, "?", ":"}
Nested == {"UPDATE", Newline, "'", "-", "/", "*", Semicolon}
Signed == {"name", "1", "0xe", Newline, "'", "-", Semicolon}
MCTexts ==
  UNION {[1..n -> Symbols] : n \in 0..3}
    \cup {<<"SELECT">> \o t : t \in UNION {[1..n -> Nested] : n \in 3..5}}
    \cup {<<"SELECT", Newline>> \o t : t \in UNION {[1..n -> Signed] : n \in 2..4}}

FirstVisit == [site |-> NoSite, range |-> DefaultRange, domain |-> AllHosts, tab |-> "overview"]
Bookmark == [site |-> "sb", range |-> "7d", domain |-> AllHosts, tab |-> "settings"]

PagesInit ==
  /\ open \in {"analytics", "console", "signals", "statement"}
  /\ UiInit /\ ConsoleInit /\ SignalsUiInit /\ SqlInit
  /\ open # "statement" => text = <<>>
  /\ url \in {FirstVisit, Bookmark}
  /\ open # "analytics" => view = "login" /\ url = FirstVisit

PagesNext ==
  \/ open = "analytics" /\ UiNext /\ UNCHANGED <<open, consoleVars, signalsUiVars, sqlVars>>
  \/ open = "console" /\ ConsoleNext /\ UNCHANGED <<open, uiVars, signalsUiVars, sqlVars>>
  \/ open = "signals" /\ SignalsUiNext /\ UNCHANGED <<open, uiVars, consoleVars, sqlVars>>
  \/ open = "statement" /\ SqlNext /\ UNCHANGED <<open, uiVars, consoleVars, signalsUiVars>>

PagesSpec ==
  /\ PagesInit /\ [][PagesNext]_<<open, uiVars, consoleVars, signalsUiVars, sqlVars>>
  /\ \A q \in Slots : WF_uiVars(AnswerArrives(q))
=============================================================================
