------------------------------ MODULE AnalyticsUi ------------------------------
(***************************************************************************)
(* The analytics dashboard in a browser.  One page-wide state is read and  *)
(* written by every event handler, and a handler that waits for an answer  *)
(* goes on with whatever the state has become.  A switch of site begins a  *)
(* new epoch, and answers to older requests are dropped; nothing else      *)
(* does: a second load of a tab, a late answer to a settings form or an    *)
(* expired session act on the state they find.                             *)
(*                                                                         *)
(* A load of a tab is one request here: the page waits for all of them     *)
(* before it renders, and an answer or a failure of each card is an answer *)
(* or a failure of the panel.  "cur" tells whether the epoch of a request  *)
(* is the page's.  The card of live sessions is not modelled.              *)
(***************************************************************************)
EXTENDS Naturals

CONSTANTS
  Sites,     \* sites the account can read
  Owned,     \* those it may edit
  Reports,   \* tabs that show one report: pages, acquisition, events
  Ranges,    \* date ranges; an incomplete custom range is the default one
  DefaultRange,
  Hosts,     \* Hosts[s]: registered domains of a site
  AllHosts,  \* no domain filter
  Slots,     \* 1..n, places for requests in flight
  MaxClicks, \* a bound on what the user does
  NoSite

ASSUME OwnedAreSites == Owned \subseteq Sites /\ NoSite \notin Sites
ASSUME SlotsAreNumbers == Slots \subseteq Nat /\ 1 \in Slots
ASSUME DefaultIsRange == DefaultRange \in Ranges
ASSUME HostsOfSites == DOMAIN Hosts = Sites /\ \A s \in Sites : AllHosts \notin Hosts[s]

VARIABLES
  view,    \* "login" or "app"
  site, range, domain, tab, loaded,
  panel,   \* what each loaded tab shows
  form,    \* site whose values fill the settings forms
  busy,    \* header controls are disabled
  url,     \* site, range, domain and tab last written to the address
  flight,  \* requests in flight
  crossed, \* history: an answer for another site overtook a switch
  drifted, \* history: a load overlapped another, or filters are half chosen
  clicks

uiVars == <<view, site, range, domain, tab, loaded, panel, form, busy, url,
            flight, crossed, drifted, clicks>>

Tabs == {"overview", "search", "settings"} \cup Reports
Domains == {AllHosts} \cup UNION {Hosts[s] : s \in Sites}
Answer(s, r, d) == [error |-> FALSE, site |-> s, range |-> r, domain |-> d]
Blank == Answer(NoSite, DefaultRange, AllHosts)
Failed == [Blank EXCEPT !.error = TRUE]
Answers == {Answer(s, r, d) : s \in Sites, r \in Ranges, d \in Domains}

Request(k) == [kind |-> k, site |-> NoSite, tab |-> "overview",
               range |-> DefaultRange, domain |-> AllHosts,
               cur |-> TRUE, frees |-> FALSE, by |-> "page"]
Idle == Request("idle")
InFlight(q, k) == flight[q].kind = k
Outdated ==
  [r \in Slots |-> [flight[r] EXCEPT !.cur = @ /\ flight[r].kind \notin {"select", "load", "status"}]]
LoadsInFlight(t) ==
  {r \in Slots : flight[r].kind \in {"load", "status"} /\ flight[r].cur /\ flight[r].tab = t}

UiTypeOK ==
  /\ view \in {"login", "app"} /\ site \in Sites \cup {NoSite}
  /\ range \in Ranges /\ domain \in Domains /\ tab \in Tabs
  /\ loaded \subseteq Tabs
  /\ panel \in [Tabs -> Answers \cup {Blank, Failed}]
  /\ form \in Sites \cup {NoSite}
  /\ clicks \in 0..MaxClicks /\ {busy, crossed, drifted} \subseteq BOOLEAN
  /\ \A q \in Slots : flight[q].site \in Sites \cup {NoSite}

(* Starting the page reads the address; a kept session goes straight to    *)
(* the list of sites.                                                      *)
UiInit ==
  /\ url \in [site : Sites \cup {NoSite}, range : Ranges, domain : {AllHosts}, tab : Tabs]
  /\ range = url.range /\ domain = url.domain /\ tab = url.tab
  /\ view \in {"login", "app"}
  /\ flight = [r \in Slots |-> IF r = 1 /\ view = "app" THEN Request("sites") ELSE Idle]
  /\ site = NoSite /\ form = NoSite
  /\ loaded = {} /\ panel = [t \in Tabs |-> Blank]
  /\ clicks = 0 /\ busy = FALSE /\ crossed = FALSE /\ drifted = FALSE

\* Requests and answers shared by the handlers

(* The only free slot worth choosing: a bound on the requests in flight.   *)
FreeSlot(q) == InFlight(q, "idle") /\ \A r \in Slots : InFlight(r, "idle") => q <= r

UpdateUrl(s, r, d, t) ==
  url' = IF s = NoSite THEN url ELSE [site |-> s, range |-> r, domain |-> d, tab |-> t]

(* A load of tab t for the parameters now chosen.                          *)
Loading(t, s, r, d, frees, by) ==
  [Request(IF t = "search" THEN "status" ELSE "load")
     EXCEPT !.tab = t, !.site = s, !.range = r, !.domain = d, !.frees = frees, !.by = by]

(* The settings forms are filled when their tab is loaded.                 *)
FillForms(t, s) == IF t = "settings" THEN s ELSE form

(* Tab t is loaded again and the others when they are next opened: a panel *)
(* whose tab is not loaded is filled before it is seen.                    *)
ReloadTab(q, t, s, r, d, keep) ==
  IF s = NoSite
    THEN /\ loaded' = keep
         /\ UNCHANGED <<flight, panel, form, drifted>>
    ELSE /\ loaded' = keep \cup {t}
         /\ flight' = [flight EXCEPT ![q] = Loading(t, s, r, d, FALSE, "page")]
         /\ panel' = [u \in Tabs |-> IF u \in keep \ {t} THEN panel[u] ELSE Blank]
         /\ form' = FillForms(t, s)
         /\ drifted' = (\/ LoadsInFlight(t) # {}
                        \/ drifted /\ (keep # {} \/ \E u \in Tabs : LoadsInFlight(u) # {}))

ShowLogin == view' = "login"

SignOutLocal ==
  /\ ShowLogin /\ site' = NoSite

Select(q, s, by) ==
  /\ flight' = [Outdated EXCEPT ![q] = [Request("select") EXCEPT !.site = s, !.by = by]]
  /\ busy' = TRUE

(* The epoch check of a handler that goes on after an answer.              *)
AnyEpoch(q) == TRUE
Current(q) == flight[q].cur

(* What a finished request does to the header controls: the newest switch  *)
(* gives them back, whatever became of its load.                           *)
ReleasesAfterLoad(q) == flight[q].cur /\ flight[q].frees
Releases(q) == flight[q].cur /\ (flight[q].frees \/ InFlight(q, "select"))
Settled(q) == flight' = [flight EXCEPT ![q] = Idle] /\ busy' = (busy /\ ~Releases(q))

\* Signing in and out

SignIn(q) ==
  /\ view = "login" /\ FreeSlot(q)
  /\ \A r \in Slots : flight[r].by # "login"
  /\ flight' = [flight EXCEPT ![q] = [Request("login") EXCEPT !.by = "login"]]
  /\ UNCHANGED <<view, site, range, domain, tab, loaded, panel, form, busy, url, crossed, drifted>>

SignInAnswer(q) ==
  /\ InFlight(q, "login")
  /\ \/ /\ view' = "app"
        /\ flight' = [flight EXCEPT ![q] = [Request("sites") EXCEPT !.by = "login"]]
     \/ flight' = [flight EXCEPT ![q] = Idle] /\ UNCHANGED view
  /\ UNCHANGED <<site, range, domain, tab, loaded, panel, form, busy, url, crossed, drifted>>

(* The site of the address when it is listed, the first one otherwise;     *)
(* no site at all; or no list.                                             *)
SitesAnswer(q) ==
  /\ InFlight(q, "sites")
  /\ \/ /\ \E s \in Sites : (url.site \in Sites => s = url.site) /\ Select(q, s, flight[q].by)
        /\ UNCHANGED <<view>>
     \/ flight' = [flight EXCEPT ![q] = Idle] /\ UNCHANGED <<view, busy>>
     \/ flight' = [flight EXCEPT ![q] = Idle] /\ ShowLogin /\ UNCHANGED busy
  /\ UNCHANGED <<site, range, domain, tab, loaded, panel, form, url, crossed, drifted>>

SignOut ==
  /\ view = "app" /\ SignOutLocal
  /\ UNCHANGED <<range, domain, tab, loaded, panel, form, busy, url, flight, crossed, drifted>>

(* Any request may find the session expired, also one an earlier session   *)
(* sent: the page signs out.                                               *)
Unauthorized(q) ==
  /\ ~InFlight(q, "idle") /\ ~InFlight(q, "login")
  /\ SignOutLocal /\ Settled(q)
  /\ UNCHANGED <<range, domain, tab, loaded, panel, form, url, crossed, drifted>>

\* Sites

ChooseSite(q, s) ==
  /\ view = "app" /\ site # NoSite /\ ~busy /\ FreeSlot(q)
  /\ domain' = AllHosts /\ drifted' = (drifted \/ domain # AllHosts)
  /\ Select(q, s, "page")
  /\ UNCHANGED <<view, site, range, tab, loaded, panel, form, url, crossed>>

(* The site is taken over and its current tab loaded before the controls   *)
(* come back; a domain it does not have is dropped.  A load begun since    *)
(* the switch was asked for is still answered.                             *)
SelectAnswer(q) ==
  LET s == flight[q].site
      d == IF domain \in Hosts[s] THEN domain ELSE AllHosts
  IN
  /\ InFlight(q, "select") /\ flight[q].cur
  /\ site' = s /\ domain' = d
  /\ UpdateUrl(s, range, d, tab)
  /\ loaded' = {tab} /\ panel' = [t \in Tabs |-> Blank]
  /\ form' = FillForms(tab, s)
  /\ flight' = [flight EXCEPT ![q] = Loading(tab, s, range, d, TRUE, flight[q].by)]
  /\ crossed' = \E t \in Tabs : LoadsInFlight(t) # {}
  /\ drifted' = \E t \in Tabs : LoadsInFlight(t) # {}
  /\ UNCHANGED <<view, range, tab, busy>>

(* A switch that fails leaves the old site with its error shown in the     *)
(* overview; a switch overtaken by another does nothing.                   *)
SelectFails(q) ==
  /\ InFlight(q, "select") /\ flight[q].cur
  /\ panel' = [panel EXCEPT !["overview"] = Failed]
  /\ Settled(q)
  /\ UNCHANGED <<view, site, range, domain, tab, loaded, form, url, crossed, drifted>>

SelectDropped(q) ==
  /\ InFlight(q, "select") /\ ~flight[q].cur
  /\ flight' = [flight EXCEPT ![q] = Idle]
  /\ UNCHANGED <<view, site, range, domain, tab, loaded, panel, form, busy, url, crossed, drifted>>

CreateSite(q, s) ==
  /\ view = "app" /\ FreeSlot(q) /\ \A r \in Slots : flight[r].by # "create"
  /\ flight' = [flight EXCEPT ![q] = [Request("create") EXCEPT !.site = s, !.by = "create"]]
  /\ UNCHANGED <<view, site, range, domain, tab, loaded, panel, form, busy, url, crossed, drifted>>

(* The new site is stored, the list is read again, the new site selected.  *)
CreateAnswer(q) ==
  /\ \/ /\ InFlight(q, "create")
        /\ flight' = [flight EXCEPT ![q].kind = "created"] /\ UNCHANGED busy
     \/ InFlight(q, "created") /\ Select(q, flight[q].site, "create")
     \/ /\ flight[q].kind \in {"create", "created"}
        /\ flight' = [flight EXCEPT ![q] = Idle] /\ UNCHANGED busy
  /\ UNCHANGED <<view, site, range, domain, tab, loaded, panel, form, url, crossed, drifted>>

\* Tabs, filters and reports

SetTab(q, t) ==
  /\ view = "app" /\ FreeSlot(q)
  /\ tab' = t
  /\ UpdateUrl(site, range, domain, t)
  /\ IF t \in loaded THEN UNCHANGED <<loaded, flight, panel, form, drifted>>
                     ELSE ReloadTab(q, t, site, range, domain, loaded)
  /\ UNCHANGED <<view, site, range, domain, busy, crossed>>

AllLoads == loaded
KeptLoads == {}

(* Another domain, another range, a custom range applied (its button is    *)
(* never disabled) or the refresh button: every tab is to be loaded again. *)
ChangeFilters(q, r, d) ==
  /\ view = "app" /\ FreeSlot(q)
  /\ d # domain => ~busy
  /\ site # NoSite => d \in Hosts[site] \cup {AllHosts}
  /\ range' = r /\ domain' = d
  /\ UpdateUrl(site, r, d, tab)
  /\ ReloadTab(q, tab, site, r, d, KeptLoads)
  /\ UNCHANGED <<view, site, tab, busy, crossed>>

(* Choosing "custom" waits for its dates: until then what is loaded stays  *)
(* and what is opened uses the default range.                              *)
ChooseCustom ==
  /\ view = "app" /\ ~busy /\ range # DefaultRange
  /\ range' = DefaultRange /\ drifted' = TRUE
  /\ UNCHANGED <<view, site, domain, tab, loaded, panel, form, busy, url, flight, crossed>>

Retry(q) ==
  /\ view = "app" /\ FreeSlot(q) /\ site # NoSite
  /\ tab \in loaded /\ panel[tab] = Failed
  /\ ReloadTab(q, tab, site, range, domain, loaded)
  /\ UNCHANGED <<view, site, range, domain, tab, busy, url, crossed>>

Shown(q) == Answer(flight[q].site, flight[q].range, flight[q].domain)

Arrives(q, tabs) ==
  /\ InFlight(q, "load") /\ flight[q].tab \in tabs
  /\ \E result \in {Shown(q), Failed} :
       panel' = IF Current(q) THEN [panel EXCEPT ![flight[q].tab] = result] ELSE panel
  /\ Settled(q)
  /\ UNCHANGED <<view, site, range, domain, tab, loaded, form, url, crossed, drifted>>

OverviewAnswer(q) == Arrives(q, {"overview"})
ReportAnswer(q) == Arrives(q, Reports)
SearchAnswer(q) == Arrives(q, {"search"})
SettingsLoaded(q) == Arrives(q, {"settings"})

(* The search tab asks for the collection's status first: a property that  *)
(* has nothing to report, or a failure, ends there; otherwise the reports  *)
(* are asked for the site and range of this moment.                        *)
StatusAnswer(q) ==
  /\ InFlight(q, "status")
  /\ \/ /\ \E result \in {Shown(q), Failed} :
             panel' = IF Current(q) THEN [panel EXCEPT !["search"] = result] ELSE panel
        /\ Settled(q)
     \/ /\ flight[q].cur /\ site # NoSite
        /\ flight' = [flight EXCEPT ![q] = [@ EXCEPT !.kind = "load", !.site = site,
                                                     !.range = range, !.domain = domain]]
        /\ UNCHANGED <<panel, busy>>
  /\ UNCHANGED <<view, site, range, domain, tab, loaded, form, url, crossed, drifted>>

\* Settings

(* The general and privacy forms, the domain list and the member list send *)
(* a change of the site of this moment.                                    *)
SendSettings(q, k) ==
  /\ view = "app" /\ tab = "settings" /\ site \in Owned /\ FreeSlot(q)
  /\ flight' = [flight EXCEPT ![q] = [Request(k) EXCEPT !.site = site]]
  /\ UNCHANGED <<view, site, range, domain, tab, loaded, panel, form, busy, url, crossed, drifted>>

(* A stored form, and the detail read after a domain changed, replace the  *)
(* page's site with the answer's, whichever site is selected by then.      *)
SettingsAnswer(q) ==
  /\ flight[q].kind \in {"save", "detail"}
  /\ flight' = [flight EXCEPT ![q] = Idle]
  /\ site' = flight[q].site
  /\ crossed' = (crossed \/ site # flight[q].site)
  /\ UNCHANGED <<view, range, domain, tab, loaded, panel, form, busy, url, drifted>>

(* After a domain or a member changed, its list is read for the site of    *)
(* this moment; a member list is shown whichever site is selected then.    *)
ReadBack(q) ==
  /\ flight[q].kind \in {"domain", "member"} /\ site # NoSite
  /\ flight' = [flight EXCEPT ![q] =
       [@ EXCEPT !.kind = IF flight[q].kind = "domain" THEN "detail" ELSE "members",
                 !.site = site]]
  /\ UNCHANGED <<view, site, range, domain, tab, loaded, panel, form, busy, url, crossed, drifted>>

MembersAnswer(q) ==
  /\ InFlight(q, "members")
  /\ flight' = [flight EXCEPT ![q] = Idle]
  /\ panel' = IF panel["settings"] \in {Blank, Failed} THEN panel
              ELSE [panel EXCEPT !["settings"] = [@ EXCEPT !.site = flight[q].site]]
  /\ crossed' = (crossed \/ site # flight[q].site)
  /\ UNCHANGED <<view, site, range, domain, tab, loaded, form, busy, url, drifted>>

SettingsFail(q) ==
  /\ flight[q].kind \in {"save", "domain", "detail", "member", "members"}
  /\ flight' = [flight EXCEPT ![q] = Idle]
  /\ UNCHANGED <<view, site, range, domain, tab, loaded, panel, form, busy, url, crossed, drifted>>

\* The browser

(* History returns to the address last written; a site that is no longer   *)
(* the page's is selected, with the tab of the address.                    *)
PopState(q) ==
  /\ view = "app" /\ FreeSlot(q)
  /\ tab' = url.tab /\ range' = url.range /\ domain' = url.domain
  /\ IF url.site # NoSite /\ site # NoSite /\ url.site # site
       THEN /\ Select(q, url.site, "page") /\ loaded' = {}
            /\ UNCHANGED <<panel, form, drifted>>
       ELSE /\ ReloadTab(q, url.tab, site, url.range, url.domain, {})
            /\ UNCHANGED busy
  /\ UNCHANGED <<view, site, url, crossed>>

Answered(q) ==
  \/ SignInAnswer(q) \/ SitesAnswer(q) \/ SelectAnswer(q) \/ SelectDropped(q)
  \/ SelectFails(q) \/ CreateAnswer(q) \/ StatusAnswer(q)
  \/ OverviewAnswer(q) \/ ReportAnswer(q) \/ SearchAnswer(q) \/ SettingsLoaded(q)
  \/ SettingsAnswer(q) \/ ReadBack(q) \/ MembersAnswer(q) \/ SettingsFail(q)
  \/ Unauthorized(q)

AnswerArrives(q) == Answered(q) /\ UNCHANGED clicks

UserActs ==
  \/ SignOut \/ ChooseCustom
  \/ \E q \in Slots :
       \/ SignIn(q) \/ Retry(q) \/ PopState(q)
       \/ \E s \in Sites : ChooseSite(q, s) \/ CreateSite(q, s)
       \/ \E t \in Tabs : SetTab(q, t)
       \/ \E r \in Ranges, d \in Domains : ChangeFilters(q, r, d)
       \/ \E k \in {"save", "domain", "member"} : SendSettings(q, k)

UiNext ==
  \/ clicks < MaxClicks /\ clicks' = clicks + 1 /\ UserActs
  \/ \E q \in Slots : AnswerArrives(q)

(* Fairness: the browser ends every request, with an answer or an error.   *)
UiSpec == UiInit /\ [][UiNext]_uiVars /\ \A q \in Slots : WF_uiVars(AnswerArrives(q))

-----------------------------------------------------------------------------
(* Unless a load was begun during a switch of site, or a settings answer   *)
(* came after one, no panel and no form shows another site than the page's *)
(* (loads and switches in analytics.js overlap freely; the epoch check is  *)
(* what keeps an abandoned site's answers out).                            *)
PanelsFollowSite ==
  ~crossed /\ view = "app" /\ site # NoSite =>
    /\ \A t \in loaded : panel[t] \in Answers => panel[t].site = site
    /\ "settings" \in loaded => form = site

(* What a loaded tab shows is for the range and domain the header shows:   *)
(* no filter leaves a tab of the old filter marked as loaded.  Excepted    *)
(* are loads of a tab that overlap, a custom range half chosen, and a      *)
(* domain dropped by choosing a site whose reports have not come, each     *)
(* until the tabs are loaded afresh with no load in flight.                *)
PanelsFollowFilters ==
  ~drifted /\ ~crossed /\ view = "app" /\ site # NoSite =>
    \A t \in loaded : panel[t] \in Answers =>
      panel[t].range = range /\ (t # "search" => panel[t].domain = domain)

(* The header's controls, disabled while a site is selected, come back     *)
(* whatever becomes of the switch, its load, the session or the next       *)
(* switch.                                                                 *)
ControlsComeBack == busy ~> ~busy

(* A switch of site is followed by reports of the selected site.           *)
SwitchShowsSelected ==
  view = "app" /\ site # NoSite =>
    \A t \in loaded : panel[t] \in Answers => panel[t].site = site
=============================================================================
