------------------------------ MODULE WorkList ------------------------------
(***************************************************************************)
(* The work item list in a session (routes/work-items/controller.js): one  *)
(* browser, several tabs, and the last search kept in the session so that  *)
(* a bare landing comes back to it. A request sets or clears the saved     *)
(* search when it arrives, in its own copy of the session, and the copy is *)
(* stored when the answer goes out, after the backend was asked.           *)
(*                                                                         *)
(* A sign-in starts a new session. Requests that overlap one are the       *)
(* subject of SignIn; here one happens between requests.                   *)
(***************************************************************************)
EXTENDS WorkListSearch

CONSTANTS
    Tabs,       \* the tabs of the browser
    Forms,      \* what the filter form may be submitted with
    Texts,      \* what may be typed in a search box
    Bookmarks,  \* the other links that lead to the list
    Items,      \* the work items to compare a list with
    MaxPages    \* bounds the pages of an answer

ASSUME MaxPagesAssumption == MaxPages \in Nat \ {0}

VARIABLES
    user,       \* who is signed in
    saved,      \* the session's workItemsListFilters, Bare if it has none
    tab,        \* the page each tab shows, or the request it waits for
    lastSearch  \* the search of the last list that was drawn for a query

vars == <<user, saved, tab, lastSearch>>

-----------------------------------------------------------------------------
Ticks == [Groups -> SUBSET UNION {Options[g] : g \in Groups}]

Officers == Users \cup {Nobody}

SearchTexts == Texts \cup {NoText}

Queries ==
    [ticked : Ticks, sort : Sorts \cup {"absent", "unknown"},
     mode : Modes \cup {"absent", "any"}, officer : Officers,
     organisation : SearchTexts, search : SearchTexts,
     archived : BOOLEAN, applied : BOOLEAN, page : 0..MaxPages]

\* The declaration of the one type of work item there is.
Declared == INSTANCE Lifecycle

ASSUME ItemsAssumption ==
    \A item \in Items :
        item.typeId = ReAccreditation /\ item.stateId \in Declared!States

ASSUME QueriesAssumption == Forms \cup Bookmarks \subseteq Queries

Filters ==
    [ticked : Ticks, sort : Sorts \cup {"none"}, sortExplicit : BOOLEAN,
     mode : Modes \cup {"any"}, modeExplicit : BOOLEAN, officer : Officers,
     organisation : SearchTexts, search : SearchTexts,
     archived : BOOLEAN, applied : BOOLEAN, page : 1..MaxPages]

Closed == [is |-> "closed"]

Shows(t) == tab[t].is = "list"

Waits(t) == tab[t].is = "waiting"

DefaultSearch(u) == BackendQuery(ReadFilters(Bare, u), u)

-----------------------------------------------------------------------------
\* The handler up to its first await: the query it works from, which is also
\* the one it leaves saved.
Arrive(t, q, clear) ==
    LET effective == IF clear THEN Bare
                     ELSE IF HasFilterParams(q) THEN q ELSE saved IN
    /\ ~Waits(t)
    /\ tab' = [tab EXCEPT ![t] =
            [is |-> "waiting",
             filters |-> ReadFilters(effective, user),
             saving |-> clear \/ HasFilterParams(q),
             saved |-> effective]]
    /\ UNCHANGED <<user, saved, lastSearch>>

\* The navigation's link, a redirect back to the list, a typed address.
Land(t) == Arrive(t, Bare, FALSE)

Follow(t, q) == Arrive(t, q, FALSE)

\* The form carries the marker of a submission, and no free-text search.
SubmitForm(t, q) ==
    /\ Shows(t)
    /\ Arrive(t, [q EXCEPT !.applied = TRUE, !.search = NoText, !.page = 0], FALSE)

\* Pagination is drawn when there is more than one page.
FollowPageLink(t, n) ==
    /\ Shows(t)
    /\ tab[t].pages > 1
    /\ n \in 1..tab[t].pages
    /\ Arrive(t, PageHref(tab[t].filters, n), FALSE)

RemoveChip(t, chip) ==
    /\ Shows(t)
    /\ chip \in Chips(tab[t].filters)
    /\ Arrive(t, Href(WithoutFilter(tab[t].filters, chip)), FALSE)

\* "Clear all filters" is drawn with the chips.
ClearAll(t) ==
    /\ Shows(t)
    /\ Chips(tab[t].filters) # {}
    /\ Arrive(t, Bare, TRUE)

\* The backend's answer (external: how many pages match; none when it fails),
\* and what the handler does with it. The session is stored if it was changed.
Answer(t, pages) ==
    LET r == tab[t] IN
    /\ Waits(t)
    /\ tab' = [tab EXCEPT ![t] =
            [is |-> "list", filters |-> r.filters, pages |-> pages, user |-> user]]
    /\ saved' = IF r.saving THEN r.saved ELSE saved
    /\ lastSearch' = IF r.saving THEN BackendQuery(r.filters, user) ELSE lastSearch
    /\ UNCHANGED user

\* Faulty variant of SignIn, used by no specification: the session, and the
\* search in it, is carried over.
KeepingSignIn(u) ==
    /\ \A t \in Tabs : ~Waits(t)
    /\ user' = u
    /\ lastSearch' = DefaultSearch(u)
    /\ UNCHANGED <<saved, tab>>

SignIn(u) ==
    /\ \A t \in Tabs : ~Waits(t)
    /\ user' = u
    /\ saved' = Bare
    /\ lastSearch' = DefaultSearch(u)
    /\ UNCHANGED tab

-----------------------------------------------------------------------------
Init ==
    /\ user \in Users
    /\ saved = Bare
    /\ tab = [t \in Tabs |-> Closed]
    /\ lastSearch = DefaultSearch(user)

TabStep(t) ==
    \/ Land(t)
    \/ \E q \in Bookmarks : Follow(t, q)
    \/ \E q \in Forms : SubmitForm(t, q)
    \/ \E n \in 1..MaxPages : FollowPageLink(t, n)
    \/ Shows(t) /\ \E chip \in Chips(tab[t].filters) : RemoveChip(t, chip)
    \/ ClearAll(t)
    \/ \E n \in 1..MaxPages : Answer(t, n)

Next ==
    \/ \E t \in Tabs : TabStep(t)
    \/ \E u \in Users : SignIn(u)

Spec == Init /\ [][Next]_vars

-----------------------------------------------------------------------------
Lists == [is : {"list"}, filters : Filters, pages : 1..MaxPages, user : Users]

Requests == [is : {"waiting"}, filters : Filters, saving : BOOLEAN, saved : Queries]

\* The variables have their types: filters hold only values the route knows.
TypeOK ==
    /\ user \in Users
    /\ saved \in Queries
    /\ tab \in [Tabs -> {Closed} \cup Lists \cup Requests]

\* A list shows exactly the items its ticked boxes and radio ask for, as their
\* texts and the items' own cards put it: a started case is found under "Duly
\* made", a first-step refusal under "Refused", ticking both applicant types is
\* not asking for one of them, whichever way the search was come by.
ListedAsTicked ==
    \A t \in Tabs : Shows(t) =>
        LET f == tab[t].filters
            query == BackendQuery(f, tab[t].user)
        IN  \A item \in Items :
                Matches(query, item) <=> AsTicked(f, tab[t].user, item)

\* A bare landing, in any tab, lists what the last search of this session
\* listed, down to its page; after "Clear all filters" or a sign-in, the
\* default list of whoever is signed in now, never the search of another.
BareShowsLastSearch ==
    [][\A t \in Tabs : Land(t) =>
            BackendQuery(tab'[t].filters, user) = lastSearch]_vars

\* What the link to page n asks is what the page shows, but for the page. (A
\* sort or assignment the address held but the route did not know is the
\* exception: it is dropped from the link, and the default takes its place.)
KeepsSearch(t, n) ==
    LET f == tab[t].filters
        dropped == ~f.applied /\ (f.sort = "none" \/ f.mode = "any")
    IN  (FollowPageLink(t, n) /\ tab[t].user = user /\ ~dropped
            /\ PageHref(f, n) # Bare)
        => BackendQuery(tab'[t].filters, user)
                = [BackendQuery(f, user) EXCEPT !.page = n]

\* What a link of a page to its page n asks, when the link carries anything at
\* all and the reader is still the one it was drawn for: the same search, page
\* n, whatever was searched elsewhere since.
PageLinkKeepsSearch ==
    [][\A t \in Tabs : \A n \in 1..MaxPages : KeepsSearch(t, n)]_vars

\* The filters after a tag was removed are those before, but for the tag.
DropsOnly(t, chip) ==
    LET before == tab[t].filters
        after == tab'[t].filters
    IN  RemoveChip(t, chip) =>
        /\ \A g \in Groups :
                after.ticked[g] = {v \in before.ticked[g] : <<g, v>> # chip}
        /\ after.sort = IF before.sortExplicit /\ chip[1] # "sort"
                          THEN before.sort ELSE "none"
        /\ after.mode = IF before.modeExplicit /\ chip[1] # "assignment"
                          THEN before.mode ELSE "any"
        /\ chip[1] # "organisation" => after.organisation = before.organisation
        /\ chip[1] # "archived" => after.archived = before.archived
        /\ after.search = before.search
        /\ chip \notin Chips(after)

\* Removing a tag drops the one filter it names, keeps every other one the
\* reader chose, and brings no default back: not the nation of the reader's
\* role, nor the sort or the assignment just removed.
ChipDropsOnlyItsFilter ==
    [][\A t \in Tabs : Shows(t) =>
            \A chip \in Chips(tab[t].filters) : DropsOnly(t, chip)]_vars

\* A link to page n of a list leads to page n: "Each href preserves the active
\* filters", and "any request with a query string", a pagination link among
\* them, is itself the last-applied search (comments of buildPagination and of
\* the handler).
PageLinkShowsItsPage ==
    [][\A t \in Tabs : \A n \in 1..MaxPages :
            FollowPageLink(t, n) => tab'[t].filters.page = n]_vars
=============================================================================
