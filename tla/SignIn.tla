-------------------------------- MODULE SignIn --------------------------------
(***************************************************************************)
(* One browser's way in and out of the service: the pages that send it to  *)
(* sign in and remember where it was going (auth-redirect.js), the sign-in *)
(* itself (routes/auth/controller.js, routes/auth/stub/controller.js), the *)
(* pages signed in, and the sign-out, in several tabs at once.             *)
(*                                                                         *)
(* A request reads the session of its cookie when it begins, and stores it *)
(* whole when it is answered: of two overlapping requests the last to be   *)
(* answered decides, on the record and on the cookie.                      *)
(***************************************************************************)
EXTENDS Integers

CONSTANTS
    Tabs,          \* the browser's tabs
    Caseworkers,   \* the accounts with the regulator role
    SupportUsers,  \* the accounts with the read-only support role
    Nobody,        \* no account
    StubModes,     \* whether the stub sign-in is enabled: a subset of BOOLEAN
    MaxSessions,   \* bounds the session identifiers
    MaxNumber      \* bounds the numbers of redirects and attempts

Members == Caseworkers \cup SupportUsers

ASSUME AccountsAssumption ==
    /\ Caseworkers \cap SupportUsers = {}
    /\ Nobody \notin Members
    /\ StubModes \subseteq BOOLEAN
    /\ MaxSessions \in Nat \ {0}
    /\ MaxNumber \in Nat

VARIABLES
    stub,    \* whether the stub sign-in is enabled
    cookie,  \* the session identifier the browser holds
    store,   \* the session stored under each identifier
    issued,  \* the identifiers issued so far
    minted,  \* the numbers minted so far, for redirects and attempts alike
    tab      \* what each tab shows, or the request it waits for

vars == <<stub, cookie, store, issued, minted, tab>>

-----------------------------------------------------------------------------
(* Pages and roles.                                                        *)

\* A page any member may see, one for caseworkers, one for support users.
Targets == {"work-items", "assign", "backend-status"}

NoRole == "any"
Standard == "standard"
SupportReadonly == "support-readonly"

RequiredRoleFor(target) ==
    CASE target = "assign" -> Standard
      [] target = "backend-status" -> SupportReadonly
      [] OTHER -> NoRole

RoleOf(user) == IF user \in Caseworkers THEN Standard ELSE SupportReadonly

\* Whether the page is shown to that role, and not refused.
Admits(target, role) == RequiredRoleFor(target) \in {NoRole, role}

-----------------------------------------------------------------------------
(* Sessions. Numbers stand for the random values: 0 is none.               *)

NoStash == [target |-> "work-items", nonce |-> 0, role |-> NoRole]

Stash(target, nonce, role) == [target |-> target, nonce |-> nonce, role |-> role]

\* "rt" is kept for the properties only: the code does not store it.
NoAttempt == [state |-> 0, rt |-> 0]

Blank == [user |-> Nobody, filters |-> Nobody, stash |-> NoStash, oauth |-> NoAttempt]

SignedIn(user) == [Blank EXCEPT !.user = user]

\* Faulty variant of ConfirmPostLoginRedirect, used by no specification: an
\* abandoned stash is kept.
KeepingConfirm(rec, rt) == rec

ConfirmPostLoginRedirect(rec, rt) ==
    IF rec.stash.nonce # rt THEN [rec EXCEPT !.stash = NoStash] ELSE rec

\* The role is the one that was stashed with the page. The fallback is the work
\* list, which is also the target of NoStash.
PopPostLoginRedirect(rec, role) ==
    IF rec.stash.role \in {NoRole, role} THEN rec.stash.target ELSE "work-items"

-----------------------------------------------------------------------------
(* What a tab shows: a page, the way to the sign-in page with the nonce it *)
(* carries, the stub's chooser, the identity provider, or the way to the   *)
(* page a sign-in leads to.                                                *)

Page == [at |-> "page"]
ToLogin(rt) == [at |-> "login", rt |-> rt]
Chooser(rt) == [at |-> "chooser", rt |-> rt]
Provider(state) == [at |-> "provider", state |-> state]
Landing(target) == [at |-> "landing", target |-> target]

Waiting(t) == tab[t].at = "waiting"

\* A request begins: it holds a copy of the session the cookie names.
Begin(t, kind, arg) ==
    /\ tab' = [tab EXCEPT ![t] =
            [at |-> "waiting", kind |-> kind, arg |-> arg,
             sid |-> cookie, rec |-> store[cookie]]]
    /\ UNCHANGED <<stub, cookie, store, issued, minted>>

BeginVisit(t, target) ==
    /\ ~Waiting(t)
    /\ tab[t].at = "landing" => target = tab[t].target
    /\ Begin(t, "visit", target)

\* The sign-in page, on the redirect's way there or by its own address. With
\* the stub enabled it is the chooser, which leads on to the provider.
BeginLogin(t, rt) ==
    \/ /\ ~Waiting(t)
       /\ rt = IF tab[t].at = "login" THEN tab[t].rt ELSE 0
       /\ Begin(t, IF stub THEN "chooser" ELSE "login", rt)
    \/ /\ tab[t] = Chooser(rt)
       /\ Begin(t, "login", rt)

\* The provider sends the browser back, with the state it was given.
BeginCallback(t) ==
    /\ tab[t].at = "provider"
    /\ Begin(t, "callback", tab[t].state)

BeginStubLogin(t, user) ==
    /\ tab[t].at = "chooser"
    /\ Begin(t, "stub login", user)

BeginLogout(t) ==
    /\ tab[t] = Page
    /\ Begin(t, "logout", 0)

-----------------------------------------------------------------------------
(* A request is answered.                                                  *)

Answering(t, kind) == Waiting(t) /\ tab[t].kind = kind

Shows(t, what) == tab' = [tab EXCEPT ![t] = what]

\* External: a session that was written is stored whole, under the identifier
\* the request came with, and its cookie is issued again.
Commit(t, rec) ==
    /\ store' = [store EXCEPT ![tab[t].sid] = rec]
    /\ cookie' = tab[t].sid
    /\ issued' = issued

Untouched == UNCHANGED <<store, cookie, issued>>

\* External: a reset drops the record and moves to an identifier never used.
Reset(t, rec) ==
    /\ issued < MaxSessions
    /\ issued' = issued + 1
    /\ store' = [store EXCEPT ![tab[t].sid] = Blank, ![issued + 1] = rec]
    /\ cookie' = issued + 1

\* Faulty variant of Establish, used by no specification: the session that is
\* signed in to is the one that was there.
KeepingEstablish(t, user) == Commit(t, [tab[t].rec EXCEPT !.user = user, !.stash = NoStash])

\* The session a sign-in leaves: a new one that holds the user.
Establish(t, user) == Reset(t, SignedIn(user))

\* Faulty variant of NeedsLogin, used by no specification: a 403 is sent to
\* sign in as well.
ForbiddenNeedsLogin(rec, target) ==
    rec.user = Nobody \/ ~Admits(target, RoleOf(rec.user))

NeedsLogin(rec, target) == rec.user = Nobody

\* Faulty variant of RedirectToLogin, used by no specification: a page that the
\* session remembers already keeps the role it was remembered for.
StaleRoleRedirect(t) ==
    /\ minted < MaxNumber
    /\ minted' = minted + 1
    /\ Commit(t, [tab[t].rec EXCEPT !.stash =
            Stash(tab[t].arg, minted + 1,
                  IF @ = NoStash THEN RequiredRoleFor(tab[t].arg) ELSE @.role)])
    /\ Shows(t, ToLogin(minted + 1))

\* redirectToLogin: the page is remembered, with the role it takes, under a number
\* that goes along.
RedirectToLogin(t) ==
    /\ minted < MaxNumber
    /\ minted' = minted + 1
    /\ Commit(t, [tab[t].rec EXCEPT !.stash =
            Stash(tab[t].arg, minted + 1, RequiredRoleFor(tab[t].arg))])
    /\ Shows(t, ToLogin(minted + 1))

\* The work list saves its filters in the session it was given; any other page,
\* and the refusal of one, leaves the session alone.
ShowPage(t) ==
    /\ minted' = minted
    /\ IF tab[t].arg = "work-items"
         THEN Commit(t, [tab[t].rec EXCEPT !.filters = tab[t].rec.user])
         ELSE Untouched
    /\ Shows(t, Page)

AnswerVisit(t) ==
    /\ Answering(t, "visit")
    /\ IF NeedsLogin(tab[t].rec, tab[t].arg) THEN RedirectToLogin(t) ELSE ShowPage(t)
    /\ stub' = stub

AnswerChooser(t) ==
    /\ Answering(t, "chooser")
    /\ Commit(t, ConfirmPostLoginRedirect(tab[t].rec, tab[t].arg))
    /\ Shows(t, Chooser(tab[t].arg))
    /\ UNCHANGED <<stub, minted>>

\* regulatorLogin; the provider's configuration may be out of reach, which is
\* answered after the stash was confirmed or dropped.
AnswerLogin(t) ==
    /\ Answering(t, "login")
    /\ LET rec == ConfirmPostLoginRedirect(tab[t].rec, tab[t].arg) IN
       \/ /\ Commit(t, rec)
          /\ Shows(t, Page)
          /\ minted' = minted
       \/ /\ minted < MaxNumber
          /\ minted' = minted + 1
          /\ Commit(t, [rec EXCEPT !.oauth = [state |-> minted + 1, rt |-> tab[t].arg]])
          /\ Shows(t, Provider(minted + 1))
    /\ stub' = stub

StateMatches(t) == tab[t].arg = tab[t].rec.oauth.state

\* The callback of an attempt that is no longer the session's.
AnswerStrayCallback(t) ==
    /\ Answering(t, "callback")
    /\ ~StateMatches(t)
    /\ Untouched
    /\ Shows(t, ToLogin(0))
    /\ UNCHANGED <<stub, minted>>

\* The tokens are not to be had, or name an account with neither role: the
\* attempt is spent, the stash is not.
AnswerFailedCallback(t) ==
    /\ Answering(t, "callback")
    /\ StateMatches(t)
    /\ Commit(t, [tab[t].rec EXCEPT !.oauth = NoAttempt])
    /\ Shows(t, ToLogin(0)) \/ Shows(t, Page)
    /\ UNCHANGED <<stub, minted>>

\* The tokens name the user.
AnswerCallback(t, user) ==
    /\ Answering(t, "callback")
    /\ StateMatches(t)
    /\ Establish(t, user)
    /\ Shows(t, Landing(PopPostLoginRedirect(tab[t].rec, RoleOf(user))))
    /\ UNCHANGED <<stub, minted>>

AnswerStubLogin(t) ==
    /\ Answering(t, "stub login")
    /\ Establish(t, tab[t].arg)
    /\ Shows(t, Landing(PopPostLoginRedirect(tab[t].rec, RoleOf(tab[t].arg))))
    /\ UNCHANGED <<stub, minted>>

AnswerLogout(t) ==
    /\ Answering(t, "logout")
    /\ Reset(t, Blank)
    /\ Shows(t, Page)
    /\ UNCHANGED <<stub, minted>>

\* The request is given up before anything of it is stored.
Interrupt(t) ==
    /\ Waiting(t)
    /\ Shows(t, Page)
    /\ UNCHANGED <<stub, cookie, store, issued, minted>>

-----------------------------------------------------------------------------
Init ==
    /\ stub \in StubModes
    /\ cookie = 1
    /\ issued = 1
    /\ store = [s \in 1..MaxSessions |-> Blank]
    /\ minted = 0
    /\ tab = [t \in Tabs |-> Page]

BeginRequest(t) ==
    \/ \E target \in Targets : BeginVisit(t, target)
    \/ \E rt \in 0..MaxNumber : BeginLogin(t, rt)
    \/ \E user \in Members : BeginStubLogin(t, user)
    \/ BeginCallback(t) \/ BeginLogout(t)

AnswerRequest(t) ==
    \/ AnswerVisit(t) \/ AnswerChooser(t) \/ AnswerLogin(t)
    \/ AnswerStrayCallback(t) \/ AnswerFailedCallback(t)
    \/ \E user \in Members : AnswerCallback(t, user)
    \/ AnswerStubLogin(t) \/ AnswerLogout(t) \/ Interrupt(t)

Next == \E t \in Tabs : BeginRequest(t) \/ AnswerRequest(t)

Spec == Init /\ [][Next]_vars

-----------------------------------------------------------------------------
Numbers == 0..MaxNumber

Stashes ==
    [target : Targets, nonce : Numbers, role : {NoRole, Standard, SupportReadonly}]

Records ==
    [user : Members \cup {Nobody}, filters : Members \cup {Nobody},
     stash : Stashes,
     oauth : [state : Numbers, rt : Numbers]]

Places ==
    {Page} \cup [at : {"login", "chooser"}, rt : Numbers]
           \cup [at : {"provider"}, state : Numbers]
           \cup [at : {"landing"}, target : Targets]

Request(kinds, args) ==
    [at : {"waiting"}, kind : kinds, arg : args, sid : 1..MaxSessions, rec : Records]

Requests ==
    Request({"visit"}, Targets)
        \cup Request({"chooser", "login", "callback"}, Numbers)
        \cup Request({"stub login"}, Members) \cup Request({"logout"}, {0})

\* A session that is signed in remembers no page to go to after signing in.
NoStashSignedIn(rec) == rec.user # Nobody => rec.stash = NoStash

\* The variables have their types, and no session is both signed in and on its
\* way to be, in the store or in the hands of a request.
TypeOK ==
    /\ stub \in BOOLEAN
    /\ issued \in 1..MaxSessions
    /\ cookie \in 1..issued
    /\ minted \in Numbers
    /\ store \in [1..MaxSessions -> Records]
    /\ tab \in [Tabs -> Places \cup Requests]
    /\ \A s \in 1..MaxSessions : NoStashSignedIn(store[s])
    /\ \A t \in Tabs : Waiting(t) => NoStashSignedIn(tab[t].rec)

SameAccount(u, v) == u = v \/ u = Nobody \/ v = Nobody

\* A session identifier never changes hands: whoever is signed in to a request
\* that was given it, and whoever is signed in to the session stored under it,
\* is one and the same account, however late the request is answered.
OneAccountPerSession ==
    \A t \in Tabs : Waiting(t) =>
        /\ SameAccount(tab[t].rec.user, store[tab[t].sid].user)
        /\ \A r \in Tabs : Waiting(r) /\ tab[r].sid = tab[t].sid =>
             SameAccount(tab[t].rec.user, tab[r].rec.user)

\* Whoever was given identifier s may act as user by it: the session stored
\* under it says so, or a request that was given it and is yet to be answered.
ActsAs(s, user) ==
    \/ store[s].user = user
    \/ \E t \in Tabs : Waiting(t) /\ tab[t].sid = s /\ tab[t].rec.user = user

NoIssuedSignedInto ==
    \A s \in 1..MaxSessions : s <= issued =>
        \A user \in Members : ActsAs(s, user)' => ActsAs(s, user)

\* An identifier that was already given out is never signed in to afterwards,
\* by no sign-in and no late answer: whoever knew it before a sign-in cannot
\* act by it as the one who signed in.
IssuedNeverSignedInto == [][NoIssuedSignedInto]_vars

\* The filters a session restores are those its own user applied, although the
\* work list that saved them may be answered after a sign-out and a sign-in.
FiltersOfTheirOwner ==
    \A s \in 1..MaxSessions : store[s].filters \in {Nobody, store[s].user}

Current(rec) ==
    rec.stash = NoStash \/ rec.stash.nonce = rec.oauth.rt
        \/ rec.stash.nonce > rec.oauth.state

\* A page an abandoned attempt was to lead to is not where a later one leads: a
\* callback that is about to be honoured finds the page of the very redirect
\* its attempt began with, of a redirect that came after it began, or none.
AbandonedPageIsNotReplayed ==
    \A t \in Tabs : Answering(t, "callback") /\ StateMatches(t) => Current(tab[t].rec)

SignsIn(t) == AnswerStubLogin(t) \/ \E user \in Members : AnswerCallback(t, user)

\* Where the account that has just signed in is led, from the page its session
\* remembered.
Leads(asked, role, target) ==
    /\ Admits(target, role)
    /\ Admits(asked, role) => target = asked

\* A sign-in leads to no page its own role is refused, and not away from one it
\* may see, whichever tab's redirect remembered the page and however often it was
\* remembered anew, dropped, or stored again by a late request of another tab: the
\* role a session remembers is always that of the page it remembers.
LandsWhereAdmitted ==
    [][\A t \in Tabs : SignsIn(t) =>
        Leads(tab[t].rec.stash.target, RoleOf(store'[cookie'].user), tab'[t].target)]_vars
=============================================================================
