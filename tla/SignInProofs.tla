---------------------------- MODULE SignInProofs ----------------------------
(***************************************************************************)
(* Proofs about SignIn, for any accounts, tabs and bounds. The strengthened *)
(* invariant says of every session, stored or held by a request, what must *)
(* be true of it whenever a late request stores it: Sound. Requests hold   *)
(* identifiers that were issued, so that a fresh one is nobody's yet.      *)
(***************************************************************************)
EXTENDS SignIn, TLAPS

\* What holds of every session when n numbers were minted.
Sound(rec, n) ==
    /\ NoStashSignedIn(rec)
    /\ rec.filters \in {Nobody, rec.user}
    /\ Current(rec)
    /\ rec.stash = NoStash \/ rec.stash.nonce > 0
    /\ rec.stash.nonce <= n
    /\ rec.oauth.state <= n
    /\ rec.stash.role = RequiredRoleFor(rec.stash.target)

SessionsSound ==
    /\ \A s \in 1..MaxSessions : Sound(store[s], minted)
    /\ \A t \in Tabs : Waiting(t) => Sound(tab[t].rec, minted)

HeldWereIssued == \A t \in Tabs : Waiting(t) => tab[t].sid <= issued

IInv == TypeOK /\ SessionsSound /\ HeldWereIssued /\ OneAccountPerSession

-----------------------------------------------------------------------------
(* The operators on sessions.                                              *)

\* No stash is the one of a page that takes no role.
LEMMA NoStashFacts ==
    /\ NoStash \in Stashes /\ NoStash.nonce = 0 /\ NoStash.target = "work-items"
    /\ NoStash.role = RequiredRoleFor(NoStash.target)
  BY AccountsAssumption DEF NoStash, Stashes, Targets, Numbers, RequiredRoleFor

\* A session read, or a new one, is a record of its type.
LEMMA BlankType == Blank \in Records /\ \A u \in Members : SignedIn(u) \in Records
  BY AccountsAssumption, NoStashFacts DEF Blank, SignedIn, Records, NoAttempt, Numbers

\* A session that was reset is sound, whoever is signed in to it.
LEMMA BlankSound ==
    ASSUME NEW n \in Nat
    PROVE  Sound(Blank, n) /\ \A u \in Members : Sound(SignedIn(u), n)
  BY NoStashFacts DEF Sound, Blank, SignedIn, NoStashSignedIn, Current, NoAttempt

\* A session stays sound as more numbers are minted.
LEMMA SoundLater ==
    ASSUME NEW rec \in Records, NEW n \in Nat, NEW m \in Nat, n <= m, Sound(rec, n)
    PROVE  Sound(rec, m)
  BY AccountsAssumption DEF Sound, Records, Stashes, Numbers

\* Confirming the stash keeps a session sound and of its type, and leaves in it
\* a stash of that redirect or none.
LEMMA ConfirmSound ==
    ASSUME NEW rec \in Records, NEW n \in Nat, NEW rt \in Numbers, Sound(rec, n)
    PROVE  LET c == ConfirmPostLoginRedirect(rec, rt) IN
           /\ c \in Records
           /\ Sound(c, n)
           /\ c.user = rec.user
           /\ c.stash = NoStash \/ c.stash.nonce = rt
<1> USE AccountsAssumption
<1> DEFINE c == ConfirmPostLoginRedirect(rec, rt)
<1>1. CASE rec.stash.nonce # rt
  <2>1. c = [rec EXCEPT !.stash = NoStash]
    BY <1>1 DEF ConfirmPostLoginRedirect
  <2>2. NoStash \in Stashes /\ NoStash.nonce = 0
    BY NoStashFacts
  <2>3. c \in Records /\ c.stash = NoStash /\ c.user = rec.user
          /\ c.filters = rec.filters /\ c.oauth = rec.oauth
    BY <2>1, <2>2 DEF Records
  <2> QED
    BY <2>2, <2>3, NoStashFacts DEF Sound, NoStashSignedIn, Current
<1>2. CASE rec.stash.nonce = rt
  BY <1>2 DEF ConfirmPostLoginRedirect
<1> QED
  BY <1>1, <1>2

\* The page popped is a target.
LEMMA PopType ==
    ASSUME NEW rec \in Records, NEW role
    PROVE  PopPostLoginRedirect(rec, role) \in Targets
  BY DEF PopPostLoginRedirect, Records, Stashes, Targets

\* Of a session that remembers the role its page takes, the page popped is where
\* the role is to be led.
LEMMA PopLeads ==
    ASSUME NEW rec \in Records, NEW n \in Nat, Sound(rec, n), NEW role
    PROVE  Leads(rec.stash.target, role, PopPostLoginRedirect(rec, role))
  BY DEF PopPostLoginRedirect, Leads, Admits, Sound, RequiredRoleFor,
         NoRole, Standard, SupportReadonly

\* What a waiting tab holds, by type.
LEMMA WaitingType ==
    ASSUME TypeOK, NEW t \in Tabs, Waiting(t)
    PROVE  /\ tab[t] \in Requests
           /\ tab[t].rec \in Records
           /\ tab[t].sid \in 1..MaxSessions
           /\ tab[t].kind = "visit" => tab[t].arg \in Targets
           /\ tab[t].kind \in {"chooser", "login", "callback"} => tab[t].arg \in Numbers
           /\ tab[t].kind = "stub login" => tab[t].arg \in Members
<1>1. tab[t] \in Places \cup Requests
  BY DEF TypeOK
<1>2. tab[t] \notin Places
  BY DEF Waiting, Places, Page
<1>3. tab[t] \in Requests
  BY <1>1, <1>2
<1> QED
  BY <1>3 DEF Requests, Request

-----------------------------------------------------------------------------
(* Storing a session, by the two ways there are, keeps the invariant when  *)
(* what is stored is sound.                                                *)

\* A commit of a sound session of the same user, or of nobody, by a tab that
\* goes on to a place.
LEMMA CommitKeeps ==
    ASSUME IInv, NEW t \in Tabs, Waiting(t),
           NEW rec \in Records, NEW place \in Places,
           Sound(rec, minted'), rec.user = tab[t].rec.user,
           minted' \in Numbers, minted <= minted', stub' = stub,
           Commit(t, rec), Shows(t, place)
    PROVE  IInv'
<1> USE AccountsAssumption
<1>1. tab[t].rec \in Records /\ tab[t].sid \in 1..MaxSessions /\ tab[t].sid <= issued
  BY WaitingType DEF IInv, HeldWereIssued
<1>2. \A r \in Tabs : Waiting(r)' => r # t /\ tab'[r] = tab[r] /\ Waiting(r)
  BY DEF Shows, Waiting, Places, Page, IInv, TypeOK
<1>3. \A s \in 1..MaxSessions : s # tab[t].sid => store'[s] = store[s]
  BY DEF Commit, IInv, TypeOK
<1>4. store'[tab[t].sid] = rec
  BY <1>1 DEF Commit, IInv, TypeOK
<1>5. minted \in Nat /\ minted' \in Nat
  BY DEF IInv, TypeOK, Numbers
<1>6. \A s \in 1..MaxSessions : store'[s] \in Records /\ Sound(store'[s], minted')
  BY <1>3, <1>4, <1>5, SoundLater DEF IInv, TypeOK, SessionsSound
<1>7. \A r \in Tabs : Waiting(r)' => tab'[r].rec \in Records /\ Sound(tab'[r].rec, minted')
  BY <1>2, <1>5, SoundLater, WaitingType DEF IInv, SessionsSound
<1>8. TypeOK'
  <2>1. store' \in [1..MaxSessions -> Records]
    BY <1>6 DEF Commit, IInv, TypeOK
  <2>2. tab' \in [Tabs -> Places \cup Requests]
    BY DEF Shows, IInv, TypeOK
  <2>3. issued' = issued /\ cookie' \in 1..issued
    BY <1>1 DEF Commit, IInv, TypeOK
  <2> QED
    BY <2>1, <2>2, <2>3, <1>6, <1>7 DEF TypeOK, IInv, Sound
<1>9. SessionsSound'
  BY <1>6, <1>7 DEF SessionsSound
<1>10. HeldWereIssued'
  BY <1>2 DEF HeldWereIssued, IInv, Commit
<1>11. OneAccountPerSession'
  <2> SUFFICES ASSUME NEW r \in Tabs, Waiting(r)'
               PROVE  /\ SameAccount(tab'[r].rec.user, store'[tab'[r].sid].user)
                      /\ \A q \in Tabs : Waiting(q)' /\ tab'[q].sid = tab'[r].sid =>
                           SameAccount(tab'[r].rec.user, tab'[q].rec.user)
    BY DEF OneAccountPerSession
  <2>1. tab'[r] = tab[r] /\ Waiting(r) /\ tab[r].sid \in 1..MaxSessions
    BY <1>2, WaitingType DEF IInv
  <2>2. SameAccount(tab[r].rec.user, store'[tab[r].sid].user)
    <3>1. CASE tab[r].sid = tab[t].sid
      BY <3>1, <2>1, <1>4 DEF IInv, OneAccountPerSession
    <3>2. CASE tab[r].sid # tab[t].sid
      BY <3>2, <2>1, <1>3 DEF IInv, OneAccountPerSession
    <3> QED BY <3>1, <3>2
  <2>3. \A q \in Tabs : Waiting(q)' /\ tab'[q].sid = tab[r].sid =>
          SameAccount(tab[r].rec.user, tab'[q].rec.user)
    BY <2>1, <1>2 DEF IInv, OneAccountPerSession
  <2> QED BY <2>1, <2>2, <2>3
<1> QED BY <1>8, <1>9, <1>10, <1>11 DEF IInv

\* A reset to a sound session, by a tab that goes on to a place.
LEMMA ResetKeeps ==
    ASSUME IInv, NEW t \in Tabs, Waiting(t),
           NEW rec \in Records, NEW place \in Places,
           Sound(rec, minted), UNCHANGED <<stub, minted>>,
           Reset(t, rec), Shows(t, place)
    PROVE  IInv'
<1> USE AccountsAssumption
<1>1. tab[t].sid \in 1..MaxSessions /\ tab[t].sid <= issued /\ issued \in 1..MaxSessions
  BY WaitingType DEF IInv, HeldWereIssued, TypeOK
<1>2. \A r \in Tabs : Waiting(r)' => r # t /\ tab'[r] = tab[r] /\ Waiting(r)
  BY DEF Shows, Waiting, Places, Page, IInv, TypeOK
<1>3. issued' = issued + 1 /\ issued' \in 1..MaxSessions /\ cookie' = issued'
  BY <1>1 DEF Reset
<1>4. /\ store'[issued'] = rec
      /\ store'[tab[t].sid] = Blank
      /\ \A s \in 1..MaxSessions : s # issued' /\ s # tab[t].sid => store'[s] = store[s]
  BY <1>1, <1>3 DEF Reset, IInv, TypeOK
<1>5. minted \in Nat /\ minted' = minted
  BY DEF IInv, TypeOK, Numbers
<1>6. \A s \in 1..MaxSessions : store'[s] \in Records /\ Sound(store'[s], minted')
  BY <1>3, <1>4, <1>5, BlankType, BlankSound DEF IInv, TypeOK, SessionsSound
<1>7. \A r \in Tabs : Waiting(r)' => tab'[r].rec \in Records /\ Sound(tab'[r].rec, minted')
  BY <1>2, <1>5, WaitingType DEF IInv, SessionsSound
<1>8. TypeOK'
  <2>1. store' \in [1..MaxSessions -> Records]
    BY <1>6 DEF Reset, IInv, TypeOK
  <2>2. tab' \in [Tabs -> Places \cup Requests]
    BY DEF Shows, IInv, TypeOK
  <2> QED
    BY <2>1, <2>2, <1>3, <1>5, <1>6, <1>7 DEF TypeOK, IInv, Sound
<1>9. SessionsSound'
  BY <1>6, <1>7 DEF SessionsSound
<1>10. HeldWereIssued'
  <2> SUFFICES ASSUME NEW r \in Tabs, Waiting(r)' PROVE tab'[r].sid <= issued'
    BY DEF HeldWereIssued
  <2>0. Waiting(r) /\ TypeOK
    BY <1>2 DEF IInv
  <2>1. tab[r].sid <= issued /\ tab[r].sid \in 1..MaxSessions
    BY <2>0, WaitingType DEF IInv, HeldWereIssued
  <2>2. tab'[r].sid = tab[r].sid
    BY <1>2
  <2>3. issued <= issued' /\ issued \in Nat /\ issued' \in Nat
    BY <1>1, <1>3
  <2>4. tab[r].sid \in Nat
    BY <2>1
  <2> QED BY <2>1, <2>2, <2>3, <2>4
<1>11. OneAccountPerSession'
  <2> SUFFICES ASSUME NEW r \in Tabs, Waiting(r)'
               PROVE  /\ SameAccount(tab'[r].rec.user, store'[tab'[r].sid].user)
                      /\ \A q \in Tabs : Waiting(q)' /\ tab'[q].sid = tab'[r].sid =>
                           SameAccount(tab'[r].rec.user, tab'[q].rec.user)
    BY DEF OneAccountPerSession
  <2>1. tab'[r] = tab[r] /\ Waiting(r) /\ tab[r].sid \in 1..MaxSessions /\ tab[r].sid <= issued
    BY <1>2, WaitingType DEF IInv, HeldWereIssued
  <2>2. tab[r].sid # issued'
    BY <2>1, <1>1, <1>3
  <2>3. SameAccount(tab[r].rec.user, store'[tab[r].sid].user)
    <3>1. CASE tab[r].sid = tab[t].sid
      BY <3>1, <2>1, <1>4 DEF SameAccount, Blank
    <3>2. CASE tab[r].sid # tab[t].sid
      BY <3>2, <2>1, <2>2, <1>4 DEF IInv, OneAccountPerSession
    <3> QED BY <3>1, <3>2
  <2>4. \A q \in Tabs : Waiting(q)' /\ tab'[q].sid = tab[r].sid =>
          SameAccount(tab[r].rec.user, tab'[q].rec.user)
    BY <2>1, <1>2 DEF IInv, OneAccountPerSession
  <2> QED BY <2>1, <2>3, <2>4
<1> QED BY <1>8, <1>9, <1>10, <1>11 DEF IInv

\* A tab that goes on to a place, the sessions untouched.
LEMMA PlaceKeeps ==
    ASSUME IInv, NEW t \in Tabs, NEW place \in Places,
           Untouched, UNCHANGED <<stub, minted>>, Shows(t, place)
    PROVE  IInv'
<1>1. \A r \in Tabs : Waiting(r)' => r # t /\ tab'[r] = tab[r] /\ Waiting(r)
  BY DEF Shows, Waiting, Places, Page, IInv, TypeOK
<1>2. tab' \in [Tabs -> Places \cup Requests]
  BY DEF Shows, IInv, TypeOK
<1>3. TypeOK'
  BY <1>1, <1>2 DEF IInv, TypeOK, Untouched
<1>4. SessionsSound'
  BY <1>1 DEF IInv, SessionsSound, Untouched
<1>5. HeldWereIssued'
  BY <1>1 DEF IInv, HeldWereIssued, Untouched
<1>6. OneAccountPerSession'
  BY <1>1 DEF IInv, OneAccountPerSession, Untouched
<1> QED BY <1>3, <1>4, <1>5, <1>6 DEF IInv

\* What a request may ask for.
Asks(kind, arg) ==
    \/ kind = "visit" /\ arg \in Targets
    \/ kind \in {"chooser", "login", "callback"} /\ arg \in Numbers
    \/ kind = "stub login" /\ arg \in Members
    \/ kind = "logout" /\ arg = 0

\* A request that begins holds the session its cookie names.
LEMMA BeginKeeps ==
    ASSUME IInv, NEW t \in Tabs, NEW kind, NEW arg, Begin(t, kind, arg),
           Asks(kind, arg)
    PROVE  IInv'
<1> USE AccountsAssumption
<1> DEFINE req == [at |-> "waiting", kind |-> kind, arg |-> arg,
                   sid |-> cookie, rec |-> store[cookie]]
<1>1. /\ cookie \in 1..MaxSessions /\ cookie <= issued
      /\ store[cookie] \in Records
  <2>1. cookie \in 1..issued /\ issued \in 1..MaxSessions
    BY DEF IInv, TypeOK
  <2>2. cookie \in 1..MaxSessions /\ cookie <= issued
    BY <2>1
  <2> QED BY <2>2 DEF IInv, TypeOK
<1>2. req \in Requests
  <2>1. CASE kind = "visit" /\ arg \in Targets
    <3>1. req \in Request({"visit"}, Targets)
      BY <2>1, <1>1 DEF Request
    <3> QED BY <3>1 DEF Requests
  <2>2. CASE kind \in {"chooser", "login", "callback"} /\ arg \in Numbers
    <3>1. req \in Request({"chooser", "login", "callback"}, Numbers)
      BY <2>2, <1>1 DEF Request
    <3> QED BY <3>1 DEF Requests
  <2>3. CASE kind = "stub login" /\ arg \in Members
    <3>1. req \in Request({"stub login"}, Members)
      BY <2>3, <1>1 DEF Request
    <3> QED BY <3>1 DEF Requests
  <2>4. CASE kind = "logout" /\ arg = 0
    <3>1. req \in Request({"logout"}, {0})
      BY <2>4, <1>1 DEF Request
    <3> QED BY <3>1 DEF Requests
  <2> QED BY <2>1, <2>2, <2>3, <2>4 DEF Asks
<1>3. tab' \in [Tabs -> Places \cup Requests]
  BY <1>2 DEF Begin, IInv, TypeOK
<1>4. \A r \in Tabs : r # t => tab'[r] = tab[r]
  BY DEF Begin, IInv, TypeOK
<1>5. UNCHANGED <<stub, cookie, store, issued, minted>>
  BY DEF Begin
<1>6. \A r \in Tabs : Waiting(r)' /\ r # t => Waiting(r)
  BY <1>4 DEF Waiting
<1>7. tab'[t].sid = cookie /\ tab'[t].rec = store[cookie]
  <2>1. tab'[t] = req /\ req.sid = cookie /\ req.rec = store[cookie]
    BY DEF Begin, IInv, TypeOK
  <2> HIDE DEF req
  <2> QED BY <2>1
<1>8. Sound(store[cookie], minted)
  BY <1>1 DEF IInv, SessionsSound
<1>9. TypeOK'
  <2>1. \A r \in Tabs : Waiting(r)' => NoStashSignedIn(tab'[r].rec)
    BY <1>4, <1>6, <1>7, <1>8 DEF IInv, TypeOK, Sound
  <2> QED BY <2>1, <1>3, <1>5 DEF IInv, TypeOK
<1>10. SessionsSound'
  BY <1>4, <1>5, <1>6, <1>7, <1>8 DEF IInv, SessionsSound
<1>11. HeldWereIssued'
  BY <1>1, <1>4, <1>5, <1>6, <1>7 DEF IInv, HeldWereIssued
<1>12. OneAccountPerSession'
  <2> SUFFICES ASSUME NEW r \in Tabs, Waiting(r)'
               PROVE  /\ SameAccount(tab'[r].rec.user, store[tab'[r].sid].user)
                      /\ \A q \in Tabs : Waiting(q)' /\ tab'[q].sid = tab'[r].sid =>
                           SameAccount(tab'[r].rec.user, tab'[q].rec.user)
    BY <1>5 DEF OneAccountPerSession
  <2>1. \A u, v : SameAccount(u, v) => SameAccount(v, u)
    BY DEF SameAccount
  <2>2. \A u : SameAccount(u, u)
    BY DEF SameAccount
  <2>3. \A q \in Tabs : q # t /\ Waiting(q)' =>
          /\ tab'[q] = tab[q] /\ Waiting(q)
          /\ SameAccount(tab[q].rec.user, store[tab[q].sid].user)
    BY <1>4, <1>6 DEF IInv, OneAccountPerSession
  <2>4. CASE r = t
    <3>1. \A q \in Tabs : Waiting(q)' /\ tab'[q].sid = cookie =>
            SameAccount(store[cookie].user, tab'[q].rec.user)
      BY <2>1, <2>2, <2>3, <1>7
    <3> QED BY <3>1, <2>2, <2>4, <1>7
  <2>5. CASE r # t
    <3>1. SameAccount(tab'[r].rec.user, store[tab'[r].sid].user) /\ tab'[r] = tab[r]
            /\ Waiting(r)
      BY <2>3, <2>5
    <3>2. \A q \in Tabs : Waiting(q)' /\ tab'[q].sid = tab'[r].sid =>
            SameAccount(tab'[r].rec.user, tab'[q].rec.user)
      <4> TAKE q \in Tabs
      <4>1. CASE q = t
        BY <4>1, <3>1, <1>7
      <4>2. CASE q # t
        BY <4>2, <3>1, <2>3 DEF IInv, OneAccountPerSession
      <4> QED BY <4>1, <4>2
    <3> QED BY <3>1, <3>2
  <2> QED BY <2>4, <2>5
<1> QED BY <1>9, <1>10, <1>11, <1>12 DEF IInv

\* The places a tab goes on to are places.
LEMMA PlaceTypes ==
    /\ Page \in Places
    /\ \A n \in Numbers : /\ ToLogin(n) \in Places
                         /\ Chooser(n) \in Places
                         /\ Provider(n) \in Places
    /\ \A target \in Targets : Landing(target) \in Places
  BY DEF Page, ToLogin, Chooser, Provider, Landing, Places

-----------------------------------------------------------------------------
(* One lemma for each kind of answer.                                      *)

\* A visit: sent to sign in, or shown.
LEMMA VisitKeeps ==
    ASSUME IInv, NEW t \in Tabs, AnswerVisit(t)
    PROVE  IInv'
<1> USE AccountsAssumption
<1> DEFINE rec == tab[t].rec
<1>1. Waiting(t) /\ tab[t].kind = "visit" /\ TypeOK
  BY DEF AnswerVisit, Answering, IInv
<1>2. rec \in Records /\ tab[t].arg \in Targets /\ Sound(rec, minted)
  BY <1>1, WaitingType DEF IInv, SessionsSound
<1>3. minted \in Nat /\ minted \in Numbers
  BY <1>1 DEF TypeOK, Numbers
<1>4. CASE rec.user = Nobody
  <2> DEFINE stash == Stash(tab[t].arg, minted + 1, RequiredRoleFor(tab[t].arg))
             new == [rec EXCEPT !.stash = stash]
  <2>1. RedirectToLogin(t) /\ stub' = stub
    BY <1>4 DEF AnswerVisit, NeedsLogin
  <2>2. minted' = minted + 1 /\ minted + 1 \in Numbers /\ minted + 1 \in Nat
    BY <2>1, <1>3 DEF RedirectToLogin, Numbers
  <2>3. /\ stash \in Stashes /\ stash.nonce = minted + 1
        /\ stash.role = RequiredRoleFor(stash.target)
    BY <1>2, <2>2 DEF Stash, Stashes, RequiredRoleFor
  <2> HIDE DEF stash
  <2>4. /\ new \in Records /\ new.stash = stash
        /\ new.user = Nobody /\ new.filters = rec.filters /\ new.oauth = rec.oauth
    BY <1>2, <1>4, <2>3 DEF Records
  <2>5. rec.oauth.state \in Nat /\ rec.oauth.state <= minted
    BY <1>2 DEF Records, Numbers, Sound
  <2>6. Sound(new, minted')
    <3>1. new.stash.nonce > new.oauth.state /\ new.stash.nonce > 0
            /\ new.stash.nonce <= minted' /\ new.oauth.state <= minted'
      BY <2>2, <2>3, <2>4, <2>5, <1>3
    <3>2. new.filters \in {Nobody, new.user}
      BY <1>2, <1>4, <2>4 DEF Sound
    <3> HIDE DEF new
    <3> QED BY <3>1, <3>2, <2>3, <2>4 DEF Sound, NoStashSignedIn, Current
  <2>7. Commit(t, new) /\ Shows(t, ToLogin(minted + 1))
    BY <2>1 DEF RedirectToLogin, stash
  <2>8. ToLogin(minted + 1) \in Places
    BY <2>2, PlaceTypes
  <2>9. minted' \in Numbers /\ minted <= minted' /\ new.user = rec.user
    BY <2>2, <2>4, <1>3, <1>4
  <2> HIDE DEF new
  <2> QED BY <1>1, <2>1, <2>4, <2>6, <2>7, <2>8, <2>9, CommitKeeps
<1>5. CASE rec.user # Nobody
  <2>1. ShowPage(t) /\ stub' = stub
    BY <1>5 DEF AnswerVisit, NeedsLogin
  <2>2. minted' = minted /\ Shows(t, Page)
    BY <2>1 DEF ShowPage
  <2>3. CASE tab[t].arg = "work-items"
    <3> DEFINE new == [rec EXCEPT !.filters = rec.user]
    <3>1. Commit(t, new)
      BY <2>1, <2>3 DEF ShowPage
    <3>2. /\ new \in Records /\ new.user = rec.user /\ new.filters = rec.user
          /\ new.stash = rec.stash /\ new.oauth = rec.oauth
      BY <1>2 DEF Records
    <3>3. Sound(new, minted')
      BY <3>2, <1>2, <2>2 DEF Sound, NoStashSignedIn, Current
    <3> HIDE DEF new
    <3> QED BY <1>1, <1>3, <2>1, <2>2, <3>1, <3>2, <3>3, PlaceTypes, CommitKeeps
  <2>4. CASE tab[t].arg # "work-items"
    BY <2>1, <2>2, <2>4, PlaceTypes, PlaceKeeps DEF ShowPage
  <2> QED BY <2>3, <2>4
<1> QED BY <1>4, <1>5

\* A sign-in page, the chooser's or the provider's.
LEMMA LoginKeeps ==
    ASSUME IInv, NEW t \in Tabs, AnswerChooser(t) \/ AnswerLogin(t)
    PROVE  IInv'
<1> USE AccountsAssumption
<1> DEFINE rec == ConfirmPostLoginRedirect(tab[t].rec, tab[t].arg)
<1>1. Waiting(t) /\ tab[t].kind \in {"chooser", "login"} /\ TypeOK /\ stub' = stub
  BY DEF AnswerChooser, AnswerLogin, Answering, IInv
<1>2. tab[t].rec \in Records /\ tab[t].arg \in Numbers /\ Sound(tab[t].rec, minted)
  BY <1>1, WaitingType DEF IInv, SessionsSound
<1>3. minted \in Nat /\ minted \in Numbers
  BY <1>1 DEF TypeOK, Numbers
<1>4. /\ rec \in Records /\ Sound(rec, minted) /\ rec.user = tab[t].rec.user
      /\ rec.stash = NoStash \/ rec.stash.nonce = tab[t].arg
  BY <1>2, <1>3, ConfirmSound
<1> HIDE DEF rec
<1>5. CASE \E place \in Places : Commit(t, rec) /\ Shows(t, place) /\ minted' = minted
  BY <1>1, <1>3, <1>4, <1>5, CommitKeeps
<1>6. CASE /\ minted < MaxNumber /\ minted' = minted + 1
           /\ Commit(t, [rec EXCEPT !.oauth = [state |-> minted + 1, rt |-> tab[t].arg]])
           /\ Shows(t, Provider(minted + 1))
  <2> DEFINE new == [rec EXCEPT !.oauth = [state |-> minted + 1, rt |-> tab[t].arg]]
  <2>1. minted + 1 \in Numbers /\ minted + 1 \in Nat /\ minted <= minted'
    BY <1>3, <1>6 DEF Numbers
  <2>2. /\ new \in Records /\ new.user = rec.user /\ new.filters = rec.filters
        /\ new.stash = rec.stash
        /\ new.oauth.state = minted + 1 /\ new.oauth.rt = tab[t].arg
    BY <1>2, <1>4, <2>1 DEF Records
  <2>3. rec.stash.nonce \in Nat /\ rec.stash.nonce <= minted
    BY <1>4 DEF Records, Stashes, Numbers, Sound
  <2>4. rec.stash.nonce <= minted' /\ new.oauth.state <= minted'
    BY <2>2, <2>3, <1>3, <1>6
  <2> HIDE DEF new
  <2>5. Sound(new, minted')
    BY <1>4, <2>2, <2>4 DEF Sound, NoStashSignedIn, Current
  <2>6. Commit(t, new) /\ Shows(t, Provider(minted + 1))
    BY <1>6 DEF new
  <2> QED BY <1>1, <1>4, <1>6, <2>1, <2>2, <2>5, <2>6, PlaceTypes, CommitKeeps
<1> QED BY <1>1, <1>2, <1>5, <1>6, PlaceTypes DEF AnswerChooser, AnswerLogin, rec

\* A callback that signs nobody in.
LEMMA NoSignInKeeps ==
    ASSUME IInv, NEW t \in Tabs, AnswerStrayCallback(t) \/ AnswerFailedCallback(t)
    PROVE  IInv'
<1> USE AccountsAssumption
<1> DEFINE rec == tab[t].rec
           new == [rec EXCEPT !.oauth = NoAttempt]
<1>1. Waiting(t) /\ TypeOK /\ UNCHANGED <<stub, minted>>
  BY DEF AnswerStrayCallback, AnswerFailedCallback, Answering, IInv
<1>2. rec \in Records /\ Sound(rec, minted) /\ minted \in Nat /\ minted \in Numbers
  <2>1. rec \in Records
    BY <1>1, WaitingType
  <2>2. Sound(rec, minted)
    BY <1>1 DEF IInv, SessionsSound
  <2>3. minted \in Numbers /\ minted \in Nat
    BY <1>1 DEF TypeOK, Numbers
  <2> QED BY <2>1, <2>2, <2>3
<1>3. ToLogin(0) \in Places /\ Page \in Places /\ 0 \in Numbers
  BY PlaceTypes DEF Numbers
<1>4. CASE AnswerStrayCallback(t)
  BY <1>1, <1>3, <1>4, PlaceKeeps DEF AnswerStrayCallback
<1>5. CASE AnswerFailedCallback(t)
  <2>1. NoAttempt \in [state : Numbers, rt : Numbers] /\ NoAttempt.state = 0
    BY <1>3 DEF NoAttempt
  <2>2. /\ new \in Records /\ new.user = rec.user /\ new.filters = rec.filters
        /\ new.stash = rec.stash /\ new.oauth.state = 0
    BY <1>2, <2>1 DEF Records
  <2> HIDE DEF new
  <2>3. Sound(new, minted')
    BY <1>1, <1>2, <2>2 DEF Sound, NoStashSignedIn, Current
  <2>4. Commit(t, new) /\ \E place \in Places : Shows(t, place)
    BY <1>3, <1>5 DEF AnswerFailedCallback, new
  <2> QED BY <1>1, <1>2, <2>2, <2>3, <2>4, CommitKeeps
<1> QED BY <1>4, <1>5

\* A sign-in or a sign-out: a reset.
LEMMA SignInKeeps ==
    ASSUME IInv, NEW t \in Tabs, SignsIn(t) \/ AnswerLogout(t)
    PROVE  IInv'
<1>1. Waiting(t) /\ TypeOK /\ UNCHANGED <<stub, minted>> /\ minted \in Nat
  <2>1. Waiting(t) /\ UNCHANGED <<stub, minted>>
    BY DEF SignsIn, AnswerCallback, AnswerStubLogin, AnswerLogout, Answering
  <2>2. TypeOK /\ minted \in Nat
    BY DEF IInv, TypeOK, Numbers
  <2> QED BY <2>1, <2>2
<1>2. tab[t].rec \in Records
  BY <1>1, WaitingType
<1>3. CASE SignsIn(t)
  <2>1. PICK user \in Members, place \in Places : Establish(t, user) /\ Shows(t, place)
    <3>1. \A role : Landing(PopPostLoginRedirect(tab[t].rec, role)) \in Places
      BY <1>2, PopType, PlaceTypes
    <3>2. CASE AnswerStubLogin(t)
      <4>1. tab[t].arg \in Members
        BY <3>2, <1>1, WaitingType DEF AnswerStubLogin, Answering
      <4> QED BY <3>1, <3>2, <4>1 DEF AnswerStubLogin
    <3>3. CASE \E user \in Members : AnswerCallback(t, user)
      BY <3>1, <3>3 DEF AnswerCallback
    <3> QED BY <1>3, <3>2, <3>3 DEF SignsIn
  <2>2. SignedIn(user) \in Records /\ Sound(SignedIn(user), minted)
    BY <1>1, <2>1, BlankType, BlankSound
  <2> QED BY <1>1, <2>1, <2>2, ResetKeeps DEF Establish
<1>4. CASE AnswerLogout(t)
  BY <1>1, <1>4, BlankType, BlankSound, PlaceTypes, ResetKeeps DEF AnswerLogout
<1> QED BY <1>3, <1>4

-----------------------------------------------------------------------------
(* The theorems.                                                           *)

\* The strengthened invariant holds at first.
LEMMA InitEstablishes == Init => IInv
<1> SUFFICES ASSUME Init PROVE IInv
  OBVIOUS
<1> USE AccountsAssumption
<1>1. Blank \in Records /\ Sound(Blank, 0) /\ \A s \in 1..MaxSessions : store[s] = Blank
  BY BlankType, BlankSound DEF Init
<1>2. \A t \in Tabs : tab[t] = Page /\ ~Waiting(t)
  BY DEF Init, Waiting, Page
<1>3. TypeOK
  BY <1>1, <1>2, PlaceTypes DEF Init, TypeOK, Sound, Numbers
<1> QED
  BY <1>1, <1>2, <1>3 DEF IInv, SessionsSound, HeldWereIssued, OneAccountPerSession, Init

\* Every step keeps the strengthened invariant.
LEMMA NextKeeps == IInv /\ [Next]_vars => IInv'
<1> SUFFICES ASSUME IInv, [Next]_vars PROVE IInv'
  OBVIOUS
<1>1. CASE UNCHANGED vars
  BY <1>1 DEF vars, IInv, TypeOK, SessionsSound, HeldWereIssued, OneAccountPerSession,
              Waiting
<1>2. ASSUME NEW t \in Tabs, BeginRequest(t) PROVE IInv'
  <2>1. CASE \E target \in Targets : BeginVisit(t, target)
    BY <2>1, BeginKeeps DEF BeginVisit, Asks
  <2>2. CASE \E rt \in 0..MaxNumber : BeginLogin(t, rt)
    <3>1. PICK rt \in Numbers : Begin(t, "chooser", rt) \/ Begin(t, "login", rt)
      BY <2>2 DEF BeginLogin, Numbers
    <3> QED BY <3>1, BeginKeeps DEF Asks
  <2>3. CASE \E user \in Members : BeginStubLogin(t, user)
    BY <2>3, BeginKeeps DEF BeginStubLogin, Asks
  <2>4. CASE BeginCallback(t)
    <3>1. tab[t] \in Places \cup Requests /\ tab[t].at = "provider"
      BY <2>4 DEF BeginCallback, IInv, TypeOK
    <3>2. tab[t] \notin Requests
      BY <3>1 DEF Requests, Request
    <3>3. tab[t] \in [at : {"provider"}, state : Numbers]
      BY <3>1, <3>2 DEF Places, Page
    <3>4. tab[t].state \in Numbers
      BY <3>3
    <3> QED BY <2>4, <3>4, BeginKeeps DEF BeginCallback, Asks
  <2>5. CASE BeginLogout(t)
    BY <2>5, BeginKeeps DEF BeginLogout, Asks
  <2> QED BY <1>2, <2>1, <2>2, <2>3, <2>4, <2>5 DEF BeginRequest
<1>3. ASSUME NEW t \in Tabs, AnswerRequest(t) PROVE IInv'
  <2>1. CASE AnswerVisit(t)
    BY <2>1, VisitKeeps
  <2>2. CASE AnswerChooser(t) \/ AnswerLogin(t)
    BY <2>2, LoginKeeps
  <2>3. CASE AnswerStrayCallback(t) \/ AnswerFailedCallback(t)
    BY <2>3, NoSignInKeeps
  <2>4. CASE SignsIn(t) \/ AnswerLogout(t)
    BY <2>4, SignInKeeps
  <2>5. CASE Interrupt(t)
    BY <2>5, PlaceTypes, PlaceKeeps DEF Interrupt, Untouched
  <2> QED BY <1>3, <2>1, <2>2, <2>3, <2>4, <2>5 DEF AnswerRequest, SignsIn
<1> QED BY <1>1, <1>2, <1>3 DEF Next

\* The strengthened invariant holds of every reachable state.
THEOREM SessionsAreSound == Spec => []IInv
<1>1. Init => IInv
  BY InitEstablishes
<1>2. IInv /\ [Next]_vars => IInv'
  BY NextKeeps
<1> QED BY <1>1, <1>2, PTL DEF Spec

\* Types, and no session both signed in and on its way to be.
THEOREM TypeCorrect == Spec => []TypeOK
<1>1. IInv => TypeOK
  BY DEF IInv
<1> QED BY <1>1, SessionsAreSound, PTL

\* A session identifier never changes hands, however requests overlap.
THEOREM IdentifiersKeepTheirAccount == Spec => []OneAccountPerSession
<1>1. IInv => OneAccountPerSession
  BY DEF IInv
<1> QED BY <1>1, SessionsAreSound, PTL

\* A session's filters are its own user's, however requests overlap.
THEOREM FiltersStayWithTheirOwner == Spec => []FiltersOfTheirOwner
<1>1. IInv => FiltersOfTheirOwner
  BY DEF IInv, SessionsSound, Sound, FiltersOfTheirOwner
<1> QED BY <1>1, SessionsAreSound, PTL

\* An honoured callback finds no page of an abandoned attempt.
THEOREM AbandonedStaysAbandoned == Spec => []AbandonedPageIsNotReplayed
<1>1. IInv => AbandonedPageIsNotReplayed
  BY DEF IInv, SessionsSound, Sound, AbandonedPageIsNotReplayed, Answering
<1> QED BY <1>1, SessionsAreSound, PTL

LandingAdmitted ==
    \A t \in Tabs : SignsIn(t) =>
        Leads(tab[t].rec.stash.target, RoleOf(store'[cookie'].user), tab'[t].target)

\* A sign-in leads to no page its role is refused, and not away from one it may
\* see, since whatever session it finds remembers the role its page takes.
THEOREM SignInLandsWhereAdmitted == Spec => LandsWhereAdmitted
<1>1. ASSUME IInv, [Next]_vars, NEW t \in Tabs, SignsIn(t)
      PROVE  Leads(tab[t].rec.stash.target, RoleOf(store'[cookie'].user), tab'[t].target)
  <2>1. PICK user \in Members :
            /\ Establish(t, user)
            /\ Shows(t, Landing(PopPostLoginRedirect(tab[t].rec, RoleOf(user))))
    <3>1. CASE AnswerStubLogin(t)
      <4>1. tab[t].arg \in Members
        BY <3>1, <1>1, WaitingType DEF AnswerStubLogin, Answering, IInv
      <4> QED BY <3>1, <4>1 DEF AnswerStubLogin
    <3>2. CASE \E user \in Members : AnswerCallback(t, user)
      BY <3>2 DEF AnswerCallback
    <3> QED BY <1>1, <3>1, <3>2 DEF SignsIn
  <2>2. Waiting(t)
    BY <1>1 DEF SignsIn, AnswerStubLogin, AnswerCallback, Answering
  <2>3. tab[t].rec \in Records /\ Sound(tab[t].rec, minted) /\ minted \in Nat
    <3>1. tab[t].rec \in Records
      BY <2>2, <1>1, WaitingType DEF IInv
    <3>2. Sound(tab[t].rec, minted)
      BY <2>2, <1>1 DEF IInv, SessionsSound
    <3>3. minted \in Nat
      BY <1>1, AccountsAssumption DEF IInv, TypeOK, Numbers
    <3> QED BY <3>1, <3>2, <3>3
  <2>4. tab'[t].target = PopPostLoginRedirect(tab[t].rec, RoleOf(user))
    BY <2>1, <1>1 DEF Shows, Landing, IInv, TypeOK
  <2>5. store'[cookie'].user = user
    <3>1. cookie' = issued + 1 /\ issued + 1 \in 1..MaxSessions
      BY <2>1, <1>1, AccountsAssumption DEF Establish, Reset, IInv, TypeOK
    <3>2. store'[issued + 1] = SignedIn(user)
      BY <2>1, <1>1, <3>1 DEF Establish, Reset, IInv, TypeOK
    <3> QED BY <3>1, <3>2 DEF SignedIn, Blank
  <2> QED BY <2>3, <2>4, <2>5, PopLeads
<1>2. IInv /\ [Next]_vars => LandingAdmitted
  BY <1>1 DEF LandingAdmitted
<1>3. LandingAdmitted => [LandingAdmitted]_vars
  OBVIOUS
<1>4. Spec => [][Next]_vars
  BY PTL DEF Spec
<1>5. Spec => [][LandingAdmitted]_vars
  BY <1>2, <1>4, SessionsAreSound, PTL
<1> QED BY <1>5 DEF LandsWhereAdmitted, LandingAdmitted

-----------------------------------------------------------------------------
(* Identifiers that were given out.                                        *)

\* Whom a tab that waits afterwards acts as is whom it acted as before, or it
\* has only begun to wait, with the session stored under its identifier.
Inherits ==
    \A r \in Tabs : Waiting(r)' =>
        \/ Waiting(r) /\ tab'[r] = tab[r]
        \/ tab'[r].sid \in 1..MaxSessions /\ tab'[r].rec = store[tab'[r].sid]

\* The session stored afterwards under an issued identifier is the one stored
\* before, nobody's, or of the user of a request that was given it.
Restores ==
    \A s \in 1..MaxSessions : s <= issued =>
        \/ store'[s] = store[s]
        \/ store'[s].user = Nobody
        \/ \E t \in Tabs : /\ Waiting(t) /\ tab[t].sid = s
                           /\ store'[s].user = tab[t].rec.user

\* That is enough.
LEMMA NoneSignedInto ==
    ASSUME Inherits, Restores PROVE NoIssuedSignedInto
<1> SUFFICES ASSUME NEW s \in 1..MaxSessions, s <= issued, NEW user \in Members,
                    ActsAs(s, user)'
             PROVE  ActsAs(s, user)
  BY DEF NoIssuedSignedInto
<1>1. CASE store'[s].user = user
  BY <1>1, AccountsAssumption DEF Restores, ActsAs
<1>2. ASSUME NEW r \in Tabs, Waiting(r)', tab'[r].sid = s, tab'[r].rec.user = user
      PROVE  ActsAs(s, user)
  BY <1>2 DEF Inherits, ActsAs
<1> QED BY <1>1, <1>2 DEF ActsAs

\* A tab that goes on to a place leaves the others waiting as they were.
LEMMA PlaceInherits ==
    ASSUME TypeOK, NEW t \in Tabs, NEW place \in Places, Shows(t, place)
    PROVE  Inherits
<1>1. \A r \in Tabs : Waiting(r)' => r # t /\ tab'[r] = tab[r] /\ Waiting(r)
  BY DEF Shows, Waiting, Places, Page, TypeOK
<1> QED BY <1>1 DEF Inherits

\* A commit stores the user its request was given.
LEMMA CommitRestores ==
    ASSUME TypeOK, NEW t \in Tabs, Waiting(t), NEW rec, Commit(t, rec),
           rec.user = tab[t].rec.user
    PROVE  Restores
<1>1. tab[t].sid \in 1..MaxSessions
  BY WaitingType
<1>2. store' = [store EXCEPT ![tab[t].sid] = rec]
  BY DEF Commit
<1>3. \A s \in 1..MaxSessions :
        store'[s] = IF s = tab[t].sid THEN rec ELSE store[s]
  BY <1>1, <1>2 DEF TypeOK
<1> QED BY <1>3 DEF Restores

\* A reset stores nobody under the identifier its request was given, and what
\* it does store under one that was not issued.
LEMMA ResetRestores ==
    ASSUME TypeOK, NEW t \in Tabs, Waiting(t), NEW rec, Reset(t, rec)
    PROVE  Restores
<1>1. tab[t].sid \in 1..MaxSessions /\ issued \in 1..MaxSessions
  BY WaitingType DEF TypeOK
<1>2. store' = [store EXCEPT ![tab[t].sid] = Blank, ![issued + 1] = rec]
  BY DEF Reset
<1>3. \A s \in 1..MaxSessions : s <= issued =>
        store'[s] = IF s = tab[t].sid THEN Blank ELSE store[s]
  BY <1>1, <1>2, AccountsAssumption DEF TypeOK
<1>4. Blank.user = Nobody
  BY DEF Blank
<1> QED BY <1>3, <1>4 DEF Restores

\* A request that begins is given the session stored under its cookie.
LEMMA BeginInherits ==
    ASSUME TypeOK, NEW t \in Tabs, NEW kind, NEW arg, Begin(t, kind, arg)
    PROVE  Inherits /\ Restores
<1> USE AccountsAssumption
<1>1. cookie \in 1..MaxSessions
  BY DEF TypeOK
<1>2. tab'[t].sid = cookie /\ tab'[t].rec = store[cookie]
  BY DEF Begin, TypeOK
<1>3. \A r \in Tabs : r # t => tab'[r] = tab[r]
  BY DEF Begin, TypeOK
<1>4. \A r \in Tabs : Waiting(r)' /\ r # t => Waiting(r)
  BY <1>3 DEF Waiting
<1>5. Restores
  BY DEF Begin, Restores
<1> QED BY <1>1, <1>2, <1>3, <1>4, <1>5 DEF Inherits

\* An answer: what it stores, and where its tab goes on to.
LEMMA AnswerStores ==
    ASSUME TypeOK, NEW t \in Tabs, AnswerRequest(t)
    PROVE  /\ Waiting(t)
           /\ \E place \in Places : Shows(t, place)
           /\ \/ \E rec : Commit(t, rec) /\ rec.user = tab[t].rec.user
              \/ \E rec : Reset(t, rec)
              \/ Untouched
<1> DEFINE rec == tab[t].rec
           confirmed == ConfirmPostLoginRedirect(rec, tab[t].arg)
           Stores == /\ \E place \in Places : Shows(t, place)
                     /\ \/ \E new : Commit(t, new) /\ new.user = rec.user
                        \/ \E new : Reset(t, new)
                        \/ Untouched
<1>1. Waiting(t)
  BY DEF AnswerRequest, AnswerVisit, AnswerChooser, AnswerLogin, AnswerStrayCallback,
         AnswerFailedCallback, AnswerCallback, AnswerStubLogin, AnswerLogout,
         Interrupt, Answering
<1> SUFFICES Stores
  BY <1>1
<1>2. rec \in Records
  BY <1>1, WaitingType
<1>3. Page \in Places /\ ToLogin(0) \in Places
  BY PlaceTypes, AccountsAssumption DEF Numbers
<1>4. \A role : Landing(PopPostLoginRedirect(rec, role)) \in Places
  BY <1>2, PopType, PlaceTypes
<1>5. confirmed.user = rec.user /\ confirmed \in Records
             /\ [rec EXCEPT !.oauth = NoAttempt].user = rec.user
             /\ \A x : /\ [rec EXCEPT !.stash = x].user = rec.user
                      /\ [rec EXCEPT !.filters = x].user = rec.user
  <2>1. NoStash \in Stashes
    BY NoStashFacts
  <2> QED BY <1>2, <2>1 DEF ConfirmPostLoginRedirect, Records
<1>6. \A x : [confirmed EXCEPT !.oauth = x].user = rec.user
  <2> HIDE DEF confirmed
  <2> QED BY <1>5 DEF Records
<1>7. minted \in Nat
  BY AccountsAssumption DEF TypeOK, Numbers
<1>8. CASE AnswerVisit(t)
  <2>1. CASE RedirectToLogin(t)
    <3>1. ToLogin(minted + 1) \in Places
      BY <1>7, <2>1, AccountsAssumption, PlaceTypes DEF RedirectToLogin, Numbers
    <3> QED BY <1>5, <2>1, <3>1 DEF RedirectToLogin
  <2>2. CASE ShowPage(t)
    BY <1>3, <1>5, <2>2 DEF ShowPage
  <2> QED BY <1>8, <2>1, <2>2 DEF AnswerVisit
<1>9. CASE AnswerChooser(t)
  <2>1. Chooser(tab[t].arg) \in Places
    <3>1. tab[t].arg \in Numbers
      BY <1>1, <1>9, WaitingType DEF AnswerChooser, Answering
    <3> QED BY <3>1, PlaceTypes
  <2> QED BY <1>5, <1>9, <2>1 DEF AnswerChooser
<1>10. CASE AnswerLogin(t)
  <2>1. minted < MaxNumber => Provider(minted + 1) \in Places
    <3>1. minted < MaxNumber => minted + 1 \in Numbers
      BY <1>7, AccountsAssumption DEF Numbers
    <3> QED BY <3>1, PlaceTypes
  <2>2. PICK new : Commit(t, new) /\ new \in
            {confirmed, [confirmed EXCEPT !.oauth = [state |-> minted + 1, rt |-> tab[t].arg]]}
    BY <1>10 DEF AnswerLogin
  <2>3. new.user = rec.user
    <3> HIDE DEF confirmed, rec
    <3> QED BY <1>5, <1>6, <2>2
  <2>4. \E place \in Places : Shows(t, place)
    BY <1>3, <1>10, <2>1 DEF AnswerLogin
  <2> QED BY <2>2, <2>3, <2>4
<1>11. CASE AnswerStrayCallback(t)
  BY <1>3, <1>11 DEF AnswerStrayCallback
<1>12. CASE AnswerFailedCallback(t)
  BY <1>3, <1>5, <1>12 DEF AnswerFailedCallback
<1>13. CASE \E user \in Members : AnswerCallback(t, user)
  BY <1>4, <1>13 DEF AnswerCallback, Establish
<1>14. CASE AnswerStubLogin(t)
  BY <1>4, <1>14 DEF AnswerStubLogin, Establish
<1>15. CASE AnswerLogout(t)
  BY <1>3, <1>15 DEF AnswerLogout
<1>16. CASE Interrupt(t)
  BY <1>3, <1>16 DEF Interrupt, Untouched
<1> QED
  BY <1>8, <1>9, <1>10, <1>11, <1>12, <1>13, <1>14, <1>15, <1>16 DEF AnswerRequest

\* No identifier that was given out is signed in to afterwards, however the
\* requests of a browser overlap.
THEOREM IssuedIdentifiersStayAsTheyAre == Spec => IssuedNeverSignedInto
<1>1. TypeOK /\ [Next]_vars => NoIssuedSignedInto
  <2> SUFFICES ASSUME TypeOK, [Next]_vars PROVE NoIssuedSignedInto
    OBVIOUS
  <2>1. CASE UNCHANGED vars
    <3>1. Inherits /\ Restores
      BY <2>1 DEF vars, Inherits, Restores, Waiting
    <3> QED BY <3>1, NoneSignedInto
  <2>2. ASSUME NEW t \in Tabs, BeginRequest(t) PROVE NoIssuedSignedInto
    <3>1. \E kind, arg : Begin(t, kind, arg)
      BY <2>2 DEF BeginRequest, BeginVisit, BeginLogin, BeginStubLogin, BeginCallback,
                  BeginLogout
    <3> QED BY <3>1, BeginInherits, NoneSignedInto
  <2>3. ASSUME NEW t \in Tabs, AnswerRequest(t) PROVE NoIssuedSignedInto
    <3>1. Inherits
      BY <2>3, AnswerStores, PlaceInherits
    <3>2. Restores
      <4>1. CASE Untouched
        BY <4>1 DEF Untouched, Restores
      <4>2. CASE \E rec : Commit(t, rec) /\ rec.user = tab[t].rec.user
        BY <2>3, <4>2, AnswerStores, CommitRestores
      <4>3. CASE \E rec : Reset(t, rec)
        BY <2>3, <4>3, AnswerStores, ResetRestores
      <4> QED BY <2>3, <4>1, <4>2, <4>3, AnswerStores
    <3> QED BY <3>1, <3>2, NoneSignedInto
  <2> QED BY <2>1, <2>2, <2>3 DEF Next
<1>2. Spec => [][Next]_vars
  BY PTL DEF Spec
<1>3. Spec => [][NoIssuedSignedInto]_vars
  BY <1>1, <1>2, TypeCorrect, PTL
<1> QED BY <1>3 DEF IssuedNeverSignedInto
=============================================================================
