---------------------- MODULE AssignableDirectoryProofs ----------------------
(***************************************************************************)
(* Proofs about AssignableDirectory, for any number of users, sign-ins and *)
(* reads. What a read or a deletion under way holds of a user nobody has   *)
(* raced is either nothing or the truth, and what it would delete is past  *)
(* its window for good (DirectoryInv).                                     *)
(***************************************************************************)
EXTENDS AssignableDirectory, TLAPS

\* What the steps of a sign-in and of a read carry.
LEMMA StepFacts ==
    ASSUME TypeOK
    PROVE  /\ \A s \in SignIns : signIn[s].step # "idle" =>
                 signIn[s].user \in Users /\ signIn[s].holds \in BOOLEAN
           /\ \A s \in SignIns : signIn[s].step = "sync" => signIn[s].at \in Time
           /\ \A p \in Reads : read[p].step = "fetched" =>
                 read[p].scope \subseteq Users /\ read[p].raw \in [Users -> Entries]
BY DEF TypeOK, SignInSteps, ReadSteps, Idle

\* A read prunes only users it covers.
LEMMA PrunedType ==
    ASSUME NEW scope \in SUBSET Users, NEW raw, NEW t
    PROVE  Pruned(scope, raw, t) \subseteq SUBSET Users
BY DEF Pruned

\* A step of a sign-in keeps every type.
LEMMA SignInType ==
    ASSUME TypeOK, NEW s \in SignIns,
           IssueToken(s) \/ Sync(s) \/ SyncApplied(s) \/ SyncFails(s)
    PROVE  TypeOK'
<1>0. Idle \in SignInSteps
  BY DEF SignInSteps
<1>1. CASE IssueToken(s)
  <2>1. PICK u \in Users, holds \in BOOLEAN :
           signIn' = [signIn EXCEPT ![s] =
                        [step |-> "claims", user |-> u, holds |-> holds]]
    BY <1>1 DEF IssueToken
  <2>2. [step |-> "claims", user |-> u, holds |-> holds] \in SignInSteps
    BY DEF SignInSteps
  <2>3. QED
    BY <1>1, <2>1, <2>2 DEF IssueToken, TypeOK, store
<1>2. CASE Sync(s)
  <2>1. [step |-> "sync", user |-> signIn[s].user, holds |-> signIn[s].holds,
         at |-> now] \in SignInSteps
    BY <1>2, StepFacts DEF Sync, TypeOK, SignInSteps
  <2>2. QED
    BY <1>2, <2>1 DEF Sync, TypeOK, store
<1>3. CASE SyncApplied(s)
  <2>1. signIn[s].user \in Users /\ signIn[s].at \in Time
    BY <1>3, StepFacts DEF SyncApplied
  <2>2. Entry(signIn[s].at) \in Entries /\ Absent \in Entries
    BY <2>1 DEF Entries
  <2>3. Synced(directory[signIn[s].user], signIn[s].holds, signIn[s].at) \in Entries
    BY <2>2 DEF Synced
  <2>4. directory' \in [Users -> Entries] /\ ideal' \in [Users -> Entries]
    BY <1>3, <2>1, <2>2, <2>3 DEF SyncApplied, TypeOK
  <2>5. raced' \subseteq Users /\ signIn' \in [SignIns -> SignInSteps]
    BY <1>0, <1>3, <2>1 DEF SyncApplied, TypeOK
  <2>6. QED
    BY <1>3, <2>4, <2>5 DEF SyncApplied, TypeOK
<1>4. CASE SyncFails(s)
  BY <1>0, <1>4 DEF SyncFails, TypeOK, store
<1>5. QED
  BY <1>1, <1>2, <1>3, <1>4

\* A step of a read keeps every type.
LEMMA ReadType ==
    ASSUME TypeOK, NEW p \in Reads, Fetch(p) \/ Conclude(p)
    PROVE  TypeOK'
<1>1. CASE Fetch(p)
  <2>1. PICK scope \in {Users} \cup {{u} : u \in Users} :
           read' = [read EXCEPT ![p] =
                      [step |-> "fetched", scope |-> scope, raw |-> directory]]
    BY <1>1 DEF Fetch
  <2>2. [step |-> "fetched", scope |-> scope, raw |-> directory] \in ReadSteps
    BY DEF ReadSteps, TypeOK
  <2>3. QED
    BY <1>1, <2>1, <2>2 DEF Fetch, TypeOK, store
<1>2. CASE Conclude(p)
  <2>1. prunes' \subseteq SUBSET Users
    BY <1>2, StepFacts, PrunedType DEF Conclude, TypeOK
  <2>2. read' \in [Reads -> ReadSteps]
    BY <1>2 DEF Conclude, TypeOK, ReadSteps
  <2>3. QED
    BY <1>2, <2>1, <2>2 DEF Conclude, TypeOK, store
<1>3. QED
  BY <1>1, <1>2

\* Every variable keeps its type, whatever is sent, lost or sent again.
THEOREM DirectoryTypes == Spec => []TypeOK
<1> USE WindowAssumption, MaxTimeAssumption
<1>1. Init => TypeOK
  BY DEF Init, TypeOK, Time, Entries, SignInSteps, ReadSteps
<1>2. TypeOK /\ [Next]_vars => TypeOK'
  <2> SUFFICES ASSUME TypeOK, [Next]_vars PROVE TypeOK'
    OBVIOUS
  <2>1. ASSUME NEW ids \in prunes, PruneApplied(ids) \/ PruneFails(ids)
        PROVE  TypeOK'
    <3>1. directory' \in [Users -> Entries]
      BY <2>1 DEF PruneApplied, PruneFails, TypeOK, store, Entries
    <3>2. QED
      BY <2>1, <3>1 DEF PruneApplied, PruneFails, TypeOK, store
  <2>2. CASE Tick
    BY <2>2 DEF Tick, TypeOK, Time, store
  <2>3. CASE UNCHANGED vars
    BY <2>3 DEF vars, store, TypeOK
  <2>4. QED
    BY <2>1, <2>2, <2>3, SignInType, ReadType DEF Next
<1>3. QED
  BY <1>1, <1>2, PTL DEF Spec

-----------------------------------------------------------------------------
(* DirectoryInv is inductive.                                              *)

\* Time only takes an entry further out of its window.
LEMMA OutdatedStays ==
    ASSUME TypeOK, Tick, NEW e \in Entries, Outdated(e)
    PROVE  Outdated(e)'
BY WindowAssumption, MaxTimeAssumption
   DEF TypeOK, Tick, Outdated, Current, Entries, Entry, Absent, Corrupt, Time

\* What a read prunes of a user was no longer current.
LEMMA PrunedIsOutdated ==
    ASSUME TypeOK, NEW scope \in SUBSET Users, NEW raw \in [Users -> Entries],
           NEW ids \in Pruned(scope, raw, now), NEW u \in ids
    PROVE  u \in scope /\ raw[u].is # "absent" /\ Outdated(raw[u])
<1>1. u \in scope /\ (raw[u].is = "corrupt" \/ IsExpired(raw[u], now))
  BY DEF Pruned
<1>2. raw[u] \in Entries
  BY <1>1
<1>3. QED
  BY <1>1, <1>2, WindowAssumption, MaxTimeAssumption
     DEF IsExpired, Outdated, Current, TypeOK, Entries, Entry, Absent, Corrupt, Time

\* A user nobody races stays true under a step that leaves store, now, the
\* deletions and the reads alone.
LEMMA StillTrue ==
    ASSUME DirectoryInv, UNCHANGED <<now, store, read, prunes>>
    PROVE  DirectoryInv'
BY DEF DirectoryInv, OnlyThinned, TrueOf, Outdated, store

\* A recorded sign-in makes its user true unless it races, and touches no other.
LEMMA SyncAppliedTrue ==
    ASSUME TypeOK, DirectoryInv, NEW s \in SignIns, SyncApplied(s)
    PROVE  DirectoryInv'
<1> DEFINE w == signIn[s].user
<1>1. w \in Users /\ UNCHANGED <<now, read, prunes>>
  BY StepFacts DEF SyncApplied
<1>2. OnlyThinned'
  <2>1. directory'[w] = ideal'[w]
    BY <1>1 DEF SyncApplied, Synced, TypeOK
  <2>2. \A u \in Users \ {w} : directory'[u] = directory[u] /\ ideal'[u] = ideal[u]
    BY <1>1 DEF SyncApplied, TypeOK
  <2>3. QED
    BY <2>1, <2>2 DEF DirectoryInv, OnlyThinned
<1>3. SUFFICES ASSUME NEW u \in Users \ raced' PROVE TrueOf(u)'
  BY <1>2 DEF DirectoryInv
<1>4. CASE u = w
  <2>1. ~MayPrune(u)
    BY <1>4 DEF SyncApplied
  <2>2. directory'[u] = ideal'[u]
    BY <1>1, <1>4 DEF SyncApplied, Synced, TypeOK
  <2>3. \A ids \in prunes : u \notin ids
    BY <2>1 DEF MayPrune
  <2>4. \A p \in Reads : read[p].step = "fetched" /\ u \in read[p].scope =>
           read[p].raw[u] = Absent
    BY <2>1, StepFacts DEF MayPrune, Entries, Entry, Corrupt, Absent
  <2>5. QED
    BY <1>1, <2>2, <2>3, <2>4 DEF TrueOf
<1>5. CASE u # w
  <2>1. u \notin raced /\ directory'[u] = directory[u] /\ ideal'[u] = ideal[u]
    BY <1>1, <1>3, <1>5 DEF SyncApplied, TypeOK
  <2>2. TrueOf(u)
    BY <2>1 DEF DirectoryInv
  <2>3. QED
    BY <1>1, <2>1, <2>2 DEF TrueOf, Outdated
<1>6. QED
  BY <1>4, <1>5

\* A read fetches the truth, and what it then prunes is outdated.
LEMMA ReadTrue ==
    ASSUME TypeOK, DirectoryInv, NEW p \in Reads, Fetch(p) \/ Conclude(p)
    PROVE  DirectoryInv'
<1>1. UNCHANGED <<now, directory, ideal, raced>>
  BY DEF Fetch, Conclude, store
<1>2. SUFFICES ASSUME NEW u \in Users \ raced' PROVE TrueOf(u)'
  BY <1>1 DEF DirectoryInv, OnlyThinned
<1>3. TrueOf(u)
  BY <1>2, <1>1 DEF DirectoryInv
<1>4. CASE Fetch(p)
  <2>1. \A q \in Reads : read'[q] = read[q] \/ read'[q].raw = directory
    BY <1>4 DEF Fetch, TypeOK
  <2>2. directory[u] \in {Absent, ideal[u]}
    BY <1>3 DEF TrueOf
  <2>3. QED
    BY <1>1, <1>3, <1>4, <2>1, <2>2 DEF TrueOf, Outdated, Fetch
<1>5. CASE Conclude(p)
  <2>1. \A q \in Reads : read'[q] = read[q] \/ read'[q].step = "idle"
    BY <1>5 DEF Conclude, TypeOK, Idle
  <2>2. ASSUME NEW ids \in prunes', u \in ids PROVE Outdated(ideal[u])
    <3>1. CASE ids \in prunes
      BY <1>3, <2>2, <3>1 DEF TrueOf
    <3>2. CASE ids \in Pruned(read[p].scope, read[p].raw, now)
      <4>1. /\ u \in read[p].scope /\ read[p].raw[u].is # "absent"
            /\ Outdated(read[p].raw[u])
        BY <1>5, <2>2, <3>2, StepFacts, PrunedIsOutdated DEF Conclude
      <4>2. read[p].raw[u] = ideal[u]
        BY <1>3, <1>5, <4>1 DEF TrueOf, Conclude, Absent
      <4>3. QED
        BY <4>1, <4>2
    <3>3. QED
      BY <1>5, <2>2, <3>1, <3>2 DEF Conclude
  <2>3. QED
    BY <1>1, <1>3, <2>1, <2>2 DEF TrueOf, Outdated
<1>6. QED
  BY <1>4, <1>5

\* A deletion that reaches Redis takes only what is outdated.
LEMMA PruneTrue ==
    ASSUME TypeOK, DirectoryInv, NEW ids \in prunes,
           PruneApplied(ids) \/ PruneFails(ids)
    PROVE  DirectoryInv'
<1>1. UNCHANGED <<now, ideal, raced, read>> /\ prunes' \subseteq prunes
  BY DEF PruneApplied, PruneFails, store
<1>2. \A u \in Users :
          directory'[u] = directory[u] \/ (u \in ids /\ directory'[u] = Absent)
  BY DEF PruneApplied, PruneFails, store
<1>3. SUFFICES ASSUME NEW u \in Users \ raced' PROVE TrueOf(u)'
  BY <1>1, <1>2 DEF DirectoryInv, OnlyThinned, Absent
<1>4. TrueOf(u)
  BY <1>3, <1>1 DEF DirectoryInv
<1>5. QED
  BY <1>1, <1>4, <1>2 DEF TrueOf, Outdated

\* Whatever sign-ins, reads and deletions there are, and whatever of them is
\* lost, the directory lists nobody it should not, and everybody it should whose
\* sign-in raced no read.
THEOREM DirectoryTrue == Spec => [](DirectoryInv /\ DirectoryIsTrue)
<1>1. Init => DirectoryInv
  BY DEF Init, DirectoryInv, OnlyThinned, TrueOf, Idle
<1>2. TypeOK /\ DirectoryInv /\ [Next]_vars => DirectoryInv'
  <2> SUFFICES ASSUME TypeOK, DirectoryInv, [Next]_vars PROVE DirectoryInv'
    OBVIOUS
  <2>1. ASSUME NEW s \in SignIns, IssueToken(s) \/ Sync(s) \/ SyncFails(s)
        PROVE  DirectoryInv'
    BY <2>1, StillTrue DEF IssueToken, Sync, SyncFails
  <2>2. CASE Tick
    <3>1. \A u \in Users : Outdated(ideal[u]) => Outdated(ideal[u])'
      BY <2>2, OutdatedStays DEF TypeOK, Tick, store
    <3>2. QED
      BY <2>2, <3>1 DEF DirectoryInv, OnlyThinned, TrueOf, Tick, store
  <2>3. CASE UNCHANGED vars
    BY <2>3, StillTrue DEF vars, store
  <2>4. QED
    BY <2>1, <2>2, <2>3, SyncAppliedTrue, ReadTrue, PruneTrue DEF Next
<1>3. DirectoryInv => DirectoryIsTrue
  <2> SUFFICES ASSUME DirectoryInv, NEW u \in Users
               PROVE  /\ Current(directory[u], now) => directory[u] = ideal[u]
                      /\ u \notin raced /\ Current(ideal[u], now) =>
                            directory[u] = ideal[u]
    BY DEF DirectoryIsTrue
  <2>1. directory[u] = Absent => ~Current(directory[u], now)
    BY DEF Current, Absent
  <2>2. QED
    BY <2>1 DEF DirectoryInv, OnlyThinned, TrueOf, Outdated
<1>4. QED
  BY <1>1, <1>2, <1>3, DirectoryTypes, PTL DEF Spec

\* Of a user nobody raced, a read under way has fetched nothing or the truth,
\* and a deletion on its way would delete only what is out of its window.
THEOREM DirectorySettled == Spec => []DirectoryInv
  BY DirectoryTrue, PTL
=============================================================================
