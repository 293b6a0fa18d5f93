--------------------------- MODULE ModulesProofs ---------------------------
(***************************************************************************)
(* Proofs about Modules, for every set of ids and packages, every          *)
(* authority and every budget: the maps of a session agree with what runs, *)
(* a guest is the installed one, its caller is told the host's own         *)
(* decisions, and a rebuild breaks nothing that works.                     *)
(***************************************************************************)
EXTENDS Modules, TLAPS

----------------------------------------------------------------------------
(* The inductive invariant, in parts. *)

\* A host runs a session exactly when it is active: of the package that was
\* installed, within the authority, its budget spent or left.
GoodHost(host) ==
    /\ host \in Lifecycles
    /\ host.session.live <=> Active(host)
    /\ host.session.live => host.session.digest = host.package
    /\ host.grant \subseteq Authority
    /\ Active(host) => host.session.left + host.session.mediated = MaxHostCalls
    /\ ~Active(host) => host.session = NoSession /\ host.grant = {}

HostsInv ==
    /\ hosts = [id \in Ids |-> hosts[id]]
    /\ \A id \in Ids : GoodHost(hosts[id])

\* What a rebuild has staged is for the id it is at.
RebuildInv ==
    /\ rebuild \in [running : BOOLEAN,
                    wanted : [Ids -> Manifests \cup {Gone, Broken}],
                    todo : SUBSET Ids, staged : Lifecycles]
    /\ \A id \in rebuild.todo : rebuild.wanted[id] \in Manifests
    /\ ~rebuild.running => rebuild.todo = {}
    /\ rebuild.todo = {} => rebuild.staged = Absent
    /\ \A id \in Ids :
           Applying(id) /\ rebuild.staged # Absent =>
               /\ rebuild.staged = Enable(Install(rebuild.wanted[id].digest))
               /\ rebuild.wanted[id].component

\* A call is of a guest that is live, and what it observed is the answer the
\* host gave to that request.
CallInv ==
    /\ call \in [kind : {"none", "query", "effect"}, id : Ids,
                 request : Requests,
                 answer : {"none", "ok", "denied", "error", "exceeded"},
                 observed : Capabilities \cup {"none"}]
    /\ call.kind = "none" => call.observed = "none"
    /\ call.kind # "none" => hosts[call.id].session.live
    /\ call.kind = "effect" => call.request # "invalid"
    /\ call.observed # "none" =>
           \/ call.answer = "exceeded"
           \/ call.answer \in Outcomes(call.observed, hosts[call.id].grant)

IInv == /\ TypeOK /\ HostsInv /\ RebuildInv /\ CallInv /\ MapsAgree
        /\ AnswersAreTrue

----------------------------------------------------------------------------
(* The operations on a lifecycle return good hosts. *)

USE ModulesAssumption

\* Without a session nothing is spent.
LEMMA NoSessionIsSession == NoSession \in Sessions /\ ~NoSession.live
BY DEF NoSession, Sessions

\* An id without a module has a good host.
LEMMA AbsentIsGood == GoodHost(Absent) /\ ~Active(Absent)
<1>1. Absent = [state |-> "absent", package |-> "none", grant |-> {},
                session |-> NoSession]
  BY DEF Absent, Lifecycle
<1>2. Absent \in Lifecycles BY <1>1, NoSessionIsSession DEF Lifecycles
<1> QED BY <1>1, <1>2, NoSessionIsSession DEF GoodHost, Active

\* So has a module that is staged and not active yet.
LEMMA StagedIsGood ==
    ASSUME NEW digest \in Digests
    PROVE  LET host == Enable(Install(digest))
           IN  /\ GoodHost(host) /\ host.state = "enabled"
               /\ host.package = digest /\ host # Absent
<1> DEFINE host == Enable(Install(digest))
<1>1. host = [state |-> "enabled", package |-> digest, grant |-> {},
              session |-> NoSession]
  BY DEF Enable, Install, Lifecycle
<1>2. host \in Lifecycles BY <1>1, NoSessionIsSession DEF Lifecycles
<1>3. Absent.state = "absent" BY DEF Absent, Lifecycle
<1> QED BY <1>1, <1>2, <1>3, NoSessionIsSession DEF GoodHost, Active

\* Activation commits a session of the package that is installed.
LEMMA CommitIsGood ==
    ASSUME NEW host, GoodHost(host), Eligible(host), host.package \in Digests,
           NEW used \in 0 .. MaxHostCalls
    PROVE  LET new == Commit(host, Session(host.package, used))
           IN  /\ GoodHost(new) /\ Active(new) /\ new # Absent
               /\ new.package = host.package
<1> DEFINE session == Session(host.package, used)
           new == Commit(host, session)
<1>1. MaxHostCalls - used \in 0 .. MaxHostCalls /\ used \in Nat
      /\ (MaxHostCalls - used) + used = MaxHostCalls
  OBVIOUS
<1>2. /\ session \in Sessions /\ session.live
      /\ session.digest = host.package
      /\ session.left + session.mediated = MaxHostCalls
  BY <1>1 DEF Session, Sessions
<1>3. Declared(host.package) \subseteq Capabilities
      /\ Declared(host.package) \subseteq Authority
  BY DEF Declared, Eligible
<1> HIDE DEF session
<1>4. host \in Lifecycles BY DEF GoodHost
<1>5. /\ new.state = "active" /\ new.package = host.package
      /\ new.grant = Declared(host.package) /\ new.session = session
  BY <1>4 DEF Commit, Lifecycles
<1>6. new \in Lifecycles BY <1>2, <1>3, <1>4 DEF Commit, Lifecycles
<1>7. Absent.state = "absent" BY DEF Absent, Lifecycle
<1>8. GoodHost(new) /\ Active(new) /\ new # Absent /\ new.package = host.package
  BY <1>2, <1>3, <1>5, <1>6, <1>7 DEF GoodHost, Active
<1> QED BY <1>8 DEF session

\* Deactivation leaves no session and no grant.
LEMMA DeactivatedIsGood ==
    ASSUME NEW host, GoodHost(host)
    PROVE  LET new == Deactivate(host)
           IN  /\ GoodHost(new) /\ new # Absent
               /\ new.package = host.package
<1> DEFINE new == Deactivate(host)
<1>1. host \in Lifecycles BY DEF GoodHost
<1>2. /\ new.state = "enabled" /\ new.package = host.package
      /\ new.grant = {} /\ new.session = NoSession
  BY <1>1 DEF Deactivate, Lifecycles
<1>3. new \in Lifecycles
  BY <1>1, NoSessionIsSession DEF Deactivate, Lifecycles
<1>4. Absent.state = "absent" BY DEF Absent, Lifecycle
<1> QED BY <1>2, <1>3, <1>4, NoSessionIsSession DEF GoodHost, Active

\* A mediated effect is taken from what is left of the budget.
LEMMA ChargedIsGood ==
    ASSUME NEW host, GoodHost(host), host.session.live, host.session.left # 0,
           NEW new,
           new = [host EXCEPT !.session.left = @ - 1,
                              !.session.mediated = @ + 1]
    PROVE  /\ GoodHost(new) /\ new.session.live /\ new # Absent
           /\ new.package = host.package /\ new.grant = host.grant
<1> DEFINE session == [host.session EXCEPT !.left = @ - 1, !.mediated = @ + 1]
<1>1. /\ host \in Lifecycles /\ host.state = "active"
      /\ host.session \in Sessions
      /\ host.session.left + host.session.mediated = MaxHostCalls
  BY DEF GoodHost, Active, Lifecycles
<1>2. /\ host.session.left - 1 \in 0 .. MaxHostCalls
      /\ host.session.mediated + 1 \in Nat
      /\ (host.session.left - 1) + (host.session.mediated + 1) = MaxHostCalls
  BY <1>1 DEF Sessions
<1>3. /\ session \in Sessions /\ session.live = host.session.live
      /\ session.digest = host.session.digest
      /\ session.left + session.mediated = MaxHostCalls
  BY <1>1, <1>2 DEF Sessions
<1>4. new = [host EXCEPT !.session = session]
  BY <1>1 DEF Lifecycles, Sessions
<1> HIDE DEF session
<1>5. /\ new \in Lifecycles /\ new.state = host.state
      /\ new.package = host.package /\ new.grant = host.grant
      /\ new.session = session
  BY <1>1, <1>3, <1>4 DEF Lifecycles
<1>6. Absent.state = "absent" BY DEF Absent, Lifecycle
<1> QED BY <1>1, <1>3, <1>5, <1>6 DEF GoodHost, Active

\* A cancelled session goes on until its host stops it.
LEMMA CancelledIsGood ==
    ASSUME NEW host, GoodHost(host), host.session.live,
           NEW new, new = [host EXCEPT !.session.cancelled = TRUE]
    PROVE  GoodHost(new) /\ new # Absent /\ new.package = host.package
<1> DEFINE session == [host.session EXCEPT !.cancelled = TRUE]
<1>1. host \in Lifecycles /\ host.session \in Sessions /\ host.state = "active"
  BY DEF GoodHost, Active, Lifecycles
<1>2. /\ session \in Sessions /\ session.live = host.session.live
      /\ session.digest = host.session.digest
      /\ session.left = host.session.left
      /\ session.mediated = host.session.mediated
  BY <1>1 DEF Sessions
<1>3. new = [host EXCEPT !.session = session]
  BY <1>1 DEF Lifecycles, Sessions
<1> HIDE DEF session
<1>4. /\ new \in Lifecycles /\ new.state = host.state
      /\ new.package = host.package /\ new.grant = host.grant
      /\ new.session = session
  BY <1>1, <1>2, <1>3 DEF Lifecycles
<1>5. Absent.state = "absent" BY DEF Absent, Lifecycle
<1> QED BY <1>1, <1>2, <1>4, <1>5 DEF GoodHost, Active

----------------------------------------------------------------------------
(* What the steps have in common. *)

USE DEF workspaceVars, slotVars

\* A step that answers nobody tells nobody anything false.
LEMMA SilentIsTrue == Silent => AnswersAreTrue' /\ given'.answer = "none"
BY DEF Silent, NoAnswer, AnswersAreTrue

\* The parts of the invariant give the types.
LEMMA TypesFollow ==
    ASSUME TypeOK, HostsInv', RebuildInv', CallInv',
           declared' \in [Ids -> Manifests \cup {Gone, Broken}],
           file' \in [Ids -> Digests], hostless' \in [Ids -> Lifecycles],
           manifests' \in [Ids -> Manifests \cup {Gone}],
           given'.answer \in {"none", "ok", "denied", "error"},
           rebuild'.running => call'.kind = "none"
    PROVE  TypeOK'
<1>1. hosts' \in [Ids -> Lifecycles] BY DEF HostsInv, GoodHost
<1>2. rebuild'.staged \in Lifecycles /\ rebuild'.todo \subseteq Ids
  BY DEF RebuildInv
<1>3. call'.kind \in {"none", "query", "effect"} BY DEF CallInv
<1> QED BY <1>1, <1>2, <1>3 DEF TypeOK

\* While no call is in progress, the hosts may change.
LEMMA NoCallKeeps ==
    ASSUME CallInv, call.kind = "none", UNCHANGED call PROVE CallInv'
BY DEF CallInv

\* One id is done: the next one begins with nothing staged.
LEMMA AppliedKeeps ==
    ASSUME RebuildInv, NEW id \in Ids, rebuild' = Applied(id)
    PROVE  RebuildInv' /\ rebuild'.running = rebuild.running
<1>1. /\ rebuild'.running = rebuild.running /\ rebuild'.wanted = rebuild.wanted
      /\ rebuild'.todo = rebuild.todo \ {id} /\ rebuild'.staged = Absent
  BY DEF RebuildInv, Applied
<1>2. rebuild' \in [running : BOOLEAN,
                    wanted : [Ids -> Manifests \cup {Gone, Broken}],
                    todo : SUBSET Ids, staged : Lifecycles]
  BY AbsentIsGood DEF RebuildInv, Applied, GoodHost
<1> QED BY <1>1, <1>2 DEF RebuildInv

\* Manifests and hosts that do not change their ids and packages still agree.
LEMMA MapsFollow ==
    ASSUME MapsAgree, UNCHANGED <<hostless, manifests>>,
           \A id \in Ids : /\ hosts'[id] = Absent <=> hosts[id] = Absent
                           /\ hosts'[id].package = hosts[id].package
    PROVE  MapsAgree'
BY DEF MapsAgree

----------------------------------------------------------------------------
(* A rebuild keeps the invariant. *)

\* Loading the declarations removes the modules that have none.
LEMMA BeginRebuildStep == IInv /\ BeginRebuild => IInv'
<1> SUFFICES ASSUME IInv, BeginRebuild PROVE IInv' OBVIOUS
<1> DEFINE wanted == [id \in Ids |-> Resolve(id)]
           gone == {id \in Ids : Held(id) /\ wanted[id] = Gone}
<1>1. /\ hosts' = Removed(hosts, gone, Absent)
      /\ hostless' = Removed(hostless, gone, Absent)
      /\ manifests' = Removed(manifests, gone, Gone)
      /\ rebuild' = [NoRebuild EXCEPT
                        !.running = TRUE, !.wanted = wanted,
                        !.todo = {id \in Ids : wanted[id] \in Manifests}]
      /\ call.kind = "none" /\ UNCHANGED <<workspaceVars, call>> /\ Silent
  BY DEF BeginRebuild
<1>2. wanted \in [Ids -> Manifests \cup {Gone, Broken}]
  BY DEF IInv, TypeOK, Resolve
<1> HIDE DEF wanted, gone
<1>3. /\ rebuild'.running /\ rebuild'.wanted = wanted
      /\ rebuild'.todo = {id \in Ids : wanted[id] \in Manifests}
      /\ rebuild'.staged = Absent
      /\ rebuild' \in [running : BOOLEAN,
                       wanted : [Ids -> Manifests \cup {Gone, Broken}],
                       todo : SUBSET Ids, staged : Lifecycles]
  BY <1>1, <1>2, AbsentIsGood DEF NoRebuild, GoodHost
<1>4. RebuildInv' BY <1>3 DEF RebuildInv
<1>5. \A id \in Ids :
          \/ /\ hosts'[id] = Absent /\ hostless'[id] = Absent
             /\ manifests'[id] = Gone
          \/ /\ hosts'[id] = hosts[id] /\ hostless'[id] = hostless[id]
             /\ manifests'[id] = manifests[id]
  BY <1>1 DEF Removed
<1>6. HostsInv' BY <1>1, <1>5, AbsentIsGood DEF Removed, HostsInv, IInv
<1>7. CallInv' BY <1>1, NoCallKeeps DEF IInv
<1>8. MapsAgree' BY <1>5 DEF MapsAgree, IInv
<1>9. hostless' \in [Ids -> Lifecycles]
      /\ manifests' \in [Ids -> Manifests \cup {Gone}]
  BY <1>1, AbsentIsGood DEF Removed, IInv, TypeOK, GoodHost
<1>10. TypeOK'
  BY <1>1, <1>4, <1>6, <1>7, <1>9, SilentIsTrue, TypesFollow DEF IInv, TypeOK
<1> QED BY <1>1, <1>4, <1>6, <1>7, <1>8, <1>10, SilentIsTrue DEF IInv

\* A step of a rebuild that leaves the slots alone keeps the invariant.
LEMMA SlotsStay ==
    ASSUME IInv, call.kind = "none", RebuildInv', Silent,
           UNCHANGED <<workspaceVars, slotVars, call>>
    PROVE  IInv'
<1>1. HostsInv' /\ MapsAgree' BY DEF IInv, HostsInv, MapsAgree
<1>2. CallInv' BY NoCallKeeps DEF IInv
<1>3. TypeOK' BY <1>1, <1>2, SilentIsTrue, TypesFollow DEF IInv, TypeOK
<1> QED BY <1>1, <1>2, <1>3, SilentIsTrue DEF IInv

\* A module that takes the slot of an id agrees with the manifest that is
\* recorded with it.
LEMMA SlotTaken ==
    ASSUME IInv, call.kind = "none", RebuildInv', Silent,
           UNCHANGED <<workspaceVars, call>>,
           NEW id \in Ids, NEW host, NEW spec, NEW m \in Manifests,
           hosts' = [hosts EXCEPT ![id] = host], GoodHost(host),
           hostless' = [hostless EXCEPT ![id] = spec], spec \in Lifecycles,
           manifests' = [manifests EXCEPT ![id] = m],
           IF m.component THEN /\ host # Absent /\ spec = Absent
                               /\ host.package = m.digest
                          ELSE /\ host = Absent /\ spec # Absent
                               /\ spec.package = m.digest
    PROVE  IInv'
<1>1. HostsInv' BY DEF IInv, HostsInv
<1>2. m # Gone /\ m = [digest |-> m.digest, component |-> m.component]
      /\ m.component \in BOOLEAN
  BY DEF Manifests, Gone
<1>3. MapsAgree'
  <2> SUFFICES ASSUME NEW i \in Ids
               PROVE  /\ manifests'[i] = Gone
                            <=> hosts'[i] = Absent /\ hostless'[i] = Absent
                      /\ hosts'[i] # Absent =>
                             /\ manifests'[i] = [digest |-> hosts'[i].package,
                                                 component |-> TRUE]
                             /\ hostless'[i] = Absent
                      /\ hostless'[i] # Absent =>
                             manifests'[i] = [digest |-> hostless'[i].package,
                                              component |-> FALSE]
      BY DEF MapsAgree
  <2>1. CASE i # id
    <3>1. /\ hosts'[i] = hosts[i] /\ hostless'[i] = hostless[i]
          /\ manifests'[i] = manifests[i]
      BY <2>1 DEF IInv, TypeOK
    <3> QED BY <3>1 DEF IInv, MapsAgree
  <2>2. CASE i = id
    <3>1. hosts'[i] = host /\ hostless'[i] = spec /\ manifests'[i] = m
      BY <2>2 DEF IInv, TypeOK
    <3> QED BY <1>2, <3>1
  <2> QED BY <2>1, <2>2
<1>4. CallInv' BY NoCallKeeps DEF IInv
<1>5. hostless' \in [Ids -> Lifecycles]
      /\ manifests' \in [Ids -> Manifests \cup {Gone}]
  BY DEF IInv, TypeOK
<1>6. TypeOK'
  BY <1>1, <1>4, <1>5, SilentIsTrue, TypesFollow DEF IInv, TypeOK
<1> QED BY <1>1, <1>3, <1>4, <1>6, SilentIsTrue DEF IInv
\* The id a rebuild is at is wanted, and no call is in progress.
LEMMA ApplyingIs ==
    ASSUME IInv, NEW id \in Ids, Applying(id)
    PROVE  /\ rebuild.running /\ call.kind = "none"
           /\ rebuild.wanted[id] \in Manifests
           /\ rebuild.wanted[id].digest \in Digests
BY DEF IInv, TypeOK, RebuildInv, Applying, Manifests

\* Steps that only finish an id, or the rebuild.
LEMMA FinishStep ==
    ASSUME IInv, NEW id \in Ids
    PROVE  KeepModule(id) \/ ActivateFails(id) \/ EndRebuild => IInv'
<1>1. CASE KeepModule(id)
  <2>1. Applying(id) /\ rebuild' = Applied(id) BY <1>1 DEF KeepModule
  <2>2. RebuildInv' BY <2>1, AppliedKeeps DEF IInv
  <2> QED BY <1>1, <2>1, <2>2, ApplyingIs, SlotsStay DEF KeepModule
<1>2. CASE ActivateFails(id)
  <2>1. Applying(id) /\ rebuild' = Applied(id)
    BY <1>2 DEF ActivateFails, Activating
  <2>2. RebuildInv' BY <2>1, AppliedKeeps DEF IInv
  <2> QED BY <1>2, <2>1, <2>2, ApplyingIs, SlotsStay DEF ActivateFails
<1>3. CASE EndRebuild
  <2>1. call.kind = "none" BY <1>3 DEF EndRebuild, IInv, TypeOK
  <2>2. /\ rebuild'.running = FALSE /\ rebuild'.todo = {}
        /\ rebuild'.staged = Absent
        /\ rebuild' \in [running : BOOLEAN,
                         wanted : [Ids -> Manifests \cup {Gone, Broken}],
                         todo : SUBSET Ids, staged : Lifecycles]
    BY <1>3, AbsentIsGood DEF EndRebuild, NoRebuild, GoodHost
  <2>3. RebuildInv' BY <2>2 DEF RebuildInv, Applying
  <2> QED BY <1>3, <2>1, <2>3, SlotsStay DEF EndRebuild
<1> QED BY <1>1, <1>2, <1>3

\* A host is staged for the id the rebuild is at, and for no other.
LEMMA BuildHostStep ==
    ASSUME IInv, NEW id \in Ids, BuildHost(id) PROVE IInv'
<1> DEFINE m == rebuild.wanted[id]
           host == Enable(Install(m.digest))
<1>1. Applying(id) /\ m.component BY DEF BuildHost
<1>2. call.kind = "none" /\ m.digest \in Digests BY <1>1, ApplyingIs
<1>3. RebuildInv'
  <2>1. CASE file[id] = m.digest
    <3>1. GoodHost(host) BY <1>2, StagedIsGood
    <3>2. rebuild' = [rebuild EXCEPT !.staged = host] BY <2>1 DEF BuildHost
    <3> HIDE DEF host
    <3>3. /\ rebuild'.running = rebuild.running /\ rebuild'.todo = rebuild.todo
          /\ rebuild'.wanted = rebuild.wanted /\ rebuild'.staged = host
          /\ rebuild' \in [running : BOOLEAN,
                           wanted : [Ids -> Manifests \cup {Gone, Broken}],
                           todo : SUBSET Ids, staged : Lifecycles]
      BY <3>1, <3>2 DEF IInv, RebuildInv, GoodHost
    <3>4. id \in rebuild.todo BY <1>1 DEF Applying
    <3>5. ASSUME NEW other \in Ids, Applying(other)' PROVE other = id
      <4>1. other \in rebuild.todo /\ other <= id BY <3>3, <3>4, <3>5 DEF Applying
      <4>2. id <= other BY <1>1, <4>1 DEF Applying
      <4>3. id \in Nat /\ other \in Nat OBVIOUS
      <4> QED BY <4>1, <4>2, <4>3
    <3>6. \A other \in Ids :
              Applying(other)' /\ rebuild'.staged # Absent =>
                  /\ rebuild'.staged
                         = Enable(Install(rebuild'.wanted[other].digest))
                  /\ rebuild'.wanted[other].component
      BY <1>1, <3>3, <3>5 DEF host
    <3> QED BY <3>3, <3>4, <3>6 DEF IInv, RebuildInv
  <2>2. CASE file[id] # m.digest
    <3>1. rebuild' = Applied(id) BY <2>2 DEF BuildHost
    <3> QED BY <3>1, AppliedKeeps DEF IInv
  <2> QED BY <2>1, <2>2
<1> QED BY <1>2, <1>3, SlotsStay DEF BuildHost

\* A spec-only module takes the slot of its id.
LEMMA ApplySpecStep ==
    ASSUME IInv, NEW id \in Ids, ApplySpec(id) PROVE IInv'
<1> DEFINE m == rebuild.wanted[id]
           spec == Enable(Install(m.digest))
<1>1. /\ Applying(id) /\ ~m.component
      /\ hosts' = [hosts EXCEPT ![id] = Absent]
      /\ hostless' = [hostless EXCEPT ![id] = spec]
      /\ manifests' = [manifests EXCEPT ![id] = m]
      /\ rebuild' = Applied(id)
      /\ Silent /\ UNCHANGED <<workspaceVars, call>>
  BY DEF ApplySpec
<1>2. call.kind = "none" /\ m \in Manifests /\ m.digest \in Digests
  BY <1>1, ApplyingIs
<1>3. spec \in Lifecycles /\ spec # Absent /\ spec.package = m.digest
  BY <1>2, StagedIsGood DEF GoodHost
<1>4. RebuildInv' BY <1>1, AppliedKeeps DEF IInv
<1> HIDE DEF m, spec
<1> QED BY <1>1, <1>2, <1>3, <1>4, AbsentIsGood, SlotTaken

\* What is activated is good, and of the package that is wanted.
LEMMA CandidateIsGood ==
    ASSUME IInv, NEW id \in Ids, Activating(id)
    PROVE  /\ GoodHost(Candidate(id))
           /\ Candidate(id).package = rebuild.wanted[id].digest
<1>1. Applying(id) /\ rebuild.wanted[id].component BY DEF Activating
<1>2. CASE Unchanged(id)
  BY <1>1, <1>2 DEF Candidate, Unchanged, IInv, HostsInv
<1>3. CASE ~Unchanged(id)
  <2>1. Candidate(id) = rebuild.staged BY <1>3 DEF Candidate
  <2>2. rebuild.staged # Absent BY <2>1 DEF Activating, Absent, Lifecycle
  <2>3. rebuild.staged = Enable(Install(rebuild.wanted[id].digest))
    BY <1>1, <2>2 DEF IInv, RebuildInv
  <2> QED BY <1>1, <2>1, <2>3, ApplyingIs, StagedIsGood
<1> QED BY <1>2, <1>3

\* An activated module takes the slot of its id.
LEMMA ActivateStep ==
    ASSUME IInv, NEW id \in Ids, ActivateModule(id) PROVE IInv'
<1> DEFINE m == rebuild.wanted[id]
           old == Candidate(id)
<1>1. /\ Activating(id) /\ Eligible(old) /\ file[id] = old.package
      /\ hostless' = [hostless EXCEPT ![id] = Absent]
      /\ manifests' = [manifests EXCEPT ![id] = m]
      /\ rebuild' = Applied(id)
      /\ Silent /\ UNCHANGED <<workspaceVars, call>>
  BY DEF ActivateModule, Loads
<1>2. Applying(id) /\ m.component BY <1>1 DEF Activating
<1>3. call.kind = "none" /\ m \in Manifests /\ m.digest \in Digests
  BY <1>2, ApplyingIs
<1>4. GoodHost(old) /\ old.package = m.digest BY <1>1, CandidateIsGood
<1>5. PICK used \in 0 .. MaxHostCalls :
          hosts' = [hosts EXCEPT ![id] = Commit(old, Session(old.package, used))]
  BY <1>1 DEF ActivateModule
<1> DEFINE new == Commit(old, Session(old.package, used))
<1>6. GoodHost(new) /\ new # Absent /\ new.package = m.digest
  BY <1>1, <1>3, <1>4, CommitIsGood
<1>7. RebuildInv' BY <1>1, AppliedKeeps DEF IInv
<1>8. Absent \in Lifecycles BY AbsentIsGood DEF GoodHost
<1>9. hosts' = [hosts EXCEPT ![id] = new] BY <1>5
<1> HIDE DEF m, old, new
<1> QED BY <1>1, <1>2, <1>3, <1>6, <1>7, <1>8, <1>9, SlotTaken

\* Every step of a rebuild keeps the invariant.
LEMMA RebuildingStep == IInv /\ Rebuilding => IInv'
<1> SUFFICES ASSUME IInv, Rebuilding PROVE IInv' OBVIOUS
<1>1. CASE BeginRebuild BY <1>1, BeginRebuildStep
<1>2. CASE EndRebuild
  <2>1. PICK id \in Ids : TRUE OBVIOUS
  <2> QED BY <1>2, <2>1, FinishStep
<1>3. ASSUME NEW id \in Ids,
             \/ KeepModule(id) \/ ApplySpec(id) \/ BuildHost(id)
             \/ ActivateModule(id) \/ ActivateFails(id)
      PROVE  IInv'
  BY <1>3, FinishStep, BuildHostStep, ApplySpecStep, ActivateStep
<1> QED BY <1>1, <1>2, <1>3 DEF Rebuilding

----------------------------------------------------------------------------
(* A call keeps the invariant. *)

\* Without a call nothing has been observed.
LEMMA NoCallIsTrue ==
    ASSUME call' = NoCall PROVE CallInv' /\ call'.kind = "none"
<1>1. (CHOOSE id \in Ids : TRUE) \in Ids OBVIOUS
<1> DEFINE some == CHOOSE id \in Ids : TRUE
<1>2. call' = [kind |-> "none", id |-> some, request |-> "invalid",
               answer |-> "none", observed |-> "none"]
  BY DEF NoCall
<1>3. some \in Ids BY <1>1
<1> HIDE DEF some
<1> QED BY <1>2, <1>3 DEF CallInv, Requests, Capabilities

\* A call that begins is of a live guest, and nothing is observed yet.
LEMMA NewCallIsTrue ==
    ASSUME NEW id \in Ids, hosts[id].session.live, UNCHANGED hosts,
           NEW kind \in {"query", "effect"}, NEW request \in Requests,
           kind = "effect" => request # "invalid",
           call' = [kind |-> kind, id |-> id, request |-> request,
                    answer |-> "none", observed |-> "none"]
    PROVE  CallInv'
BY DEF CallInv

\* A step that leaves the rebuild, the maps and the packages alone keeps the
\* rest of the invariant.
LEMMA CallKeeps ==
    ASSUME IInv, HostsInv', CallInv', AnswersAreTrue',
           given'.answer \in {"none", "ok", "denied", "error"},
           rebuild.running => call'.kind = "none",
           \A id \in Ids : /\ hosts'[id] = Absent <=> hosts[id] = Absent
                           /\ hosts'[id].package = hosts[id].package,
           UNCHANGED <<workspaceVars, hostless, manifests, rebuild>>
    PROVE  IInv'
<1>1. RebuildInv' BY DEF IInv, RebuildInv, Applying
<1>2. MapsAgree' BY MapsFollow DEF IInv
<1>3. TypeOK' BY <1>1, TypesFollow DEF IInv, TypeOK
<1> QED BY <1>1, <1>2, <1>3 DEF IInv

\* Calls begin while no rebuild runs.
LEMMA BeginCallStep ==
    ASSUME IInv, NEW id \in Ids, Query(id) \/ RequestEffect(id) PROVE IInv'
<1>1. /\ ~rebuild.running /\ hosts[id].session.live /\ Silent
      /\ UNCHANGED <<workspaceVars, slotVars, rebuild>>
  BY DEF Query, RequestEffect, Callable
<1>2. CallInv'
  <2>1. CASE Query(id)
    <3>1. call' = [kind |-> "query", id |-> id, request |-> "invalid",
                   answer |-> "none", observed |-> "none"]
      BY <2>1 DEF Query, NoCall
    <3>2. "invalid" \in Requests BY DEF Requests
    <3> QED BY <1>1, <3>1, <3>2, NewCallIsTrue
  <2>2. CASE RequestEffect(id)
    <3>1. PICK request \in Capabilities :
              call' = [NoCall EXCEPT !.kind = "effect", !.id = id,
                                     !.request = request]
      BY <2>2 DEF RequestEffect
    <3>2. call' = [kind |-> "effect", id |-> id, request |-> request,
                   answer |-> "none", observed |-> "none"]
      BY <3>1 DEF NoCall
    <3>3. request \in Requests /\ request # "invalid"
      BY DEF Requests, Capabilities
    <3> QED BY <1>1, <3>2, <3>3, NewCallIsTrue
  <2> QED BY <2>1, <2>2
<1>3. HostsInv' BY <1>1 DEF IInv, HostsInv
<1> QED BY <1>1, <1>2, <1>3, SilentIsTrue, CallKeeps

\* An effect is charged to the session that asked for it, and what the call
\* observes is the host's answer to it.
LEMMA PerformStep == ASSUME IInv, Perform PROVE IInv'
<1>1. PICK request \in Requests : Mediate(request) BY DEF Perform
<1>2. PICK id \in Ids : id = call.id BY DEF IInv, CallInv
<1> DEFINE host == hosts[id]
           answers == IF host.session.left = 0 THEN {"exceeded"}
                      ELSE Outcomes(request, host.grant)
<1>3. PICK answer \in answers :
          /\ hosts' = IF answer = "exceeded" THEN hosts
                      ELSE [hosts EXCEPT ![id].session.left = @ - 1,
                                         ![id].session.mediated = @ + 1]
          /\ call' = [call EXCEPT !.answer = answer,
                                  !.observed = IF request = "invalid"
                                               THEN "none" ELSE request]
  BY <1>1, <1>2 DEF Mediate
<1>4. /\ call.kind # "none" /\ Silent
      /\ UNCHANGED <<workspaceVars, hostless, manifests, rebuild>>
  BY DEF Perform
<1>5. GoodHost(host) /\ host.session.live
  BY <1>2, <1>4 DEF IInv, HostsInv, CallInv
<1>6. Outcomes(request, host.grant) \subseteq {"ok", "denied", "error"}
  BY DEF Outcomes
<1>7. /\ answer \in {"ok", "denied", "error", "exceeded"}
      /\ answer # "exceeded" =>
             host.session.left # 0 /\ answer \in Outcomes(request, host.grant)
  BY <1>6
<1>8. /\ \A other \in Ids \ {id} : hosts'[other] = hosts[other]
      /\ GoodHost(hosts'[id]) /\ hosts'[id].session.live /\ hosts'[id] # Absent
      /\ hosts'[id].package = host.package /\ hosts'[id].grant = host.grant
      /\ hosts' = [other \in Ids |-> hosts'[other]]
  <2>1. CASE answer = "exceeded"
    BY <1>3, <1>5, <2>1, AbsentIsGood DEF IInv, HostsInv, GoodHost
  <2>2. CASE answer # "exceeded"
    <3> DEFINE new == [host EXCEPT !.session.left = @ - 1,
                                   !.session.mediated = @ + 1]
    <3>1. hosts' = [hosts EXCEPT ![id] = new] BY <1>3, <2>2
    <3>2. /\ GoodHost(new) /\ new.session.live /\ new # Absent
          /\ new.package = host.package /\ new.grant = host.grant
      BY <1>5, <1>7, <2>2, ChargedIsGood
    <3> HIDE DEF new
    <3> QED BY <3>1, <3>2 DEF IInv, HostsInv
  <2> QED BY <2>1, <2>2
<1>9. HostsInv' BY <1>8 DEF IInv, HostsInv
<1>10. host # Absent BY <1>5, AbsentIsGood DEF GoodHost
<1>11. CallInv'
  <2>1. /\ call'.kind = call.kind /\ call'.id = id
        /\ call'.request = call.request /\ call'.answer = answer
        /\ call'.observed = IF request = "invalid" THEN "none" ELSE request
    BY <1>2, <1>3 DEF IInv, CallInv
  <2>2. call' \in [kind : {"none", "query", "effect"}, id : Ids,
                   request : Requests,
                   answer : {"none", "ok", "denied", "error", "exceeded"},
                   observed : Capabilities \cup {"none"}]
    BY <1>3, <1>7 DEF IInv, CallInv, Requests
  <2>3. hosts'[call'.id].session.live /\ hosts'[call'.id].grant = host.grant
    BY <1>8, <2>1
  <2>4. call'.observed # "none" =>
            \/ call'.answer = "exceeded"
            \/ call'.answer \in Outcomes(call'.observed, hosts'[call'.id].grant)
    BY <1>7, <2>1, <2>3
  <2> QED BY <1>4, <2>1, <2>2, <2>3, <2>4 DEF IInv, CallInv
<1>12. \A other \in Ids : /\ hosts'[other] = Absent <=> hosts[other] = Absent
                          /\ hosts'[other].package = hosts[other].package
  BY <1>8, <1>10
<1>13. rebuild.running => call'.kind = "none" BY <1>4 DEF IInv, TypeOK
<1> QED BY <1>4, <1>9, <1>11, <1>12, <1>13, SilentIsTrue, CallKeeps

\* A session that is stopped leaves its module where it is.
LEMMA StopKeeps ==
    ASSUME IInv, call.kind # "none", StopSession
    PROVE  /\ HostsInv'
           /\ \A id \in Ids : /\ hosts'[id] = Absent <=> hosts[id] = Absent
                              /\ hosts'[id].package = hosts[id].package
<1>1. PICK id \in Ids : id = call.id BY DEF IInv, CallInv
<1> DEFINE host == hosts[id]
           new == Deactivate(host)
<1>2. GoodHost(host) /\ host.session.live
  BY <1>1 DEF IInv, HostsInv, CallInv
<1>3. host # Absent BY <1>2, AbsentIsGood DEF GoodHost
<1>4. hosts' = [hosts EXCEPT ![id] = new] BY <1>1 DEF StopSession
<1>5. GoodHost(new) /\ new # Absent /\ new.package = host.package
  BY <1>2, DeactivatedIsGood
<1> HIDE DEF new
<1> QED BY <1>3, <1>4, <1>5 DEF IInv, HostsInv

\* Only a granted request is ever carried out, or tried.
LEMMA OutcomesAre ==
    ASSUME NEW request \in Capabilities, NEW grant,
           NEW answer \in Outcomes(request, grant)
    PROVE  /\ answer \in {"ok", "denied", "error"}
           /\ answer = "ok" => request = "read" /\ "read" \in grant
           /\ answer = "error" => request \in grant
BY DEF Outcomes, Capabilities

\* A call ends with the host's own answer, or with none.
LEMMA EndCallStep ==
    ASSUME IInv, QueryReturns \/ QueryTraps \/ EffectReturns \/ EffectFails
    PROVE  IInv'
<1>1. /\ call.kind # "none" /\ call' = NoCall
      /\ UNCHANGED <<workspaceVars, hostless, manifests, rebuild>>
      /\ UNCHANGED hosts \/ StopSession
  BY DEF QueryReturns, QueryTraps, EffectReturns, EffectFails, EndCall
<1>2. CallInv' /\ call'.kind = "none" BY <1>1, NoCallIsTrue
<1>3. /\ HostsInv'
      /\ \A id \in Ids : /\ hosts'[id] = Absent <=> hosts[id] = Absent
                         /\ hosts'[id].package = hosts[id].package
  <2>1. CASE UNCHANGED hosts BY <2>1 DEF IInv, HostsInv
  <2>2. CASE StopSession BY <1>1, <2>2, StopKeeps
  <2> QED BY <1>1, <2>1, <2>2
<1>4. AnswersAreTrue' /\ given'.answer \in {"none", "ok", "denied", "error"}
  <2>1. CASE Silent BY <2>1, SilentIsTrue
  <2>2. CASE EffectReturns /\ call.answer # "exceeded"
    <3> DEFINE grant == hosts[call.id].grant
    <3>1. given' = [request |-> call.request, answer |-> call.answer,
                    grant |-> grant]
      BY <2>2 DEF EffectReturns
    <3>2. call.request = call.observed /\ call.request # "none"
          /\ call.request \in Capabilities
      BY <2>2 DEF EffectReturns, Mediated, IInv, CallInv, Requests, Capabilities
    <3>3. call.answer \in Outcomes(call.request, grant)
      BY <2>2, <3>2 DEF IInv, CallInv
    <3> HIDE DEF grant
    <3>4. /\ call.answer \in {"ok", "denied", "error"}
          /\ call.answer = "ok" => call.request = "read" /\ "read" \in grant
          /\ call.answer = "error" => call.request \in grant
      BY <3>2, <3>3, OutcomesAre
    <3> QED BY <3>1, <3>4 DEF AnswersAreTrue
  <2> QED BY <2>1, <2>2
       DEF QueryReturns, QueryTraps, EffectReturns, EffectFails, Silent
<1> QED BY <1>1, <1>2, <1>3, <1>4, CallKeeps

\* A session is cancelled between two calls.
LEMMA CancelStep == ASSUME IInv, NEW id \in Ids, Cancel(id) PROVE IInv'
<1> DEFINE host == hosts[id]
           new == [host EXCEPT !.session.cancelled = TRUE]
<1>1. /\ call.kind = "none" /\ host.session.live /\ Silent
      /\ hosts' = [hosts EXCEPT ![id] = new]
      /\ UNCHANGED <<workspaceVars, hostless, manifests, rebuild, call>>
  BY DEF Cancel
<1>2. GoodHost(host) BY DEF IInv, HostsInv
<1>3. GoodHost(new) /\ new # Absent /\ new.package = host.package
  BY <1>1, <1>2, CancelledIsGood
<1>4. host # Absent BY <1>1, AbsentIsGood DEF GoodHost
<1> HIDE DEF new
<1>5. HostsInv' BY <1>1, <1>3 DEF IInv, HostsInv
<1>6. \A other \in Ids : /\ hosts'[other] = Absent <=> hosts[other] = Absent
                         /\ hosts'[other].package = hosts[other].package
  BY <1>1, <1>3, <1>4 DEF IInv, HostsInv
<1>7. CallInv' BY <1>1, NoCallKeeps DEF IInv
<1> QED BY <1>1, <1>5, <1>6, <1>7, SilentIsTrue, CallKeeps

\* The workspace changes under a session, which reads it when it rebuilds.
LEMMA EditingStep == ASSUME IInv, Editing PROVE IInv'
<1>1. /\ UNCHANGED <<slotVars, rebuild, call>> /\ Silent
      /\ declared' \in [Ids -> Manifests \cup {Gone, Broken}]
      /\ file' \in [Ids -> Digests]
  BY DEF Editing, EditDeclaration, EditFile, IInv, TypeOK
<1>2. HostsInv' /\ RebuildInv' /\ CallInv' /\ MapsAgree'
  BY <1>1 DEF IInv, HostsInv, RebuildInv, Applying, CallInv, MapsAgree
<1>3. TypeOK' BY <1>1, <1>2, SilentIsTrue, TypesFollow DEF IInv, TypeOK
<1> QED BY <1>1, <1>2, <1>3, SilentIsTrue DEF IInv

----------------------------------------------------------------------------
(* The theorems. *)

\* The session begins without modules and without a call.
LEMMA InitEstablishes == Init => IInv
<1> SUFFICES ASSUME Init PROVE IInv OBVIOUS
<1>1. Absent \in Lifecycles /\ GoodHost(Absent)
  BY AbsentIsGood DEF GoodHost
<1>2. HostsInv BY <1>1 DEF Init, HostsInv
<1>3. RebuildInv
  <2>1. /\ rebuild.running = FALSE /\ rebuild.todo = {}
        /\ rebuild.staged = Absent
        /\ rebuild \in [running : BOOLEAN,
                        wanted : [Ids -> Manifests \cup {Gone, Broken}],
                        todo : SUBSET Ids, staged : Lifecycles]
    BY <1>1 DEF Init, NoRebuild
  <2> QED BY <2>1 DEF RebuildInv, Applying
<1>4. CallInv /\ call.kind = "none"
  <2>1. PICK some \in Ids : some = CHOOSE id \in Ids : TRUE OBVIOUS
  <2>2. call = [kind |-> "none", id |-> some, request |-> "invalid",
                answer |-> "none", observed |-> "none"]
    BY <2>1 DEF Init, NoCall
  <2> QED BY <2>2 DEF CallInv, Requests, Capabilities
<1>5. MapsAgree BY DEF Init, MapsAgree
<1>6. AnswersAreTrue /\ given.answer = "none"
  BY DEF Init, NoAnswer, AnswersAreTrue
<1>7. /\ declared \in [Ids -> Manifests \cup {Gone, Broken}]
      /\ file \in [Ids -> Digests]
      /\ hosts \in [Ids -> Lifecycles] /\ hostless \in [Ids -> Lifecycles]
      /\ manifests \in [Ids -> Manifests \cup {Gone}]
  BY <1>1 DEF Init
<1>8. rebuild.staged \in Lifecycles /\ rebuild.todo \subseteq Ids
  BY <1>3 DEF RebuildInv
<1>9. TypeOK BY <1>4, <1>6, <1>7, <1>8 DEF TypeOK
<1> QED BY <1>2, <1>3, <1>4, <1>5, <1>6, <1>9 DEF IInv

\* Every step keeps the invariant.
LEMMA StepKeeps == IInv /\ [Next]_vars => IInv'
<1> SUFFICES ASSUME IInv, [Next]_vars PROVE IInv' OBVIOUS
<1>1. CASE Rebuilding BY <1>1, RebuildingStep
<1>2. CASE Calling
  BY <1>2, BeginCallStep, PerformStep, EndCallStep, CancelStep DEF Calling
<1>3. CASE Editing BY <1>3, EditingStep
<1>4. CASE UNCHANGED vars
  BY <1>4 DEF vars, IInv, TypeOK, HostsInv, RebuildInv, Applying, CallInv,
              MapsAgree, AnswersAreTrue
<1> QED BY <1>1, <1>2, <1>3, <1>4 DEF Next

\* The inductive invariant holds in every state of a session.
THEOREM Invariance == Spec => []IInv
<1>1. Init => IInv BY InitEstablishes
<1>2. IInv /\ [Next]_vars => IInv' BY StepKeeps
<1> QED BY <1>1, <1>2, PTL DEF Spec

\* The variables of a session's modules keep their types, and a rebuild and
\* a call of a guest never overlap.
THEOREM TypeCorrect == Spec => []TypeOK
<1>1. IInv => TypeOK BY DEF IInv
<1> QED BY <1>1, Invariance, PTL

\* Whatever changes in the workspace and whatever the guests do: maps and
\* manifests agree, a guest that runs is the component that was installed
\* and granted within the host's authority, and the host mediates no more
\* effects for it than its budget (apply_one, activate, mediate).
THEOREM HostsAgree == Spec => []HostAgrees
<1>1. IInv => HostAgrees
  <2> SUFFICES ASSUME IInv PROVE HostAgrees OBVIOUS
  <2>1. MapsAgree BY DEF IInv
  <2>2. SessionIsInstalled BY DEF IInv, HostsInv, GoodHost, SessionIsInstalled
  <2>3. BudgetHolds
    <3> SUFFICES ASSUME NEW id \in Ids
                 PROVE  hosts[id].session.mediated <= MaxHostCalls
        BY DEF BudgetHolds
    <3> DEFINE session == hosts[id].session
    <3>1. GoodHost(hosts[id]) BY DEF IInv, HostsInv
    <3>2. session.left \in Nat /\ session.mediated \in Nat
      BY <3>1 DEF GoodHost, Lifecycles, Sessions
    <3>3. CASE Active(hosts[id]) BY <3>1, <3>2, <3>3 DEF GoodHost
    <3>4. CASE ~Active(hosts[id])
      BY <3>1, <3>4 DEF GoodHost, NoSession
    <3> QED BY <3>3, <3>4
  <2> QED BY <2>1, <2>2, <2>3 DEF HostAgrees
<1> QED BY <1>1, Invariance, PTL

\* What the caller of request_effect is told fits its request and what the call
\* was granted, whatever the guest answers.
THEOREM AnswersTrue == Spec => []AnswersAreTrue
<1>1. IInv => AnswersAreTrue BY DEF IInv
<1> QED BY <1>1, Invariance, PTL

\* A rebuild stops a module that works only when its declaration is gone: an
\* apply that fails keeps what runs (apply, apply_one, remove_current).
THEOREM RebuildKeepsWorking == Spec => RebuildKeeps
<1> DEFINE Kept == Rebuilding =>
                       \A id \in Ids :
                           Works(id) /\ ~Works(id)' => declared[id] = Gone
<1>1. IInv /\ [Next]_vars => [Kept]_vars
  <2> SUFFICES ASSUME IInv, Rebuilding, NEW i \in Ids, Works(i), ~Works(i)'
               PROVE  declared[i] = Gone
      OBVIOUS
  <2>1. CASE BeginRebuild
    <3> DEFINE wanted == [id \in Ids |-> Resolve(id)]
               gone == {id \in Ids : Held(id) /\ wanted[id] = Gone}
    <3>1. /\ hosts' = Removed(hosts, gone, Absent)
          /\ hostless' = Removed(hostless, gone, Absent)
      BY <2>1 DEF BeginRebuild
    <3>2. i \in gone BY <3>1 DEF Removed, Works, Active
    <3>3. Resolve(i) = Gone BY <3>2
    <3>4. Gone \notin Manifests /\ Gone # Broken BY DEF Gone, Broken, Manifests
    <3> QED BY <3>3, <3>4 DEF Resolve
  <2>2. ASSUME NEW id \in Ids, KeepModule(id) \/ BuildHost(id) \/ ActivateFails(id)
               \/ EndRebuild
        PROVE  FALSE
    BY <2>2 DEF KeepModule, BuildHost, ActivateFails, EndRebuild, Works, Active
  <2>3. ASSUME NEW id \in Ids, ApplySpec(id) PROVE FALSE
    <3>1. Enable(Install(rebuild.wanted[id].digest)).state = "enabled"
      BY DEF Enable, Install, Lifecycle
    <3>2. i # id => hosts'[i] = hosts[i] /\ hostless'[i] = hostless[i]
      BY <2>3 DEF ApplySpec, IInv, TypeOK
    <3>3. i = id => hostless'[i] = Enable(Install(rebuild.wanted[id].digest))
      BY <2>3 DEF ApplySpec, IInv, TypeOK
    <3> QED BY <3>1, <3>2, <3>3 DEF Works, Active
  <2>4. ASSUME NEW id \in Ids, ActivateModule(id) PROVE FALSE
    <3> DEFINE old == Candidate(id)
    <3>1. PICK used \in 0 .. MaxHostCalls :
              hosts' = [hosts EXCEPT ![id] = Commit(old, Session(file[id], used))]
      BY <2>4 DEF ActivateModule
    <3>2. GoodHost(old) BY <2>4, CandidateIsGood DEF ActivateModule
    <3>3. Commit(old, Session(file[id], used)).state = "active"
      BY <3>2 DEF Commit, GoodHost, Lifecycles
    <3>4. i # id => hosts'[i] = hosts[i] /\ hostless'[i] = hostless[i]
      BY <2>4, <3>1 DEF ActivateModule, IInv, TypeOK
    <3>5. i = id => hosts'[i].state = "active"
      BY <3>1, <3>3 DEF IInv, TypeOK
    <3> QED BY <3>4, <3>5 DEF Works, Active
  <2> QED BY <2>1, <2>2, <2>3, <2>4 DEF Rebuilding
<1> QED BY <1>1, Invariance, PTL DEF Spec, RebuildKeeps

=============================================================================
