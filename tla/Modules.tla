------------------------------ MODULE Modules ------------------------------
(***************************************************************************)
(* The modules of a session: the declarations a rebuild applies            *)
(* (cli/interactive/modules.rs), the host of each component module         *)
(* (adapters/module/host.rs) with its lifecycle (core/module/lifecycle.rs) *)
(* and the mediator of the effects its guest asks for                      *)
(* (adapters/module/effects.rs).                                           *)
(*                                                                         *)
(* The session's thread owns the hosts, so a rebuild and a call of a guest *)
(* never overlap; the files of the workspace change at any time, the guest *)
(* does what it likes.  A package is the digest of its component: what it  *)
(* declares goes with it.  A manifest adds whether it names a component at *)
(* all.  A host borrows its lifecycle for the whole of an activation, so   *)
(* the fence of generations always holds there and is left out, with the   *)
(* session numbers, fuel, memory and the sizes of texts; running out of    *)
(* one of them is a trap, or a failed activation.                          *)
(***************************************************************************)
EXTENDS Naturals, FiniteSets

CONSTANTS
    Ids,           \* module ids, numbered in the order of their names
    Digests,       \* component bytes, by digest
    Readers,       \* packages that declare workspace-read
    Executors,     \* packages that declare process-exec
    Authority,     \* what the host policy grants at most
    MaxHostCalls   \* max_host_calls

Capabilities == {"read", "exec"}

ASSUME ModulesAssumption ==
    /\ Ids \subseteq Nat /\ Ids # {}
    /\ Readers \subseteq Digests /\ Executors \subseteq Digests
    /\ Authority \subseteq Capabilities
    /\ MaxHostCalls \in Nat
    /\ {"none", "gone", "broken"} \cap Digests = {}

Manifests == [digest : Digests, component : BOOLEAN]
Gone      == [digest |-> "gone", component |-> FALSE]
Broken    == [digest |-> "broken", component |-> FALSE]

\* What a guest may ask the host for; an invalid request names nothing.
Requests == Capabilities \cup {"invalid"}

VARIABLES
    declared,    \* what the workspace declares for each id
    file,        \* the digest of each id's component file; a file that is
                 \* missing is one with a digest no manifest names
    hosts,       \* the component modules
    hostless,    \* the spec-only modules
    manifests,
    rebuild,     \* the rebuild in progress
    call,        \* the call of a guest in progress
    given        \* history: the answer this step gave its caller

workspaceVars == <<declared, file>>
slotVars      == <<hosts, hostless, manifests>>
vars          == <<workspaceVars, slotVars, rebuild, call, given>>

NoAnswer == [request |-> "invalid", answer |-> "none", grant |-> {}]
Silent   == given' = NoAnswer

----------------------------------------------------------------------------
(***************************************************************************)
(* Lifecycles and sessions                                                 *)
(***************************************************************************)

NoSession == [live |-> FALSE, digest |-> "none", left |-> 0, mediated |-> 0,
              cancelled |-> FALSE]

\* The effects a session mediated are history: the code does not keep them.
Session(digest, used) ==
    [live |-> TRUE, digest |-> digest, left |-> MaxHostCalls - used,
     mediated |-> used, cancelled |-> FALSE]

Lifecycle(state, digest) ==
    [state |-> state, package |-> digest, grant |-> {}, session |-> NoSession]

Absent == Lifecycle("absent", "none")

Active(host) == host.state = "active"

Declared(digest) ==
    {c \in Capabilities : \/ c = "read" /\ digest \in Readers
                          \/ c = "exec" /\ digest \in Executors}

Install(digest) == Lifecycle("installed", digest)

Enable(life) == [life EXCEPT !.state = "enabled"]

Deactivate(host) ==
    [host EXCEPT !.state = "enabled", !.grant = {}, !.session = NoSession]

\* prepare_activation: the package is enabled and the host policy grants
\* all it declares.
Eligible(host) ==
    host.state = "enabled" /\ Declared(host.package) \subseteq Authority

Commit(host, session) ==
    [host EXCEPT !.state = "active",
                 !.grant = Declared(host.package),
                 !.session = session]

----------------------------------------------------------------------------
(***************************************************************************)
(* A rebuild                                                               *)
(***************************************************************************)

NoRebuild == [running |-> FALSE, wanted |-> [id \in Ids |-> Gone],
              todo |-> {}, staged |-> Absent]

\* Seeded fault: a declaration that does not resolve counts as a deletion.
ResolveOrDrop(id) ==
    IF /\ declared[id] \in Manifests
       /\ declared[id].component => file[id] = declared[id].digest
    THEN declared[id] ELSE Gone

\* The declarations that resolve, each with its component verified.
Resolve(id) ==
    IF /\ declared[id] \in Manifests
       /\ declared[id].component => file[id] = declared[id].digest
    THEN declared[id] ELSE IF declared[id] = Gone THEN Gone ELSE Broken

\* remove_current: deactivate, uninstall and forget the id.
Removed(map, ids, nothing) == [id \in Ids |-> IF id \in ids THEN nothing ELSE map[id]]

Held(id) == \/ hosts[id] # Absent
            \/ hostless[id] # Absent
            \/ manifests[id] # Gone

\* Load and resolve the declarations, then remove what disappeared.
BeginRebuild ==
    LET wanted == [id \in Ids |-> Resolve(id)]
        gone   == {id \in Ids : Held(id) /\ wanted[id] = Gone}
    IN  /\ ~rebuild.running /\ call.kind = "none"
        /\ rebuild' = [NoRebuild EXCEPT
                          !.running = TRUE,
                          !.wanted = wanted,
                          !.todo = {id \in Ids : wanted[id] \in Manifests}]
        /\ hosts' = Removed(hosts, gone, Absent)
        /\ hostless' = Removed(hostless, gone, Absent)
        /\ manifests' = Removed(manifests, gone, Gone)
        /\ Silent /\ UNCHANGED <<workspaceVars, call>>

Applied(id) == [rebuild EXCEPT !.todo = @ \ {id}, !.staged = Absent]

\* One id after the other, in their order.
Applying(id) ==
    /\ rebuild.running /\ id \in rebuild.todo
    /\ \A other \in rebuild.todo : id <= other

Unchanged(id) ==
    LET m == rebuild.wanted[id]
    IN  /\ manifests[id] = m
        /\ IF m.component THEN hosts[id].package = m.digest
                          ELSE hostless[id].package = m.digest

\* Nothing to do for an unchanged module that runs.
KeepModule(id) ==
    /\ Applying(id) /\ Unchanged(id)
    /\ rebuild.wanted[id].component => Active(hosts[id])
    /\ rebuild' = Applied(id)
    /\ Silent /\ UNCHANGED <<workspaceVars, slotVars, call>>

\* A spec-only module is staged and swapped in.
ApplySpec(id) ==
    LET m == rebuild.wanted[id]
    IN  /\ Applying(id) /\ ~Unchanged(id) /\ ~m.component
        /\ hosts' = [hosts EXCEPT ![id] = Absent]
        /\ hostless' = [hostless EXCEPT ![id] = Enable(Install(m.digest))]
        /\ manifests' = [manifests EXCEPT ![id] = m]
        /\ rebuild' = Applied(id)
        /\ Silent /\ UNCHANGED <<workspaceVars, call>>

\* build_host reads and verifies the component again.
BuildHost(id) ==
    LET m == rebuild.wanted[id]
    IN  /\ Applying(id) /\ ~Unchanged(id) /\ m.component
        /\ rebuild.staged = Absent
        /\ rebuild' = IF file[id] = m.digest
                      THEN [rebuild EXCEPT !.staged = Enable(Install(m.digest))]
                      ELSE Applied(id)
        /\ Silent /\ UNCHANGED <<workspaceVars, slotVars, call>>

\* The host an apply activates: the staged one, or the one already there.
Candidate(id) == IF Unchanged(id) THEN hosts[id] ELSE rebuild.staged

Activating(id) ==
    /\ Applying(id) /\ rebuild.wanted[id].component
    /\ Candidate(id).state = "enabled"

\* Seeded fault: activation trusts the verification of the installation.
LoadsInstalled(id) == Candidate(id).package \in Digests

\* The bytes activate loads are read once more, and compared.
Loads(id) == file[id] = Candidate(id).package

\* The guest initialises and binds, asking for effects meanwhile; then the
\* activation is committed and the module takes the slot of the old one.
ActivateModule(id) ==
    /\ Activating(id) /\ Eligible(Candidate(id)) /\ Loads(id)
    /\ \E used \in 0..MaxHostCalls :
           hosts' = [hosts EXCEPT ![id] =
                        Commit(Candidate(id), Session(file[id], used))]
    /\ hostless' = [hostless EXCEPT ![id] = Absent]
    /\ manifests' = [manifests EXCEPT ![id] = rebuild.wanted[id]]
    /\ rebuild' = Applied(id)
    /\ Silent /\ UNCHANGED <<workspaceVars, call>>

\* Denied, changed bytes, or a guest that is malformed, traps or rejects.
ActivateFails(id) ==
    /\ Activating(id)
    /\ rebuild' = Applied(id)
    /\ Silent /\ UNCHANGED <<workspaceVars, slotVars, call>>

EndRebuild ==
    /\ rebuild.running /\ rebuild.todo = {}
    /\ rebuild' = NoRebuild
    /\ Silent /\ UNCHANGED <<workspaceVars, slotVars, call>>

Rebuilding ==
    \/ BeginRebuild \/ EndRebuild
    \/ \E id \in Ids : \/ KeepModule(id) \/ ApplySpec(id) \/ BuildHost(id)
                       \/ ActivateModule(id) \/ ActivateFails(id)

----------------------------------------------------------------------------
(***************************************************************************)
(* Calls of a guest                                                        *)
(***************************************************************************)

\* `answer` and `observed` are last_mediation and last_mediation_request.
NoCall == [kind |-> "none", id |-> CHOOSE id \in Ids : TRUE,
           request |-> "invalid", answer |-> "none", observed |-> "none"]

Callable(id) ==
    /\ ~rebuild.running /\ call.kind = "none"
    /\ hosts[id].session.live /\ ~hosts[id].session.cancelled

Query(id) ==
    /\ Callable(id)
    /\ call' = [NoCall EXCEPT !.kind = "query", !.id = id]
    /\ Silent /\ UNCHANGED <<workspaceVars, slotVars, rebuild>>

RequestEffect(id) ==
    /\ Callable(id)
    /\ \E request \in Capabilities :
           call' = [NoCall EXCEPT !.kind = "effect", !.id = id,
                                  !.request = request]
    /\ Silent /\ UNCHANGED <<workspaceVars, slotVars, rebuild>>

\* The host's answers to a request its budget still covers.  No launcher
\* exists: even a granted process-exec is an error.
Outcomes(request, grant) ==
    IF request \in grant
    THEN IF request = "exec" THEN {"error"} ELSE {"ok", "denied", "error"}
    ELSE IF request = "invalid" THEN {"error"} ELSE {"denied"}

\* Seeded fault: the budget is charged without being checked.
MediateUnchecked(request) ==
    \E answer \in Outcomes(request, hosts[call.id].grant) :
        /\ hosts' = [hosts EXCEPT ![call.id].session.left = @ - 1]
        /\ call' = [call EXCEPT !.answer = answer, !.observed = request]

\* mediate: a call of the guest back to the host.
Mediate(request) ==
    LET host == hosts[call.id]
    IN  \E answer \in IF host.session.left = 0 THEN {"exceeded"}
                      ELSE Outcomes(request, host.grant) :
            /\ hosts' = IF answer = "exceeded" THEN hosts
                        ELSE [hosts EXCEPT
                                 ![call.id].session.left = @ - 1,
                                 ![call.id].session.mediated = @ + 1]
            /\ call' = [call EXCEPT
                           !.answer = answer,
                           !.observed = IF request = "invalid" THEN "none"
                                        ELSE request]

Perform ==
    /\ call.kind # "none"
    /\ \E request \in Requests : Mediate(request)
    /\ Silent /\ UNCHANGED <<workspaceVars, hostless, manifests, rebuild>>

StopSession == hosts' = [hosts EXCEPT ![call.id] = Deactivate(@)]

EndCall ==
    /\ call' = NoCall
    /\ UNCHANGED <<workspaceVars, hostless, manifests, rebuild>>

\* Results, rejections and an exhausted budget are the caller's business.
QueryReturns ==
    /\ call.kind = "query"
    /\ EndCall
    /\ Silent /\ UNCHANGED hosts

\* An exhausted budget is reported first, and leaves the session as it is.
QueryTraps ==
    /\ call.kind = "query"
    /\ IF call.answer = "exceeded" THEN UNCHANGED hosts ELSE StopSession
    /\ EndCall
    /\ Silent

\* Seeded fault: any request the host mediated in this call will do.
AnyMediation == call.observed # "none"

\* Only the host's own answer to this very request is passed on.
Mediated == call.observed = call.request

EffectReturns ==
    /\ call.kind = "effect" /\ Mediated
    /\ given' = IF call.answer = "exceeded" THEN NoAnswer
                ELSE [request |-> call.request, answer |-> call.answer,
                      grant |-> hosts[call.id].grant]
    /\ EndCall
    /\ UNCHANGED hosts

\* A trap, an answer that is too long, or one the host did not give.
EffectFails ==
    /\ call.kind = "effect"
    /\ StopSession
    /\ EndCall
    /\ Silent

Cancel(id) ==
    /\ ~rebuild.running /\ call.kind = "none"
    /\ hosts[id].session.live /\ ~hosts[id].session.cancelled
    /\ hosts' = [hosts EXCEPT ![id].session.cancelled = TRUE]
    /\ Silent /\ UNCHANGED <<workspaceVars, hostless, manifests, rebuild, call>>

Calling ==
    \/ Perform \/ QueryReturns \/ QueryTraps \/ EffectReturns \/ EffectFails
    \/ \E id \in Ids : Query(id) \/ RequestEffect(id) \/ Cancel(id)

----------------------------------------------------------------------------
EditDeclaration(id) ==
    /\ \E m \in Manifests \cup {Gone, Broken} :
           m # declared[id] /\ declared' = [declared EXCEPT ![id] = m]
    /\ Silent /\ UNCHANGED <<file, slotVars, rebuild, call>>

EditFile(id) ==
    /\ \E d \in Digests :
           d # file[id] /\ file' = [file EXCEPT ![id] = d]
    /\ Silent /\ UNCHANGED <<declared, slotVars, rebuild, call>>

Editing == \E id \in Ids : EditDeclaration(id) \/ EditFile(id)

Init ==
    /\ declared = [id \in Ids |-> Gone]
    /\ file \in [Ids -> Digests]
    /\ hosts = [id \in Ids |-> Absent]
    /\ hostless = [id \in Ids |-> Absent]
    /\ manifests = [id \in Ids |-> Gone]
    /\ rebuild = NoRebuild
    /\ call = NoCall
    /\ given = NoAnswer

Next == Rebuilding \/ Calling \/ Editing

Spec == Init /\ [][Next]_vars

----------------------------------------------------------------------------
(***************************************************************************)
(* Properties                                                              *)
(***************************************************************************)

Sessions ==
    [live : BOOLEAN, digest : Digests \cup {"none"},
     left : 0..MaxHostCalls, mediated : Nat, cancelled : BOOLEAN]

Lifecycles ==
    [state : {"absent", "enabled", "active"},
     package : Digests \cup {"none"},
     grant : SUBSET Capabilities, session : Sessions]

\* The variables have their types, and a rebuild and a call never overlap:
\* one thread owns the hosts.
TypeOK ==
    /\ declared \in [Ids -> Manifests \cup {Gone, Broken}]
    /\ file \in [Ids -> Digests]
    /\ hosts \in [Ids -> Lifecycles] /\ hostless \in [Ids -> Lifecycles]
    /\ manifests \in [Ids -> Manifests \cup {Gone}]
    /\ rebuild.staged \in Lifecycles /\ rebuild.todo \subseteq Ids
    /\ call.kind \in {"none", "query", "effect"}
    /\ given.answer \in {"none", "ok", "denied", "error"}
    /\ rebuild.running => call.kind = "none"

\* A module is in one of the two maps of the session, the one its recorded
\* manifest asks for, with that manifest's package (apply_one,
\* remove_current): the panels read the maps and the manifests apart.
MapsAgree ==
    \A id \in Ids :
        /\ manifests[id] = Gone <=> hosts[id] = Absent /\ hostless[id] = Absent
        /\ hosts[id] # Absent =>
               /\ manifests[id] = [digest |-> hosts[id].package, component |-> TRUE]
               /\ hostless[id] = Absent
        /\ hostless[id] # Absent =>
               manifests[id] = [digest |-> hostless[id].package, component |-> FALSE]

\* A guest runs exactly in an active lifecycle, it is the very component
\* that was installed, however often the file changed between the
\* verifications, and its grant is within the host's authority.
SessionIsInstalled ==
    \A id \in Ids :
        LET host == hosts[id]
        IN  /\ host.session.live <=> Active(host)
            /\ host.session.live => host.session.digest = host.package
            /\ host.grant \subseteq Authority

\* "A failed apply keeps the previous working state for that id": a rebuild
\* stops a module only when its declaration is gone or to put one that
\* works in its place.
Works(id) == Active(hosts[id]) \/ hostless[id].state = "enabled"

RebuildKeeps == [][Rebuilding =>
    \A id \in Ids :
        Works(id) /\ ~Works(id)' => declared[id] = Gone]_vars

\* The host mediates no more effects for a session than its budget, those
\* of the bind and of all its calls together.
BudgetHolds == \A id \in Ids : hosts[id].session.mediated <= MaxHostCalls

\* What the session's slots say of a module is what runs: the maps and the
\* manifests agree, the guest is the installed one, within its authority and
\* its budget.
HostAgrees == MapsAgree /\ SessionIsInstalled /\ BudgetHolds

\* What the caller of request_effect is told fits the request it made and what
\* the call was granted: an answer the guest kept from another request is not
\* taken for it, and neither is one to an effect that was not granted.
AnswersAreTrue ==
    /\ given.answer = "ok" => given.request = "read" /\ "read" \in given.grant
    /\ given.answer \in {"ok", "error"} => given.request \in given.grant
=============================================================================
