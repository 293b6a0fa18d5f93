--------------------------- MODULE ToolLoopProofs ---------------------------
(***************************************************************************)
(* Proofs about ToolLoop, for every set of actions, every policy, every    *)
(* provider and every limit: an approval authorizes one execution, the     *)
(* rounds of a response stay within their budget, and the committed        *)
(* conversation begins with a user message, holds nothing of a rejected    *)
(* response, and pairs every call with its result.                         *)
(***************************************************************************)
EXTENDS ToolLoop, SequenceTheorems, WellFoundedInduction, TLAPS

USE DEF requestVars, approvalVars, machineVars

----------------------------------------------------------------------------
(* The approval ledger. *)

\* The types of the ledger and of the two counters, and the property.
LedgerInv ==
    /\ ledger \subseteq Digests /\ revision \in 0 .. MaxRevision
    /\ granted \in [Digests -> Nat] /\ executed \in [Digests -> Nat]
    /\ ApprovalsSpentOnce

LEMMA LedgerInit == Init => LedgerInv
  BY ToolLoopAssumption DEF Init, LedgerInv, ApprovalsSpentOnce, Digests

\* The digest of a gated action at the current revision is a digest.
LEMMA DigestType ==
    LedgerInv => \A a \in Gated : Digest(a) \in Digests
  BY ToolLoopAssumption DEF LedgerInv, Digest, Digests

LEMMA LedgerStep == LedgerInv /\ [Next]_vars => LedgerInv'
  <1> SUFFICES ASSUME LedgerInv, [Next]_vars PROVE LedgerInv'
    OBVIOUS
  <1>0. MaxRevision \in Nat
    BY ToolLoopAssumption
  \* Steps that leave the ledger alone.
  <1>1. ASSUME UNCHANGED approvalVars PROVE LedgerInv'
    BY <1>1 DEF LedgerInv, ApprovalsSpentOnce
  <1>2. CASE \/ \E size \in Sizes : SendPrompt(size)
             \/ Cancel \/ PollEvent \/ Start \/ ObserveCancel \/ CollectTurn
             \/ ShowPressure \/ RequestBlocked \/ OpenTurn \/ UNCHANGED vars
    BY <1>1, <1>2, Zenon
    DEF SendPrompt, Cancel, PollEvent, Start, ObserveCancel, CollectTurn,
        ShowPressure, RequestBlocked, OpenTurn, vars
  <1>3. CASE \/ \E size \in Sizes : PullText(size)
             \/ PullReasoning \/ PullCompleted \/ PullFailure \/ StreamCutOff
             \/ \E id \in ProviderIds \cup {EmptyId}, a \in Actions :
                   PullCall(id, a)
             \/ TurnAnswers \/ RoundRefused \/ RoundBegins
    BY <1>1, <1>3, Zenon
    DEF PullText, PullReasoning, PullCompleted, PullFailure, StreamCutOff,
        PullCall, TurnAnswers, RoundRefused, RoundBegins, StreamOnly,
        TurnEnds
  <1>4. CASE \/ ShowQueued \/ InvalidAnswered \/ CallRefused \/ RunPlain
             \/ RoundCompletes \/ RoundCancelled \/ ShowTerminal
             \/ RestoreMachine
    BY <1>1, <1>4, Zenon
    DEF ShowQueued, InvalidAnswered, CallRefused, RunPlain, Runs, Answer,
        RoundCompletes, RoundCancelled, ShowTerminal, RestoreMachine
  \* The host's grants and revisions.
  <1>5. CASE \E d \in Gated \X (0 .. MaxRevision) : Approve(d)
    <2>1. PICK d \in Gated \X (0 .. MaxRevision) : Approve(d)
      BY <1>5
    <2>2. d \in Digests
      BY ToolLoopAssumption DEF Digests
    <2>3. /\ ledger' = ledger \cup {d}
          /\ granted' = [granted EXCEPT ![d] = granted[d] + 1]
          /\ UNCHANGED <<revision, executed>>
      BY <2>1 DEF Approve
    <2>4. granted' \in [Digests -> Nat]
      BY <2>2, <2>3 DEF LedgerInv
    <2>5. ASSUME NEW e \in Digests
          PROVE  executed'[e] + (IF e \in ledger' THEN 1 ELSE 0)
                    <= granted'[e]
      BY <2>2, <2>3 DEF LedgerInv, ApprovalsSpentOnce
    <2> QED BY <2>2, <2>3, <2>4, <2>5 DEF LedgerInv, ApprovalsSpentOnce
  <1>6. CASE SetProjection
    BY <1>0, <1>6 DEF SetProjection, LedgerInv, ApprovalsSpentOnce
  \* A recorded approval is spent.
  <1>7. CASE RunRecorded
    <2>1. PICK a \in Gated :
              /\ Digest(a) \in ledger
              /\ ledger' = ledger \ {Digest(a)}
              /\ executed' = [executed EXCEPT ![Digest(a)] =
                                 executed[Digest(a)] + 1]
              /\ UNCHANGED <<granted, revision>>
      BY <1>7 DEF RunRecorded, RunsGated, Runs, Answer
    <2>2. executed' \in [Digests -> Nat]
      BY <2>1, DigestType DEF LedgerInv
    <2>3. ASSUME NEW e \in Digests
          PROVE  executed'[e] + (IF e \in ledger' THEN 1 ELSE 0)
                    <= granted'[e]
      BY <2>1, DigestType DEF LedgerInv, ApprovalsSpentOnce
    <2> QED BY <2>1, <2>2, <2>3 DEF LedgerInv, ApprovalsSpentOnce
  \* The resolver's approval is recorded and spent in one step.
  <1>8. CASE RunResolved
    <2>1. PICK a \in Gated :
              /\ Digest(a) \notin ledger
              /\ granted' = [granted EXCEPT ![Digest(a)] =
                                granted[Digest(a)] + 1]
              /\ executed' = [executed EXCEPT ![Digest(a)] =
                                 executed[Digest(a)] + 1]
              /\ UNCHANGED <<ledger, revision>>
      BY <1>8 DEF RunResolved, RunsGated, Runs, Answer
    <2>2. executed' \in [Digests -> Nat] /\ granted' \in [Digests -> Nat]
      BY <2>1, DigestType DEF LedgerInv
    <2>3. ASSUME NEW e \in Digests
          PROVE  executed'[e] + (IF e \in ledger' THEN 1 ELSE 0)
                    <= granted'[e]
      BY <2>1, DigestType DEF LedgerInv, ApprovalsSpentOnce
    <2> QED BY <2>1, <2>2, <2>3 DEF LedgerInv, ApprovalsSpentOnce
  <1> QED
    BY <1>2, <1>3, <1>4, <1>5, <1>6, <1>7, <1>8
    DEF Next, HostNext, MachineNext

\* No gated action is executed more often than it was approved for its task
\* revision (approval.rs), whatever the provider asks for, however rounds and
\* prompts interleave with the host's grants, and with any number of actions
\* and revisions.
THEOREM ApprovalsSpentOnceHolds == Spec => []ApprovalsSpentOnce
  <1>1. LedgerInv => ApprovalsSpentOnce
    BY DEF LedgerInv
  <1> QED BY LedgerInit, LedgerStep, <1>1, PTL DEF Spec

----------------------------------------------------------------------------
(* The round budget. *)

\* Before the provider is asked, it has been asked at most once per round.
RoundsInv ==
    /\ attempted \in Nat /\ turns \in Nat
    /\ phase \in {"start", "collect", "invoke", "round"} => turns <= attempted
    /\ RoundsBounded

LEMMA RoundsInit == Init => RoundsInv
  BY ToolLoopAssumption DEF Init, RoundsInv, RoundsBounded

LEMMA RoundsStep == RoundsInv /\ [Next]_vars => RoundsInv'
  <1> SUFFICES ASSUME RoundsInv, [Next]_vars PROVE RoundsInv'
    OBVIOUS
  <1>0. MaxToolRounds \in Nat
    BY ToolLoopAssumption
  \* Steps that count nothing and do not come back before the provider.
  <1>1. ASSUME UNCHANGED <<attempted, turns>>,
               \/ phase' = phase
               \/ phase' \in {"stream", "terminal", "done", "idle"}
               \/ phase \in {"start", "collect", "invoke", "round"}
        PROVE  RoundsInv'
    BY <1>1 DEF RoundsInv, RoundsBounded
  <1> USE DEF Running, Goto, EndWith
  <1>2. CASE \E size \in Sizes : SendPrompt(size)
    <2>1. attempted' = 0 /\ turns' = 0
      BY <1>2 DEF SendPrompt
    <2> QED BY <1>0, <2>1 DEF RoundsInv, RoundsBounded
  <1>3. CASE \/ Cancel \/ PollEvent \/ SetProjection \/ UNCHANGED vars
             \/ \E d \in Gated \X (0 .. MaxRevision) : Approve(d)
    <2>1. UNCHANGED <<attempted, turns, phase>>
      BY <1>3, Zenon DEF Cancel, PollEvent, SetProjection, Approve, vars
    <2> QED BY <1>1, <2>1
  <1>4. CASE Start \/ ObserveCancel \/ CollectTurn \/ ShowPressure
             \/ RequestBlocked
    <2>1. /\ UNCHANGED <<attempted, turns>>
          /\ \/ phase \in {"start", "collect", "invoke"}
             \/ phase' = "terminal"
      BY <1>4, Zenon
      DEF Start, ObserveCancel, CollectTurn, ShowPressure, RequestBlocked
    <2> QED BY <1>1, <2>1
  <1>5. CASE OpenTurn
    <2>1. /\ phase = "invoke" /\ turns' = turns + 1 /\ attempted' = attempted
          /\ phase' \in {"stream", "terminal"}
      BY <1>5 DEF OpenTurn
    <2> QED BY <2>1 DEF RoundsInv, RoundsBounded
  <1>6. CASE \/ \E size \in Sizes : PullText(size)
             \/ PullReasoning \/ PullCompleted \/ PullFailure \/ StreamCutOff
             \/ \E id \in ProviderIds \cup {EmptyId}, a \in Actions :
                   PullCall(id, a)
             \/ TurnAnswers \/ RoundRefused
    <2>1. UNCHANGED <<attempted, turns>> /\ phase' \in {"stream", "terminal"}
      BY <1>6, Zenon
      DEF PullText, PullReasoning, PullCompleted, PullFailure, StreamCutOff,
          PullCall, TurnAnswers, RoundRefused, StreamOnly, TurnEnds
    <2> QED BY <1>1, <2>1
  <1>7. CASE RoundBegins
    <2>1. /\ attempted < MaxToolRounds /\ attempted' = attempted + 1
          /\ turns' = turns
      BY <1>7 DEF RoundBegins
    <2> QED BY <1>0, <2>1 DEF RoundsInv, RoundsBounded
  <1>8. CASE \/ ShowQueued \/ InvalidAnswered \/ CallRefused \/ RunPlain
             \/ RunRecorded \/ RunResolved \/ RoundCompletes
             \/ RoundCancelled
    <2>1. UNCHANGED <<attempted, turns>> /\ phase = "round"
      BY <1>8, Zenon
      DEF ShowQueued, InvalidAnswered, CallRefused, RunPlain, RunRecorded,
          RunResolved, RunsGated, Runs, Answer, NextCall, Authorizing,
          RoundCompletes, RoundCancelled, RoundOver
    <2> QED BY <1>1, <2>1
  <1>9. CASE ShowTerminal \/ RestoreMachine
    <2>1. UNCHANGED <<attempted, turns>> /\ phase' \in {"done", "idle"}
      BY <1>9, Zenon DEF ShowTerminal, RestoreMachine
    <2> QED BY <1>1, <2>1
  <1> QED
    BY <1>2, <1>3, <1>4, <1>5, <1>6, <1>7, <1>8, <1>9
    DEF Next, HostNext, MachineNext

\* A response never exceeds its round budget and asks the provider at most
\* once more than it ran rounds (session.rs), for every budget, zero included.
THEOREM RoundsBoundedHolds == Spec => []RoundsBounded
  <1>1. RoundsInv => RoundsBounded
    BY DEF RoundsInv
  <1> QED BY RoundsInit, RoundsStep, <1>1, PTL DEF Spec

----------------------------------------------------------------------------
(* Transcripts: what validate_conversation_items accepts. *)

\* What is committed in one piece after a valid transcript leaves it valid.
LEMMA ConcatValid ==
    ASSUME NEW h \in Seq(Items), NEW b \in Seq(Items),
           ValidTranscript(h), ValidTranscript(b)
    PROVE  ValidTranscript(h \o b)
  <1> DEFINE w == h \o b
             n == Len(h)
  <1>1. /\ n \in Nat /\ Len(b) \in Nat
        /\ w \in Seq(Items) /\ Len(w) = n + Len(b)
        /\ \A k \in 1 .. n : w[k] = h[k]
        /\ \A k \in 1 .. Len(b) : w[n + k] = b[k]
    BY ConcatProperties
  <1>2. /\ DOMAIN h = 1 .. n /\ DOMAIN b = 1 .. Len(b)
        /\ DOMAIN w = 1 .. n + Len(b)
    BY <1>1
  <1> HIDE DEF w, n
  <1>3. ASSUME NEW i \in 1 .. n, NEW j \in ResultOf(h, i)
        PROVE  j \in ResultOf(w, i) /\ j \in 1 .. n
    <2>1. /\ j \in 1 .. n /\ h[j].kind = "result" /\ j > i
          /\ h[j].id = h[i].id /\ \A k \in i + 1 .. j - 1 : h[k].id # h[i].id
      BY <1>2 DEF ResultOf, Indices
    <2>2. /\ j \in 1 .. n + Len(b) /\ w[j] = h[j] /\ w[i] = h[i]
          /\ \A k \in i + 1 .. j - 1 : w[k] = h[k]
      BY <1>1, <2>1
    <2> QED BY <1>2, <2>1, <2>2 DEF ResultOf, Indices
  <1>4. ASSUME NEW i \in 1 .. Len(b), NEW j \in ResultOf(b, i)
        PROVE  n + j \in ResultOf(w, n + i) /\ j \in 1 .. Len(b)
    <2>1. /\ j \in 1 .. Len(b) /\ b[j].kind = "result" /\ j > i
          /\ b[j].id = b[i].id /\ \A k \in i + 1 .. j - 1 : b[k].id # b[i].id
      BY <1>2 DEF ResultOf, Indices
    <2>2. ASSUME NEW k \in n + i + 1 .. n + j - 1 PROVE w[k].id # w[n + i].id
      <3>1. k - n \in i + 1 .. j - 1 /\ k - n \in 1 .. Len(b)
            /\ n + (k - n) = k
        BY <1>1, <2>1
      <3> QED BY <1>1, <2>1, <3>1
    <2> QED BY <1>1, <1>2, <2>1, <2>2 DEF ResultOf, Indices
  <1>5. ASSUME NEW i \in Indices(w, "call")
        PROVE  /\ w[i].id # EmptyId
               /\ \E j \in ResultOf(w, i) : \A k \in i .. j : w[k].kind # "user"
    <2>1. CASE i \in 1 .. n
      <3>1. i \in Indices(h, "call") BY <1>1, <1>2, <2>1 DEF Indices
      <3>2. PICK j \in ResultOf(h, i) : \A k \in i .. j : h[k].kind # "user"
        BY <3>1 DEF ValidTranscript
      <3>3. \A k \in i .. j : w[k].kind # "user"
        BY <1>1, <1>3, <2>1, <3>2
      <3>4. w[i].id # EmptyId BY <1>1, <2>1, <3>1 DEF ValidTranscript
      <3> QED BY <1>3, <2>1, <3>2, <3>3, <3>4
    <2>2. CASE i \notin 1 .. n
      <3>1. PICK m \in 1 .. Len(b) : i = n + m
        <4>1. i - n \in 1 .. Len(b) /\ i = n + (i - n)
          BY <1>1, <1>2, <2>2 DEF Indices
        <4> QED BY <4>1
      <3>2. m \in Indices(b, "call") BY <1>1, <1>2, <3>1 DEF Indices
      <3>3. PICK j \in ResultOf(b, m) : \A k \in m .. j : b[k].kind # "user"
        BY <3>2 DEF ValidTranscript
      <3>4. n + j \in ResultOf(w, i) /\ j \in 1 .. Len(b) BY <1>4, <3>1
      <3>5. ASSUME NEW k \in i .. n + j PROVE w[k].kind # "user"
        <4>1. k - n \in m .. j /\ k - n \in 1 .. Len(b) /\ n + (k - n) = k
          BY <1>1, <3>1, <3>4
        <4> QED BY <1>1, <3>3, <4>1
      <3>6. w[i].id # EmptyId BY <1>1, <3>1, <3>2 DEF ValidTranscript
      <3> QED BY <3>4, <3>5, <3>6
    <2> QED BY <2>1, <2>2
  <1>6. ASSUME NEW j \in Indices(w, "result")
        PROVE  \E i \in Indices(w, "call") : j \in ResultOf(w, i)
    <2>1. CASE j \in 1 .. n
      <3>1. j \in Indices(h, "result") BY <1>1, <1>2, <2>1 DEF Indices
      <3>2. PICK i \in Indices(h, "call") : j \in ResultOf(h, i)
        BY <3>1 DEF ValidTranscript
      <3>3. i \in 1 .. n /\ i \in Indices(w, "call")
        BY <1>1, <1>2, <3>2 DEF Indices
      <3> QED BY <1>3, <3>2, <3>3
    <2>2. CASE j \notin 1 .. n
      <3>1. PICK m \in 1 .. Len(b) : j = n + m
        <4>1. j - n \in 1 .. Len(b) /\ j = n + (j - n)
          BY <1>1, <1>2, <2>2 DEF Indices
        <4> QED BY <4>1
      <3>2. m \in Indices(b, "result") BY <1>1, <1>2, <3>1 DEF Indices
      <3>3. PICK i \in Indices(b, "call") : m \in ResultOf(b, i)
        BY <3>2 DEF ValidTranscript
      <3>4. i \in 1 .. Len(b) /\ n + i \in Indices(w, "call")
        BY <1>1, <1>2, <3>3 DEF Indices
      <3> QED BY <1>4, <3>1, <3>3, <3>4
    <2> QED BY <2>1, <2>2
  <1>7. ValidTranscript(w) BY <1>5, <1>6 DEF ValidTranscript
  <1> QED BY <1>7 DEF w

\* What follows the start of a turn is valid on its own: no call before it is
\* still open there.
LEMMA SuffixValid ==
    ASSUME NEW h \in Seq(Items), NEW g \in Seq(Items), NEW d \in 0 .. Len(h),
           Len(g) = Len(h) - d, \A k \in 1 .. Len(g) : g[k] = h[d + k],
           d # 0 => d < Len(h) /\ h[d + 1].kind = "user",
           ValidTranscript(h)
    PROVE  ValidTranscript(g)
  <1>1. /\ Len(h) \in Nat /\ Len(g) \in Nat /\ d \in Nat
        /\ DOMAIN h = 1 .. Len(h) /\ DOMAIN g = 1 .. Len(g)
    OBVIOUS
  <1>2. ASSUME NEW i \in 1 .. Len(g), NEW j \in 1 .. Len(g),
               d + j \in ResultOf(h, d + i)
        PROVE  j \in ResultOf(g, i)
    <2>1. /\ h[d + j].kind = "result" /\ j > i /\ h[d + j].id = h[d + i].id
          /\ \A k \in d + i + 1 .. d + j - 1 : h[k].id # h[d + i].id
      BY <1>1, <1>2 DEF ResultOf, Indices
    <2>2. ASSUME NEW k \in i + 1 .. j - 1 PROVE g[k].id # g[i].id
      <3>1. d + k \in d + i + 1 .. d + j - 1 /\ k \in 1 .. Len(g) BY <1>1
      <3> QED BY <2>1, <3>1
    <2> QED BY <1>1, <2>1, <2>2 DEF ResultOf, Indices
  <1>3. ASSUME NEW i \in Indices(g, "call")
        PROVE  /\ g[i].id # EmptyId
               /\ \E j \in ResultOf(g, i) : \A k \in i .. j : g[k].kind # "user"
    <2>1. i \in 1 .. Len(g) /\ d + i \in Indices(h, "call")
      BY <1>1 DEF Indices
    <2>2. PICK e \in ResultOf(h, d + i) :
              \A k \in d + i .. e : h[k].kind # "user"
      BY <2>1 DEF ValidTranscript
    <2>3. e \in 1 .. Len(h) /\ e > d + i BY <1>1 DEF ResultOf, Indices
    <2>4. PICK j \in 1 .. Len(g) : e = d + j
      <3>1. e - d \in 1 .. Len(g) /\ e = d + (e - d) BY <1>1, <2>1, <2>3
      <3> QED BY <3>1
    <2>5. j \in ResultOf(g, i) BY <1>2, <2>1, <2>2, <2>4
    <2>6. ASSUME NEW k \in i .. j PROVE g[k].kind # "user"
      <3>1. k \in 1 .. Len(g) /\ d + k \in d + i .. e BY <1>1, <2>1, <2>4
      <3> QED BY <2>2, <3>1
    <2>7. g[i].id # EmptyId BY <2>1 DEF ValidTranscript
    <2> QED BY <2>5, <2>6, <2>7
  <1>4. ASSUME NEW j \in Indices(g, "result")
        PROVE  \E i \in Indices(g, "call") : j \in ResultOf(g, i)
    <2>1. j \in 1 .. Len(g) /\ d + j \in Indices(h, "result")
      <3>1. j \in 1 .. Len(g) /\ g[j].kind = "result" BY <1>1 DEF Indices
      <3>2. d + j \in 1 .. Len(h) /\ h[d + j] = g[j] BY <1>1, <3>1
      <3> QED BY <1>1, <3>1, <3>2 DEF Indices
    <2>2. PICK c \in Indices(h, "call") : d + j \in ResultOf(h, c)
      BY <2>1 DEF ValidTranscript
    <2>3. /\ c \in 1 .. Len(h) /\ c < d + j /\ h[d + j].id = h[c].id
          /\ \A k \in c + 1 .. d + j - 1 : h[k].id # h[c].id
      BY <1>1, <2>2 DEF ResultOf, Indices
    \* A call before the start of the turn has its result before it.
    <2>4. ASSUME c <= d PROVE FALSE
      <3>1. PICK e \in ResultOf(h, c) : \A k \in c .. e : h[k].kind # "user"
        BY <2>2 DEF ValidTranscript
      <3>2. /\ e \in 1 .. Len(h) /\ e > c /\ h[e].id = h[c].id
            /\ \A k \in c + 1 .. e - 1 : h[k].id # h[c].id
        BY <1>1, <3>1 DEF ResultOf, Indices
      <3>3. ~(e < d + j)
        <4>1. e < d + j => e \in c + 1 .. d + j - 1
          BY <1>1, <2>1, <2>3, <3>2
        <4> QED BY <2>3, <3>2, <4>1
      <3>4. d + 1 \in c .. e BY <1>1, <2>1, <2>3, <2>4, <3>2, <3>3
      <3>5. d # 0 BY <1>1, <2>3, <2>4
      <3> QED BY <3>1, <3>4, <3>5
    <2>5. PICK i \in 1 .. Len(g) : c = d + i
      <3>1. c - d \in 1 .. Len(g) /\ c = d + (c - d)
        BY <1>1, <2>1, <2>3, <2>4
      <3> QED BY <3>1
    <2>6. i \in Indices(g, "call") BY <1>1, <2>2, <2>5 DEF Indices
    <2> QED BY <1>2, <2>1, <2>2, <2>5, <2>6
  <1> QED BY <1>3, <1>4 DEF ValidTranscript

\* The calls of a round, each with an id of its own, and then their results.
LEMMA RoundValid ==
    ASSUME NEW b \in Seq(Items), NEW n \in Nat, Len(b) = n + n,
           \A i \in 1 .. n : /\ b[i].kind = "call" /\ b[i].id # EmptyId
                             /\ b[n + i].kind = "result"
                             /\ b[n + i].id = b[i].id,
           \A i, j \in 1 .. n : i # j => b[i].id # b[j].id
    PROVE  ValidTranscript(b)
  <1>1. DOMAIN b = 1 .. n + n OBVIOUS
  <1>2. ASSUME NEW i \in 1 .. n
        PROVE  /\ n + i \in ResultOf(b, i)
               /\ \A k \in i .. n + i : b[k].kind # "user"
    <2>1. ASSUME NEW k \in i + 1 .. n + i - 1 PROVE b[k].id # b[i].id
      <3>1. CASE k <= n BY <3>1
      <3>2. CASE k > n
        <4>1. k - n \in 1 .. n /\ k - n # i /\ n + (k - n) = k BY <3>2
        <4> QED BY <4>1
      <3> QED BY <3>1, <3>2
    <2>2. ASSUME NEW k \in i .. n + i PROVE b[k].kind # "user"
      <3>1. CASE k <= n BY <3>1
      <3>2. CASE k > n
        <4>1. k - n \in 1 .. n /\ n + (k - n) = k BY <3>2
        <4> QED BY <4>1
      <3> QED BY <3>1, <3>2
    <2> QED BY <1>1, <2>1, <2>2 DEF ResultOf, Indices
  <1>3. Indices(b, "call") = 1 .. n
    <2>1. ASSUME NEW k \in 1 .. n + n, k > n PROVE b[k].kind = "result"
      <3>1. k - n \in 1 .. n /\ n + (k - n) = k BY <2>1
      <3> QED BY <3>1
    <2> QED BY <1>1, <2>1 DEF Indices
  <1>4. ASSUME NEW j \in Indices(b, "result")
        PROVE  \E i \in Indices(b, "call") : j \in ResultOf(b, i)
    <2>1. j \in 1 .. n + n /\ ~(j <= n) BY <1>1 DEF Indices
    <2>2. j - n \in 1 .. n /\ n + (j - n) = j BY <2>1
    <2> QED BY <1>2, <1>3, <2>2
  <1> QED BY <1>2, <1>3, <1>4 DEF ValidTranscript

\* A message that is neither a call nor a result opens nothing.
LEMMA MessageValid ==
    ASSUME NEW item \in Items, item.kind \in {"user", "text"}
    PROVE  ValidTranscript(<<item>>)
  <1>1. /\ DOMAIN <<item>> = {1} /\ <<item>>[1] = item OBVIOUS
  <1>2. Indices(<<item>>, "call") = {} /\ Indices(<<item>>, "result") = {}
    BY <1>1 DEF Indices
  <1> QED BY <1>2 DEF ValidTranscript

\* The first index at which a set of indices begins is one of them.
LEMMA MinIsIn ==
    ASSUME NEW S \in SUBSET Nat, S # {}
    PROVE  Min(S) \in S
  <1> DEFINE R == {ss \in Nat \X Nat : ss[1] < ss[2]}
  <1>1. IsWellFoundedOn(R, Nat)
    BY NatLessThanWellFounded DEF OpToRel
  <1>2. \A x, y \in Nat : <<y, x>> \in R <=> y < x OBVIOUS
  <1> HIDE DEF R
  <1>3. PICK x \in S : \A y \in S : ~(<<y, x>> \in R) BY <1>1, WFMin
  <1>4. \A y \in S : ~(y < x) BY <1>2, <1>3, Zenon
  <1>5. \A y \in S : x <= y BY <1>4
  <1> QED BY <1>5 DEF Min

\* Nothing is within every budget: the fold of no items is zero.
LEMMA EmptyFits == Fits(<<>>)
  <1> DEFINE step(f) == [s \in SUBSET (DOMAIN <<>>) |->
                            IF s = {} THEN 0
                            ELSE LET x == CHOOSE x \in s : TRUE
                                 IN  f[s \ {x}] + <<>>[x].size]
             iter == CHOOSE f : f = step(f)
             zero == [s \in {{}} |-> 0]
  <1>1. HistoryBytes(<<>>) = iter[DOMAIN <<>>]
    BY Zenon DEF HistoryBytes, FoldSeq, FoldFunction, FoldFunctionOnSet,
                 MapThenFoldSet
  <1>2. DOMAIN <<>> = {} OBVIOUS
  <1>3. zero = step(zero)
    <2>1. SUBSET (DOMAIN <<>>) = {{}} BY <1>2
    <2> QED BY <2>1, Zenon
  <1>4. iter = step(iter)
    <2> HIDE DEF step, zero
    <2> QED BY <1>3
  <1>5. iter[{}] = 0
    <2>1. step(iter)[{}] = 0 BY <1>2
    <2> QED BY <1>4, <2>1, Zenon
  <1> QED BY <1>1, <1>2, <1>5, ToolLoopAssumption DEF Fits

\* prune_history: what it keeps fits, begins with a user message, and is as
\* valid as what it was given.
LEMMA PruneKeeps ==
    ASSUME NEW h \in Seq(Items)
    PROVE  LET p == PruneHistory(h)
           IN  /\ p \in Seq(Items) /\ Fits(p)
               /\ p # <<>> => h # <<>>
               /\ Head(h).kind = "user" /\ p # <<>> => Head(p).kind = "user"
               /\ ValidTranscript(h) => ValidTranscript(p)
  <1> DEFINE starts == {1} \cup {i \in 2 .. Len(h) : h[i].kind = "user"}
             fit == {i \in starts : Fits(From(h, i))}
             p == PruneHistory(h)
             Kept(q) == /\ q \in Seq(Items) /\ Fits(q)
                        /\ q # <<>> => h # <<>>
                        /\ Head(h).kind = "user" /\ q # <<>> =>
                               Head(q).kind = "user"
                        /\ ValidTranscript(h) => ValidTranscript(q)
  <1> SUFFICES Kept(p) OBVIOUS
  <1>1. CASE fit = {}
    <2>1. p = <<>> BY <1>1 DEF PruneHistory
    <2>2. ValidTranscript(<<>>) BY DEF ValidTranscript, Indices
    <2> QED BY <2>1, <2>2, EmptyFits
  <1>2. CASE fit # {}
    <2>1. PICK i \in fit : p = From(h, i)
      <3>1. fit \in SUBSET Nat OBVIOUS
      <3>2. Min(fit) \in fit BY <1>2, <3>1, MinIsIn
      <3> QED BY <1>2, <3>2 DEF PruneHistory
    <2>2. Fits(p) /\ i \in starts BY <2>1
    <2> HIDE DEF p, fit
    <2>3. CASE h = <<>>
      <3>1. i = 1 /\ Len(h) = 0 BY <2>2, <2>3
      <3>2. p = <<>> BY <2>1, <2>3, <3>1, EmptySeq DEF From
      <3> QED BY <2>2, <2>3, <3>2
    <2>4. CASE h # <<>>
      <3>1. /\ i \in 1 .. Len(h) /\ Len(h) \in Nat
            /\ i # 1 => h[i].kind = "user"
        BY <2>2, <2>4
      <3>2. /\ p \in Seq(Items) /\ Len(p) = Len(h) - (i - 1)
            /\ \A k \in 1 .. Len(p) : p[k] = h[(i - 1) + k]
        BY <2>1, <3>1, SubSeqProperties DEF From
      <3>3. Head(h).kind = "user" => Head(p).kind = "user"
        <4>1. Len(p) \in Nat /\ Len(p) >= 1 /\ (i - 1) + 1 = i BY <3>1, <3>2
        <4>2. Head(p) = h[i] BY <3>2, <4>1
        <4>3. Head(h) = h[1] BY <2>4
        <4> QED BY <2>4, <3>1, <4>2, <4>3
      <3>4. ValidTranscript(h) => ValidTranscript(p)
        <4>1. /\ i - 1 \in 0 .. Len(h)
              /\ i - 1 # 0 => i - 1 < Len(h) /\ h[(i - 1) + 1].kind = "user"
          BY <3>1
        <4> QED BY <3>2, <4>1, SuffixValid
      <3> QED BY <2>2, <3>2, <3>3, <3>4
    <2> QED BY <2>3, <2>4 DEF p
  <1> QED BY <1>1, <1>2

----------------------------------------------------------------------------
(* The types. *)

\* The items the loop commits are items.
LEMMA ItemTypes ==
    ASSUME NEW id \in Nat, NEW size \in Nat
    PROVE  /\ User(size) \in Items /\ Text(size) \in Items
           /\ CallItem(id) \in Items /\ Result(id, size) \in Items
  BY DEF User, Text, CallItem, Result, Item, Items, EmptyId

\* An empty turn and an empty round have their types.
LEMMA EmptyTypes ==
    /\ NoTurn \in [size : Nat, events : Nat, calls : Seq(Calls),
                   seen : SUBSET Nat, invalid : Nat, complete : BOOLEAN]
    /\ NoRound \in [calls : Seq(Calls), transcript : Seq(Items),
                    queued : 0 .. 1, cancelled : BOOLEAN, size : Nat]
  BY DEF NoTurn, NoRound

\* A machine that has just been built has its types.
LEMMA TypeInit == Init => TypeOK
  <1> SUFFICES ASSUME Init PROVE TypeOK OBVIOUS
  <1>1. InitialSurface \subseteq Actions
    BY ToolLoopAssumption DEF InitialSurface
  <1>2. MaxRevision \in Nat BY ToolLoopAssumption
  <1>3. /\ granted \in [Digests -> Nat] /\ executed \in [Digests -> Nat]
        /\ ledger \subseteq Digests /\ revision \in 0 .. MaxRevision
    BY <1>2 DEF Init
  <1>4. /\ history \in Seq(Items) /\ attempted \in Nat /\ turns \in Nat
        /\ phase \in Phases /\ surface \subseteq Actions
        /\ terminal \in {"none", "Completed", "Failed", "Cancelled"}
    BY <1>1 DEF Init, Phases
  <1>5. /\ polling \in BOOLEAN /\ token \in BOOLEAN
        /\ blocked \in BOOLEAN /\ pressure \in BOOLEAN
        /\ collector = NoTurn /\ round = NoRound
    BY DEF Init
  <1> QED BY <1>3, <1>4, <1>5, EmptyTypes DEF TypeOK

\* The host's operations keep the types.
LEMMA TypeHost == TypeOK /\ (HostNext \/ PollEvent) => TypeOK'
  <1> SUFFICES ASSUME TypeOK, HostNext \/ PollEvent PROVE TypeOK' OBVIOUS
  <1>0. InitialSurface \subseteq Actions /\ MaxRevision \in Nat
        /\ Sizes \subseteq Nat
    BY ToolLoopAssumption DEF InitialSurface
  <1>1. ASSUME NEW size \in Sizes, SendPrompt(size) PROVE TypeOK'
    <2>1. PruneHistory(history) \in Seq(Items) BY PruneKeeps DEF TypeOK
    <2>2. User(size) \in Items BY <1>0, ItemTypes
    <2>3. history' \in Seq(Items)
      BY <1>1, <2>1, <2>2, AppendProperties DEF SendPrompt
    <2> QED BY <1>0, <1>1, <2>3 DEF SendPrompt, TypeOK, Phases
  <1>2. CASE Cancel \/ PollEvent BY <1>2 DEF Cancel, PollEvent, TypeOK
  <1>3. ASSUME NEW d \in Gated \X (0 .. MaxRevision), Approve(d) PROVE TypeOK'
    <2>1. d \in Digests BY ToolLoopAssumption DEF Digests
    <2> QED BY <1>3, <2>1 DEF Approve, TypeOK
  <1>4. CASE SetProjection BY <1>0, <1>4 DEF SetProjection, TypeOK
  <1> QED BY <1>1, <1>2, <1>3, <1>4 DEF HostNext

\* A turn of the provider keeps the types.
LEMMA TypeTurn ==
    ASSUME TypeOK,
           \/ Start \/ ObserveCancel \/ CollectTurn \/ ShowPressure
           \/ RequestBlocked \/ OpenTurn
           \/ \E size \in Sizes : PullText(size)
           \/ PullReasoning \/ PullCompleted \/ PullFailure \/ StreamCutOff
           \/ \E id \in ProviderIds \cup {EmptyId}, a \in Actions :
                 PullCall(id, a)
           \/ TurnAnswers \/ RoundRefused \/ RoundBegins
    PROVE  TypeOK'
  <1>0. /\ Sizes \subseteq Nat /\ ProviderIds \subseteq Nat
        /\ Registered \subseteq Actions
    BY ToolLoopAssumption
  <1> USE DEF Running, Goto, EndWith, Phases
  <1>1. CASE Start BY <1>1 DEF Start, TypeOK
  <1>2. CASE ObserveCancel BY <1>2 DEF ObserveCancel, TypeOK
  <1>3. CASE CollectTurn BY <1>0, <1>3 DEF CollectTurn, TypeOK
  <1>4. CASE ShowPressure BY <1>4 DEF ShowPressure, TypeOK
  <1>5. CASE RequestBlocked BY <1>5 DEF RequestBlocked, TypeOK
  <1>6. CASE OpenTurn
    <2>1. turns' \in Nat BY <1>6 DEF OpenTurn, TypeOK
    <2>2. /\ phase' \in Phases /\ polling' \in BOOLEAN
          /\ terminal' \in {"none", "Completed", "Failed", "Cancelled"}
      <3>1. CASE ValidTranscript(history) BY <1>6, <3>1 DEF OpenTurn, TypeOK
      <3>2. CASE ~ValidTranscript(history) BY <1>6, <3>2 DEF OpenTurn
      <3> QED BY <3>1, <3>2
    <2> QED BY <1>6, <2>1, <2>2, EmptyTypes DEF OpenTurn, TypeOK
  <1>7. ASSUME NEW size \in Sizes, PullText(size) PROVE TypeOK'
    <2>1. /\ collector.events + 1 \in Nat /\ collector.size + size \in Nat
      BY <1>0 DEF TypeOK
    <2>2. collector' \in [size : Nat, events : Nat, calls : Seq(Calls),
                          seen : SUBSET Nat, invalid : Nat, complete : BOOLEAN]
      BY <1>7, <2>1 DEF PullText, TypeOK
    <2> QED BY <1>7, <2>2 DEF PullText, StreamOnly, TypeOK
  <1>8. CASE PullReasoning
    <2>1. collector.events + 1 \in Nat BY DEF TypeOK
    <2>2. collector' \in [size : Nat, events : Nat, calls : Seq(Calls),
                          seen : SUBSET Nat, invalid : Nat, complete : BOOLEAN]
      BY <1>8, <2>1 DEF PullReasoning, TypeOK
    <2> QED BY <1>8, <2>2 DEF PullReasoning, StreamOnly, TypeOK
  <1>9. CASE PullCompleted
    BY <1>9 DEF PullCompleted, Pulling, StreamOnly, TypeOK
  <1>10. CASE PullFailure \/ StreamCutOff \/ RoundRefused
    BY <1>10 DEF PullFailure, StreamCutOff, RoundRefused, TurnEnds, TypeOK
  <1>11. ASSUME NEW id \in ProviderIds \cup {EmptyId}, NEW a \in Actions,
                PullCall(id, a)
         PROVE  TypeOK'
    <2>1. id \in Nat BY <1>0 DEF EmptyId
    <2>2. (CHOOSE x \in Actions : TRUE) \in Actions OBVIOUS
    <2>3. Execute(id, a) \in Calls BY <2>1 DEF Execute, Calls
    <2>4. collector.invalid + 1 \in Nat BY DEF TypeOK
    <2>5. Invalid(collector.invalid + 1) \in Calls
      BY <2>2, <2>4 DEF Invalid, InvalidCall, Calls
    <2>6. collector' \in [size : Nat, events : Nat, calls : Seq(Calls),
                          seen : SUBSET Nat, invalid : Nat, complete : BOOLEAN]
      <3>1. \A c \in Calls : Append(collector.calls, c) \in Seq(Calls)
        BY AppendProperties DEF TypeOK
      <3>2. CASE id = EmptyId \/ id \in collector.seen
        BY <1>11, <2>4, <2>5, <3>1, <3>2 DEF PullCall, TypeOK
      <3>3. CASE ~(id = EmptyId \/ id \in collector.seen)
        BY <1>11, <2>1, <2>3, <3>1, <3>3 DEF PullCall, TypeOK
      <3> QED BY <3>2, <3>3
    <2> QED BY <1>11, <2>6 DEF PullCall, Pulling, StreamOnly, TypeOK
  <1>12. CASE TurnAnswers
    <2>1. Text(collector.size) \in Items BY ItemTypes DEF TypeOK
    <2>2. history' \in Seq(Items)
      BY <1>12, <2>1, AppendProperties DEF TurnAnswers, TypeOK
    <2> QED BY <1>12, <2>2 DEF TurnAnswers, Finish, Pulling, TypeOK
  <1>13. CASE RoundBegins
    <2> DEFINE cs == collector.calls
               items == [i \in DOMAIN cs |-> CallItem(cs[i].id)]
    <2>1. cs \in Seq(Calls) /\ collector.size \in Nat BY DEF TypeOK
    <2>2. items \in Seq(Items)
      <3>1. DOMAIN cs = 1 .. Len(cs) /\ Len(cs) \in Nat BY <2>1
      <3>2. ASSUME NEW i \in DOMAIN cs PROVE CallItem(cs[i].id) \in Items
        <4>0. cs[i] \in Calls BY <2>1, <3>1, ElementOfSeq
        <4>1. cs[i].id \in Nat BY <4>0 DEF Calls
        <4>2. 1 \in Nat OBVIOUS
        <4> QED BY <4>1, <4>2, ItemTypes
      <3> QED BY <3>1, <3>2
    <2>3. round' = [calls |-> cs, transcript |-> items, queued |-> 0,
                    cancelled |-> FALSE, size |-> collector.size]
      BY <1>13 DEF RoundBegins
    <2> HIDE DEF cs, items
    <2>4. round' \in [calls : Seq(Calls), transcript : Seq(Items),
                      queued : 0 .. 1, cancelled : BOOLEAN, size : Nat]
      BY <2>1, <2>2, <2>3
    <2>5. attempted' \in Nat /\ phase' \in Phases /\ polling' \in BOOLEAN
      BY <1>13 DEF RoundBegins, TypeOK
    <2> QED BY <1>13, <2>4, <2>5, EmptyTypes DEF RoundBegins, TypeOK
  <1> QED BY <1>1, <1>2, <1>3, <1>4, <1>5, <1>6, <1>7, <1>8, <1>9, <1>10,
             <1>11, <1>12, <1>13

\* A call that is answered keeps the types of the round.
LEMMA TypeAnswer ==
    ASSUME TypeOK, NextCall, NEW size \in Nat, NEW events \in 1 .. 2,
           NEW cancelled \in BOOLEAN, Answer(size, events, cancelled),
           ledger' \subseteq Digests, granted' \in [Digests -> Nat],
           executed' \in [Digests -> Nat]
    PROVE  TypeOK'
  <1>1. /\ round.calls \in Seq(Calls) /\ round.calls # <<>>
        /\ round.transcript \in Seq(Items)
    BY DEF TypeOK, NextCall
  <1>2. Head(round.calls).id \in Nat /\ Tail(round.calls) \in Seq(Calls)
    <2>1. Head(round.calls) \in Calls /\ Tail(round.calls) \in Seq(Calls)
      BY <1>1, HeadTailProperties
    <2> QED BY <2>1 DEF Calls
  <1>3. Append(round.transcript, Result(Head(round.calls).id, size))
            \in Seq(Items)
    BY <1>1, <1>2, ItemTypes, AppendProperties
  <1>4. events - 1 \in 0 .. 1 OBVIOUS
  <1>5. round' \in [calls : Seq(Calls), transcript : Seq(Items),
                    queued : 0 .. 1, cancelled : BOOLEAN, size : Nat]
    BY <1>2, <1>3, <1>4 DEF Answer, TypeOK
  <1> QED BY <1>5 DEF Answer, Goto, Phases, TypeOK

\* The steps of a round and of the end of the response keep the types.
LEMMA TypeRound ==
    ASSUME TypeOK,
           \/ ShowQueued \/ InvalidAnswered \/ CallRefused
           \/ RunPlain \/ RunRecorded \/ RunResolved
           \/ RoundCompletes \/ RoundCancelled \/ ShowTerminal
           \/ RestoreMachine
    PROVE  TypeOK'
  <1>0. Sizes \subseteq Nat /\ Gated \subseteq Actions
    BY ToolLoopAssumption
  <1>d. \A a \in Gated : Digest(a) \in Digests
    BY <1>0 DEF Digest, Digests, TypeOK
  <1>1. CASE ShowQueued
    <2>1. round.queued - 1 \in 0 .. 1 BY <1>1 DEF ShowQueued, TypeOK
    <2>2. round' \in [calls : Seq(Calls), transcript : Seq(Items),
                      queued : 0 .. 1, cancelled : BOOLEAN, size : Nat]
      BY <1>1, <2>1 DEF ShowQueued, TypeOK
    <2> QED BY <1>1, <2>2 DEF ShowQueued, Goto, Phases, TypeOK
  <1>2. CASE InvalidAnswered
    <2>1. /\ NextCall /\ Answer(1, 1, FALSE)
          /\ UNCHANGED <<ledger, granted, executed>>
      BY <1>2 DEF InvalidAnswered
    <2>2. /\ ledger' \subseteq Digests /\ granted' \in [Digests -> Nat]
          /\ executed' \in [Digests -> Nat]
      BY <2>1 DEF TypeOK
    <2>3. 1 \in Nat /\ 1 \in 1 .. 2 /\ 2 \in 1 .. 2 /\ FALSE \in BOOLEAN
      OBVIOUS
    <2> QED BY <2>1, <2>2, <2>3, TypeAnswer
  <1>3. CASE CallRefused
    <2>1. /\ NextCall /\ Answer(1, 2, FALSE)
          /\ UNCHANGED <<ledger, granted, executed>>
      BY <1>3 DEF CallRefused, Authorizing
    <2>2. /\ ledger' \subseteq Digests /\ granted' \in [Digests -> Nat]
          /\ executed' \in [Digests -> Nat]
      BY <2>1 DEF TypeOK
    <2>3. 1 \in Nat /\ 1 \in 1 .. 2 /\ 2 \in 1 .. 2 /\ FALSE \in BOOLEAN
      OBVIOUS
    <2> QED BY <2>1, <2>2, <2>3, TypeAnswer
  <1>4. CASE RunPlain
    <2>1. NextCall /\ Runs /\ UNCHANGED <<ledger, granted, executed>>
      BY <1>4 DEF RunPlain, Authorizing
    <2>2. /\ ledger' \subseteq Digests /\ granted' \in [Digests -> Nat]
          /\ executed' \in [Digests -> Nat]
      BY <2>1 DEF TypeOK
    <2> QED BY <1>0, <2>1, <2>2, TypeAnswer DEF Runs
  <1>5. CASE RunRecorded
    <2>1. PICK a \in Gated :
              /\ NextCall /\ ledger' = ledger \ {Digest(a)} /\ Runs
              /\ executed' = [executed EXCEPT ![Digest(a)] = @ + 1]
              /\ UNCHANGED granted
      BY <1>5 DEF RunRecorded, RunsGated, Authorizing
    <2>2. /\ ledger' \subseteq Digests /\ granted' \in [Digests -> Nat]
          /\ executed' \in [Digests -> Nat]
      BY <1>d, <2>1 DEF TypeOK
    <2> QED BY <1>0, <2>1, <2>2, TypeAnswer DEF Runs
  <1>6. CASE RunResolved
    <2>1. PICK a \in Gated :
              /\ NextCall /\ Runs
              /\ granted' = [granted EXCEPT ![Digest(a)] = @ + 1]
              /\ executed' = [executed EXCEPT ![Digest(a)] = @ + 1]
              /\ UNCHANGED ledger
      BY <1>6 DEF RunResolved, RunsGated, Authorizing
    <2>2. /\ ledger' \subseteq Digests /\ granted' \in [Digests -> Nat]
          /\ executed' \in [Digests -> Nat]
      BY <1>d, <2>1 DEF TypeOK
    <2> QED BY <1>0, <2>1, <2>2, TypeAnswer DEF Runs
  <1>7. CASE RoundCompletes
    <2>1. (IF round.size = 0 THEN <<>> ELSE <<Text(round.size)>>) \in Seq(Items)
      BY ItemTypes DEF TypeOK
    <2>2. history' \in Seq(Items)
      BY <1>7, <2>1, ConcatProperties DEF RoundCompletes, TypeOK
    <2> QED BY <1>7, <2>2, EmptyTypes DEF RoundCompletes, Goto, Phases, TypeOK
  <1>8. CASE RoundCancelled
    <2> DEFINE rest == [i \in DOMAIN round.calls |->
                           Result(round.calls[i].id, 1)]
    <2>1. rest \in Seq(Items)
      <3>1. /\ round.calls \in Seq(Calls) /\ Len(round.calls) \in Nat
            /\ DOMAIN round.calls = 1 .. Len(round.calls)
        BY DEF TypeOK
      <3>2. ASSUME NEW i \in DOMAIN round.calls
            PROVE  Result(round.calls[i].id, 1) \in Items
        <4>0. round.calls[i] \in Calls BY <3>1, ElementOfSeq
        <4>1. round.calls[i].id \in Nat BY <4>0 DEF Calls
        <4>2. 1 \in Nat OBVIOUS
        <4> QED BY <4>1, <4>2, ItemTypes
      <3> QED BY <3>1, <3>2
    <2>2. history' = history \o round.transcript \o rest
      BY <1>8 DEF RoundCancelled
    <2> HIDE DEF rest
    <2>3. history' \in Seq(Items)
      BY <2>1, <2>2, ConcatProperties DEF TypeOK
    <2> QED BY <1>8, <2>3, EmptyTypes
         DEF RoundCancelled, EndWith, Goto, Phases, TypeOK
  <1>9. CASE ShowTerminal BY <1>9 DEF ShowTerminal, Goto, Phases, TypeOK
  <1>10. CASE RestoreMachine
    <2>1. history' \in Seq(Items)
      BY <1>10, PruneKeeps DEF RestoreMachine, TypeOK
    <2> QED BY <1>10, <2>1, EmptyTypes DEF RestoreMachine, Phases, TypeOK
  <1> QED BY <1>1, <1>2, <1>3, <1>4, <1>5, <1>6, <1>7, <1>8, <1>9, <1>10

\* Every step keeps the types.
LEMMA TypeStep == TypeOK /\ [Next]_vars => TypeOK'
  <1>1. CASE UNCHANGED vars BY <1>1 DEF vars, TypeOK
  <1> QED BY <1>1, TypeHost, TypeTurn, TypeRound DEF Next, MachineNext

\* The variables of the tool loop keep their types, whatever the provider
\* streams and the host calls.
THEOREM TypeCorrect == Spec => []TypeOK
  <1> QED BY TypeInit, TypeStep, PTL DEF Spec

----------------------------------------------------------------------------
(* The boundary and the end of the conversation. *)

\* The phases in which a response may still be rejected.
Undecided == {"start", "collect", "invoke", "stream", "round"}

\* The conversation ends with a prompt or with a tool result.
Ending == Last(history).kind \in {"user", "result"}

\* A round of n calls has their items first, then a result for each call it
\* has answered, in their order; the calls that are left are the others.
RoundShape(n) ==
    LET answered == n - Len(round.calls)
        t == round.transcript
    IN  /\ Len(round.calls) <= n /\ Len(t) = n + answered
        /\ \A i \in 1 .. n : t[i].kind = "call"
        /\ \A i \in 1 .. answered : /\ t[n + i].kind = "result"
                                    /\ t[n + i].id = t[i].id
        /\ \A i \in 1 .. Len(round.calls) :
               round.calls[i].id = t[answered + i].id

\* What a phase says of the end of the conversation: there is one while a
\* response runs, and while it may still be rejected it ends with the prompt or
\* with the results of the last committed round.
EndInv ==
    /\ phase # "idle" => history # <<>>
    /\ phase \in Undecided => Ending
    /\ phase = "round" => \E n \in Nat \ {0} : RoundShape(n)

\* The inductive invariant of the committed conversation.
HistoryInv == TypeOK /\ BoundaryIsUser /\ EndInv /\ RejectedNotCommitted

\* It holds of an empty conversation.
LEMMA HistoryInit == Init => HistoryInv
  BY TypeInit, EmptyFits
  DEF Init, HistoryInv, BoundaryIsUser, EndInv, RejectedNotCommitted, Undecided

\* Steps that commit nothing and leave the round alone.
LEMMA HistoryFrame ==
    ASSUME HistoryInv, TypeOK', UNCHANGED <<history, round>>,
           \/ UNCHANGED <<phase, terminal>>
           \/ /\ phase \in Undecided
              /\ phase' \in (Undecided \ {"round"}) \cup {"terminal"}
           \/ phase = "terminal" /\ phase' = "done"
    PROVE  HistoryInv'
  <1>1. UNCHANGED Ending BY DEF Ending
  <1>2. (\E n \in Nat \ {0} : RoundShape(n))
            => (\E n \in Nat \ {0} : RoundShape(n))'
    BY DEF RoundShape
  <1>3. EndInv'
    <2>1. phase # "idle" \/ UNCHANGED phase BY DEF Undecided
    <2>2. phase' = "round" => phase = "round" OBVIOUS
    <2>3. phase' \in Undecided => phase \in Undecided BY DEF Undecided
    <2> QED BY <1>1, <1>2, <2>1, <2>2, <2>3 DEF HistoryInv, EndInv
  <1>4. BoundaryIsUser'
    <2>1. phase' = "idle" => phase = "idle" BY DEF Undecided
    <2> QED BY <2>1 DEF HistoryInv, BoundaryIsUser
  <1>5. RejectedNotCommitted'
    <2>1. phase' = "terminal" =>
              \/ phase \in Undecided
              \/ phase = "terminal" /\ terminal' = terminal
      OBVIOUS
    <2> QED BY <2>1 DEF HistoryInv, EndInv, Ending, RejectedNotCommitted
  <1> QED BY <1>3, <1>4, <1>5 DEF HistoryInv

\* The host and a turn of the provider keep the boundary and the end.
LEMMA HistoryTurn ==
    ASSUME HistoryInv, TypeOK',
           \/ HostNext \/ PollEvent
           \/ Start \/ ObserveCancel \/ CollectTurn \/ ShowPressure
           \/ RequestBlocked \/ OpenTurn
           \/ \E size \in Sizes : PullText(size)
           \/ PullReasoning \/ PullCompleted \/ PullFailure \/ StreamCutOff
           \/ \E id \in ProviderIds \cup {EmptyId}, a \in Actions :
                 PullCall(id, a)
           \/ TurnAnswers \/ RoundRefused \/ RoundBegins
    PROVE  HistoryInv'
  <1>0. TypeOK /\ Sizes \subseteq Nat
    BY ToolLoopAssumption DEF HistoryInv
  <1> USE DEF Running, Goto, EndWith, Undecided
  <1>1. ASSUME NEW size \in Sizes, SendPrompt(size) PROVE HistoryInv'
    <2> DEFINE p == PruneHistory(history)
    <2>1. /\ p \in Seq(Items)
          /\ p # <<>> => Head(p).kind = "user"
      BY <1>0, PruneKeeps DEF TypeOK, HistoryInv, BoundaryIsUser
    <2>2. history' = Append(p, User(size)) /\ phase' = "start"
      BY <1>1 DEF SendPrompt
    <2> HIDE DEF p
    <2>3. User(size) \in Items /\ User(size).kind = "user"
      BY <1>0, ItemTypes DEF User, Item
    <2>4. /\ history' # <<>> /\ Last(history') = User(size)
          /\ Head(history') = IF p = <<>> THEN User(size) ELSE Head(p)
      BY <2>1, <2>2, <2>3, AppendProperties DEF Last
    <2> QED BY <2>1, <2>2, <2>3, <2>4
         DEF HistoryInv, EndInv, BoundaryIsUser, RejectedNotCommitted, Ending
  <1>2. CASE \/ Cancel \/ PollEvent \/ SetProjection
             \/ \E d \in Gated \X (0 .. MaxRevision) : Approve(d)
    <2>1. UNCHANGED <<history, round, phase, terminal>>
      BY <1>2, Zenon DEF Cancel, PollEvent, SetProjection, Approve
    <2> QED BY <2>1, HistoryFrame
  <1>3. CASE \/ Start \/ ObserveCancel \/ CollectTurn \/ ShowPressure
             \/ RequestBlocked
    <2>1. /\ UNCHANGED <<history, round>> /\ phase \in Undecided
          /\ phase' \in (Undecided \ {"round"}) \cup {"terminal"}
      BY <1>3
      DEF Start, ObserveCancel, CollectTurn, ShowPressure, RequestBlocked
    <2> QED BY <2>1, HistoryFrame
  <1>4. CASE OpenTurn
    <2>1. /\ UNCHANGED <<history, round>> /\ phase \in Undecided
          /\ phase' \in (Undecided \ {"round"}) \cup {"terminal"}
      BY <1>4 DEF OpenTurn
    <2> QED BY <2>1, HistoryFrame
  <1>5. CASE \/ \E size \in Sizes : PullText(size)
             \/ PullReasoning \/ PullCompleted \/ PullFailure \/ StreamCutOff
             \/ \E id \in ProviderIds \cup {EmptyId}, a \in Actions :
                   PullCall(id, a)
             \/ RoundRefused
    <2>1. /\ UNCHANGED <<history, round>> /\ phase = "stream"
          /\ phase' = "stream" \/ phase' = "terminal"
      BY <1>5, Zenon
      DEF PullText, PullReasoning, PullCompleted, PullFailure, StreamCutOff,
          PullCall, RoundRefused, Pulling, Finish, StreamOnly, TurnEnds
    <2> QED BY <2>1, HistoryFrame
  <1>6. CASE TurnAnswers
    <2>1. /\ phase = "stream" /\ phase' = "terminal" /\ terminal' = "Completed"
          /\ history' = IF collector.size = 0 THEN history
                        ELSE Append(history, Text(collector.size))
      BY <1>6 DEF TurnAnswers, Finish, Pulling
    <2>2. history \in Seq(Items) /\ history # <<>>
          /\ Head(history).kind = "user"
      BY <2>1 DEF HistoryInv, TypeOK, EndInv, BoundaryIsUser
    <2>3. history' # <<>> /\ Head(history') = Head(history)
      BY <2>1, <2>2
    <2> QED BY <2>1, <2>2, <2>3
         DEF HistoryInv, EndInv, BoundaryIsUser, RejectedNotCommitted
  <1>7. CASE RoundBegins
    <2> DEFINE cs == collector.calls
    <2>1. /\ phase = "stream" /\ phase' = "round" /\ UNCHANGED history
          /\ cs # <<>> /\ round'.calls = cs
          /\ round'.transcript = [i \in DOMAIN cs |-> CallItem(cs[i].id)]
      BY <1>7 DEF RoundBegins, Finish, Pulling
    <2>2. cs \in Seq(Calls) BY <1>0 DEF TypeOK
    <2>3. PICK n \in Nat \ {0} : n = Len(cs) /\ DOMAIN cs = 1 .. n
      BY <2>1, <2>2
    <2>4. /\ Len(round'.transcript) = n
          /\ \A i \in 1 .. n : /\ round'.transcript[i].kind = "call"
                               /\ round'.transcript[i].id = cs[i].id
      BY <2>1, <2>3 DEF CallItem, Item
    <2>5. RoundShape(n)'
      <3>1. n - Len(round'.calls) = 0 /\ Len(round'.calls) = n BY <2>1, <2>3
      <3>2. ASSUME NEW i \in 1 .. n
            PROVE  round'.calls[i].id = round'.transcript[0 + i].id
        <4>1. 0 + i = i OBVIOUS
        <4> QED BY <2>1, <2>4, <4>1
      <3>3. Len(round'.transcript) = n + 0 BY <2>3, <2>4
      <3> DEFINE t == round'.transcript
                 left == round'.calls
      <3>4. /\ Len(t) = n /\ \A i \in 1 .. n : t[i].kind = "call"
            /\ \A i \in 1 .. n : left[i].id = t[0 + i].id
        BY <2>4, <3>2
      <3> HIDE DEF t, left
      <3>5. /\ Len(left) <= n /\ Len(t) = n + (n - Len(left))
            /\ \A i \in 1 .. n - Len(left) : /\ t[n + i].kind = "result"
                                             /\ t[n + i].id = t[i].id
            /\ \A i \in 1 .. Len(left) :
                  left[i].id = t[(n - Len(left)) + i].id
        BY <3>1, <3>3, <3>4 DEF left, t
      <3> QED BY <3>4, <3>5 DEF RoundShape, t, left
    <2>6. Ending' = Ending BY <2>1 DEF Ending
    <2>7. EndInv'
      <3>1. (\E m \in Nat \ {0} : RoundShape(m))' BY <2>3, <2>5
      <3> QED BY <2>1, <2>6, <3>1 DEF HistoryInv, EndInv
    <2> QED BY <2>1, <2>7 DEF HistoryInv, BoundaryIsUser, RejectedNotCommitted
  <1> QED BY <1>1, <1>2, <1>3, <1>4, <1>5, <1>6, <1>7 DEF HostNext

\* One more call of the round has its result.
LEMMA AnswerShape ==
    ASSUME TypeOK, NextCall, NEW n \in Nat \ {0}, RoundShape(n),
           NEW size \in Nat, NEW events, NEW cancelled,
           Answer(size, events, cancelled)
    PROVE  RoundShape(n)'
  <1> DEFINE cs == round.calls
             t == round.transcript
             new == Result(Head(cs).id, size)
  <1>1. /\ cs \in Seq(Calls) /\ cs # <<>> /\ t \in Seq(Items)
        /\ round'.calls = Tail(cs) /\ round'.transcript = Append(t, new)
    BY DEF TypeOK, NextCall, Answer
  <1>2. /\ Len(cs) \in Nat /\ Len(cs) >= 1
        /\ Head(cs) \in Calls /\ Head(cs) = cs[1]
    BY <1>1, HeadTailProperties
  <1>3. new \in Items /\ new.kind = "result" /\ new.id = cs[1].id
    <2>1. Head(cs).id \in Nat BY <1>2 DEF Calls
    <2> QED BY <1>2, <2>1, ItemTypes DEF Result, Item
  <1>4. Len(cs) <= n BY DEF RoundShape
  <1>5. PICK m \in Nat : m = n - Len(cs)
    <2>1. n - Len(cs) \in Nat BY <1>2, <1>4
    <2> QED BY <2>1
  <1>6. /\ Len(t) = n + m
        /\ \A i \in 1 .. n : t[i].kind = "call"
        /\ \A i \in 1 .. m : t[n + i].kind = "result" /\ t[n + i].id = t[i].id
        /\ \A i \in 1 .. Len(cs) : cs[i].id = t[m + i].id
    BY <1>5 DEF RoundShape
  <1> DEFINE ds == Tail(cs)
             u == Append(t, new)
  <1> HIDE DEF cs, t, new
  <1>7. PICK k \in Nat : k = Len(ds) /\ Len(cs) = k + 1
    <2>1. Len(ds) = Len(cs) - 1 BY <1>1
    <2>2. Len(ds) \in Nat /\ Len(cs) = Len(ds) + 1 BY <1>2, <2>1
    <2> QED BY <2>2
  <1>8. n = m + k + 1 BY <1>2, <1>5, <1>7
  <1>9. \A i \in 1 .. k : ds[i] = cs[i + 1] BY <1>1, <1>7
  <1>10. /\ Len(u) = n + m + 1 /\ u[n + m + 1] = new
         /\ \A i \in 1 .. n + m : u[i] = t[i]
    <2>1. /\ Len(u) = Len(t) + 1 /\ u[Len(t) + 1] = new
          /\ \A i \in 1 .. Len(t) : u[i] = t[i]
      BY <1>1, <1>3, AppendProperties
    <2> QED BY <1>6, <2>1
  <1> HIDE DEF u, ds
  <1>11. \A i \in 1 .. n : u[i].kind = "call" BY <1>6, <1>10
  <1>12. ASSUME NEW i \in 1 .. m + 1
         PROVE  u[n + i].kind = "result" /\ u[n + i].id = u[i].id
    <2>1. CASE i \in 1 .. m
      <3>1. n + i \in 1 .. n + m /\ i \in 1 .. n + m BY <2>1
      <3> QED BY <1>6, <1>10, <2>1, <3>1
    <2>2. CASE i = m + 1
      <3>1. m + 1 \in 1 .. n + m /\ n + i = n + m + 1 /\ 1 \in 1 .. Len(cs)
        BY <1>2, <1>8, <2>2
      <3> QED BY <1>3, <1>6, <1>10, <2>2, <3>1
    <2>3. i \in 1 .. m \/ i = m + 1 OBVIOUS
    <2> QED BY <2>1, <2>2, <2>3
  <1>13. ASSUME NEW i \in 1 .. k PROVE ds[i].id = u[m + 1 + i].id
    <2>1. /\ i + 1 \in 1 .. Len(cs) /\ m + (i + 1) \in 1 .. n + m
          /\ m + 1 + i = m + (i + 1)
      BY <1>7, <1>8
    <2>2. ds[i].id = cs[i + 1].id BY <1>9
    <2>3. cs[i + 1].id = t[m + (i + 1)].id BY <1>6, <2>1
    <2>4. u[m + (i + 1)] = t[m + (i + 1)] BY <1>10, <2>1
    <2> QED BY <2>1, <2>2, <2>3, <2>4
  <1>14. /\ round'.calls = ds /\ round'.transcript = u /\ n - Len(ds) = m + 1
         /\ Len(ds) <= n /\ Len(u) = n + (m + 1)
    BY <1>1, <1>7, <1>8, <1>10 DEF ds, u
  <1> QED BY <1>7, <1>11, <1>12, <1>13, <1>14 DEF RoundShape

\* What is appended to a conversation in one piece leaves its boundary.
LEMMA CommitKeeps ==
    ASSUME NEW h \in Seq(Items), h # <<>>, NEW b \in Seq(Items)
    PROVE  /\ h \o b # <<>> /\ Head(h \o b) = Head(h)
           /\ b # <<>> => Last(h \o b) = Last(b)
  <1>1. /\ Len(h) \in Nat \ {0} /\ Len(b) \in Nat
        /\ h \o b \in Seq(Items) /\ Len(h \o b) = Len(h) + Len(b)
        /\ \A k \in 1 .. Len(h) : (h \o b)[k] = h[k]
        /\ \A k \in 1 .. Len(b) : (h \o b)[Len(h) + k] = b[k]
    BY ConcatProperties
  <1> DEFINE w == h \o b
  <1> HIDE DEF w
  <1>2. w # <<>> /\ Head(w) = w[1] /\ w[1] = h[1] BY <1>1 DEF w
  <1>3. b # <<>> => Last(w) = Last(b)
    <2>1. b # <<>> => Len(b) \in 1 .. Len(b) BY <1>1
    <2> QED BY <1>1, <2>1 DEF w, Last
  <1> QED BY <1>2, <1>3 DEF w

\* The steps of a round and of the end of the response keep the boundary and
\* the end.
LEMMA HistoryRound ==
    ASSUME HistoryInv, TypeOK',
           \/ ShowQueued \/ InvalidAnswered \/ CallRefused
           \/ RunPlain \/ RunRecorded \/ RunResolved
           \/ RoundCompletes \/ RoundCancelled \/ ShowTerminal
           \/ RestoreMachine
    PROVE  HistoryInv'
  <1>0. /\ TypeOK /\ Sizes \subseteq Nat
        /\ history \in Seq(Items) /\ round.transcript \in Seq(Items)
        /\ round.calls \in Seq(Calls) /\ round.size \in Nat
    BY ToolLoopAssumption DEF HistoryInv, TypeOK
  <1> USE DEF Running, Goto, EndWith, Undecided
  \* The round goes on.
  <1>1. ASSUME phase = "round", phase' = "round", UNCHANGED history,
               NEW n \in Nat \ {0}, RoundShape(n)'
        PROVE  HistoryInv'
    <2>1. (\E k \in Nat \ {0} : RoundShape(k))' BY <1>1
    <2>2. Ending' = Ending BY <1>1 DEF Ending
    <2> QED BY <1>1, <2>1, <2>2
         DEF HistoryInv, EndInv, BoundaryIsUser, RejectedNotCommitted
  <1>2. CASE ShowQueued
    <2>1. /\ phase = "round" /\ phase' = "round" /\ UNCHANGED history
          /\ round'.calls = round.calls
          /\ round'.transcript = round.transcript
      BY <1>0, <1>2 DEF ShowQueued, TypeOK
    <2>2. PICK n \in Nat \ {0} : RoundShape(n)
      BY <2>1 DEF HistoryInv, EndInv
    <2>3. RoundShape(n)' BY <2>1, <2>2 DEF RoundShape
    <2> QED BY <1>1, <2>1, <2>3
  <1>3. CASE \/ InvalidAnswered \/ CallRefused \/ RunPlain \/ RunRecorded
             \/ RunResolved
    <2>1. PICK size \in Nat, events \in Nat, cancelled \in BOOLEAN :
              NextCall /\ Answer(size, events, cancelled)
      BY <1>0, <1>3
      DEF InvalidAnswered, CallRefused, RunPlain, RunRecorded, RunResolved,
          RunsGated, Runs, Authorizing
    <2>2. phase = "round" /\ phase' = "round" /\ UNCHANGED history
      BY <2>1 DEF NextCall, Answer
    <2>3. PICK n \in Nat \ {0} : RoundShape(n)
      BY <2>2 DEF HistoryInv, EndInv
    <2>4. RoundShape(n)' BY <1>0, <2>1, <2>3, AnswerShape
    <2> QED BY <1>1, <2>2, <2>4
  \* A round that has answered all its calls ends with a result.
  <1>4. ASSUME phase = "round", round.calls = <<>>
        PROVE  /\ round.transcript # <<>>
               /\ Last(round.transcript).kind = "result"
    <2>1. PICK n \in Nat \ {0} : RoundShape(n)
      BY <1>4 DEF HistoryInv, EndInv
    <2>2. Len(round.calls) = 0 BY <1>4
    <2>3. /\ Len(round.transcript) = n + n
          /\ round.transcript[n + n].kind = "result"
      BY <2>1, <2>2 DEF RoundShape
    <2> QED BY <1>0, <2>3 DEF Last
  <1>5. CASE RoundCompletes
    <2> DEFINE text == IF round.size = 0 THEN <<>> ELSE <<Text(round.size)>>
               h == history \o text
    <2>1. /\ phase = "round" /\ phase' = "collect" /\ round.calls = <<>>
          /\ history' = h \o round.transcript
      BY <1>5 DEF RoundCompletes, RoundOver
    <2>2. text \in Seq(Items) BY <1>0, ItemTypes
    <2>3. history # <<>> /\ Head(history).kind = "user"
      BY <2>1 DEF HistoryInv, EndInv, BoundaryIsUser
    <2> HIDE DEF text
    <2>4. h \in Seq(Items) /\ h # <<>> /\ Head(h) = Head(history)
      BY <1>0, <2>2, <2>3, CommitKeeps, ConcatProperties
    <2> HIDE DEF h
    <2>5. /\ history' # <<>> /\ Head(history') = Head(history)
          /\ Last(history') = Last(round.transcript)
      BY <1>0, <1>4, <2>1, <2>4, CommitKeeps
    <2> QED BY <1>4, <2>1, <2>3, <2>5
         DEF HistoryInv, EndInv, BoundaryIsUser, RejectedNotCommitted, Ending
  <1>6. CASE RoundCancelled
    <2> DEFINE rest == [i \in DOMAIN round.calls |->
                           Result(round.calls[i].id, 1)]
               h == history \o round.transcript
    <2>1. /\ phase = "round" /\ phase' = "terminal"
          /\ history' = h \o rest
      BY <1>6 DEF RoundCancelled, RoundOver
    <2>2. DOMAIN round.calls = 1 .. Len(round.calls) /\ Len(round.calls) \in Nat
      BY <1>0
    <2>3. /\ rest \in Seq(Items) /\ Len(rest) = Len(round.calls)
          /\ \A i \in 1 .. Len(rest) : rest[i].kind = "result"
      <3>1. ASSUME NEW i \in DOMAIN round.calls
            PROVE  Result(round.calls[i].id, 1) \in Items
        <4>0. round.calls[i] \in Calls BY <1>0, <2>2, ElementOfSeq
        <4>1. round.calls[i].id \in Nat BY <4>0 DEF Calls
        <4>2. 1 \in Nat OBVIOUS
        <4> QED BY <4>1, <4>2, ItemTypes
      <3> QED BY <2>2, <3>1 DEF Result, Item
    <2>4. history # <<>> /\ Head(history).kind = "user"
      BY <2>1 DEF HistoryInv, EndInv, BoundaryIsUser
    <2> HIDE DEF rest
    <2>5. /\ h \in Seq(Items) /\ h # <<>> /\ Head(h) = Head(history)
          /\ round.transcript # <<>> => Last(h) = Last(round.transcript)
      BY <1>0, <2>4, CommitKeeps, ConcatProperties
    <2> HIDE DEF h
    <2>6. history' # <<>> /\ Head(history') = Head(history)
      BY <2>1, <2>3, <2>5, CommitKeeps
    <2>7. Last(history').kind = "result"
      <3>1. CASE round.calls = <<>>
        <4>1. rest = <<>> BY <2>3, <3>1
        <4>2. history' = h BY <2>1, <2>5, <4>1
        <4> QED BY <1>4, <2>1, <2>5, <3>1, <4>2
      <3>2. CASE round.calls # <<>>
        <4>1. rest # <<>> /\ Len(rest) \in 1 .. Len(rest)
          BY <1>0, <2>2, <2>3, <3>2
        <4>2. Last(history') = Last(rest) BY <2>1, <2>3, <2>5, <4>1, CommitKeeps
        <4> QED BY <2>3, <4>1, <4>2 DEF Last
      <3> QED BY <3>1, <3>2
    <2> QED BY <2>1, <2>4, <2>6, <2>7
         DEF HistoryInv, EndInv, BoundaryIsUser, RejectedNotCommitted
  <1>7. CASE ShowTerminal
    <2>1. /\ UNCHANGED <<history, round>> /\ phase = "terminal"
          /\ phase' = "done"
      BY <1>7 DEF ShowTerminal
    <2> QED BY <2>1, HistoryFrame
  <1>8. CASE RestoreMachine
    <2>1. phase' = "idle" /\ history' = PruneHistory(history)
      BY <1>8 DEF RestoreMachine
    <2>2. Fits(history') /\ (history' # <<>> => Head(history').kind = "user")
      BY <1>0, <2>1, PruneKeeps DEF HistoryInv, BoundaryIsUser
    <2> QED BY <2>1, <2>2
         DEF HistoryInv, EndInv, BoundaryIsUser, RejectedNotCommitted
  <1> QED BY <1>2, <1>3, <1>5, <1>6, <1>7, <1>8

\* Every step keeps it.
LEMMA HistoryStep == HistoryInv /\ [Next]_vars => HistoryInv'
  <1> SUFFICES ASSUME HistoryInv, [Next]_vars PROVE HistoryInv' OBVIOUS
  <1>1. TypeOK' BY TypeStep DEF HistoryInv
  <1>2. CASE UNCHANGED vars BY <1>1, <1>2, HistoryFrame DEF vars
  <1> QED BY <1>1, <1>2, HistoryTurn, HistoryRound DEF Next, MachineNext

\* The conversation begins with a user message in every state, and is within
\* its budget at idle (prune_history), for every budget.
THEOREM BoundaryIsUserHolds == Spec => []BoundaryIsUser
  <1>1. HistoryInv => BoundaryIsUser BY DEF HistoryInv
  <1> QED BY HistoryInit, HistoryStep, <1>1, PTL DEF Spec

\* A response that failed or was cancelled commits no assistant text
\* (turn.rs, finish_cancelled), in whatever phase it ends.
THEOREM RejectedNotCommittedHolds == Spec => []RejectedNotCommitted
  <1>1. HistoryInv => RejectedNotCommitted BY DEF HistoryInv
  <1> QED BY HistoryInit, HistoryStep, <1>1, PTL DEF Spec

----------------------------------------------------------------------------
(* The pairing of calls and results. *)

\* No provider uses an id of the form invalid-call-N.
SyntheticIdsApart == ProviderIds \cap (1 .. MaxToolCalls) = {}

\* The calls retained in a turn have ids of their own: the provider's, each
\* taken once, and the synthetic ones, numbered as they come.
CallIdsInv ==
    LET cs == collector.calls
    IN  /\ collector.seen \subseteq ProviderIds
        /\ collector.invalid <= Len(cs) /\ Len(cs) <= MaxToolCalls
        /\ \A i \in 1 .. Len(cs) :
               cs[i].id \in collector.seen \cup (1 .. collector.invalid)
        /\ \A i, j \in 1 .. Len(cs) : i # j => cs[i].id # cs[j].id

\* So have the calls of the round.
RoundIdsInv ==
    LET t == round.transcript
    IN  phase = "round" =>
            \A i, j \in 1 .. Len(t) :
                t[i].kind = "call" /\ t[j].kind = "call" =>
                    /\ t[i].id # EmptyId
                    /\ i # j => t[i].id # t[j].id

\* The inductive invariant of the pairing, on top of HistoryInv.
PairingInv == CallIdsInv /\ RoundIdsInv /\ TranscriptValid

\* An empty turn has no ids to confuse.
LEMMA NoTurnCallIds == collector' = NoTurn => CallIdsInv'
  BY ToolLoopAssumption DEF NoTurn, CallIdsInv

\* Nothing is open in an empty conversation.
LEMMA PairingInit == Init => PairingInv
  <1> SUFFICES ASSUME Init PROVE PairingInv OBVIOUS
  <1>1. CallIdsInv BY ToolLoopAssumption DEF Init, NoTurn, CallIdsInv
  <1>2. RoundIdsInv BY DEF Init, RoundIdsInv
  <1>3. TranscriptValid
    BY DEF Init, TranscriptValid, ValidTranscript, Indices
  <1> QED BY <1>1, <1>2, <1>3 DEF PairingInv

\* A retained call gets an id that no other call of the turn has.
LEMMA PullCallIds ==
    ASSUME SyntheticIdsApart, TypeOK, CallIdsInv,
           NEW id \in ProviderIds \cup {EmptyId}, NEW a \in Actions,
           PullCall(id, a)
    PROVE  CallIdsInv'
  <1> DEFINE cs == collector.calls
             invalid == collector.invalid
             taken == id = EmptyId \/ id \in collector.seen
             call == IF taken THEN Invalid(invalid + 1) ELSE Execute(id, a)
             ds == Append(cs, call)
  <1>1. /\ cs \in Seq(Calls) /\ Len(cs) \in Nat /\ invalid \in Nat
        /\ MaxToolCalls \in Nat /\ Len(cs) < MaxToolCalls
        /\ ProviderIds \subseteq Nat \ {0} /\ collector.seen \subseteq Nat
    BY ToolLoopAssumption DEF TypeOK, PullCall
  <1>2. /\ collector'.calls = ds
        /\ collector'.seen = IF taken THEN collector.seen
                             ELSE collector.seen \cup {id}
        /\ collector'.invalid = IF taken THEN invalid + 1 ELSE invalid
    BY DEF PullCall, TypeOK
  <1>3. call.id = IF taken THEN invalid + 1 ELSE id
    BY DEF Invalid, InvalidCall, Execute
  <1>4. call \in Calls
    <2>1. (CHOOSE x \in Actions : TRUE) \in Actions OBVIOUS
    <2>2. invalid + 1 \in Nat /\ (id \in Nat) BY <1>1 DEF EmptyId
    <2> QED BY <2>1, <2>2 DEF Invalid, InvalidCall, Execute, Calls
  <1> HIDE DEF call
  <1>5. /\ Len(ds) = Len(cs) + 1 /\ ds[Len(cs) + 1] = call
        /\ \A i \in 1 .. Len(cs) : ds[i] = cs[i]
    BY <1>1, <1>4, AppendProperties
  <1>6. /\ \A i \in 1 .. Len(cs) :
               cs[i].id \in collector.seen \cup (1 .. invalid)
        /\ \A i, j \in 1 .. Len(cs) : i # j => cs[i].id # cs[j].id
        /\ invalid <= Len(cs) /\ collector.seen \subseteq ProviderIds
    BY DEF CallIdsInv
  <1> HIDE DEF ds, cs, invalid
  <1>7. ASSUME NEW i \in 1 .. Len(cs) PROVE cs[i].id # call.id
    <2>1. CASE taken
      <3>1. invalid + 1 \notin ProviderIds
        BY <1>1, <1>6 DEF SyntheticIdsApart
      <3> QED BY <1>1, <1>3, <1>6, <2>1, <3>1
    <2>2. CASE ~taken
      <3>1. id \in ProviderIds /\ id \notin collector.seen BY <2>2
      <3>2. id \notin 1 .. invalid BY <1>1, <1>6, <3>1 DEF SyntheticIdsApart
      <3> QED BY <1>3, <1>6, <2>2, <3>1, <3>2
    <2> QED BY <2>1, <2>2
  <1>8. ASSUME NEW i \in 1 .. Len(cs) + 1
        PROVE  ds[i].id \in collector'.seen \cup (1 .. collector'.invalid)
    <2>1. CASE i = Len(cs) + 1 BY <1>1, <1>2, <1>3, <1>5, <2>1
    <2>2. CASE i # Len(cs) + 1
      <3>1. i \in 1 .. Len(cs) BY <1>1, <2>2
      <3>2. ds[i].id \in collector.seen \cup (1 .. invalid)
        BY <1>5, <1>6, <3>1
      <3> QED BY <1>1, <1>2, <3>2
    <2> QED BY <2>1, <2>2
  <1>9. ASSUME NEW i \in 1 .. Len(cs) + 1, NEW j \in 1 .. Len(cs) + 1, i # j
        PROVE  ds[i].id # ds[j].id
    <2>1. i \in 1 .. Len(cs) \/ i = Len(cs) + 1 BY <1>1
    <2>2. j \in 1 .. Len(cs) \/ j = Len(cs) + 1 BY <1>1
    <2> QED BY <1>5, <1>6, <1>7, <1>9, <2>1, <2>2
  <1>10. collector'.seen \subseteq ProviderIds
    BY <1>2, <1>6
  <1>11. collector'.invalid <= Len(cs) + 1 /\ Len(cs) + 1 <= MaxToolCalls
    BY <1>1, <1>2, <1>6
  <1> QED BY <1>2, <1>5, <1>8, <1>9, <1>10, <1>11 DEF CallIdsInv

\* Steps that neither commit nor open or answer a call.
LEMMA PairingFrame ==
    ASSUME PairingInv, UNCHANGED history, CallIdsInv',
           \/ phase' # "round"
           \/ phase = "round" /\ round'.transcript = round.transcript
    PROVE  PairingInv'
  <1>1. RoundIdsInv' BY DEF PairingInv, RoundIdsInv
  <1>2. TranscriptValid' BY DEF PairingInv, TranscriptValid
  <1> QED BY <1>1, <1>2 DEF PairingInv

\* A message is committed.
LEMMA PairingMessage ==
    ASSUME PairingInv, NEW h \in Seq(Items), ValidTranscript(h),
           NEW item \in Items, item.kind \in {"user", "text"},
           history' = Append(h, item), phase' # "round", UNCHANGED collector
    PROVE  PairingInv'
  <1>1. Append(h, item) = h \o <<item>> BY AppendIsConcat
  <1>2. <<item>> \in Seq(Items) OBVIOUS
  <1>3. ValidTranscript(h \o <<item>>)
    BY <1>2, ConcatValid, MessageValid
  <1>4. TranscriptValid' BY <1>1, <1>3 DEF TranscriptValid
  <1>5. CallIdsInv' BY DEF PairingInv, CallIdsInv
  <1> QED BY <1>4, <1>5 DEF PairingInv, RoundIdsInv

\* The host and a turn of the provider keep the pairing.
LEMMA PairingTurn ==
    ASSUME SyntheticIdsApart, HistoryInv, PairingInv,
           \/ HostNext \/ PollEvent
           \/ Start \/ ObserveCancel \/ CollectTurn \/ ShowPressure
           \/ RequestBlocked \/ OpenTurn
           \/ \E size \in Sizes : PullText(size)
           \/ PullReasoning \/ PullCompleted \/ PullFailure \/ StreamCutOff
           \/ \E id \in ProviderIds \cup {EmptyId}, a \in Actions :
                 PullCall(id, a)
           \/ TurnAnswers \/ RoundRefused \/ RoundBegins
    PROVE  PairingInv'
  <1>0. TypeOK /\ Sizes \subseteq Nat /\ history \in Seq(Items)
        /\ ValidTranscript(history)
    BY ToolLoopAssumption DEF HistoryInv, TypeOK, PairingInv, TranscriptValid
  <1>a. UNCHANGED collector => CallIdsInv' BY DEF PairingInv, CallIdsInv
  <1> USE DEF Running, Goto, EndWith
  <1>1. ASSUME NEW size \in Sizes, SendPrompt(size) PROVE PairingInv'
    <2> DEFINE p == PruneHistory(history)
    <2>1. p \in Seq(Items) /\ ValidTranscript(p) BY <1>0, PruneKeeps
    <2>2. User(size) \in Items /\ User(size).kind = "user"
      BY <1>0, ItemTypes DEF User, Item
    <2>3. /\ history' = Append(p, User(size)) /\ phase' # "round"
          /\ UNCHANGED collector
      BY <1>1 DEF SendPrompt
    <2> HIDE DEF p
    <2> QED BY <2>1, <2>2, <2>3, PairingMessage
  <1>2. CASE \/ Cancel \/ PollEvent \/ SetProjection
             \/ \E d \in Gated \X (0 .. MaxRevision) : Approve(d)
    <2>1. UNCHANGED <<history, round, phase, collector>>
      BY <1>2, Zenon DEF Cancel, PollEvent, SetProjection, Approve
    <2> QED BY <1>a, <2>1, PairingFrame
  <1>3. CASE \/ Start \/ ObserveCancel \/ CollectTurn \/ ShowPressure
             \/ RequestBlocked \/ PullFailure \/ StreamCutOff \/ RoundRefused
    <2>1. UNCHANGED <<history, collector>> /\ phase' # "round"
      BY <1>3
      DEF Start, ObserveCancel, CollectTurn, ShowPressure, RequestBlocked,
          PullFailure, StreamCutOff, RoundRefused, TurnEnds
    <2> QED BY <1>a, <2>1, PairingFrame
  <1>4. CASE OpenTurn
    <2>1. collector' = NoTurn /\ UNCHANGED history /\ phase' # "round"
      BY <1>4 DEF OpenTurn
    <2> QED BY <2>1, NoTurnCallIds, PairingFrame
  <1>5. CASE \/ \E size \in Sizes : PullText(size)
             \/ PullReasoning \/ PullCompleted
    <2>1. /\ collector'.calls = collector.calls
          /\ collector'.seen = collector.seen
          /\ collector'.invalid = collector.invalid
          /\ UNCHANGED history /\ phase' # "round"
      BY <1>0, <1>5
      DEF PullText, PullReasoning, PullCompleted, StreamOnly, TypeOK
    <2>2. CallIdsInv' BY <2>1 DEF PairingInv, CallIdsInv
    <2> QED BY <2>1, <2>2, PairingFrame
  <1>6. ASSUME NEW id \in ProviderIds \cup {EmptyId}, NEW a \in Actions,
               PullCall(id, a)
        PROVE  PairingInv'
    <2>1. CallIdsInv' BY <1>0, <1>6, PullCallIds DEF PairingInv
    <2>2. UNCHANGED history /\ phase' # "round"
      BY <1>6 DEF PullCall, StreamOnly
    <2> QED BY <2>1, <2>2, PairingFrame
  <1>7. CASE TurnAnswers
    <2>1. UNCHANGED collector /\ phase' # "round" BY <1>7 DEF TurnAnswers
    <2>2. CASE collector.size = 0
      <3>1. UNCHANGED history BY <1>7, <2>2 DEF TurnAnswers
      <3> QED BY <1>a, <2>1, <3>1, PairingFrame
    <2>3. CASE collector.size # 0
      <3>1. history' = Append(history, Text(collector.size))
        BY <1>7, <2>3 DEF TurnAnswers
      <3>2. Text(collector.size) \in Items /\ Text(collector.size).kind = "text"
        BY <1>0, ItemTypes DEF TypeOK, Text, Item
      <3> QED BY <1>0, <2>1, <3>1, <3>2, PairingMessage
    <2> QED BY <2>2, <2>3
  <1>8. CASE RoundBegins
    <2> DEFINE cs == collector.calls
               t == round'.transcript
    <2>1. /\ UNCHANGED history /\ collector' = NoTurn
          /\ t = [i \in DOMAIN cs |-> CallItem(cs[i].id)]
      BY <1>8 DEF RoundBegins
    <2>2. cs \in Seq(Calls) /\ Len(cs) \in Nat /\ DOMAIN cs = 1 .. Len(cs)
      BY <1>0 DEF TypeOK
    <2>3. Len(t) = Len(cs) /\ \A i \in 1 .. Len(t) : t[i].id = cs[i].id
      BY <2>1, <2>2 DEF CallItem, Item
    <2>4. ASSUME NEW i \in 1 .. Len(cs) PROVE cs[i].id # EmptyId
      BY ToolLoopAssumption DEF PairingInv, CallIdsInv, EmptyId
    <2>5. \A i, j \in 1 .. Len(cs) : i # j => cs[i].id # cs[j].id
      BY DEF PairingInv, CallIdsInv
    <2> HIDE DEF cs
    <2>6. RoundIdsInv' BY <2>3, <2>4, <2>5 DEF RoundIdsInv
    <2>7. TranscriptValid' BY <2>1 DEF PairingInv, TranscriptValid
    <2> QED BY <2>1, <2>6, <2>7, NoTurnCallIds DEF PairingInv
  <1> QED BY <1>1, <1>2, <1>3, <1>4, <1>5, <1>6, <1>7, <1>8 DEF HostNext

\* What is committed of a round is a valid transcript: the results it has,
\* and the cancelled ones of the calls that were not started.
LEMMA CommittedValid ==
    ASSUME HistoryInv, PairingInv, phase = "round", NEW rest \in Seq(Items),
           Len(rest) = Len(round.calls),
           \A i \in 1 .. Len(rest) : /\ rest[i].kind = "result"
                                     /\ rest[i].id = round.calls[i].id
    PROVE  round.transcript \o rest \in Seq(Items)
           /\ ValidTranscript(round.transcript \o rest)
  <1> DEFINE cs == round.calls
             t == round.transcript
             b == t \o rest
  <1>1. PICK n \in Nat \ {0} : RoundShape(n) BY DEF HistoryInv, EndInv
  <1>2. cs \in Seq(Calls) /\ t \in Seq(Items) /\ Len(cs) \in Nat
    BY DEF HistoryInv, TypeOK
  <1>3. PICK m \in Nat : m = n - Len(cs)
    <2>1. n - Len(cs) \in Nat BY <1>1, <1>2 DEF RoundShape
    <2> QED BY <2>1
  <1>4. /\ Len(t) = n + m
        /\ \A i \in 1 .. n : t[i].kind = "call"
        /\ \A i \in 1 .. m : t[n + i].kind = "result" /\ t[n + i].id = t[i].id
        /\ \A i \in 1 .. Len(cs) : cs[i].id = t[m + i].id
    BY <1>1, <1>3 DEF RoundShape
  <1>5. /\ b \in Seq(Items) /\ Len(b) = Len(t) + Len(rest)
        /\ \A i \in 1 .. Len(t) : b[i] = t[i]
        /\ \A i \in 1 .. Len(rest) : b[Len(t) + i] = rest[i]
    <2>1. t \in Seq(Items) /\ Len(t) \in Nat /\ Len(rest) \in Nat BY <1>2
    <2> HIDE DEF t
    <2>2. /\ b \in Seq(Items) /\ Len(b) = Len(t) + Len(rest)
          /\ \A i \in 1 .. Len(t) + Len(rest) :
                b[i] = IF i <= Len(t) THEN t[i] ELSE rest[i - Len(t)]
      BY <2>1, ConcatProperties
    <2> HIDE DEF b
    <2>3. ASSUME NEW i \in 1 .. Len(rest) PROVE b[Len(t) + i] = rest[i]
      <3>1. /\ Len(t) + i \in 1 .. Len(t) + Len(rest)
            /\ ~(Len(t) + i <= Len(t)) /\ (Len(t) + i) - Len(t) = i
        BY <2>1
      <3> QED BY <2>2, <3>1
    <2> QED BY <2>1, <2>2, <2>3
  <1>6. \A i, j \in 1 .. n : /\ t[i].id # EmptyId
                             /\ i # j => t[i].id # t[j].id
    BY <1>4 DEF PairingInv, RoundIdsInv
  <1>7. PICK k \in Nat : k = Len(cs) /\ n = m + k /\ Len(rest) = k
    BY <1>2, <1>3
  <1> HIDE DEF b, t, cs
  <1>8. Len(b) = n + n BY <1>4, <1>5, <1>7
  <1>9. ASSUME NEW i \in 1 .. n
        PROVE  /\ b[i].kind = "call" /\ b[i].id = t[i].id
               /\ b[n + i].kind = "result" /\ b[n + i].id = b[i].id
    <2>1. b[i] = t[i] BY <1>4, <1>5
    <2>2. CASE i \in 1 .. m
      <3>1. n + i \in 1 .. n + m BY <2>2
      <3>2. b[n + i] = t[n + i] BY <1>4, <1>5, <3>1
      <3> QED BY <1>4, <2>1, <2>2, <3>2
    <2>3. CASE i \notin 1 .. m
      <3>1. PICK j \in 1 .. k : i = m + j
        <4>1. i - m \in 1 .. k /\ i = m + (i - m) BY <1>7, <2>3
        <4> QED BY <4>1
      <3>2. n + i = (n + m) + j BY <3>1
      <3>3. b[n + i] = rest[j] BY <1>4, <1>5, <1>7, <3>1, <3>2
      <3>4. rest[j].kind = "result" /\ rest[j].id = cs[j].id BY <1>7 DEF cs
      <3>5. cs[j].id = t[i].id BY <1>4, <1>7, <3>1
      <3> QED BY <1>4, <2>1, <3>3, <3>4, <3>5
    <2> QED BY <2>2, <2>3
  <1>10. ValidTranscript(b)
    <2>1. \A i \in 1 .. n : /\ b[i].kind = "call" /\ b[i].id # EmptyId
                            /\ b[n + i].kind = "result"
                            /\ b[n + i].id = b[i].id
      BY <1>6, <1>9
    <2>2. \A i, j \in 1 .. n : i # j => b[i].id # b[j].id
      BY <1>6, <1>9
    <2> QED BY <1>5, <1>8, <2>1, <2>2, RoundValid
  <1> QED BY <1>5, <1>10 DEF b, t

\* The steps of a round and of the end of the response keep the pairing.
LEMMA PairingRound ==
    ASSUME HistoryInv, PairingInv,
           \/ ShowQueued \/ InvalidAnswered \/ CallRefused
           \/ RunPlain \/ RunRecorded \/ RunResolved
           \/ RoundCompletes \/ RoundCancelled \/ ShowTerminal
           \/ RestoreMachine
    PROVE  PairingInv'
  <1>0. /\ TypeOK /\ Sizes \subseteq Nat
        /\ history \in Seq(Items) /\ ValidTranscript(history)
        /\ round.transcript \in Seq(Items) /\ round.calls \in Seq(Calls)
        /\ round.size \in Nat
    BY ToolLoopAssumption DEF HistoryInv, TypeOK, PairingInv, TranscriptValid
  <1>a. UNCHANGED collector => CallIdsInv' BY DEF PairingInv, CallIdsInv
  <1> USE DEF Running, Goto, EndWith
  <1>1. CASE ShowQueued
    <2>1. /\ UNCHANGED <<history, collector>> /\ phase = "round"
          /\ round'.transcript = round.transcript
      BY <1>0, <1>1 DEF ShowQueued, TypeOK
    <2> QED BY <1>a, <2>1, PairingFrame
  <1>2. CASE \/ InvalidAnswered \/ CallRefused \/ RunPlain \/ RunRecorded
             \/ RunResolved
    <2>1. PICK size \in Nat, events \in Nat, cancelled \in BOOLEAN :
              NextCall /\ Answer(size, events, cancelled)
      BY <1>0, <1>2
      DEF InvalidAnswered, CallRefused, RunPlain, RunRecorded, RunResolved,
          RunsGated, Runs, Authorizing
    <2> DEFINE t == round.transcript
               new == Result(Head(round.calls).id, size)
    <2>2. /\ UNCHANGED <<history, collector>> /\ phase = "round"
          /\ round'.transcript = Append(t, new) /\ round.calls # <<>>
      BY <1>0, <2>1 DEF NextCall, Answer, TypeOK
    <2>3. new \in Items /\ new.kind = "result"
      <3>1. Head(round.calls) \in Calls BY <1>0, <2>2, HeadTailProperties
      <3>2. Head(round.calls).id \in Nat BY <3>1 DEF Calls
      <3> QED BY <3>2, ItemTypes DEF Result, Item
    <2> HIDE DEF new
    <2>4. /\ Len(Append(t, new)) = Len(t) + 1
          /\ Append(t, new)[Len(t) + 1] = new
          /\ \A i \in 1 .. Len(t) : Append(t, new)[i] = t[i]
          /\ Len(t) \in Nat
      BY <1>0, <2>3, AppendProperties
    <2>5. RoundIdsInv'
      <3> SUFFICES ASSUME NEW i \in 1 .. Len(t) + 1, NEW j \in 1 .. Len(t) + 1,
                          Append(t, new)[i].kind = "call",
                          Append(t, new)[j].kind = "call"
                   PROVE  /\ Append(t, new)[i].id # EmptyId
                          /\ i # j =>
                                 Append(t, new)[i].id # Append(t, new)[j].id
        BY <2>2, <2>4 DEF RoundIdsInv
      <3>1. i \in 1 .. Len(t) /\ j \in 1 .. Len(t) BY <2>3, <2>4
      <3> QED BY <2>2, <2>4, <3>1 DEF PairingInv, RoundIdsInv
    <2>6. TranscriptValid' BY <2>2 DEF PairingInv, TranscriptValid
    <2> QED BY <1>a, <2>2, <2>5, <2>6 DEF PairingInv
  <1>3. CASE RoundCompletes
    <2> DEFINE text == IF round.size = 0 THEN <<>> ELSE <<Text(round.size)>>
               h == history \o text
               t == round.transcript
    <2>1. /\ phase = "round" /\ phase' # "round" /\ round.calls = <<>>
          /\ history' = h \o t /\ UNCHANGED collector
      BY <1>3 DEF RoundCompletes, RoundOver
    <2>2. text \in Seq(Items) /\ ValidTranscript(text)
      <3>1. CASE round.size = 0
        BY <3>1 DEF ValidTranscript, Indices
      <3>2. CASE round.size # 0
        <4>1. Text(round.size) \in Items /\ Text(round.size).kind = "text"
          BY <1>0, ItemTypes DEF Text, Item
        <4> QED BY <3>2, <4>1, MessageValid
      <3> QED BY <3>1, <3>2
    <2> HIDE DEF text
    <2>3. h \in Seq(Items) /\ ValidTranscript(h)
      BY <1>0, <2>2, ConcatValid, ConcatProperties
    <2>4. t \in Seq(Items) /\ ValidTranscript(t)
      <3>1. <<>> \in Seq(Items) /\ Len(round.calls) = 0 /\ Len(<<>>) = 0
            /\ t \o <<>> = t
        BY <1>0, <2>1
      <3>2. \A i \in 1 .. Len(<<>>) : /\ <<>>[i].kind = "result"
                                      /\ <<>>[i].id = round.calls[i].id
        BY <3>1
      <3>3. ValidTranscript(t \o <<>>) BY <2>1, <3>1, <3>2, CommittedValid
      <3> QED BY <1>0, <3>1, <3>3
    <2> HIDE DEF h, t
    <2>5. TranscriptValid' BY <2>1, <2>3, <2>4, ConcatValid DEF TranscriptValid
    <2> QED BY <1>a, <2>1, <2>5 DEF PairingInv, RoundIdsInv
  <1>4. CASE RoundCancelled
    <2> DEFINE rest == [i \in DOMAIN round.calls |->
                           Result(round.calls[i].id, 1)]
               b == round.transcript \o rest
    <2>1. /\ phase = "round" /\ phase' # "round" /\ UNCHANGED collector
          /\ history' = (history \o round.transcript) \o rest
      BY <1>4 DEF RoundCancelled, RoundOver
    <2>2. DOMAIN round.calls = 1 .. Len(round.calls) /\ Len(round.calls) \in Nat
      BY <1>0
    <2>3. /\ rest \in Seq(Items) /\ Len(rest) = Len(round.calls)
          /\ \A i \in 1 .. Len(rest) : /\ rest[i].kind = "result"
                                       /\ rest[i].id = round.calls[i].id
      <3>1. ASSUME NEW i \in DOMAIN round.calls
            PROVE  Result(round.calls[i].id, 1) \in Items
        <4>0. round.calls[i] \in Calls BY <1>0, <2>2, ElementOfSeq
        <4>1. round.calls[i].id \in Nat BY <4>0 DEF Calls
        <4>2. 1 \in Nat OBVIOUS
        <4> QED BY <4>1, <4>2, ItemTypes
      <3> QED BY <2>2, <3>1 DEF Result, Item
    <2> HIDE DEF rest
    <2>4. b \in Seq(Items) /\ ValidTranscript(b)
      BY <2>1, <2>3, CommittedValid
    <2>5. history' = history \o b
      <3> DEFINE t == round.transcript
      <3>1. history \in Seq(Items) /\ t \in Seq(Items) /\ rest \in Seq(Items)
        BY <1>0, <2>3
      <3> HIDE DEF t
      <3>2. (history \o t) \o rest = history \o (t \o rest)
        BY <3>1, ConcatAssociative
      <3> QED BY <2>1, <3>2 DEF t
    <2> HIDE DEF b
    <2>6. TranscriptValid' BY <1>0, <2>4, <2>5, ConcatValid DEF TranscriptValid
    <2> QED BY <1>a, <2>1, <2>6 DEF PairingInv, RoundIdsInv
  <1>5. CASE ShowTerminal
    <2>1. UNCHANGED <<history, collector>> /\ phase' # "round"
      BY <1>5 DEF ShowTerminal
    <2> QED BY <1>a, <2>1, PairingFrame
  <1>6. CASE RestoreMachine
    <2>1. /\ phase' # "round" /\ history' = PruneHistory(history)
          /\ collector' = NoTurn
      BY <1>6 DEF RestoreMachine
    <2>2. TranscriptValid' BY <1>0, <2>1, PruneKeeps DEF TranscriptValid
    <2> QED BY <2>1, <2>2, NoTurnCallIds DEF PairingInv, RoundIdsInv
  <1> QED BY <1>1, <1>2, <1>3, <1>4, <1>5, <1>6

\* Every step keeps the pairing.
LEMMA PairingStep ==
    ASSUME SyntheticIdsApart
    PROVE  HistoryInv /\ PairingInv /\ [Next]_vars => PairingInv'
  <1> SUFFICES ASSUME HistoryInv, PairingInv, [Next]_vars PROVE PairingInv'
    OBVIOUS
  <1>1. CASE UNCHANGED vars
    BY <1>1 DEF vars, PairingInv, CallIdsInv, RoundIdsInv, TranscriptValid
  <1> QED BY <1>1, PairingTurn, PairingRound DEF Next, MachineNext

\* The committed conversation satisfies validate_conversation_items in every
\* state: whatever calls a provider emits (as long as it does not use the
\* synthetic ids), wherever the response is cancelled and whatever
\* prune_history drops, no provider turn fails as InvalidTranscript.
THEOREM TranscriptValidHolds ==
    ASSUME SyntheticIdsApart PROVE Spec => []TranscriptValid
  <1>1. Init => HistoryInv /\ PairingInv BY HistoryInit, PairingInit
  <1>2. HistoryInv /\ PairingInv /\ [Next]_vars => HistoryInv' /\ PairingInv'
    BY HistoryStep, PairingStep
  <1>3. PairingInv => TranscriptValid BY DEF PairingInv
  <1> QED BY <1>1, <1>2, <1>3, PTL DEF Spec
=============================================================================
