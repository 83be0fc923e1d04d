---------------------------- MODULE ChecksProofs ----------------------------
(***************************************************************************)
(* For warm-up rounds of any length: what a successful check of a session  *)
(* means, that a refusal is never lost, and that the phases implement the  *)
(* call-level specification KeepAlive.                                     *)
(***************************************************************************)
EXTENDS Checks, TLAPS

(* The context ends at most once and stays a truth value.                  *)
LEMMA ContextTyped ==
  ASSUME TypeOK, NEW e, Answers(e)
  PROVE  ctxDone' \in BOOLEAN
<1>1. ctxDone' \in {ctxDone, TRUE}
  BY DEF Answers
<1> QED BY <1>1 DEF TypeOK

(* A request of a forum phase, whether the browsing goes on after it or    *)
(* BrowseForum returns with it, keeps the invariant.                       *)
LEMMA ForumKeeps ==
  ASSUME IInv, pc \in ForumPCs, NEW e \in CallErrors, NEW ok \in BOOLEAN,
         ctxDone' \in BOOLEAN, Mark(e), UNCHANGED updateErr,
         forumUpdated' = (forumUpdated \/ ok), updated' = (updated \/ ok),
         ok => e = "nil",
         \/ pc' \in ForumPCs /\ ~shouldPropagateForumError(e) /\ UNCHANGED err /\ i' \in 1..Endpoints
         \/ ForumReturns(e, forumUpdated')
  PROVE  IInv'
<1>1. /\ fatal = "nil" /\ err = "nil" /\ pc # "ended"
      /\ (updated <=> updateErr = "nil" \/ forumUpdated)
  BY DEF IInv, Progress, RefusalSurfaces, ForumPCs
<1>2. forumUpdated' \in BOOLEAN /\ updated' \in BOOLEAN
  BY DEF IInv, TypeOK
<1>3. updated' <=> updateErr = "nil" \/ forumUpdated'
  BY <1>1
<1>4. fatal' = IF shouldPropagateForumError(e) THEN e ELSE "nil"
  BY <1>1 DEF Mark
<1>5. CASE pc' \in ForumPCs /\ ~shouldPropagateForumError(e) /\ UNCHANGED err /\ i' \in 1..Endpoints
  BY <1>1, <1>2, <1>3, <1>4, <1>5
     DEF IInv, TypeOK, Progress, RefusalSurfaces, SuccessMeansUpdated, ForumPCs, MainPCs, CallErrors
<1>6. CASE ForumReturns(e, forumUpdated')
  <2>1. /\ pc' = "ended" /\ i' = 1
        /\ err' = IF shouldPropagateForumError(e) THEN e
                  ELSE IF ~forumUpdated' THEN updateErr ELSE "nil"
    BY <1>6 DEF ForumReturns, End
  <2>2. TypeOK'
    BY <1>1, <1>2, <1>4, <2>1, ChecksAssumption DEF IInv, TypeOK, CallErrors
  <2>3. RefusalSurfaces'
    BY <1>4, <2>1 DEF RefusalSurfaces
  <2>4. SuccessMeansUpdated'
    BY <1>3, <1>4, <2>1 DEF SuccessMeansUpdated, shouldPropagateForumError
  <2> QED BY <2>1, <2>2, <2>3, <2>4 DEF IInv, Progress, MainPCs, ForumPCs
<1> QED BY <1>5, <1>6

-----------------------------------------------------------------------------
(* The checks before the forum: a failing request ends them.               *)
LEMMA MainKeeps ==
  ASSUME IInv, NEW here \in MainPCs, NEW last \in 1..Endpoints, NEW next \in MainPCs,
         MainStep(here, last, next)
  PROVE  IInv'
<1>1. /\ pc \in MainPCs /\ fatal = "nil" /\ err = "nil"
      /\ ~updated /\ ~forumUpdated /\ updateErr = "nil"
  BY DEF IInv, Progress, RefusalSurfaces, MainStep, MainPCs
<1>2. PICK e \in CallErrors : /\ Answers(e) /\ Mark(e)
                              /\ \/ e # "nil" /\ End(e)
                                 \/ e = "nil" /\ pc' = here /\ i < last /\ i' = i + 1 /\ UNCHANGED err
                                 \/ e = "nil" /\ Goto(next)
  BY DEF MainStep
<1>3. UNCHANGED <<updateErr, forumUpdated, updated>>
  BY DEF MainStep
<1>4. ctxDone' \in BOOLEAN
  BY <1>2, ContextTyped DEF IInv
<1>5. CASE e # "nil" /\ End(e)
  BY <1>1, <1>2, <1>3, <1>4, <1>5, ChecksAssumption
     DEF IInv, TypeOK, Progress, RefusalSurfaces, SuccessMeansUpdated, End, Mark,
         shouldPropagateForumError, MainPCs, ForumPCs, CallErrors
<1>6. CASE e = "nil" /\ pc' \in MainPCs /\ i' \in 1..Endpoints /\ UNCHANGED err
  BY <1>1, <1>2, <1>3, <1>4, <1>6
     DEF IInv, TypeOK, Progress, RefusalSurfaces, SuccessMeansUpdated, Mark,
         shouldPropagateForumError, MainPCs, ForumPCs, CallErrors
<1>7. i < last => i + 1 \in 1..Endpoints
  BY ChecksAssumption DEF IInv, TypeOK
<1> QED BY <1>2, <1>5, <1>6, <1>7, ChecksAssumption DEF Goto

(* The first update hands its error over to the forum.                     *)
LEMMA UpdateKeeps ==
  ASSUME IInv, UpdateLastBrowse
  PROVE  IInv'
<1>1. /\ fatal = "nil" /\ err = "nil" /\ ~forumUpdated
  BY DEF IInv, Progress, RefusalSurfaces, UpdateLastBrowse, MainPCs
<1>2. PICK e \in CallErrors : Answers(e) /\ updateErr' = e /\ updated' = (e = "nil")
  BY DEF UpdateLastBrowse
<1>3. ctxDone' \in BOOLEAN
  BY <1>2, ContextTyped DEF IInv
<1>4. /\ pc' = "forums" /\ i' = 1 /\ err' = "nil" /\ fatal' = "nil"
      /\ UNCHANGED forumUpdated
  BY <1>1 DEF UpdateLastBrowse, Goto
<1>5. updated' \in BOOLEAN /\ forumUpdated' \in BOOLEAN
  BY <1>2, <1>4 DEF IInv, TypeOK
<1>6. TypeOK'
  BY <1>2, <1>3, <1>4, <1>5, ChecksAssumption DEF TypeOK, ForumPCs, CallErrors
<1>7. Progress'
  BY <1>1, <1>2, <1>4 DEF Progress, MainPCs, ForumPCs
<1> QED BY <1>4, <1>6, <1>7 DEF IInv, RefusalSurfaces, SuccessMeansUpdated

(* A request of the forum that is not an update.                           *)
LEMMA VisitKeeps ==
  ASSUME IInv, pc \in ForumPCs, NEW e \in CallErrors, Answers(e), Mark(e),
         UNCHANGED <<updateErr, forumUpdated, updated>>,
         \/ pc' \in ForumPCs /\ ~shouldPropagateForumError(e) /\ UNCHANGED err /\ i' \in 1..Endpoints
         \/ ForumReturns(e, forumUpdated)
  PROVE  IInv'
<1>1. ctxDone' \in BOOLEAN
  BY ContextTyped DEF IInv
<1>2. forumUpdated' = (forumUpdated \/ FALSE) /\ updated' = (updated \/ FALSE)
  BY DEF IInv, TypeOK
<1>3. \/ pc' \in ForumPCs /\ ~shouldPropagateForumError(e) /\ UNCHANGED err /\ i' \in 1..Endpoints
      \/ ForumReturns(e, forumUpdated')
  OBVIOUS
<1> QED BY <1>1, <1>2, <1>3, ForumKeeps

(* Phases whose ordinary errors end the browsing, or are only logged.      *)
LEMMA StepKeeps ==
  ASSUME IInv, NEW here \in ForumPCs, NEW next \in SUBSET ForumPCs,
         ForumStep(here, next) \/ OptionalStep(here, next)
  PROVE  IInv'
<1>1. PICK e \in CallErrors : /\ Answers(e) /\ Mark(e)
                              /\ \/ ~shouldPropagateForumError(e) /\ \E n \in next : Goto(n)
                                 \/ ForumReturns(e, forumUpdated)
  BY DEF ForumStep, OptionalStep, shouldPropagateForumError
<1>2. pc \in ForumPCs /\ UNCHANGED <<updateErr, forumUpdated, updated>>
  BY DEF ForumStep, OptionalStep
<1>3. (\E n \in next : Goto(n)) => pc' \in ForumPCs /\ UNCHANGED err /\ i' \in 1..Endpoints
  BY ChecksAssumption DEF Goto
<1> QED BY <1>1, <1>2, <1>3, VisitKeeps

(* The warm-up rounds between the phases.                                  *)
LEMMA ForumWarmupKeeps ==
  ASSUME IInv, NEW here \in ForumPCs, NEW next \in ForumPCs, ForumWarmup(here, next)
  PROVE  IInv'
<1>1. PICK e \in CallErrors : /\ Answers(e) /\ Mark(e)
                              /\ \/ ForumReturns(e, forumUpdated)
                                 \/ /\ ~shouldPropagateForumError(e)
                                    /\ \/ pc' = here /\ i < Endpoints /\ i' = i + 1 /\ UNCHANGED err
                                       \/ Goto(next)
  BY DEF ForumWarmup
<1>2. pc \in ForumPCs /\ UNCHANGED <<updateErr, forumUpdated, updated>>
  BY DEF ForumWarmup
<1>3. i < Endpoints => i + 1 \in 1..Endpoints
  BY ChecksAssumption DEF IInv, TypeOK
<1>4. Goto(next) => pc' \in ForumPCs /\ UNCHANGED err /\ i' \in 1..Endpoints
  BY ChecksAssumption DEF Goto
<1> QED BY <1>1, <1>2, <1>3, <1>4, VisitKeeps

(* The updates between the phases.                                         *)
LEMMA ForumUpdateKeeps ==
  ASSUME IInv, NEW here \in ForumPCs, NEW next \in ForumPCs, ForumUpdate(here, next)
  PROVE  IInv'
<1>1. PICK e \in CallErrors : /\ Answers(e) /\ Mark(e)
                              /\ forumUpdated' = (forumUpdated \/ e = "nil")
                              /\ updated' = (updated \/ e = "nil")
                              /\ \/ shouldPropagateForumError(e) /\ ForumReturns(e, forumUpdated)
                                 \/ ~shouldPropagateForumError(e) /\ Goto(next)
  BY DEF ForumUpdate
<1>2. pc \in ForumPCs /\ UNCHANGED updateErr
  BY DEF ForumUpdate
<1>3. ctxDone' \in BOOLEAN
  BY <1>1, ContextTyped DEF IInv
<1>4. \/ pc' \in ForumPCs /\ ~shouldPropagateForumError(e) /\ UNCHANGED err /\ i' \in 1..Endpoints
      \/ ForumReturns(e, forumUpdated')
  BY <1>1, ChecksAssumption DEF Goto, ForumReturns
<1>5. PICK ok \in BOOLEAN : ok = (e = "nil")
  OBVIOUS
<1> QED BY <1>1, <1>2, <1>3, <1>4, <1>5, ForumKeeps

(* BrowseForum leaves early because a list was empty.                      *)
LEMMA NothingKeeps ==
  ASSUME IInv, NEW here \in ForumPCs, NothingToVisit(here)
  PROVE  IInv'
<1>1. /\ pc \in ForumPCs /\ ForumReturns("nil", forumUpdated')
      /\ UNCHANGED <<updateErr, forumUpdated, ctxDone, updated, fatal>>
  BY DEF NothingToVisit
<1>2. Mark("nil") /\ ctxDone' \in BOOLEAN
  BY <1>1 DEF Mark, shouldPropagateForumError, IInv, TypeOK
<1>3. forumUpdated' = (forumUpdated \/ FALSE) /\ updated' = (updated \/ FALSE)
  BY <1>1 DEF IInv, TypeOK
<1> QED BY <1>1, <1>2, <1>3, ForumKeeps DEF CallErrors

(* The last request of the forum.                                          *)
LEMMA ViewDetailKeeps ==
  ASSUME IInv, ViewDetail
  PROVE  IInv'
<1>1. PICK e \in CallErrors : Answers(e) /\ Mark(e) /\ ForumReturns(e, forumUpdated)
  BY DEF ViewDetail
<1>2. pc \in ForumPCs /\ UNCHANGED <<updateErr, forumUpdated, updated>>
  BY DEF ViewDetail, ForumPCs
<1> QED BY <1>1, <1>2, VisitKeeps

(* The disjuncts of BrowseForum, by the kind of their request.             *)
LEMMA ForumCases ==
  ASSUME BrowseForum
  PROVE  \/ \E here \in ForumPCs, next \in SUBSET ForumPCs :
              ForumStep(here, next) \/ OptionalStep(here, next)
         \/ \E here \in ForumPCs, next \in ForumPCs :
              ForumWarmup(here, next) \/ ForumUpdate(here, next)
         \/ \E here \in ForumPCs : NothingToVisit(here)
         \/ ViewDetail
<1>1. Forums \/ SearchTopics =>
        \/ \E here \in ForumPCs, next \in SUBSET ForumPCs : ForumStep(here, next)
        \/ \E here \in ForumPCs : NothingToVisit(here)
  BY DEF Forums, SearchTopics, ForumPCs
<1>2. ForumAuthors \/ ResolveMembers =>
        \E here \in ForumPCs, next \in SUBSET ForumPCs : OptionalStep(here, next)
  BY DEF ForumAuthors, ResolveMembers, ForumPCs
<1>3. Phase2 \/ Phase3 =>
        \E here \in ForumPCs, next \in ForumPCs : ForumWarmup(here, next) \/ ForumUpdate(here, next)
  BY DEF Phase2, Phase3, ForumPCs
<1>4. ViewTopic => \E here \in ForumPCs, next \in SUBSET ForumPCs : ForumStep(here, next)
  BY DEF ViewTopic, ForumPCs
<1> QED BY <1>1, <1>2, <1>3, <1>4 DEF BrowseForum

(* Every step keeps the invariant.                                         *)
LEMMA NextKeeps ==
  ASSUME IInv, [Next]_vars
  PROVE  IInv'
<1>1. CASE Warmup \/ Profile \/ Rewarmup
  BY <1>1, MainKeeps, ChecksAssumption DEF Warmup, Profile, Rewarmup, MainPCs
<1>2. CASE UpdateLastBrowse
  BY <1>2, UpdateKeeps
<1>3. CASE BrowseForum
  BY <1>3, ForumCases, StepKeeps, ForumWarmupKeeps, ForumUpdateKeeps, NothingKeeps, ViewDetailKeeps
<1>4. CASE UNCHANGED vars
  BY <1>4 DEF vars, IInv, TypeOK, Progress, RefusalSurfaces, SuccessMeansUpdated
<1> QED BY <1>1, <1>2, <1>3, <1>4 DEF Next, Ended

(* The inductive invariant: types, what the flags of runChecks and         *)
(* BrowseForum have recorded so far, and the two properties.               *)
THEOREM Invariant == Spec => []IInv
<1>1. Init => IInv
  <2> SUFFICES ASSUME Init PROVE IInv
    OBVIOUS
  <2>1. TypeOK
    <3>1. forumUpdated \in BOOLEAN /\ ctxDone \in BOOLEAN /\ updated \in BOOLEAN
      BY DEF Init
    <3> QED BY <3>1, ChecksAssumption DEF Init, TypeOK, MainPCs, CallErrors
  <2>2. Progress
    BY DEF Init, Progress, MainPCs, ForumPCs
  <2> QED BY <2>1, <2>2 DEF Init, IInv, RefusalSurfaces, SuccessMeansUpdated
<1> QED BY <1>1, NextKeeps, PTL DEF Spec

(* runChecks succeeds exactly when an update was accepted and nothing had  *)
(* to be reported, for warm-up rounds of any length.                       *)
THEOREM ChecksTellTheTruth == Spec => []SuccessMeansUpdated
<1>1. IInv => SuccessMeansUpdated
  BY DEF IInv
<1> QED BY <1>1, Invariant, PTL

(* No phase of the forum drowns a refusal or the end of the context.       *)
THEOREM RefusalNeverLost == Spec => []RefusalSurfaces
<1>1. IInv => RefusalSurfaces
  BY DEF IInv
<1> QED BY <1>1, Invariant, PTL

-----------------------------------------------------------------------------
(* A request before the forum is a step inside a call of KeepAlive, or the *)
(* end of that call.                                                       *)
LEMMA MainRefines ==
  ASSUME IInv, NEW here \in {"warmup", "profile", "rewarmup"}, NEW last, NEW next \in MainPCs,
         MainStep(here, last, next)
  PROVE  Calls!Call(here, next) \/ UNCHANGED Calls!vars
<1>1. here \notin ForumPCs /\ next \notin ForumPCs /\ "ended" \notin ForumPCs
  BY DEF MainPCs, ForumPCs
<1>2. pc = here /\ err = "nil" /\ UNCHANGED updateErr
  BY DEF MainStep, IInv, Progress
<1>3. PICK e \in CallErrors : \/ e # "nil" /\ pc' = "ended" /\ err' = e
                              \/ pc' = here /\ UNCHANGED err
                              \/ pc' = next /\ UNCHANGED err
  BY DEF MainStep, End, Goto
<1> QED BY <1>1, <1>2, <1>3 DEF Calls!Call, Calls!vars, Calls!CallErrors, CallErrors

(* A request of the forum is a step inside BrowseForum or its return.      *)
LEMMA ForumRefines ==
  ASSUME pc \in ForumPCs, UNCHANGED updateErr,
         \/ pc' \in ForumPCs /\ UNCHANGED err
         \/ pc' = "ended" /\ err' \in {"auth", "ctx", "nil", updateErr}
  PROVE  Calls!Forum \/ UNCHANGED Calls!vars
<1>1. "ended" \notin ForumPCs
  BY DEF ForumPCs
<1> QED BY <1>1 DEF Calls!Forum, Calls!vars

(* Each kind of request of the forum is one of the two.                    *)
LEMMA BrowseForumRefines ==
  ASSUME BrowseForum
  PROVE  Calls!Forum \/ UNCHANGED Calls!vars
<1>1. ASSUME NEW e, NEW ok, ForumReturns(e, ok)
      PROVE  pc' = "ended" /\ err' \in {"auth", "ctx", "nil", updateErr}
  BY <1>1 DEF ForumReturns, End, shouldPropagateForumError
<1>2. ASSUME NEW here \in ForumPCs, NEW next \in SUBSET ForumPCs,
             ForumStep(here, next) \/ OptionalStep(here, next)
      PROVE  /\ pc \in ForumPCs /\ UNCHANGED updateErr
             /\ \/ pc' \in ForumPCs /\ UNCHANGED err
                \/ pc' = "ended" /\ err' \in {"auth", "ctx", "nil", updateErr}
  BY <1>1, <1>2 DEF ForumStep, OptionalStep, Goto
<1>3. ASSUME NEW here \in ForumPCs, NEW next \in ForumPCs,
             ForumWarmup(here, next) \/ ForumUpdate(here, next)
      PROVE  /\ pc \in ForumPCs /\ UNCHANGED updateErr
             /\ \/ pc' \in ForumPCs /\ UNCHANGED err
                \/ pc' = "ended" /\ err' \in {"auth", "ctx", "nil", updateErr}
  BY <1>1, <1>3 DEF ForumWarmup, ForumUpdate, Goto
<1>4. ASSUME NEW here \in ForumPCs, NothingToVisit(here)
      PROVE  /\ pc \in ForumPCs /\ UNCHANGED updateErr
             /\ pc' = "ended" /\ err' \in {"auth", "ctx", "nil", updateErr}
  BY <1>1, <1>4 DEF NothingToVisit
<1>5. ASSUME ViewDetail
      PROVE  /\ pc \in ForumPCs /\ UNCHANGED updateErr
             /\ pc' = "ended" /\ err' \in {"auth", "ctx", "nil", updateErr}
  BY <1>1, <1>5 DEF ViewDetail, ForumPCs
<1> QED BY <1>2, <1>3, <1>4, <1>5, ForumCases, ForumRefines

(* The request-level checks implement KeepAlive, the calls that module     *)
(* Refresh builds on: every request is a step inside a call or the end of  *)
(* one, with the error that runChecks has to return.                       *)
THEOREM PhasesImplementCalls == Spec => ImplementsCalls
<1>1. Init => Calls!Init
  BY DEF Init, Calls!Init, ForumPCs
<1>2. IInv /\ [Next]_vars => [Calls!Next]_(Calls!vars)
  <2> SUFFICES ASSUME IInv, [Next]_vars PROVE [Calls!Next]_(Calls!vars)
    OBVIOUS
  <2>1. CASE Warmup
    BY <2>1, MainRefines DEF Warmup, MainPCs, Calls!Next
  <2>2. CASE Profile
    BY <2>2, MainRefines DEF Profile, MainPCs, Calls!Next
  <2>3. CASE Rewarmup
    BY <2>3, MainRefines DEF Rewarmup, MainPCs, Calls!Next
  <2>4. CASE UpdateLastBrowse
    <3>1. pc = "update" /\ pc' = "forums" /\ updateErr' \in CallErrors /\ UNCHANGED err
      BY <2>4 DEF UpdateLastBrowse, Goto
    <3> QED BY <3>1 DEF Calls!Next, Calls!Update, Calls!CallErrors, CallErrors, ForumPCs
  <2>5. CASE BrowseForum
    BY <2>5, BrowseForumRefines DEF Calls!Next
  <2>6. CASE UNCHANGED vars
    BY <2>6 DEF vars, Calls!vars
  <2> QED BY <2>1, <2>2, <2>3, <2>4, <2>5, <2>6 DEF Next, Ended
<1> QED BY <1>1, <1>2, Invariant, PTL DEF Spec, ImplementsCalls, Calls!Spec
=============================================================================
