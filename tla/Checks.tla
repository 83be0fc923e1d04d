------------------------------- MODULE Checks -------------------------------
(***************************************************************************)
(* runChecks (internal/refresh/checks.go) and the browse session under it  *)
(* (pkg/apikit/apimtbrowse), one step per HTTP request: the warm-up        *)
(* rounds, the profile, UpdateLastBrowse and the phases of BrowseForum     *)
(* with their own warm-ups and updates.  Each phase decides for itself     *)
(* which errors it returns, which it only logs and what it skips.          *)
(***************************************************************************)
EXTENDS Naturals

CONSTANT Endpoints  \* the number of requests in a warm-up round

ASSUME ChecksAssumption == Endpoints \in Nat \ {0}

VARIABLES pc,            \* the next request
          i,             \* its position in the warm-up round
          updateErr,     \* what the first UpdateLastBrowse returned
          forumUpdated,  \* lastBrowseUpdated in BrowseForum
          err,           \* what runChecks returns
          ctxDone,       \* the run's context has ended
          updated,       \* history: the server has accepted some UpdateLastBrowse
          fatal          \* history: the first refusal or context error the checks must return

vars == <<pc, i, updateErr, forumUpdated, err, ctxDone, updated, fatal>>

CallErrors == {"nil", "auth", "ctx", "other"}

MainPCs == {"warmup", "profile", "rewarmup", "update"}
ForumPCs == {"forums", "forumAuthors", "warmup2", "update2", "search", "topicAuthors",
             "lastPosters", "warmup3", "update3", "viewHits", "viewForums", "viewDetail"}

TypeOK == /\ pc \in MainPCs \cup ForumPCs \cup {"ended"}
          /\ i \in 1..Endpoints
          /\ updateErr \in CallErrors
          /\ forumUpdated \in BOOLEAN
          /\ err \in CallErrors
          /\ ctxDone \in BOOLEAN
          /\ updated \in BOOLEAN
          /\ fatal \in CallErrors

Init == /\ pc = "warmup"
        /\ i = 1
        /\ updateErr = "nil"
        /\ forumUpdated = FALSE
        /\ err = "nil"
        /\ ctxDone = FALSE
        /\ updated = FALSE
        /\ fatal = "nil"

-----------------------------------------------------------------------------
(* A request and the error class of its answer: Session.do and             *)
(* parseResponse.  After the end of the context nothing is sent any more.  *)
Answers(e) == /\ e \in CallErrors
              /\ ctxDone => e = "ctx"
              /\ ctxDone' \in IF e = "ctx" THEN {ctxDone, TRUE} ELSE {ctxDone}

shouldPropagateForumError(e) == e \in {"auth", "ctx"}

Goto(next) == /\ pc' = next
              /\ i' = 1
              /\ UNCHANGED err

(* runChecks returns e. *)
End(e) == /\ pc' = "ended"
          /\ i' = 1
          /\ err' = e

(* BrowseForum returns e; runChecks weighs it against the first update. *)
ForumReturns(e, ok) ==
  End(IF shouldPropagateForumError(e) THEN e
      ELSE IF ~ok THEN updateErr
      ELSE "nil")

Mark(e) == fatal' = IF shouldPropagateForumError(e) THEN e ELSE fatal

-----------------------------------------------------------------------------
(* runChecks: a step that ends the checks when it fails. *)
MainStep(here, last, next) ==
  /\ pc = here
  /\ \E e \in CallErrors :
       /\ Answers(e)
       /\ Mark(e)
       /\ IF e # "nil" THEN End(e)
          ELSE IF i < last THEN pc' = here /\ i' = i + 1 /\ UNCHANGED err
          ELSE Goto(next)
  /\ UNCHANGED <<updateErr, forumUpdated, updated>>

Warmup == MainStep("warmup", Endpoints, "profile")

Profile == MainStep("profile", 1, "rewarmup")

Rewarmup == MainStep("rewarmup", Endpoints, "update")

(* The first UpdateLastBrowse fails softly. *)
UpdateMustWork ==
  /\ pc = "update"
  /\ \E e \in CallErrors : /\ Answers(e)
                           /\ updateErr' = e
                           /\ updated' = (e = "nil")
                           /\ IF e = "nil" THEN Goto("forums") ELSE End(e)
  /\ UNCHANGED <<forumUpdated, fatal>>

UpdateLastBrowse ==
  /\ pc = "update"
  /\ \E e \in CallErrors : /\ Answers(e)
                           /\ updateErr' = e
                           /\ updated' = (e = "nil")
  /\ Goto("forums")
  /\ UNCHANGED <<forumUpdated, fatal>>

-----------------------------------------------------------------------------
(* A phase of BrowseForum whose ordinary errors end the browsing quietly;  *)
(* `next' are the phases that may follow, depending on the lists returned. *)
ForumStep(here, next) ==
  /\ pc = here
  /\ \E e \in CallErrors :
       /\ Answers(e)
       /\ Mark(e)
       /\ \/ e = "nil" /\ \E n \in next : Goto(n)
          \/ e # "nil" /\ ForumReturns(e, forumUpdated)
  /\ UNCHANGED <<updateErr, forumUpdated, updated>>

(* A phase whose ordinary errors are only logged. *)
SwallowsAll(here, next) ==
  /\ pc = here
  /\ \E e \in CallErrors : Answers(e) /\ Mark(e)
  /\ \E n \in next : Goto(n)
  /\ UNCHANGED <<updateErr, forumUpdated, updated>>

OptionalStep(here, next) ==
  /\ pc = here
  /\ \E e \in CallErrors :
       /\ Answers(e)
       /\ Mark(e)
       /\ IF shouldPropagateForumError(e)
            THEN ForumReturns(e, forumUpdated)
            ELSE \E n \in next : Goto(n)
  /\ UNCHANGED <<updateErr, forumUpdated, updated>>

(* BrowseForum has nothing more to visit. *)
NothingToVisit(here) ==
  /\ pc = here
  /\ ~ctxDone
  /\ ForumReturns("nil", forumUpdated)
  /\ UNCHANGED <<updateErr, forumUpdated, ctxDone, updated, fatal>>

(* Phase 1: the forums; none leaves nothing to visit. *)
Forums == ForumStep("forums", {"forumAuthors", "warmup2"}) \/ NothingToVisit("forums")

ForumAuthors == OptionalStep("forumAuthors", {"warmup2"})

(* Phases 2 and 3: a warm-up round that stops at its first error, *)
ForumWarmup(here, next) ==
  /\ pc = here
  /\ \E e \in CallErrors :
       /\ Answers(e)
       /\ Mark(e)
       /\ IF shouldPropagateForumError(e) THEN ForumReturns(e, forumUpdated)
          ELSE IF e = "nil" /\ i < Endpoints THEN pc' = here /\ i' = i + 1 /\ UNCHANGED err
          ELSE Goto(next)
  /\ UNCHANGED <<updateErr, forumUpdated, updated>>

(* and another UpdateLastBrowse. *)
LastAnswerCounts(here, next) ==
  /\ pc = here
  /\ \E e \in CallErrors :
       /\ Answers(e)
       /\ Mark(e)
       /\ forumUpdated' = (e = "nil")
       /\ updated' = (updated \/ e = "nil")
       /\ IF shouldPropagateForumError(e) THEN ForumReturns(e, forumUpdated) ELSE Goto(next)
  /\ UNCHANGED updateErr

ForumUpdate(here, next) ==
  /\ pc = here
  /\ \E e \in CallErrors :
       /\ Answers(e)
       /\ Mark(e)
       /\ forumUpdated' = (forumUpdated \/ e = "nil")
       /\ updated' = (updated \/ e = "nil")
       /\ IF shouldPropagateForumError(e) THEN ForumReturns(e, forumUpdated) ELSE Goto(next)
  /\ UNCHANGED updateErr

Phase2 == ForumWarmup("warmup2", "update2") \/ ForumUpdate("update2", "search")

SearchTopics == \/ ForumStep("search", {"topicAuthors", "lastPosters", "warmup3"})
                \/ NothingToVisit("search")

ResolveMembers == \/ OptionalStep("topicAuthors", {"lastPosters", "warmup3"})
                  \/ OptionalStep("lastPosters", {"warmup3"})

Phase3 == ForumWarmup("warmup3", "update3") \/ ForumUpdate("update3", "viewHits")

ViewTopic == \/ ForumStep("viewHits", {"viewForums"})
             \/ ForumStep("viewForums", {"viewDetail"})

(* The last request: BrowseForum returns nil unless it must propagate. *)
ViewDetail == /\ pc = "viewDetail"
              /\ \E e \in CallErrors :
                   /\ Answers(e)
                   /\ Mark(e)
                   /\ ForumReturns(e, forumUpdated)
              /\ UNCHANGED <<updateErr, forumUpdated, updated>>

BrowseForum == \/ Forums \/ ForumAuthors \/ Phase2 \/ SearchTopics \/ ResolveMembers
               \/ Phase3 \/ ViewTopic \/ ViewDetail

Ended == pc = "ended" /\ UNCHANGED vars

Next == \/ Warmup \/ Profile \/ Rewarmup \/ UpdateLastBrowse \/ BrowseForum
        \/ Ended

Spec == Init /\ [][Next]_vars

-----------------------------------------------------------------------------
(* A check of a session succeeds exactly when the server accepted some     *)
(* UpdateLastBrowse, the first one or one of the forum phases, and no      *)
(* later request was refused or cut off: ordinary errors of the forum are  *)
(* best effort, and a success is not forgotten when a later update fails.  *)
SuccessMeansUpdated == pc = "ended" => (err = "nil" <=> updated /\ fatal = "nil")

(* A refusal or a context error of any request but the first update ends   *)
(* the checks at once and is what they return: it is not drowned in the    *)
(* best effort of the forum, so that an expired login is noticed.          *)
RefusalSurfaces == fatal # "nil" => pc = "ended" /\ err = fatal

-----------------------------------------------------------------------------
(* What makes the two properties inductive: nothing has been achieved or   *)
(* lost before the forum, and in it the two flags tell what was achieved.  *)
Progress ==
  /\ pc # "ended" => err = "nil"
  /\ pc \in MainPCs => ~updated /\ ~forumUpdated /\ updateErr = "nil"
  /\ pc \in ForumPCs => (updated <=> updateErr = "nil" \/ forumUpdated)

IInv == TypeOK /\ Progress /\ RefusalSurfaces /\ SuccessMeansUpdated

-----------------------------------------------------------------------------
(* The phases behave as the five calls that module Refresh knows. *)
Calls == INSTANCE KeepAlive WITH stage <- IF pc \in ForumPCs THEN "forum" ELSE pc

(* Every run of the phases is one of the call-level specification.         *)
ImplementsCalls == Calls!Spec
=============================================================================
