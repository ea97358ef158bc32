------------------------------ MODULE PagedCall ------------------------------
(***************************************************************************)
(* A listing followed to its end (page.rs: walk), one call for each page,  *)
(* and each call as many attempts as the credential hook asks for (http.rs:*)
(* send_call), over a network that loses requests and answers and a server *)
(* that may repeat cursors and may change the listing under the walk.      *)
(***************************************************************************)
EXTENDS Naturals, Sequences, FiniteSets

CONSTANTS
  Cursors,
  First,       \* the first page: it has no cursor
  Null, Blank, \* no next cursor: absent, or empty
  MaxAttempts

ASSUME WalkAssumption ==
  /\ First \notin Cursors /\ Null \notin Cursors /\ Blank \notin Cursors
  /\ Null \notin {"ok", "failed"} /\ MaxAttempts \in Nat \ {0}

VARIABLES
  listing,     \* the server: the next cursor that each page names
  steady,      \* whether the listing has not changed since the walk began
  doing,       \* "start", "send", "judge", "done"
  cursor,      \* of the page that is asked for
  seen,        \* the cursors followed so far
  pages,       \* the pages collected
  attempt,     \* of the call for the page
  carriedOut,  \* how often the server has carried that call out
  outcome      \* of the walk: Null, "ok", "failed"

walkVars == <<listing, steady, doing, cursor, seen, pages, attempt, carriedOut, outcome>>

Pages == {First} \cup Cursors
Listing == [Pages -> Cursors \cup {Null, Blank}]
Unknown == [p \in Pages |-> Null]

WalkTypeOK ==
  /\ listing \in Listing /\ steady \in BOOLEAN
  /\ doing \in {"start", "send", "judge", "done"}
  /\ cursor \in Pages /\ seen \subseteq Cursors
  /\ pages \in Seq(Pages)
  /\ attempt \in 1 .. MaxAttempts /\ carriedOut \in 0 .. MaxAttempts
  /\ outcome \in {Null, "ok", "failed"}

WalkInit ==
  /\ listing = Unknown /\ steady = TRUE
  /\ doing = "start" /\ cursor = First /\ seen = {} /\ pages = <<>>
  /\ attempt = 1 /\ carriedOut = 0 /\ outcome = Null

---------------------------------------------------------------------------

\* A consumer lists something.
Walk ==
  /\ doing = "start" /\ doing' = "send"
  /\ listing' \in Listing
  /\ UNCHANGED <<steady, cursor, seen, pages, attempt, carriedOut, outcome>>

\* The server changes the listing.
Change ==
  /\ doing \in {"send", "judge"} /\ steady /\ steady' = FALSE
  /\ listing' \in Listing
  /\ UNCHANGED <<doing, cursor, seen, pages, attempt, carriedOut, outcome>>

Return(o) == doing' = "done" /\ outcome' = o /\ UNCHANGED <<cursor, seen, pages, attempt, carriedOut>>

\* Page::next.
NextOf(next) == IF next \in {Null, Blank} THEN {} ELSE {next}

\* Mutant: nobody looks at what was followed before.
Follows(next) == NextOf(next)

\* The cursor to go on with, unless the server has served it before.
Unseen(next) == NextOf(next) \ seen

CarriedOut == IF carriedOut < MaxAttempts THEN carriedOut + 1 ELSE carriedOut

\* A page arrives: the walk goes on, or ends.
Collect ==
  LET go == Unseen(listing[cursor])
  IN  /\ pages' = Append(pages, cursor)
      /\ IF go = {}
           THEN /\ doing' = "done" /\ outcome' = "ok" /\ carriedOut' = CarriedOut
                /\ UNCHANGED <<cursor, seen, attempt>>
           ELSE /\ cursor' = listing[cursor] /\ seen' = seen \cup go
                /\ attempt' = 1 /\ carriedOut' = 0 /\ doing' = "send"
                /\ UNCHANGED outcome

Judged == doing' = "judge" /\ UNCHANGED <<cursor, seen, pages, attempt, outcome>>

\* Mutant: a server's error puts the credential in question too.
ErrorJudged == (carriedOut' = CarriedOut \/ UNCHANGED carriedOut) /\ Judged

\* Another status than success is the caller's to see, and 401 alone the hook's.
Errs ==
  /\ carriedOut' = CarriedOut \/ UNCHANGED carriedOut
  /\ doing' = "done" /\ outcome' = "failed" /\ UNCHANGED <<cursor, seen, pages, attempt>>

\* One attempt: a page; an error of the server, a redirect or no answer at all,
\* whether or not the call was carried out; a hook that cannot authorize it; or 401.
Attempt ==
  /\ doing = "send"
  /\ \/ Collect
     \/ Errs
     \/ Return("failed")
     \/ Judged /\ UNCHANGED carriedOut
  /\ UNCHANGED <<listing, steady>>

\* Mutant: the hook is trusted to stop.
AsOftenAsAsked == TRUE

MayRetry == attempt < MaxAttempts

\* The hook: Retry, and Surface or Fail.
OnUnauthorized ==
  /\ doing = "judge"
  /\ \/ /\ MayRetry /\ doing' = "send"
        /\ attempt' = IF attempt < MaxAttempts THEN attempt + 1 ELSE attempt
        /\ UNCHANGED <<cursor, seen, pages, carriedOut, outcome>>
     \/ Return("failed")
  /\ UNCHANGED <<listing, steady>>

WalkNext == Walk \/ Change \/ Attempt \/ OnUnauthorized

WalkSpec == WalkInit /\ [][WalkNext]_walkVars
\* The consumer's hook answers.  The server need not: the client sets no timeout.
WalkFairSpec == WalkSpec /\ WF_walkVars(OnUnauthorized)

---------------------------------------------------------------------------
(* Properties.                                                             *)

\* A walk that ends well has every page of a listing that held still, once each,
\* also where its cursors run in a circle.
WalkIsWhole ==
  outcome = "ok" =>
    LET got == {pages[i] : i \in 1 .. Len(pages)}
    IN  /\ Cardinality(got) = Len(pages)
        /\ steady => First \in got /\ \A p \in got : listing[p] \in got \cup {Null, Blank}

\* However many attempts a call costs, the server carries it out once at most.
CarriedOutOnce == carriedOut <= 1

\* However a server repeats its cursors and whatever the hook asks for, a walk does not
\* go on for ever: it takes finitely many steps, and then has returned, or waits for
\* one answer that never comes.  (A server could still invent cursors without end.)
WalkEnds ==
  /\ <>[][FALSE]_<<doing, cursor, seen, pages, attempt>>
  /\ <>[](doing # "judge")
=============================================================================
